------------------------------ MODULE UciCore ------------------------------
(***************************************************************************)
(* The UCI core: the UWB task of libs/uci-core (uwb_task.c), its mailbox   *)
(* (UwbAdaptation.c), the command window, timeout and re-transmission of   *)
(* uwb_ucif.c, and the quick timer that the FreeRTOS timer daemon expires. *)
(*                                                                         *)
(* The module is open: the callers that post commands, the reader thread   *)
(* that posts packets and the controller are PostCmd and PostPkt, free to  *)
(* post anything the mailbox has room for.  UwbStack closes it.            *)
(*                                                                         *)
(* One step is one handler of the UWB task, cut after an upcall where the  *)
(* handler still changes state: the woken caller may post its next command *)
(* before the window is updated.  The daemon outranks every task, so its   *)
(* callback is one step.                                                   *)
(*                                                                         *)
(* Packets arrive reassembled.  The stack is enabled and stays enabled.    *)
(***************************************************************************)
EXTENDS Naturals, Sequences

CONSTANTS Hdr,          \* the group/opcode pairs a header can carry
          ZeroHdr,      \* what a zeroed header reads as: CORE_DEVICE_RESET
          Tag,          \* ghost identity of a command, never read by the code
          MaxRetry,     \* UCI_CMD_MAX_RETRY_COUNT, 20 on this target
          QueueLen      \* configTML_QUEUE_LENGTH, 50 on this target

ASSUME UciCoreAssumption ==
    /\ ZeroHdr \in Hdr
    /\ MaxRetry \in Nat
    /\ QueueLen \in Nat

(***************************************************************************)
(* frag tells how the command reaches the transport: "whole" is one packet *)
(* with the PBF bit clear; "more" is one packet with the PBF bit set, which*)
(* is not answered; "long" is the loop of uci_snd_cmd, packets with PBF set*)
(* and then a last one with PBF clear.  raw: sent by UWA_SendRawCommand,   *)
(* with a callback of its own.  data: a data message, not a command.       *)
(***************************************************************************)
Command ==
    {c \in [raw : BOOLEAN, data : BOOLEAN, frag : {"whole", "more", "long"},
            hdr : Hdr, tag : Tag] :
        c.frag = "long" => ~c.raw /\ ~c.data}

NoCmd == [frag |-> "none", hdr |-> ZeroHdr]

(***************************************************************************)
(* Notifications are told apart only as far as the core does: the two data *)
(* credit notifications, a DEVICE_STATUS of WAKEUP or ERROR ("fault"), and *)
(* the others, which go straight up.                                       *)
(***************************************************************************)
NtfKind == {"credit", "nocredit", "fault", "other"}

Packet ==
    [mt : {"rsp"}, hdr : Hdr, tag : Tag]
        \cup
    [mt : {"ntf"}, kind : NtfKind]
        \cup
    [mt : {"data"}]

TimerMsg == [type |-> "timer"]

Message ==
    [type : {"cmd"}, cmd : Command] \cup [type : {"pkt"}, pkt : Packet] \cup {TimerMsg}

VARIABLES
    mbox,              \* the queue behind uwb_ctrl.pMsgQHandle
    pc,                \* the UWB task: "loop", or what is left of a handler
    uci_cmd_window,    \* uwb_cb.uci_cmd_window, at most UCI_MAX_CMD_WINDOW = 1
    is_resp_pending,   \* uwb_cb.is_resp_pending
    cmd_retry_count,   \* uwb_cb.cmd_retry_count
    pLast_cmd_buf,     \* uwb_cb.pLast_cmd_buf and uwb_cb.last_hdr
    rawCmdCbflag,      \* uwb_cb.rawCmdCbflag
    p_raw_cmd_cback,   \* TRUE iff uwb_cb.p_raw_cmd_cback is not NULL
    IsConformaceTestEnabled,   \* uwb_cb.IsConformaceTestEnabled
    timer              \* quick timer; "lost": expired on a full mailbox

window == <<uci_cmd_window, is_resp_pending, cmd_retry_count>>
raw    == <<rawCmdCbflag, p_raw_cmd_cback>>
mode   == IsConformaceTestEnabled
vars   == <<mbox, pc, uci_cmd_window, is_resp_pending, cmd_retry_count,
            pLast_cmd_buf, rawCmdCbflag, p_raw_cmd_cback,
            IsConformaceTestEnabled, timer>>

TypeOK ==
    /\ mbox \in Seq(Message)
    /\ pc \in {"loop", "window", "recover"}
    /\ uci_cmd_window \in {0, 1}
    /\ is_resp_pending \in BOOLEAN
    /\ cmd_retry_count \in 0 .. MaxRetry + 1
    /\ pLast_cmd_buf \in Command \cup {NoCmd}
    /\ rawCmdCbflag \in BOOLEAN
    /\ p_raw_cmd_cback \in BOOLEAN
    /\ IsConformaceTestEnabled \in BOOLEAN
    /\ timer \in {"off", "running", "lost"}

(* The state UWA_Init and the enable sequence leave behind. *)
Init ==
    /\ mbox = << >>
    /\ pc = "loop"
    /\ uci_cmd_window = 1
    /\ is_resp_pending = FALSE
    /\ cmd_retry_count = 0
    /\ pLast_cmd_buf = NoCmd
    /\ rawCmdCbflag = FALSE
    /\ p_raw_cmd_cback = FALSE
    /\ IsConformaceTestEnabled = FALSE
    /\ timer = "off"
-----------------------------------------------------------------------------
(* Posting: phUwb_OSAL_send_msg never waits; what finds the queue full is  *)
(* dropped, the sender is not told, and the core sees nothing.             *)

HasRoom == Len(mbox) < QueueLen

Post(m) == mbox' = IF HasRoom THEN Append(mbox, m) ELSE mbox

PostCmd(c) ==
    /\ HasRoom
    /\ Post([type |-> "cmd", cmd |-> c])
    /\ UNCHANGED <<pc, window, pLast_cmd_buf, raw, timer, mode>>

PostPkt(p) ==
    /\ HasRoom
    /\ Post([type |-> "pkt", pkt |-> p])
    /\ UNCHANGED <<pc, window, pLast_cmd_buf, raw, timer, mode>>

(* quick_timer_callback: stop the slot, post the timeout, free the slot. *)
TimerFires ==
    /\ timer = "running"
    /\ Post(TimerMsg)
    /\ timer' = IF HasRoom THEN "off" ELSE "lost"
    /\ UNCHANGED <<pc, window, pLast_cmd_buf, raw, mode>>
-----------------------------------------------------------------------------
(* The UWB task takes the oldest message. *)
Receive(m) ==
    /\ pc = "loop"
    /\ mbox # << >>
    /\ m = Head(mbox)
    /\ mbox' = Tail(mbox)

ReceiveCmd(c) == Receive([type |-> "cmd", cmd |-> c])
ReceivePkt(p) == Receive([type |-> "pkt", pkt |-> p])

(* Mutant: the flush forgets the timer. *)
FlushKeepsTimer ==
    /\ uci_cmd_window' = 1
    /\ is_resp_pending' = FALSE
    /\ cmd_retry_count' = 0
    /\ UNCHANGED timer

(* Mutant: the flush leaves the window shut. *)
FlushKeepsWindow ==
    /\ is_resp_pending' = FALSE
    /\ cmd_retry_count' = 0
    /\ timer' = "off"
    /\ UNCHANGED uci_cmd_window

(* uwb_main_flush_cmd_queue: the raw command's flag and callback survive. *)
FlushCmdQueue ==
    /\ uci_cmd_window' = 1
    /\ is_resp_pending' = FALSE
    /\ cmd_retry_count' = 0
    /\ timer' = "off"

(* Mutant: the sanity check at the top is missing. *)
UpdateUnguarded ==
    /\ uci_cmd_window' = uci_cmd_window + 1
    /\ is_resp_pending' = FALSE
    /\ cmd_retry_count' = 0
    /\ timer' = "off"
    /\ p_raw_cmd_cback' = FALSE

(* uwb_ucif_update_cmd_window: an open window means there is nothing to    *)
(* account for, and then nothing is reset either.                          *)
UpdateCmdWindow ==
    \/ /\ uci_cmd_window = 1
       /\ UNCHANGED <<window, timer, p_raw_cmd_cback>>
    \/ /\ uci_cmd_window = 0
       /\ uci_cmd_window' = 1
       /\ is_resp_pending' = FALSE
       /\ cmd_retry_count' = 0
       /\ timer' = "off"
       /\ p_raw_cmd_cback' = FALSE
-----------------------------------------------------------------------------
(* uwb_ucif_check_cmd_queue.  There is no queue: with the window shut the  *)
(* message is neither sent nor kept.                                       *)
DropCmd(c) ==
    /\ ReceiveCmd(c)
    /\ uci_cmd_window = 0
    /\ UNCHANGED <<pc, window, pLast_cmd_buf, raw, timer, mode>>

(* After a packet with PBF set the code reads layer_specific of the buffer *)
(* HAL_WRITE has freed.  It may still say "raw": then the raw callback, if *)
(* there is one, is told "segment sent" and forgotten.                     *)
SegmentSent(cback, forget) == cback /\ ~forget

(* Mutant: the copy for the re-transmission is taken of raw commands only. *)
SendUnsaved(c, forget) ==
    /\ ReceiveCmd(c)
    /\ uci_cmd_window > 0
    /\ c.frag # "more"
    /\ pLast_cmd_buf' = IF c.raw THEN c ELSE pLast_cmd_buf
    /\ uci_cmd_window' = uci_cmd_window - 1
    /\ is_resp_pending' = TRUE
    /\ cmd_retry_count' = 0
    /\ timer' = "running"
    /\ UNCHANGED <<pc, raw, mode>>

SendCmd(c, forget) ==
    /\ ReceiveCmd(c)
    /\ uci_cmd_window > 0
    /\ c.frag # "more"
    /\ pLast_cmd_buf' = c
    /\ uci_cmd_window' = uci_cmd_window - 1
    /\ is_resp_pending' = TRUE
    /\ cmd_retry_count' = 0
    /\ timer' = "running"
    /\ rawCmdCbflag' = CASE c.raw           -> TRUE
                         [] c.frag = "long" -> FALSE
                         [] OTHER           -> rawCmdCbflag
    /\ p_raw_cmd_cback' = CASE c.raw           -> TRUE
                            [] c.frag = "long" -> SegmentSent(p_raw_cmd_cback, forget)
                            [] OTHER           -> p_raw_cmd_cback
    /\ UNCHANGED <<pc, mode>>

(* A packet with PBF set is not answered: no window, no timer. *)
SendSegment(c, forget) ==
    /\ ReceiveCmd(c)
    /\ uci_cmd_window > 0
    /\ c.frag = "more"
    /\ pLast_cmd_buf' = c
    /\ is_resp_pending' = FALSE
    /\ cmd_retry_count' = 0
    /\ rawCmdCbflag' = FALSE
    /\ p_raw_cmd_cback' = SegmentSent(c.raw \/ p_raw_cmd_cback, forget)
    /\ UNCHANGED <<pc, uci_cmd_window, timer, mode>>
-----------------------------------------------------------------------------
(* uwb_ucif_process_event, responses.  With the raw flag up, whatever is   *)
(* not a notification is the answer of the raw command: no header check.   *)
RawRsp(p) ==
    /\ ReceivePkt(p)
    /\ p.mt = "rsp"
    /\ rawCmdCbflag
    /\ rawCmdCbflag' = FALSE
    /\ p_raw_cmd_cback' = FALSE
    /\ pc' = "window"
    /\ UNCHANGED <<window, pLast_cmd_buf, timer, mode>>

Expected(p) == p.hdr = pLast_cmd_buf.hdr

(* The response callback runs first, the window follows (UpdateWindow). *)
CmdRsp(p) ==
    /\ ReceivePkt(p)
    /\ p.mt = "rsp"
    /\ ~rawCmdCbflag
    /\ Expected(p)
    /\ pc' = "window"
    /\ UNCHANGED <<window, pLast_cmd_buf, raw, timer, mode>>

UnexpectedRsp(p) ==
    /\ ReceivePkt(p)
    /\ p.mt = "rsp"
    /\ ~rawCmdCbflag
    /\ ~Expected(p)
    /\ UNCHANGED <<pc, window, pLast_cmd_buf, raw, timer, mode>>

UpdateWindow ==
    /\ pc = "window"
    /\ pc' = "loop"
    /\ UpdateCmdWindow
    /\ UNCHANGED <<mbox, pLast_cmd_buf, rawCmdCbflag, mode>>

Ntf(kind) == [mt |-> "ntf", kind |-> kind]

CreditAvailable ==
    /\ ReceivePkt(Ntf("credit"))
    /\ UpdateCmdWindow
    /\ UNCHANGED <<pc, pLast_cmd_buf, rawCmdCbflag, mode>>

(* The window is left as it is: shut, if a data message is in hand. *)
CreditUnavailable ==
    /\ ReceivePkt(Ntf("nocredit"))
    /\ timer' = "off"
    /\ p_raw_cmd_cback' = FALSE
    /\ is_resp_pending' = FALSE
    /\ cmd_retry_count' = 0
    /\ UNCHANGED <<pc, uci_cmd_window, pLast_cmd_buf, rawCmdCbflag, mode>>

(* uwb_ucif_uwb_recovery, then the notification callback. *)
DeviceFault ==
    /\ ReceivePkt(Ntf("fault"))
    /\ FlushCmdQueue
    /\ rawCmdCbflag' = FALSE
    /\ UNCHANGED <<pc, pLast_cmd_buf, p_raw_cmd_cback, mode>>

PassUp(p) ==
    /\ ReceivePkt(p)
    /\ p \in {Ntf("other"), [mt |-> "data"]}
    /\ UNCHANGED <<pc, window, pLast_cmd_buf, raw, timer, mode>>
-----------------------------------------------------------------------------
(* uwb_ucif_cmd_timeout.  Under conformance test a data message (first     *)
(* octet exactly UCI_DPF_SND, so PBF clear) is given up at once.           *)
DataUnderTest == IsConformaceTestEnabled /\ pLast_cmd_buf.frag = "whole" /\ pLast_cmd_buf.data

(* Mutant: whether an answer is still awaited is not asked. *)
CanRetryAnswered == ~DataUnderTest /\ cmd_retry_count <= MaxRetry

(* Mutants: the limit is off by one, either way. *)
CanRetryOneMore == ~DataUnderTest /\ is_resp_pending /\ cmd_retry_count <= MaxRetry + 1
CanRetryOneLess == ~DataUnderTest /\ is_resp_pending /\ cmd_retry_count < MaxRetry

CanRetry == ~DataUnderTest /\ is_resp_pending /\ cmd_retry_count <= MaxRetry

(* Mutant: the re-transmission is not watched by a timer. *)
RetransmitUnwatched ==
    /\ Receive(TimerMsg)
    /\ CanRetry
    /\ cmd_retry_count' = cmd_retry_count + 1
    /\ UNCHANGED <<pc, uci_cmd_window, is_resp_pending, pLast_cmd_buf, raw, timer, mode>>

(* Mutant: re-transmissions are not counted. *)
RetransmitUncounted ==
    /\ Receive(TimerMsg)
    /\ CanRetry
    /\ timer' = "running"
    /\ UNCHANGED <<pc, window, pLast_cmd_buf, raw, mode>>

Retransmit ==
    /\ Receive(TimerMsg)
    /\ CanRetry
    /\ cmd_retry_count' = cmd_retry_count + 1
    /\ timer' = "running"
    /\ UNCHANGED <<pc, uci_cmd_window, is_resp_pending, pLast_cmd_buf, raw, mode>>

(* UCI_TIMEOUT goes up first, the flush follows (Recover). *)
GiveUp ==
    /\ Receive(TimerMsg)
    /\ ~CanRetry
    /\ pc' = "recover"
    /\ UNCHANGED <<window, pLast_cmd_buf, raw, timer, mode>>

Recover ==
    /\ pc = "recover"
    /\ pc' = "loop"
    /\ FlushCmdQueue
    /\ UNCHANGED <<mbox, pLast_cmd_buf, raw, mode>>
-----------------------------------------------------------------------------
(* Hal_setOperationMode, called by the application's task: there is no way *)
(* back from the conformance mode.                                         *)
EnterConformance ==
    /\ IsConformaceTestEnabled' = TRUE
    /\ UNCHANGED <<mbox, pc, window, pLast_cmd_buf, raw, timer>>

Oldest == IF mbox = << >> THEN {} ELSE {Head(mbox)}

HandleCmd ==
    \E m \in Oldest :
        /\ m.type = "cmd"
        /\ \/ DropCmd(m.cmd)
           \/ \E forget \in BOOLEAN : SendCmd(m.cmd, forget) \/ SendSegment(m.cmd, forget)

HandlePkt ==
    \/ \E m \in Oldest :
           /\ m.type = "pkt"
           /\ RawRsp(m.pkt) \/ CmdRsp(m.pkt) \/ UnexpectedRsp(m.pkt) \/ PassUp(m.pkt)
    \/ CreditAvailable
    \/ CreditUnavailable
    \/ DeviceFault

UwbTask ==
    \/ HandleCmd
    \/ HandlePkt
    \/ UpdateWindow
    \/ Retransmit
    \/ GiveUp
    \/ Recover

Next ==
    \/ \E c \in Command : PostCmd(c)
    \/ \E p \in Packet : PostPkt(p)
    \/ TimerFires
    \/ UwbTask
    \/ EnterConformance

Spec == Init /\ [][Next]_vars

(* The scheduler runs a ready task, and the daemon expires a running timer. *)
FairSpec == Spec /\ WF_vars(UwbTask) /\ WF_vars(TimerFires)
-----------------------------------------------------------------------------
TimerQueued == \E i \in DOMAIN mbox : mbox[i] = TimerMsg

(* Window, pending flag, retry count and timer agree: an answer is awaited *)
(* only behind a shut window, the timer runs only while one is awaited,    *)
(* and retries are counted only then (uwb_ucif.c, uwb_main.c: every path   *)
(* that resolves a command resets all four).                               *)
WindowInv ==
    /\ is_resp_pending => uci_cmd_window = 0
    /\ timer # "off" => is_resp_pending
    /\ cmd_retry_count > 0 => is_resp_pending

(* A command in flight is always watched: by the timer, or by a timeout    *)
(* already posted, or by the handler under way.  The only way to lose the  *)
(* watch is a full mailbox (phUwb_OSAL_send_msg ignores the failure).      *)
NoSilentWait ==
    is_resp_pending => \/ timer # "off"
                       \/ TimerQueued
                       \/ pc = "recover"

(* uwb_ucif_cmd_timeout reads through pLast_cmd_buf without a check: when  *)
(* a timeout is handled, some command has been sent.                       *)
TimeoutHasCommand == TimerQueued => pLast_cmd_buf # NoCmd

(* A command in flight is resolved: answered, flushed, or given up after   *)
(* the last retry; unless its timeout was lost on a full mailbox.          *)
CommandResolved ==
    is_resp_pending ~> (~is_resp_pending \/ timer = "lost")

(* The core transmits one command at a time and re-sends it boundedly.     *)
Window == INSTANCE CommandWindow WITH
    cmd   <- pLast_cmd_buf,
    tries <- cmd_retry_count,
    phase <- IF uci_cmd_window = 1 THEN "ready"
             ELSE IF is_resp_pending THEN "awaiting" ELSE "stalled"

Abstract == Window!Spec
-----------------------------------------------------------------------------
(* uci_hmsgs.c:262, of uci_snd_cmd: "compose and send command to command   *)
(* queue", and it returns UCI_STATUS_OK.  A command taken from the mailbox *)
(* is transmitted, not thrown away.                                        *)
NoCommandDropped ==
    [][\A c \in Command : ~DropCmd(c)]_vars
=============================================================================
