---------------------------- MODULE UwbStack_proofs ----------------------------
(***************************************************************************)
(* Proofs about the core (UciCore) and about the core closed by its        *)
(* caller and the controller (UwbStack).                                   *)
(*                                                                         *)
(* The core comes first, whoever posts to it, for every set of headers and *)
(* tags, every retry limit and every length of the mailbox; nothing of     *)
(* UwbStack is used there, nor its assumption.  The type invariant is      *)
(* inductive by itself.  The other invariants are proved together: that a  *)
(* timeout finds a command (TimeoutHasCommand) rests on the timer running  *)
(* only behind a shut window (WindowInv) and on the window being shut only *)
(* by a command (ShutByCommand).                                           *)
(*                                                                         *)
(* Then the closed stack, for any number of calls, notifications and       *)
(* re-transmissions: its callers and its controller are some of those the  *)
(* core expects, so the core's theorems hold in it.                        *)
(***************************************************************************)
EXTENDS UwbStack, TLAPS

(* The window is shut by a command that is saved for re-transmission. *)
ShutByCommand == uci_cmd_window = 0 => pLast_cmd_buf # NoCmd

Inv ==
    /\ WindowInv
    /\ ShutByCommand
    /\ NoSilentWait
    /\ TimeoutHasCommand
-----------------------------------------------------------------------------
(* The mailbox: what is appended is a message, what is taken is one.       *)

LEMMA TimerIsMessage == TimerMsg \in Message
BY DEF Message

LEMMA NoCmdIsNone == NoCmd \notin Command
BY DEF NoCmd, Command

(* Posting keeps the mailbox a sequence of messages (Post). *)
LEMMA PostType ==
    ASSUME mbox \in Seq(Message), NEW m \in Message, Post(m)
    PROVE  mbox' \in Seq(Message)
BY DEF Post

(* The oldest message is a message, and so is what stays behind. *)
LEMMA TakeType ==
    ASSUME mbox \in Seq(Message), NEW m, Receive(m)
    PROVE  m \in Message /\ mbox' \in Seq(Message)
BY DEF Receive

LEMMA CmdType ==
    ASSUME NEW c, [type |-> "cmd", cmd |-> c] \in Message
    PROVE  c \in Command
<1> DEFINE m == [type |-> "cmd", cmd |-> c]
<1>1. m.type = "cmd" /\ m.cmd = c
  OBVIOUS
<1>2. m \notin [type : {"pkt"}, pkt : Packet] /\ m # TimerMsg
  BY <1>1 DEF TimerMsg
<1>3. m \in [type : {"cmd"}, cmd : Command]
  BY <1>2 DEF Message
<1> QED
  BY <1>1, <1>3
-----------------------------------------------------------------------------
LEMMA ZeroCount == 0 \in 0 .. MaxRetry + 1
BY UciCoreAssumption DEF UciCoreAssumption

(* A step of the core keeps the type of every variable of uwb_cb. *)
LEMMA TypeStep ==
    ASSUME TypeOK, [Next]_vars
    PROVE  TypeOK'
<1> USE ZeroCount DEF window, raw, mode
<1>1. ASSUME NEW c \in Command, PostCmd(c) PROVE TypeOK'
  <2>1. [type |-> "cmd", cmd |-> c] \in Message
    BY DEF Message
  <2> QED
    BY <1>1, <2>1, PostType DEF PostCmd, TypeOK
<1>2. ASSUME NEW p \in Packet, PostPkt(p) PROVE TypeOK'
  <2>1. [type |-> "pkt", pkt |-> p] \in Message
    BY DEF Message
  <2> QED
    BY <1>2, <2>1, PostType DEF PostPkt, TypeOK
<1>3. ASSUME TimerFires PROVE TypeOK'
  BY <1>3, PostType, TimerIsMessage DEF TimerFires, TypeOK
<1>4. ASSUME NEW c, DropCmd(c) PROVE TypeOK'
  BY <1>4, TakeType DEF DropCmd, ReceiveCmd, TypeOK
<1>5. ASSUME NEW c, NEW forget \in BOOLEAN, SendCmd(c, forget) PROVE TypeOK'
  <2>1. c \in Command /\ mbox' \in Seq(Message)
    BY <1>5, TakeType, CmdType DEF SendCmd, ReceiveCmd, TypeOK
  <2>2. c.raw \in BOOLEAN
    BY <2>1 DEF Command
  <2>3. rawCmdCbflag' \in BOOLEAN /\ p_raw_cmd_cback' \in BOOLEAN
    BY <1>5, <2>2 DEF SendCmd, SegmentSent, TypeOK
  <2>4. uci_cmd_window' = 0
    BY <1>5 DEF SendCmd, TypeOK
  <2> QED
    BY <1>5, <2>1, <2>3, <2>4 DEF SendCmd, TypeOK
<1>6. ASSUME NEW c, NEW forget \in BOOLEAN, SendSegment(c, forget) PROVE TypeOK'
  <2>1. c \in Command /\ mbox' \in Seq(Message)
    BY <1>6, TakeType, CmdType DEF SendSegment, ReceiveCmd, TypeOK
  <2>2. p_raw_cmd_cback' \in BOOLEAN
    BY <1>6 DEF SendSegment, SegmentSent
  <2> QED
    BY <1>6, <2>1, <2>2 DEF SendSegment, TypeOK
<1>7. ASSUME NEW p, RawRsp(p) \/ CmdRsp(p) \/ UnexpectedRsp(p) \/ PassUp(p) PROVE TypeOK'
  BY <1>7, TakeType
  DEF RawRsp, CmdRsp, UnexpectedRsp, PassUp, ReceivePkt, TypeOK
<1>8. ASSUME CreditAvailable \/ CreditUnavailable \/ DeviceFault PROVE TypeOK'
  BY <1>8, TakeType
  DEF CreditAvailable, CreditUnavailable, DeviceFault, UpdateCmdWindow, FlushCmdQueue,
      ReceivePkt, TypeOK
<1>9. ASSUME UpdateWindow \/ Recover PROVE TypeOK'
  BY <1>9 DEF UpdateWindow, Recover, UpdateCmdWindow, FlushCmdQueue, TypeOK
<1>10. ASSUME Retransmit \/ GiveUp PROVE TypeOK'
  BY <1>10, TakeType, UciCoreAssumption
  DEF UciCoreAssumption, Retransmit, GiveUp, CanRetry, TypeOK
<1>11. ASSUME EnterConformance PROVE TypeOK'
  BY <1>11 DEF EnterConformance, TypeOK
<1>12. ASSUME UNCHANGED vars PROVE TypeOK'
  BY <1>12 DEF vars, TypeOK
<1> QED
  BY <1>1, <1>2, <1>3, <1>4, <1>5, <1>6, <1>7, <1>8, <1>9, <1>10, <1>11, <1>12
  DEF Next, UwbTask, HandleCmd, HandlePkt

(* The state that the enable sequence leaves behind is well-typed. *)
LEMMA InitType == Init => TypeOK
<1> SUFFICES ASSUME Init PROVE TypeOK
  OBVIOUS
<1>1. mbox \in Seq(Message)
  BY DEF Init
<1> QED
  BY <1>1, ZeroCount, Zenon DEF Init, TypeOK

(* Every variable keeps its type (the state uwb_cb declares).              *)
THEOREM TypeCorrect == Spec => []TypeOK
<1>1. TypeOK /\ [Next]_vars => TypeOK'
  BY TypeStep
<1> QED
  BY InitType, <1>1, PTL DEF Spec
-----------------------------------------------------------------------------
(* Timeouts in the mailbox: posting adds at most the message posted,       *)
(* taking removes at most the message taken.                               *)

LEMMA PostTimers ==
    ASSUME mbox \in Seq(Message), NEW m \in Message, Post(m)
    PROVE  /\ TimerQueued => TimerQueued'
           /\ TimerQueued' => TimerQueued \/ m = TimerMsg
           /\ HasRoom /\ m = TimerMsg => TimerQueued'
<1>1. CASE HasRoom
  <2>1. mbox' = Append(mbox, m)
    BY <1>1 DEF Post
  <2>2. /\ DOMAIN mbox = 1 .. Len(mbox)
        /\ DOMAIN mbox' = 1 .. Len(mbox) + 1
        /\ mbox'[Len(mbox) + 1] = m
        /\ \A i \in 1 .. Len(mbox) : mbox'[i] = mbox[i]
        /\ Len(mbox) \in Nat
    BY <2>1
  <2> QED
    BY <2>2 DEF TimerQueued
<1>2. CASE ~HasRoom
  BY <1>2 DEF Post, TimerQueued
<1> QED
  BY <1>1, <1>2

LEMMA TakeTimers ==
    ASSUME mbox \in Seq(Message), NEW m, Receive(m)
    PROVE  /\ TimerQueued' => TimerQueued
           /\ TimerQueued /\ m # TimerMsg => TimerQueued'
           /\ m = TimerMsg => TimerQueued
<1>1. /\ mbox # << >>
      /\ m = mbox[1]
      /\ mbox' = Tail(mbox)
  BY DEF Receive
<1>2. /\ Len(mbox) \in Nat \ {0}
      /\ DOMAIN mbox = 1 .. Len(mbox)
      /\ DOMAIN mbox' = 1 .. Len(mbox) - 1
      /\ \A i \in 1 .. Len(mbox) - 1 : mbox'[i] = mbox[i + 1]
  BY <1>1
<1>3. TimerQueued' => TimerQueued
  BY <1>2 DEF TimerQueued
<1>4. ASSUME TimerQueued, m # TimerMsg PROVE TimerQueued'
  <2>1. PICK i \in DOMAIN mbox : mbox[i] = TimerMsg
    BY <1>4 DEF TimerQueued
  <2>2. i - 1 \in 1 .. Len(mbox) - 1 /\ mbox'[i - 1] = TimerMsg
    BY <1>1, <1>2, <1>4, <2>1
  <2> QED
    BY <1>2, <2>2 DEF TimerQueued
<1>5. m = TimerMsg => TimerQueued
  <2>1. 1 \in DOMAIN mbox /\ mbox[1] = m
    BY <1>1, <1>2
  <2> QED
    BY <2>1, Zenon DEF TimerQueued
<1> QED
  BY <1>3, <1>4, <1>5

(* Commands and packets are not timeouts. *)
LEMMA NotTimer ==
    ASSUME NEW x
    PROVE  [type |-> "cmd", cmd |-> x] # TimerMsg /\ [type |-> "pkt", pkt |-> x] # TimerMsg
<1>1. TimerMsg.type = "timer"
  BY DEF TimerMsg
<1>2. [type |-> "cmd", cmd |-> x].type = "cmd" /\ [type |-> "pkt", pkt |-> x].type = "pkt"
  OBVIOUS
<1> QED
  BY <1>1, <1>2
-----------------------------------------------------------------------------
(* A step of the core keeps Inv. *)
LEMMA InvStep ==
    ASSUME TypeOK, Inv, [Next]_vars
    PROVE  Inv'
<1> USE DEF Inv, window, raw, mode
<1> DEFINE Kept == UNCHANGED <<window, pLast_cmd_buf, timer>>
<1>0. mbox \in Seq(Message) /\ is_resp_pending \in BOOLEAN
  BY DEF TypeOK
<1>1. ASSUME NEW m \in Message, m # TimerMsg, Post(m), Kept, UNCHANGED pc PROVE Inv'
  <2>1. TimerQueued <=> TimerQueued'
    BY <1>0, <1>1, PostTimers
  <2> QED
    BY <1>1, <2>1 DEF WindowInv, ShutByCommand, NoSilentWait, TimeoutHasCommand
<1>2. ASSUME NEW m, m # TimerMsg, Receive(m), Kept PROVE Inv'
  <2>1. (TimerQueued <=> TimerQueued') /\ pc = "loop"
    BY <1>0, <1>2, TakeTimers DEF Receive
  <2> QED
    BY <1>2, <2>1 DEF WindowInv, ShutByCommand, NoSilentWait, TimeoutHasCommand
<1>3. ASSUME NEW c \in Command, PostCmd(c) PROVE Inv'
  <2>1. [type |-> "cmd", cmd |-> c] \in Message
    BY DEF Message
  <2> QED
    BY <1>1, <1>3, <2>1, NotTimer DEF PostCmd
<1>4. ASSUME NEW p \in Packet, PostPkt(p) PROVE Inv'
  <2>1. [type |-> "pkt", pkt |-> p] \in Message
    BY DEF Message
  <2> QED
    BY <1>1, <1>4, <2>1, NotTimer DEF PostPkt
<1>5. ASSUME TimerFires PROVE Inv'
  <2>1. is_resp_pending /\ uci_cmd_window = 0 /\ pLast_cmd_buf # NoCmd
    BY <1>5 DEF TimerFires, WindowInv, ShutByCommand
  <2>2. HasRoom => TimerQueued'
    BY <1>0, <1>5, PostTimers, TimerIsMessage DEF TimerFires
  <2> QED
    BY <1>5, <2>1, <2>2
    DEF TimerFires, WindowInv, ShutByCommand, NoSilentWait, TimeoutHasCommand
<1>6. ASSUME NEW c, DropCmd(c) PROVE Inv'
  BY <1>2, <1>6, NotTimer DEF DropCmd, ReceiveCmd
<1>7. ASSUME NEW c, NEW forget \in BOOLEAN, SendCmd(c, forget) \/ SendSegment(c, forget) PROVE Inv'
  <2>1. c \in Command
    BY <1>0, <1>7, TakeType, CmdType DEF SendCmd, SendSegment, ReceiveCmd
  <2>2. c # NoCmd
    BY <2>1, NoCmdIsNone
  <2>3. CASE SendCmd(c, forget)
    BY <2>2, <2>3, <1>0
    DEF SendCmd, TypeOK, WindowInv, ShutByCommand, NoSilentWait, TimeoutHasCommand
  <2>4. CASE SendSegment(c, forget)
    BY <2>2, <2>4, <1>0
    DEF SendSegment, TypeOK, WindowInv, ShutByCommand, NoSilentWait, TimeoutHasCommand
  <2> QED
    BY <1>7, <2>3, <2>4
<1>8. ASSUME NEW p, RawRsp(p) \/ CmdRsp(p) \/ UnexpectedRsp(p) \/ PassUp(p) PROVE Inv'
  BY <1>2, <1>8, NotTimer DEF RawRsp, CmdRsp, UnexpectedRsp, PassUp, ReceivePkt
<1>9. ASSUME NEW p, ReceivePkt(p), UNCHANGED pLast_cmd_buf,
             FlushCmdQueue \/ UpdateCmdWindow
      PROVE  Inv'
  <2>1. TimerQueued' => TimerQueued
    BY <1>0, <1>9, TakeTimers DEF ReceivePkt
  <2>2. CASE UpdateCmdWindow
    BY <2>1, <2>2, <1>9
    DEF UpdateCmdWindow, WindowInv, ShutByCommand, NoSilentWait, TimeoutHasCommand
  <2>3. CASE FlushCmdQueue
    BY <2>1, <2>3, <1>9
    DEF FlushCmdQueue, WindowInv, ShutByCommand, NoSilentWait, TimeoutHasCommand
  <2> QED
    BY <1>9, <2>2, <2>3
<1>10. ASSUME CreditAvailable \/ DeviceFault PROVE Inv'
  BY <1>9, <1>10 DEF CreditAvailable, DeviceFault
<1>11. ASSUME CreditUnavailable PROVE Inv'
  <2>1. TimerQueued' => TimerQueued
    BY <1>0, <1>11, TakeTimers DEF CreditUnavailable, ReceivePkt
  <2> QED
    BY <1>11, <2>1
    DEF CreditUnavailable, WindowInv, ShutByCommand, NoSilentWait, TimeoutHasCommand
<1>12. ASSUME UpdateWindow \/ Recover PROVE Inv'
  <2>1. TimerQueued' <=> TimerQueued
    BY <1>12 DEF UpdateWindow, Recover, TimerQueued
  <2>2. CASE UpdateWindow
    BY <2>1, <2>2, <1>0
    DEF UpdateWindow, UpdateCmdWindow, WindowInv, ShutByCommand, NoSilentWait, TimeoutHasCommand
  <2>3. CASE Recover
    BY <2>1, <2>3, <1>0
    DEF Recover, FlushCmdQueue, WindowInv, ShutByCommand, NoSilentWait, TimeoutHasCommand
  <2> QED
    BY <1>12, <2>2, <2>3
<1>13. ASSUME Retransmit \/ GiveUp PROVE Inv'
  <2>1. TimerQueued /\ pLast_cmd_buf # NoCmd
    BY <1>0, <1>13, TakeTimers DEF Retransmit, GiveUp, TimeoutHasCommand
  <2>2. CASE Retransmit
    BY <2>1, <2>2, <1>0
    DEF Retransmit, CanRetry, WindowInv, ShutByCommand, NoSilentWait, TimeoutHasCommand
  <2>3. CASE GiveUp
    BY <2>1, <2>3, <1>0
    DEF GiveUp, WindowInv, ShutByCommand, NoSilentWait, TimeoutHasCommand
  <2> QED
    BY <1>13, <2>2, <2>3
<1>14. ASSUME EnterConformance \/ UNCHANGED vars PROVE Inv'
  <2>1. TimerQueued' <=> TimerQueued
    BY <1>14 DEF EnterConformance, vars, TimerQueued
  <2> QED
    BY <1>14, <2>1
    DEF EnterConformance, vars, WindowInv, ShutByCommand, NoSilentWait, TimeoutHasCommand
<1> QED
  BY <1>3, <1>4, <1>5, <1>6, <1>7, <1>8, <1>10, <1>11, <1>12, <1>13, <1>14
  DEF Next, UwbTask, HandleCmd, HandlePkt

(* No command was sent: nothing is awaited, and nothing is posted. *)
LEMMA InitInv == Init => Inv
BY DEF Init, Inv, WindowInv, ShutByCommand, NoSilentWait, TimeoutHasCommand, TimerQueued

(* The flags of the window agree, a command in flight is always watched,   *)
(* and a timeout always finds the command it is about: uwb_ucif_cmd_timeout*)
(* never reads through a NULL pLast_cmd_buf.                               *)
THEOREM CoreInvariants == Spec => [](WindowInv /\ NoSilentWait /\ TimeoutHasCommand)
<1>1. TypeOK /\ Inv /\ [Next]_vars => Inv'
  BY InvStep
<1>2. Inv => WindowInv /\ NoSilentWait /\ TimeoutHasCommand
  BY DEF Inv
<1> QED
  BY InitInv, <1>1, <1>2, TypeCorrect, PTL DEF Spec

(* A pending command has its timer running or its timeout posted, unless   *)
(* the handler is at it or the timeout was lost on a full mailbox: neither *)
(* sending, re-transmitting nor resolving (uwb_ucif.c:107-163) drops it.   *)
THEOREM AlwaysWatched == Spec => []NoSilentWait
BY CoreInvariants, PTL

(* A timeout finds a command that was sent: uwb_ucif_cmd_timeout           *)
(* (uwb_ucif.c:140) does not read through a NULL pLast_cmd_buf.            *)
THEOREM TimeoutsHaveCommand == Spec => []TimeoutHasCommand
BY CoreInvariants, PTL
-----------------------------------------------------------------------------
(* The steps of the core, seen through the command window.                 *)

(* What leaves the window and the saved command alone is a stutter. *)
LEMMA WindowStutter ==
    ASSUME UNCHANGED <<uci_cmd_window, is_resp_pending, cmd_retry_count, pLast_cmd_buf>>
    PROVE  UNCHANGED Window!vars
BY DEF Window!vars

(* Resetting window, pending flag and count resolves the command in hand,  *)
(* or does nothing when there is none (UpdateCmdWindow, FlushCmdQueue).    *)
LEMMA ResetResolves ==
    ASSUME TypeOK, WindowInv, UNCHANGED pLast_cmd_buf,
           uci_cmd_window' = 1, is_resp_pending' = FALSE, cmd_retry_count' = 0
    PROVE  [Window!Next]_Window!vars
<1>1. CASE uci_cmd_window = 1
  <2>1. is_resp_pending = FALSE /\ cmd_retry_count = 0
    BY <1>1 DEF TypeOK, WindowInv
  <2> QED
    BY <1>1, <2>1, WindowStutter
<1>2. CASE uci_cmd_window = 0
  BY <1>2 DEF Window!Next, Window!Resolve
<1> QED
  BY <1>1, <1>2 DEF TypeOK

LEMMA UpdateRefines ==
    ASSUME TypeOK, WindowInv, UNCHANGED pLast_cmd_buf, FlushCmdQueue \/ UpdateCmdWindow
    PROVE  [Window!Next]_Window!vars
<1>1. CASE FlushCmdQueue
  BY <1>1, ResetResolves DEF FlushCmdQueue
<1>2. CASE UpdateCmdWindow /\ uci_cmd_window = 0
  <2>1. uci_cmd_window' = 1 /\ is_resp_pending' = FALSE /\ cmd_retry_count' = 0
    BY <1>2 DEF UpdateCmdWindow
  <2> QED
    BY <2>1, ResetResolves
<1>3. CASE UpdateCmdWindow /\ uci_cmd_window = 1
  BY <1>3, WindowStutter DEF UpdateCmdWindow, window
<1> QED
  BY <1>1, <1>2, <1>3 DEF UpdateCmdWindow

(* A timeout that is handled re-transmits only what is still awaited. *)
LEMMA RetransmitRefines ==
    ASSUME TypeOK, WindowInv, Retransmit
    PROVE  Window!Retransmit
<1>1. uci_cmd_window = 0 /\ is_resp_pending /\ cmd_retry_count <= MaxRetry
  BY DEF Retransmit, CanRetry, WindowInv
<1> QED
  BY <1>1 DEF Retransmit, Window!Retransmit

LEMMA SendRefines ==
    ASSUME TypeOK, WindowInv, NEW c, NEW forget \in BOOLEAN,
           SendCmd(c, forget) \/ SendSegment(c, forget)
    PROVE  [Window!Next]_Window!vars
<1>1. c \in Command
  BY TakeType, CmdType DEF SendCmd, SendSegment, ReceiveCmd, TypeOK
<1>2. uci_cmd_window = 1
  <2>1. uci_cmd_window > 0
    BY Zenon DEF SendCmd, SendSegment
  <2>2. uci_cmd_window \in {0, 1}
    BY DEF TypeOK
  <2> QED
    BY <2>1, <2>2
<1>3. is_resp_pending = FALSE /\ cmd_retry_count = 0
  BY <1>2 DEF TypeOK, WindowInv
<1>4. CASE SendCmd(c, forget)
  <2>1. uci_cmd_window' = 0 /\ is_resp_pending' = TRUE
    BY <1>2, <1>4 DEF SendCmd
  <2>2. Window!Transmit(c)
    BY <1>2, <1>4, <2>1 DEF SendCmd, Window!Transmit
  <2> QED
    BY <1>1, <2>2 DEF Window!Next
<1>5. CASE SendSegment(c, forget)
  <2>1. Window!TransmitSegment(c)
    BY <1>2, <1>3, <1>5 DEF SendSegment, Window!TransmitSegment
  <2> QED
    BY <1>1, <2>1 DEF Window!Next
<1> QED
  BY <1>4, <1>5

(* No credit: the command in hand stalls, and with none nothing happens. *)
LEMMA StallRefines ==
    ASSUME TypeOK, WindowInv, CreditUnavailable
    PROVE  [Window!Next]_Window!vars
<1>1. /\ UNCHANGED <<uci_cmd_window, pLast_cmd_buf>>
      /\ is_resp_pending' = FALSE /\ cmd_retry_count' = 0
  BY DEF CreditUnavailable
<1>2. CASE is_resp_pending
  <2>1. uci_cmd_window = 0
    BY <1>2 DEF WindowInv
  <2> QED
    BY <1>1, <1>2, <2>1 DEF Window!Next, Window!Stall
<1>3. CASE ~is_resp_pending
  <2>1. is_resp_pending = FALSE /\ cmd_retry_count = 0
    BY <1>3 DEF TypeOK, WindowInv
  <2> QED
    BY <1>1, <2>1, WindowStutter
<1> QED
  BY <1>2, <1>3

(* The core implements the stop-and-wait window: whatever is posted and    *)
(* whenever the timer fires, it transmits only through an open window,     *)
(* re-sends only what is awaited, at most MaxRetry + 1 times, and every    *)
(* path out of a wait leaves through Resolve or Stall.                     *)
THEOREM Refinement == Spec => Abstract
<1>1. Init => Window!Init
  BY DEF Init, Window!Init
<1>2. TypeOK /\ WindowInv /\ [Next]_vars => [Window!Next]_Window!vars
  <2> SUFFICES ASSUME TypeOK, WindowInv, [Next]_vars
               PROVE  [Window!Next]_Window!vars
    OBVIOUS
  <2> USE DEF window
  <2>1. ASSUME NEW x, PostCmd(x) \/ PostPkt(x) \/ DropCmd(x) PROVE UNCHANGED Window!vars
    BY <2>1, WindowStutter DEF PostCmd, PostPkt, DropCmd
  <2>2. ASSUME NEW p, RawRsp(p) \/ CmdRsp(p) \/ UnexpectedRsp(p) \/ PassUp(p)
        PROVE  UNCHANGED Window!vars
    BY <2>2, WindowStutter DEF RawRsp, CmdRsp, UnexpectedRsp, PassUp
  <2>3. ASSUME TimerFires \/ GiveUp \/ EnterConformance \/ UNCHANGED vars
        PROVE  UNCHANGED Window!vars
    BY <2>3, WindowStutter DEF TimerFires, GiveUp, EnterConformance, vars
  <2>4. ASSUME UpdateWindow \/ Recover \/ CreditAvailable \/ DeviceFault
        PROVE  [Window!Next]_Window!vars
    BY <2>4, UpdateRefines DEF UpdateWindow, Recover, CreditAvailable, DeviceFault
  <2>5. Retransmit => Window!Next
    BY RetransmitRefines DEF Window!Next
  <2> QED
    BY <2>1, <2>2, <2>3, <2>4, <2>5, SendRefines, StallRefines
    DEF Next, UwbTask, HandleCmd, HandlePkt
<1> QED
  BY <1>1, <1>2, TypeCorrect, CoreInvariants, PTL DEF Spec, Abstract, Window!Spec
-----------------------------------------------------------------------------
(* The core with its caller and the controller *)

(* What StackTypeOK says beyond the core's variables *)
ApiTypeOK ==
    /\ api \in {"idle", "wait"}
    /\ call \in Command \cup {NoCmd}
    /\ currentEventId \in Hdr \cup {"default", "timeout"}
    /\ devMgmtSem \in 0 .. 1
    /\ wstatus \in {"ok", "failed", "timeout"}
    /\ rsp_data \in [hdr : Hdr, tag : Tag, header : BOOLEAN] \cup {NoRsp}
    /\ dev_state \in {"ready", "error"}
    /\ uwbs \in Seq(Command)
    /\ budget \in [ntf : 0 .. MaxNtf, fault : 0 .. MaxFault]

(* The type invariant is the core's, and the one of the caller's side. *)
LEMMA TypeSplit == StackTypeOK <=> TypeOK /\ ApiTypeOK
BY DEF StackTypeOK, ApiTypeOK

(* The command of the next call is one, and carries the next number. *)
LEMMA CallsCommand ==
    ASSUME ApiTypeOK, Made < MaxCalls, NEW kind \in Kinds, NEW hdr \in Hdr
    PROVE  CommandOf(kind, hdr) \in Command
<1>1. Made \in Nat
  BY UwbStackAssumption DEF Made, ApiTypeOK, Command
<1>2. Made + 1 \in Tag
  BY <1>1, UwbStackAssumption
<1> QED BY <1>2 DEF CommandOf, Command

(* The oldest message is what its type says. *)
LEMMA OldestType ==
    ASSUME TypeOK, NEW m \in Oldest
    PROVE  /\ m \in Message /\ mbox # << >> /\ m = Head(mbox)
           /\ m.type = "cmd" => m = [type |-> "cmd", cmd |-> m.cmd] /\ m.cmd \in Command
           /\ m.type = "pkt" => m = [type |-> "pkt", pkt |-> m.pkt] /\ m.pkt \in Packet
<1>1. m \in Message /\ mbox # << >> /\ m = Head(mbox)
  BY DEF Oldest, TypeOK
<1>2. TimerMsg.type = "timer"
  BY DEF TimerMsg
<1> QED BY <1>1, <1>2 DEF Message

(* A notification of the controller is a packet. *)
LEMMA NtfIsPacket == \A kind \in NtfKind : Ntf(kind) \in Packet
BY DEF Ntf, Packet

(* What a callback or the controller posts finds room or nothing happens. *)
LEMMA DeliverStep ==
    ASSUME NEW p \in Packet, Deliver(p)
    PROVE  [Next]_vars
BY DEF Deliver, Next

(* Every step of the stack is a step of the core, or leaves it alone. *)
LEMMA CoreStep ==
    ASSUME StackTypeOK, [StackNext]_allVars
    PROVE  [Next]_vars
<1>0. TypeOK /\ ApiTypeOK
  BY TypeSplit
<1>1. ASSUME NEW kind \in Kinds, NEW hdr \in Hdr, Call(kind, hdr) PROVE [Next]_vars
  <2>1. CommandOf(kind, hdr) \in Command
    BY <1>0, <1>1, CallsCommand DEF Call
  <2>2. CASE HasRoom
    BY <1>1, <2>1, <2>2 DEF Call, PostCmd, Next
  <2>3. CASE ~HasRoom
    BY <1>1, <2>3 DEF Call, Post, window, raw, mode, vars
  <2> QED BY <2>2, <2>3
<1>2. CASE Woken \/ WaitExpires
  BY <1>2 DEF Woken, WaitExpires, Return, vars
<1>3. CASE Answer
  <2>1. Head(uwbs) \in Command
    BY <1>0, <1>3 DEF Answer, ApiTypeOK
  <2>2. [mt |-> "rsp", hdr |-> Head(uwbs).hdr, tag |-> Head(uwbs).tag] \in Packet
    BY <2>1 DEF Command, Packet
  <2> QED BY <1>3, <2>2, DeliverStep DEF Answer
<1>4. CASE Notify \/ Fault
  BY <1>4, DeliverStep, NtfIsPacket DEF Notify, Fault, NtfKind
<1>5. CASE TimerExpires
  BY <1>5 DEF TimerExpires, Next
<1>6. CASE Task
  <2>1. ASSUME NEW m \in Oldest, m.type = "cmd", TaskTakesCmd(m.cmd) PROVE UwbTask
    BY <2>1 DEF TaskTakesCmd, UwbTask, HandleCmd
  <2>2. ASSUME NEW m \in Oldest, m.type = "pkt", TaskTakesRsp(m.pkt) PROVE UwbTask
    BY <2>2 DEF TaskTakesRsp, UwbTask, HandlePkt
  <2>3. ASSUME TaskTakesNtf PROVE UwbTask
    <3>1. CASE PassUp(Ntf("other"))
      <4> DEFINE m == [type |-> "pkt", pkt |-> Ntf("other")]
      <4>1. m \in Oldest /\ m.type = "pkt" /\ m.pkt = Ntf("other")
        BY <3>1 DEF PassUp, ReceivePkt, Receive, Oldest
      <4>2. PassUp(m.pkt)
        BY <3>1, <4>1
      <4> HIDE DEF m
      <4> QED BY <4>1, <4>2 DEF UwbTask, HandlePkt
    <3>2. CASE DeviceFault
      BY <3>2 DEF UwbTask, HandlePkt
    <3> QED BY <2>3, <3>1, <3>2 DEF TaskTakesNtf
  <2>4. ASSUME TaskTakesTimeout PROVE UwbTask
    BY <2>4 DEF TaskTakesTimeout, UwbTask
  <2> QED BY <1>6, <2>1, <2>2, <2>3, <2>4 DEF Task, UwbTask, Next
<1>7. CASE UNCHANGED allVars
  BY <1>7 DEF allVars
<1> QED BY <1>1, <1>2, <1>3, <1>4, <1>5, <1>6, <1>7 DEF StackNext

(* What is not touched keeps its type. *)
LEMMA ApiKept ==
    ASSUME ApiTypeOK, UNCHANGED apiVars, UNCHANGED budget, uwbs' \in Seq(Command)
    PROVE  ApiTypeOK'
BY DEF ApiTypeOK, apiVars

(* The handlers keep the types of the caller's side: what is written again *)
(* after a timeout is a command (TimeoutHasCommand).                       *)
LEMMA TaskType ==
    ASSUME TypeOK, Inv, ApiTypeOK, Task
    PROVE  ApiTypeOK'
<1>1. ASSUME NEW c \in Command, Written(c) PROVE uwbs' \in Seq(Command)
  BY <1>1 DEF Written, ApiTypeOK
<1>2. ASSUME NEW m \in Oldest, m.type = "cmd", TaskTakesCmd(m.cmd) PROVE ApiTypeOK'
  <2>1. m.cmd \in Command
    BY <1>2, OldestType
  <2>2. UNCHANGED apiVars /\ UNCHANGED budget /\ uwbs' \in Seq(Command)
    BY <1>1, <1>2, <2>1 DEF TaskTakesCmd, quiet, ApiTypeOK
  <2> QED BY <2>2, ApiKept
<1>3. ASSUME NEW m \in Oldest, m.type = "pkt", m.pkt.mt = "rsp", TaskTakesRsp(m.pkt)
      PROVE ApiTypeOK'
  <2>1. m.pkt.hdr \in Hdr /\ m.pkt.tag \in Tag
    <3>1. m.pkt \in Packet
      BY <1>3, OldestType
    <3> QED BY <1>3, <3>1 DEF Packet, Ntf
  <2>2. CASE UNCHANGED apiVars /\ UNCHANGED <<uwbs, budget>>
    BY <2>2, ApiKept DEF ApiTypeOK
  <2>3. ASSUME RawCommandResponseCb(m.pkt) \/ RspCallback(m.pkt)
        PROVE  /\ rsp_data' \in [hdr : Hdr, tag : Tag, header : BOOLEAN]
               /\ wstatus' = "ok" /\ UNCHANGED <<api, call, dev_state>>
               /\ Wake \/ NoWake
    <3>1. \A header \in BOOLEAN :
             [hdr |-> m.pkt.hdr, tag |-> m.pkt.tag, header |-> header]
               \in [hdr : Hdr, tag : Tag, header : BOOLEAN]
      BY <2>1
    <3>2. CASE RawCommandResponseCb(m.pkt)
      BY <3>1, <3>2 DEF RawCommandResponseCb
    <3>3. CASE RspCallback(m.pkt)
      <4>1. Wake \/ NoWake
        BY <3>3 DEF RspCallback
      <4> QED BY <3>1, <3>3, <4>1 DEF RspCallback
    <3> QED BY <2>3, <3>2, <3>3
  <2>4. CASE (RawCommandResponseCb(m.pkt) \/ RspCallback(m.pkt)) /\ UNCHANGED <<uwbs, budget>>
    BY <2>3, <2>4 DEF Wake, NoWake, ApiTypeOK
  <2> QED BY <1>3, <2>2, <2>4 DEF TaskTakesRsp, quiet, ghostVars
<1>4. CASE TaskTakesNtf
  BY <1>4 DEF TaskTakesNtf, NtfCallback, Wake, NoWake, ApiTypeOK
<1>5. CASE TaskTakesTimeout
  <2>1. CASE Retransmit /\ Written(pLast_cmd_buf) /\ UNCHANGED <<apiVars, budget>>
    <3>1. TimerQueued
      BY <2>1 DEF Retransmit, Receive, TypeOK, TimerQueued
    <3>2. pLast_cmd_buf \in Command
      BY <3>1 DEF Inv, TimeoutHasCommand, TypeOK
    <3> QED BY <1>1, <2>1, <3>2, ApiKept
  <2>2. CASE GiveUp /\ TimeoutCallback /\ UNCHANGED <<uwbs, budget, ghostVars>>
    BY <2>2 DEF TimeoutCallback, Wake, ApiTypeOK
  <2> QED BY <1>5, <2>1, <2>2 DEF TaskTakesTimeout
<1>6. CASE UNCHANGED quiet
  BY <1>6 DEF quiet, apiVars, ApiTypeOK
<1> QED BY <1>2, <1>3, <1>4, <1>5, <1>6 DEF Task

(* Every step of the stack keeps the types and the core's invariants.      *)
LEMMA StackTypeStep ==
    ASSUME StackTypeOK, Inv, [StackNext]_allVars
    PROVE  StackTypeOK' /\ Inv'
<1>1. TypeOK /\ ApiTypeOK /\ [Next]_vars
  BY TypeSplit, CoreStep
<1>2. TypeOK' /\ Inv'
  BY <1>1, TypeStep, InvStep
<1>3. ApiTypeOK'
  <2>1. ASSUME NEW kind \in Kinds, NEW hdr \in Hdr, Call(kind, hdr) PROVE ApiTypeOK'
    <3>1. CommandOf(kind, hdr) \in Command
      BY <1>1, <2>1, CallsCommand DEF Call
    <3> QED BY <1>1, <2>1, <3>1 DEF Call, ApiTypeOK
  <2>2. CASE Woken \/ WaitExpires
    BY <1>1, <2>2 DEF Woken, WaitExpires, Return, ApiTypeOK
  <2>3. CASE Answer
    BY <1>1, <2>3, ApiKept DEF Answer, ApiTypeOK
  <2>4. CASE Notify
    <3>1. budget' \in [ntf : 0 .. MaxNtf, fault : 0 .. MaxFault]
      BY <1>1, <2>4, UwbStackAssumption DEF Notify, ApiTypeOK
    <3> QED BY <1>1, <2>4, <3>1 DEF Notify, apiVars, ApiTypeOK
  <2>5. CASE Fault
    <3>1. budget' \in [ntf : 0 .. MaxNtf, fault : 0 .. MaxFault]
      BY <1>1, <2>5, UwbStackAssumption DEF Fault, ApiTypeOK
    <3> QED BY <1>1, <2>5, <3>1 DEF Fault, apiVars, ApiTypeOK
  <2>6. CASE TimerExpires
    BY <1>1, <2>6 DEF TimerExpires, apiVars, ApiTypeOK
  <2>7. CASE Task
    BY <1>1, <2>7, TaskType
  <2>8. CASE UNCHANGED allVars
    BY <1>1, <2>8 DEF allVars, apiVars, ApiTypeOK
  <2> QED BY <2>1, <2>2, <2>3, <2>4, <2>5, <2>6, <2>7, <2>8 DEF StackNext
<1> QED BY <1>2, <1>3 DEF StackTypeOK, ApiTypeOK

(* The initial state of the stack is one of the core. *)
LEMMA StackInitType == StackInit => StackTypeOK /\ Inv /\ Init
<1> SUFFICES ASSUME StackInit PROVE StackTypeOK /\ Inv /\ Init
  OBVIOUS
<1>1. Init
  BY DEF StackInit
<1>2. TypeOK
  BY <1>1, InitType
<1>3. Inv
  BY <1>1, InitInv
<1>4. ApiTypeOK
  BY UwbStackAssumption DEF StackInit, ApiTypeOK
<1> QED BY <1>1, <1>2, <1>3, <1>4, TypeSplit

(* Every variable of the stack keeps its type, whatever the environment    *)
(* (uwbContext, uwb_cb): late answers, faults and a full mailbox included. *)
THEOREM StackTypeCorrect == StackSpec => []StackTypeOK
<1>1. StackTypeOK /\ Inv /\ [StackNext]_allVars => (StackTypeOK /\ Inv)'
  BY StackTypeStep
<1> QED BY StackInitType, <1>1, PTL DEF StackSpec

(* The closed stack implements the core: its caller and controller are     *)
(* some of those that UciCore admits, so all that is proved of the core    *)
(* holds in it (uwb_ucif.c under UwbApi.c).                                *)
THEOREM StackImplementsCore == StackSpec => Spec
<1>1. StackTypeOK /\ [StackNext]_allVars => [Next]_vars
  BY CoreStep
<1> QED BY StackInitType, <1>1, StackTypeCorrect, PTL DEF StackSpec, Spec
-----------------------------------------------------------------------------
(***************************************************************************)
(* Second, for answers in time, no device faults, and fewer notifications  *)
(* than the mailbox has places: the exchange of a call is in one place at  *)
(* a time, so who comes by does not find an older one's remains.           *)
(***************************************************************************)
Regular == Timely /\ MaxFault = 0 /\ MaxNtf < QueueLen

NtfMsg == [type |-> "pkt", pkt |-> Ntf("other")]
CmdMsg == [type |-> "cmd", cmd |-> call]
RspMsg == [type |-> "pkt", pkt |-> [mt |-> "rsp", hdr |-> call.hdr, tag |-> call.tag]]

(* The queue q has nothing beside notifications, or m once. *)
Clear(q)   == \A i \in 1 .. Len(q) : q[i] = NtfMsg
Only(q, m) == \E i \in 1 .. Len(q) :
                 q[i] = m /\ \A j \in 1 .. Len(q) : j # i => q[j] = NtfMsg

Place == {"none", "command", "controller", "answer", "lost", "timeout"}
Boxed == {"command", "answer", "timeout"}

(* What a queue holds when the exchange is at p *)
Item(p)   == CASE p = "command" -> CmdMsg [] p = "answer" -> RspMsg [] OTHER -> TimerMsg
Box(q, p) == IF p \in Boxed THEN Only(q, Item(p)) ELSE Clear(q)

(* No command is with the core, or only a handler that is about to reset.  *)
AtRest == /\ pc = "loop" => uci_cmd_window = 1
          /\ pc = "window" => uci_cmd_window = 0 /\ ~rawCmdCbflag
          /\ pc = "recover" => timer = "off"

(* The core has sent the command of the call, and awaits the answer. *)
Awaiting == /\ pc = "loop" /\ is_resp_pending /\ pLast_cmd_buf = call
            /\ copies = cmd_retry_count + 1
            /\ call.raw => rawCmdCbflag

(* The exchange of the call under way is at p, and nowhere else. *)
At(p) ==
    /\ Box(mbox, p)
    /\ uwbs = IF p = "controller" THEN <<call>> ELSE << >>
    /\ Len(mbox) + budget.ntf <= MaxNtf + (IF p \in Boxed THEN 1 ELSE 0)
    /\ api = "wait" /\ devMgmtSem = 0 <=> p # "none"
    /\ p = "command" => copies = 0
    /\ p \in {"none", "command"} => AtRest
    /\ p \in {"controller", "lost", "answer", "timeout"} => Awaiting
    /\ p \in {"controller", "lost", "answer"} => timer = "running"
    /\ p = "timeout" => timer = "off"

(* What a woken caller will read: its own answer, or a timeout after all   *)
(* the re-transmissions.                                                   *)
Answered == /\ wstatus = "ok" /\ rsp_data # NoRsp
            /\ rsp_data.hdr = call.hdr /\ rsp_data.tag = call.tag
Expired  == wstatus = "timeout" /\ copies = MaxRetry + 2

Calling ==
    /\ api = "wait" =>
         /\ call \in Command /\ call.frag = "whole" /\ ~call.data
         /\ ~call.raw /\ devMgmtSem = 0 => currentEventId = call.hdr
    /\ devMgmtSem > 0 => api = "wait" /\ (Answered \/ Expired)
    /\ rawCmdCbflag => p_raw_cmd_cback
    /\ ~IsConformaceTestEnabled
    /\ dev_state = "ready" /\ budget.fault = 0

Orderly  == \E p \in Place : At(p)
Promises == OkIsOwn /\ TimeoutIsReal

IInv == Calling /\ Orderly /\ Promises

(* A queue without the exchange takes a message of it; a notification      *)
(* changes nothing.                                                        *)
LEMMA AppendOnly ==
    ASSUME NEW q \in Seq(Message), NEW m \in Message, Clear(q)
    PROVE  Only(Append(q, m), m)
<1>1. /\ Len(Append(q, m)) = Len(q) + 1 /\ Append(q, m)[Len(q) + 1] = m
      /\ \A j \in 1 .. Len(q) : Append(q, m)[j] = q[j]
  OBVIOUS
<1>2. \A j \in 1 .. Len(q) + 1 : j # Len(q) + 1 => j \in 1 .. Len(q)
  OBVIOUS
<1>3. Len(q) + 1 \in 1 .. Len(q) + 1
  OBVIOUS
<1> QED BY <1>1, <1>2, <1>3 DEF Clear, Only

(* And the message that carries it is a message. *)
LEMMA NtfIsMessage == NtfMsg \in Message
BY NtfIsPacket DEF NtfMsg, Message, NtfKind

(* A notification is put beside the exchange. *)
LEMMA AppendNtf ==
    ASSUME NEW q \in Seq(Message)
    PROVE  /\ Clear(q) => Clear(Append(q, NtfMsg))
           /\ \A m : Only(q, m) => Only(Append(q, NtfMsg), m)
<1> DEFINE r == Append(q, NtfMsg)
<1>1. /\ Len(r) = Len(q) + 1 /\ r[Len(q) + 1] = NtfMsg
      /\ \A j \in 1 .. Len(q) : r[j] = q[j] /\ j \in 1 .. Len(r)
  BY NtfIsMessage
<1>2. \A j \in 1 .. Len(r) : j \in 1 .. Len(q) \/ j = Len(q) + 1
  BY <1>1
<1> HIDE DEF r
<1>3. Clear(q) => Clear(r)
  BY <1>1, <1>2 DEF Clear
<1>4. \A m : Only(q, m) => Only(r, m)
  BY <1>1, <1>2 DEF Only
<1> QED BY <1>3, <1>4 DEF r

(* The oldest message is the one of the exchange, and the rest is clear,   *)
(* or it is a notification.                                                *)
LEMMA TakeOnly ==
    ASSUME NEW q \in Seq(Message), NEW m, q # << >>, Only(q, m)
    PROVE  (Head(q) = m /\ Clear(Tail(q))) \/ (Head(q) = NtfMsg /\ Only(Tail(q), m))
<1>1. /\ Len(q) > 0 /\ Len(Tail(q)) = Len(q) - 1 /\ Head(q) = q[1]
      /\ \A j \in 1 .. Len(Tail(q)) : Tail(q)[j] = q[j + 1] /\ j + 1 \in 1 .. Len(q)
  OBVIOUS
<1>2. PICK i \in 1 .. Len(q) :
         q[i] = m /\ \A j \in 1 .. Len(q) : j # i => q[j] = NtfMsg
  BY DEF Only
<1>3. CASE i = 1
  BY <1>1, <1>2, <1>3 DEF Clear
<1>4. CASE i # 1
  <2>1. i - 1 \in 1 .. Len(Tail(q)) /\ (i - 1) + 1 = i
    BY <1>1, <1>4
  <2>2. Tail(q)[i - 1] = m
    BY <1>1, <1>2, <2>1
  <2>3. \A j \in 1 .. Len(Tail(q)) : j # i - 1 => j + 1 # i
    OBVIOUS
  <2>4. \A j \in 1 .. Len(Tail(q)) : j # i - 1 => Tail(q)[j] = NtfMsg
    BY <1>1, <1>2, <2>3
  <2>5. Head(q) = NtfMsg
    BY <1>1, <1>2, <1>4
  <2> QED BY <2>1, <2>2, <2>4, <2>5 DEF Only
<1> QED BY <1>3, <1>4

(* A mailbox without the exchange holds notifications only. *)
LEMMA TakeClear ==
    ASSUME NEW q \in Seq(Message), q # << >>, Clear(q)
    PROVE  Head(q) = NtfMsg /\ Clear(Tail(q))
<1>1. /\ Len(q) > 0 /\ Len(Tail(q)) = Len(q) - 1 /\ Head(q) = q[1]
      /\ \A j \in 1 .. Len(Tail(q)) : Tail(q)[j] = q[j + 1] /\ j + 1 \in 1 .. Len(q)
  OBVIOUS
<1> QED BY <1>1 DEF Clear

(* The messages of an exchange are told apart. *)
LEMMA Distinct ==
    /\ NtfMsg.type = "pkt" /\ CmdMsg.type = "cmd" /\ RspMsg.type = "pkt" /\ TimerMsg.type = "timer"
    /\ NtfMsg.pkt.mt = "ntf" /\ RspMsg.pkt.mt = "rsp" /\ NtfMsg.pkt.kind = "other"
BY DEF NtfMsg, CmdMsg, RspMsg, TimerMsg, Ntf

(* What the UWB task finds: the message says where the exchange was. *)
LEMMA OldestPlace ==
    ASSUME mbox \in Seq(Message), NEW p \in Place, At(p), mbox # << >>
    PROVE  \/ Head(mbox) = NtfMsg /\ Box(Tail(mbox), p)
           \/ p \in Boxed /\ Head(mbox) = Item(p) /\ Clear(Tail(mbox))
BY TakeOnly, TakeClear DEF At, Box

(* A step that only moves the exchange ends no call. *)
LEMMA PromisesKept ==
    ASSUME Promises, UNCHANGED result
    PROVE  Promises'
BY DEF Promises, OkIsOwn, TimeoutIsReal

(* What the exchange puts in the mailbox depends on the call alone. *)
LEMMA SameItem == ASSUME UNCHANGED call PROVE \A p : Item(p)' = Item(p)
BY DEF Item, CmdMsg, RspMsg

(* A call is made when the exchange before it is over, and finds room. *)
LEMMA CallIInv ==
    ASSUME Regular, StackTypeOK, Inv, IInv, NEW kind \in Kinds, NEW hdr \in Hdr, Call(kind, hdr)
    PROVE  IInv'
<1>1. At("none") /\ devMgmtSem = 0
  BY DEF Call, IInv, Orderly, Calling, At, Place, StackTypeOK
<1>2. mbox \in Seq(Message) /\ budget.ntf \in Nat /\ Clear(mbox)
  BY <1>1, UwbStackAssumption DEF StackTypeOK, TypeOK, At, Box, Boxed
<1>3. call' \in Command /\ call' = CommandOf(kind, hdr)
  BY CallsCommand, TypeSplit DEF Call
<1>4. mbox' = Append(mbox, CmdMsg') /\ CmdMsg' \in Message
  BY <1>1, <1>2, <1>3, UwbStackAssumption, UciCoreAssumption
  DEF Call, Post, HasRoom, Regular, At, CmdMsg, Boxed, Message
<1>5. Only(mbox', CmdMsg') /\ Len(mbox') = Len(mbox) + 1
  BY <1>2, <1>4, AppendOnly
<1>6. At("command")'
  <2>1. Box(mbox, "command")'
    BY <1>5 DEF Box, Item, Boxed
  <2>2. AtRest'
    BY <1>1 DEF Call, At, AtRest, window, raw
  <2>3. /\ uwbs' = << >> /\ api' = "wait" /\ devMgmtSem' = 0 /\ copies' = 0
        /\ UNCHANGED budget /\ Len(mbox) + budget.ntf <= MaxNtf
    BY <1>1, UwbStackAssumption DEF Call, At, Boxed
  <2> QED BY <1>2, <1>5, <2>1, <2>2, <2>3, UwbStackAssumption DEF At, Boxed
<1>7. Calling'
  <2>1. call'.frag = "whole" /\ ~call'.data /\ (call'.raw <=> kind = "raw") /\ call'.hdr = hdr
    BY <1>3 DEF CommandOf
  <2>2. /\ kind # "raw" => currentEventId' = hdr
        /\ devMgmtSem' = 0 /\ UNCHANGED <<raw, mode, dev_state, budget>>
    BY <1>1 DEF Call
  <2> QED BY <1>3, <2>1, <2>2 DEF IInv, Calling, raw, mode
<1>8. Promises'
  BY PromisesKept DEF Call, IInv
<1> QED BY <1>6, <1>7, <1>8 DEF IInv, Orderly, Place

(* Who is woken reads what the exchange has left for it. *)
LEMMA WokenIInv ==
    ASSUME Regular, StackTypeOK, Inv, IInv, Woken
    PROVE  IInv'
<1>1. At("none") /\ devMgmtSem > 0
  BY DEF Woken, IInv, Orderly, At, StackTypeOK
<1>2. PICK status \in Outcome : Return(status)
  BY DEF Woken
<1>3. At("none")'
  BY <1>1, <1>2 DEF Woken, Return, vars, At, Box, Clear, Boxed, AtRest
<1>4. Calling'
  BY <1>1, <1>2 DEF Woken, Return, vars, IInv, Calling
<1>5. CASE Answered
  <2>1. status # "timeout"
    BY <1>2, <1>5 DEF Outcome, Answered
  <2>2. OkIsOwn'
    BY <1>2, <1>5 DEF Return, OkIsOwn, Answered
  <2>3. TimeoutIsReal'
    BY <1>2, <2>1 DEF Return, TimeoutIsReal
  <2> QED BY <1>3, <1>4, <2>2, <2>3 DEF IInv, Orderly, Promises, Place
<1>6. CASE Expired
  <2>1. status = "timeout"
    BY <1>2, <1>6 DEF Outcome, Expired
  <2>2. OkIsOwn' /\ TimeoutIsReal'
    BY <1>2, <1>6, <2>1 DEF Return, OkIsOwn, TimeoutIsReal, Expired
  <2> QED BY <1>3, <1>4, <2>2 DEF IInv, Orderly, Promises, Place
<1> QED BY <1>1, <1>5, <1>6 DEF IInv, Calling

(* The core always wakes the caller: its wait cannot end by itself. *)
LEMMA NeverExpires ==
    ASSUME Regular, StackTypeOK, IInv
    PROVE  ~WaitExpires
<1> SUFFICES ASSUME WaitExpires PROVE FALSE
  OBVIOUS
<1>1. PICK p \in Place : At(p)
  BY DEF IInv, Orderly
<1>2. p # "none" /\ mbox = << >> /\ uwbs = << >> /\ timer # "running"
  BY <1>1 DEF WaitExpires, CoreAtRest, At, Regular
<1>3. p \notin Boxed
  BY <1>1, <1>2 DEF At, Box, Only
<1> QED BY <1>1, <1>2, <1>3 DEF Place, Boxed, At

(* The controller's answer finds room. *)
LEMMA AnswerIInv ==
    ASSUME Regular, StackTypeOK, Inv, IInv, Answer
    PROVE  IInv'
<1>1. At("controller")
  BY DEF Answer, IInv, Orderly, At, Place
<1>2. /\ mbox \in Seq(Message) /\ budget.ntf \in Nat /\ Clear(mbox) /\ uwbs = <<call>>
      /\ call \in Command
  BY <1>1, UwbStackAssumption DEF StackTypeOK, TypeOK, At, Box, Boxed, IInv, Calling
<1>3. HasRoom
  BY <1>1, <1>2, UwbStackAssumption, UciCoreAssumption DEF At, HasRoom, Regular, Boxed
<1>4. PostPkt(RspMsg.pkt) /\ RspMsg \in Message
  BY <1>2, <1>3 DEF Answer, Deliver, RspMsg, Message, Packet, Command
<1>5. mbox' = Append(mbox, RspMsg)
  BY <1>3, <1>4 DEF PostPkt, Post, RspMsg
<1>6. Only(mbox', RspMsg) /\ Len(mbox') = Len(mbox) + 1 /\ uwbs' = << >>
  BY <1>2, <1>4, <1>5, AppendOnly DEF Answer
<1>7. UNCHANGED <<pc, window, pLast_cmd_buf, raw, timer, mode, apiVars, budget, ghostVars>>
  BY <1>4 DEF Answer, PostPkt
<1>8. RspMsg' = RspMsg
  BY <1>7 DEF RspMsg, apiVars
<1>9. At("answer")'
  <2>1. Box(mbox, "answer")'
    BY <1>6, <1>8 DEF Box, Item, Boxed
  <2>2. Awaiting' /\ timer' = "running"
    BY <1>1, <1>7 DEF At, Awaiting, window, raw, apiVars, ghostVars
  <2>3. api' = "wait" /\ devMgmtSem' = 0 /\ UNCHANGED budget /\ Len(mbox) + budget.ntf <= MaxNtf
    BY <1>1, <1>7, UwbStackAssumption DEF At, Boxed, apiVars
  <2> QED BY <1>2, <1>6, <2>1, <2>2, <2>3, UwbStackAssumption DEF At, Boxed
<1>10. Calling' /\ Promises'
  BY <1>7, PromisesKept DEF IInv, Calling, Answered, Expired, raw, mode, apiVars, ghostVars
<1> QED BY <1>9, <1>10 DEF IInv, Orderly, Place

(* A notification is beside the exchange. *)
LEMMA NotifyIInv ==
    ASSUME Regular, StackTypeOK, Inv, IInv, Notify
    PROVE  IInv'
<1>1. PICK p \in Place : At(p)
  BY DEF IInv, Orderly
<1>2. mbox \in Seq(Message) /\ budget.ntf \in Nat /\ budget.ntf > 0
  BY UwbStackAssumption DEF StackTypeOK, TypeOK, Notify
<1>3. /\ budget'.ntf = budget.ntf - 1 /\ budget'.fault = budget.fault
  BY UwbStackAssumption DEF Notify, StackTypeOK
<1>4. HasRoom
  BY <1>1, <1>2, UwbStackAssumption, UciCoreAssumption DEF At, HasRoom, Regular, Boxed
<1>5. mbox' = Append(mbox, NtfMsg) /\ UNCHANGED <<pc, window, pLast_cmd_buf, raw, timer, mode>>
  BY <1>4 DEF Notify, Deliver, PostPkt, Post, NtfMsg
<1>6. Box(mbox', p) /\ Len(mbox') = Len(mbox) + 1
  BY <1>1, <1>2, <1>5, AppendNtf, NtfIsMessage DEF At, Box
<1>7. UNCHANGED <<apiVars, uwbs, ghostVars>>
  BY DEF Notify
<1>8. Item(p)' = Item(p)
  BY <1>7, SameItem DEF apiVars
<1>9. At(p)'
  BY <1>1, <1>2, <1>3, <1>5, <1>6, <1>7, <1>8, UwbStackAssumption
  DEF At, Box, Boxed, AtRest, Awaiting, window, raw, apiVars, ghostVars
<1>10. Calling' /\ Promises'
  BY <1>3, <1>5, <1>7, PromisesKept
  DEF IInv, Calling, Answered, Expired, raw, mode, apiVars, ghostVars
<1> QED BY <1>9, <1>10 DEF IInv, Orderly

(* The timer runs out only when nothing is under way, and its timeout      *)
(* finds room.                                                             *)
LEMMA TimerIInv ==
    ASSUME Regular, StackTypeOK, Inv, IInv, TimerExpires
    PROVE  IInv'
<1>1. PICK p \in Place : At(p)
  BY DEF IInv, Orderly
<1>2. timer = "running" /\ ~AnswerUnderWay
  BY DEF TimerExpires, TimerFires, Regular
<1>3. p = "lost"
  <2>1. p \notin {"none", "command"}
    <3>1. is_resp_pending /\ uci_cmd_window = 0
      BY <1>2 DEF Inv, WindowInv
    <3>2. pc \in {"loop", "window", "recover"}
      BY DEF StackTypeOK, TypeOK
    <3> QED BY <1>1, <1>2, <3>1, <3>2 DEF At, AtRest, AnswerUnderWay
  <2>2. p # "controller"
    BY <1>1, <1>2 DEF At, AnswerUnderWay
  <2>3. p # "answer"
    <3> SUFFICES ASSUME p = "answer" PROVE FALSE
      OBVIOUS
    <3>1. PICK i \in 1 .. Len(mbox) : mbox[i] = RspMsg
      BY <1>1 DEF At, Box, Boxed, Item, Only
    <3>2. i \in DOMAIN mbox
      BY <3>1 DEF StackTypeOK, TypeOK
    <3> QED BY <1>2, <3>1, <3>2, Distinct DEF AnswerUnderWay
  <2>4. p # "timeout"
    BY <1>1, <1>2 DEF At
  <2> QED BY <2>1, <2>2, <2>3, <2>4 DEF Place
<1>4. /\ mbox \in Seq(Message) /\ budget.ntf \in Nat /\ Clear(mbox)
      /\ Len(mbox) + budget.ntf <= MaxNtf
  BY <1>1, <1>3, UwbStackAssumption DEF StackTypeOK, TypeOK, At, Box, Boxed
<1>5. mbox' = Append(mbox, TimerMsg) /\ timer' = "off"
  BY <1>4, UwbStackAssumption, UciCoreAssumption
  DEF TimerExpires, TimerFires, Post, HasRoom, Regular
<1>6. Only(mbox', TimerMsg) /\ Len(mbox') = Len(mbox) + 1
  BY <1>4, <1>5, AppendOnly, TimerIsMessage
<1>7. UNCHANGED <<pc, window, pLast_cmd_buf, raw, mode, apiVars, uwbs, budget, ghostVars>>
  BY DEF TimerExpires, TimerFires
<1>8. At("timeout")'
  <2>1. Box(mbox, "timeout")'
    BY <1>6 DEF Box, Item, Boxed
  <2>2. Awaiting'
    BY <1>1, <1>3, <1>7 DEF At, Awaiting, window, raw, apiVars, ghostVars
  <2>3. api' = "wait" /\ devMgmtSem' = 0 /\ uwbs' = << >> /\ UNCHANGED budget
    BY <1>1, <1>3, <1>7 DEF At, apiVars
  <2> QED BY <1>4, <1>5, <1>6, <2>1, <2>2, <2>3, UwbStackAssumption DEF At, Boxed
<1>9. Calling' /\ Promises'
  BY <1>7, PromisesKept DEF IInv, Calling, Answered, Expired, raw, mode, apiVars, ghostVars
<1> QED BY <1>8, <1>9 DEF IInv, Orderly, Place
-----------------------------------------------------------------------------
(* The handlers of the UWB task                                            *)

(* A message of the exchange is taken: where it was, and what stays. *)
LEMMA TakesItem ==
    ASSUME StackTypeOK, IInv, NEW m \in Message, Receive(m), m # NtfMsg
    PROVE  \E p \in Boxed : /\ At(p) /\ m = Item(p) /\ Clear(mbox')
                            /\ Len(mbox') + budget.ntf <= MaxNtf
<1>1. PICK p \in Place : At(p)
  BY DEF IInv, Orderly
<1>2. mbox \in Seq(Message) /\ mbox # << >> /\ m = Head(mbox) /\ mbox' = Tail(mbox)
  BY DEF Receive, StackTypeOK, TypeOK
<1>3. p \in Boxed /\ m = Item(p) /\ Clear(mbox')
  BY <1>1, <1>2, OldestPlace
<1>4. Len(mbox') = Len(mbox) - 1 /\ budget.ntf \in Nat
  BY <1>2, UwbStackAssumption DEF StackTypeOK
<1>5. Len(mbox') + budget.ntf <= MaxNtf
  BY <1>1, <1>2, <1>3, <1>4, UwbStackAssumption DEF At
<1> QED BY <1>1, <1>3, <1>5

(* What the items are *)
LEMMA ItemOf ==
    ASSUME NEW p \in Boxed
    PROVE  /\ Item(p).type = "cmd" => p = "command" /\ Item(p) = CmdMsg
           /\ Item(p).type = "pkt" => p = "answer" /\ Item(p) = RspMsg
           /\ Item(p).type = "timer" => p = "timeout"
BY Distinct DEF Item, Boxed

(* The command of the call is sent: no other is in the mailbox, and the    *)
(* window is open for it.                                                  *)
LEMMA TaskCmdIInv ==
    ASSUME Regular, StackTypeOK, Inv, IInv, NEW m \in Oldest, m.type = "cmd", TaskTakesCmd(m.cmd)
    PROVE  ~DropCmd(m.cmd) /\ IInv'
<1>1. m \in Message /\ m = [type |-> "cmd", cmd |-> m.cmd]
  BY OldestType, TypeSplit
<1>2. Receive(m) /\ m # NtfMsg
  BY <1>1, Distinct DEF TaskTakesCmd, DropCmd, SendCmd, ReceiveCmd
<1>3. /\ At("command") /\ m.cmd = call /\ Clear(mbox') /\ Len(mbox') + budget.ntf <= MaxNtf
  BY <1>1, <1>2, TakesItem, ItemOf DEF CmdMsg
<1>4. pc = "loop" /\ uci_cmd_window = 1
  BY <1>2, <1>3 DEF At, AtRest, Receive
<1>5. ~DropCmd(m.cmd)
  BY <1>4 DEF DropCmd
<1>6. SendCmd(call, FALSE) /\ Written(call) /\ UNCHANGED <<apiVars, budget>>
  BY <1>3, <1>5 DEF TaskTakesCmd
<1>7. call.raw \in BOOLEAN /\ call.frag = "whole" /\ copies' = 1
  BY <1>3, <1>6 DEF At, IInv, Calling, Command, Written
<1>8. Awaiting' /\ timer' = "running"
  BY <1>6, <1>7 DEF SendCmd, ReceiveCmd, Receive, Awaiting, apiVars
<1>9. uwbs' = <<call>> \/ uwbs' = << >>
  BY <1>3, <1>6 DEF At, Written
<1>10. Orderly'
  <2>1. api' = "wait" /\ devMgmtSem' = 0 /\ UNCHANGED budget /\ UNCHANGED call
    BY <1>3, <1>6 DEF At, apiVars
  <2>2. ASSUME uwbs' = <<call>> PROVE At("controller")'
    BY <1>3, <1>8, <2>1, <2>2, UwbStackAssumption DEF At, Box, Boxed, Clear
  <2>3. ASSUME uwbs' = << >> PROVE At("lost")'
    BY <1>3, <1>8, <2>1, <2>3, UwbStackAssumption DEF At, Box, Boxed, Clear
  <2> QED BY <1>9, <2>2, <2>3 DEF Orderly, Place
<1>11. Calling'
  <2>1. rawCmdCbflag' => p_raw_cmd_cback'
    BY <1>6, <1>7 DEF SendCmd, IInv, Calling
  <2>2. UNCHANGED <<apiVars, budget, mode>> /\ devMgmtSem = 0
    BY <1>3, <1>6 DEF SendCmd, At
  <2> QED BY <2>1, <2>2 DEF IInv, Calling, apiVars, mode
<1>12. Promises'
  BY <1>6, PromisesKept DEF Written, IInv
<1> QED BY <1>5, <1>10, <1>11, <1>12 DEF IInv

(* The answer is the call's, and its callback wakes the caller: by the raw *)
(* flag, or because the caller waits for just this header.                 *)
LEMMA TaskRspIInv ==
    ASSUME Regular, StackTypeOK, Inv, IInv,
           NEW m \in Oldest, m.type = "pkt", m.pkt.mt = "rsp", TaskTakesRsp(m.pkt)
    PROVE  IInv'
<1>1. m \in Message /\ m = [type |-> "pkt", pkt |-> m.pkt]
  BY OldestType, TypeSplit
<1>2. Receive(m) /\ m # NtfMsg
  BY <1>1, Distinct DEF TaskTakesRsp, RawRsp, CmdRsp, UnexpectedRsp, ReceivePkt
<1>3. At("answer") /\ m = RspMsg /\ Clear(mbox') /\ Len(mbox') + budget.ntf <= MaxNtf
  BY <1>1, <1>2, TakesItem, ItemOf
<1>4. m.pkt.hdr = call.hdr /\ m.pkt.tag = call.tag
  BY <1>3 DEF RspMsg
<1>5. /\ api = "wait" /\ devMgmtSem = 0 /\ uwbs = << >> /\ Awaiting
      /\ uci_cmd_window = 0 /\ call \in Command
      /\ ~call.raw => currentEventId = call.hdr
      /\ rawCmdCbflag => p_raw_cmd_cback
  BY <1>3 DEF At, IInv, Calling, Inv, WindowInv, Awaiting
<1>6. /\ \/ RawRsp(m.pkt) /\ RawCommandResponseCb(m.pkt)
         \/ CmdRsp(m.pkt) /\ RspCallback(m.pkt)
      /\ UNCHANGED <<uwbs, budget, ghostVars>>
  <2>1. ~UnexpectedRsp(m.pkt)
    BY <1>4, <1>5 DEF UnexpectedRsp, Expected, Awaiting
  <2>2. RawRsp(m.pkt) => p_raw_cmd_cback
    BY <1>5 DEF RawRsp
  <2> QED BY <2>1, <2>2 DEF TaskTakesRsp
<1>7. /\ UNCHANGED <<api, call, dev_state, uwbs, budget, ghostVars, window, mode>>
      /\ pc' = "window" /\ ~rawCmdCbflag' /\ devMgmtSem' = 1 /\ wstatus' = "ok"
      /\ rsp_data' # NoRsp /\ rsp_data'.hdr = call.hdr /\ rsp_data'.tag = call.tag
  <2>1. \A header : [hdr |-> m.pkt.hdr, tag |-> m.pkt.tag, header |-> header] # NoRsp
    <3> SUFFICES ASSUME NEW header,
                        [hdr |-> m.pkt.hdr, tag |-> m.pkt.tag, header |-> header] = NoRsp
                 PROVE  FALSE
      OBVIOUS
    <3>1. DOMAIN [hdr |-> m.pkt.hdr, tag |-> m.pkt.tag, header |-> header] = DOMAIN NoRsp
      OBVIOUS
    <3> QED BY <3>1 DEF NoRsp
  <2>2. CASE RawRsp(m.pkt) /\ RawCommandResponseCb(m.pkt)
    BY <1>4, <1>6, <2>1, <2>2 DEF RawRsp, RawCommandResponseCb, Wake
  <2>3. CASE CmdRsp(m.pkt) /\ RspCallback(m.pkt)
    <3>1. currentEventId = m.pkt.hdr /\ rawCmdCbflag = FALSE
      BY <1>4, <1>5, <2>3 DEF CmdRsp, Awaiting, StackTypeOK, TypeOK
    <3> QED BY <1>4, <1>6, <2>1, <2>3, <3>1 DEF CmdRsp, RspCallback, Wake, raw
  <2> QED BY <1>6, <2>2, <2>3
<1>8. At("none")'
  BY <1>3, <1>5, <1>7, UwbStackAssumption
  DEF At, Box, Boxed, Clear, AtRest, window
<1>9. Calling'
  BY <1>5, <1>7 DEF IInv, Calling, Answered, mode
<1>10. Promises'
  BY <1>7, PromisesKept DEF IInv, ghostVars
<1> QED BY <1>8, <1>9, <1>10 DEF IInv, Orderly, Place

(* A notification is taken from beside the exchange, and wakes nobody. *)
LEMMA TaskNtfIInv ==
    ASSUME Regular, StackTypeOK, Inv, IInv, TaskTakesNtf
    PROVE  IInv'
<1>1. PICK p \in Place : At(p)
  BY DEF IInv, Orderly
<1>2. mbox \in Seq(Message) /\ budget.ntf \in Nat
  BY UwbStackAssumption DEF StackTypeOK, TypeOK
<1>3. ~DeviceFault
  <2> SUFFICES ASSUME DeviceFault PROVE FALSE
    OBVIOUS
  <2> DEFINE m == [type |-> "pkt", pkt |-> Ntf("fault")]
  <2>1. m \in Message /\ Receive(m) /\ m.type = "pkt" /\ m.pkt.mt = "ntf" /\ m.pkt.kind = "fault"
    BY NtfIsPacket DEF DeviceFault, ReceivePkt, Message, Ntf, NtfKind
  <2> HIDE DEF m
  <2>2. m # NtfMsg /\ m # RspMsg
    BY <2>1, Distinct
  <2> QED BY <2>1, <2>2, TakesItem, ItemOf
<1>4. /\ PassUp(Ntf("other")) /\ dev_state' = "ready" /\ NoWake
      /\ UNCHANGED <<api, call, wstatus, rsp_data, uwbs, budget, ghostVars>>
  BY <1>3 DEF TaskTakesNtf, NtfCallback, ErrorWhilePending, IInv, Calling
<1>5. mbox # << >> /\ Head(mbox) = NtfMsg /\ mbox' = Tail(mbox)
  BY <1>4 DEF PassUp, ReceivePkt, Receive, NtfMsg
<1>6. Box(mbox', p)
  <2>1. CASE p \in Boxed
    <3>1. NtfMsg # Item(p)
      BY <2>1, ItemOf, Distinct
    <3> QED BY <1>1, <1>2, <1>5, <3>1, OldestPlace
  <2>2. CASE p \notin Boxed
    BY <1>1, <1>2, <1>5, <2>2, OldestPlace
  <2> QED BY <2>1, <2>2
<1>7. Len(mbox') <= Len(mbox) /\ Len(mbox') \in Nat /\ Len(mbox) \in Nat
  BY <1>2, <1>5
<1>8. /\ Item(p)' = Item(p)
      /\ UNCHANGED <<pc, window, pLast_cmd_buf, raw, timer, mode>>
  BY <1>4, SameItem DEF PassUp
<1>9. At(p)'
  BY <1>1, <1>2, <1>4, <1>6, <1>7, <1>8, UwbStackAssumption
  DEF At, Box, Boxed, AtRest, Awaiting, window, raw, NoWake, ghostVars
<1>10. Calling' /\ Promises'
  BY <1>4, <1>8, PromisesKept
  DEF IInv, Calling, Answered, Expired, raw, mode, NoWake, ghostVars
<1> QED BY <1>9, <1>10 DEF IInv, Orderly

(* A timeout is never stale: the command it finds pending is sent again,   *)
(* or was sent MaxRetry + 2 times.                                         *)
LEMMA TaskTimeoutIInv ==
    ASSUME Regular, StackTypeOK, Inv, IInv, TaskTakesTimeout
    PROVE  IInv'
<1>1. Receive(TimerMsg)
  BY DEF TaskTakesTimeout, Retransmit, GiveUp
<1>2. At("timeout") /\ Clear(mbox') /\ Len(mbox') + budget.ntf <= MaxNtf
  BY <1>1, TakesItem, ItemOf, TimerIsMessage, Distinct
<1>3. /\ api = "wait" /\ devMgmtSem = 0 /\ uwbs = << >> /\ Awaiting /\ timer = "off"
      /\ call \in Command /\ ~call.data
  BY <1>2 DEF At, IInv, Calling
<1>4. CASE Retransmit /\ Written(call) /\ UNCHANGED <<apiVars, budget>>
  <2>1. /\ copies' = copies + 1 /\ cmd_retry_count' = cmd_retry_count + 1 /\ timer' = "running"
        /\ UNCHANGED <<pc, uci_cmd_window, is_resp_pending, pLast_cmd_buf, raw, mode, result>>
        /\ uwbs' = <<call>> \/ uwbs' = << >>
    BY <1>3, <1>4 DEF Retransmit, Written
  <2>2. Awaiting'
    BY <1>3, <1>4, <2>1 DEF Awaiting, raw, apiVars, StackTypeOK, TypeOK
  <2>3. Orderly'
    <3>1. ASSUME uwbs' = <<call>> PROVE At("controller")'
      BY <1>2, <1>3, <1>4, <2>1, <2>2, <3>1, UwbStackAssumption DEF At, Box, Boxed, Clear, apiVars
    <3>2. ASSUME uwbs' = << >> PROVE At("lost")'
      BY <1>2, <1>3, <1>4, <2>1, <2>2, <3>2, UwbStackAssumption DEF At, Box, Boxed, Clear, apiVars
    <3> QED BY <2>1, <3>1, <3>2 DEF Orderly, Place
  <2>4. Calling' /\ Promises'
    BY <1>3, <1>4, <2>1, PromisesKept DEF IInv, Calling, raw, mode, apiVars
  <2> QED BY <2>3, <2>4 DEF IInv
<1>5. CASE GiveUp /\ TimeoutCallback /\ UNCHANGED <<uwbs, budget, ghostVars>>
  <2>1. cmd_retry_count = MaxRetry + 1
    BY <1>3, <1>5, UciCoreAssumption
    DEF GiveUp, CanRetry, DataUnderTest, Awaiting, IInv, Calling, StackTypeOK, TypeOK
  <2>2. copies = MaxRetry + 2
    BY <1>3, <2>1, UciCoreAssumption DEF Awaiting
  <2>3. /\ pc' = "recover" /\ devMgmtSem' = 1 /\ wstatus' = "timeout"
        /\ UNCHANGED <<api, call, dev_state, uwbs, budget, ghostVars, raw, timer, mode>>
    BY <1>5 DEF GiveUp, TimeoutCallback, Wake
  <2>4. At("none")'
    BY <1>2, <1>3, <2>3, UwbStackAssumption DEF At, Box, Boxed, Clear, AtRest
  <2>5. Calling' /\ Promises'
    BY <1>3, <2>2, <2>3, PromisesKept DEF IInv, Calling, Expired, raw, mode, ghostVars
  <2> QED BY <2>4, <2>5 DEF IInv, Orderly, Place
<1> QED BY <1>3, <1>4, <1>5 DEF TaskTakesTimeout, Awaiting

(* The end of a handler: the window opens for the next command, which may  *)
(* be in the mailbox already.                                              *)
LEMMA TaskRestIInv ==
    ASSUME Regular, StackTypeOK, Inv, IInv, UpdateWindow \/ Recover, UNCHANGED quiet
    PROVE  IInv'
<1>1. PICK p \in Place : At(p)
  BY DEF IInv, Orderly
<1>2. p \in {"none", "command"}
  BY <1>1 DEF Place, At, Awaiting, UpdateWindow, Recover
<1>3. /\ uci_cmd_window' = 1 /\ pc' = "loop"
      /\ UNCHANGED <<mbox, rawCmdCbflag, mode>>
      /\ rawCmdCbflag' => p_raw_cmd_cback'
  <2>1. CASE UpdateWindow
    <3>1. uci_cmd_window = 0 /\ ~rawCmdCbflag
      BY <1>1, <1>2, <2>1 DEF At, AtRest, UpdateWindow
    <3> QED BY <2>1, <3>1 DEF UpdateWindow, UpdateCmdWindow
  <2>2. CASE Recover
    BY <2>2 DEF Recover, FlushCmdQueue, raw, IInv, Calling
  <2> QED BY <2>1, <2>2
<1>4. UNCHANGED <<apiVars, uwbs, budget, ghostVars>>
  BY DEF quiet
<1>5. At(p)'
  <2>1. Item(p)' = Item(p)
    BY <1>4, SameItem DEF apiVars
  <2>2. Box(mbox, p)'
    BY <1>1, <1>3, <2>1 DEF At, Box, Only, Clear
  <2> QED BY <1>1, <1>2, <1>3, <1>4, <2>2 DEF At, AtRest, Boxed, apiVars, ghostVars
<1>6. Calling' /\ Promises'
  BY <1>3, <1>4, PromisesKept
  DEF IInv, Calling, Answered, Expired, mode, apiVars, ghostVars
<1> QED BY <1>5, <1>6 DEF IInv, Orderly

(* A step that changes nothing *)
LEMMA StutterIInv ==
    ASSUME IInv, UNCHANGED allVars
    PROVE  IInv'
<1> USE DEF allVars, vars, apiVars, ghostVars
<1>1. PICK p \in Place : At(p)
  BY DEF IInv, Orderly
<1>2. At(p)'
  <2>1. Item(p)' = Item(p)
    BY SameItem
  <2>2. Box(mbox, p)'
    BY <1>1, <2>1 DEF At, Box, Only, Clear
  <2> QED BY <1>1, <2>2 DEF At, AtRest, Awaiting, Boxed
<1>3. Calling' /\ Promises'
  BY PromisesKept DEF IInv, Calling, Answered, Expired
<1> QED BY <1>2, <1>3 DEF IInv, Orderly
-----------------------------------------------------------------------------
(* Before the first call the exchange is nowhere. *)
LEMMA InitIInv == ASSUME Regular, StackInit PROVE IInv
<1>1. At("none")
  BY UwbStackAssumption DEF Regular, StackInit, Init, At, Box, Boxed, Clear, AtRest
<1>2. Calling /\ Promises
  BY DEF Regular, StackInit, Init, Calling, Promises, OkIsOwn, TimeoutIsReal, NoResult
<1> QED BY <1>1, <1>2 DEF IInv, Orderly, Place

(* Every step of the stack keeps the exchange in one place. *)
LEMMA IInvStep ==
    ASSUME Regular, StackTypeOK, Inv, IInv, [StackNext]_allVars
    PROVE  IInv'
<1>1. CASE Fault
  BY <1>1 DEF Fault, IInv, Calling
<1>2. CASE Task
  BY <1>2, TaskCmdIInv, TaskRspIInv, TaskNtfIInv, TaskTimeoutIInv, TaskRestIInv DEF Task
<1> QED BY <1>1, <1>2, CallIInv, WokenIInv, NeverExpires, AnswerIInv, NotifyIInv, TimerIInv,
           StutterIInv DEF StackNext

LEMMA StackInvariant == ASSUME Regular PROVE StackSpec => [](StackTypeOK /\ Inv /\ IInv)
<1>1. StackInit => StackTypeOK /\ Inv /\ IInv
  BY StackInitType, InitIInv
<1>2. StackTypeOK /\ Inv /\ IInv /\ [StackNext]_allVars => (StackTypeOK /\ Inv /\ IInv)'
  BY StackTypeStep, IInvStep
<1> QED BY <1>1, <1>2, PTL DEF StackSpec

(* A call that returns OK returns its own answer (UwbApi_Internal.c), with *)
(* answers in time, no device fault and room for a notification more.      *)
THEOREM OwnAnswer == ASSUME Regular PROVE StackSpec => []OkIsOwn
<1>1. IInv => OkIsOwn
  BY DEF IInv, Promises
<1> QED BY <1>1, StackInvariant, PTL

(* A call that returns TIMEOUT was sent MaxRetry + 2 times (UwbApi.c:353). *)
THEOREM RealTimeout == ASSUME Regular PROVE StackSpec => []TimeoutIsReal
<1>1. IInv => TimeoutIsReal
  BY DEF IInv, Promises
<1> QED BY <1>1, StackInvariant, PTL

(* The semaphore is posted only for a caller that waits, so no call finds  *)
(* a token of an earlier one (UwbApi_Internal.c).                          *)
THEOREM NoTokenLeft == ASSUME Regular PROVE StackSpec => []NoStaleToken
<1>1. IInv => NoStaleToken
  BY DEF IInv, Calling, NoStaleToken
<1> QED BY <1>1, StackInvariant, PTL

(* No step ends a caller's wait by its own limit: the core wakes it first. *)
THEOREM CoreWakes == ASSUME Regular PROVE StackSpec => WokenByCore
<1>1. StackTypeOK /\ IInv => [~WaitExpires]_allVars
  BY NeverExpires
<1> QED BY <1>1, StackInvariant, PTL DEF WokenByCore

(* Every command that the task takes is transmitted (uci_hmsgs.c:262): it  *)
(* never finds the window shut.                                            *)
THEOREM EveryCommandSent == ASSUME Regular PROVE StackSpec => NoCommandDropped
<1>1. ASSUME StackTypeOK, Inv, IInv, NEW c \in Command PROVE ~DropCmd(c)
  <2> SUFFICES ASSUME DropCmd(c) PROVE FALSE
    OBVIOUS
  <2> DEFINE m == [type |-> "cmd", cmd |-> c]
  <2>1. m \in Message /\ Receive(m) /\ m.type = "cmd" /\ uci_cmd_window = 0 /\ pc = "loop"
    BY DEF DropCmd, ReceiveCmd, Receive, Message
  <2> HIDE DEF m
  <2>2. m # NtfMsg
    BY <2>1, Distinct
  <2>3. At("command")
    BY <1>1, <2>1, <2>2, TakesItem, ItemOf
  <2> QED BY <2>1, <2>3 DEF At, AtRest
<1>2. StackTypeOK /\ Inv /\ IInv => [\A c \in Command : ~DropCmd(c)]_vars
  BY <1>1
<1> QED BY <1>2, StackInvariant, PTL DEF NoCommandDropped
===============================================================================
