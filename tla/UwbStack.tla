------------------------------ MODULE UwbStack ------------------------------
(***************************************************************************)
(* The UCI core closed: one caller of the UWB API above it, the UWB        *)
(* controller below it, and the callbacks by which the UWB task completes  *)
(* a call (ufaDeviceManagementRspCallback, ufaDeviceManagementNtfCallback, *)
(* rawCommandResponse_Cb).  The caller sleeps on devMgmtSem, which every   *)
(* callback may post, and learns the outcome from globals: what this       *)
(* module is about is whether the outcome it reads is its own.             *)
(*                                                                         *)
(* A callback runs inside the handler that makes the upcall, so each of    *)
(* the core's actions is conjoined with the callback it runs.              *)
(***************************************************************************)
EXTENDS UciCore

CONSTANTS MaxCalls,   \* bound: calls made by the application
          Kinds,      \* bound: the calls it makes, a subset of {"plain", "raw"}
          MaxNtf,     \* bound: notifications the controller sends by itself
          MaxFault,   \* bound: the same, of DEVICE_STATUS_ERROR
          Timely,     \* an answer that is on its way beats the 50 ms timer
          Outranked   \* the UWB task (priority 5) outranks the caller

ASSUME UwbStackAssumption ==
    /\ MaxCalls \in Nat /\ MaxNtf \in Nat /\ MaxFault \in Nat
    /\ Tag = 1 .. MaxCalls
    /\ Kinds \subseteq {"plain", "raw"}
    /\ Timely \in BOOLEAN /\ Outranked \in BOOLEAN

VARIABLES
    api,              \* the caller: "idle", or "wait" on devMgmtSem
    call,             \* the command of the call under way, or of the last one
    currentEventId,   \* uwbContext.currentEventId: the awaited response
    devMgmtSem,       \* a counting semaphore whose maximum is 1
    wstatus,          \* uwbContext.wstatus
    rsp_data,         \* ghost: the response that wstatus and rsp_data are of
    dev_state,        \* uwbContext.dev_state
    uwbs,             \* the controller: commands received and not answered
    budget,           \* notifications and faults still to come
    copies,           \* ghost: times call was written
    faulted,          \* ghost: a device fault was handled during the call
    result            \* ghost: how the last call ended

apiVars   == <<api, call, currentEventId, devMgmtSem, wstatus, rsp_data, dev_state>>
ghostVars == <<copies, faulted, result>>
allVars   == <<vars, apiVars, uwbs, budget, ghostVars>>

NoRsp    == [tag |-> 0]
NoResult == [status |-> "none", tag |-> 0, rsp |-> NoRsp, copies |-> 0, faulted |-> FALSE]

StackTypeOK ==
    /\ TypeOK
    /\ api \in {"idle", "wait"}
    /\ call \in Command \cup {NoCmd}
    /\ currentEventId \in Hdr \cup {"default", "timeout"}
    /\ devMgmtSem \in 0 .. 1
    /\ wstatus \in {"ok", "failed", "timeout"}
    /\ rsp_data \in [hdr : Hdr, tag : Tag, header : BOOLEAN] \cup {NoRsp}
    /\ dev_state \in {"ready", "error"}
    /\ uwbs \in Seq(Command)
    /\ budget \in [ntf : 0 .. MaxNtf, fault : 0 .. MaxFault]

StackInit ==
    /\ Init
    /\ api = "idle" /\ call = NoCmd
    /\ currentEventId = "default"
    /\ devMgmtSem = 0
    /\ wstatus = "ok"
    /\ rsp_data = NoRsp
    /\ dev_state = "ready"
    /\ uwbs = << >>
    /\ budget = [ntf |-> MaxNtf, fault |-> MaxFault]
    /\ copies = 0 /\ faulted = FALSE /\ result = NoResult
-----------------------------------------------------------------------------
(* The demos' tasks have priority 4: they run when the UWB task waits for  *)
(* a message.  A task of the priority of the recovery task (5) shares the  *)
(* processor with it.                                                      *)
CallerRuns == Outranked => mbox = << >> /\ pc = "loop"

(* The application makes its calls one after the other; tag counts them.   *)
Made == IF call = NoCmd THEN 0 ELSE call.tag

CommandOf(kind, hdr) ==
    [raw |-> kind = "raw", data |-> FALSE, frag |-> "whole", hdr |-> hdr, tag |-> Made + 1]

(* sendUciCommandAndWait behind sep_SetWaitEvent, and sendRawUci.  The     *)
(* semaphore is not drained; wstatus is reset by the raw call only.        *)
Call(kind, hdr) ==
    /\ CallerRuns
    /\ api = "idle"
    /\ Made < MaxCalls
    /\ LET c == CommandOf(kind, hdr) IN
         /\ Post([type |-> "cmd", cmd |-> c])
         /\ call' = c
    /\ api' = "wait"
    /\ currentEventId' = IF kind = "raw" THEN "timeout" ELSE hdr
    /\ wstatus' = IF kind = "raw" THEN "failed" ELSE wstatus
    /\ copies' = 0
    /\ faulted' = FALSE
    /\ UNCHANGED <<pc, window, pLast_cmd_buf, raw, timer, mode,
                   devMgmtSem, rsp_data, dev_state, uwbs, budget, result>>

Return(status) ==
    /\ api' = "idle"
    /\ result' = [status |-> status, tag |-> call.tag, rsp |-> rsp_data,
                  copies |-> copies, faulted |-> faulted]
    /\ UNCHANGED <<vars, call, currentEventId, wstatus, rsp_data, dev_state,
                   uwbs, budget, copies, faulted>>

(* sendRawUci compares the header it finds in rsp_data with the command's; *)
(* a response that came by the other callback has no header there.         *)
HeaderMatches ==
    IF rsp_data = NoRsp THEN {FALSE}
    ELSE IF rsp_data.header THEN {rsp_data.hdr = call.hdr} ELSE BOOLEAN

Outcome ==
    IF call.raw /\ wstatus # "timeout"
    THEN {IF matches THEN wstatus ELSE "failed" : matches \in HeaderMatches}
    ELSE {wstatus}

Woken ==
    /\ CallerRuns
    /\ api = "wait"
    /\ devMgmtSem > 0
    /\ devMgmtSem' = 0
    /\ \E status \in Outcome : Return(status)

(* Mutant: the wait of a raw call has no limit. *)
WaitExpiresUnlessRaw ==
    /\ api = "wait"
    /\ ~call.raw
    /\ devMgmtSem = 0
    /\ mbox = << >> /\ pc = "loop" /\ timer # "running"
    /\ Timely => uwbs = << >>
    /\ Return("timeout")
    /\ UNCHANGED devMgmtSem

(* 1500 ms (3000 ms for a raw call) outlast the 50 ms timer, its 21        *)
(* re-transmissions and the handling of what is queued.                    *)
CoreAtRest == mbox = << >> /\ pc = "loop" /\ timer # "running"

WaitExpires ==
    /\ api = "wait"
    /\ devMgmtSem = 0
    /\ CoreAtRest
    /\ Timely => uwbs = << >>
    /\ \E status \in IF call.raw THEN Outcome ELSE {"timeout"} : Return(status)
    /\ UNCHANGED devMgmtSem
-----------------------------------------------------------------------------
(* The callbacks.  ProduceSemaphore saturates at the maximum count.        *)
Wake == currentEventId' = "default" /\ devMgmtSem' = 1

NoWake == UNCHANGED <<currentEventId, devMgmtSem>>

ErrorWhilePending == is_resp_pending /\ dev_state' = "error"

(* ufaDeviceManagementRspCallback, for a response of the controller: the   *)
(* response's data is taken whether or not somebody waits for it.          *)
RspCallback(p) ==
    /\ wstatus' = "ok"
    /\ rsp_data' = [hdr |-> p.hdr, tag |-> p.tag, header |-> FALSE]
    /\ UNCHANGED dev_state
    /\ IF currentEventId = p.hdr \/ ErrorWhilePending THEN Wake ELSE NoWake
    /\ UNCHANGED <<api, call>>

(* Mutant: UCI_TIMEOUT falls to the default case of processInternalRsp. *)
TimeoutUnknown ==
    /\ Wake
    /\ UNCHANGED <<api, call, wstatus, rsp_data, dev_state>>

(* Mutant: UCI_TIMEOUT wakes nobody. *)
TimeoutSilent ==
    /\ wstatus' = "timeout"
    /\ NoWake
    /\ UNCHANGED <<api, call, rsp_data, dev_state>>

(* The same for UCI_TIMEOUT, which wakes whoever waits. *)
TimeoutCallback ==
    /\ wstatus' = "timeout"
    /\ Wake
    /\ UNCHANGED <<api, call, rsp_data, dev_state>>

RawCommandResponseCb(p) ==
    /\ wstatus' = "ok"
    /\ rsp_data' = [hdr |-> p.hdr, tag |-> p.tag, header |-> TRUE]
    /\ Wake
    /\ UNCHANGED <<api, call, dev_state>>

(* Mutant: every notification posts the semaphore. *)
NtfWakes(state) ==
    /\ dev_state' = state
    /\ Wake
    /\ UNCHANGED <<api, call, wstatus, rsp_data>>

(* ufaDeviceManagementNtfCallback; state is the device state the           *)
(* notification leaves, nobody waits for a notification here.              *)
NtfCallback(state) ==
    /\ dev_state' = state
    /\ IF ErrorWhilePending THEN Wake ELSE NoWake
    /\ UNCHANGED <<api, call, wstatus, rsp_data>>
-----------------------------------------------------------------------------
(* The controller.  A packet written is received or lost on the link.      *)
Written(c) ==
    /\ uwbs' \in {uwbs, Append(uwbs, c)}
    /\ copies' = IF c.tag = call.tag THEN copies + 1 ELSE copies
    /\ UNCHANGED <<faulted, result>>

Deliver(p) ==
    IF HasRoom THEN PostPkt(p) ELSE UNCHANGED vars

Answer ==
    /\ uwbs # << >>
    /\ Deliver([mt |-> "rsp", hdr |-> Head(uwbs).hdr, tag |-> Head(uwbs).tag])
    /\ uwbs' = Tail(uwbs)
    /\ UNCHANGED <<apiVars, budget, ghostVars>>

Notify ==
    /\ budget.ntf > 0
    /\ Deliver(Ntf("other"))
    /\ budget' = [budget EXCEPT !.ntf = @ - 1]
    /\ UNCHANGED <<apiVars, uwbs, ghostVars>>

(* A controller that reports an error forgets what it was doing. *)
Fault ==
    /\ budget.fault > 0
    /\ Deliver(Ntf("fault"))
    /\ budget' = [budget EXCEPT !.fault = @ - 1]
    /\ uwbs' = << >>
    /\ UNCHANGED <<apiVars, ghostVars>>

AnswerUnderWay ==
    \/ uwbs # << >>
    \/ pc = "window"
    \/ \E i \in DOMAIN mbox : mbox[i].type = "pkt" /\ mbox[i].pkt.mt = "rsp"

TimerExpires ==
    /\ Timely => ~AnswerUnderWay
    /\ TimerFires
    /\ UNCHANGED <<apiVars, uwbs, budget, ghostVars>>
-----------------------------------------------------------------------------
(* The UWB task: each handler of the core with the callback it runs.       *)
quiet == <<apiVars, uwbs, budget, ghostVars>>

TaskTakesCmd(c) ==
    \/ DropCmd(c) /\ UNCHANGED quiet
    \/ SendCmd(c, FALSE) /\ Written(c) /\ UNCHANGED <<apiVars, budget>>

TaskTakesRsp(p) ==
    \/ /\ RawRsp(p)
       /\ IF p_raw_cmd_cback THEN RawCommandResponseCb(p) ELSE UNCHANGED apiVars
       /\ UNCHANGED <<uwbs, budget, ghostVars>>
    \/ CmdRsp(p) /\ RspCallback(p) /\ UNCHANGED <<uwbs, budget, ghostVars>>
    \/ UnexpectedRsp(p) /\ UNCHANGED quiet

TaskTakesNtf ==
    \/ /\ PassUp(Ntf("other"))
       /\ \E state \in {dev_state, "ready"} : NtfCallback(state)
       /\ UNCHANGED <<uwbs, budget, ghostVars>>
    \/ /\ DeviceFault    \* the flush comes first: no response is pending then
       /\ dev_state' = "error"
       /\ faulted' = TRUE
       /\ NoWake
       /\ UNCHANGED <<api, call, wstatus, rsp_data, uwbs, budget, copies, result>>

TaskTakesTimeout ==
    \/ Retransmit /\ Written(pLast_cmd_buf) /\ UNCHANGED <<apiVars, budget>>
    \/ GiveUp /\ TimeoutCallback /\ UNCHANGED <<uwbs, budget, ghostVars>>

Task ==
    \/ \E m \in Oldest :
          \/ m.type = "cmd" /\ TaskTakesCmd(m.cmd)
          \/ m.type = "pkt" /\ m.pkt.mt = "rsp" /\ TaskTakesRsp(m.pkt)
    \/ TaskTakesNtf
    \/ TaskTakesTimeout
    \/ (UpdateWindow \/ Recover) /\ UNCHANGED quiet

StackNext ==
    \/ \E kind \in Kinds, hdr \in Hdr : Call(kind, hdr)
    \/ Woken
    \/ WaitExpires
    \/ Answer
    \/ Notify
    \/ Fault
    \/ TimerExpires
    \/ Task

(* Ready tasks run, timers expire, and the controller gets to its queue. *)
StackSpec ==
    /\ StackInit /\ [][StackNext]_allVars
    /\ WF_allVars(Task)
    /\ WF_allVars(TimerExpires)
    /\ WF_allVars(Answer)
    /\ WF_allVars(Woken)
    /\ WF_allVars(WaitExpires)
-----------------------------------------------------------------------------
(* A call that returns OK returns the answer of its own command, not of an *)
(* earlier call's (UwbApi.c: rsp_data is read after the wait).             *)
OkIsOwn == result.status = "ok" => result.rsp # NoRsp /\ result.rsp.tag = result.tag

(* UwbApi.c:353: "UWBAPI_STATUS_TIMEOUT if command is timeout".  A call    *)
(* that returns TIMEOUT was sent as often as the core ever sends a command *)
(* (uwb_ucif_cmd_timeout), unless the controller failed meanwhile.         *)
TimeoutIsReal ==
    result.status = "timeout" => result.copies = MaxRetry + 2 \/ result.faulted

(* devMgmtSem is never left posted for a call not yet made: the wait of    *)
(* the next call would end before its answer.                              *)
NoStaleToken == devMgmtSem > 0 => api = "wait"

(* Every call returns (sendUciCommandAndWait, sendRawUci).                 *)
CallReturns == api = "wait" ~> api = "idle"

(* While answers are timely the core always wakes the caller before the    *)
(* caller's own wait is over: the core's retries fit in the 1500 ms.       *)
WokenByCore == [][~WaitExpires]_allVars
=============================================================================
