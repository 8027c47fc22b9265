------------------------------- MODULE UwbNotify -------------------------------
(***************************************************************************)
(* The calls of the UWB API that end with a notification: the session      *)
(* calls (UwbApi_SessionInit, SessionDeinit, StartRangingSession,          *)
(* StopRangingSession), which send a command, wait for its response and    *)
(* then for a session status, and UwbApi_SendData, which sends a packet    *)
(* that has no response and waits for the transmit status and the credit.  *)
(*                                                                         *)
(* waitforNotification tests receivedEventId, sets currentEventId, waits   *)
(* and clears receivedEventId, each by itself, while the callbacks on the  *)
(* UWB task write both.  The UWB task (priority 5) outranks the caller.    *)
(* The client thread (3), which posts what the controller sends, is        *)
(* outranked by the caller when that is a demo (4), and takes turns with a *)
(* caller of its own priority (the tasks of demos/pnp).                    *)
(*                                                                         *)
(* The exchange of a command and its response is that of UwbStack, taken   *)
(* here as one step of the UWB task; a session is its state.               *)
(***************************************************************************)
EXTENDS Naturals, Sequences

CONSTANTS Session,    \* session handles
          MaxCall,    \* bound: calls made
          MaxFault    \* bound: changes of a session nobody asked for, packets the
                      \* core gives up, waits that end before their notification

ASSUME UwbNotifyAssumption ==
    /\ Session \subseteq Nat \ {0} /\ Session # {}
    /\ {MaxCall, MaxFault} \subseteq Nat

VARIABLES
    outranks,        \* the caller outranks the client thread
    pc,              \* where the caller is
    call,            \* its call: operation, session, number
    awaited,         \* waitforNotification's waitEventId
    got,             \* what waitforNotification returns
    currentEventId, receivedEventId, devMgmtSem, wstatus,
    sessionInfo, dataTransmit, dataCredit,    \* of uwbContext
    uci_cmd_window,  \* of uwb_cb
    mbox,            \* messages to the UWB task
    uwbs,            \* the controller: the state of each session
    out,             \* packets it has sent, not posted yet
    budget,          \* calls and faults still to come
    done,            \* ghost: the controller has carried out the call
    held,            \* ghost: the session was as the call wants it, at some time of the call
    spoilt,          \* ghost: what ever went wrong: "stray", "expired", "late", "given_up"
    result           \* ghost: how the last call ended

wait    == <<currentEventId, receivedEventId, devMgmtSem>>
info    == <<wstatus, sessionInfo, dataTransmit, dataCredit>>
caller  == <<pc, call, awaited, got>>
ghosts  == <<done, held, spoilt, result>>
vars    == <<outranks, caller, wait, info, uci_cmd_window, mbox, uwbs, out, budget, ghosts>>

SessionOp    == {"init", "start", "stop", "deinit"}
Target       == [init |-> "init", start |-> "active", stop |-> "idle", deinit |-> "none"]
SessionState == {"none", "init", "active", "idle"}
Transfer     == {"repetition", "ok", "error"}

Rsp(op, status)           == [event |-> op, status |-> status]
GivenUp                   == [event |-> "timeout"]
Status(s, state, reason)  == [event |-> "session", session |-> s, state |-> state, reason |-> reason]
Transmit(s, n, status)    == [event |-> "transmit", session |-> s, seq |-> n, status |-> status]
Credit(s)                 == [event |-> "credit", session |-> s]
DeviceStatus              == [event |-> "device"]

TypeOK ==
    /\ outranks \in BOOLEAN
    /\ pc \in {"idle", "rsp", "sent", "check", "set", "ntf", "reset", "judge"}
    /\ call.op \in SessionOp \cup {"data"} /\ call.session \in Session
    /\ awaited \in {"session", "transmit", "credit"} /\ got \in BOOLEAN
    /\ currentEventId \in SessionOp \cup {"default", "session", "transmit", "credit"}
    /\ receivedEventId \in SessionOp \cup
            {"default", "timeout", "session", "transmit", "credit", "device"}
    /\ devMgmtSem \in 0 .. 1
    /\ wstatus \in {"ok", "error", "timeout"}
    /\ sessionInfo.session \in Session /\ sessionInfo.state \in SessionState
    /\ dataTransmit.status \in Transfer
    /\ uci_cmd_window \in 0 .. 1
    /\ Len(mbox) <= 1
    /\ uwbs \in [Session -> SessionState]
    /\ budget \in [call : 0 .. MaxCall, fault : 0 .. MaxFault]

(* One session ranges (whichever: nothing tells them apart), the others    *)
(* have just been set up.  uwbContext is zeroed when the stack starts, and *)
(* a zero status is "repetition".                                          *)
Init ==
    /\ outranks \in BOOLEAN
    /\ LET ranging == CHOOSE s \in Session : TRUE IN
          /\ uwbs = [s \in Session |-> IF s = ranging THEN "active" ELSE "init"]
          /\ sessionInfo \in {[session |-> s, state |-> uwbs[s]] : s \in Session}
          /\ call = [op |-> "start", session |-> ranging, n |-> 0]
    /\ pc = "idle" /\ awaited = "session" /\ got = FALSE
    /\ currentEventId = "default" /\ receivedEventId = "default" /\ devMgmtSem = 0
    /\ wstatus = "ok"
    /\ dataTransmit = [session |-> 0, seq |-> 0, status |-> "repetition"]
    /\ dataCredit = [session |-> 0]
    /\ uci_cmd_window = 1 /\ mbox = << >> /\ out = << >>
    /\ budget = [call |-> MaxCall, fault |-> MaxFault]
    /\ done = FALSE /\ held = FALSE /\ spoilt = {}
    /\ result = [op |-> "start", status |-> "none", done |-> FALSE, held |-> FALSE,
                 clean |-> TRUE, fresh |-> TRUE]
-----------------------------------------------------------------------------
(* The caller.  It runs when the UWB task waits for a message. *)
Runs == mbox = << >>

(* A wait for a notification that ended without it leaves currentEventId   *)
(* set, and the answer to a packet given up finds nobody waiting: either   *)
(* may post a token that no call has asked for.                            *)
InOrder == spoilt \cap {"expired", "given_up"} = {}

Goes(where) == pc' = where /\ UNCHANGED <<outranks, uci_cmd_window, uwbs, out, spoilt>>

(* sep_SetWaitEvent and sendUciCommandAndWait; sendUciCommand for data,    *)
(* which awaits nothing.                                                   *)
Call(op, s) ==
    /\ Runs
    /\ pc = "idle" /\ budget.call > 0
    /\ budget' = [budget EXCEPT !.call = @ - 1]
    /\ call' = [op |-> op, session |-> s, n |-> call.n + 1]
    /\ mbox' = <<[event |-> "cmd", cmd |-> call']>>
    /\ currentEventId' = IF op = "data" THEN currentEventId ELSE op
    /\ done' = FALSE
    /\ held' = (op # "data" /\ uwbs[s] = Target[op])
    /\ result' = [op |-> op, status |-> "none", done |-> FALSE, held |-> FALSE,
                   clean |-> (wstatus = "ok"), fresh |-> InOrder]
    /\ Goes(IF op = "data" THEN "sent" ELSE "rsp")
    /\ UNCHANGED <<awaited, got, receivedEventId, devMgmtSem, info>>

Return(status) ==
    /\ result' = [result EXCEPT !.status = status, !.done = done, !.held = held]
    /\ done' = FALSE /\ held' = FALSE
    /\ awaited' = "session" /\ got' = FALSE
    /\ Goes("idle")
    /\ UNCHANGED call

Await(event) == awaited' = event /\ Goes("check") /\ UNCHANGED <<call, got, done, held, result>>

(* A wait ends by itself when nothing is under way, or, for a notification, *)
(* before it comes.                                                         *)
Quiet == mbox = << >> /\ out = << >>

RspWoken ==
    /\ Runs /\ pc = "rsp" /\ devMgmtSem = 1
    /\ devMgmtSem' = 0
    /\ IF wstatus = "ok" THEN Await("session") ELSE Return(wstatus)
    /\ UNCHANGED <<currentEventId, receivedEventId, info, mbox, budget>>

RspExpires ==
    /\ pc = "rsp" /\ devMgmtSem = 0 /\ Quiet
    /\ Return("timeout")
    /\ UNCHANGED <<wait, info, mbox, budget>>

(* sendUciCommand returns wstatus, which is of an earlier command. *)
DataSent ==
    /\ Runs /\ pc = "sent"
    /\ IF wstatus = "ok" THEN Await("transmit") ELSE Return("failed")
    /\ UNCHANGED <<wait, info, mbox, budget>>

(* waitforNotification, from here to ClearReceived *)
Check ==
    /\ Runs /\ pc = "check"
    /\ got' = TRUE
    /\ Goes(IF receivedEventId = awaited THEN "reset" ELSE "set")
    /\ UNCHANGED <<call, awaited, wait, info, mbox, budget, done, held, result>>

SetWaitEvent ==
    /\ Runs /\ pc = "set"
    /\ currentEventId' = awaited
    /\ Goes("ntf")
    /\ UNCHANGED <<call, awaited, got, receivedEventId, devMgmtSem, info, mbox, budget, done, held, result>>

NtfWoken ==
    /\ Runs /\ pc = "ntf" /\ devMgmtSem = 1
    /\ devMgmtSem' = 0
    /\ got' = TRUE
    /\ Goes("reset")
    /\ UNCHANGED <<call, awaited, currentEventId, receivedEventId, info, mbox, budget, done, held, result>>

(* Mutant: without the exception for session status. *)
NtfExpiresFails ==
    /\ Runs /\ pc = "ntf" /\ devMgmtSem = 0 /\ Quiet
    /\ got' = FALSE
    /\ Goes("reset")
    /\ UNCHANGED <<call, awaited, wait, info, mbox, budget, done, held, result>>

(* A session status may have come unnoticed: its wait never fails. *)
NtfExpires ==
    /\ Runs /\ pc = "ntf" /\ devMgmtSem = 0
    /\ \/ Quiet /\ spoilt' = spoilt \cup {"expired"} /\ UNCHANGED budget
       \/ /\ ~Quiet /\ budget.fault > 0
          /\ budget' = [budget EXCEPT !.fault = @ - 1]
          /\ spoilt' = spoilt \cup {"expired", "late"}
    /\ got' = (awaited = "session")
    /\ pc' = "reset"
    /\ UNCHANGED <<outranks, call, awaited, wait, info, uci_cmd_window, mbox, uwbs, out,
                   done, held, result>>

ClearReceived ==
    /\ Runs /\ pc = "reset"
    /\ receivedEventId' = "default"
    /\ Goes("judge")
    /\ UNCHANGED <<call, awaited, got, currentEventId, devMgmtSem, info, mbox, budget, done, held, result>>

Judges == Runs /\ pc = "judge" /\ UNCHANGED <<wait, info, mbox, budget>>

JudgeSession ==
    /\ Judges
    /\ awaited = "session"
    /\ Return(IF got /\ sessionInfo = [session |-> call.session, state |-> Target[call.op]]
              THEN "ok" ELSE "failed")

(* Mutant: the transmit status is not looked at. *)
JudgeTrusting ==
    /\ Judges
    /\ awaited = "transmit"
    /\ IF got THEN Await("credit") ELSE Return("failed")

(* Mutant: the loop tests the status before the wait's own result. *)
JudgeLooping ==
    /\ Judges
    /\ awaited = "transmit"
    /\ IF dataTransmit.status = "repetition" THEN Await("transmit")
       ELSE IF got /\ dataTransmit = [session |-> call.session, seq |-> call.n, status |-> "ok"]
       THEN Await("credit") ELSE Return("failed")

(* The do-while loop of UwbApi_SendData. *)
JudgeTransmit ==
    /\ Judges
    /\ awaited = "transmit"
    /\ IF ~got THEN Return("failed")
       ELSE IF dataTransmit = [session |-> call.session, seq |-> call.n, status |-> "ok"]
       THEN Await("credit")
       ELSE IF dataTransmit.status = "repetition" THEN Await("transmit") ELSE Return("failed")

JudgeCredit ==
    /\ Judges
    /\ awaited = "credit"
    /\ Return(IF got /\ dataCredit.session = call.session THEN "ok" ELSE "failed")

Caller ==
    \/ RspWoken \/ RspExpires \/ DataSent
    \/ Check \/ SetWaitEvent \/ NtfWoken \/ NtfExpires \/ ClearReceived
    \/ JudgeSession \/ JudgeTransmit \/ JudgeCredit
-----------------------------------------------------------------------------
(* The controller: what a command does to the sessions, and what it sends. *)
Accepts(c) ==
    CASE c.op = "init"   -> uwbs[c.session] = "none"
      [] c.op = "start"  -> uwbs[c.session] \in {"init", "idle"}
      [] c.op = "stop"   -> uwbs[c.session] = "active"
      [] c.op = "deinit" -> uwbs[c.session] # "none"
      [] c.op = "data"   -> uwbs[c.session] = "active"

Sends(packets) == out' = out \o packets

Obeys(c) ==
    /\ Accepts(c)
    /\ IF c.op = "data"
       THEN /\ \E more \in {<< >>, <<Transmit(c.session, c.n, "repetition")>>} :
                  Sends(more \o <<Transmit(c.session, c.n, "ok"), Credit(c.session)>>)
            /\ UNCHANGED uwbs
       ELSE /\ uwbs' = [uwbs EXCEPT ![c.session] = Target[c.op]]
            /\ \E more \in {<< >>, <<DeviceStatus>>} :
                  Sends(<<Rsp(c.op, "ok"), Status(c.session, Target[c.op], "command")>> \o more)
    /\ done' = TRUE /\ held' = TRUE
    /\ UNCHANGED <<budget, spoilt>>

Refuses(c) ==
    /\ ~Accepts(c)
    /\ Sends(IF c.op = "data" THEN <<Transmit(c.session, c.n, "error"), Credit(c.session)>>
                              ELSE <<Rsp(c.op, "error")>>)
    /\ UNCHANGED <<uwbs, budget, spoilt, done, held>>

IsLost(c) ==
    /\ budget.fault > 0
    /\ budget' = [budget EXCEPT !.fault = @ - 1]
    /\ Sends(<<GivenUp>>)
    /\ spoilt' = IF c.op = "data" THEN spoilt \cup {"given_up"} ELSE spoilt
    /\ UNCHANGED <<uwbs, done, held>>

(* A session ends by the peer's signal or for a reason of its own. *)
Stray(s) ==
    /\ budget.fault > 0
    /\ uwbs[s] = "active"
    /\ uwbs' = [uwbs EXCEPT ![s] = "idle"]
    /\ \E reason \in {"inband", "other"} : Sends(<<Status(s, "idle", reason)>>)
    /\ budget' = [budget EXCEPT !.fault = @ - 1]
    /\ spoilt' = spoilt \cup {"stray"}
    /\ held' = (held \/ (pc # "idle" /\ call.op = "stop" /\ call.session = s))
    /\ UNCHANGED <<outranks, caller, wait, info, uci_cmd_window, mbox, done, result>>

(* The client thread posts a packet when the caller lets it run. *)
Blocked == pc \in {"idle", "rsp", "ntf"} /\ (pc # "idle" => devMgmtSem = 0)

Posts ==
    /\ mbox = << >> /\ out # << >>
    /\ outranks => Blocked
    /\ mbox' = <<Head(out)>>
    /\ out' = Tail(out)
    /\ UNCHANGED <<outranks, caller, wait, info, uci_cmd_window, uwbs, budget, ghosts>>
-----------------------------------------------------------------------------
(* The UWB task *)
Takes(event) ==
    /\ mbox # << >> /\ Head(mbox).event = event
    /\ mbox' = << >>
    /\ UNCHANGED <<outranks, caller, result>>

(* A command that finds the window shut is dropped. *)
TakesCmd ==
    /\ Takes("cmd")
    /\ LET c == Head(mbox).cmd IN
         IF uci_cmd_window = 0
         THEN UNCHANGED <<uci_cmd_window, uwbs, out, budget, spoilt, done, held>>
         ELSE uci_cmd_window' = 0 /\ (Obeys(c) \/ Refuses(c) \/ IsLost(c))
    /\ UNCHANGED <<wait, info>>

(* Mutant: a callback that leaves currentEventId. *)
WakeKeeps(event, wakes) ==
    /\ receivedEventId' = event
    /\ IF wakes THEN devMgmtSem' = 1 ELSE UNCHANGED devMgmtSem
    /\ UNCHANGED currentEventId

(* Mutant: a semaphore that counts its posts. *)
WakeCounts(event, wakes) ==
    /\ receivedEventId' = event
    /\ IF wakes
       THEN currentEventId' = "default" /\ devMgmtSem' = devMgmtSem + 1
       ELSE UNCHANGED <<currentEventId, devMgmtSem>>

(* The end of the callbacks *)
Wake(event, wakes) ==
    /\ receivedEventId' = event
    /\ IF wakes
       THEN currentEventId' = "default" /\ devMgmtSem' = 1
       ELSE UNCHANGED <<currentEventId, devMgmtSem>>

TaskRest == UNCHANGED <<uwbs, out, budget, spoilt, done, held>>

TakesRsp(op) ==
    /\ Takes(op)
    /\ wstatus' = Head(mbox).status
    /\ Wake(op, currentEventId = op)
    /\ uci_cmd_window' = 1
    /\ UNCHANGED <<sessionInfo, dataTransmit, dataCredit>> /\ TaskRest

TakesGivenUp ==
    /\ Takes("timeout")
    /\ wstatus' = "timeout"
    /\ Wake("timeout", TRUE)
    /\ uci_cmd_window' = 1
    /\ UNCHANGED <<sessionInfo, dataTransmit, dataCredit>> /\ TaskRest

TakesSession ==
    /\ Takes("session")
    /\ sessionInfo' = [session |-> Head(mbox).session, state |-> Head(mbox).state]
    /\ Wake("session", currentEventId = "session" /\ Head(mbox).reason # "inband")
    /\ UNCHANGED <<wstatus, dataTransmit, dataCredit, uci_cmd_window>> /\ TaskRest

TakesTransmit ==
    /\ Takes("transmit")
    /\ dataTransmit' = [session |-> Head(mbox).session, seq |-> Head(mbox).seq,
                        status |-> Head(mbox).status]
    /\ Wake("transmit", currentEventId = "transmit")
    /\ UNCHANGED <<wstatus, sessionInfo, dataCredit, uci_cmd_window>> /\ TaskRest

TakesCredit ==
    /\ Takes("credit")
    /\ dataCredit' = [session |-> Head(mbox).session]
    /\ Wake("credit", currentEventId = "credit")
    /\ uci_cmd_window' = 1
    /\ UNCHANGED <<wstatus, sessionInfo, dataTransmit>> /\ TaskRest

TakesDevice ==
    /\ Takes("device")
    /\ Wake("device", FALSE)
    /\ UNCHANGED <<info, uci_cmd_window>> /\ TaskRest

UwbTask ==
    \/ TakesCmd \/ TakesGivenUp \/ (\E op \in SessionOp : TakesRsp(op))
    \/ TakesSession \/ TakesTransmit \/ TakesCredit \/ TakesDevice

Next ==
    \/ \E op \in SessionOp \cup {"data"}, s \in Session : Call(op, s)
    \/ Caller \/ Posts \/ UwbTask
    \/ \E s \in Session : Stray(s)

(* Ready tasks run, and a wait has an end. *)
Fairness == WF_vars(Caller) /\ WF_vars(Posts) /\ WF_vars(UwbTask)

Spec == Init /\ [][Next]_vars /\ Fairness
-----------------------------------------------------------------------------
(* A call that returns OK has had its way: the session was in the state    *)
(* the call is for, or the data was sent, at some time of the call.        *)
(* (UwbApi.c compares sessionInfo, and the sequence number, whatever woke  *)
(* it.)                                                                    *)
OkIsTrue == result.status = "ok" /\ result.fresh => result.held

(* The other way round: what the controller has carried out is reported as *)
(* OK, although the status may come between any two steps of               *)
(* waitforNotification, and another notification after it                  *)
(* (UwbApi_Internal.c:2279).  Data needs a caller that outranks the        *)
(* client, and a former command that did not fail; and nothing may have    *)
(* come late or unasked.                                                   *)
DoneIsOk ==
    result.status # "none" /\ result.done /\ result.fresh /\ spoilt \subseteq {"expired"} =>
        \/ result.status = "ok"
        \/ result.op = "data" /\ (~outranks \/ ~result.clean)

(* No call leaves a token on devMgmtSem for the next one, which would take *)
(* it for its response (UwbApi_Internal.c:2279).                           *)
NothingLeft == pc = "idle" /\ InOrder => devMgmtSem = 0

(* Every call returns, also UwbApi_SendData with its loop.                 *)
CallReturns == pc # "idle" ~> pc = "idle"
=============================================================================
