-------------------------- MODULE UwbLifecycle_proofs --------------------------
(***************************************************************************)
(* Proofs about UwbLifecycle, for any number of crashes, calls and         *)
(* re-transmissions and any length of the recovery's queue.                *)
(*                                                                         *)
(* The model ends at the first fault: of a state with one, IInv says no    *)
(* more than the properties do.  Inv is about the others, and rests on the *)
(* mailbox being read in order:                                            *)
(*   - cleanUp clears devMgmtSem and posts the shutdown.  Before that the  *)
(*     semaphore is there and no shutdown is in the mailbox (Phases).      *)
(*     After it, the first shutdown has a disable before it and no command *)
(*     between the two, so the UWB task ends with the HAL closed and the   *)
(*     quick timer stopped (Shutting).                                     *)
(*   - Finalize releases the queue when the task has ended, and then none  *)
(*     is left that could send: no HAL, no timer, no application (Down).   *)
(*   - That no command comes after the disable (Disables, Cold) needs that *)
(*     the application has no more than one under way, and waits for it    *)
(*     (Exchange).                                                         *)
(*   - A start runs alone (Starts), and unless a recovery met the          *)
(*     application starting or ending there is one disable only            *)
(*     (Disabling), which finds uwb_cb filled.                             *)
(***************************************************************************)
EXTENDS UwbLifecycle, TLAPS

(* Where the two are that share the functions *)
app      == at["app"]
recovery == at["recovery"]

(* The types: the values of each variable have a name. *)
Place == {"start", "created", "enable wait", "register wait", "device init", "up", "call",
          "disable wait", "end wait", "done", "reported", "idle", "restart"}
Event == {"enable", "ready", "register", "cmd", "rsp", "timeout", "crash", "disable", "closed",
          "shutdown"}

Awaited   == {"default", "enable", "register", "device status", "rsp", "disable"}
QueueIs   == {"none", "live", "released"}
TaskIs    == {"none", "created", "loop", "crash log", "close hal", "ended"}
TimerIs   == {"on", "fired", "off"}
HalIs     == {"closed", "open", "closing", "client stopped"}
FaultIs   == {"none", "queue released", "leftover", "null call"}
Tokens    == {0, 1}
Message   == {"open", "close"}
UwbCb     == [p_hal : BOOLEAN, uwb_state : {"none", "wait open", "idle", "wait close"}]
UwaDmCb   == [p_dm_rsp_cback : BOOLEAN, active : BOOLEAN]

Types ==
    /\ at \in [Waiter -> Place]
    /\ devMgmtSem \in Tokens \cup {Null} /\ currentEventId \in Awaited
    /\ isUfaEnabled \in BOOLEAN
    /\ mErrorHandlerQueue \in 0 .. ErrorQueue
    /\ queue \in QueueIs /\ mbox \in Seq(Event)
    /\ uwb_task_sem \in Tokens /\ task \in TaskIs
    /\ uwb_cb \in UwbCb /\ uwa_dm_cb \in UwaDmCb
    /\ timer \in TimerIs /\ cmd_retry_count \in 0 .. MaxRetry
    /\ hal \in HalIs /\ client \in Seq(Message)
    /\ calls \in 0 .. MaxCall /\ crashes \in 0 .. MaxCrash
    /\ fault \in FaultIs /\ lost \subseteq Waiter /\ overlap \in BOOLEAN
-----------------------------------------------------------------------------
(* A mailbox holds e, or holds it once at most. *)
Has(q, e)    == \E i \in 1 .. Len(q) : q[i] = e
Single(q, e) == \A i, j \in 1 .. Len(q) : q[i] = e /\ q[j] = e => i = j

(* Only timeouts come after the first. *)
Tailing(q) == \A i \in 2 .. Len(q) : q[i] = "timeout"

(* There is a disable, and no command after it. *)
Disables(q) ==
    \E i \in 1 .. Len(q) : q[i] = "disable" /\ \A j \in i .. Len(q) : q[j] # "cmd"

(* The first shutdown *)
Shuts(q, i) ==
    /\ i \in 1 .. Len(q) /\ q[i] = "shutdown"
    /\ \A j \in 1 .. i - 1 : q[j] # "shutdown"

(* Before the first shutdown there is no command; there is a disable; there *)
(* is a disable, and no command between the two.                           *)
NoCmdFirst(q)   == \E i \in 1 .. Len(q) : Shuts(q, i) /\ \A j \in 1 .. i - 1 : q[j] # "cmd"
DisableFirst(q) == \E i \in 1 .. Len(q) : Shuts(q, i) /\ \E d \in 1 .. i - 1 : q[d] = "disable"
StopsFirst(q) ==
    \E i \in 1 .. Len(q) : Shuts(q, i) /\ \E d \in 1 .. i - 1 :
        q[d] = "disable" /\ \A j \in d .. i - 1 : q[j] # "cmd"
-----------------------------------------------------------------------------
(* The application starts the stack, or has it. *)
Starting == {"created", "enable wait", "register wait"}
Up       == {"device init", "up", "call"}

(* The UWB task, the HAL and its client thread, and what uwb_cb records *)
Stack ==
    /\ queue = "live" <=> task # "none"
    /\ uwb_task_sem = 1 <=> task = "ended"
    /\ task = "created" => app = "created"
    /\ task = "close hal" <=> hal \in {"closing", "client stopped"}
    /\ client \in {<< >>, <<"open">>, <<"close">>}
    /\ hal = "closing" <=> client = <<"close">>
    /\ client = <<"open">> => hal = "open" /\ app = "enable wait"
    /\ queue = "live" /\ app # "created" =>
          /\ hal = "open" <=> uwb_cb.uwb_state \in {"wait open", "idle"}
          /\ uwb_cb.uwb_state = "none" <=> ~uwa_dm_cb.p_dm_rsp_cback

(* The queue is released only when nobody is left to send. *)
Down ==
    /\ queue # "live" =>
          /\ hal = "closed" /\ timer # "on" /\ devMgmtSem = Null /\ currentEventId = "default"
          /\ app \in {"start", "done", "reported"} \/ recovery = "restart"
          /\ recovery # "end wait"
          /\ recovery = "disable wait" => "recovery" \in lost
    /\ task = "ended" => hal = "closed" /\ timer # "on"

(* The task will end with the HAL closed and the timer stopped. *)
Shutting ==
    /\ Has(mbox, "shutdown")
    /\ hal = "open" => DisableFirst(mbox)
    /\ (timer = "off" /\ NoCmdFirst(mbox)) \/ StopsFirst(mbox)

(* Before cleanUp and after it: devMgmtSem tells. *)
Phases ==
    /\ devMgmtSem = Null => queue # "live" \/ task = "ended" \/ Shutting
    /\ devMgmtSem # Null =>
          /\ queue = "live" /\ task # "ended" /\ ~Has(mbox, "shutdown")
          /\ "app" \notin lost /\ "recovery" \notin lost
          /\ app # "end wait" /\ recovery # "end wait"
    /\ ("app" \in lost => app \in OnSem) /\ ("recovery" \in lost => recovery \in OnSem)

(* What the place of one says of the other, and of the stack *)
Places ==
    /\ app = "start" => recovery \in {"idle", "restart"} /\ ~isUfaEnabled
    /\ app \in Starting =>
          recovery = "idle" /\ mErrorHandlerQueue = 0 /\ ~isUfaEnabled /\ devMgmtSem # Null
    /\ app \in Up => isUfaEnabled \/ queue # "live"
    /\ app \in {"done", "reported"} => queue # "live"
    /\ recovery = "restart" => ~isUfaEnabled
    /\ isUfaEnabled => queue = "live"
    /\ ~overlap /\ (app = "start" \/ recovery = "restart") => queue # "live"
    /\ app \notin {"idle", "restart"}
    /\ recovery \in {"idle", "disable wait", "end wait", "restart"}

(* The four stages of the wait for the enable: what is under way goes to   *)
(* the task, to the client thread, back to the task, and to the semaphore. *)
Enabling ==
    /\ task = "loop" /\ uwb_cb.p_hal
    /\ \/ /\ mbox = <<"enable">> /\ hal = "closed" /\ ~uwa_dm_cb.active
          /\ devMgmtSem = 0 /\ currentEventId = "enable"
       \/ /\ mbox = << >> /\ hal = "open" /\ client = <<"open">>
          /\ uwb_cb.uwb_state = "wait open"
          /\ devMgmtSem = 0 /\ currentEventId = "enable"
       \/ /\ mbox = <<"ready">> /\ hal = "open" /\ client = << >>
          /\ uwb_cb.uwb_state = "wait open"
          /\ devMgmtSem = 0 /\ currentEventId = "enable"
       \/ /\ mbox = << >> /\ hal = "open" /\ client = << >> /\ uwb_cb.uwb_state = "idle"
          /\ uwa_dm_cb.active /\ devMgmtSem = 1

(* The two stages of the wait for the registration *)
Registering ==
    /\ task = "loop" /\ hal = "open" /\ uwb_cb.p_hal /\ uwb_cb.uwb_state = "idle"
    /\ uwa_dm_cb.active
    /\ \/ mbox = <<"register">> /\ devMgmtSem = 0 /\ currentEventId = "register"
       \/ mbox = << >> /\ devMgmtSem = 1

(* A start is in one of its stages, and its messages are nowhere else. *)
Starts ==
    /\ app = "created" =>
          /\ devMgmtSem = 0 /\ mbox = << >> /\ hal = "closed" /\ timer # "on"
          /\ task = "created" \/ (task = "loop" /\ timer = "off")
    /\ app = "enable wait" => Enabling
    /\ app = "register wait" => Registering
    /\ Has(mbox, "enable") \/ Has(mbox, "ready") \/ Has(mbox, "register") =>
          app \in {"enable wait", "register wait"}

(* What is under an application that is up, with nothing to take it away *)
IsUp ==
    app \in Up /\ recovery = "idle" =>
        /\ devMgmtSem # Null /\ task \in {"loop", "crash log"}
        /\ hal = "open" /\ uwb_cb.p_hal /\ uwb_cb.uwb_state = "idle"
        /\ ~Has(mbox, "disable") /\ ~Has(mbox, "closed")

(* The HAL is open until the disable is taken, and there is one only. *)
Disabling ==
    /\ Has(mbox, "closed") => hal # "open"
    /\ ~overlap => Single(mbox, "disable")
    /\ ~overlap /\ Has(mbox, "disable") => hal = "open"
    /\ devMgmtSem # Null /\ (app = "disable wait" \/ recovery = "disable wait") =>
          hal # "open" \/ Has(mbox, "disable")

(* No command is out or to come, or none after the disable. *)
Cold == (timer = "off" /\ ~Has(mbox, "cmd")) \/ Disables(mbox)

(* Before cleanUp, an application that is not in a call has nothing of an  *)
(* exchange under way; one in a call has one, whose end alone posts the    *)
(* semaphore; and whoever waits for the disable has sent the last command. *)
Exchange ==
    devMgmtSem # Null =>
        /\ timer = "fired" /\ task # "created" => Has(mbox, "timeout")
        /\ app \in {"enable wait", "register wait", "device init", "up", "disable wait"} =>
              timer = "off" /\ ~Has(mbox, "cmd") /\ ~Has(mbox, "rsp") /\ ~Has(mbox, "timeout")
        /\ Has(mbox, "cmd") =>
              /\ app = "call" /\ timer = "off" /\ ~Has(mbox, "rsp") /\ ~Has(mbox, "timeout")
              /\ Single(mbox, "cmd")
        /\ app \in Up /\ recovery = "idle" /\ mErrorHandlerQueue = 0 =>
              /\ task = "loop" => Tailing(mbox)
              /\ devMgmtSem = 1 =>
                    /\ app = "call" /\ task = "loop" /\ timer = "off"
                    /\ ~Has(mbox, "cmd") /\ ~Has(mbox, "rsp") /\ ~Has(mbox, "crash")
        /\ currentEventId = "disable" \/ (recovery = "disable wait" /\ devMgmtSem = 1) => Cold
        /\ recovery = "disable wait" => currentEventId # "device status"

Inv == Stack /\ Down /\ Phases /\ Places /\ Starts /\ IsUp /\ Disabling /\ Exchange

(* The inductive invariant *)
IInv ==
    /\ Types /\ InitSurvives /\ QueueOutlivesSenders /\ FreshStart /\ UpMeansUp
    /\ Alive => Inv
-----------------------------------------------------------------------------
(* Lemmas: the mailbox as a sequence *)

(* What is posted comes last. *)
LEMMA Posted ==
    ASSUME NEW q \in Seq(Event), NEW e \in Event, NEW p, p = Append(q, e)
    PROVE  /\ p \in Seq(Event) /\ p # << >> /\ Len(p) = Len(q) + 1 /\ p[Len(q) + 1] = e
           /\ \A i \in 1 .. Len(q) : i \in 1 .. Len(p) /\ p[i] = q[i]
           /\ \A i \in 1 .. Len(p) : i \in 1 .. Len(q) \/ i = Len(q) + 1
OBVIOUS

(* What is in the mailbox after a post *)
LEMMA PostedHas ==
    ASSUME NEW q \in Seq(Event), NEW e \in Event, NEW p, p = Append(q, e)
    PROVE  \A x : Has(p, x) <=> Has(q, x) \/ x = e
<1> SUFFICES ASSUME NEW x PROVE Has(p, x) <=> Has(q, x) \/ x = e
  OBVIOUS
<1>1. Has(p, x) => Has(q, x) \/ x = e
  BY Posted DEF Has
<1>2. Has(q, x) => Has(p, x)
  BY Posted DEF Has
<1>3. x = e => Has(p, x)
  <2>1. Len(q) + 1 \in 1 .. Len(p) /\ p[Len(q) + 1] = e
    BY Posted
  <2> QED BY <2>1 DEF Has
<1> QED BY <1>1, <1>2, <1>3

(* A post leaves at most one of what is not posted. *)
LEMMA PostedSingle ==
    ASSUME NEW q \in Seq(Event), NEW e \in Event, NEW p, p = Append(q, e),
           NEW x, ~Has(q, x) \/ (Single(q, x) /\ x # e)
    PROVE  Single(p, x)
<1> SUFFICES ASSUME NEW i \in 1 .. Len(p), NEW j \in 1 .. Len(p), p[i] = x, p[j] = x PROVE i = j
  BY DEF Single
<1>1. e = x \/ ~Single(q, x) => \A k \in 1 .. Len(q) : q[k] # x
  BY DEF Has
<1>2. (i \in 1 .. Len(q) /\ q[i] = x) \/ (i = Len(q) + 1 /\ e = x)
  BY Posted
<1>3. (j \in 1 .. Len(q) /\ q[j] = x) \/ (j = Len(q) + 1 /\ e = x)
  BY Posted
<1> QED BY <1>1, <1>2, <1>3 DEF Single

(* A post comes after all there is, and so keeps the order. *)
LEMMA PostedOrder ==
    ASSUME NEW q \in Seq(Event), NEW e \in Event, NEW p, p = Append(q, e)
    PROVE  /\ q = << >> \/ (Tailing(q) /\ e = "timeout") => Tailing(p)
           /\ e = "disable" \/ (Disables(q) /\ e # "cmd") => Disables(p)
           /\ NoCmdFirst(q) => NoCmdFirst(p)
           /\ DisableFirst(q) => DisableFirst(p)
           /\ StopsFirst(q) => StopsFirst(p)
<1>1. /\ p \in Seq(Event) /\ Len(q) \in Nat /\ Len(p) = Len(q) + 1 /\ p[Len(q) + 1] = e
      /\ \A i \in 1 .. Len(q) : i \in 1 .. Len(p) /\ p[i] = q[i]
      /\ \A i \in 1 .. Len(p) : i \in 1 .. Len(q) \/ i = Len(q) + 1
  BY Posted
<1>2. q = << >> \/ (Tailing(q) /\ e = "timeout") => Tailing(p)
  <2>1. CASE q = << >>
    BY <1>1, <2>1 DEF Tailing
  <2>2. CASE Tailing(q) /\ e = "timeout"
    BY <1>1, <2>2 DEF Tailing
  <2> QED BY <2>1, <2>2
<1>3. e = "disable" => Disables(p)
  <2>1. Len(q) + 1 \in 1 .. Len(p) /\ \A j \in Len(q) + 1 .. Len(p) : j = Len(q) + 1
    BY <1>1
  <2> QED BY <1>1, <2>1 DEF Disables
<1>4. ASSUME Disables(q), e # "cmd" PROVE Disables(p)
  <2>1. PICK i \in 1 .. Len(q) : q[i] = "disable" /\ \A j \in i .. Len(q) : q[j] # "cmd"
    BY <1>4 DEF Disables
  <2>2. \A j \in i .. Len(p) : (j \in i .. Len(q) /\ j \in 1 .. Len(q)) \/ j = Len(q) + 1
    BY <1>1
  <2> QED BY <1>1, <1>4, <2>1, <2>2 DEF Disables
<1>5. \A i : Shuts(q, i) => /\ Shuts(p, i) /\ i \in 1 .. Len(p)
                            /\ \A j \in 1 .. i - 1 : p[j] = q[j]
  BY <1>1 DEF Shuts
<1>6. NoCmdFirst(q) => NoCmdFirst(p)
  BY <1>5 DEF NoCmdFirst
<1>7. DisableFirst(q) => DisableFirst(p)
  BY <1>5 DEF DisableFirst
<1>8. StopsFirst(q) => StopsFirst(p)
  <2> SUFFICES ASSUME NEW i \in 1 .. Len(q), Shuts(q, i), NEW d \in 1 .. i - 1,
                      q[d] = "disable", \A j \in d .. i - 1 : q[j] # "cmd"
               PROVE  StopsFirst(p)
    BY DEF StopsFirst
  <2>1. Shuts(p, i) /\ i \in 1 .. Len(p) /\ \A j \in 1 .. i - 1 : p[j] = q[j]
    BY <1>5
  <2>2. \A j \in d .. i - 1 : j \in 1 .. i - 1
    OBVIOUS
  <2> QED BY <2>1, <2>2 DEF StopsFirst
<1> QED BY <1>2, <1>3, <1>4, <1>6, <1>7, <1>8

(* The first shutdown that is posted comes after all there is. *)
LEMMA FirstShutdown ==
    ASSUME NEW q \in Seq(Event), NEW p, p = Append(q, "shutdown"), ~Has(q, "shutdown")
    PROVE  /\ ~Has(q, "cmd") => NoCmdFirst(p)
           /\ Has(q, "disable") => DisableFirst(p)
           /\ Disables(q) => StopsFirst(p)
<1>1. "shutdown" \in Event
  BY DEF Event
<1>2. /\ Len(q) \in Nat /\ Len(p) = Len(q) + 1 /\ p[Len(q) + 1] = "shutdown"
      /\ \A i \in 1 .. Len(q) : p[i] = q[i]
  BY <1>1, Posted
<1>3. PICK i : i = Len(q) + 1
  OBVIOUS
<1>4. i \in 1 .. Len(p) /\ 1 .. i - 1 = 1 .. Len(q)
  BY <1>2, <1>3
<1>5. Shuts(p, i)
  BY <1>2, <1>3, <1>4 DEF Shuts, Has
<1>6. ~Has(q, "cmd") => NoCmdFirst(p)
  BY <1>2, <1>4, <1>5 DEF NoCmdFirst, Has
<1>7. Has(q, "disable") => DisableFirst(p)
  BY <1>2, <1>4, <1>5 DEF DisableFirst, Has
<1>8. Disables(q) => StopsFirst(p)
  <2> SUFFICES ASSUME NEW d \in 1 .. Len(q), q[d] = "disable", \A j \in d .. Len(q) : q[j] # "cmd"
               PROVE  StopsFirst(p)
    BY DEF Disables
  <2>1. \A j \in d .. i - 1 : j \in d .. Len(q) /\ j \in 1 .. Len(q)
    BY <1>2, <1>3
  <2> QED BY <1>2, <1>4, <1>5, <2>1 DEF StopsFirst
<1> QED BY <1>6, <1>7, <1>8

(* What is taken comes first. *)
LEMMA Rest ==
    ASSUME NEW q \in Seq(Event), q # << >>, NEW p, p = Tail(q)
    PROVE  /\ p \in Seq(Event) /\ Len(p) = Len(q) - 1 /\ Len(q) \in Nat \ {0}
           /\ q[1] = Head(q) /\ Head(q) \in Event
           /\ \A i \in 1 .. Len(p) : i + 1 \in 1 .. Len(q) /\ p[i] = q[i + 1]
           /\ \A i \in 1 .. Len(q) : i = 1 \/ (i - 1 \in 1 .. Len(p) /\ p[i - 1] = q[i])
<1>1. /\ Len(q) \in Nat \ {0} /\ Head(q) = q[1] /\ q[1] \in Event /\ Len(p) = Len(q) - 1
      /\ p \in Seq(Event)
  OBVIOUS
<1>2. \A i \in 1 .. Len(p) : i + 1 \in 1 .. Len(q) /\ p[i] = q[i + 1]
  BY <1>1
<1>3. ASSUME NEW i \in 1 .. Len(q), i # 1 PROVE i - 1 \in 1 .. Len(p) /\ p[i - 1] = q[i]
  <2>1. i - 1 \in 1 .. Len(p) /\ (i - 1) + 1 = i
    BY <1>1, <1>3
  <2> QED BY <1>2, <2>1
<1> QED BY <1>1, <1>2, <1>3

(* What was in the mailbox is still in it, or was taken. *)
LEMMA RestHas ==
    ASSUME NEW q \in Seq(Event), q # << >>, NEW p, p = Tail(q)
    PROVE  \A x : Has(q, x) <=> Head(q) = x \/ Has(p, x)
<1> SUFFICES ASSUME NEW x PROVE Has(q, x) <=> Head(q) = x \/ Has(p, x)
  OBVIOUS
<1>1. Has(q, x) => Head(q) = x \/ Has(p, x)
  BY Rest DEF Has
<1>2. Has(p, x) => Has(q, x)
  BY Rest DEF Has
<1>3. Head(q) = x => Has(q, x)
  <2>1. 1 \in 1 .. Len(q) /\ q[1] = Head(q)
    BY Rest
  <2> QED BY <2>1 DEF Has
<1> QED BY <1>1, <1>2, <1>3

(* Of what was there at most once, none is left when it is taken. *)
LEMMA RestSingle ==
    ASSUME NEW q \in Seq(Event), q # << >>, NEW p, p = Tail(q), NEW x, Single(q, x)
    PROVE  Single(p, x) /\ (Head(q) = x => ~Has(p, x))
<1>1. Single(p, x)
  <2> SUFFICES ASSUME NEW i \in 1 .. Len(p), NEW j \in 1 .. Len(p), p[i] = x, p[j] = x PROVE i = j
    BY DEF Single
  <2>1. i + 1 \in 1 .. Len(q) /\ j + 1 \in 1 .. Len(q) /\ q[i + 1] = x /\ q[j + 1] = x
    BY Rest
  <2>2. i + 1 = j + 1
    BY <2>1 DEF Single
  <2> QED BY <2>2
<1>2. ASSUME Head(q) = x, NEW i \in 1 .. Len(p), p[i] = x PROVE FALSE
  <2>1. 1 \in 1 .. Len(q) /\ q[1] = x /\ i + 1 \in 1 .. Len(q) /\ q[i + 1] = x
    BY <1>2, Rest
  <2>2. 1 = i + 1
    BY <2>1 DEF Single
  <2> QED BY <2>2
<1> QED BY <1>1, <1>2 DEF Has

(* Taking the first keeps the order of the rest. *)
LEMMA RestOrder ==
    ASSUME NEW q \in Seq(Event), q # << >>, NEW p, p = Tail(q), NEW h, h = Head(q)
    PROVE  /\ Tailing(q) => Tailing(p) /\ \A x : Has(p, x) => x = "timeout"
           /\ Disables(q) => Disables(p) \/ (h = "disable" /\ ~Has(p, "cmd"))
           /\ NoCmdFirst(q) => h = "shutdown" \/ (h # "cmd" /\ NoCmdFirst(p))
           /\ DisableFirst(q) => h # "shutdown" /\ (h = "disable" \/ DisableFirst(p))
           /\ StopsFirst(q) =>
                h # "shutdown" /\ (StopsFirst(p) \/ (h = "disable" /\ NoCmdFirst(p)))
<1>1. /\ p \in Seq(Event) /\ Len(p) = Len(q) - 1 /\ Len(q) \in Nat \ {0}
      /\ q[1] = h
      /\ \A i \in 1 .. Len(p) : i + 1 \in 1 .. Len(q) /\ p[i] = q[i + 1]
      /\ \A i \in 1 .. Len(q) : i = 1 \/ (i - 1 \in 1 .. Len(p) /\ p[i - 1] = q[i])
  BY Rest
<1>2. ASSUME Tailing(q) PROVE Tailing(p) /\ \A x : Has(p, x) => x = "timeout"
  <2>1. \A i \in 1 .. Len(p) : p[i] = "timeout"
    BY <1>1, <1>2 DEF Tailing
  <2> QED BY <1>1, <2>1 DEF Tailing, Has
<1>3. ASSUME Disables(q) PROVE Disables(p) \/ (h = "disable" /\ ~Has(p, "cmd"))
  <2>1. PICK i \in 1 .. Len(q) : q[i] = "disable" /\ \A j \in i .. Len(q) : q[j] # "cmd"
    BY <1>3 DEF Disables
  <2>2. CASE i = 1
    BY <1>1, <2>1, <2>2 DEF Has
  <2>3. CASE i # 1
    <3>1. i - 1 \in 1 .. Len(p) /\ p[i - 1] = "disable"
      BY <1>1, <2>1, <2>3
    <3>2. \A j \in i - 1 .. Len(p) : j \in 1 .. Len(p) /\ j + 1 \in i .. Len(q)
      BY <1>1, <2>1, <2>3
    <3> QED BY <1>1, <2>1, <3>1, <3>2 DEF Disables
  <2> QED BY <2>2, <2>3
<1>4. ASSUME NEW i, Shuts(q, i)
      PROVE  /\ i = 1 => h = "shutdown"
             /\ i # 1 => /\ h # "shutdown" /\ i - 1 \in 1 .. Len(p) /\ Shuts(p, i - 1)
                         /\ 1 \in 1 .. i - 1
                         /\ \A j \in 1 .. (i - 1) - 1 : j + 1 \in 2 .. i - 1 /\ p[j] = q[j + 1]
  <2>1. i \in 1 .. Len(q) /\ q[i] = "shutdown" /\ \A j \in 1 .. i - 1 : q[j] # "shutdown"
    BY <1>4 DEF Shuts
  <2>2. CASE i = 1
    BY <1>1, <2>1, <2>2
  <2>3. CASE i # 1
    <3>1. 1 \in 1 .. i - 1 /\ i - 1 \in 1 .. Len(p) /\ p[i - 1] = "shutdown"
      BY <1>1, <2>1, <2>3
    <3>2. \A j \in 1 .. (i - 1) - 1 : j + 1 \in 2 .. i - 1 /\ j + 1 \in 1 .. i - 1 /\ p[j] = q[j + 1]
      BY <1>1, <2>1, <2>3
    <3> QED BY <1>1, <2>1, <2>3, <3>1, <3>2 DEF Shuts
  <2> QED BY <2>2, <2>3
<1>5. ASSUME NoCmdFirst(q) PROVE h = "shutdown" \/ (h # "cmd" /\ NoCmdFirst(p))
  <2>1. PICK i \in 1 .. Len(q) : Shuts(q, i) /\ \A j \in 1 .. i - 1 : q[j] # "cmd"
    BY <1>5 DEF NoCmdFirst
  <2>2. CASE i # 1
    <3>1. /\ i - 1 \in 1 .. Len(p) /\ Shuts(p, i - 1) /\ 1 \in 1 .. i - 1
          /\ \A j \in 1 .. (i - 1) - 1 : j + 1 \in 1 .. i - 1 /\ p[j] = q[j + 1]
      BY <1>4, <2>1, <2>2
    <3> QED BY <1>1, <2>1, <3>1 DEF NoCmdFirst
  <2> QED BY <1>4, <2>1, <2>2
<1>6. ASSUME DisableFirst(q) PROVE h # "shutdown" /\ (h = "disable" \/ DisableFirst(p))
  <2>1. PICK i \in 1 .. Len(q) : Shuts(q, i) /\ \E d \in 1 .. i - 1 : q[d] = "disable"
    BY <1>6 DEF DisableFirst
  <2>2. PICK d \in 1 .. i - 1 : q[d] = "disable"
    BY <2>1
  <2>3. i # 1
    BY <2>2
  <2>4. h # "shutdown" /\ i - 1 \in 1 .. Len(p) /\ Shuts(p, i - 1)
    BY <1>4, <2>1, <2>3
  <2>5. CASE d # 1
    <3>1. d - 1 \in 1 .. (i - 1) - 1 /\ d \in 1 .. Len(q)
      BY <1>1, <2>1, <2>2, <2>5
    <3>2. p[d - 1] = "disable"
      BY <1>1, <2>2, <2>5, <3>1
    <3> QED BY <2>4, <3>1, <3>2 DEF DisableFirst
  <2> QED BY <1>1, <2>2, <2>4, <2>5
<1>7. ASSUME StopsFirst(q)
      PROVE  h # "shutdown" /\ (StopsFirst(p) \/ (h = "disable" /\ NoCmdFirst(p)))
  <2>1. PICK i \in 1 .. Len(q) : Shuts(q, i) /\ \E d \in 1 .. i - 1 :
            q[d] = "disable" /\ \A j \in d .. i - 1 : q[j] # "cmd"
    BY <1>7 DEF StopsFirst
  <2>2. PICK d \in 1 .. i - 1 : q[d] = "disable" /\ \A j \in d .. i - 1 : q[j] # "cmd"
    BY <2>1
  <2>3. i # 1
    BY <2>2
  <2>4. /\ h # "shutdown" /\ i - 1 \in 1 .. Len(p) /\ Shuts(p, i - 1)
        /\ \A j \in 1 .. (i - 1) - 1 : j + 1 \in 2 .. i - 1 /\ p[j] = q[j + 1]
    BY <1>4, <2>1, <2>3
  <2>5. CASE d = 1
    BY <1>1, <2>2, <2>4, <2>5 DEF NoCmdFirst
  <2>6. CASE d # 1
    <3>1. d - 1 \in 1 .. (i - 1) - 1 /\ (d - 1) + 1 = d
      BY <1>1, <2>1, <2>2, <2>6
    <3>2. \A j \in d - 1 .. (i - 1) - 1 : j \in 1 .. (i - 1) - 1 /\ j + 1 \in d .. i - 1
      BY <2>1, <2>2, <2>6
    <3> QED BY <2>2, <2>4, <3>1, <3>2 DEF StopsFirst
  <2> QED BY <2>4, <2>5, <2>6
<1> QED BY <1>2, <1>3, <1>5, <1>6, <1>7

(* The empty mailbox *)
LEMMA NothingPosted ==
    /\ << >> \in Seq(Event) /\ \A x : ~Has(<< >>, x)
    /\ \A x : Single(<< >>, x)
    /\ Tailing(<< >>) /\ ~Disables(<< >>)
<1>1. << >> \in Seq(Event) /\ 1 .. Len(<< >>) = {} /\ 2 .. Len(<< >>) = {}
  OBVIOUS
<1> QED BY <1>1 DEF Has, Single, Tailing, Disables

(* A mailbox of one message *)
LEMMA OneMessage == \A e : <<e>> # << >> /\ \A x : Has(<<e>>, x) <=> x = e
<1>1. \A e : Len(<<e>>) = 1 /\ <<e>>[1] = e /\ <<e>> # << >>
  OBVIOUS
<1> QED BY <1>1 DEF Has
-----------------------------------------------------------------------------
(* Lemmas: what a message posted or taken does to the mailbox *)

(* q becomes p when e is posted: what it holds, and in which order. *)
Added(q, p, e) ==
    /\ p # << >> /\ (q = << >> => p = <<e>>)
    /\ \A x : Has(p, x) <=> Has(q, x) \/ x = e
    /\ \A x : ~Has(q, x) => Single(p, x)
    /\ \A x : Single(q, x) => x = e \/ Single(p, x)

AddedOrder(q, p, e) ==
    /\ q = << >> \/ (Tailing(q) /\ e = "timeout") => Tailing(p)
    /\ e = "disable" \/ (Disables(q) /\ e # "cmd") => Disables(p)
    /\ NoCmdFirst(q) => NoCmdFirst(p)
    /\ DisableFirst(q) => DisableFirst(p)
    /\ StopsFirst(q) => StopsFirst(p)
    /\ e = "shutdown" /\ ~Has(q, "shutdown") =>
          /\ ~Has(q, "cmd") => NoCmdFirst(p)
          /\ Has(q, "disable") => DisableFirst(p)
          /\ Disables(q) => StopsFirst(p)

(* q becomes p when e is taken. *)
Removed(q, p, e) ==
    /\ q # << >> /\ \A x : q = <<x>> => x = e /\ p = << >>
    /\ \A x : Has(q, x) <=> Has(p, x) \/ x = e
    /\ \A x : Single(q, x) => Single(p, x) /\ (x = e => ~Has(p, x))

RemovedOrder(q, p, e) ==
    /\ Tailing(q) => Tailing(p) /\ \A x : Has(p, x) => x = "timeout"
    /\ Disables(q) => Disables(p) \/ (e = "disable" /\ ~Has(p, "cmd"))
    /\ NoCmdFirst(q) => e = "shutdown" \/ (e # "cmd" /\ NoCmdFirst(p))
    /\ DisableFirst(q) => e # "shutdown" /\ (e = "disable" \/ DisableFirst(p))
    /\ StopsFirst(q) => e # "shutdown" /\ (StopsFirst(p) \/ (e = "disable" /\ NoCmdFirst(p)))

(* A post while the UWB task lives *)
LEMMA Posts ==
    ASSUME mbox \in Seq(Event), NEW e \in Event, Post(e), queue = "live"
    PROVE  fault' = fault /\ Added(mbox, mbox', e) /\ AddedOrder(mbox, mbox', e)
<1>1. mbox' = Append(mbox, e) /\ fault' = fault
  BY DEF Post
<1>2. mbox' # << >> /\ (mbox = << >> => mbox' = <<e>>)
  <2>1. Append(<< >>, e) = <<e>>
    OBVIOUS
  <2> QED BY <1>1, <2>1, Posted
<1>3. \A x : Has(mbox', x) <=> Has(mbox, x) \/ x = e
  BY <1>1, PostedHas
<1>4. /\ \A x : ~Has(mbox, x) => Single(mbox', x)
      /\ \A x : Single(mbox, x) => x = e \/ Single(mbox', x)
  BY <1>1, PostedSingle
<1>5. /\ mbox = << >> \/ (Tailing(mbox) /\ e = "timeout") => Tailing(mbox')
      /\ e = "disable" \/ (Disables(mbox) /\ e # "cmd") => Disables(mbox')
      /\ NoCmdFirst(mbox) => NoCmdFirst(mbox')
      /\ DisableFirst(mbox) => DisableFirst(mbox')
      /\ StopsFirst(mbox) => StopsFirst(mbox')
  BY <1>1, PostedOrder
<1>6. e = "shutdown" /\ ~Has(mbox, "shutdown") =>
                 /\ ~Has(mbox, "cmd") => NoCmdFirst(mbox')
                 /\ Has(mbox, "disable") => DisableFirst(mbox')
                 /\ Disables(mbox) => StopsFirst(mbox')
  BY <1>1, FirstShutdown
<1> QED BY <1>1, <1>2, <1>3, <1>4, <1>5, <1>6 DEF Added, AddedOrder

(* The UWB task takes a message. *)
LEMMA Taken ==
    ASSUME mbox \in Seq(Event), NEW e, Takes(e)
    PROVE  /\ Removed(mbox, mbox', e) /\ RemovedOrder(mbox, mbox', e) /\ Alive /\ task = "loop"
           /\ UNCHANGED <<at, mErrorHandlerQueue, queue, calls, crashes, lost, overlap>>
           /\ UNCHANGED <<app, recovery>>
<1>1. mbox # << >> /\ e = Head(mbox) /\ mbox' = Tail(mbox)
  BY DEF Takes
<1>2. /\ Alive /\ task = "loop"
      /\ UNCHANGED <<at, mErrorHandlerQueue, queue, calls, crashes, lost, overlap>>
      /\ UNCHANGED <<app, recovery>>
  BY DEF Takes, used, ghost, app, recovery
<1>3. \A x : mbox = <<x>> => x = e /\ mbox' = << >>
  BY <1>1
<1>4. \A x : Has(mbox, x) <=> Has(mbox', x) \/ x = e
  BY <1>1, RestHas
<1>5. \A x : Single(mbox, x) => Single(mbox', x) /\ (x = e => ~Has(mbox', x))
  BY <1>1, RestSingle
<1>6. /\ Tailing(mbox) => Tailing(mbox') /\ \A x : Has(mbox', x) => x = "timeout"
      /\ Disables(mbox) => Disables(mbox') \/ (e = "disable" /\ ~Has(mbox', "cmd"))
      /\ NoCmdFirst(mbox) => e = "shutdown" \/ (e # "cmd" /\ NoCmdFirst(mbox'))
      /\ DisableFirst(mbox) => e # "shutdown" /\ (e = "disable" \/ DisableFirst(mbox'))
      /\ StopsFirst(mbox) =>
            e # "shutdown" /\ (StopsFirst(mbox') \/ (e = "disable" /\ NoCmdFirst(mbox')))
  BY <1>1, RestOrder
<1> QED BY <1>1, <1>2, <1>3, <1>4, <1>5, <1>6 DEF Removed, RemovedOrder
-----------------------------------------------------------------------------
(* Lemmas: every step keeps the types *)

(* Where a step may go, and what it may assign *)
LEMMA Values ==
    /\ {"start", "created", "enable wait", "register wait", "device init", "up", "call",
        "disable wait", "end wait", "done", "reported", "idle", "restart"} \subseteq Place
    /\ {"enable", "ready", "register", "cmd", "rsp", "timeout", "crash", "disable", "closed",
        "shutdown"} \subseteq Event
    /\ {"default", "enable", "register", "device status", "rsp", "disable"} \subseteq Awaited
    /\ {"live", "released"} \subseteq QueueIs
    /\ {"none", "created", "loop", "crash log", "close hal", "ended"} \subseteq TaskIs
    /\ {"on", "fired", "off"} \subseteq TimerIs
    /\ {"closed", "open", "closing", "client stopped"} \subseteq HalIs
    /\ {"queue released", "leftover", "null call"} \subseteq FaultIs
    /\ {0, 1} \subseteq Tokens
    /\ NoApp \in UwaDmCb /\ Cleared \in UwbCb
BY DEF Place, Event, Awaited, QueueIs, TaskIs, TimerIs, HalIs, FaultIs, Tokens, NoApp, UwaDmCb,
       Cleared, UwbCb

(* What the client thread is told *)
LEMMA Messages ==
    ASSUME client \in Seq(Message)
    PROVE  /\ << >> \in Seq(Message) /\ <<"open">> \in Seq(Message)
           /\ Append(client, "close") \in Seq(Message)
           /\ client # << >> => Tail(client) \in Seq(Message)
BY DEF Message

(* A post through the handle *)
LEMMA PostTypes ==
    ASSUME Types, NEW e \in Event, Post(e)
    PROVE  mbox' \in Seq(Event) /\ fault' \in FaultIs
<1>1. mbox' \in Seq(Event)
  BY Posted DEF Types, Post
<1>2. fault' \in FaultIs
  BY Values DEF Types, Post
<1> QED BY <1>1, <1>2

(* A move of the application or of the recovery *)
LEMMA GoesTypes ==
    ASSUME Types, NEW t \in Waiter, NEW where \in Place, Goes(t, where)
    PROVE  at' \in [Waiter -> Place]
BY DEF Types, Goes

(* The application's steps *)
LEMMA AppTypes == ASSUME Types, App PROVE Types'
<1>0. /\ \A e \in Event : Post(e) => mbox' \in Seq(Event) /\ fault' \in FaultIs
      /\ \A where \in Place : Goes("app", where) => at' \in [Waiter -> Place]
  BY PostTypes, GoesTypes DEF Waiter
<1>1. CASE InitStart
  BY <1>0, <1>1, Values, NothingPosted DEF InitStart, Types, timing, low, used, ghost
<1>2. CASE UwaInit
  <2>1. [Cleared EXCEPT !.p_hal = TRUE] \in UwbCb
    BY DEF Cleared, UwbCb
  <2> QED BY <1>0, <1>2, <2>1, Values DEF UwaInit, InitBlock, Types, timing, low, used, ghost
<1>3. CASE Enabled
  BY <1>0, <1>3, Values DEF Enabled, Types, timing, low, used, ghost
<1>4. CASE Registered
  BY <1>0, <1>4, Values DEF Registered, Types, timing, low, used, ghost
<1>5. CASE DeviceInit
  BY <1>0, <1>5, Values DEF DeviceInit, Types, api, timing, low, used, ghost
<1>6. CASE Abandon
  BY <1>0, <1>6, Values DEF Abandon, Types, timing, low, used
<1>7. CASE Call
  <2>1. calls' \in 0 .. MaxCall
    BY <1>7, UwbLifecycleAssumption DEF Call, Types
  <2> QED BY <1>0, <1>7, <2>1, Values DEF Call, Types, timing, low, ghost
<1>8. CASE Return
  BY <1>0, <1>8, Values DEF Return, Types, timing, low, used, ghost
<1>9. CASE ReportTimeOut
  <2>1. crashes' \in 0 .. MaxCrash /\ mErrorHandlerQueue' \in 0 .. ErrorQueue
    BY <1>9, UwbLifecycleAssumption DEF ReportTimeOut, Types
  <2> QED BY <1>0, <1>9, <2>1, Values DEF ReportTimeOut, Types, api, timing, low, ghost
<1> QED BY <1>1, <1>2, <1>3, <1>4, <1>5, <1>6, <1>7, <1>8, <1>9 DEF App

(* The end of the stack, and the restart *)
LEMMA EndsTypes == ASSUME Types, NEW t \in Waiter, Ends(t) \/ Restart PROVE Types'
<1>0. /\ \A e \in Event : Post(e) => mbox' \in Seq(Event) /\ fault' \in FaultIs
      /\ \A where \in Place : Goes(t, where) => at' \in [Waiter -> Place]
  BY PostTypes, GoesTypes
<1>1. ASSUME StartsShutDown(t)
      PROVE  /\ mErrorHandlerQueue' \in 0 .. ErrorQueue /\ overlap' \in BOOLEAN
             /\ UNCHANGED <<devMgmtSem, isUfaEnabled, queue, uwb_task_sem, task, uwb_cb,
                            uwa_dm_cb, timer, cmd_retry_count, hal, client, calls, crashes, lost>>
  <2>1. mErrorHandlerQueue' \in 0 .. ErrorQueue
    BY <1>1, UwbLifecycleAssumption DEF StartsShutDown, Types
  <2> QED BY <1>1, <2>1 DEF StartsShutDown, Types, timing, low, used
<1>2. CASE ShutDown(t)
  BY <1>0, <1>1, <1>2, Values DEF ShutDown, Types
<1>3. CASE NotInitialized(t)
  <2>1. at' \in [Waiter -> Place]
    BY <1>0, <1>3, Values DEF NotInitialized
  <2> QED BY <2>1, <1>1, <1>3 DEF NotInitialized, Types
<1>4. CASE CleanUp(t)
  BY <1>0, <1>4, Values DEF CleanUp, Types, timing, low, used
<1>5. CASE Finalize(t)
  <2>1. at' \in [Waiter -> Place]
    BY <1>0, <1>5, Values DEF Finalize
  <2> QED BY <2>1, <1>5, Values, NothingPosted DEF Finalize, Types, timing, low, used, ghost
<1>6. CASE Restart
  <2>1. at' \in [Waiter -> Place]
    BY <1>6, Values DEF Restart
  <2> QED BY <1>6, <2>1 DEF Restart, Types, api, timing, low, used
<1> QED BY <1>2, <1>3, <1>4, <1>5, <1>6 DEF Ends

(* The UWB task's steps *)
LEMMA TaskTypes == ASSUME Types, UwbTask PROVE Types'
<1>0. /\ \A e : Wake(e) => /\ currentEventId' \in Awaited
                           /\ devMgmtSem' \in Tokens \cup {Null} /\ isUfaEnabled' = isUfaEnabled
      /\ \A e : Takes(e) =>
            /\ mbox' \in Seq(Event)
            /\ UNCHANGED <<at, mErrorHandlerQueue, queue, calls, crashes, lost, overlap>>
      /\ \A b \in BOOLEAN : Through(b) => fault' \in FaultIs
      /\ 0 \in 0 .. MaxRetry
      /\ << >> \in Seq(Message)
  <2>1. \A e : Wake(e) => /\ currentEventId' \in Awaited
                          /\ devMgmtSem' \in Tokens \cup {Null} /\ isUfaEnabled' = isUfaEnabled
    BY Values DEF Wake, Types
  <2>2. \A e : Takes(e) =>
            /\ mbox' \in Seq(Event)
            /\ UNCHANGED <<at, mErrorHandlerQueue, queue, calls, crashes, lost, overlap>>
    BY Rest DEF Takes, Types, used, ghost
  <2>3. \A b \in BOOLEAN : Through(b) => fault' \in FaultIs
    BY Values DEF Through, Types
  <2> QED BY <2>1, <2>2, <2>3, UwbLifecycleAssumption
<1>u. /\ \A s \in {"none", "wait open", "idle", "wait close"} :
            [uwb_cb EXCEPT !.uwb_state = s] \in UwbCb
      /\ [uwa_dm_cb EXCEPT !.p_dm_rsp_cback = TRUE] \in UwaDmCb
      /\ [uwa_dm_cb EXCEPT !.active = TRUE] \in UwaDmCb
      /\ uwb_cb.p_hal \in BOOLEAN /\ uwa_dm_cb.p_dm_rsp_cback \in BOOLEAN
  BY DEF Types, UwbCb, UwaDmCb
<1>1. CASE Begin
  BY <1>0, <1>1, Values DEF Begin, Types, api, low, used, ghost
<1>2. CASE CrashLogged
  <2>0. mErrorHandlerQueue \in 0 .. ErrorQueue /\ ErrorQueue \in Nat
    BY UwbLifecycleAssumption DEF Types
  <2>1. mErrorHandlerQueue' \in 0 .. ErrorQueue
    <3>1. mErrorHandlerQueue' = IF mErrorHandlerQueue < ErrorQueue
                                THEN mErrorHandlerQueue + 1 ELSE mErrorHandlerQueue
      BY <1>2 DEF CrashLogged
    <3> QED BY <2>0, <3>1
  <2> QED BY <1>0, <1>2, <2>1, Values DEF CrashLogged, Types, timing, low, used, ghost
<1>3. CASE HalCloses
  BY <1>0, <1>3, Values DEF HalCloses, Types, api, timing, used, ghost
<1>4. CASE TakesEnable
  <2>m. client \in Seq(Message)
    BY DEF Types
  <2>1. client' \in Seq(Message) /\ hal' \in HalIs
    <3>1. client' \in Seq(Message)
      BY <1>4, <2>m, Messages DEF TakesEnable, low
    <3>2. hal' \in HalIs
      BY <1>4, Values DEF TakesEnable, low, Types
    <3> QED BY <3>1, <3>2
  <2>2. fault' \in FaultIs /\ uwb_cb' \in UwbCb /\ uwa_dm_cb' \in UwaDmCb
    BY <1>0, <1>u, <1>4 DEF TakesEnable, Types
  <2> QED BY <1>0, <1>4, <2>1, <2>2 DEF TakesEnable, Types, api, timing
<1>5. CASE TakesReady
  BY <1>0, <1>u, <1>5 DEF TakesReady, Types, timing, low
<1>6. CASE TakesRegister
  BY <1>0, <1>6 DEF TakesRegister, Types, api, timing, low
<1>7. CASE TakesCmd
  BY <1>0, <1>7, Values DEF TakesCmd, Types, api, low
<1>8. CASE TakesRsp
  BY <1>0, <1>8, Values DEF TakesRsp, Types, api, low
<1>9. CASE TakesTimeout
  <2>1. cmd_retry_count' \in 0 .. MaxRetry
    BY <1>9, UwbLifecycleAssumption DEF TakesTimeout, Types
  <2> QED BY <1>0, <1>9, <2>1, Values DEF TakesTimeout, Types, api, low
<1>10. CASE TakesCrash
  BY <1>0, <1>10, Values DEF TakesCrash, Types, api, low
<1>11. CASE TakesDisable
  <2>m. client \in Seq(Message)
    BY DEF Types
  <2>1. client' \in Seq(Message) /\ hal' \in HalIs /\ task' \in TaskIs
    <3>1. client' \in Seq(Message)
      BY <1>11, <2>m, Messages DEF TakesDisable, low
    <3>2. hal' \in HalIs /\ task' \in TaskIs
      BY <1>11, Values DEF TakesDisable, low, Types
    <3> QED BY <3>1, <3>2
  <2>2. fault' \in FaultIs /\ uwb_cb' \in UwbCb /\ uwa_dm_cb' \in UwaDmCb
    BY <1>0, <1>u, <1>11, Values DEF TakesDisable, Types
  <2> QED BY <1>0, <1>11, <2>1, <2>2, Values DEF TakesDisable, Types, api, timing
<1>12. CASE TakesClosed
  <2>1. uwb_cb' \in UwbCb /\ uwa_dm_cb' \in UwaDmCb
    BY <1>u, <1>12, Values DEF TakesClosed, Types
  <2>2. /\ currentEventId' \in Awaited /\ devMgmtSem' \in Tokens \cup {Null}
        /\ isUfaEnabled' = isUfaEnabled
    BY <1>0, <1>12 DEF TakesClosed, Types, api
  <2> QED BY <1>0, <1>12, <2>1, <2>2 DEF TakesClosed, Types, timing, low
<1>13. CASE TakesShutdown
  BY <1>0, <1>13, Values DEF TakesShutdown, Types, api, timing, low
<1> QED BY <1>1, <1>2, <1>3, <1>4, <1>5, <1>6, <1>7, <1>8, <1>9, <1>10, <1>11, <1>12, <1>13
   DEF UwbTask

(* The timer, the client thread and the controller *)
LEMMA BelowTypes ==
    ASSUME Types, TimerFires \/ ClientOpens \/ ClientCloses \/ RspArrives \/ CrashArrives
    PROVE  Types'
<1>0. \A e \in Event : Post(e) => mbox' \in Seq(Event) /\ fault' \in FaultIs
  BY PostTypes
<1>c. \A e : ClientTakes(e) => client' \in Seq(Message)
  <2>1. client \in Seq(Message)
    BY DEF Types
  <2> QED BY <2>1, Messages DEF ClientTakes
<1>1. CASE TimerFires
  BY <1>0, <1>1, Values DEF TimerFires, Types, api, low, used, ghost
<1>2. CASE ClientOpens
  <2>1. ClientTakes("open")
    BY <1>2 DEF ClientOpens
  <2> QED BY <1>0, <1>2, <1>c, <2>1, Values DEF ClientOpens, ClientTakes, Types, api, timing, used, ghost
<1>3. CASE ClientCloses
  <2>1. ClientTakes("close")
    BY <1>3 DEF ClientCloses
  <2> QED BY <1>0, <1>3, <1>c, <2>1, Values DEF ClientCloses, ClientTakes, Types, api, timing, used, ghost
<1>4. CASE RspArrives
  BY <1>0, <1>4, Values DEF RspArrives, Packet, Types, api, timing, low, ghost
<1>5. CASE CrashArrives
  <2>1. crashes' \in 0 .. MaxCrash
    BY <1>5, UwbLifecycleAssumption DEF CrashArrives, Types
  <2> QED BY <1>0, <1>5, <2>1, Values DEF CrashArrives, Packet, Types, api, timing, low, ghost
<1> QED BY <1>1, <1>2, <1>3, <1>4, <1>5

(* No tokens, one, and a handle that is NULL *)
LEMMA NullIs ==
    /\ Null # 0 /\ Null # 1
    /\ devMgmtSem = 0 => devMgmtSem # 1 /\ devMgmtSem # Null
    /\ devMgmtSem = 1 => devMgmtSem # 0 /\ devMgmtSem # Null
    /\ devMgmtSem' = 0 => devMgmtSem' # 1 /\ devMgmtSem' # Null
    /\ devMgmtSem' = 1 => devMgmtSem' # 0 /\ devMgmtSem' # Null
    /\ uwb_task_sem' = 0 => uwb_task_sem' # 1
BY DEF Null
-----------------------------------------------------------------------------
(* Lemmas: every step keeps the invariant *)

(* A move of one leaves the other where it is. *)
LEMMA Moved ==
    ASSUME Types, NEW t \in Waiter, NEW where, Goes(t, where)
    PROVE  /\ t = "app" => at'["app"] = where /\ at'["recovery"] = at["recovery"]
           /\ t = "recovery" => at'["recovery"] = where /\ at'["app"] = at["app"]
BY DEF Types, Goes

(* The application runs: the task waits, and so does the recovery. *)
LEMMA AppRuns ==
    ASSUME Types, Inv, Runs("app")
    PROVE  /\ TaskBlocks /\ task # "created"
           /\ recovery = "idle" => mErrorHandlerQueue = 0
           /\ recovery # "restart"
           /\ recovery = "disable wait" => "recovery" \in lost \/ devMgmtSem = 0
           /\ recovery = "end wait" => uwb_task_sem # 1
<1>1. TaskBlocks /\ ~Ready("recovery")
  BY DEF Runs
<1>2. mErrorHandlerQueue > 0 \/ mErrorHandlerQueue = 0
  BY DEF Types
<1>3. task # "created"
  BY <1>1 DEF TaskBlocks
<1> QED BY <1>1, <1>2, <1>3 DEF Ready, OnSem, recovery

(* UWA_Init and UWA_Enable, once the UWB task waits *)
LEMMA UwaInitKeeps ==
    ASSUME Types, Alive, Inv, UwaInit PROVE Alive' /\ Inv'
<1>1. /\ app = "created" /\ app' = "enable wait"
      /\ uwb_cb' = [p_hal |-> TRUE, uwb_state |-> "none"] /\ uwa_dm_cb' = NoApp
      /\ currentEventId' = "enable"
      /\ UNCHANGED <<devMgmtSem, isUfaEnabled, mErrorHandlerQueue, queue, uwb_task_sem,
                     task, timer, hal, client, lost, overlap, recovery>>
  BY Moved DEF UwaInit, InitBlock, Cleared, app, recovery, Waiter, timing, low, ghost
<1>2. /\ TaskBlocks /\ task # "created" /\ recovery # "restart"
      /\ recovery = "idle" => mErrorHandlerQueue = 0
      /\ recovery = "disable wait" => "recovery" \in lost \/ devMgmtSem = 0
  BY AppRuns DEF UwaInit
<1>3. queue = "live" /\ /\ task = "loop" /\ mbox = << >> /\ hal = "closed" /\ timer = "off"
      /\ devMgmtSem = 0 /\ "app" \notin lost /\ "recovery" \notin lost
      /\ mErrorHandlerQueue = 0 /\ recovery = "idle" /\ ~isUfaEnabled
  BY <1>1, <1>2 DEF Inv, Places, Phases, Starts, Starting
<1>4. fault' = fault /\ Added(mbox, mbox', "enable") /\ AddedOrder(mbox, mbox', "enable")
  BY <1>3, Posts, Values DEF Types, UwaInit, InitBlock
<1>5. Stack'
  BY <1>1, <1>3 DEF Inv, Stack, NoApp
<1>6. Down'
  BY <1>1, <1>3 DEF Inv, Down
<1>7. Phases'
  BY <1>1, <1>4 DEF Inv, Phases, Added, Places, Starting
<1>8. Places'
  BY <1>1 DEF Inv, Places, Starting, Up
<1>9. Starts'
  BY <1>1, <1>3, <1>4 DEF Inv, Starts, Added, Enabling, NoApp
<1>10. IsUp'
  BY <1>1 DEF Inv, IsUp, Up
<1>11. Disabling'
  BY <1>1, <1>4 DEF Inv, Disabling, Added
<1>12. Exchange'
  BY <1>1, <1>3, <1>4, NothingPosted DEF Inv, Exchange, Added, Up
<1> QED BY <1>4, <1>5, <1>6, <1>7, <1>8, <1>9, <1>10, <1>11, <1>12 DEF Alive, Inv

(* The end of the wait for the enable *)
LEMMA EnabledKeeps ==
    ASSUME Types, Alive, Inv, Enabled PROVE Alive' /\ Inv'
<1>1. /\ app = "enable wait" /\ app' = "register wait" /\ devMgmtSem = 1 /\ devMgmtSem' = 0
      /\ currentEventId' = "register"
      /\ UNCHANGED <<isUfaEnabled, mErrorHandlerQueue, queue, uwb_task_sem, task, uwb_cb,
                     uwa_dm_cb, timer, hal, client, lost, overlap, recovery>>
  BY Moved DEF Enabled, app, recovery, Waiter, timing, low, ghost
<1>2. Enabling /\ timer = "off" /\ ~Has(mbox, "cmd")
  BY <1>1, NullIs DEF Inv, Starts, Exchange
<1>3. mbox = << >> /\ hal = "open" /\ client = << >> /\ task = "loop"
      /\ uwa_dm_cb.active /\ uwb_cb.p_hal /\ uwb_cb.uwb_state = "idle"
  BY <1>1, <1>2, NullIs DEF Enabling
<1>4. /\ queue = "live" /\ "app" \notin lost /\ "recovery" \notin lost
      /\ mErrorHandlerQueue = 0 /\ recovery = "idle" /\ ~isUfaEnabled
  BY <1>1 DEF Inv, Places, Phases, Starting
<1>5. fault' = fault /\ Added(mbox, mbox', "register") /\ AddedOrder(mbox, mbox', "register")
  BY <1>4, Posts, Values DEF Types, Enabled
<1>6. Stack'
  BY <1>1, <1>3 DEF Inv, Stack
<1>7. Down'
  BY <1>1, <1>4 DEF Inv, Down
<1>8. Phases'
  BY <1>1, <1>5, NullIs DEF Inv, Phases, Added
<1>9. Places'
  BY <1>1, NullIs DEF Inv, Places, Starting, Up
<1>10. Starts'
  BY <1>1, <1>3, <1>5 DEF Inv, Starts, Added, Registering
<1>11. IsUp'
  BY <1>1 DEF Inv, IsUp, Up
<1>12. Disabling'
  BY <1>1, <1>4, <1>5 DEF Inv, Disabling, Added
<1>13. Exchange'
  BY <1>1, <1>2, <1>3, <1>5, NothingPosted DEF Inv, Exchange, Added, Up, Cold
<1> QED BY <1>5, <1>6, <1>7, <1>8, <1>9, <1>10, <1>11, <1>12, <1>13 DEF Alive, Inv

(* A command of an application that is up *)
LEMMA CallKeeps ==
    ASSUME Types, Alive, Inv, Call PROVE Alive' /\ Inv'
<1>1. /\ app = "up" /\ app' = "call"
      /\ currentEventId' = "rsp"
      /\ UNCHANGED <<devMgmtSem, isUfaEnabled, mErrorHandlerQueue, queue, uwb_task_sem,
                     task, uwb_cb, uwa_dm_cb, timer, hal, client, lost, overlap, recovery>>
  BY Moved DEF Call, app, recovery, Waiter, timing, low, ghost
<1>2. /\ TaskBlocks /\ task # "created" /\ recovery # "restart"
      /\ recovery = "idle" => mErrorHandlerQueue = 0
      /\ recovery = "disable wait" => "recovery" \in lost \/ devMgmtSem = 0
  BY AppRuns DEF Call
<1>3. queue = "live"
  BY <1>1, <1>2 DEF Inv, Down
<1>4. fault' = fault /\ Added(mbox, mbox', "cmd") /\ AddedOrder(mbox, mbox', "cmd")
  BY <1>3, Posts, Values DEF Types, Call
<1>5. Stack'
  BY <1>1 DEF Inv, Stack
<1>6. Down'
  BY <1>1, <1>3 DEF Inv, Down
<1>7. Phases'
  BY <1>1, <1>4 DEF Inv, Phases, Added, AddedOrder, OnSem, Shutting
<1>8. Places'
  BY <1>1 DEF Inv, Places, Up, Starting
<1>9. Starts'
  BY <1>1, <1>4 DEF Inv, Starts, Added
<1>10. IsUp'
  BY <1>1, <1>4 DEF Inv, IsUp, Added, Up
<1>11. Disabling'
  BY <1>1, <1>4 DEF Inv, Disabling, Added
<1>12. Exchange'
  <2> SUFFICES ASSUME devMgmtSem # Null PROVE Exchange'
    BY <1>1 DEF Exchange
  <2>1. timer = "off" /\ ~Has(mbox, "cmd") /\ ~Has(mbox, "rsp") /\ ~Has(mbox, "timeout")
    BY <1>1 DEF Inv, Exchange
  <2>2. Has(mbox', "cmd") => Single(mbox', "cmd") /\ ~Has(mbox', "rsp") /\ ~Has(mbox', "timeout")
    BY <1>4, <2>1 DEF Added
  <2>3. recovery = "idle" /\ mErrorHandlerQueue = 0 => devMgmtSem # 1
    BY <1>1 DEF Inv, Exchange, Up
  <2>4. task = "loop" => Tailing(mbox')
    BY <1>2, <1>4 DEF TaskBlocks, AddedOrder
  <2>5. ~(recovery = "disable wait" /\ devMgmtSem = 1)
    BY <1>2, NullIs DEF Inv, Phases
  <2> QED BY <1>1, <2>1, <2>2, <2>3, <2>4, <2>5 DEF Exchange
<1> QED BY <1>4, <1>5, <1>6, <1>7, <1>8, <1>9, <1>10, <1>11, <1>12 DEF Alive, Inv

(* The end of the wait for the registration *)
LEMMA RegisteredKeeps ==
    ASSUME Types, Alive, Inv, Registered PROVE Alive' /\ Inv'
<1>1. /\ app = "register wait" /\ app' = "device init" /\ devMgmtSem = 1 /\ devMgmtSem' = 0
      /\ currentEventId' = "device status" /\ isUfaEnabled' = TRUE
      /\ UNCHANGED <<mErrorHandlerQueue, queue, mbox, uwb_task_sem, task, uwb_cb, uwa_dm_cb,
                     timer, hal, client, lost, overlap, recovery, fault>>
  BY Moved DEF Registered, app, recovery, Waiter, timing, low, ghost
<1>2. Registering /\ timer = "off" /\ ~Has(mbox, "cmd")
  BY <1>1, NullIs DEF Inv, Starts, Exchange
<1>3. mbox = << >> /\ hal = "open" /\ task = "loop" /\ uwb_cb.p_hal /\ uwb_cb.uwb_state = "idle"
  BY <1>1, <1>2, NullIs DEF Registering
<1>4. /\ queue = "live" /\ "app" \notin lost /\ "recovery" \notin lost
      /\ mErrorHandlerQueue = 0 /\ recovery = "idle" /\ ~isUfaEnabled
  BY <1>1 DEF Inv, Places, Phases, Starting
<1>5. Stack'
  BY <1>1 DEF Inv, Stack
<1>6. Down'
  BY <1>1, <1>4 DEF Inv, Down
<1>7. Phases'
  BY <1>1, NullIs DEF Inv, Phases
<1>8. Places'
  BY <1>1, <1>4 DEF Inv, Places, Starting
<1>9. Starts'
  BY <1>1, <1>3, NothingPosted DEF Inv, Starts
<1>10. IsUp'
  BY <1>1, <1>3, NullIs, NothingPosted DEF Inv, IsUp
<1>11. Disabling'
  BY <1>1, <1>4 DEF Inv, Disabling
<1>12. Exchange'
  BY <1>1, <1>3, <1>4, NullIs, NothingPosted DEF Inv, Exchange
<1> QED BY <1>1, <1>5, <1>6, <1>7, <1>8, <1>9, <1>10, <1>11, <1>12 DEF Alive, Inv

(* UwbDeviceInit and the first commands *)
LEMMA DeviceInitKeeps ==
    ASSUME Types, Alive, Inv, DeviceInit PROVE Alive' /\ Inv'
<1>1. /\ app = "device init" /\ app' = "up"
      /\ UNCHANGED <<devMgmtSem, currentEventId, isUfaEnabled, mErrorHandlerQueue, queue,
                     mbox, uwb_task_sem, task, uwb_cb, uwa_dm_cb, timer, hal, client, lost,
                     overlap, recovery, fault>>
  BY Moved DEF DeviceInit, app, recovery, Waiter, api, timing, low, ghost
<1>2. Stack'
  BY <1>1 DEF Inv, Stack
<1>3. Down'
  BY <1>1 DEF Inv, Down
<1>4. Phases'
  BY <1>1 DEF Inv, Phases, OnSem, Shutting
<1>5. Places'
  BY <1>1 DEF Inv, Places, Starting, Up
<1>6. Starts'
  BY <1>1 DEF Inv, Starts
<1>7. IsUp'
  BY <1>1 DEF Inv, IsUp, Up
<1>8. Disabling'
  BY <1>1 DEF Inv, Disabling
<1>9. Exchange'
  BY <1>1 DEF Inv, Exchange, Up, Cold
<1> QED BY <1>1, <1>2, <1>3, <1>4, <1>5, <1>6, <1>7, <1>8, <1>9 DEF Alive, Inv

(* An initialisation that is given up: a wait for the enable or the registration never times out. *)
LEMMA AbandonKeeps ==
    ASSUME Types, Alive, Inv, Abandon PROVE Alive' /\ Inv'
<1>1. /\ app' = "disable wait"
      /\ currentEventId' = "disable" /\ isUfaEnabled' = FALSE
      /\ overlap' = (overlap \/ recovery # "idle")
      /\ UNCHANGED <<devMgmtSem, mErrorHandlerQueue, queue, uwb_task_sem, task, uwb_cb,
                     uwa_dm_cb, timer, hal, client, lost, recovery>>
  BY Moved DEF Abandon, app, recovery, Waiter, timing, low
<1>2. /\ TaskBlocks /\ task # "created" /\ recovery # "restart"
      /\ recovery = "idle" => mErrorHandlerQueue = 0
      /\ recovery = "disable wait" => "recovery" \in lost \/ devMgmtSem = 0
  BY AppRuns DEF Abandon
<1>3. app = "device init"
  <2> SUFFICES ASSUME app \in {"enable wait", "register wait"}, devMgmtSem = 0, TaskBlocks,
                      client = << >>
               PROVE  FALSE
    BY DEF Abandon, Quiet, app
  <2>1. Enabling \/ Registering
    BY DEF Inv, Starts
  <2>2. task = "loop" => mbox = << >>
    BY DEF TaskBlocks
  <2>3. ~Enabling
    BY <2>2, NullIs, OneMessage DEF Enabling
  <2>4. ~Registering
    BY <2>2, NullIs, OneMessage DEF Registering
  <2> QED BY <2>1, <2>3, <2>4
<1>4. queue = "live"
  BY <1>2, <1>3 DEF Inv, Down
<1>5. fault' = fault /\ Added(mbox, mbox', "disable") /\ AddedOrder(mbox, mbox', "disable")
  BY <1>4, Posts, Values DEF Types, Abandon
<1>6. Stack'
  BY <1>1, <1>3 DEF Inv, Stack
<1>7. Down'
  BY <1>1, <1>4 DEF Inv, Down
<1>8. Phases'
  BY <1>1, <1>5 DEF Inv, Phases, Added, AddedOrder, OnSem, Shutting
<1>9. Places'
  BY <1>1 DEF Inv, Places, Starting, Up
<1>10. Starts'
  BY <1>1, <1>3, <1>5 DEF Inv, Starts, Added
<1>11. IsUp'
  BY <1>1 DEF Inv, IsUp, Up
<1>12. Disabling'
  BY <1>1, <1>3, <1>5 DEF Inv, Disabling, Added, IsUp, Up
<1>13. Exchange'
  BY <1>1, <1>3, <1>5 DEF Inv, Exchange, Added, Up, Cold
<1> QED BY <1>5, <1>6, <1>7, <1>8, <1>9, <1>10, <1>11, <1>12, <1>13 DEF Alive, Inv

(* The end of the wait for a response *)
LEMMA ReturnKeeps ==
    ASSUME Types, Alive, Inv, Return PROVE Alive' /\ Inv'
<1>1. /\ app = "call" /\ app' = "up" /\ "app" \notin lost /\ (devMgmtSem # 0 \/ Quiet)
      /\ devMgmtSem' = IF devMgmtSem = 1 THEN 0 ELSE devMgmtSem
      /\ UNCHANGED <<currentEventId, isUfaEnabled, mErrorHandlerQueue, queue, mbox,
                     uwb_task_sem, task, uwb_cb, uwa_dm_cb, timer, hal, client, lost,
                     overlap, recovery, fault>>
  BY Moved DEF Return, app, recovery, Waiter, timing, low, ghost
<1>2. /\ TaskBlocks /\ task # "created" /\ recovery # "restart"
      /\ recovery = "idle" => mErrorHandlerQueue = 0
      /\ recovery = "disable wait" => "recovery" \in lost \/ devMgmtSem = 0
  BY AppRuns DEF Return
<1>3. devMgmtSem # Null =>
          task = "loop" /\ mbox = << >> /\ timer = "off"
  <2> SUFFICES ASSUME devMgmtSem # Null PROVE task = "loop" /\ mbox = << >> /\ timer = "off"
    OBVIOUS
  <2>1. CASE Quiet
    <3>1. TaskBlocks /\ task # "crash log" /\ client = << >> /\ timer # "on"
      BY <2>1 DEF Quiet
    <3>2. task = "loop" /\ mbox = << >>
      BY <3>1 DEF TaskBlocks, Inv, Stack, Phases
    <3> QED BY <3>1, <3>2, NothingPosted DEF Inv, Exchange, Types, TimerIs
  <2>2. CASE devMgmtSem = 1
    <3>1. recovery = "idle" /\ mErrorHandlerQueue = 0
      BY <1>2, <2>2, NullIs DEF Inv, Phases, Places
    <3>2. task = "loop" /\ timer = "off"
      BY <1>1, <2>2, <3>1 DEF Inv, Exchange, Up
    <3> QED BY <1>2, <3>2 DEF TaskBlocks
  <2> QED BY <1>1, <2>1, <2>2 DEF Types, Tokens
<1>4. Stack'
  BY <1>1 DEF Inv, Stack
<1>5. Down'
  BY <1>1, <1>2 DEF Inv, Down
<1>6. Phases'
  BY <1>1, NullIs DEF Inv, Phases, Shutting
<1>7. Places'
  BY <1>1 DEF Inv, Places, Starting, Up
<1>8. Starts'
  BY <1>1 DEF Inv, Starts
<1>9. IsUp'
  BY <1>1, NullIs DEF Inv, IsUp, Up
<1>10. Disabling'
  BY <1>1, NullIs DEF Inv, Disabling
<1>11. Exchange'
  BY <1>1, <1>3, NullIs, NothingPosted DEF Inv, Exchange, Cold
<1> QED BY <1>1, <1>4, <1>5, <1>6, <1>7, <1>8, <1>9, <1>10, <1>11 DEF Alive, Inv

(* A shutdown that is reported as a time-out *)
LEMMA ReportTimeOutKeeps ==
    ASSUME Types, Alive, Inv, ReportTimeOut PROVE Alive' /\ Inv'
<1>1. /\ app = "done" /\ app' = "reported"
      /\ UNCHANGED <<devMgmtSem, currentEventId, isUfaEnabled, queue, mbox, uwb_task_sem,
                     task, uwb_cb, uwa_dm_cb, timer, hal, client, lost, overlap, recovery,
                     fault>>
  BY Moved DEF ReportTimeOut, app, recovery, Waiter, api, timing, low, ghost
<1>2. Stack'
  BY <1>1 DEF Inv, Stack
<1>3. Down'
  BY <1>1 DEF Inv, Down
<1>4. Phases'
  BY <1>1 DEF Inv, Phases, OnSem, Shutting
<1>5. Places'
  BY <1>1 DEF Inv, Places, Starting
<1>6. Starts'
  BY <1>1 DEF Inv, Starts
<1>7. IsUp'
  BY <1>1 DEF Inv, IsUp, Up
<1>8. Disabling'
  BY <1>1 DEF Inv, Disabling
<1>9. Exchange'
  BY <1>1 DEF Inv, Exchange, Up, Cold
<1> QED BY <1>1, <1>2, <1>3, <1>4, <1>5, <1>6, <1>7, <1>8, <1>9 DEF Alive, Inv

(* UwbApi_ShutDown by an application that is up *)
LEMMA AppShutsDown ==
    ASSUME Types, Alive, Inv, ShutDown("app") PROVE Alive' /\ Inv'
<1>1. /\ app = "up" /\ app' = "disable wait" /\ isUfaEnabled
      /\ currentEventId' = "disable" /\ overlap' = (overlap \/ recovery # "idle")
      /\ UNCHANGED <<devMgmtSem, isUfaEnabled, mErrorHandlerQueue, queue, uwb_task_sem,
                     task, uwb_cb, uwa_dm_cb, timer, hal, client, lost, recovery>>
  BY Moved DEF ShutDown, StartsShutDown, app, recovery, Waiter, timing, low
<1>2. queue = "live"
  BY <1>1 DEF Inv, Places
<1>3. fault' = fault /\ Added(mbox, mbox', "disable") /\ AddedOrder(mbox, mbox', "disable")
  BY <1>2, Posts, Values DEF Types, ShutDown
<1>4. Stack'
  BY <1>1 DEF Inv, Stack
<1>5. Down'
  BY <1>1, <1>2 DEF Inv, Down
<1>6. Phases'
  BY <1>1, <1>3 DEF Inv, Phases, Added, AddedOrder, OnSem, Shutting
<1>7. Places'
  BY <1>1 DEF Inv, Places, Starting
<1>8. Starts'
  BY <1>1, <1>3 DEF Inv, Starts, Added
<1>9. IsUp'
  BY <1>1 DEF Inv, IsUp, Up
<1>10. Disabling'
  BY <1>1, <1>3 DEF Inv, Disabling, Added, IsUp, Up
<1>11. Exchange'
  BY <1>1, <1>3 DEF Inv, Exchange, Added, Up, Cold
<1> QED BY <1>3, <1>4, <1>5, <1>6, <1>7, <1>8, <1>9, <1>10, <1>11 DEF Alive, Inv

(* UwbApi_ShutDown by the recovery *)
LEMMA RecoveryShutsDown ==
    ASSUME Types, Alive, Inv, ShutDown("recovery") PROVE Alive' /\ Inv'
<1>1. /\ recovery = "idle" /\ recovery' = "disable wait" /\ isUfaEnabled
      /\ currentEventId' = "disable"
      /\ overlap' = (overlap \/ app \notin {"up", "call", "reported"})
      /\ UNCHANGED <<devMgmtSem, isUfaEnabled, queue, uwb_task_sem, task, uwb_cb, uwa_dm_cb,
                     timer, hal, client, lost, app>>
  BY Moved DEF ShutDown, StartsShutDown, app, recovery, Waiter, timing, low
<1>2. queue = "live"
  BY <1>1 DEF Inv, Places
<1>3. fault' = fault /\ Added(mbox, mbox', "disable") /\ AddedOrder(mbox, mbox', "disable")
  BY <1>2, Posts, Values DEF Types, ShutDown
<1>4. Stack'
  BY <1>1 DEF Inv, Stack
<1>5. Down'
  BY <1>1, <1>2 DEF Inv, Down
<1>6. Phases'
  BY <1>1, <1>3 DEF Inv, Phases, Added, AddedOrder, OnSem, Shutting
<1>7. Places'
  BY <1>1 DEF Inv, Places
<1>8. Starts'
  BY <1>1, <1>3 DEF Inv, Starts, Added, Places, Starting
<1>9. IsUp'
  BY <1>1 DEF Inv, IsUp
<1>10. Disabling'
  BY <1>1, <1>3 DEF Inv, Disabling, Added, IsUp, Up, Places
<1>11. Exchange'
  BY <1>1, <1>3 DEF Inv, Exchange, Added, AddedOrder, Cold
<1> QED BY <1>3, <1>4, <1>5, <1>6, <1>7, <1>8, <1>9, <1>10, <1>11 DEF Alive, Inv

(* An application that is up is initialised. *)
LEMMA AppIsInitialized ==
    ASSUME Types, Alive, Inv, NotInitialized("app") PROVE FALSE
<1>1. app = "up" /\ ~isUfaEnabled /\ Runs("app")
  BY DEF NotInitialized, StartsShutDown, app
<1>2. queue # "live"
  BY <1>1 DEF Inv, Places, Up
<1> QED BY <1>1, <1>2, AppRuns DEF Inv, Down

(* UwbApi_ShutDown by the recovery when nothing is up *)
LEMMA RecoveryRestarts ==
    ASSUME Types, Alive, Inv, NotInitialized("recovery") PROVE Alive' /\ Inv'
<1>1. /\ recovery = "idle" /\ recovery' = "restart" /\ ~isUfaEnabled /\ mErrorHandlerQueue # 0
      /\ overlap' = (overlap \/ app \notin {"up", "call", "reported"})
      /\ UNCHANGED <<devMgmtSem, currentEventId, isUfaEnabled, queue, mbox, uwb_task_sem,
                     task, uwb_cb, uwa_dm_cb, timer, hal, client, lost, app, fault>>
  BY Moved DEF NotInitialized, StartsShutDown, app, recovery, Waiter, timing, low
<1>2. Stack'
  BY <1>1 DEF Inv, Stack
<1>3. Down'
  BY <1>1 DEF Inv, Down
<1>4. Phases'
  BY <1>1 DEF Inv, Phases, OnSem, Shutting
<1>5. Places'
  BY <1>1 DEF Inv, Places, Up
<1>6. Starts'
  BY <1>1 DEF Inv, Starts, Places, Starting
<1>7. IsUp'
  BY <1>1 DEF Inv, IsUp
<1>8. Disabling'
  BY <1>1 DEF Inv, Disabling
<1>9. Exchange'
  BY <1>1 DEF Inv, Exchange, Cold
<1> QED BY <1>1, <1>2, <1>3, <1>4, <1>5, <1>6, <1>7, <1>8, <1>9 DEF Alive, Inv

(* cleanUp by the application *)
LEMMA AppCleansUp ==
    ASSUME Types, Alive, Inv, CleanUp("app") PROVE Alive' /\ Inv'
<1>1. /\ app = "disable wait" /\ app' = "end wait" /\ "app" \notin lost
      /\ (devMgmtSem # 0 \/ Quiet)
      /\ devMgmtSem' = Null /\ "app" \notin lost'
      /\ \A u \in lost' : u \in lost \/ (u # "app" /\ at[u] \in OnSem)
      /\ UNCHANGED <<currentEventId, isUfaEnabled, mErrorHandlerQueue, queue, uwb_task_sem,
                     task, uwb_cb, uwa_dm_cb, timer, hal, client, overlap, recovery>>
  BY Moved DEF CleanUp, app, recovery, Waiter, timing, low
<1>2. /\ TaskBlocks /\ task # "created" /\ recovery # "restart"
      /\ recovery = "idle" => mErrorHandlerQueue = 0
      /\ recovery = "disable wait" => "recovery" \in lost \/ devMgmtSem = 0
  BY AppRuns DEF CleanUp
<1>3. devMgmtSem # Null => Cold
  BY <1>1 DEF Inv, Exchange, Cold
<1>4. queue = "live"
  BY <1>1, <1>2 DEF Inv, Down
<1>5. fault' = fault /\ Added(mbox, mbox', "shutdown") /\ AddedOrder(mbox, mbox', "shutdown")
  BY <1>4, Posts, Values DEF Types, CleanUp
<1>6. Stack'
  BY <1>1 DEF Inv, Stack
<1>7. Down'
  BY <1>1 DEF Inv, Down
<1>8. Phases'
  <2>1. task = "ended" \/ Shutting'
    <3>1. CASE devMgmtSem = Null
      BY <1>1, <1>4, <1>5, <3>1 DEF Inv, Phases, Shutting, Added, AddedOrder
    <3>2. CASE devMgmtSem # Null
      BY <1>1, <1>3, <1>5, <3>2
      DEF Inv, Phases, Disabling, Cold, Shutting, Added, AddedOrder
    <3> QED BY <3>1, <3>2
  <2>2. ("app" \in lost' => app' \in OnSem) /\ ("recovery" \in lost' => recovery' \in OnSem)
    BY <1>1 DEF Inv, Phases, recovery
  <2> QED BY <1>1, <2>1, <2>2 DEF Phases
<1>9. Places'
  BY <1>1 DEF Inv, Places, Starting, Up
<1>10. Starts'
  BY <1>1, <1>5 DEF Inv, Starts, Added
<1>11. IsUp'
  BY <1>1 DEF Inv, IsUp, Up
<1>12. Disabling'
  BY <1>1, <1>5 DEF Inv, Disabling, Added
<1>13. Exchange'
  BY <1>1 DEF Inv, Exchange
<1> QED BY <1>5, <1>6, <1>7, <1>8, <1>9, <1>10, <1>11, <1>12, <1>13 DEF Alive, Inv

(* cleanUp by the recovery *)
LEMMA RecoveryCleansUp ==
    ASSUME Types, Alive, Inv, CleanUp("recovery") PROVE Alive' /\ Inv'
<1>1. /\ recovery = "disable wait" /\ recovery' = "end wait" /\ "recovery" \notin lost
      /\ (devMgmtSem # 0 \/ Quiet)
      /\ devMgmtSem' = Null /\ "recovery" \notin lost'
      /\ \A u \in lost' : u \in lost \/ (u # "recovery" /\ at[u] \in OnSem)
      /\ UNCHANGED <<currentEventId, isUfaEnabled, mErrorHandlerQueue, queue, uwb_task_sem,
                     task, uwb_cb, uwa_dm_cb, timer, hal, client, overlap, app>>
  BY Moved DEF CleanUp, app, recovery, Waiter, timing, low
<1>2. devMgmtSem # Null => Cold
  <2> SUFFICES ASSUME devMgmtSem # Null PROVE Cold
    OBVIOUS
  <2>1. CASE Quiet
    <3>1. TaskBlocks /\ task # "crash log" /\ client = << >> /\ timer # "on"
      BY <2>1 DEF Quiet
    <3>2. task = "loop" /\ mbox = << >>
      BY <3>1 DEF TaskBlocks, Inv, Stack, Phases
    <3> QED BY <3>1, <3>2, NothingPosted DEF Inv, Exchange, Types, TimerIs, Cold
  <2>2. CASE devMgmtSem = 1
    BY <1>1, <2>2 DEF Inv, Exchange
  <2> QED BY <1>1, <2>1, <2>2 DEF Types, Tokens
<1>3. queue = "live"
  BY <1>1 DEF Inv, Down
<1>4. fault' = fault /\ Added(mbox, mbox', "shutdown") /\ AddedOrder(mbox, mbox', "shutdown")
  BY <1>3, Posts, Values DEF Types, CleanUp
<1>5. Stack'
  BY <1>1 DEF Inv, Stack
<1>6. Down'
  BY <1>1 DEF Inv, Down
<1>7. Phases'
  <2>1. task = "ended" \/ Shutting'
    <3>1. CASE devMgmtSem = Null
      BY <1>1, <1>3, <1>4, <3>1 DEF Inv, Phases, Shutting, Added, AddedOrder
    <3>2. CASE devMgmtSem # Null
      BY <1>1, <1>2, <1>4, <3>2
      DEF Inv, Phases, Disabling, Cold, Shutting, Added, AddedOrder
    <3> QED BY <3>1, <3>2
  <2>2. ("app" \in lost' => app' \in OnSem) /\ ("recovery" \in lost' => recovery' \in OnSem)
    BY <1>1 DEF Inv, Phases, app
  <2> QED BY <1>1, <2>1, <2>2 DEF Phases
<1>8. Places'
  BY <1>1 DEF Inv, Places
<1>9. Starts'
  BY <1>1, <1>4 DEF Inv, Starts, Added, Places, Starting
<1>10. IsUp'
  BY <1>1 DEF Inv, IsUp
<1>11. Disabling'
  BY <1>1, <1>4 DEF Inv, Disabling, Added
<1>12. Exchange'
  BY <1>1 DEF Inv, Exchange
<1> QED BY <1>4, <1>5, <1>6, <1>7, <1>8, <1>9, <1>10, <1>11, <1>12 DEF Alive, Inv

(* Finalize by the application: the UWB task has ended *)
LEMMA AppFinalizes ==
    ASSUME Types, Alive, Inv, Finalize("app") PROVE Alive' /\ Inv'
<1>1. /\ app = "end wait" /\ app' = "done" /\ (uwb_task_sem = 1 \/ Quiet)
      /\ devMgmtSem' = Null /\ currentEventId' = "default" /\ isUfaEnabled' = FALSE
      /\ queue' = "released" /\ mbox' = << >> /\ uwb_task_sem' = 0 /\ task' = "none"
      /\ UNCHANGED <<mErrorHandlerQueue, uwb_cb, uwa_dm_cb, timer, hal, client, lost,
                     overlap, recovery, fault>>
  BY Moved DEF Finalize, app, recovery, Waiter, timing, low, ghost
<1>2. /\ TaskBlocks /\ task # "created" /\ recovery # "restart"
      /\ recovery = "idle" => mErrorHandlerQueue = 0
      /\ recovery = "disable wait" => "recovery" \in lost \/ devMgmtSem = 0
  BY AppRuns DEF Finalize
<1>3. recovery = "end wait" => uwb_task_sem # 1
  BY AppRuns DEF Finalize
<1>4. uwb_task_sem' # 1
  BY <1>1, NullIs
<1>5. task = "ended" /\ devMgmtSem = Null
  <2>1. devMgmtSem = Null /\ queue = "live" /\ (task = "ended" \/ Shutting)
    BY <1>1, <1>2 DEF Inv, Phases, Down
  <2>2. CASE Quiet
    <3>1. TaskBlocks /\ task # "crash log" /\ client = << >>
      BY <2>2 DEF Quiet
    <3>2. Shutting => mbox # << >>
      BY NothingPosted DEF Shutting
    <3> QED BY <2>1, <3>1, <3>2 DEF TaskBlocks, Inv, Stack
  <2>3. CASE uwb_task_sem = 1
    BY <2>1, <2>3 DEF Inv, Stack
  <2> QED BY <1>1, <2>2, <2>3
<1>6. Stack'
  BY <1>1, <1>4, <1>5 DEF Inv, Stack
<1>7. Down'
  BY <1>1, <1>2, <1>3, <1>5, NullIs DEF Inv, Down, Stack
<1>8. Phases'
  BY <1>1 DEF Inv, Phases, OnSem
<1>9. Places'
  BY <1>1 DEF Inv, Places, Starting
<1>10. Starts'
  BY <1>1, NothingPosted DEF Inv, Starts
<1>11. IsUp'
  BY <1>1 DEF Inv, IsUp, Up
<1>12. Disabling'
  BY <1>1, NothingPosted DEF Inv, Disabling
<1>13. Exchange'
  BY <1>1 DEF Inv, Exchange
<1> QED BY <1>1, <1>6, <1>7, <1>8, <1>9, <1>10, <1>11, <1>12, <1>13 DEF Alive, Inv

(* Finalize by the recovery: the UWB task has ended *)
LEMMA RecoveryFinalizes ==
    ASSUME Types, Alive, Inv, Finalize("recovery") PROVE Alive' /\ Inv'
<1>1. /\ recovery = "end wait" /\ recovery' = "restart" /\ (uwb_task_sem = 1 \/ Quiet)
      /\ devMgmtSem' = Null /\ currentEventId' = "default" /\ isUfaEnabled' = FALSE
      /\ queue' = "released" /\ mbox' = << >> /\ uwb_task_sem' = 0 /\ task' = "none"
      /\ UNCHANGED <<mErrorHandlerQueue, uwb_cb, uwa_dm_cb, timer, hal, client, lost,
                     overlap, app, fault>>
  BY Moved DEF Finalize, app, recovery, Waiter, timing, low, ghost
<1>2. uwb_task_sem' # 1
  BY <1>1, NullIs
<1>3. task = "ended" /\ devMgmtSem = Null
  <2>1. devMgmtSem = Null /\ queue = "live" /\ (task = "ended" \/ Shutting)
    BY <1>1 DEF Inv, Phases, Down
  <2>2. CASE Quiet
    <3>1. TaskBlocks /\ task # "crash log" /\ client = << >>
      BY <2>2 DEF Quiet
    <3>2. Shutting => mbox # << >>
      BY NothingPosted DEF Shutting
    <3> QED BY <2>1, <3>1, <3>2 DEF TaskBlocks, Inv, Stack
  <2>3. CASE uwb_task_sem = 1
    BY <2>1, <2>3 DEF Inv, Stack
  <2> QED BY <1>1, <2>2, <2>3
<1>4. Stack'
  BY <1>1, <1>2, <1>3 DEF Inv, Stack
<1>5. Down'
  BY <1>1, <1>3 DEF Inv, Down
<1>6. Phases'
  BY <1>1 DEF Inv, Phases, OnSem
<1>7. Places'
  BY <1>1 DEF Inv, Places
<1>8. Starts'
  BY <1>1, NothingPosted DEF Inv, Starts, Places, Starting
<1>9. IsUp'
  BY <1>1 DEF Inv, IsUp
<1>10. Disabling'
  BY <1>1, NothingPosted DEF Inv, Disabling
<1>11. Exchange'
  BY <1>1 DEF Inv, Exchange
<1> QED BY <1>1, <1>4, <1>5, <1>6, <1>7, <1>8, <1>9, <1>10, <1>11 DEF Alive, Inv

(* recovery_handler starts the application anew. *)
LEMMA RestartKeeps ==
    ASSUME Types, Alive, Inv, Restart PROVE Alive' /\ Inv'
<1>1. /\ recovery = "restart" /\ app' = "start" /\ recovery' = "idle"
      /\ "app" \notin lost' /\ ("recovery" \in lost' => "recovery" \in lost)
      /\ UNCHANGED <<devMgmtSem, currentEventId, isUfaEnabled, mErrorHandlerQueue, queue,
                     mbox, uwb_task_sem, task, uwb_cb, uwa_dm_cb, timer, hal, client,
                     overlap, fault>>
  BY DEF Restart, app, recovery, Waiter, api, timing, low
<1>2. Stack'
  BY <1>1 DEF Inv, Stack, Places, Starting
<1>3. Down'
  BY <1>1 DEF Inv, Down
<1>4. Phases'
  BY <1>1 DEF Inv, Phases, OnSem, Shutting
<1>5. Places'
  BY <1>1 DEF Inv, Places, Starting, Up
<1>6. Starts'
  BY <1>1 DEF Inv, Starts, Places, Starting
<1>7. IsUp'
  BY <1>1 DEF Inv, IsUp, Up
<1>8. Disabling'
  BY <1>1 DEF Inv, Disabling
<1>9. Exchange'
  BY <1>1 DEF Inv, Exchange, Places, Down, Up, Cold
<1> QED BY <1>1, <1>2, <1>3, <1>4, <1>5, <1>6, <1>7, <1>8, <1>9 DEF Alive, Inv

(* The API's callback: it wakes who waits for the event, or nobody. *)
LEMMA Wakes ==
    ASSUME NEW e, Wake(e)
    PROVE  /\ isUfaEnabled' = isUfaEnabled
           /\ devMgmtSem' = Null <=> devMgmtSem = Null
           /\ \/ currentEventId' = currentEventId /\ devMgmtSem' = devMgmtSem
              \/ /\ e = currentEventId \/ e = "timeout"
                 /\ currentEventId' = "default" /\ (devMgmtSem # Null => devMgmtSem' = 1)
BY NullIs DEF Wake

(* The UWB task starts. *)
LEMMA BeginKeeps ==
    ASSUME Types, Alive, Inv, Begin PROVE Alive' /\ Inv'
<1>1. /\ task = "created" /\ task' = "loop" /\ timer' = "off"
      /\ UNCHANGED <<devMgmtSem, currentEventId, isUfaEnabled, mErrorHandlerQueue, queue,
                     mbox, uwb_task_sem, uwa_dm_cb, hal, client, lost, overlap, app,
                     recovery, fault>>
  BY DEF Begin, app, recovery, api, low, ghost
<1>2. Stack'
  BY <1>1 DEF Inv, Stack
<1>3. Down'
  BY <1>1 DEF Inv, Down
<1>4. Phases'
  BY <1>1 DEF Inv, Phases, Shutting
<1>5. Places'
  BY <1>1 DEF Inv, Places
<1>6. Starts'
  BY <1>1 DEF Inv, Starts, Stack
<1>7. IsUp'
  BY <1>1 DEF Inv, IsUp
<1>8. Disabling'
  BY <1>1 DEF Inv, Disabling
<1>9. Exchange'
  BY <1>1 DEF Inv, Exchange, Up, Cold, Stack
<1> QED BY <1>1, <1>2, <1>3, <1>4, <1>5, <1>6, <1>7, <1>8, <1>9 DEF Alive, Inv

(* The crash is logged, and the recovery ready. *)
LEMMA CrashLoggedKeeps ==
    ASSUME Types, Alive, Inv, CrashLogged PROVE Alive' /\ Inv'
<1>1. /\ task = "crash log" /\ task' = "loop"
      /\ (mErrorHandlerQueue' = IF mErrorHandlerQueue < ErrorQueue
                                THEN mErrorHandlerQueue + 1 ELSE mErrorHandlerQueue)
      /\ UNCHANGED <<queue, mbox, uwb_task_sem, uwb_cb, uwa_dm_cb, timer, hal, client, lost,
                     overlap, app, recovery, fault>>
  BY DEF CrashLogged, app, recovery, timing, low, ghost
<1>2. /\ isUfaEnabled' = isUfaEnabled /\ (devMgmtSem' = Null <=> devMgmtSem = Null)
      /\ \/ currentEventId' = currentEventId /\ devMgmtSem' = devMgmtSem
         \/ /\ currentEventId = "device status" /\ currentEventId' = "default"
            /\ (devMgmtSem # Null => devMgmtSem' = 1)
  <2>1. Wake("device status")
    BY DEF CrashLogged
  <2> QED BY <2>1, Wakes
<1>3. mErrorHandlerQueue' # 0
  <2>1. mErrorHandlerQueue \in 0 .. ErrorQueue /\ ErrorQueue \in Nat /\ ErrorQueue # 0
    BY UwbLifecycleAssumption DEF Types
  <2>2. mErrorHandlerQueue' = mErrorHandlerQueue + 1
        \/ (mErrorHandlerQueue' = mErrorHandlerQueue /\ ~(mErrorHandlerQueue < ErrorQueue))
    BY <1>1
  <2> QED BY <2>1, <2>2
<1>4. app \notin Starting
  BY <1>1 DEF Inv, Starts, Starting, Enabling, Registering
<1>5. Stack'
  BY <1>1 DEF Inv, Stack
<1>6. Down'
  BY <1>1, <1>2 DEF Inv, Down
<1>7. Phases'
  BY <1>1, <1>2 DEF Inv, Phases, Shutting
<1>8. Places'
  BY <1>1, <1>2, <1>4 DEF Inv, Places
<1>9. Starts'
  BY <1>1, <1>4 DEF Inv, Starts, Starting
<1>10. IsUp'
  BY <1>1, <1>2 DEF Inv, IsUp
<1>11. Disabling'
  BY <1>1, <1>2 DEF Inv, Disabling
<1>12. Exchange'
  BY <1>1, <1>2, <1>3 DEF Inv, Exchange, Cold
<1> QED BY <1>1, <1>5, <1>6, <1>7, <1>8, <1>9, <1>10, <1>11, <1>12 DEF Alive, Inv

(* phNxpUciHal_close, once the client thread has stopped *)
LEMMA HalClosesKeeps ==
    ASSUME Types, Alive, Inv, HalCloses PROVE Alive' /\ Inv'
<1>1. /\ task = "close hal" /\ hal = "client stopped" /\ task' = "loop" /\ hal' = "closed"
      /\ client' = << >>
      /\ UNCHANGED <<devMgmtSem, currentEventId, isUfaEnabled, mErrorHandlerQueue, queue,
                     mbox, uwb_task_sem, uwb_cb, uwa_dm_cb, timer, lost, overlap, app,
                     recovery, fault>>
  BY DEF HalCloses, app, recovery, api, timing, ghost
<1>2. app \notin Starting
  BY <1>1 DEF Inv, Starts, Starting, Enabling, Registering
<1>3. Stack'
  BY <1>1 DEF Inv, Stack
<1>4. Down'
  BY <1>1 DEF Inv, Down
<1>5. Phases'
  BY <1>1 DEF Inv, Phases, Shutting
<1>6. Places'
  BY <1>1 DEF Inv, Places
<1>7. Starts'
  BY <1>1, <1>2 DEF Inv, Starts, Starting
<1>8. IsUp'
  BY <1>1 DEF Inv, IsUp
<1>9. Disabling'
  BY <1>1 DEF Inv, Disabling
<1>10. Exchange'
  BY <1>1 DEF Inv, Exchange, Cold, IsUp
<1> QED BY <1>1, <1>3, <1>4, <1>5, <1>6, <1>7, <1>8, <1>9, <1>10 DEF Alive, Inv

(* While the stack is starting, nothing but its own three messages is taken. *)
LEMMA NotStarting ==
    ASSUME Inv, NEW e \in Event, Has(mbox, e), e \notin {"enable", "ready", "register"}
    PROVE  app \notin Starting
<1>1. ASSUME app = "created" PROVE FALSE
  BY <1>1, NothingPosted DEF Inv, Starts
<1>2. ASSUME app = "enable wait" PROVE FALSE
  <2>1. mbox = << >> \/ mbox = <<"enable">> \/ mbox = <<"ready">>
    BY <1>2 DEF Inv, Starts, Enabling
  <2> QED BY <2>1, NothingPosted, OneMessage
<1>3. ASSUME app = "register wait" PROVE FALSE
  <2>1. mbox = << >> \/ mbox = <<"register">>
    BY <1>3 DEF Inv, Starts, Registering
  <2> QED BY <2>1, NothingPosted, OneMessage
<1> QED BY <1>1, <1>2, <1>3 DEF Starting

(* A command goes out. *)
LEMMA TakesCmdKeeps ==
    ASSUME Types, Alive, Inv, TakesCmd PROVE Alive' /\ Inv'
<1>1. /\ timer' = "on"
      /\ UNCHANGED <<devMgmtSem, currentEventId, isUfaEnabled>>
      /\ UNCHANGED <<mErrorHandlerQueue, queue, uwb_task_sem, task, uwb_cb, uwa_dm_cb, hal,
                     client, lost, overlap, app, recovery, fault>>
  BY Taken DEF Types, TakesCmd, api, low
<1>2. /\ Removed(mbox, mbox', "cmd") /\ RemovedOrder(mbox, mbox', "cmd")
      /\ Has(mbox, "cmd") /\ task = "loop"
  BY Taken DEF Types, Removed, TakesCmd
<1>3. app \notin Starting
  BY <1>2, NotStarting, Values
<1>4. Stack'
  BY <1>1 DEF Inv, Stack
<1>5. Down'
  BY <1>1, <1>2 DEF Inv, Down, Stack
<1>6. Phases'
  BY <1>1, <1>2 DEF Inv, Phases, Shutting, Removed, RemovedOrder
<1>7. Places'
  BY <1>1 DEF Inv, Places
<1>8. Starts'
  BY <1>1, <1>2, <1>3 DEF Inv, Starts, Starting, Removed
<1>9. IsUp'
  BY <1>1, <1>2 DEF Inv, IsUp, Removed
<1>10. Disabling'
  BY <1>1, <1>2 DEF Inv, Disabling, Removed
<1>11. Exchange'
  BY <1>1, <1>2 DEF Inv, Exchange, Cold, Removed, RemovedOrder
<1> QED BY <1>1, <1>4, <1>5, <1>6, <1>7, <1>8, <1>9, <1>10, <1>11 DEF Alive, Inv

(* A response: the wait ends, unless it was late. *)
LEMMA TakesRspKeeps ==
    ASSUME Types, Alive, Inv, TakesRsp PROVE Alive' /\ Inv'
<1>1. /\ timer' = "off"
      /\ UNCHANGED <<mErrorHandlerQueue, queue, uwb_task_sem, task, uwb_cb, uwa_dm_cb, hal,
                     client, lost, overlap, app, recovery, fault>>
  BY Taken DEF Types, TakesRsp, low
<1>2. /\ Removed(mbox, mbox', "rsp") /\ RemovedOrder(mbox, mbox', "rsp")
      /\ Has(mbox, "rsp") /\ task = "loop"
  BY Taken DEF Types, Removed, TakesRsp
<1>3. app \notin Starting
  BY <1>2, NotStarting, Values
<1>4. /\ isUfaEnabled' = isUfaEnabled /\ (devMgmtSem' = Null <=> devMgmtSem = Null)
      /\ \/ currentEventId' = currentEventId /\ devMgmtSem' = devMgmtSem
         \/ /\ currentEventId = "rsp" /\ currentEventId' = "default"
            /\ (devMgmtSem # Null => devMgmtSem' = 1)
  <2>1. Wake("rsp") \/ UNCHANGED <<devMgmtSem, currentEventId, isUfaEnabled>>
    BY DEF TakesRsp, api
  <2> QED BY <2>1, Wakes
<1>5. Stack'
  BY <1>1 DEF Inv, Stack
<1>6. Down'
  BY <1>1, <1>4 DEF Inv, Down
<1>7. Phases'
  BY <1>1, <1>2, <1>4 DEF Inv, Phases, Shutting, Removed, RemovedOrder
<1>8. Places'
  BY <1>1, <1>4 DEF Inv, Places
<1>9. Starts'
  BY <1>1, <1>2, <1>3 DEF Inv, Starts, Starting, Removed
<1>10. IsUp'
  BY <1>1, <1>2, <1>4 DEF Inv, IsUp, Removed
<1>11. Disabling'
  BY <1>1, <1>2, <1>4 DEF Inv, Disabling, Removed
<1>12. Exchange'
  BY <1>1, <1>2, <1>4 DEF Inv, Exchange, Up, Cold, Removed, RemovedOrder
<1> QED BY <1>1, <1>5, <1>6, <1>7, <1>8, <1>9, <1>10, <1>11, <1>12 DEF Alive, Inv

(* A time-out: the command goes out again, or the wait ends. *)
LEMMA TakesTimeoutKeeps ==
    ASSUME Types, Alive, Inv, TakesTimeout PROVE Alive' /\ Inv'
<1>1. /\ \/ timer # "off" /\ timer' = "on" /\ UNCHANGED <<devMgmtSem, currentEventId>>
         \/ timer' = "off"
      /\ UNCHANGED <<mErrorHandlerQueue, queue, uwb_task_sem, task, uwb_cb, uwa_dm_cb, hal,
                     client, lost, overlap, app, recovery, fault>>
  BY Taken DEF Types, TakesTimeout, api, low
<1>2. /\ Removed(mbox, mbox', "timeout") /\ RemovedOrder(mbox, mbox', "timeout")
      /\ Has(mbox, "timeout") /\ task = "loop"
  BY Taken DEF Types, Removed, TakesTimeout
<1>3. app \notin Starting
  BY <1>2, NotStarting, Values
<1>4. /\ isUfaEnabled' = isUfaEnabled /\ (devMgmtSem' = Null <=> devMgmtSem = Null)
      /\ \/ currentEventId' = currentEventId /\ devMgmtSem' = devMgmtSem
         \/ currentEventId' = "default" /\ (devMgmtSem # Null => devMgmtSem' = 1)
  <2>1. Wake("timeout") \/ UNCHANGED <<devMgmtSem, currentEventId, isUfaEnabled>>
    BY DEF TakesTimeout, api
  <2> QED BY <2>1, Wakes
<1>5. Stack'
  BY <1>1 DEF Inv, Stack
<1>6. Down'
  BY <1>1, <1>2 DEF Inv, Down, Stack
<1>7. Phases'
  BY <1>1, <1>2, <1>4 DEF Inv, Phases, Shutting, Removed, RemovedOrder
<1>8. Places'
  BY <1>1, <1>4 DEF Inv, Places
<1>9. Starts'
  BY <1>1, <1>2, <1>3 DEF Inv, Starts, Starting, Removed
<1>10. IsUp'
  BY <1>1, <1>2, <1>4 DEF Inv, IsUp, Removed
<1>11. Disabling'
  BY <1>1, <1>2, <1>4 DEF Inv, Disabling, Removed
<1>12. Exchange'
  BY <1>1, <1>2, <1>4 DEF Inv, Exchange, Up, Cold, Removed, RemovedOrder
<1> QED BY <1>1, <1>5, <1>6, <1>7, <1>8, <1>9, <1>10, <1>11, <1>12 DEF Alive, Inv

(* The controller has crashed. *)
LEMMA TakesCrashKeeps ==
    ASSUME Types, Alive, Inv, TakesCrash PROVE Alive' /\ Inv'
<1>1. /\ timer' = "off" /\ task' = "crash log"
      /\ UNCHANGED <<devMgmtSem, currentEventId, isUfaEnabled>>
      /\ UNCHANGED <<mErrorHandlerQueue, queue, uwb_task_sem, uwb_cb, uwa_dm_cb, hal,
                     client, lost, overlap, app, recovery, fault>>
  BY Taken DEF Types, TakesCrash, api, low
<1>2. /\ Removed(mbox, mbox', "crash") /\ RemovedOrder(mbox, mbox', "crash")
      /\ Has(mbox, "crash") /\ task = "loop"
  BY Taken DEF Types, Removed, TakesCrash
<1>3. app \notin Starting
  BY <1>2, NotStarting, Values
<1>4. Stack'
  BY <1>1, <1>2 DEF Inv, Stack
<1>5. Down'
  BY <1>1 DEF Inv, Down
<1>6. Phases'
  BY <1>1, <1>2 DEF Inv, Phases, Shutting, Removed, RemovedOrder
<1>7. Places'
  BY <1>1 DEF Inv, Places
<1>8. Starts'
  BY <1>1, <1>2, <1>3 DEF Inv, Starts, Starting, Removed
<1>9. IsUp'
  BY <1>1, <1>2 DEF Inv, IsUp, Removed
<1>10. Disabling'
  BY <1>1, <1>2 DEF Inv, Disabling, Removed
<1>11. Exchange'
  BY <1>1, <1>2 DEF Inv, Exchange, Cold, Removed, RemovedOrder
<1> QED BY <1>1, <1>4, <1>5, <1>6, <1>7, <1>8, <1>9, <1>10, <1>11 DEF Alive, Inv

(* The UWB task ends, with the HAL closed and the quick timer stopped. *)
LEMMA TakesShutdownKeeps ==
    ASSUME Types, Alive, Inv, TakesShutdown PROVE Alive' /\ Inv'
<1>1. /\ uwb_task_sem' = 1 /\ task' = "ended"
      /\ UNCHANGED <<devMgmtSem, currentEventId, isUfaEnabled>>
      /\ UNCHANGED <<mErrorHandlerQueue, queue, uwb_cb, uwa_dm_cb, timer, hal, client, lost,
                     overlap, app, recovery, fault>>
  BY Taken DEF Types, TakesShutdown, api, timing, low
<1>2. /\ Removed(mbox, mbox', "shutdown") /\ RemovedOrder(mbox, mbox', "shutdown")
      /\ Has(mbox, "shutdown") /\ task = "loop"
  BY Taken DEF Types, Removed, TakesShutdown
<1>3. app \notin Starting
  BY <1>2, NotStarting, Values
<1>4. devMgmtSem = Null /\ Shutting /\ hal = "closed" /\ timer = "off"
  <2>1. devMgmtSem = Null /\ Shutting
    BY <1>2 DEF Inv, Phases, Stack
  <2>2. hal # "open" /\ timer = "off"
    BY <1>2, <2>1 DEF Shutting, RemovedOrder
  <2> QED BY <1>2, <2>1, <2>2 DEF Types, HalIs, Inv, Stack
<1>5. Stack'
  BY <1>1, <1>2 DEF Inv, Stack
<1>6. Down'
  BY <1>1, <1>4 DEF Inv, Down
<1>7. Phases'
  BY <1>1, <1>4 DEF Inv, Phases
<1>8. Places'
  BY <1>1 DEF Inv, Places
<1>9. Starts'
  BY <1>1, <1>2, <1>3 DEF Inv, Starts, Starting, Removed
<1>10. IsUp'
  BY <1>1, <1>4 DEF Inv, IsUp
<1>11. Disabling'
  BY <1>1, <1>2 DEF Inv, Disabling, Removed
<1>12. Exchange'
  BY <1>1, <1>4 DEF Inv, Exchange
<1> QED BY <1>1, <1>5, <1>6, <1>7, <1>8, <1>9, <1>10, <1>11, <1>12 DEF Alive, Inv

(* The HAL is closed: the disable is over. *)
LEMMA TakesClosedKeeps ==
    ASSUME Types, Alive, Inv, TakesClosed PROVE Alive' /\ Inv'
<1>1. UNCHANGED <<mErrorHandlerQueue, queue, uwb_task_sem, task, timer, hal, client, lost,
            overlap, app, recovery, fault>>
  BY Taken DEF Types, TakesClosed, timing, low
<1>2. /\ Removed(mbox, mbox', "closed") /\ RemovedOrder(mbox, mbox', "closed")
      /\ Has(mbox, "closed") /\ task = "loop"
  BY Taken DEF Types, Removed, TakesClosed
<1>3. app \notin Starting
  BY <1>2, NotStarting, Values
<1>4. queue = "live" /\ hal # "open" /\ app # "created"
  BY <1>2, <1>3 DEF Inv, Stack, Disabling, Starting
<1>5. uwa_dm_cb.p_dm_rsp_cback => uwb_cb.uwb_state = "wait close"
  <2>1. uwb_cb.uwb_state \in {"none", "wait open", "idle", "wait close"}
    BY DEF Types, UwbCb
  <2> QED BY <1>4, <2>1 DEF Inv, Stack
<1>6. /\ isUfaEnabled' = isUfaEnabled /\ (devMgmtSem' = Null <=> devMgmtSem = Null)
      /\ \/ currentEventId' = currentEventId /\ devMgmtSem' = devMgmtSem
         \/ /\ currentEventId = "disable" /\ currentEventId' = "default"
            /\ (devMgmtSem # Null => devMgmtSem' = 1)
  <2>1. Wake("disable") \/ UNCHANGED <<devMgmtSem, currentEventId, isUfaEnabled>>
    BY <1>5 DEF TakesClosed, api
  <2> QED BY <2>1, Wakes
<1>7. /\ uwb_cb.uwb_state = "none" <=> ~uwa_dm_cb.p_dm_rsp_cback
      /\ uwb_cb'.uwb_state = "none" <=> ~uwa_dm_cb'.p_dm_rsp_cback
      /\ uwb_cb'.uwb_state \notin {"wait open", "idle"}
  <2>1. /\ uwb_cb.uwb_state = "none" <=> ~uwa_dm_cb.p_dm_rsp_cback
        /\ uwb_cb.uwb_state \notin {"wait open", "idle"}
    BY <1>4 DEF Inv, Stack
  <2>2. CASE uwa_dm_cb.p_dm_rsp_cback
    <3>1. uwb_cb' = [uwb_cb EXCEPT !.uwb_state = "none"] /\ uwa_dm_cb' = NoApp
      BY <1>5, <2>2 DEF TakesClosed
    <3> QED BY <2>1, <3>1 DEF NoApp, Types, UwbCb
  <2>3. CASE ~uwa_dm_cb.p_dm_rsp_cback
    <3>1. uwb_cb' = uwb_cb /\ uwa_dm_cb' = uwa_dm_cb
      BY <2>3 DEF TakesClosed
    <3> QED BY <2>1, <3>1
  <2> QED BY <2>2, <2>3
<1>8. Stack'
  BY <1>1, <1>5, <1>7 DEF Inv, Stack
<1>9. Down'
  BY <1>1, <1>6 DEF Inv, Down
<1>10. Phases'
  BY <1>1, <1>2, <1>6 DEF Inv, Phases, Shutting, Removed, RemovedOrder
<1>11. Places'
  BY <1>1, <1>6 DEF Inv, Places
<1>12. Starts'
  BY <1>1, <1>2, <1>3 DEF Inv, Starts, Starting, Removed
<1>13. IsUp'
  BY <1>1, <1>5, <1>7 DEF Inv, IsUp
<1>14. Disabling'
  BY <1>1, <1>2 DEF Inv, Disabling, Removed
<1>15. Exchange'
  <2> SUFFICES ASSUME devMgmtSem # Null PROVE Exchange'
    BY <1>6 DEF Exchange
  <2>1. ~(app \in Up /\ recovery = "idle")
    BY <1>2 DEF Inv, IsUp
  <2>2. \A x : x # "closed" => (Has(mbox', x) <=> Has(mbox, x))
    BY <1>2 DEF Removed
  <2>3. Cold => Cold'
    BY <1>1, <1>2, <2>2 DEF Cold, RemovedOrder
  <2>4. currentEventId' = "disable" \/ (recovery = "disable wait" /\ devMgmtSem' = 1) => Cold'
    BY <1>6, <2>3 DEF Inv, Exchange
  <2>5. Single(mbox, "cmd") => Single(mbox', "cmd")
    BY <1>2 DEF Removed
  <2> QED BY <1>1, <1>6, <2>1, <2>2, <2>4, <2>5 DEF Inv, Exchange
<1> QED BY <1>1, <1>8, <1>9, <1>10, <1>11, <1>12, <1>13, <1>14, <1>15 DEF Alive, Inv

(* The registration *)
LEMMA TakesRegisterKeeps ==
    ASSUME Types, Alive, Inv, TakesRegister PROVE Alive' /\ Inv'
<1>1. UNCHANGED <<mErrorHandlerQueue, queue, uwb_task_sem, task, uwb_cb, uwa_dm_cb, timer, hal,
            client, lost, overlap, app, recovery, fault>>
  BY Taken DEF Types, TakesRegister, timing, low
<1>2. /\ Removed(mbox, mbox', "register") /\ RemovedOrder(mbox, mbox', "register")
      /\ Has(mbox, "register") /\ task = "loop"
  BY Taken DEF Types, Removed, TakesRegister
<1>3. /\ app = "register wait" /\ mbox' = << >> /\ devMgmtSem = 0
      /\ currentEventId = "register" /\ timer = "off"
      /\ hal = "open" /\ uwb_cb.p_hal /\ uwb_cb.uwb_state = "idle" /\ uwa_dm_cb.active
      /\ recovery = "idle" /\ devMgmtSem # Null /\ ~isUfaEnabled
  <2>1. app = "register wait"
    <3>1. app \in {"enable wait", "register wait"}
      BY <1>2 DEF Inv, Starts
    <3>2. ASSUME app = "enable wait" PROVE FALSE
      <4>1. mbox \in {<< >>, <<"enable">>, <<"ready">>}
        BY <3>2 DEF Inv, Starts, Enabling
      <4> QED BY <1>2, <4>1, NothingPosted, OneMessage
    <3> QED BY <3>1, <3>2
  <2>2. mbox = <<"register">>
    <3>1. mbox \in {<< >>, <<"register">>}
      BY <2>1 DEF Inv, Starts, Registering
    <3> QED BY <1>2, <3>1, NothingPosted
  <2>3. mbox' = << >> /\ \A x : Has(mbox, x) <=> x = "register"
    BY <1>2, <2>2, OneMessage DEF Removed
  <2>4. Registering /\ recovery = "idle" /\ devMgmtSem # Null /\ ~isUfaEnabled
    BY <2>1 DEF Inv, Starts, Places, Starting
  <2> QED BY <2>1, <2>3, <2>4, NothingPosted DEF Registering, Inv, Stack, Exchange
<1>4. devMgmtSem' = 1 /\ currentEventId' = "default" /\ isUfaEnabled' = isUfaEnabled
  <2>1. Wake("register")
    BY <1>3 DEF TakesRegister
  <2> QED BY <1>3, <2>1 DEF Wake
<1>5. Stack'
  BY <1>1 DEF Inv, Stack
<1>6. Down'
  BY <1>1, <1>3 DEF Inv, Down
<1>7. Phases'
  BY <1>1, <1>3, <1>4, NullIs, NothingPosted DEF Inv, Phases
<1>8. Places'
  BY <1>1, <1>4, NullIs DEF Inv, Places
<1>9. Starts'
  BY <1>1, <1>3, <1>4 DEF Inv, Starts, Registering
<1>10. IsUp'
  BY <1>1, <1>3 DEF Inv, IsUp, Up
<1>11. Disabling'
  BY <1>1, <1>3, NothingPosted DEF Inv, Disabling
<1>12. Exchange'
  BY <1>1, <1>3, NothingPosted DEF Inv, Exchange, Up, Cold
<1> QED BY <1>1, <1>5, <1>6, <1>7, <1>8, <1>9, <1>10, <1>11, <1>12 DEF Alive, Inv

(* The HAL is open. *)
LEMMA TakesReadyKeeps ==
    ASSUME Types, Alive, Inv, TakesReady PROVE Alive' /\ Inv'
<1>1. /\ uwb_cb' = [uwb_cb EXCEPT !.uwb_state = "idle"]
      /\ uwa_dm_cb' = [uwa_dm_cb EXCEPT !.active = TRUE]
      /\ UNCHANGED <<mErrorHandlerQueue, queue, uwb_task_sem, task, timer, hal, client,
                     lost, overlap, app, recovery>>
  BY Taken DEF Types, TakesReady, timing, low
<1>2. /\ Removed(mbox, mbox', "ready") /\ RemovedOrder(mbox, mbox', "ready")
      /\ Has(mbox, "ready") /\ task = "loop"
  BY Taken DEF Types, Removed, TakesReady
<1>3. /\ app = "enable wait" /\ mbox' = << >> /\ devMgmtSem = 0
      /\ currentEventId = "enable" /\ timer = "off"
      /\ hal = "open" /\ client = << >> /\ uwb_cb.p_hal /\ uwb_cb.uwb_state = "wait open"
      /\ recovery = "idle" /\ devMgmtSem # Null /\ ~isUfaEnabled
  <2>1. app = "enable wait"
    <3>1. app \in {"enable wait", "register wait"}
      BY <1>2 DEF Inv, Starts
    <3>2. ASSUME app = "register wait" PROVE FALSE
      <4>1. mbox \in {<< >>, <<"register">>}
        BY <3>2 DEF Inv, Starts, Registering
      <4> QED BY <1>2, <4>1, NothingPosted, OneMessage
    <3> QED BY <3>1, <3>2
  <2>2. mbox = <<"ready">>
    <3>1. mbox \in {<< >>, <<"enable">>, <<"ready">>}
      BY <2>1 DEF Inv, Starts, Enabling
    <3> QED BY <1>2, <3>1, NothingPosted, OneMessage
  <2>3. mbox' = << >> /\ \A x : Has(mbox, x) <=> x = "ready"
    BY <1>2, <2>2, OneMessage DEF Removed
  <2>4. Enabling /\ recovery = "idle" /\ devMgmtSem # Null /\ ~isUfaEnabled
    BY <2>1 DEF Inv, Starts, Places, Starting
  <2> QED BY <2>1, <2>2, <2>3, <2>4 DEF Enabling, Inv, Stack, Exchange
<1>4. devMgmtSem' = 1 /\ currentEventId' = "default" /\ isUfaEnabled' = isUfaEnabled
  <2>1. Wake("enable")
    BY DEF TakesReady
  <2> QED BY <1>3, <2>1 DEF Wake
<1>5. uwa_dm_cb.p_dm_rsp_cback /\ fault' = fault
  <2>1. uwa_dm_cb.p_dm_rsp_cback
    BY <1>2, <1>3 DEF Inv, Stack
  <2> QED BY <2>1 DEF TakesReady, Through
<1>6. /\ uwb_cb'.p_hal /\ uwb_cb'.uwb_state = "idle" /\ uwa_dm_cb'.active
      /\ uwa_dm_cb'.p_dm_rsp_cback = uwa_dm_cb.p_dm_rsp_cback
  BY <1>1, <1>3 DEF Types, UwbCb, UwaDmCb
<1>7. Stack'
  BY <1>1, <1>3, <1>6 DEF Inv, Stack
<1>8. Down'
  BY <1>1, <1>3 DEF Inv, Down
<1>9. Phases'
  BY <1>1, <1>3, <1>4, NullIs, NothingPosted DEF Inv, Phases
<1>10. Places'
  BY <1>1, <1>4, NullIs DEF Inv, Places
<1>11. Starts'
  BY <1>1, <1>3, <1>4, <1>6 DEF Inv, Starts, Enabling
<1>12. IsUp'
  BY <1>1, <1>3 DEF Inv, IsUp
<1>13. Disabling'
  BY <1>1, <1>3, NothingPosted DEF Inv, Disabling
<1>14. Exchange'
  BY <1>1, <1>3, NothingPosted DEF Inv, Exchange, Up, Cold
<1> QED BY <1>5, <1>7, <1>8, <1>9, <1>10, <1>11, <1>12, <1>13, <1>14 DEF Alive, Inv

(* uwa_dm_enable opens the HAL. *)
LEMMA TakesEnableKeeps ==
    ASSUME Types, Alive, Inv, TakesEnable PROVE Alive' /\ Inv'
<1>1. UNCHANGED <<mErrorHandlerQueue, queue, uwb_task_sem, task, timer, lost, overlap, app,
            recovery>>
  BY Taken DEF Types, TakesEnable, timing
<1>2. /\ Removed(mbox, mbox', "enable") /\ RemovedOrder(mbox, mbox', "enable")
      /\ Has(mbox, "enable") /\ task = "loop"
  BY Taken DEF Types, Removed, TakesEnable
<1>3. /\ app = "enable wait" /\ mbox' = << >> /\ devMgmtSem = 0
      /\ currentEventId = "enable" /\ timer = "off"
      /\ hal = "closed" /\ uwb_cb.p_hal /\ ~uwa_dm_cb.active
      /\ recovery = "idle" /\ devMgmtSem # Null /\ ~isUfaEnabled
  <2>1. app = "enable wait"
    <3>1. app \in {"enable wait", "register wait"}
      BY <1>2 DEF Inv, Starts
    <3>2. ASSUME app = "register wait" PROVE FALSE
      <4>1. mbox \in {<< >>, <<"register">>}
        BY <3>2 DEF Inv, Starts, Registering
      <4> QED BY <1>2, <4>1, NothingPosted, OneMessage
    <3> QED BY <3>1, <3>2
  <2>2. mbox = <<"enable">>
    <3>1. mbox \in {<< >>, <<"enable">>, <<"ready">>}
      BY <2>1 DEF Inv, Starts, Enabling
    <3> QED BY <1>2, <3>1, NothingPosted, OneMessage
  <2>3. mbox' = << >> /\ \A x : Has(mbox, x) <=> x = "enable"
    BY <1>2, <2>2, OneMessage DEF Removed
  <2>4. Enabling /\ recovery = "idle" /\ devMgmtSem # Null /\ ~isUfaEnabled
    BY <2>1 DEF Inv, Starts, Places, Starting
  <2> QED BY <2>1, <2>2, <2>3, <2>4 DEF Enabling, Inv, Stack, Exchange
<1>4. /\ UNCHANGED <<devMgmtSem, currentEventId, isUfaEnabled, fault>>
      /\ hal' = "open" /\ client' = <<"open">>
      /\ uwa_dm_cb' = [uwa_dm_cb EXCEPT !.p_dm_rsp_cback = TRUE]
      /\ uwb_cb' = [uwb_cb EXCEPT !.uwb_state = "wait open"]
  BY <1>3 DEF TakesEnable, Through, api
<1>5. /\ uwb_cb'.p_hal /\ uwb_cb'.uwb_state = "wait open" /\ uwa_dm_cb'.p_dm_rsp_cback
      /\ <<"open">> # << >> /\ <<"open">> # <<"close">>
  BY <1>3, <1>4 DEF Types, UwbCb, UwaDmCb
<1>6. Stack'
  BY <1>1, <1>3, <1>4, <1>5 DEF Inv, Stack
<1>7. Down'
  BY <1>1, <1>2, <1>3 DEF Inv, Down
<1>8. Phases'
  BY <1>1, <1>3, <1>4, NothingPosted DEF Inv, Phases
<1>9. Places'
  BY <1>1, <1>4 DEF Inv, Places
<1>10. Starts'
  BY <1>1, <1>3, <1>4, <1>5 DEF Inv, Starts, Enabling
<1>11. IsUp'
  BY <1>1, <1>3 DEF Inv, IsUp
<1>12. Disabling'
  BY <1>1, <1>3, NothingPosted DEF Inv, Disabling
<1>13. Exchange'
  BY <1>1, <1>3, NothingPosted DEF Inv, Exchange, Up, Cold
<1> QED BY <1>4, <1>6, <1>7, <1>8, <1>9, <1>10, <1>11, <1>12, <1>13 DEF Alive, Inv

(* The quick timer fires: its handle still leads to a queue. *)
LEMMA TimerFiresKeeps ==
    ASSUME Types, Alive, Inv, TimerFires PROVE Alive' /\ Inv'
<1>1. /\ timer = "on" /\ timer' = "fired"
      /\ UNCHANGED <<devMgmtSem, currentEventId, isUfaEnabled, mErrorHandlerQueue, queue,
                     uwb_task_sem, task, uwb_cb, uwa_dm_cb, hal, client, lost, overlap, app,
                     recovery>>
  BY DEF TimerFires, app, recovery, api, low, ghost
<1>2. queue = "live"
  BY <1>1 DEF Inv, Down
<1>3. fault' = fault /\ Added(mbox, mbox', "timeout") /\ AddedOrder(mbox, mbox', "timeout")
  BY <1>2, Posts, Values DEF Types, TimerFires
<1>4. Stack'
  BY <1>1 DEF Inv, Stack
<1>5. Down'
  BY <1>1 DEF Inv, Down
<1>6. Phases'
  BY <1>1, <1>3 DEF Inv, Phases, Added, AddedOrder, Shutting
<1>7. Places'
  BY <1>1 DEF Inv, Places
<1>8. Starts'
  BY <1>1, <1>3 DEF Inv, Starts, Added, Starting, Places, Exchange
<1>9. IsUp'
  BY <1>1, <1>3 DEF Inv, IsUp, Added
<1>10. Disabling'
  BY <1>1, <1>3 DEF Inv, Disabling, Added
<1>11. Exchange'
  BY <1>1, <1>3 DEF Inv, Exchange, Added, AddedOrder, Cold
<1> QED BY <1>3, <1>4, <1>5, <1>6, <1>7, <1>8, <1>9, <1>10, <1>11 DEF Alive, Inv

(* The client thread stops. *)
LEMMA ClientClosesKeeps ==
    ASSUME Types, Alive, Inv, ClientCloses PROVE Alive' /\ Inv'
<1>1. /\ client # << >> /\ Head(client) = "close" /\ hal \in {"open", "closing"}
      /\ client' = Tail(client)
      /\ hal' = "client stopped"
      /\ UNCHANGED <<devMgmtSem, currentEventId, isUfaEnabled, mErrorHandlerQueue, queue,
                     uwb_task_sem, task, uwb_cb, uwa_dm_cb, timer, lost, overlap, app,
                     recovery>>
  BY DEF ClientCloses, ClientTakes, app, recovery, api, timing, ghost
<1>2. client = <<"close">> /\ hal = "closing" /\ task = "close hal" /\ client' = << >>
  <2>1. <<"open">>[1] = "open" /\ Head(<<"open">>) = "open" /\ Tail(<<"close">>) = << >>
    OBVIOUS
  <2> QED BY <1>1, <2>1 DEF Inv, Stack
<1>3. <<"close">> # << >> /\ <<"open">> # << >>
  OBVIOUS
<1>4. queue = "live"
  BY <1>2 DEF Inv, Stack
<1>5. fault' = fault /\ Added(mbox, mbox', "closed") /\ AddedOrder(mbox, mbox', "closed")
  BY <1>4, Posts, Values DEF Types, ClientCloses
<1>6. Stack'
  BY <1>1, <1>2, <1>3 DEF Inv, Stack
<1>7. Down'
  BY <1>1 DEF Inv, Down
<1>8. Phases'
  BY <1>1, <1>5 DEF Inv, Phases, Added, AddedOrder, Shutting
<1>9. Places'
  BY <1>1 DEF Inv, Places
<1>10. Starts'
  BY <1>1, <1>2, <1>5 DEF Inv, Starts, Added, Enabling, Registering
<1>11. IsUp'
  BY <1>1, <1>2 DEF Inv, IsUp
<1>12. Disabling'
  BY <1>1, <1>2, <1>5 DEF Inv, Disabling, Added
<1>13. Exchange'
  BY <1>1, <1>2, <1>5 DEF Inv, Exchange, Added, AddedOrder, Cold
<1> QED BY <1>5, <1>6, <1>7, <1>8, <1>9, <1>10, <1>11, <1>12, <1>13 DEF Alive, Inv

(* The HAL is open, and uwb_main_hal_cback says so. *)
LEMMA ClientOpensKeeps ==
    ASSUME Types, Alive, Inv, ClientOpens PROVE Alive' /\ Inv'
<1>1. /\ client # << >> /\ Head(client) = "open" /\ hal \in {"open", "closing"}
      /\ client' = Tail(client)
      /\ UNCHANGED <<devMgmtSem, currentEventId, isUfaEnabled, mErrorHandlerQueue, queue,
                     uwb_task_sem, task, uwb_cb, uwa_dm_cb, timer, hal, lost, overlap, app,
                     recovery>>
  BY DEF ClientOpens, ClientTakes, app, recovery, api, timing, ghost
<1>2. client = <<"open">> /\ app = "enable wait" /\ hal = "open" /\ client' = << >>
  <2>1. Head(<<"close">>) = "close" /\ Tail(<<"open">>) = << >>
    OBVIOUS
  <2> QED BY <1>1, <2>1 DEF Inv, Stack
<1>3. /\ mbox = << >> /\ uwb_cb.uwb_state = "wait open" /\ task = "loop" /\ queue = "live"
      /\ devMgmtSem = 0 /\ devMgmtSem # Null /\ recovery = "idle"
  <2>1. Enabling
    BY <1>2 DEF Inv, Starts
  <2> QED BY <1>2, <2>1 DEF Enabling, Inv, Stack, Places, Starting
<1>4. <<"close">> # << >> /\ <<"open">> # << >>
  OBVIOUS
<1>5. fault' = fault /\ Added(mbox, mbox', "ready") /\ AddedOrder(mbox, mbox', "ready")
  BY <1>3, Posts, Values DEF Types, ClientOpens
<1>6. Stack'
  BY <1>1, <1>2, <1>4 DEF Inv, Stack
<1>7. Down'
  BY <1>1 DEF Inv, Down
<1>8. Phases'
  BY <1>1, <1>5 DEF Inv, Phases, Added, AddedOrder, Shutting
<1>9. Places'
  BY <1>1 DEF Inv, Places
<1>10. Starts'
  BY <1>1, <1>2, <1>5 DEF Inv, Starts, Added, Enabling
<1>11. IsUp'
  BY <1>1, <1>5 DEF Inv, IsUp, Added
<1>12. Disabling'
  BY <1>1, <1>5 DEF Inv, Disabling, Added
<1>13. Exchange'
  BY <1>1, <1>3, <1>5 DEF Inv, Exchange, Added, AddedOrder, Cold
<1> QED BY <1>5, <1>6, <1>7, <1>8, <1>9, <1>10, <1>11, <1>12, <1>13 DEF Alive, Inv

(* A response of the controller *)
LEMMA RspArrivesKeeps ==
    ASSUME Types, Alive, Inv, RspArrives PROVE Alive' /\ Inv'
<1>1. /\ /\ hal = "open" /\ client = << >> /\ uwb_cb.uwb_state = "idle"
      /\ timer # "off"
      /\ UNCHANGED <<devMgmtSem, currentEventId, isUfaEnabled, mErrorHandlerQueue, queue,
                     uwb_task_sem, task, uwb_cb, uwa_dm_cb, timer, hal, client, lost,
                     overlap, app, recovery>>
  BY DEF RspArrives, Packet, app, recovery, api, timing, low, ghost
<1>2. /\ TaskBlocks /\ ~Ready("app") /\ task # "created" /\ app \notin {"start", "created"}
  BY DEF RspArrives, Packet, ClientRuns, Ready, TaskBlocks, app
<1>3. queue = "live"
  BY <1>1 DEF Inv, Down
<1>4. fault' = fault /\ Added(mbox, mbox', "rsp") /\ AddedOrder(mbox, mbox', "rsp")
  BY <1>3, Posts, Values DEF Types, RspArrives, Packet
<1>5. Stack'
  BY <1>1 DEF Inv, Stack
<1>6. Down'
  BY <1>1 DEF Inv, Down
<1>7. Phases'
  BY <1>1, <1>4 DEF Inv, Phases, Added, AddedOrder, Shutting
<1>8. Places'
  BY <1>1 DEF Inv, Places
<1>9. Starts'
  BY <1>1, <1>4 DEF Inv, Starts, Added, Starting, Places, Exchange
<1>10. IsUp'
  BY <1>1, <1>4 DEF Inv, IsUp, Added
<1>11. Disabling'
  BY <1>1, <1>4 DEF Inv, Disabling, Added
<1>12. Exchange'
  BY <1>1, <1>2, <1>4 DEF Inv, Exchange, Added, AddedOrder, Cold, TaskBlocks
<1> QED BY <1>4, <1>5, <1>6, <1>7, <1>8, <1>9, <1>10, <1>11, <1>12 DEF Alive, Inv

(* Status ERROR of the controller *)
LEMMA CrashArrivesKeeps ==
    ASSUME Types, Alive, Inv, CrashArrives PROVE Alive' /\ Inv'
<1>1. /\ /\ hal = "open" /\ client = << >> /\ uwb_cb.uwb_state = "idle"
      /\ isUfaEnabled
      /\ UNCHANGED <<devMgmtSem, currentEventId, isUfaEnabled, mErrorHandlerQueue, queue,
                     uwb_task_sem, task, uwb_cb, uwa_dm_cb, timer, hal, client, lost,
                     overlap, app, recovery>>
  BY DEF CrashArrives, Packet, app, recovery, api, timing, low, ghost
<1>2. /\ TaskBlocks /\ ~Ready("app") /\ task # "created" /\ app \notin {"start", "created"}
  BY DEF CrashArrives, Packet, ClientRuns, Ready, TaskBlocks, app
<1>3. queue = "live"
  BY <1>1 DEF Inv, Down
<1>4. fault' = fault /\ Added(mbox, mbox', "crash") /\ AddedOrder(mbox, mbox', "crash")
  BY <1>3, Posts, Values DEF Types, CrashArrives, Packet
<1>5. Stack'
  BY <1>1 DEF Inv, Stack
<1>6. Down'
  BY <1>1 DEF Inv, Down
<1>7. Phases'
  BY <1>1, <1>4 DEF Inv, Phases, Added, AddedOrder, Shutting
<1>8. Places'
  BY <1>1 DEF Inv, Places
<1>9. Starts'
  BY <1>1, <1>4 DEF Inv, Starts, Added, Starting, Places
<1>10. IsUp'
  BY <1>1, <1>4 DEF Inv, IsUp, Added
<1>11. Disabling'
  BY <1>1, <1>4 DEF Inv, Disabling, Added
<1>12. Exchange'
  BY <1>1, <1>2, <1>4, NullIs
  DEF Inv, Exchange, Added, AddedOrder, Cold, TaskBlocks, Ready, OnSem, app, Phases
<1> QED BY <1>4, <1>5, <1>6, <1>7, <1>8, <1>9, <1>10, <1>11, <1>12 DEF Alive, Inv

(* The disable: the HAL is open, and closes; or a second disable, of a     *)
(* recovery that met the application ending, finds uwb_cb cleared.         *)
LEMMA TakesDisableKeeps ==
    ASSUME Types, Alive, Inv, TakesDisable
    PROVE  \/ Alive' /\ Inv'
           \/ fault' = "null call" /\ overlap' /\ ~(app' \in Up /\ recovery' = "idle")
<1>1. /\ Removed(mbox, mbox', "disable") /\ RemovedOrder(mbox, mbox', "disable")
      /\ Has(mbox, "disable") /\ task = "loop"
      /\ UNCHANGED <<mErrorHandlerQueue, queue, uwb_task_sem, lost, overlap, app, recovery>>
  BY Taken DEF Types, Removed, TakesDisable
<1>2. app \notin Starting
  BY <1>1, NotStarting, Values
<1>3. queue = "live" /\ app # "created" /\ ~(app \in Up /\ recovery = "idle")
  BY <1>1, <1>2 DEF Inv, Stack, Starting, IsUp
<1>4. CASE uwb_cb.uwb_state = "none"
  <2>1. hal # "open" /\ ~uwa_dm_cb.p_dm_rsp_cback
    BY <1>3, <1>4 DEF Inv, Stack
  <2>2. overlap
    BY <1>1, <2>1 DEF Inv, Disabling
  <2>3. fault' = "null call"
    BY <1>4, <2>1 DEF TakesDisable, Through
  <2> QED BY <1>1, <1>3, <2>2, <2>3
<1>5. CASE uwb_cb.uwb_state # "none"
  <2>1. /\ timer' = "off" /\ uwb_cb' = [uwb_cb EXCEPT !.uwb_state = "wait close"]
        /\ hal' = IF hal = "open" THEN "closing" ELSE hal
        /\ client' = IF hal = "open" THEN Append(client, "close") ELSE client
        /\ task' = IF hal = "open" THEN "close hal" ELSE task
        /\ UNCHANGED <<devMgmtSem, currentEventId, isUfaEnabled, uwa_dm_cb, fault>>
    BY <1>5 DEF TakesDisable, api
  <2>2. uwb_cb'.uwb_state = "wait close" /\ uwa_dm_cb.p_dm_rsp_cback
    BY <1>3, <1>5, <2>1 DEF Inv, Stack, Types, UwbCb
  <2>3. IF hal = "open" THEN client' = <<"close">> ELSE client' = client
    <3>1. hal = "open" => client = << >>
      BY <1>2 DEF Inv, Stack, Starting
    <3>2. Append(<< >>, "close") = <<"close">>
      OBVIOUS
    <3> QED BY <2>1, <3>1, <3>2
  <2>4. /\ hal \notin {"closing", "client stopped"} /\ <<"close">> # << >>
        /\ <<"open">> # <<"close">>
    BY <1>1 DEF Inv, Stack
  <2>5. Stack'
    BY <1>1, <2>1, <2>2, <2>3, <2>4 DEF Inv, Stack
  <2>6. Down'
    BY <1>1, <2>1 DEF Inv, Down
  <2>7. Phases'
    BY <1>1, <2>1 DEF Inv, Phases, Shutting, Removed, RemovedOrder
  <2>8. Places'
    BY <1>1, <2>1 DEF Inv, Places
  <2>9. Starts'
    BY <1>1, <1>2 DEF Inv, Starts, Starting, Removed
  <2>10. IsUp'
    BY <1>1, <1>3 DEF IsUp
  <2>11. Disabling'
    BY <1>1, <2>1 DEF Inv, Disabling, Removed
  <2>12. Exchange'
    BY <1>1, <1>3, <2>1 DEF Inv, Exchange, Cold, Removed, RemovedOrder
  <2> QED BY <2>1, <2>5, <2>6, <2>7, <2>8, <2>9, <2>10, <2>11, <2>12 DEF Alive, Inv
<1> QED BY <1>4, <1>5

(* Initialize: nothing is left of before; or all of it is, when a recovery *)
(* met the application starting or ending.                                 *)
LEMMA InitStartKeeps ==
    ASSUME Types, Alive, Inv, InitStart
    PROVE  \/ Alive' /\ Inv'
           \/ fault' = "leftover" /\ overlap' /\ ~(app' \in Up /\ recovery' = "idle")
<1>1. /\ app = "start" /\ app' = "created" /\ recovery' = recovery
      /\ devMgmtSem' = 0 /\ queue' = "live" /\ mbox' = << >> /\ uwb_task_sem' = 0
      /\ task' = "created" /\ ~isUfaEnabled
      /\ fault' = IF task # "none" \/ hal # "closed" \/ timer = "on" THEN "leftover" ELSE fault
      /\ UNCHANGED <<currentEventId, isUfaEnabled, mErrorHandlerQueue, uwb_cb, uwa_dm_cb,
                     timer, hal, client, lost, overlap>>
  BY Moved DEF InitStart, app, recovery, Waiter, timing, low, ghost
<1>2. recovery = "idle" /\ mErrorHandlerQueue = 0
  BY <1>1, AppRuns DEF InitStart, Inv, Places
<1>3. CASE queue = "live"
  <2>1. overlap /\ task # "none"
    BY <1>1, <1>3 DEF Inv, Places, Stack
  <2> QED BY <1>1, <2>1 DEF Up
<1>4. CASE queue # "live"
  <2>1. task = "none" /\ hal = "closed" /\ timer # "on" /\ currentEventId = "default"
    BY <1>4 DEF Inv, Stack, Down
  <2>2. "app" \notin lost /\ "recovery" \notin lost
    BY <1>1, <1>2 DEF Inv, Phases, OnSem
  <2>3. \A x : ~Has(mbox', x) /\ Single(mbox', x)
    BY <1>1, NothingPosted
  <2>4. Stack'
    BY <1>1, <2>1, NullIs DEF Inv, Stack
  <2>5. Down'
    BY <1>1 DEF Down
  <2>6. Phases'
    BY <1>1, <1>2, <2>2, <2>3, NullIs DEF Phases
  <2>7. Places'
    BY <1>1, <1>2, NullIs DEF Places, Up
  <2>8. Starts'
    BY <1>1, <2>1, <2>3 DEF Starts
  <2>9. IsUp'
    BY <1>1 DEF IsUp, Up
  <2>10. Disabling'
    BY <1>1, <1>2, <2>3 DEF Disabling
  <2>11. Exchange'
    BY <1>1, <2>1, <2>3 DEF Exchange
  <2> QED BY <1>1, <2>1, <2>4, <2>5, <2>6, <2>7, <2>8, <2>9, <2>10, <2>11 DEF Alive, Inv
<1> QED BY <1>3, <1>4
-----------------------------------------------------------------------------
(* The invariant *)

(* With nothing gone wrong, the parts together say that up means up. *)
LEMMA UpFromInv == ASSUME Types', Inv' PROVE UpMeansUp'
<1> SUFFICES ASSUME app' \in Up, recovery' = "idle"
             PROVE  /\ isUfaEnabled' /\ devMgmtSem' # Null
                    /\ queue' = "live" /\ task' \in {"loop", "crash log"}
                    /\ hal' = "open" /\ uwb_cb' = [p_hal |-> TRUE, uwb_state |-> "idle"]
  BY DEF UpMeansUp, app, recovery, Up
<1>1. /\ devMgmtSem' # Null /\ task' \in {"loop", "crash log"} /\ hal' = "open"
      /\ uwb_cb'.p_hal /\ uwb_cb'.uwb_state = "idle"
  BY DEF Inv, IsUp
<1>2. queue' = "live" /\ isUfaEnabled'
  BY <1>1 DEF Inv, Phases, Places
<1>3. /\ uwb_cb' = [p_hal |-> uwb_cb'.p_hal, uwb_state |-> uwb_cb'.uwb_state]
      /\ uwb_cb'.p_hal \in BOOLEAN
  BY DEF Types, UwbCb
<1> QED BY <1>1, <1>2, <1>3

(* A step after which nothing is wrong *)
LEMMA Together == ASSUME Types', Alive', Inv' PROVE IInv'
BY UpFromInv DEF IInv, Alive, InitSurvives, QueueOutlivesSenders, FreshStart

(* A step that ends the run, as overlap allows *)
LEMMA Fails ==
    ASSUME Types', fault' \in {"null call", "leftover"}, overlap',
           ~(app' \in Up /\ recovery' = "idle")
    PROVE  IInv'
BY DEF IInv, Alive, InitSurvives, QueueOutlivesSenders, FreshStart, UpMeansUp, app,
       recovery, Up

(* Nothing is there at the start. *)
LEMMA StartsRight == Init => IInv
<1> SUFFICES ASSUME Init PROVE IInv
  OBVIOUS
<1>1. /\ app = "start" /\ recovery = "idle" /\ at \in [Waiter -> Place]
      /\ at["app"] = "start" /\ at["recovery"] = "idle"
  BY DEF Init, app, recovery, Waiter, Place
<1>2. Types
  <2>1. /\ 0 \in 0 .. MaxCall /\ 0 \in 0 .. MaxCrash /\ 0 \in 0 .. MaxRetry
        /\ 0 \in 0 .. ErrorQueue /\ << >> \in Seq(Event) /\ << >> \in Seq(Message)
    BY UwbLifecycleAssumption
  <2>2. "none" \in QueueIs /\ "none" \in FaultIs /\ Null \in Tokens \cup {Null}
    BY DEF QueueIs, FaultIs
  <2> QED BY <2>1, <2>2, Values DEF Init, Types
<1>3. Alive => Inv
  <2>1. \A x : ~Has(mbox, x)
    BY NothingPosted DEF Init
  <2>2. Stack
    BY DEF Init, Stack
  <2>3. Down
    BY <1>1 DEF Init, Down
  <2>4. Phases /\ Exchange
    BY DEF Init, Phases, Exchange
  <2>5. Places
    BY <1>1 DEF Init, Places, Starting
  <2>6. Starts
    BY <1>1, <2>1 DEF Starts
  <2>7. IsUp
    BY <1>1 DEF IsUp, Up
  <2>8. Disabling
    BY NothingPosted DEF Init, Disabling
  <2> QED BY <2>2, <2>3, <2>4, <2>5, <2>6, <2>7, <2>8 DEF Inv
<1>4. InitSurvives /\ QueueOutlivesSenders /\ FreshStart /\ UpMeansUp
  BY <1>1 DEF Init, InitSurvives, QueueOutlivesSenders, FreshStart, UpMeansUp
<1> QED BY <1>2, <1>3, <1>4 DEF IInv

(* The application's steps *)
LEMMA AppKeeps == ASSUME IInv, App PROVE IInv'
<1>1. Types' /\ Types /\ Alive /\ Inv
  <2>1. Types' /\ Types
    BY AppTypes DEF IInv
  <2>2. Alive
    BY DEF App, InitStart, UwaInit, Enabled, Registered, DeviceInit, Abandon, Call, Return,
           ReportTimeOut
  <2> QED BY <2>1, <2>2 DEF IInv
<1>2. CASE InitStart
  BY <1>1, <1>2, InitStartKeeps, Together, Fails
<1> QED BY <1>1, <1>2, Together, UwaInitKeeps, EnabledKeeps, RegisteredKeeps,
           DeviceInitKeeps, AbandonKeeps, CallKeeps, ReturnKeeps, ReportTimeOutKeeps
        DEF App

(* The end of the stack, by either, and the restart *)
LEMMA EndsKeeps == ASSUME IInv, NEW t \in Waiter, Ends(t) \/ Restart PROVE IInv'
<1>1. Types' /\ Types /\ Alive /\ Inv
  <2>1. Types' /\ Types
    BY EndsTypes DEF IInv
  <2>2. Alive
    BY DEF Ends, ShutDown, NotInitialized, StartsShutDown, CleanUp, Finalize, Restart
  <2> QED BY <2>1, <2>2 DEF IInv
<1>2. CASE Restart
  BY <1>1, <1>2, Together, RestartKeeps
<1>3. CASE t = "app" /\ Ends(t)
  BY <1>1, <1>3, Together, AppShutsDown, AppIsInitialized, AppCleansUp, AppFinalizes
  DEF Ends
<1>4. CASE t = "recovery" /\ Ends(t)
  BY <1>1, <1>4, Together, RecoveryShutsDown, RecoveryRestarts, RecoveryCleansUp,
     RecoveryFinalizes
  DEF Ends
<1> QED BY <1>2, <1>3, <1>4 DEF Waiter

(* The UWB task's steps *)
LEMMA TaskKeeps == ASSUME IInv, UwbTask PROVE IInv'
<1>1. Types' /\ Types /\ Alive /\ Inv
  <2>1. Types' /\ Types
    BY TaskTypes DEF IInv
  <2>2. Alive
    BY DEF UwbTask, Begin, CrashLogged, HalCloses, TakesEnable, TakesReady, TakesRegister,
           TakesCmd, TakesRsp, TakesTimeout, TakesCrash, TakesDisable, TakesClosed,
           TakesShutdown, Takes
  <2> QED BY <2>1, <2>2 DEF IInv
<1>2. CASE TakesDisable
  BY <1>1, <1>2, TakesDisableKeeps, Together, Fails
<1> QED BY <1>1, <1>2, Together, BeginKeeps, CrashLoggedKeeps, HalClosesKeeps,
           TakesEnableKeeps, TakesReadyKeeps, TakesRegisterKeeps, TakesCmdKeeps,
           TakesRspKeeps, TakesTimeoutKeeps, TakesCrashKeeps, TakesClosedKeeps,
           TakesShutdownKeeps
        DEF UwbTask

(* The timer daemon, the client thread and the controller *)
LEMMA BelowKeeps ==
    ASSUME IInv, TimerFires \/ ClientOpens \/ ClientCloses \/ RspArrives \/ CrashArrives
    PROVE  IInv'
<1>1. Types' /\ Types /\ Alive /\ Inv
  <2>1. Types' /\ Types
    BY BelowTypes DEF IInv
  <2>2. Alive
    BY DEF TimerFires, ClientOpens, ClientCloses, ClientTakes, RspArrives, CrashArrives,
           Packet
  <2> QED BY <2>1, <2>2 DEF IInv
<1> QED BY <1>1, Together, TimerFiresKeeps, ClientOpensKeeps, ClientClosesKeeps,
           RspArrivesKeeps, CrashArrivesKeeps

(* Nothing moves. *)
LEMMA NothingMoves == ASSUME IInv, UNCHANGED vars PROVE IInv'
<1>1. /\ UNCHANGED <<at, devMgmtSem, currentEventId, isUfaEnabled, mErrorHandlerQueue, queue,
                    mbox, uwb_task_sem, task, uwb_cb, uwa_dm_cb>>
      /\ UNCHANGED <<timer, cmd_retry_count, hal, client, calls, crashes, fault, lost, overlap>>
      /\ UNCHANGED <<app, recovery>>
  BY DEF vars, api, timing, low, used, ghost, app, recovery
<1>2. Types'
  BY <1>1 DEF IInv, Types
<1>3. /\ Stack <=> Stack'
      /\ Down <=> Down'
      /\ Places <=> Places'
      /\ Enabling <=> Enabling'
      /\ Registering <=> Registering'
      /\ Shutting <=> Shutting'
      /\ Cold <=> Cold'
  BY <1>1 DEF Stack, Down, Places, Enabling, Registering, Shutting, Cold
<1>4. /\ Phases <=> Phases'
      /\ Starts <=> Starts'
      /\ IsUp <=> IsUp'
      /\ Disabling <=> Disabling'
      /\ Exchange <=> Exchange'
  BY <1>1, <1>3 DEF Phases, Starts, IsUp, Disabling, Exchange
<1> QED BY <1>1, <1>2, <1>3, <1>4
        DEF IInv, Alive, Inv, InitSurvives, QueueOutlivesSenders, FreshStart, UpMeansUp

(* Every state satisfies IInv. *)
LEMMA Invariant == Spec => []IInv
<1>1. IInv /\ [Next]_vars => IInv'
  BY AppKeeps, EndsKeeps, TaskKeeps, BelowKeeps, NothingMoves DEF Next, Waiter
<1> QED BY <1>1, StartsRight, PTL DEF Spec
-----------------------------------------------------------------------------
(* The start of the stack is not cleared under the application, and the    *)
(* stack never calls through a table that is gone (UWA_Init, uwb_task),    *)
(* unless a recovery met the application starting or ending.               *)
THEOREM NoNullCall == Spec => []InitSurvives
<1>1. IInv => InitSurvives
  BY DEF IInv
<1> QED BY <1>1, Invariant, PTL

(* No message goes to the queue that Finalize has released, from whichever *)
(* thread: its handle is never cleared (UwbAdaptation.c).                  *)
THEOREM NoSendToReleased == Spec => []QueueOutlivesSenders
<1>1. IInv => QueueOutlivesSenders
  BY DEF IInv
<1> QED BY <1>1, Invariant, PTL

(* Initialize finds nothing of the stack of before, however many times the *)
(* recovery took it down, unless it met the application starting or ending.*)
THEOREM StartsFresh == Spec => []FreshStart
<1>1. IInv => FreshStart
  BY DEF IInv
<1> QED BY <1>1, Invariant, PTL

(* An application that is up has the whole stack under it, or a recovery   *)
(* is on its way.                                                          *)
THEOREM UpIsUp == Spec => []UpMeansUp
<1>1. IInv => UpMeansUp
  BY DEF IInv
<1> QED BY <1>1, Invariant, PTL
=============================================================================
