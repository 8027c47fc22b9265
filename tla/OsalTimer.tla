----------------------------- MODULE OsalTimer ------------------------------
(***************************************************************************)
(* The timers of phOsalUwb_Timer_FreeRTOS.c: a table of slots whose ids    *)
(* are used again, over FreeRTOS timers that the timer daemon starts,      *)
(* stops, expires and frees on command.  The two users are the UWB task,   *)
(* which creates and deletes its quick timer for every command             *)
(* (uwb_task.c), and the HAL, whose timer lives from open to close and     *)
(* watches extension commands (phNxpUciHal.c, phNxpUciHal_ext.c).          *)
(*                                                                         *)
(* "prog" is the sequence of timer calls the UWB task has still to make; a *)
(* call that checks the slot and then uses its handle is cut between the   *)
(* two.  The daemon outranks every task and runs whenever it can; it       *)
(* cannot while the HAL's callback sleeps in phOsalUwb_Delay.              *)
(***************************************************************************)
EXTENDS Naturals, Sequences, FiniteSets

CONSTANTS MaxTimer,     \* PH_UWB_MAX_TIMER, 2
          Handles,      \* bound: FreeRTOS timers that exist at a time
          MaxPosted,    \* bound: timeout messages waiting for the UWB task
          MaxQueued     \* bound: commands queued while the daemon sleeps, of 10

ASSUME OsalTimerAssumption ==
    {MaxTimer, Handles, MaxPosted, MaxQueued} \subseteq Nat \ {0}

Slot   == 1 .. MaxTimer
Handle == 1 .. Handles        \* a FreeRTOS timer; 0 is NULL
NoSlot == 0

VARIABLES
    apTimerInfo,        \* the table of slots
    kernel,             \* what FreeRTOS knows of each timer
    timerQ,             \* commands the daemon has not processed
    daemon,             \* "ready", "drain": has commands to process first, "delay"
    prog,               \* what the UWB task has still to do
    TimerHandle,        \* uwb_task.c: the id of the last quick timer
    uwbTimeoutTimerId,  \* phNxpUciHal.c: the id of the HAL's timer
    open,               \* the HAL is open
    is_resp_pending,    \* the UWB task waits for a response
    posted,             \* timeout messages in the UWB task's mailbox
    ext,                \* the extension command: "idle", "wait", or "woken"
    fault               \* ghost: the undefined behaviour or assertion met

ids   == <<TimerHandle, uwbTimeoutTimerId>>
stack == <<open, is_resp_pending, posted, ext>>
vars  == <<apTimerInfo, kernel, timerQ, daemon, prog, ids, stack, fault>>

(* A slot; "user" is ghost: whose timer it is. *)
Empty == [TimerId |-> FALSE, hTimerHandle |-> 0, eState |-> "idle", user |-> "none"]

Op(what, id) == [op |-> what, id |-> id]

Init ==
    /\ apTimerInfo = [s \in Slot |-> Empty]
    /\ kernel = [h \in Handle |-> "none"]
    /\ timerQ = << >>
    /\ daemon = "ready"
    /\ prog = << >>
    /\ TimerHandle = NoSlot /\ uwbTimeoutTimerId = NoSlot
    /\ open = FALSE
    /\ is_resp_pending = FALSE
    /\ posted = 0
    /\ ext = "idle"
    /\ fault = "none"
-----------------------------------------------------------------------------
(* A task runs when the daemon waits: for a command, or in the delay. *)
DaemonWaits == (daemon = "ready" /\ timerQ = << >>) \/ daemon = "delay"
TaskRuns == fault = "none" /\ DaemonWaits /\ Len(timerQ) < MaxQueued
Idle     == TaskRuns /\ prog = << >>

AtWork(what) == TaskRuns /\ prog # << >> /\ Head(prog).op = what

Id         == Head(prog).id
Then(what) == prog' = <<Op(what, Id)>> \o Tail(prog)
Done       == prog' = Tail(prog)

Command(what, h) == timerQ' = Append(timerQ, [op |-> what, h |-> h])

(* The tests of an id: dwIndex in range, and the slot's TimerId not 0. *)
Used(id) == id \in Slot /\ apTimerInfo[id].TimerId

(* A handle that is NULL, or whose timer the daemon has freed. *)
Dangling(id) == apTimerInfo[id].hTimerHandle \notin {h \in Handle : kernel[h] # "none"}

Running(id) == Used(id) /\ apTimerInfo[id].eState = "running"
-----------------------------------------------------------------------------
(* phOsalUwb_Timer_Stop: the check, the call, the mark. *)
StopCheck ==
    /\ AtWork("stop")
    /\ IF Running(Id) THEN Then("stop_use") ELSE Done
    /\ UNCHANGED <<apTimerInfo, kernel, timerQ, daemon, ids, stack, fault>>

StopUse ==
    /\ AtWork("stop_use")
    /\ \/ /\ Dangling(Id)
          /\ fault' = "handle"
          /\ UNCHANGED <<timerQ, prog>>
       \/ /\ ~Dangling(Id)
          /\ Command("stop", apTimerInfo[Id].hTimerHandle)
          /\ Then("stop_mark")
          /\ UNCHANGED fault
    /\ UNCHANGED <<apTimerInfo, kernel, daemon, ids, stack>>

StopMark ==
    /\ AtWork("stop_mark")
    /\ apTimerInfo' = [apTimerInfo EXCEPT ![Id].eState = "stopped"]
    /\ Done
    /\ UNCHANGED <<kernel, timerQ, daemon, ids, stack, fault>>

(* phOsalUwb_Timer_Delete: the presence check, the call, the memset. *)
DeleteCheck ==
    /\ AtWork("delete")
    /\ IF Used(Id) THEN Then("delete_use") ELSE Done
    /\ UNCHANGED <<apTimerInfo, kernel, timerQ, daemon, ids, stack, fault>>

DeleteUse ==
    /\ AtWork("delete_use")
    /\ \/ /\ Dangling(Id)
          /\ fault' = "handle"
          /\ UNCHANGED <<timerQ, prog>>
       \/ /\ ~Dangling(Id)
          /\ Command("delete", apTimerInfo[Id].hTimerHandle)
          /\ Then("delete_clear")
          /\ UNCHANGED fault
    /\ UNCHANGED <<apTimerInfo, kernel, daemon, ids, stack>>

DeleteClear ==
    /\ AtWork("delete_clear")
    /\ apTimerInfo' = [apTimerInfo EXCEPT ![Id] = Empty]
    /\ Done
    /\ UNCHANGED <<kernel, timerQ, daemon, ids, stack, fault>>

(* phUtilUwb_CheckForAvailableTimer *)
Available == {s \in Slot : ~apTimerInfo[s].TimerId}
First     == CHOOSE s \in Available : \A r \in Available : s <= r

(* Memory FreeRTOS may use for a timer; not one a stale reference names.   *)
Free == {h \in Handle : /\ kernel[h] = "none"
                        /\ \A s \in Slot : apTimerInfo[s].hTimerHandle # h
                        /\ \A i \in 1 .. Len(timerQ) : timerQ[i].h # h}
Fresh == CHOOSE h \in Free : \A g \in Free : h <= g

(* phOsalUwb_Timer_Create, in a slot that is free *)
Create(state, whose) ==
    /\ apTimerInfo' = [apTimerInfo EXCEPT ![First] =
           [TimerId |-> TRUE, hTimerHandle |-> Fresh, eState |-> state, user |-> whose]]
    /\ kernel' = [kernel EXCEPT ![Fresh] = "dormant"]

(* uwb_start_quick_timer: Create, and Start, whose 50 ms outlast the call. *)
StartQuick ==
    /\ AtWork("start")
    /\ Free # {}
    /\ IF Available = {}
       THEN /\ fault' = "no_slot"
            /\ UNCHANGED <<apTimerInfo, kernel, timerQ, prog, TimerHandle>>
       ELSE /\ Create("running", "uwb_task")
            /\ TimerHandle' = First
            /\ Command("start", Fresh)
            /\ Done
            /\ UNCHANGED fault
    /\ UNCHANGED <<daemon, stack, uwbTimeoutTimerId>>
-----------------------------------------------------------------------------
(* The UWB task.  An API call and an extension command are never under way *)
(* together: both are made by the one application task.                    *)
StopQuick == <<Op("stop", TimerHandle), Op("delete", TimerHandle)>>
Start     == <<Op("start", NoSlot)>>

SendCmd ==
    /\ Idle
    /\ open /\ ~is_resp_pending /\ ext = "idle"
    /\ is_resp_pending' = TRUE
    /\ prog' = Start
    /\ UNCHANGED <<apTimerInfo, kernel, timerQ, daemon, ids, open, posted, ext, fault>>

(* Mutant: the window is opened and the timer is left to run. *)
EndKeepsTimer ==
    /\ Idle
    /\ open
    /\ is_resp_pending' = FALSE
    /\ prog' = << >>
    /\ UNCHANGED <<apTimerInfo, kernel, timerQ, daemon, ids, open, posted, ext, fault>>

(* A response opens the window; a device error, at any time, flushes. *)
EndExchange ==
    /\ Idle
    /\ open
    /\ is_resp_pending' = FALSE
    /\ prog' = StopQuick
    /\ UNCHANGED <<apTimerInfo, kernel, timerQ, daemon, ids, open, posted, ext, fault>>

(* Mutant: the command is sent again with no timer behind it. *)
TimeoutUnwatched ==
    /\ Idle
    /\ posted > 0
    /\ posted' = posted - 1
    /\ \/ is_resp_pending /\ prog' = StopQuick /\ UNCHANGED is_resp_pending
       \/ is_resp_pending' = FALSE /\ prog' = StopQuick
    /\ UNCHANGED <<apTimerInfo, kernel, timerQ, daemon, ids, open, ext, fault>>

(* uwb_ucif_cmd_timeout: re-transmit and watch again, or give up. *)
Timeout ==
    /\ Idle
    /\ posted > 0
    /\ posted' = posted - 1
    /\ \/ is_resp_pending /\ prog' = StopQuick \o Start /\ UNCHANGED is_resp_pending
       \/ is_resp_pending' = FALSE /\ prog' = StopQuick
    /\ UNCHANGED <<apTimerInfo, kernel, timerQ, daemon, ids, open, ext, fault>>

(* phNxpUciHal_open, on the UWB task (uwa_dm_enable). *)
Open ==
    /\ Idle
    /\ ~open /\ Free # {}
    /\ IF Available = {}
       THEN /\ fault' = "no_slot"
            /\ UNCHANGED <<apTimerInfo, kernel, uwbTimeoutTimerId, open>>
       ELSE /\ Create("idle", "hal")
            /\ uwbTimeoutTimerId' = First
            /\ open' = TRUE
            /\ UNCHANGED fault
    /\ UNCHANGED <<timerQ, daemon, prog, TimerHandle, is_resp_pending, posted, ext>>

(* Mutant: phNxpUciHal_close stops its timer, and does not delete it. *)
CloseKeepsTimer ==
    /\ Idle
    /\ open /\ ext = "idle"
    /\ open' = FALSE
    /\ is_resp_pending' = FALSE
    /\ prog' = StopQuick
               \o <<Op("stop", uwbTimeoutTimerId), Op("closed", NoSlot)>>
               \o StopQuick
    /\ UNCHANGED <<apTimerInfo, kernel, timerQ, daemon, ids, posted, ext, fault>>

(* uwb_task_shutdown_uwbc: the flush, phNxpUciHal_close, the quick timer. *)
Close ==
    /\ Idle
    /\ open /\ ext = "idle"
    /\ open' = FALSE
    /\ is_resp_pending' = FALSE
    /\ prog' = StopQuick
               \o <<Op("stop", uwbTimeoutTimerId), Op("delete", uwbTimeoutTimerId),
                    Op("closed", NoSlot)>>
               \o StopQuick
    /\ UNCHANGED <<apTimerInfo, kernel, timerQ, daemon, ids, posted, ext, fault>>

Closed ==
    /\ AtWork("closed")
    /\ uwbTimeoutTimerId' = NoSlot
    /\ Done
    /\ UNCHANGED <<apTimerInfo, kernel, timerQ, daemon, TimerHandle, stack, fault>>
-----------------------------------------------------------------------------
(* The extension command, on the application's task: start the timer, wait *)
(* for the answer or the timer, then start again or stop.  These calls use *)
(* the HAL's slot only, which no one frees while they are under way, so    *)
(* each is one step.  The task runs when the UWB task waits.               *)
StartExt ==
    /\ Idle
    /\ open /\ ~is_resp_pending
    /\ ext \in {"idle", "woken"}
    /\ Used(uwbTimeoutTimerId)
    /\ apTimerInfo' = [apTimerInfo EXCEPT ![uwbTimeoutTimerId].eState = "running"]
    /\ Command("start", apTimerInfo[uwbTimeoutTimerId].hTimerHandle)
    /\ ext' = "wait"
    /\ UNCHANGED <<kernel, daemon, prog, ids, open, is_resp_pending, posted, fault>>

ExtAnswered ==
    /\ fault = "none"
    /\ ext = "wait"
    /\ ext' = "woken"
    /\ UNCHANGED <<apTimerInfo, kernel, timerQ, daemon, prog, ids, open,
                   is_resp_pending, posted, fault>>

StopExt ==
    /\ Idle
    /\ ext = "woken"
    /\ ext' = "idle"
    /\ \/ /\ Running(uwbTimeoutTimerId)
          /\ Command("stop", apTimerInfo[uwbTimeoutTimerId].hTimerHandle)
          /\ apTimerInfo' = [apTimerInfo EXCEPT ![uwbTimeoutTimerId].eState = "stopped"]
       \/ ~Running(uwbTimeoutTimerId) /\ UNCHANGED <<timerQ, apTimerInfo>>
    /\ UNCHANGED <<kernel, daemon, prog, ids, open, is_resp_pending, posted, fault>>
-----------------------------------------------------------------------------
(* The timer daemon.  It looks at the next expiry before it takes a        *)
(* command; what was queued while it slept it takes first.                 *)

(* quick_timer_callback: the timer is marked stopped, so Stop does nothing; *)
(* the timeout is posted, the timer is deleted and the slot cleared.        *)
QuickCallback(s) ==
    /\ posted < MaxPosted
    /\ posted' = posted + 1
    /\ Command("delete", apTimerInfo[s].hTimerHandle)
    /\ apTimerInfo' = [apTimerInfo EXCEPT ![s] = Empty]
    /\ daemon' = "drain"

(* hal_extns_write_rsp_timeout_cb sleeps before it posts the semaphore. *)
ExtCallback(s) ==
    /\ apTimerInfo' = [apTimerInfo EXCEPT ![s].eState = "stopped"]
    /\ daemon' = "delay"
    /\ UNCHANGED <<timerQ, posted>>

(* phOsalUwb_Timer_Expired *)
Expire(h) ==
    /\ fault = "none"
    /\ daemon = "ready"
    /\ kernel[h] = "active"
    /\ kernel' = [kernel EXCEPT ![h] = "dormant"]
    /\ \E s \in Slot :
         /\ apTimerInfo[s].hTimerHandle = h
         /\ \/ apTimerInfo[s].user = "uwb_task" /\ QuickCallback(s)
            \/ apTimerInfo[s].user = "hal" /\ ExtCallback(s)
    /\ UNCHANGED <<prog, ids, open, is_resp_pending, ext, fault>>

DelayEnds ==
    /\ daemon = "delay"
    /\ daemon' = IF timerQ = << >> THEN "ready" ELSE "drain"
    /\ ext' = IF ext = "wait" THEN "woken" ELSE ext
    /\ UNCHANGED <<apTimerInfo, kernel, timerQ, prog, ids, open, is_resp_pending, posted, fault>>

Effect(op) == CASE op = "start" -> "active" [] op = "stop" -> "dormant" [] OTHER -> "none"

Process ==
    /\ fault = "none"
    /\ daemon # "delay"
    /\ timerQ # << >>
    /\ LET c == Head(timerQ) IN
       IF kernel[c.h] = "none"
       THEN fault' = "freed_timer" /\ UNCHANGED kernel
       ELSE kernel' = [kernel EXCEPT ![c.h] = Effect(c.op)] /\ UNCHANGED fault
    /\ timerQ' = Tail(timerQ)
    /\ daemon' = IF Tail(timerQ) = << >> THEN "ready" ELSE "drain"
    /\ UNCHANGED <<apTimerInfo, prog, ids, stack>>

UwbTask ==
    \/ StopCheck \/ StopUse \/ StopMark
    \/ DeleteCheck \/ DeleteUse \/ DeleteClear
    \/ StartQuick \/ SendCmd \/ EndExchange \/ Timeout \/ Open \/ Close \/ Closed

ExtCommand == StartExt \/ ExtAnswered \/ StopExt

Daemon == (\E h \in Handle : Expire(h)) \/ DelayEnds \/ Process

Next == UwbTask \/ ExtCommand \/ Daemon

Spec == Init /\ [][Next]_vars
-----------------------------------------------------------------------------
(* phOsalUwb_Timer_FreeRTOS.c:29, "2 Timers are used.  One each by gki and *)
(* UciHal": create always finds a slot, although the callback, the stop of *)
(* the UWB task and the close free slots in any order; and no command that *)
(* reaches the daemon is about a timer it has freed (deleted twice).       *)
PoolSuffices == fault \notin {"no_slot", "freed_timer"}

(* uwb_stop_quick_timer (uwb_task.c:84) uses the id of the last quick      *)
(* timer also when the callback has freed its slot, and the id is used     *)
(* again: what it stops or deletes is never the HAL's timer.               *)
OnlyOwnTimer ==
    prog # << >> /\ Head(prog).op \in {"stop_use", "delete_use"} =>
        /\ Id = uwbTimeoutTimerId \/ apTimerInfo[Id].user # "hal"
        /\ open => apTimerInfo[Id].user # "hal"

(* The timer the core believes to run (UciCore's "timer") is a FreeRTOS    *)
(* timer that runs or is about to, or its timeout is in the mailbox.       *)
Coming(h) ==
    \/ kernel[h] = "active" \/ \E i \in 1 .. Len(timerQ) : timerQ[i] = [op |-> "start", h |-> h]

Watched ==
    (fault = "none" /\ is_resp_pending /\ prog = << >>) =>
        \/ posted > 0
        \/ /\ Used(TimerHandle)
           /\ apTimerInfo[TimerHandle].user = "uwb_task"
           /\ Coming(apTimerInfo[TimerHandle].hTimerHandle)

(* With no command in flight the quick timer has no slot, so the next open *)
(* and the next command find one.                                          *)
NoLeftover ==
    (fault = "none" /\ ~is_resp_pending /\ prog = << >>) =>
        \A s \in Slot : apTimerInfo[s].user # "uwb_task"
=============================================================================
