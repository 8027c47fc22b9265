----------------------------- MODULE UwbLifecycle -----------------------------
(***************************************************************************)
(* Bringing the stack up and down: uwbInit and UwbApi_ShutDown             *)
(* (UwbApi_Internal.c, UwbApi.c), Initialize and Finalize                  *)
(* (UwbAdaptation.c), the enable, disable and shutdown events of uwb_task, *)
(* phNxpUciHal_open and phNxpUciHal_close with the HAL's client thread,    *)
(* and the recovery task (AppRecovery.c), which shuts the stack down under *)
(* the application when the controller reports a crash, deletes the        *)
(* application's task and starts it again.                                 *)
(*                                                                         *)
(* The UWB task and the recovery have priority 5, the application 4, the   *)
(* client 3.  Memory, threads and the transport are always there, and a    *)
(* wait outlasts what is under way.                                        *)
(***************************************************************************)
EXTENDS Naturals, Sequences

CONSTANTS MaxCrash,   \* bound: crashes and time-outs that are reported
          MaxCall,    \* bound: commands the application sends
          MaxRetry,   \* UCI_CMD_MAX_RETRY_COUNT
          ErrorQueue  \* length of mErrorHandlerQueue, 2

ASSUME UwbLifecycleAssumption ==
    {MaxCrash, MaxCall, MaxRetry, ErrorQueue} \subseteq Nat /\ ErrorQueue # 0

Waiter == {"app", "recovery"}

VARIABLES
    at,             \* where the application and the recovery are
    devMgmtSem,     \* its tokens, or 2 when the handle is NULL
    currentEventId, \* the event a call waits for
    isUfaEnabled,
    mErrorHandlerQueue, \* scenarios the recovery has not taken
    queue,          \* uwb_ctrl.pMsgQHandle: "none", "live" or "released"
    mbox,           \* what is in it
    uwb_task_sem,   \* its tokens
    task,           \* the UWB task
    uwb_cb,         \* p_hal set, and uwb_state
    uwa_dm_cb,      \* p_dm_rsp_cback set, and UWA_DM_FLAGS_DM_IS_ACTIVE
    timer,          \* the quick timer: "on", "fired" (its message is unread), "off"
    cmd_retry_count,
    hal,            \* halStatus, and how far HAL close is
    client,         \* messages to the client thread
    calls, crashes, \* used up
    fault,          \* ghost: the first thing to go wrong
    lost,           \* ghost: tasks whose semaphore was deleted under them
    overlap         \* ghost: a recovery met the application starting or ending

api   == <<devMgmtSem, currentEventId, isUfaEnabled>>
low   == <<hal, client>>
used  == <<calls, crashes>>
timing == <<timer, cmd_retry_count>>
ghost == <<lost, overlap>>
vars  == <<at, api, mErrorHandlerQueue, queue, mbox, uwb_task_sem, task, uwb_cb,
           uwa_dm_cb, timing, low, used, fault, ghost>>

Null    == 2
Cleared == [p_hal |-> FALSE, uwb_state |-> "none"]
NoApp   == [p_dm_rsp_cback |-> FALSE, active |-> FALSE]

Init ==
    /\ at = [t \in Waiter |-> IF t = "app" THEN "start" ELSE "idle"]
    /\ devMgmtSem = Null /\ currentEventId = "default" /\ isUfaEnabled = FALSE
    /\ mErrorHandlerQueue = 0
    /\ queue = "none" /\ mbox = << >> /\ uwb_task_sem = 0 /\ task = "none"
    /\ uwb_cb = Cleared /\ uwa_dm_cb = NoApp /\ timer = "off" /\ cmd_retry_count = 0
    /\ hal = "closed" /\ client = << >>
    /\ calls = 0 /\ crashes = 0
    /\ fault = "none" /\ lost = {} /\ overlap = FALSE
-----------------------------------------------------------------------------
(* Who has the processor. *)
OnSem == {"enable wait", "register wait", "call", "disable wait"}

TaskBlocks ==
    \/ task \in {"none", "ended", "crash log"}
    \/ task = "loop" /\ mbox = << >>
    \/ task = "close hal" /\ hal = "closing"

Ready(t) ==
    \/ at[t] \in {"start", "created", "restart"}
    \/ at[t] \in OnSem /\ t \notin lost /\ devMgmtSem # 0
    \/ at[t] = "end wait" /\ uwb_task_sem = 1
    \/ t = "recovery" /\ at[t] = "idle" /\ mErrorHandlerQueue > 0

Runs(t)    == t = "app" => TaskBlocks /\ ~Ready("recovery")
ClientRuns == TaskBlocks /\ ~Ready("recovery") /\ ~Ready("app")

(* Nothing is under way that could end a wait: the wait times out. *)
Quiet == TaskBlocks /\ task # "crash log" /\ client = << >> /\ timer # "on"

Alive == fault = "none"

Goes(t, where) == at' = [at EXCEPT ![t] = where]

(* phUwb_OSAL_send_msg, through a handle that is never cleared *)
Post(event) ==
    /\ mbox' = IF queue = "live" THEN Append(mbox, event) ELSE mbox
    /\ fault' = IF queue = "live" THEN fault ELSE "queue released"
-----------------------------------------------------------------------------
(* uwbInit on the application's task: the semaphore, and Initialize, which *)
(* creates the UWB task.  (isUfaEnabled, with which it would return OK at  *)
(* once, is never set here.)                                               *)
InitStart ==
    /\ Alive /\ Runs("app")
    /\ at["app"] = "start" /\ ~isUfaEnabled
    /\ devMgmtSem' = 0
    /\ queue' = "live" /\ mbox' = << >> /\ uwb_task_sem' = 0
    /\ task' = "created"
    /\ fault' = IF task # "none" \/ hal # "closed" \/ timer = "on" THEN "leftover" ELSE fault
    /\ Goes("app", "created")
    /\ UNCHANGED <<currentEventId, isUfaEnabled, mErrorHandlerQueue, uwb_cb,
                   uwa_dm_cb, timing, low, used, ghost>>

InitBlock ==
    /\ at["app"] = "created"
    /\ uwb_cb' = [Cleared EXCEPT !.p_hal = TRUE]
    /\ uwa_dm_cb' = NoApp
    /\ currentEventId' = "enable"
    /\ Post("enable")
    /\ Goes("app", "enable wait")
    /\ UNCHANGED <<devMgmtSem, isUfaEnabled, mErrorHandlerQueue, queue, timing,
                   uwb_task_sem, task, low, used, ghost>>

(* Mutant: UWA_Init while the new task has still to clear uwb_cb. *)
UwaInitEarly == Alive /\ InitBlock

(* UWA_Init and UWA_Enable.  The new task outranks the application. *)
UwaInit == Alive /\ Runs("app") /\ InitBlock

Enabled ==
    /\ Alive /\ Runs("app")
    /\ at["app"] = "enable wait" /\ devMgmtSem = 1
    /\ devMgmtSem' = 0
    /\ currentEventId' = "register"
    /\ Post("register")
    /\ Goes("app", "register wait")
    /\ UNCHANGED <<isUfaEnabled, mErrorHandlerQueue, queue, uwb_task_sem, task,
                   uwb_cb, uwa_dm_cb, timing, low, used, ghost>>

Registered ==
    /\ Alive /\ Runs("app")
    /\ at["app"] = "register wait" /\ devMgmtSem = 1
    /\ devMgmtSem' = 0
    /\ isUfaEnabled' = TRUE
    /\ currentEventId' = "device status"
    /\ Goes("app", "device init")
    /\ UNCHANGED <<mErrorHandlerQueue, queue, mbox, uwb_task_sem, task, uwb_cb,
                   uwa_dm_cb, timing, low, used, fault, ghost>>

(* UwbDeviceInit and the first commands, with waits of the HAL's own *)
DeviceInit ==
    /\ Alive /\ Runs("app")
    /\ at["app"] = "device init"
    /\ Goes("app", "up")
    /\ UNCHANGED <<api, mErrorHandlerQueue, queue, mbox, uwb_task_sem, task, uwb_cb,
                   uwa_dm_cb, timing, low, used, fault, ghost>>

(* The label Error: *)
Abandon ==
    /\ Alive /\ Runs("app")
    /\ \/ at["app"] = "device init"
       \/ at["app"] \in {"enable wait", "register wait"} /\ devMgmtSem = 0 /\ Quiet
    /\ isUfaEnabled' = FALSE
    /\ currentEventId' = "disable"
    /\ Post("disable")
    /\ Goes("app", "disable wait")
    /\ overlap' = (overlap \/ at["recovery"] # "idle")
    /\ UNCHANGED <<devMgmtSem, mErrorHandlerQueue, queue, uwb_task_sem, task,
                   uwb_cb, uwa_dm_cb, timing, low, used, lost>>

(* A command of the application, and the two ends of its wait *)
Call ==
    /\ Alive /\ Runs("app")
    /\ at["app"] = "up"
    /\ calls < MaxCall
    /\ calls' = calls + 1
    /\ currentEventId' = "rsp"
    /\ Post("cmd")
    /\ Goes("app", "call")
    /\ UNCHANGED <<devMgmtSem, isUfaEnabled, mErrorHandlerQueue, queue, uwb_task_sem,
                   task, uwb_cb, uwa_dm_cb, timing, low, crashes, ghost>>

Return ==
    /\ Alive /\ Runs("app")
    /\ at["app"] = "call" /\ "app" \notin lost
    /\ devMgmtSem # 0 \/ Quiet
    /\ devMgmtSem' = IF devMgmtSem = 1 THEN 0 ELSE devMgmtSem
    /\ Goes("app", "up")
    /\ UNCHANGED <<currentEventId, isUfaEnabled, mErrorHandlerQueue, queue, mbox,
                   uwb_task_sem, task, uwb_cb, uwa_dm_cb, timing, low, used, fault, ghost>>
-----------------------------------------------------------------------------
(* UwbApi_ShutDown, by the application at its end or by the recovery *)
StartsShutDown(t) ==
    /\ Alive /\ Runs(t)
    /\ IF t = "app" THEN at[t] = "up" ELSE at[t] = "idle" /\ mErrorHandlerQueue > 0
    /\ mErrorHandlerQueue' = IF t = "app" THEN mErrorHandlerQueue ELSE mErrorHandlerQueue - 1
    /\ overlap' = (overlap \/ IF t = "app" THEN at["recovery"] # "idle"
                                         ELSE at["app"] \notin {"up", "call", "reported"})
    /\ UNCHANGED <<devMgmtSem, isUfaEnabled, queue, uwb_task_sem, task, uwb_cb,
                   uwa_dm_cb, timing, low, used, lost>>

ShutDown(t) ==
    /\ StartsShutDown(t)
    /\ isUfaEnabled
    /\ currentEventId' = "disable"
    /\ Post("disable")
    /\ Goes(t, "disable wait")

NotInitialized(t) ==
    /\ StartsShutDown(t)
    /\ ~isUfaEnabled
    /\ Goes(t, IF t = "app" THEN "done" ELSE "restart")
    /\ UNCHANGED <<currentEventId, mbox, fault>>

(* cleanUp, from the end of the wait: the semaphore goes, whoever else     *)
(* waits for it, and Finalize posts the shutdown event.                    *)
CleanUp(t) ==
    /\ Alive /\ Runs(t)
    /\ at[t] = "disable wait" /\ t \notin lost
    /\ devMgmtSem # 0 \/ Quiet
    /\ devMgmtSem' = Null
    /\ lost' = lost \cup {u \in Waiter \ {t} : at[u] \in OnSem /\ devMgmtSem # Null}
    /\ Post("shutdown")
    /\ Goes(t, "end wait")
    /\ UNCHANGED <<currentEventId, isUfaEnabled, mErrorHandlerQueue, queue,
                   uwb_task_sem, task, uwb_cb, uwa_dm_cb, timing, low, used, overlap>>

(* Mutant: the task is not deleted. *)
FinalizeKeepsTask(t) ==
    /\ Alive /\ Runs(t)
    /\ at[t] = "end wait"
    /\ uwb_task_sem = 1 \/ Quiet
    /\ uwb_task_sem' = 0
    /\ queue' = "released" /\ mbox' = << >>
    /\ isUfaEnabled' = FALSE /\ currentEventId' = "default" /\ devMgmtSem' = Null
    /\ Goes(t, IF t = "app" THEN "done" ELSE "restart")
    /\ UNCHANGED <<mErrorHandlerQueue, task, uwb_cb, uwa_dm_cb, timing, low, used, fault, ghost>>

(* The rest of Finalize, and the end of cleanUp *)
Finalize(t) ==
    /\ Alive /\ Runs(t)
    /\ at[t] = "end wait"
    /\ uwb_task_sem = 1 \/ Quiet
    /\ uwb_task_sem' = 0
    /\ queue' = "released" /\ mbox' = << >>
    /\ task' = "none"
    /\ isUfaEnabled' = FALSE /\ currentEventId' = "default" /\ devMgmtSem' = Null
    /\ Goes(t, IF t = "app" THEN "done" ELSE "restart")
    /\ UNCHANGED <<mErrorHandlerQueue, uwb_cb, uwa_dm_cb, timing, low, used, fault, ghost>>

(* A demo whose call timed out shuts down and reports TIME_OUT. *)
ReportTimeOut ==
    /\ Alive /\ Runs("app")
    /\ at["app"] = "done"
    /\ crashes < MaxCrash
    /\ crashes' = crashes + 1
    /\ mErrorHandlerQueue < ErrorQueue
    /\ mErrorHandlerQueue' = mErrorHandlerQueue + 1
    /\ Goes("app", "reported")
    /\ UNCHANGED <<api, queue, mbox, uwb_task_sem, task, uwb_cb, uwa_dm_cb, timing,
                   low, calls, fault, ghost>>

(* Mutant: the application's task is not deleted. *)
RestartKeepsTask ==
    /\ Alive
    /\ at["recovery"] = "restart"
    /\ Goes("recovery", "idle")
    /\ UNCHANGED <<api, mErrorHandlerQueue, queue, mbox, uwb_task_sem, task, uwb_cb,
                   uwa_dm_cb, timing, low, used, fault, ghost>>

(* recovery_handler deletes the application's task and starts it anew. *)
Restart ==
    /\ Alive
    /\ at["recovery"] = "restart"
    /\ at' = [t \in Waiter |-> IF t = "app" THEN "start" ELSE "idle"]
    /\ lost' = lost \ {"app"}
    /\ UNCHANGED <<api, mErrorHandlerQueue, queue, mbox, uwb_task_sem, task, uwb_cb,
                   uwa_dm_cb, timing, low, used, fault, overlap>>
-----------------------------------------------------------------------------
(* The UWB task.  The API's callback posts devMgmtSem for the awaited event *)
(* and for UCI_TIMEOUT.                                                     *)
Wake(event) ==
    /\ IF event \in {currentEventId, "timeout"}
       THEN /\ currentEventId' = "default"
            /\ devMgmtSem' = IF devMgmtSem = Null THEN Null ELSE 1
       ELSE UNCHANGED <<currentEventId, devMgmtSem>>
    /\ UNCHANGED isUfaEnabled

Begin ==
    /\ Alive
    /\ task = "created"
    /\ task' = "loop"
    /\ uwb_cb' = Cleared
    /\ timer' = "off" /\ cmd_retry_count' = 0
    /\ UNCHANGED <<at, api, mErrorHandlerQueue, queue, mbox, uwb_task_sem, uwa_dm_cb,
                   low, used, fault, ghost>>

Takes(event) ==
    /\ Alive
    /\ task = "loop"
    /\ mbox # << >> /\ Head(mbox) = event
    /\ mbox' = Tail(mbox)
    /\ UNCHANGED <<at, mErrorHandlerQueue, queue, used, ghost>>

(* A call through p_hal or p_dm_rsp_cback *)
Through(pointer) == fault' = IF pointer THEN fault ELSE "null call"

(* uwa_dm_enable and phNxpUciHal_open, which does nothing when it is open *)
TakesEnable ==
    /\ Takes("enable")
    /\ IF uwa_dm_cb.active
       THEN /\ Wake("enable")
            /\ UNCHANGED <<uwa_dm_cb, uwb_cb, low, fault>>
       ELSE /\ uwa_dm_cb' = [uwa_dm_cb EXCEPT !.p_dm_rsp_cback = TRUE]
            /\ uwb_cb' = [uwb_cb EXCEPT !.uwb_state = "wait open"]
            /\ Through(uwb_cb.p_hal)
            /\ hal' = IF hal = "closed" THEN "open" ELSE hal
            /\ client' = IF hal = "closed" THEN <<"open">> ELSE client
            /\ UNCHANGED api
    /\ UNCHANGED <<uwb_task_sem, task, timing>>

TakesReady ==
    /\ Takes("ready")
    /\ uwb_cb' = [uwb_cb EXCEPT !.uwb_state = "idle"]
    /\ uwa_dm_cb' = [uwa_dm_cb EXCEPT !.active = TRUE]
    /\ Wake("enable")
    /\ Through(uwa_dm_cb.p_dm_rsp_cback)
    /\ UNCHANGED <<uwb_task_sem, task, timing, low>>

TakesRegister ==
    /\ Takes("register")
    /\ IF uwa_dm_cb.active THEN Wake("register") ELSE UNCHANGED api
    /\ UNCHANGED <<uwb_task_sem, task, uwb_cb, uwa_dm_cb, timing, low, fault>>

TakesCmd ==
    /\ Takes("cmd")
    /\ timer' = "on" /\ UNCHANGED cmd_retry_count
    /\ UNCHANGED <<api, uwb_task_sem, task, uwb_cb, uwa_dm_cb, low, fault>>

TakesRsp ==
    /\ Takes("rsp")
    /\ timer' = "off" /\ cmd_retry_count' = 0
    /\ IF timer # "off" THEN Wake("rsp") ELSE UNCHANGED api
    /\ UNCHANGED <<uwb_task_sem, task, uwb_cb, uwa_dm_cb, low, fault>>

(* The command goes out again or is given up; with none pending, what is   *)
(* given up is whatever the application now waits for.                     *)
TakesTimeout ==
    /\ Takes("timeout")
    /\ IF timer # "off" /\ cmd_retry_count < MaxRetry
       THEN /\ timer' = "on" /\ cmd_retry_count' = cmd_retry_count + 1
            /\ UNCHANGED api
       ELSE /\ timer' = "off" /\ cmd_retry_count' = 0
            /\ Wake("timeout")
    /\ UNCHANGED <<uwb_task_sem, task, uwb_cb, uwa_dm_cb, low, fault>>

(* Status ERROR: the flush, then the application's callback, which reads   *)
(* the crash log by an extension command and calls the recovery.           *)
TakesCrash ==
    /\ Takes("crash")
    /\ timer' = "off" /\ cmd_retry_count' = 0
    /\ task' = "crash log"
    /\ UNCHANGED <<api, uwb_task_sem, uwb_cb, uwa_dm_cb, low, fault>>

(* Mutant: a callback without Handle_ErrorScenario *)
CrashNoted ==
    /\ Alive
    /\ task = "crash log"
    /\ task' = "loop"
    /\ Wake("device status")
    /\ UNCHANGED <<at, mErrorHandlerQueue, queue, mbox, uwb_task_sem, uwb_cb,
                   uwa_dm_cb, timing, low, used, fault, ghost>>

CrashLogged ==
    /\ Alive
    /\ task = "crash log"
    /\ task' = "loop"
    /\ mErrorHandlerQueue' = IF mErrorHandlerQueue < ErrorQueue
                             THEN mErrorHandlerQueue + 1 ELSE mErrorHandlerQueue
    /\ Wake("device status")
    /\ UNCHANGED <<at, queue, mbox, uwb_task_sem, uwb_cb, uwa_dm_cb, timing, low,
                   used, fault, ghost>>

(* Mutant: the shutdown leaves the quick timer running. *)
TakesDisableTimed ==
    /\ Takes("disable")
    /\ uwb_cb.uwb_state # "none"
    /\ uwb_cb' = [uwb_cb EXCEPT !.uwb_state = "wait close"]
    /\ hal' = IF hal = "open" THEN "closing" ELSE hal
    /\ client' = IF hal = "open" THEN Append(client, "close") ELSE client
    /\ task' = IF hal = "open" THEN "close hal" ELSE task
    /\ UNCHANGED <<api, uwb_task_sem, uwa_dm_cb, timing, fault>>

(* uwa_dm_disable_complete and uwb_task_shutdown_uwbc, which closes the HAL *)
TakesDisable ==
    /\ Takes("disable")
    /\ IF uwb_cb.uwb_state = "none"
       THEN /\ Through(uwa_dm_cb.p_dm_rsp_cback)
            /\ Wake("disable")
            /\ uwa_dm_cb' = NoApp
            /\ UNCHANGED <<task, uwb_cb, timing, low>>
       ELSE /\ timer' = "off" /\ cmd_retry_count' = 0
            /\ uwb_cb' = [uwb_cb EXCEPT !.uwb_state = "wait close"]
            /\ hal' = IF hal = "open" THEN "closing" ELSE hal
            /\ client' = IF hal = "open" THEN Append(client, "close") ELSE client
            /\ task' = IF hal = "open" THEN "close hal" ELSE task
            /\ UNCHANGED <<api, uwa_dm_cb, fault>>
    /\ UNCHANGED uwb_task_sem

(* phNxpUciHal_close goes on once the client has stopped, and deletes it. *)
HalCloses ==
    /\ Alive
    /\ task = "close hal" /\ hal = "client stopped"
    /\ hal' = "closed" /\ client' = << >>
    /\ task' = "loop"
    /\ UNCHANGED <<at, api, mErrorHandlerQueue, queue, mbox, uwb_task_sem, uwb_cb,
                   uwa_dm_cb, timing, used, fault, ghost>>

(* HAL_UWB_CLOSE_CPLT_EVT in uwb_main_handle_hal_evt: the end of the       *)
(* disable, or else the failure of an enable.                              *)
TakesClosed ==
    /\ Takes("closed")
    /\ IF uwa_dm_cb.p_dm_rsp_cback
       THEN LET ends == uwb_cb.uwb_state = "wait close" IN
            /\ Wake(IF ends THEN "disable" ELSE "enable")
            /\ uwa_dm_cb' = IF ends THEN NoApp ELSE [uwa_dm_cb EXCEPT !.active = TRUE]
            /\ uwb_cb' = [uwb_cb EXCEPT !.uwb_state = "none"]
       ELSE UNCHANGED <<api, uwb_cb, uwa_dm_cb>>
    /\ UNCHANGED <<uwb_task_sem, task, timing, low, fault>>

TakesShutdown ==
    /\ Takes("shutdown")
    /\ uwb_task_sem' = 1
    /\ task' = "ended"
    /\ UNCHANGED <<api, uwb_cb, uwa_dm_cb, timing, low, fault>>

UwbTask ==
    \/ Begin \/ CrashLogged \/ HalCloses
    \/ TakesEnable \/ TakesReady \/ TakesRegister
    \/ TakesCmd \/ TakesRsp \/ TakesTimeout \/ TakesCrash
    \/ TakesDisable \/ TakesClosed \/ TakesShutdown
-----------------------------------------------------------------------------
(* The timer daemon outranks every task. *)
TimerFires ==
    /\ Alive
    /\ timer = "on"
    /\ timer' = "fired" /\ UNCHANGED cmd_retry_count
    /\ Post("timeout")
    /\ UNCHANGED <<at, api, mErrorHandlerQueue, queue, uwb_task_sem, task, uwb_cb,
                   uwa_dm_cb, low, used, ghost>>

(* The client thread and uwb_main_hal_cback *)
ClientTakes(event) ==
    /\ Alive /\ ClientRuns
    /\ hal \in {"open", "closing"}
    /\ client # << >> /\ Head(client) = event
    /\ client' = Tail(client)
    /\ UNCHANGED <<at, api, mErrorHandlerQueue, queue, uwb_task_sem, task, uwb_cb,
                   uwa_dm_cb, timing, used, ghost>>

ClientOpens ==
    /\ ClientTakes("open")
    /\ IF uwb_cb.uwb_state = "wait open" THEN Post("ready") ELSE UNCHANGED <<mbox, fault>>
    /\ UNCHANGED hal

ClientCloses ==
    /\ ClientTakes("close")
    /\ Post("closed")
    /\ hal' = "client stopped"

(* uwb_main_hal_data_cback with a packet of the controller *)
Packet(event) ==
    /\ Alive /\ ClientRuns
    /\ hal = "open" /\ client = << >> /\ uwb_cb.uwb_state = "idle"
    /\ Post(event)
    /\ UNCHANGED <<at, api, mErrorHandlerQueue, queue, uwb_task_sem, task, uwb_cb,
                   uwa_dm_cb, timing, low, calls, ghost>>

RspArrives ==
    /\ timer # "off"
    /\ Packet("rsp")
    /\ UNCHANGED crashes

(* The firmware runs once it has been downloaded, after isUfaEnabled. *)
CrashArrives ==
    /\ isUfaEnabled
    /\ crashes < MaxCrash
    /\ crashes' = crashes + 1
    /\ Packet("crash")

App ==
    \/ InitStart \/ UwaInit \/ Enabled \/ Registered \/ DeviceInit \/ Abandon
    \/ Call \/ Return \/ ReportTimeOut

Ends(t) == ShutDown(t) \/ NotInitialized(t) \/ CleanUp(t) \/ Finalize(t)

Next ==
    \/ App \/ Restart \/ (\E t \in Waiter : Ends(t))
    \/ UwbTask \/ TimerFires
    \/ ClientOpens \/ ClientCloses \/ RspArrives \/ CrashArrives

(* Every task that can run does, at last; the controller owes nothing, and *)
(* the application calls or stops as it likes.                             *)
Fairness ==
    /\ WF_vars(UwbTask) /\ WF_vars(TimerFires)
    /\ WF_vars(ClientOpens \/ ClientCloses)
    /\ WF_vars(InitStart \/ UwaInit \/ Enabled \/ Registered \/ DeviceInit \/ Abandon)
    /\ WF_vars(Return \/ CleanUp("app") \/ Finalize("app"))
    /\ WF_vars(Ends("recovery") \/ Restart)

Spec == Init /\ [][Next]_vars /\ Fairness
-----------------------------------------------------------------------------
(* UWA_Init fills uwb_cb from the application's task and uwb_task clears   *)
(* it.  The stack never calls through a table or a callback that is gone.  *)
InitSurvives == fault = "null call" => overlap

(* Nobody, neither timer, client, application nor recovery, sends to the   *)
(* queue once Finalize has released it: its handle is never cleared.       *)
QueueOutlivesSenders == fault # "queue released"

(* A start finds the HAL closed, the quick timer stopped and no UWB task   *)
(* of before (AppCallbacks.c: "Error Recovery: do uwbd cleanup, fw         *)
(* download, move to ready state"), unless a recovery met the application  *)
(* starting or ending.                                                     *)
FreshStart == fault = "leftover" => overlap

(* An application that is up has the whole stack under it, or a recovery   *)
(* is taking it down: a restart leaves no application of before.           *)
UpMeansUp ==
    at["app"] \in {"device init", "up", "call"} /\ at["recovery"] = "idle" =>
        /\ isUfaEnabled /\ devMgmtSem # Null
        /\ queue = "live" /\ task \in {"loop", "crash log"}
        /\ hal = "open" /\ uwb_cb = [p_hal |-> TRUE, uwb_state |-> "idle"]

(* A crash is followed by a new start of the application.                  *)
ComesBack == task = "crash log" ~> (at["app"] = "start" \/ overlap)
=============================================================================
