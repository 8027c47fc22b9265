------------------------------- MODULE HalExt -------------------------------
(***************************************************************************)
(* The HAL's extension commands: phNxpUciHal_send_ext_cmd and its retry    *)
(* loop on the application's task (phNxpUciHal_ext.c), the answers read by *)
(* phNxpUciHal_read_complete on the client thread (phNxpUciHal.c), and the *)
(* timeout callback on the FreeRTOS timer daemon.  The three share the     *)
(* status and the semaphore of ext_cb_data, which no lock protects.  Each  *)
(* call the loop makes may fail, and has its own way out.                  *)
(*                                                                         *)
(* The daemon outranks the application, which outranks the client thread:  *)
(* the client runs while the application waits, for the semaphore or in    *)
(* the transport's write.                                                  *)
(***************************************************************************)
EXTENDS Naturals, Sequences

CONSTANTS MAX_RETRY_COUNT,  \* attempts of one command, 5
          MaxCmd,           \* bound: extension commands
          MaxLost,          \* bound: attempts the controller does not answer
          MaxFail           \* bound: calls of the OSAL and the transport that fail

ASSUME HalExtAssumption ==
    /\ MAX_RETRY_COUNT \in Nat \ {0}
    /\ MaxCmd \in Nat /\ MaxLost \in Nat /\ MaxFail \in Nat

VARIABLES
    app,              \* the application in phNxpUciHal_process_ext_cmd_rsp
    cmd,              \* the number of the present command
    ext_cmd_retry_cnt,
    status,           \* ext_cb_data.status
    sem,              \* ext_cb_data.sem: its tokens, or "null"
    hal_ext_enabled,
    timer,            \* the timer of uwbTimeoutTimerId runs
    callback,         \* hal_extns_write_rsp_timeout_cb: "none" or "delay"
    client,           \* the client thread: "reads", or "posts" the semaphore
    written,          \* attempts whose answer the client has not read
    lost,             \* attempts left unanswered
    failed,           \* calls that have failed
    late,             \* ghost: an answer or a timer has outlived the wait for it
    answers,          \* ghost: the responses the client has read
    returned,         \* ghost: what each command returned, after how many
                      \* attempts, and the call it failed at, or "loop"
    passedUp          \* ghost: commands whose answer went up to the UCI core

command  == <<cmd, ext_cmd_retry_cnt, hal_ext_enabled, returned>>
exchange == <<app, command, failed>>
remote   == <<written, lost>>
ghosts   == <<late, answers, passedUp>>
vars     == <<exchange, status, sem, timer, callback, client, remote, ghosts>>

Init ==
    /\ app = "idle"
    /\ cmd = 0
    /\ ext_cmd_retry_cnt = 0
    /\ status = "FAILED"
    /\ sem = "null"
    /\ hal_ext_enabled = FALSE
    /\ timer = FALSE
    /\ callback = "none"
    /\ client = "reads"
    /\ written = << >> /\ lost = 0
    /\ failed = 0
    /\ late = FALSE
    /\ answers = {}
    /\ returned = << >>
    /\ passedUp = {}

(* phOsalUwb_ProduceSemaphore: a maximum of one, and NULL is refused. *)
Produced == IF sem = "null" THEN "null" ELSE "1"

(* Nothing of the attempt is under way. *)
Settled == written = << >> /\ client = "reads" /\ callback = "none"

Fails == failed < MaxFail /\ failed' = failed + 1
-----------------------------------------------------------------------------
(* clean_and_return, HAL_DISABLE_EXT: the command is over, whatever of it  *)
(* is still under way, and the client thread may run.                      *)
Return(ok, exit) ==
    /\ returned' = Append(returned, [ok |-> ok, tries |-> ext_cmd_retry_cnt, exit |-> exit])
    /\ sem' = "null"
    /\ hal_ext_enabled' = FALSE
    /\ app' = "idle"
    /\ late' = (late \/ ~Settled)
    /\ UNCHANGED <<cmd, ext_cmd_retry_cnt, status, callback, client, remote, answers, passedUp>>

(* phNxpUciHal_init_cb_data finds no memory: nothing has been set up. *)
NoSemaphore ==
    /\ app = "idle" /\ cmd < MaxCmd
    /\ Fails
    /\ cmd' = cmd + 1
    /\ ext_cmd_retry_cnt' = 0
    /\ returned' = Append(returned, [ok |-> FALSE, tries |-> 0, exit |-> "semaphore"])
    /\ UNCHANGED <<app, hal_ext_enabled, status, sem, timer, callback, client, remote, ghosts>>

(* Mutant: the answers are not diverted. *)
BeginUndiverted ==
    /\ \/ /\ app = "idle" /\ cmd < MaxCmd
          /\ cmd' = cmd + 1
          /\ sem' = "0"
       \/ /\ app = "again"
          /\ UNCHANGED <<cmd, sem>>
    /\ status' = "SUCCESS"
    /\ UNCHANGED hal_ext_enabled

(* HAL_ENABLE_EXT and the command's semaphore; each attempt's status. *)
Begin ==
    /\ \/ /\ app = "idle" /\ cmd < MaxCmd
          /\ cmd' = cmd + 1
          /\ hal_ext_enabled' = TRUE
          /\ sem' = "0"
       \/ /\ app = "again"
          /\ UNCHANGED <<cmd, hal_ext_enabled, sem>>
    /\ status' = "SUCCESS"

(* The attempts of this command that have been written. *)
Attempts == IF app = "idle" THEN 0 ELSE ext_cmd_retry_cnt

(* The write is done or fails. *)
Send ==
    /\ Begin
    /\ \/ /\ app' = "sent"
          /\ written' = Append(written, cmd')
          /\ ext_cmd_retry_cnt' = Attempts + 1
          /\ UNCHANGED failed
       \/ /\ Fails
          /\ app' = "unsent"
          /\ ext_cmd_retry_cnt' = Attempts
          /\ UNCHANGED written
    /\ UNCHANGED <<timer, callback, client, lost, returned, ghosts>>

(* A failed write leaves the local status as it is: UWBSTATUS_FAILED at    *)
(* first, later what phOsalUwb_Timer_Start has returned, SUCCESS.          *)
Unsent ==
    /\ app = "unsent"
    /\ Return(ext_cmd_retry_cnt > 0, "write")
    /\ UNCHANGED <<failed, timer>>

(* Mutant: the timer is started for the first attempt only. *)
StartTimerOnce ==
    /\ app = "sent"
    /\ timer' = (timer \/ ext_cmd_retry_cnt = 1)
    /\ app' = "wait"
    /\ UNCHANGED <<command, failed, status, sem, callback, client, remote, ghosts>>

StartTimer ==
    /\ app = "sent"
    /\ timer' = TRUE
    /\ app' = "wait"
    /\ UNCHANGED <<command, failed, status, sem, callback, client, remote, ghosts>>

(* xTimerChangePeriod, which starts the timer too, or xTimerStart after it *)
(* has failed: the command is on its way, and the loop ends.               *)
TimerNotStarted ==
    /\ app = "sent"
    /\ Fails
    /\ timer' \in {timer, TRUE}
    /\ Return(FALSE, "start")

(* The wait of 2000 ms outlasts the timer's 100 ms. *)
Wake ==
    /\ app = "wait"
    /\ sem = "1"
    /\ sem' = "0"
    /\ app' = "check"
    /\ UNCHANGED <<command, failed, status, timer, callback, client, remote, ghosts>>

(* The wait ends all the same, because the daemon has not run: the timer   *)
(* is not stopped, and the local status is still the SUCCESS of its start. *)
WaitEnds ==
    /\ app = "wait"
    /\ sem # "1"
    /\ Fails
    /\ Return(TRUE, "wait")
    /\ UNCHANGED timer

(* Mutant: an attempt that timed out is not made again. *)
CheckRetryOnly ==
    /\ app = "check"
    /\ app' = IF status = "COMMAND_RETRY" /\ ext_cmd_retry_cnt < MAX_RETRY_COUNT
              THEN "again" ELSE "result"
    /\ UNCHANGED <<command, failed, status, sem, timer, callback, client, remote, ghosts>>

(* The condition of the loop *)
Check ==
    /\ app = "check"
    /\ app' = IF status \in {"TIMEOUT", "COMMAND_RETRY"} /\ ext_cmd_retry_cnt < MAX_RETRY_COUNT
              THEN "again" ELSE "result"
    /\ UNCHANGED <<command, failed, status, sem, timer, callback, client, remote, ghosts>>

(* The timer is stopped and the status read once more. *)
Result ==
    /\ app = "result"
    /\ timer' = FALSE
    /\ Return(status = "SUCCESS", "loop")
    /\ UNCHANGED failed

(* xTimerStop finds no room in the daemon's queue: the timer runs on. *)
TimerNotStopped ==
    /\ app = "result"
    /\ timer
    /\ Fails
    /\ Return(FALSE, "stop")
    /\ UNCHANGED timer
-----------------------------------------------------------------------------
(* The client thread: phNxpUciHal_read_complete. *)
ClientRuns == app \in {"idle", "sent", "unsent", "wait"}

(* The controller answers the attempts in order, with a response or with  *)
(* the notification COMMAND_RETRY.  A response goes to the command when    *)
(* hal_ext_enabled, whoever's it is, and up to the core otherwise.         *)
ReadPacket ==
    /\ ClientRuns
    /\ client = "reads"
    /\ written # << >>
    /\ \/ /\ status' = "COMMAND_RETRY"
          /\ client' = "posts"
          /\ UNCHANGED <<answers, passedUp>>
       \/ \E says \in {"SUCCESS", "FAILED"} :
             /\ answers' = answers \cup {[cmd |-> Head(written), says |-> says]}
             /\ IF hal_ext_enabled
                THEN status' = says /\ client' = "posts" /\ UNCHANGED passedUp
                ELSE passedUp' = passedUp \cup {Head(written)} /\ UNCHANGED <<status, client>>
    /\ written' = Tail(written)
    /\ UNCHANGED <<exchange, sem, timer, callback, lost, late>>

PostSemaphore ==
    /\ ClientRuns
    /\ client = "posts"
    /\ sem' = Produced
    /\ client' = "reads"
    /\ UNCHANGED <<exchange, status, timer, callback, remote, ghosts>>
-----------------------------------------------------------------------------
(* The timer daemon: hal_extns_write_rsp_timeout_cb writes the status,     *)
(* sleeps a tick, and posts whatever semaphore is there then.              *)
Unanswered == Settled /\ sem # "1" /\ app = "wait"

(* Mutant: the callback posts the semaphore and leaves the status. *)
ExpireSilent ==
    /\ timer /\ callback = "none"
    /\ late' = (late \/ ~Unanswered)
    /\ timer' = FALSE
    /\ callback' = "delay"
    /\ UNCHANGED <<exchange, status, sem, client, remote, answers, passedUp>>

Expire ==
    /\ timer /\ callback = "none"
    /\ late' = (late \/ ~Unanswered)
    /\ timer' = FALSE
    /\ status' = "TIMEOUT"
    /\ callback' = "delay"
    /\ UNCHANGED <<exchange, sem, client, remote, answers, passedUp>>

DelayEnds ==
    /\ callback = "delay"
    /\ sem' = Produced
    /\ callback' = "none"
    /\ UNCHANGED <<exchange, status, timer, client, remote, ghosts>>
-----------------------------------------------------------------------------
(* The controller does not answer an attempt. *)
Lose ==
    /\ written # << >> /\ lost < MaxLost
    /\ written' = Tail(written)
    /\ lost' = lost + 1
    /\ UNCHANGED <<exchange, status, sem, timer, callback, client, ghosts>>

Attempt     == Send \/ StartTimer \/ Wake \/ Check \/ Result
Exit        == NoSemaphore \/ Unsent \/ TimerNotStarted \/ WaitEnds \/ TimerNotStopped
Client      == ReadPacket \/ PostSemaphore

Next == Attempt \/ Exit \/ Client \/ Expire \/ DelayEnds \/ Lose

(* The tasks run when they can; a timer that is not stopped expires.  The  *)
(* controller need not answer, and no wait need end by itself.             *)
Spec == /\ Init /\ [][Next]_vars
        /\ WF_vars(StartTimer) /\ WF_vars(Wake) /\ WF_vars(Check) /\ WF_vars(Result)
        /\ WF_vars(app = "again" /\ Send) /\ WF_vars(Unsent)
        /\ WF_vars(Client) /\ WF_vars(Expire) /\ WF_vars(DelayEnds)
-----------------------------------------------------------------------------
Told(c, says) == [cmd |-> c, says |-> says] \in answers

(* SUCCESS means that the controller has said so, but for two ways out of  *)
(* the loop that hand back the SUCCESS of phOsalUwb_Timer_Start: a wait    *)
(* that ends by itself (phNxpUciHal_ext.c:96) and a re-transmission that   *)
(* cannot be written (76).                                                 *)
OkMeansAnswered ==
    ~late => \A c \in 1 .. Len(returned) :
                 returned[c].ok => \/ Told(c, "SUCCESS")
                                   \/ returned[c].exit = "wait"
                                   \/ returned[c].exit = "write" /\ returned[c].tries > 0

(* The status and the semaphore have three writers.  A command fails       *)
(* because of a call of its own (phNxpUciHal_ext.c:67, 76, 87, 111), or    *)
(* else never after the controller's SUCCESS, and only at its word or      *)
(* after the last attempt (101-122).                                       *)
FailureIsReal ==
    ~late => \A c \in 1 .. Len(returned) :
                 ~returned[c].ok =>
                     \/ returned[c].exit \in {"semaphore", "start", "stop"}
                     \/ returned[c].exit = "write" /\ returned[c].tries = 0
                     \/ /\ ~Told(c, "SUCCESS")
                        /\ Told(c, "FAILED") \/ returned[c].tries = MAX_RETRY_COUNT

(* The answer of an extension command does not reach the UCI core, which   *)
(* would take it for the answer of its own command: hal_ext_enabled is set *)
(* before the first write and until the command is over, whichever way it  *)
(* ends (phNxpUciHal.c:510).  An answer that comes after that goes up.     *)
KeptFromCore == ~late => passedUp = {}

(* Every extension command returns, answered or not, in time or late, and  *)
(* whatever fails, without the end of the 2000 ms (phNxpUciHal_ext.c:96).  *)
ExtReturns == app # "idle" ~> app = "idle"
=============================================================================
