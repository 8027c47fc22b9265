------------------------------ MODULE OsalSend ------------------------------
(***************************************************************************)
(* phUwb_OSAL_send_msg (UwbAdaptation.c) under preemption.  Every task     *)
(* that posts to the UWB task fills the same static message and hands it   *)
(* to phOsalUwb_msgsnd, which copies it into the queue at once.  Nothing   *)
(* locks the message between the two.                                      *)
(*                                                                         *)
(* The scheduler is FreeRTOS's: preemptive by priority.  The tasks that    *)
(* post have priorities of their own, so a task in the middle of the       *)
(* function is overtaken only by one of higher priority, which finishes    *)
(* first.  Filling an object that another task fills is a data race: the   *)
(* order of the two assignments is the compiler's choice.                  *)
(***************************************************************************)
EXTENDS Naturals, Sequences

CONSTANTS Sender,    \* the tasks that post: HAL client, application, daemon...
          Prio,      \* their priorities
          TaskPrio,  \* the priority of the UWB task, which takes the messages
          Kind,      \* the event type each task posts
          MaxSend    \* bound: messages posted in all

ASSUME OsalSendAssumption ==
    /\ Prio \in [Sender -> Nat]
    /\ \A t, u \in Sender : t # u => Prio[t] # Prio[u]
    /\ TaskPrio \in Nat
    /\ MaxSend \in Nat
    /\ DOMAIN Kind = Sender

VARIABLES
    msg,       \* the static phLibUwb_Message_t of phUwb_OSAL_send_msg
    todo,      \* what each task has still to do in the function
    arg,       \* the buffer each task was called with, named by the call
    queue,     \* the queue behind gp_uwbtask_ctrl->pMsgQHandle
    sent,      \* number of calls so far, which also names the buffers
    overtaken  \* ghost: senders another sender has overtaken in the function

vars == <<msg, todo, arg, queue, sent, overtaken>>

Field == {"eMsgType", "pMsgData"}

Init ==
    /\ msg = [eMsgType |-> "none", pMsgData |-> 0]
    /\ todo = [t \in Sender |-> {}]
    /\ arg = [t \in Sender |-> 0]
    /\ queue = << >>
    /\ sent = 0
    /\ overtaken = {}
-----------------------------------------------------------------------------
Inside == {t \in Sender : todo[t] # {}}

(* The processor is the task's unless one of higher priority is inside. *)
Runs(t) == \A u \in Inside \ {t} : Prio[u] < Prio[t]

Call(t) ==
    /\ todo[t] = {}
    /\ Runs(t)
    /\ sent < MaxSend
    /\ sent' = sent + 1
    /\ arg' = [arg EXCEPT ![t] = sent + 1]
    /\ todo' = [todo EXCEPT ![t] = Field \cup {"send"}]
    /\ overtaken' = (overtaken \ {t}) \cup Inside
    /\ UNCHANGED <<msg, queue>>

(* Mutant: the type is assigned only for the cases the switch names. *)
AssignNamed(t, f) ==
    /\ f \in todo[t]
    /\ Runs(t)
    /\ msg' = [msg EXCEPT ![f] = IF f = "pMsgData" THEN arg[t]
                                 ELSE IF Kind[t] = "timer" THEN @ ELSE Kind[t]]
    /\ todo' = [todo EXCEPT ![t] = @ \ {f}]
    /\ UNCHANGED <<arg, queue, sent, overtaken>>

Assign(t, f) ==
    /\ f \in todo[t]
    /\ Runs(t)
    /\ msg' = [msg EXCEPT ![f] = IF f = "eMsgType" THEN Kind[t] ELSE arg[t]]
    /\ todo' = [todo EXCEPT ![t] = @ \ {f}]
    /\ UNCHANGED <<arg, queue, sent, overtaken>>

(* phOsalUwb_msgsnd with NO_DELAY: xQueueSendToBack copies the message.    *)
(* The queue is long enough here; UciCore has the one that is full.        *)
Send(t) ==
    /\ todo[t] = {"send"}
    /\ Runs(t)
    /\ queue' = Append(queue, [m |-> msg, by |-> t, arg |-> arg[t],
                               alone |-> t \notin overtaken])
    /\ todo' = [todo EXCEPT ![t] = {}]
    /\ UNCHANGED <<msg, arg, sent, overtaken>>

(* The UWB task handles the oldest message, and frees its buffer.  A       *)
(* poster of its own priority may be in the middle of the function.        *)
Take ==
    /\ queue # << >>
    /\ \A u \in Inside : Prio[u] <= TaskPrio
    /\ queue' = Tail(queue)
    /\ UNCHANGED <<msg, todo, arg, sent, overtaken>>

Next ==
    \/ \E t \in Sender : Call(t) \/ Send(t) \/ (\E f \in Field : Assign(t, f))
    \/ Take

Spec == Init /\ [][Next]_vars
-----------------------------------------------------------------------------
(* A message in the queue is the one its sender passed, unless the sender  *)
(* was overtaken in the function: an interrupted post never harms the one  *)
(* that interrupted it (UwbAdaptation.c:68-93).                            *)
OnlyOvertakenSuffer ==
    \A i \in 1 .. Len(queue) :
        LET e == queue[i] IN
        e.alone => e.m = [eMsgType |-> Kind[e.by], pMsgData |-> e.arg]
=============================================================================
