--------------------------- MODULE OsalSend_proofs ---------------------------
(***************************************************************************)
(* The race on the static message of phUwb_OSAL_send_msg harms only the    *)
(* tasks that were overtaken in it, for any number of tasks with           *)
(* priorities of their own.                                                *)
(***************************************************************************)
EXTENDS OsalSend, TLAPS

Message == [eMsgType : {"none"} \cup {Kind[t] : t \in Sender}, pMsgData : Nat]
Entry   == [m : Message, by : Sender, arg : Nat, alone : BOOLEAN]

(* The types, and what is left to do: the send comes last. *)
Shape ==
    /\ msg \in Message
    /\ todo \in [Sender -> SUBSET (Field \cup {"send"})]
    /\ \A t \in Inside : "send" \in todo[t]
    /\ arg \in [Sender -> Nat]
    /\ sent \in Nat

(* Who is inside with a task of higher priority has been overtaken. *)
LowerOvertaken == \A t, u \in Inside : Prio[t] < Prio[u] => t \in overtaken

(* What a task that was not overtaken has assigned is still there. *)
Passed(t) == [eMsgType |-> Kind[t], pMsgData |-> arg[t]]
Kept == \A t \in Inside \ overtaken : \A f \in Field \ todo[t] : msg[f] = Passed(t)[f]

(* What is in the queue of OnlyOvertakenSuffer, element by element *)
Intact(e) == e.alone => e.m = [eMsgType |-> Kind[e.by], pMsgData |-> e.arg]
Posted == queue \in Seq({e \in Entry : Intact(e)})

IInv == Shape /\ LowerOvertaken /\ Kept /\ Posted

(* Nothing is posted and nobody is inside. *)
LEMMA InitIInv == Init => IInv
<1> SUFFICES ASSUME Init PROVE IInv
  OBVIOUS
<1>1. Inside = {}
  BY DEF Init, Inside
<1>2. Shape
  BY <1>1 DEF Init, Shape, Message
<1>3. LowerOvertaken /\ Kept
  BY <1>1 DEF LowerOvertaken, Kept
<1>4. Posted
  BY DEF Init, Posted
<1> QED BY <1>2, <1>3, <1>4 DEF IInv

(* A task that runs has overtaken whoever else is inside. *)
LEMMA OthersOvertaken ==
  ASSUME IInv, NEW t \in Inside, Runs(t)
  PROVE  \A u \in Inside \ {t} : u \in overtaken
  BY DEF IInv, LowerOvertaken, Runs

(* A task that enters overtakes all that are inside, and has assigned      *)
(* nothing yet.                                                            *)
LEMMA CallIInv == ASSUME IInv, NEW t \in Sender, Call(t) PROVE IInv'
<1>1. Inside' = Inside \cup {t} /\ t \notin Inside
  BY DEF Call, Inside, IInv, Shape, Field
<1>2. Shape'
  BY <1>1 DEF Call, Inside, IInv, Shape, Field
<1>3. LowerOvertaken'
  <2> SUFFICES ASSUME NEW u \in Inside', NEW v \in Inside', Prio[u] < Prio[v]
               PROVE  u \in overtaken'
    BY DEF LowerOvertaken
  <2>1. CASE u \in Inside
    BY <1>1, <2>1 DEF Call
  <2>2. CASE u = t
    BY <1>1, <2>2, OsalSendAssumption DEF Call, Runs, Inside
  <2> QED BY <1>1, <2>1, <2>2
<1>4. Kept'
  <2>1. Inside' \ overtaken' \subseteq {t}
    BY <1>1 DEF Call
  <2>2. Field \ todo'[t] = {}
    BY DEF Call, IInv, Shape
  <2> QED BY <2>1, <2>2 DEF Kept
<1>5. Posted'
  BY DEF Call, IInv, Posted, Intact
<1> QED BY <1>2, <1>3, <1>4, <1>5 DEF IInv

(* An assignment spoils the message of those inside, who are overtaken. *)
LEMMA AssignIInv ==
  ASSUME IInv, NEW t \in Sender, NEW f \in Field, Assign(t, f) PROVE IInv'
<1>1. Inside' = Inside /\ t \in Inside
  <2>1. t \in Inside
    BY DEF Assign, Inside
  <2>2. "send" \in todo'[t]
    BY <2>1 DEF Assign, IInv, Shape, Field
  <2>3. \A u \in Sender \ {t} : todo'[u] = todo[u]
    BY DEF Assign, IInv, Shape
  <2> QED BY <2>1, <2>2, <2>3 DEF Inside
<1>2. Shape'
  <2>1. msg' \in Message
    BY DEF Assign, IInv, Shape, Message, Field
  <2>2. todo' \in [Sender -> SUBSET (Field \cup {"send"})]
    BY DEF Assign, IInv, Shape
  <2>3. \A u \in Inside' : "send" \in todo'[u]
    BY <1>1 DEF Assign, IInv, Shape, Field
  <2> QED BY <2>1, <2>2, <2>3 DEF Shape, Assign, IInv
<1>3. LowerOvertaken'
  BY <1>1 DEF Assign, IInv, LowerOvertaken
<1>4. Kept'
  <2> SUFFICES ASSUME NEW u \in Inside' \ overtaken', NEW g \in Field \ todo'[u]
               PROVE  msg'[g] = Passed(u)'[g]
    BY DEF Kept
  <2>1. u = t
    BY <1>1, OthersOvertaken DEF Assign
  <2>2. CASE g = f
    BY <2>1, <2>2 DEF Assign, IInv, Shape, Message, Passed, Field
  <2>3. CASE g # f
    <3>1. g \in Field \ todo[t]
      BY <2>1, <2>3 DEF Assign, IInv, Shape
    <3>2. msg[g] = Passed(t)[g]
      BY <1>1, <2>1, <3>1 DEF Assign, IInv, Kept
    <3>3. msg'[g] = msg[g] /\ Passed(t)' = Passed(t)
      BY <2>3 DEF Assign, IInv, Shape, Message, Passed, Field
    <3> QED BY <2>1, <3>2, <3>3
  <2> QED BY <2>2, <2>3
<1>5. Posted'
  BY DEF Assign, IInv, Posted, Intact
<1> QED BY <1>2, <1>3, <1>4, <1>5 DEF IInv

(* What a task that was not overtaken posts is what it was called with. *)
LEMMA SendIInv == ASSUME IInv, NEW t \in Sender, Send(t) PROVE IInv'
<1>1. Inside' = Inside \ {t} /\ t \in Inside
  BY DEF Send, Inside, IInv, Shape
<1>2. Shape'
  BY <1>1 DEF Send, Inside, IInv, Shape
<1>3. LowerOvertaken'
  BY <1>1 DEF Send, IInv, LowerOvertaken
<1>4. Kept'
  <2>1. \A u \in Inside' : todo'[u] = todo[u]
    BY <1>1 DEF Send, IInv, Shape
  <2> QED BY <1>1, <2>1 DEF Send, IInv, Kept, Passed
<1>5. Posted'
  <2> DEFINE e == [m |-> msg, by |-> t, arg |-> arg[t], alone |-> t \notin overtaken]
  <2>1. e.alone => msg = Passed(t)
    <3> SUFFICES ASSUME t \notin overtaken PROVE msg = Passed(t)
      OBVIOUS
    <3>1. msg = [eMsgType |-> msg["eMsgType"], pMsgData |-> msg["pMsgData"]]
      BY DEF IInv, Shape, Message
    <3>2. \A f \in Field : msg[f] = Passed(t)[f]
      BY <1>1 DEF Send, IInv, Kept, Field
    <3> QED BY <3>1, <3>2 DEF Passed, Field
  <2>2. Intact(e)
    BY <2>1 DEF Intact, Passed
  <2>3. queue' = Append(queue, e)
    BY DEF Send
  <2> HIDE DEF e
  <2>4. e \in Entry
    BY DEF e, Entry, IInv, Shape
  <2> QED BY <2>2, <2>3, <2>4 DEF IInv, Posted
<1> QED BY <1>2, <1>3, <1>4, <1>5 DEF IInv

(* A message leaves the queue. *)
LEMMA TakeIInv == ASSUME IInv, Take PROVE IInv'
<1>1. Shape' /\ LowerOvertaken' /\ Kept'
  BY DEF Take, IInv, Shape, LowerOvertaken, Kept, Passed, Inside
<1>2. Posted'
  BY DEF Take, IInv, Posted
<1> QED BY <1>1, <1>2 DEF IInv

(* A message that its sender filled without being overtaken is in the      *)
(* queue as the sender passed it (UwbAdaptation.c:68), for any tasks with  *)
(* priorities of their own, and whichever order the assignments are in.    *)
THEOREM OvertakenOnly == Spec => []OnlyOvertakenSuffer
<1>1. IInv /\ [Next]_vars => IInv'
  <2> SUFFICES ASSUME IInv, [Next]_vars PROVE IInv'
    OBVIOUS
  <2>1. CASE \E t \in Sender : Call(t)
    BY <2>1, CallIInv
  <2>2. CASE \E t \in Sender : Send(t)
    BY <2>2, SendIInv
  <2>3. CASE \E t \in Sender : \E f \in Field : Assign(t, f)
    BY <2>3, AssignIInv
  <2>4. CASE Take
    BY <2>4, TakeIInv
  <2>5. CASE UNCHANGED vars
    BY <2>5 DEF vars, IInv, Shape, LowerOvertaken, Kept, Posted, Passed, Inside
  <2> QED BY <2>1, <2>2, <2>3, <2>4, <2>5 DEF Next
<1>2. IInv => OnlyOvertakenSuffer
  BY DEF IInv, Posted, OnlyOvertakenSuffer, Intact
<1> QED BY InitIInv, <1>1, <1>2, PTL DEF Spec
=============================================================================
