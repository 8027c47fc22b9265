--------------------------- MODULE UwbNotify_proofs ---------------------------
(***************************************************************************)
(* A call that ends with a notification does what it says, for any         *)
(* sessions, calls and faults, and whichever callback runs between any two *)
(* steps of waitforNotification.                                           *)
(*                                                                         *)
(* The invariants of UwbNotify speak of the end of a call.  What leads to  *)
(* it is said of the messages under way, from the mailbox on to what the   *)
(* controller has sent, as one sequence: which of them open the command    *)
(* window (Window), which post a token and for whom (Control), what the    *)
(* response says of the command (Answered), and which session and transmit *)
(* statuses there are for each place the caller may be at (Statuses,       *)
(* Transfers).  A step then adds messages behind, takes the first, or      *)
(* leaves them, and the lemmas about sequences say what that does.         *)
(***************************************************************************)
EXTENDS UwbNotify, SequenceTheorems, TLAPS

(* What is on its way to the UWB task, in order *)
transit == mbox \o out

(* What travels, and what the variables hold *)
CallType == [op : SessionOp \cup {"data"}, session : Session, n : Nat]

RspType      == [event : SessionOp, status : {"ok", "error"}]
StatusType   == [event : {"session"}, session : Session, state : SessionState,
                 reason : {"command", "inband", "other"}]
TransmitType == [event : {"transmit"}, session : Session, seq : Nat, status : Transfer]
CreditType   == [event : {"credit"}, session : Session]
CmdType      == [event : {"cmd"}, cmd : CallType]

Packet  == RspType \cup StatusType \cup TransmitType \cup CreditType \cup {GivenUp, DeviceStatus}
Message == Packet \cup CmdType

SessionInfo    == [session : Session, state : SessionState]
TransmitInfo   == [session : Session \cup {0}, seq : Nat, status : Transfer]
CreditInfo     == [session : Session \cup {0}]
SessionStates  == [Session -> SessionState]
Budget         == [call : 0 .. MaxCall, fault : 0 .. MaxFault]
Mishaps        == SUBSET {"stray", "expired", "late", "given_up"}
Result         == [op : SessionOp \cup {"data"},
                   status : {"none", "ok", "error", "timeout", "failed"},
                   done : BOOLEAN, held : BOOLEAN, clean : BOOLEAN, fresh : BOOLEAN]

Mailbox        == {q \in Seq(Message) : Len(q) <= 1}
Outbox         == Seq(Packet)

(* What TypeOK leaves out *)
MoreTypeOK ==
    /\ call \in CallType
    /\ sessionInfo \in SessionInfo
    /\ dataTransmit \in TransmitInfo
    /\ dataCredit \in CreditInfo
    /\ mbox \in Seq(Message) /\ out \in Seq(Packet)
    /\ done \in BOOLEAN /\ held \in BOOLEAN
    /\ spoilt \in Mishaps
    /\ result \in Result

-----------------------------------------------------------------------------
(* The events that answer a command, those that open the command window,   *)
(* and where the caller waits for a notification                           *)
Answers == SessionOp \cup {"timeout"}
Openers == Answers \cup {"credit"}
Waits   == {"check", "set", "ntf", "reset", "judge"}

(* The messages of a sequence, and whether there are some of events E, one *)
(* at most of them                                                         *)
In(q)        == {q[i] : i \in 1 .. Len(q)}
Has(q, E)    == \E m \in In(q) : m.event \in E
Single(q, E) == \A i, j \in 1 .. Len(q) : q[i].event \in E /\ q[j].event \in E => i = j

(* Each packet of data is followed by the credit. *)
Credited(q) ==
    \A i \in 1 .. Len(q) : q[i].event = "transmit" =>
        \E j \in 1 .. Len(q) : i < j /\ q[j].event = "credit"

(* A status that calls for another is followed by the one for success; and *)
(* any other is the last.                                                  *)
Final(q) ==
    \A i \in 1 .. Len(q) : q[i].event = "transmit" =>
        IF q[i].status = "repetition"
        THEN \E j \in 1 .. Len(q) : i < j /\ q[j].event = "transmit" /\ q[j].status = "ok"
        ELSE \A j \in 1 .. Len(q) : q[j].event = "transmit" => j <= i

(* The command window is shut while a packet that opens it is to come.     *)
Window ==
    /\ uci_cmd_window = 0 <=> Has(transit, Openers)
    /\ Single(transit, Openers)
    /\ Credited(transit)

(* The command of the call is still in the mailbox. *)
Sending == mbox # << >> /\ Head(mbox).event = "cmd"

(* What goes with the places of the caller. *)
Places ==
    /\ Sending => Head(mbox).cmd = call /\ pc \in {"rsp", "sent"} /\ ~done
    /\ pc = "rsp" => call.op \in SessionOp
    /\ pc = "sent" => call.op = "data"
    /\ pc \in Waits => (awaited = "session" <=> call.op \in SessionOp)
    /\ pc \notin Waits => awaited = "session"
    /\ pc # "idle" => result.op = call.op /\ result.status = "none"
    /\ pc # "idle" /\ InOrder => result.fresh
    /\ done => held

(* Only the data of a call that was carried out is reported sent.          *)
Sent(t) == t.seq <= call.n /\ (t.seq = call.n /\ t.status = "ok" /\ pc # "idle" => done)

(* A call that waits for the credit has been carried out. *)
Data ==
    /\ \A m \in In(transit) : m.event = "transmit" => Sent(m)
    /\ Sent(dataTransmit)
    /\ awaited = "credit" => done

(* The semaphore has a token for the caller that waits, and for no other.  *)
Control ==
    InOrder =>
        /\ devMgmtSem = 1 => pc \in {"rsp", "ntf"} /\ currentEventId = "default" /\ ~Sending
        /\ Has(transit, Answers) => pc = "rsp" /\ devMgmtSem = 0
        /\ \A m \in In(transit) : m.event \in SessionOp => m.event = call.op
        /\ pc = "rsp" /\ devMgmtSem = 0 => currentEventId = call.op
        /\ pc = "ntf" /\ devMgmtSem = 0 => currentEventId = awaited
        /\ pc # "ntf" => currentEventId \in SessionOp \cup {"default"}

(* The response to a session call says whether it was carried out.         *)
Answered ==
    result.fresh =>
        /\ Sending \/ (pc \in {"rsp", "check", "set", "ntf"} /\ call.op \in SessionOp) => InOrder
        /\ pc = "rsp" =>
             /\ \A m \in In(transit) :
                  /\ m.event \in SessionOp => (m.status = "ok" <=> done)
                  /\ m.event = "timeout" => ~done
             /\ devMgmtSem = 1 => (wstatus = "ok" <=> done)
             /\ devMgmtSem = 0 /\ done => Has(transit, SessionOp)
        /\ pc \in Waits /\ awaited = "session" => done

(* The status the call waits for *)
Wanted == [session |-> call.session, state |-> Target[call.op]]

(* Of the statuses of sessions, only the one of the call is under way.     *)
Statuses ==
    /\ pc = "idle" /\ spoilt = {} => ~Has(transit, {"session"})
    /\ pc # "idle" /\ result.fresh /\ spoilt \subseteq {"expired"} =>
         /\ Single(transit, {"session"})
         /\ Has(transit, {"session"}) =>
              /\ done /\ call.op \in SessionOp
              /\ pc \in {"rsp", "check", "set"} \/ (pc = "ntf" /\ devMgmtSem = 0)
              /\ receivedEventId = "session" => Has(transit, SessionOp)
         /\ \A m \in In(transit) : m.event = "session" =>
              m = Status(call.session, Target[call.op], "command")
         /\ done /\ call.op \in SessionOp =>
              Has(transit, {"session"}) \/ sessionInfo = Wanted
         /\ awaited = "session" /\ pc \in {"reset", "judge"} => got

(* A call to send data whose packet has left *)
DataCall == pc # "idle" /\ call.op = "data" /\ ~Sending

(* The transmit statuses under way are of this call. *)
Mine(m) == m.session = call.session /\ m.seq = call.n /\ (m.status = "error" => ~done)

(* Nothing of a transfer is under way. *)
NoTransmit == ~Has(transit, {"transmit"})
NoCredit   == ~Has(transit, {"credit"})

(* What DoneIsOk asks for data *)
Orderly == outranks /\ spoilt = {} /\ wstatus = "ok"

(* The caller has what it waited for, or is woken for it. *)
Holding == pc \in {"reset", "judge"} \/ (pc = "ntf" /\ devMgmtSem = 1)

(* How far the transfer is: its statuses come before its credit, and the   *)
(* caller waits for them in that order.                                    *)
Stage ==
    /\ pc \in {"sent", "check", "set"} \/ Holding => mbox = << >>
    /\ Final(transit)
    /\ \A m \in In(transit) : m.event = "transmit" => Mine(m)
    /\ \A m \in In(transit) : m.event = "credit" /\ done => m.session = call.session
    /\ pc \in {"reset", "judge"} => got
    /\ pc = "judge" => receivedEventId = "default"
    /\ pc \in {"sent", "check", "set"} => receivedEventId # "transmit"
    /\ pc \in {"check", "set"} => receivedEventId # awaited
    /\ awaited = "session" => pc = "sent"
    /\ awaited # "credit" /\ done => ~NoCredit
    /\ awaited # "credit" /\ ~Holding /\ done => ~NoTransmit
    /\ awaited = "transmit" /\ Holding =>
         /\ Mine(dataTransmit)
         /\ dataTransmit.status = "repetition" <=> ~NoTransmit
    /\ awaited = "credit" =>
         /\ NoTransmit
         /\ IF Holding THEN dataCredit.session = call.session ELSE ~NoCredit

(* Between transfers nothing is left of one; and data counts as clean just *)
(* when the former command did not fail.                                   *)
Transfers ==
    /\ Orderly /\ ~DataCall => NoTransmit /\ receivedEventId # "transmit"
    /\ Orderly /\ DataCall => Stage
    /\ pc # "idle" /\ call.op = "data" /\ InOrder => (result.clean <=> wstatus = "ok")
    /\ pc # "idle" /\ call.op = "data" /\ outranks /\ result.clean /\ result.fresh
         /\ done /\ spoilt \subseteq {"expired"} => spoilt = {}

(* The inductive invariant *)
Types == TypeOK /\ MoreTypeOK

Inv == Window /\ Places /\ Data /\ Control /\ Answered /\ Statuses /\ Transfers

IInv == Types /\ OkIsTrue /\ DoneIsOk /\ Inv
-----------------------------------------------------------------------------
(* Lemmas: sequences of messages *)

(* Two sequences, one after the other *)
LEMMA Joined ==
    ASSUME NEW S, NEW q \in Seq(S), NEW p \in Seq(S)
    PROVE  /\ q \o p \in Seq(S)
           /\ Len(q) \in Nat /\ Len(p) \in Nat /\ Len(q \o p) = Len(q) + Len(p)
           /\ \A i \in 1 .. Len(q) : i \in 1 .. Len(q \o p) /\ (q \o p)[i] = q[i]
           /\ \A i \in 1 .. Len(p) : Len(q) + i \in 1 .. Len(q \o p) /\ (q \o p)[Len(q) + i] = p[i]
           /\ \A k \in 1 .. Len(q \o p) : k \in 1 .. Len(q) \/ \E i \in 1 .. Len(p) : k = Len(q) + i
<1>1. q \o p \in Seq(S) /\ Len(q) \in Nat /\ Len(p) \in Nat /\ Len(q \o p) = Len(q) + Len(p)
  OBVIOUS
<1>2. \A i \in 1 .. Len(q) : i \in 1 .. Len(q \o p) /\ (q \o p)[i] = q[i]
  BY <1>1
<1>3. \A i \in 1 .. Len(p) : Len(q) + i \in 1 .. Len(q \o p) /\ (q \o p)[Len(q) + i] = p[i]
  BY <1>1
<1>4. ASSUME NEW k \in 1 .. Len(q \o p), k \notin 1 .. Len(q)
      PROVE  \E i \in 1 .. Len(p) : k = Len(q) + i
  <2>1. k - Len(q) \in 1 .. Len(p) /\ k = Len(q) + (k - Len(q))
    BY <1>1, <1>4
  <2> QED BY <2>1
<1> QED BY <1>1, <1>2, <1>3, <1>4

(* The first message and the rest *)
LEMMA Rest ==
    ASSUME NEW S, NEW q \in Seq(S), q # << >>
    PROVE  /\ Tail(q) \in Seq(S) /\ Head(q) \in S
           /\ Len(q) \in Nat /\ Len(q) > 0 /\ Len(Tail(q)) = Len(q) - 1 /\ Head(q) = q[1]
           /\ \A i \in 1 .. Len(Tail(q)) : i + 1 \in 1 .. Len(q) /\ Tail(q)[i] = q[i + 1]
           /\ \A k \in 1 .. Len(q) : k = 1 \/ (k - 1 \in 1 .. Len(Tail(q)) /\ q[k] = Tail(q)[k - 1])
OBVIOUS

(* The messages of two sequences joined are those of both. *)
LEMMA InJoined ==
    ASSUME NEW S, NEW q \in Seq(S), NEW p \in Seq(S)
    PROVE  In(q \o p) = In(q) \cup In(p)
<1>1. ASSUME NEW m \in In(q \o p) PROVE m \in In(q) \cup In(p)
  BY <1>1, Joined DEF In
<1>2. ASSUME NEW m \in In(q) PROVE m \in In(q \o p)
  BY <1>2, Joined DEF In
<1>3. ASSUME NEW m \in In(p) PROVE m \in In(q \o p)
  <2>1. PICK i \in 1 .. Len(p) : m = p[i]
    BY DEF In
  <2>2. Len(q) + i \in 1 .. Len(q \o p) /\ (q \o p)[Len(q) + i] = m
    BY <2>1, Joined
  <2> QED BY <2>2 DEF In
<1> QED BY <1>1, <1>2, <1>3

(* The messages of a sequence are its first and those of the rest. *)
LEMMA InRest ==
    ASSUME NEW S, NEW q \in Seq(S), q # << >>
    PROVE  In(q) = {Head(q)} \cup In(Tail(q))
<1>1. ASSUME NEW m \in In(q) PROVE m \in {Head(q)} \cup In(Tail(q))
  BY <1>1, Rest DEF In
<1>2. Head(q) \in In(q)
  <2>1. 1 \in 1 .. Len(q)
    BY Rest
  <2> QED BY <2>1, Rest DEF In
<1>3. ASSUME NEW m \in In(Tail(q)) PROVE m \in In(q)
  <2>1. PICK i \in 1 .. Len(Tail(q)) : m = Tail(q)[i]
    BY DEF In
  <2> QED BY <2>1, Rest DEF In
<1> QED BY <1>1, <1>2, <1>3

(* Short sequences *)
LEMMA InShort ==
    /\ In(<< >>) = {}
    /\ \A a : In(<<a>>) = {a}
    /\ \A a, b : In(<<a, b>>) = {a, b}
    /\ \A a, b, c : In(<<a, b, c>>) = {a, b, c}
<1>1. In(<< >>) = {}
  BY DEF In
<1>2. \A a : In(<<a>>) = {a}
  BY DEF In
<1>3. ASSUME NEW a, NEW b PROVE In(<<a, b>>) = {a, b}
  <2>1. \A i \in 1 .. 2 : i = 1 \/ i = 2
    OBVIOUS
  <2>2. 1 \in 1 .. 2 /\ 2 \in 1 .. 2 /\ Len(<<a, b>>) = 2
    OBVIOUS
  <2> QED BY <2>1, <2>2 DEF In
<1>4. ASSUME NEW a, NEW b, NEW c PROVE In(<<a, b, c>>) = {a, b, c}
  <2>1. \A i \in 1 .. 3 : i = 1 \/ i = 2 \/ i = 3
    OBVIOUS
  <2>2. 1 \in 1 .. 3 /\ 2 \in 1 .. 3 /\ 3 \in 1 .. 3 /\ Len(<<a, b, c>>) = 3
    OBVIOUS
  <2> QED BY <2>1, <2>2 DEF In
<1> QED BY <1>1, <1>2, <1>3, <1>4

(* At most one of some events stays so when only one of the parts has any. *)
LEMMA SingleJoined ==
    ASSUME NEW S, NEW q \in Seq(S), NEW p \in Seq(S), NEW E,
           Single(q, E), Single(p, E), ~Has(q, E) \/ ~Has(p, E)
    PROVE  Single(q \o p, E)
<1>1. CASE ~Has(q, E)
  <2>1. \A k \in 1 .. Len(q \o p) : (q \o p)[k].event \in E =>
            \E i \in 1 .. Len(p) : k = Len(q) + i /\ p[i].event \in E
    BY <1>1, Joined DEF Has, In
  <2> QED BY <2>1 DEF Single
<1>2. CASE ~Has(p, E)
  <2>1. ASSUME NEW k \in 1 .. Len(q \o p), (q \o p)[k].event \in E
        PROVE  k \in 1 .. Len(q) /\ q[k].event \in E
    <3>1. ASSUME NEW i \in 1 .. Len(p), k = Len(q) + i PROVE FALSE
      <4>1. (q \o p)[Len(q) + i] = p[i]
        BY Joined
      <4>2. p[i].event \in E
        BY <2>1, <3>1, <4>1
      <4> QED BY <1>2, <4>2 DEF Has, In
    <3> QED BY <2>1, <3>1, Joined
  <2> QED BY <2>1 DEF Single
<1> QED BY <1>1, <1>2

(* What is taken from a sequence with one of some events was the one, or   *)
(* not one of them.                                                        *)
LEMMA SingleRest ==
    ASSUME NEW S, NEW q \in Seq(S), q # << >>, NEW E, Single(q, E)
    PROVE  Single(Tail(q), E) /\ (Head(q).event \in E => ~Has(Tail(q), E))
<1>1. Single(Tail(q), E)
  <2> SUFFICES ASSUME NEW i \in 1 .. Len(Tail(q)), NEW j \in 1 .. Len(Tail(q)),
                      Tail(q)[i].event \in E, Tail(q)[j].event \in E
               PROVE  i = j
    BY DEF Single
  <2>1. i + 1 = j + 1
    BY Rest DEF Single
  <2> QED BY <2>1
<1>2. ASSUME Head(q).event \in E, NEW i \in 1 .. Len(Tail(q)), Tail(q)[i].event \in E PROVE FALSE
  <2>1. 1 \in 1 .. Len(q) /\ i + 1 \in 1 .. Len(q) /\ i + 1 # 1
    BY Rest
  <2>2. q[1].event \in E /\ q[i + 1].event \in E
    BY <1>2, Rest
  <2> QED BY <2>1, <2>2 DEF Single
<1> QED BY <1>1, <1>2 DEF Has, In

(* Joining keeps the credit behind its data. *)
LEMMA CreditedJoined ==
    ASSUME NEW S, NEW q \in Seq(S), NEW p \in Seq(S), Credited(q), Credited(p)
    PROVE  Credited(q \o p)
<1> SUFFICES ASSUME NEW k \in 1 .. Len(q \o p), (q \o p)[k].event = "transmit"
             PROVE  \E l \in 1 .. Len(q \o p) : k < l /\ (q \o p)[l].event = "credit"
  BY DEF Credited
<1>1. CASE k \in 1 .. Len(q)
  <2>1. PICK l \in 1 .. Len(q) : k < l /\ q[l].event = "credit"
    BY <1>1, Joined DEF Credited
  <2> QED BY <2>1, Joined
<1>2. CASE \E i \in 1 .. Len(p) : k = Len(q) + i
  <2>1. PICK i \in 1 .. Len(p) : k = Len(q) + i
    BY <1>2
  <2>2. p[i].event = "transmit"
    BY <2>1, Joined
  <2>3. PICK j \in 1 .. Len(p) : i < j /\ p[j].event = "credit"
    BY <2>2 DEF Credited
  <2>4. Len(q) + j \in 1 .. Len(q \o p) /\ (q \o p)[Len(q) + j].event = "credit" /\ k < Len(q) + j
    BY <2>1, <2>3, Joined
  <2> QED BY <2>4
<1>3. k \in 1 .. Len(q) \/ \E i \in 1 .. Len(p) : k = Len(q) + i
  BY Joined
<1> QED BY <1>1, <1>2, <1>3

(* So does taking the first; a transmit status that is taken leaves its    *)
(* credit.                                                                 *)
LEMMA CreditedRest ==
    ASSUME NEW S, NEW q \in Seq(S), q # << >>, Credited(q)
    PROVE  /\ Credited(Tail(q))
           /\ Head(q).event = "transmit" => Has(Tail(q), {"credit"})
<1>1. ASSUME NEW i \in 1 .. Len(q), q[i].event = "transmit"
      PROVE  \E j \in 1 .. Len(Tail(q)) : i < j + 1 /\ Tail(q)[j].event = "credit"
  <2>1. PICK j \in 1 .. Len(q) : i < j /\ q[j].event = "credit"
    BY <1>1 DEF Credited
  <2>2. j # 1 /\ j - 1 \in 1 .. Len(Tail(q)) /\ Tail(q)[j - 1].event = "credit" /\ i < (j - 1) + 1
    BY <2>1, Rest
  <2> QED BY <2>2
<1>2. Credited(Tail(q))
  <2> SUFFICES ASSUME NEW i \in 1 .. Len(Tail(q)), Tail(q)[i].event = "transmit"
               PROVE  \E j \in 1 .. Len(Tail(q)) : i < j /\ Tail(q)[j].event = "credit"
    BY DEF Credited
  <2>1. i + 1 \in 1 .. Len(q) /\ q[i + 1].event = "transmit"
    BY Rest
  <2>2. PICK j \in 1 .. Len(Tail(q)) : i + 1 < j + 1 /\ Tail(q)[j].event = "credit"
    BY <1>1, <2>1
  <2> QED BY <2>2
<1>3. ASSUME Head(q).event = "transmit" PROVE Has(Tail(q), {"credit"})
  <2>1. 1 \in 1 .. Len(q) /\ q[1].event = "transmit"
    BY <1>3, Rest
  <2> QED BY <1>1, <2>1 DEF Has, In
<1> QED BY <1>2, <1>3

(* Data under way has its credit under way, and not as the next message. *)
LEMMA CreditFollows ==
    ASSUME NEW S, NEW q \in Seq(S), Credited(q), Has(q, {"transmit"})
    PROVE  Has(q, {"credit"}) /\ (Single(q, Openers) => Head(q).event # "credit")
<1>1. PICK i \in 1 .. Len(q) : q[i].event = "transmit"
  BY DEF Has, In
<1>2. PICK j \in 1 .. Len(q) : i < j /\ q[j].event = "credit"
  BY <1>1 DEF Credited
<1>3. ASSUME Single(q, Openers), Head(q).event = "credit" PROVE FALSE
  <2>1. 1 \in 1 .. Len(q) /\ j # 1 /\ q[1].event = "credit"
    BY <1>2, <1>3, Rest
  <2> QED BY <1>2, <1>3, <2>1 DEF Single, Openers
<1> QED BY <1>2, <1>3 DEF Has, In

(* The statuses of one transfer may be put behind messages with none. *)
LEMMA FinalJoined ==
    ASSUME NEW S, NEW q \in Seq(S), NEW p \in Seq(S), ~Has(q, {"transmit"}), Final(p)
    PROVE  Final(q \o p)
<1>1. \A k \in 1 .. Len(q \o p) : (q \o p)[k].event = "transmit" =>
            \E i \in 1 .. Len(p) : k = Len(q) + i /\ (q \o p)[k] = p[i]
  BY Joined DEF Has, In
<1> SUFFICES ASSUME NEW k \in 1 .. Len(q \o p), (q \o p)[k].event = "transmit"
             PROVE  IF (q \o p)[k].status = "repetition"
                    THEN \E l \in 1 .. Len(q \o p) : /\ k < l /\ (q \o p)[l].event = "transmit"
                                                     /\ (q \o p)[l].status = "ok"
                    ELSE \A l \in 1 .. Len(q \o p) : (q \o p)[l].event = "transmit" => l <= k
  BY DEF Final
<1>2. PICK i \in 1 .. Len(p) : k = Len(q) + i /\ (q \o p)[k] = p[i]
  BY <1>1
<1>3. CASE p[i].status = "repetition"
  <2>1. PICK j \in 1 .. Len(p) : i < j /\ p[j].event = "transmit" /\ p[j].status = "ok"
    BY <1>2, <1>3 DEF Final
  <2>2. Len(q) + j \in 1 .. Len(q \o p) /\ (q \o p)[Len(q) + j] = p[j] /\ k < Len(q) + j
    BY <1>2, <2>1, Joined
  <2> QED BY <1>2, <1>3, <2>1, <2>2
<1>4. CASE p[i].status # "repetition"
  <2>1. \A j \in 1 .. Len(p) : p[j].event = "transmit" => j <= i
    BY <1>2, <1>4 DEF Final
  <2>2. ASSUME NEW l \in 1 .. Len(q \o p), (q \o p)[l].event = "transmit" PROVE l <= k
    <3>1. PICK j \in 1 .. Len(p) : l = Len(q) + j /\ (q \o p)[l] = p[j]
      BY <1>1, <2>2
    <3> QED BY <1>2, <2>1, <2>2, <3>1, Joined
  <2> QED BY <1>2, <1>4, <2>2
<1> QED BY <1>3, <1>4

(* A transmit status that is taken calls for another just when another     *)
(* follows.                                                                *)
LEMMA FinalRest ==
    ASSUME NEW S, NEW q \in Seq(S), q # << >>, Final(q)
    PROVE  /\ Final(Tail(q))
           /\ Head(q).event = "transmit" =>
                (Head(q).status = "repetition" <=> Has(Tail(q), {"transmit"}))
<1>1. \A i \in 1 .. Len(Tail(q)) : i + 1 \in 1 .. Len(q) /\ Tail(q)[i] = q[i + 1]
  BY Rest
<1>2. ASSUME NEW i \in 1 .. Len(q), q[i].event = "transmit", q[i].status = "repetition"
      PROVE  \E j \in 1 .. Len(Tail(q)) :
                i < j + 1 /\ Tail(q)[j].event = "transmit" /\ Tail(q)[j].status = "ok"
  <2>1. PICK j \in 1 .. Len(q) : i < j /\ q[j].event = "transmit" /\ q[j].status = "ok"
    BY <1>2 DEF Final
  <2>2. j # 1 /\ j - 1 \in 1 .. Len(Tail(q)) /\ Tail(q)[j - 1] = q[j] /\ i < (j - 1) + 1
    BY <2>1, Rest
  <2> QED BY <2>1, <2>2
<1>3. ASSUME NEW i \in 1 .. Len(q), q[i].event = "transmit", q[i].status # "repetition",
             NEW j \in 1 .. Len(Tail(q)), Tail(q)[j].event = "transmit"
      PROVE  j + 1 <= i
  <2>1. j + 1 \in 1 .. Len(q) /\ q[j + 1].event = "transmit"
    BY <1>1, <1>3
  <2> QED BY <1>3, <2>1 DEF Final
<1>4. Final(Tail(q))
  <2> SUFFICES ASSUME NEW i \in 1 .. Len(Tail(q)), Tail(q)[i].event = "transmit"
               PROVE  IF Tail(q)[i].status = "repetition"
                      THEN \E j \in 1 .. Len(Tail(q)) :
                              i < j /\ Tail(q)[j].event = "transmit" /\ Tail(q)[j].status = "ok"
                      ELSE \A j \in 1 .. Len(Tail(q)) : Tail(q)[j].event = "transmit" => j <= i
    BY DEF Final
  <2>1. i + 1 \in 1 .. Len(q) /\ Tail(q)[i] = q[i + 1] /\ Len(Tail(q)) \in Nat
    BY <1>1, Rest
  <2>2. CASE Tail(q)[i].status = "repetition"
    <3>1. PICK j \in 1 .. Len(Tail(q)) :
             i + 1 < j + 1 /\ Tail(q)[j].event = "transmit" /\ Tail(q)[j].status = "ok"
      BY <1>2, <2>1, <2>2
    <3>2. i < j
      BY <3>1
    <3> QED BY <2>2, <3>1, <3>2
  <2>3. CASE Tail(q)[i].status # "repetition"
    <3>1. \A j \in 1 .. Len(Tail(q)) : Tail(q)[j].event = "transmit" => j + 1 <= i + 1
      BY <1>3, <2>1, <2>3
    <3>2. \A j \in 1 .. Len(Tail(q)) : j + 1 <= i + 1 => j <= i
      BY <2>1
    <3> QED BY <2>3, <3>1, <3>2
  <2> QED BY <2>2, <2>3
<1>5. ASSUME Head(q).event = "transmit"
      PROVE  Head(q).status = "repetition" <=> Has(Tail(q), {"transmit"})
  <2>1. 1 \in 1 .. Len(q) /\ q[1] = Head(q) /\ Len(Tail(q)) \in Nat
    BY Rest
  <2>2. CASE Head(q).status = "repetition"
    BY <1>2, <1>5, <2>1, <2>2 DEF Has, In
  <2>3. CASE Head(q).status # "repetition"
    <3>1. \A j \in 1 .. Len(Tail(q)) : Tail(q)[j].event = "transmit" => j + 1 <= 1
      BY <1>3, <1>5, <2>1, <2>3
    <3>2. \A j \in 1 .. Len(Tail(q)) : ~(j + 1 <= 1)
      BY <2>1
    <3> QED BY <2>3, <3>1, <3>2 DEF Has, In
  <2> QED BY <2>2, <2>3
<1> QED BY <1>4, <1>5
-----------------------------------------------------------------------------
(* Lemmas: types, and what is under way *)

(* The event tells what a message is. *)
LEMMA MessageIs ==
    ASSUME NEW m \in Message
    PROVE  /\ m.event \in SessionOp => m \in RspType
           /\ m.event = "timeout" => m = GivenUp
           /\ m.event = "session" => m \in StatusType
           /\ m.event = "transmit" => m \in TransmitType
           /\ m.event = "credit" => m \in CreditType
           /\ m.event = "device" => m = DeviceStatus
           /\ m.event = "cmd" => m \in CmdType
           /\ m \in Packet => m.event # "cmd"
<1>1. /\ m \in RspType => m.event \in SessionOp
      /\ m \in StatusType => m.event = "session"
      /\ m \in TransmitType => m.event = "transmit"
      /\ m \in CreditType => m.event = "credit"
      /\ m \in CmdType => m.event = "cmd"
      /\ m = GivenUp => m.event = "timeout"
      /\ m = DeviceStatus => m.event = "device"
  BY DEF RspType, StatusType, TransmitType, CreditType, CmdType, GivenUp, DeviceStatus
<1>2. SessionOp \cap {"timeout", "session", "transmit", "credit", "device", "cmd"} = {}
  BY DEF SessionOp
<1> QED BY <1>1, <1>2 DEF Message, Packet

(* What the controller sends are packets. *)
LEMMA PacketsAre ==
    /\ \A op \in SessionOp : Rsp(op, "ok") \in Packet /\ Rsp(op, "error") \in Packet
    /\ GivenUp \in Packet /\ DeviceStatus \in Packet
    /\ \A s \in Session, state \in SessionState, reason \in {"command", "inband", "other"} :
         Status(s, state, reason) \in Packet
    /\ \A s \in Session, n \in Nat, status \in Transfer : Transmit(s, n, status) \in Packet
    /\ \A s \in Session : Credit(s) \in Packet
BY DEF Packet, RspType, StatusType, TransmitType, CreditType, Rsp, Status, Transmit, Credit

(* One message, and the rest *)
LEMMA OneAhead ==
    ASSUME NEW S, NEW q \in Seq(S), NEW p \in Seq(S), Len(q) <= 1, q # << >>
    PROVE  /\ q \o p # << >> /\ Head(q \o p) = Head(q) /\ Tail(q \o p) = p
           /\ Len(q) = 1 /\ Head(q) \in S
<1>0. Len(q) = 1
  <2>1. Len(q) \in Nat /\ Len(q) > 0
    BY Rest
  <2>2. \A n \in Nat : n > 0 /\ n <= 1 => n = 1
    OBVIOUS
  <2> QED BY <2>1, <2>2
<1>1. Head(q) \in S /\ Head(q) = q[1] /\ 1 \in 1 .. Len(q)
  BY <1>0, Rest
<1>2. /\ q \o p \in Seq(S) /\ Len(q \o p) = 1 + Len(p) /\ Len(p) \in Nat /\ (q \o p)[1] = q[1]
      /\ \A i \in 1 .. Len(p) : (q \o p)[1 + i] = p[i]
  <2>1. /\ q \o p \in Seq(S) /\ Len(q \o p) = Len(q) + Len(p) /\ Len(p) \in Nat
        /\ (q \o p)[1] = q[1]
        /\ \A i \in 1 .. Len(p) : (q \o p)[Len(q) + i] = p[i]
    BY <1>1, Joined
  <2> QED BY <1>0, <2>1
<1>3. q \o p # << >>
  BY <1>2
<1>4. Head(q \o p) = (q \o p)[1] /\ Tail(q \o p) \in Seq(S) /\ Len(Tail(q \o p)) = Len(p)
      /\ \A i \in 1 .. Len(p) : Tail(q \o p)[i] = (q \o p)[i + 1]
  <2>1. /\ Head(q \o p) = (q \o p)[1] /\ Tail(q \o p) \in Seq(S)
        /\ Len(Tail(q \o p)) = Len(q \o p) - 1
        /\ \A i \in 1 .. Len(Tail(q \o p)) : Tail(q \o p)[i] = (q \o p)[i + 1]
    BY <1>2, <1>3, Rest
  <2> QED BY <1>2, <2>1
<1>5. \A i \in 1 .. Len(p) : Tail(q \o p)[i] = p[i]
  BY <1>2, <1>4
<1>6. Tail(q \o p) = p
  BY <1>4, <1>5, SeqEqual
<1> QED BY <1>0, <1>1, <1>2, <1>3, <1>4, <1>6

(* The message the UWB task takes is the first under way. *)
LEMMA TransitIs ==
    ASSUME Types
    PROVE  /\ transit \in Seq(Message) /\ out \in Seq(Message) /\ Packet \subseteq Message
           /\ mbox = << >> => transit = out
           /\ mbox # << >> => /\ transit # << >> /\ Head(transit) = Head(mbox)
                              /\ Tail(transit) = out
                              /\ Head(mbox) \in Message
           /\ Sending <=> transit # << >> /\ Head(transit).event = "cmd"
<1>1. mbox \in Seq(Message) /\ out \in Seq(Packet) /\ Len(mbox) <= 1
  BY DEF Types, TypeOK, MoreTypeOK
<1>2. Packet \subseteq Message
  BY DEF Message
<1>3. out \in Seq(Message)
  BY <1>1, <1>2
<1>4. transit \in Seq(Message)
  BY <1>1, <1>3 DEF transit
<1>5. ASSUME mbox = << >> PROVE transit = out
  BY <1>3, <1>5 DEF transit
<1>6. ASSUME mbox # << >>
      PROVE  /\ transit # << >> /\ Head(transit) = Head(mbox)
             /\ Tail(transit) = out /\ Head(mbox) \in Message
  BY <1>1, <1>3, <1>6, OneAhead DEF transit
<1>7. Sending <=> transit # << >> /\ Head(transit).event = "cmd"
  <2>1. CASE mbox # << >>
    BY <1>6, <2>1 DEF Sending
  <2>2. CASE mbox = << >> /\ out # << >>
    <3>1. Head(out) \in Packet
      BY <1>1, <2>2
    <3> QED BY <1>2, <1>5, <2>2, <3>1, MessageIs DEF Sending
  <2>3. CASE mbox = << >> /\ out = << >>
    BY <1>5, <2>3 DEF Sending
  <2> QED BY <2>1, <2>2, <2>3
<1> QED BY <1>2, <1>3, <1>4, <1>5, <1>6, <1>7

(* A packet that is posted is under way as before. *)
LEMMA PostsTransit ==
    ASSUME Types, Posts
    PROVE  transit' = transit /\ ~Sending /\ ~Sending' /\ mbox' \in Seq(Message)
           /\ Len(mbox') = 1 /\ out' \in Seq(Packet)
<1>1. out \in Seq(Packet) /\ out # << >> /\ mbox = << >> /\ mbox' = <<Head(out)>> /\ out' = Tail(out)
  BY DEF Posts, Types, MoreTypeOK
<1>2. Head(out) \in Packet /\ Head(out) \in Message /\ Tail(out) \in Seq(Packet)
  BY <1>1, TransitIs
<1>3. <<Head(out)>> \o Tail(out) = out
  BY <1>1, HeadTailProperties
<1>4. Head(out).event # "cmd"
  BY <1>2, MessageIs
<1>5. Head(<<Head(out)>>) = Head(out) /\ <<Head(out)>> \in Seq(Message) /\ Len(<<Head(out)>>) = 1
  BY <1>2
<1> QED BY <1>1, <1>2, <1>3, <1>4, <1>5, TransitIs DEF transit, Sending

(* What the controller sends is under way after the rest. *)
LEMMA SendsTransit ==
    ASSUME Types, NEW p \in Seq(Packet), out' = out \o p
    PROVE  /\ p \in Seq(Message) /\ out' \in Seq(Packet)
           /\ mbox' = mbox => transit' = transit \o p
           /\ mbox # << >> /\ mbox' = << >> => transit' = Tail(transit) \o p
<1>1. mbox \in Seq(Message) /\ out \in Seq(Packet) /\ p \in Seq(Message) /\ out \in Seq(Message)
  BY TransitIs DEF Types, MoreTypeOK
<1>2. out' \in Seq(Packet) /\ out' \in Seq(Message)
  BY <1>1
<1>3. mbox \o (out \o p) = (mbox \o out) \o p
  BY <1>1, ConcatAssociative
<1>4. << >> \o out' = out'
  BY <1>2
<1> QED BY <1>1, <1>2, <1>3, <1>4, TransitIs DEF transit

(* What the UWB task takes is under way no more. *)
LEMMA TakesTransit ==
    ASSUME Types, NEW e, Takes(e), UNCHANGED out
    PROVE  /\ transit # << >> /\ transit' = Tail(transit) /\ Head(transit).event = e
           /\ Head(transit) = Head(mbox) /\ Head(mbox) \in Message
           /\ mbox' = << >> /\ ~Sending'
<1>1. mbox # << >> /\ mbox' = << >> /\ Head(mbox).event = e
  BY DEF Takes
<1>2. << >> \o out = out
  BY TransitIs
<1> QED BY <1>1, <1>2, TransitIs DEF transit, Sending

(* A command is under way before all else. *)
LEMMA CallTransit ==
    ASSUME Types, NEW op \in SessionOp \cup {"data"}, NEW s \in Session, Call(op, s)
    PROVE  /\ call' \in CallType /\ call'.op = op /\ call'.session = s /\ call'.n = call.n + 1
           /\ [event |-> "cmd", cmd |-> call'] \in Message
           /\ mbox' \in Seq(Message) /\ Len(mbox') = 1
           /\ Head(mbox') = [event |-> "cmd", cmd |-> call'] /\ mbox' # << >>
           /\ transit' = <<[event |-> "cmd", cmd |-> call']>> \o transit
           /\ ~Sending
<1>1. call' \in CallType /\ call'.op = op /\ call'.session = s /\ call'.n = call.n + 1
  BY DEF Call, CallType, Types, MoreTypeOK
<1>2. [event |-> "cmd", cmd |-> call'] \in Message
  BY <1>1 DEF Message, CmdType
<1>3. mbox = << >> /\ mbox' = <<[event |-> "cmd", cmd |-> call']>> /\ out' = out
  BY DEF Call, Goes, Runs
<1> QED BY <1>1, <1>2, <1>3, TransitIs DEF transit, Sending
-----------------------------------------------------------------------------
(* Lemmas: every step keeps the types *)

(* The state a session call is for is one. *)
LEMMA TargetIs == \A op \in SessionOp : Target[op] \in SessionState
BY DEF SessionOp, Target, SessionState

(* One call or fault less is still a budget. *)
LEMMA BudgetLess ==
    ASSUME Types
    PROVE  /\ budget.call > 0 => [budget EXCEPT !.call = @ - 1] \in Budget
           /\ budget.fault > 0 => [budget EXCEPT !.fault = @ - 1] \in Budget
BY UwbNotifyAssumption DEF Types, TypeOK, Budget

(* The caller's side *)
CallerTypes ==
    /\ pc \in {"idle", "rsp", "sent"} \cup Waits
    /\ call \in CallType
    /\ awaited \in {"session", "transmit", "credit"} /\ got \in BOOLEAN
    /\ currentEventId \in SessionOp \cup {"default", "session", "transmit", "credit"}
    /\ receivedEventId \in SessionOp \cup
            {"default", "timeout", "session", "transmit", "credit", "device"}
    /\ devMgmtSem \in 0 .. 1
    /\ done \in BOOLEAN /\ held \in BOOLEAN
    /\ spoilt \in Mishaps
    /\ budget \in Budget
    /\ result \in Result

(* The UWB task's and the controller's *)
TaskTypes ==
    /\ outranks \in BOOLEAN
    /\ wstatus \in {"ok", "error", "timeout"}
    /\ sessionInfo \in SessionInfo
    /\ dataTransmit \in TransmitInfo
    /\ dataCredit \in CreditInfo
    /\ uci_cmd_window \in 0 .. 1
    /\ mbox \in Mailbox /\ out \in Outbox
    /\ uwbs \in SessionStates

(* The types are those of the caller's side and of the UWB task's. *)
LEMMA TypesSplit ==
    Types <=> CallerTypes /\ TaskTypes
<1>1. call \in CallType => call.op \in SessionOp \cup {"data"} /\ call.session \in Session
  BY DEF CallType
<1>2. sessionInfo \in SessionInfo =>
        sessionInfo.session \in Session /\ sessionInfo.state \in SessionState
  BY DEF SessionInfo
<1>3. dataTransmit \in TransmitInfo =>
        dataTransmit.status \in Transfer
  BY DEF TransmitInfo
<1>4. budget \in [call : 0 .. MaxCall, fault : 0 .. MaxFault] <=> budget \in Budget
  BY DEF Budget
<1>5. uwbs \in [Session -> SessionState] <=> uwbs \in SessionStates
  BY DEF SessionStates
<1>6. mbox \in Mailbox <=> mbox \in Seq(Message) /\ Len(mbox) <= 1
  BY DEF Mailbox
<1>7. out \in Outbox <=> out \in Seq(Packet)
  BY DEF Outbox
<1> QED BY <1>1, <1>2, <1>3, <1>4, <1>5, <1>6, <1>7
   DEF Types, TypeOK, MoreTypeOK, CallerTypes, TaskTypes, Waits

(* The same of the next state. *)
LEMMA TypesJoin ==
    ASSUME CallerTypes', TaskTypes'
    PROVE  Types'
BY TypesSplit, PTL

(* Short sequences of packets *)
LEMMA ShortSeqs ==
    ASSUME NEW S
    PROVE  << >> \in Seq(S) /\ (\A a \in S : <<a>> \in Seq(S)) /\ \A a, b \in S : <<a, b>> \in Seq(S)
OBVIOUS

(* The empty mailbox is one. *)
LEMMA NoMessage == << >> \in Mailbox
BY DEF Mailbox

(* A call returns, or waits for an event. *)
LEMMA ReturnTypes ==
    ASSUME CallerTypes, NEW status \in {"ok", "error", "timeout", "failed"}, Return(status),
           UNCHANGED <<currentEventId, receivedEventId, budget>>, devMgmtSem' \in 0 .. 1
    PROVE  CallerTypes'
<1>1. result' \in Result
  BY DEF CallerTypes, Return, Result
<1>2. pc' = "idle" /\ awaited' = "session" /\ got' = FALSE /\ done' = FALSE /\ held' = FALSE
      /\ UNCHANGED <<call, spoilt>>
  BY DEF Return, Goes
<1> QED BY <1>1, <1>2 DEF CallerTypes

(* The caller starts to wait for an event. *)
LEMMA AwaitTypes ==
    ASSUME CallerTypes, NEW event \in {"session", "transmit", "credit"}, Await(event),
           UNCHANGED <<currentEventId, receivedEventId, budget>>, devMgmtSem' \in 0 .. 1
    PROVE  CallerTypes'
BY DEF CallerTypes, Await, Goes, Waits

(* A new call keeps the types. *)
LEMMA CallTypes ==
    ASSUME Types, NEW op \in SessionOp \cup {"data"}, NEW s \in Session, Call(op, s)
    PROVE  Types'
<1>1. /\ call' \in CallType /\ mbox' \in Mailbox
      /\ budget' \in Budget
  <2>1. call' \in CallType /\ mbox' \in Seq(Message) /\ Len(mbox') = 1
    BY CallTransit
  <2> QED BY <2>1, BudgetLess DEF Call, Mailbox
<1>4. CallerTypes /\ TaskTypes
  BY TypesSplit
<1>5. result' \in Result
  <2>1. (wstatus = "ok") \in BOOLEAN /\ InOrder \in BOOLEAN
    BY DEF InOrder
  <2> QED BY <2>1 DEF Call, Result
<1>6. held' \in BOOLEAN /\ done' \in BOOLEAN /\ pc' \in {"sent", "rsp"}
      /\ currentEventId' \in {op, currentEventId}
      /\ (currentEventId' = op => op \in SessionOp \/ op = currentEventId)
      /\ UNCHANGED <<awaited, got, receivedEventId, devMgmtSem, spoilt>>
  BY DEF Call, Goes
<1>2. CallerTypes'
  BY <1>1, <1>4, <1>5, <1>6 DEF CallerTypes
<1>3. TaskTypes'
  BY <1>1, TypesSplit DEF Call, Goes, info, TaskTypes
<1> QED BY <1>2, <1>3, TypesJoin

(* The caller's steps keep the types. *)
LEMMA CallerTypesKept == ASSUME Types, Caller PROVE Types'
<1>1. TaskTypes' /\ UNCHANGED <<outranks, info, mbox, out, uwbs, uci_cmd_window>>
  <2>1. UNCHANGED <<outranks, info, mbox, out, uwbs, uci_cmd_window>>
    BY DEF Caller, RspWoken, RspExpires, DataSent, Check, SetWaitEvent, NtfWoken, NtfExpires,
           ClearReceived, JudgeSession, JudgeTransmit, JudgeCredit, Judges, Await, Return, Goes
  <2> QED BY <2>1, TypesSplit DEF TaskTypes, info
<1> SUFFICES CallerTypes'
  BY <1>1, TypesJoin
<1>2. CallerTypes /\ wstatus \in {"ok", "error", "timeout"}
  BY TypesSplit DEF TaskTypes
<1>3. CASE RspWoken
  BY <1>2, <1>3, ReturnTypes, AwaitTypes DEF RspWoken
<1>4. CASE RspExpires
  BY <1>2, <1>4, ReturnTypes DEF RspExpires, wait, CallerTypes
<1>5. CASE DataSent
  BY <1>2, <1>5, ReturnTypes, AwaitTypes DEF DataSent, wait, CallerTypes
<1>6. CASE Check
  BY <1>2, <1>6 DEF Check, Goes, wait, CallerTypes, Waits
<1>7. CASE SetWaitEvent
  BY <1>2, <1>7 DEF SetWaitEvent, Goes, CallerTypes, Waits
<1>8. CASE NtfWoken
  BY <1>2, <1>8 DEF NtfWoken, Goes, CallerTypes, Waits
<1>9. CASE NtfExpires
  <2>1. budget' \in Budget
    BY <1>9, BudgetLess, TypesSplit DEF NtfExpires, CallerTypes
  <2>2. spoilt' \in Mishaps
    BY <1>2, <1>9 DEF NtfExpires, CallerTypes, Mishaps
  <2>3. pc' \in {"idle", "rsp", "sent"} \cup Waits /\ got' \in BOOLEAN
        /\ UNCHANGED <<call, awaited, currentEventId, receivedEventId, devMgmtSem, done, held, result>>
    BY <1>9 DEF NtfExpires, wait, Waits
  <2> QED BY <1>2, <2>1, <2>2, <2>3 DEF CallerTypes
<1>10. CASE ClearReceived
  BY <1>2, <1>10 DEF ClearReceived, Goes, CallerTypes, Waits
<1>11. CASE JudgeSession
  BY <1>2, <1>11, ReturnTypes DEF JudgeSession, Judges, wait, CallerTypes
<1>12. CASE JudgeTransmit
  BY <1>2, <1>12, ReturnTypes, AwaitTypes DEF JudgeTransmit, Judges, wait, CallerTypes
<1>13. CASE JudgeCredit
  BY <1>2, <1>13, ReturnTypes DEF JudgeCredit, Judges, wait, CallerTypes
<1> QED BY <1>1, <1>3, <1>4, <1>5, <1>6, <1>7, <1>8, <1>9, <1>10, <1>11, <1>12, <1>13 DEF Caller

(* The client thread keeps the types. *)
LEMMA PostsTypes == ASSUME Types, Posts PROVE Types'
<1>1. CallerTypes'
  BY TypesSplit DEF Posts, caller, wait, ghosts, CallerTypes
<1>2. mbox' \in Mailbox /\ out' \in Outbox
  <2>1. mbox' \in Seq(Message) /\ Len(mbox') = 1 /\ out' \in Seq(Packet)
    BY PostsTransit
  <2>2. Len(mbox') <= 1
    BY <2>1
  <2> QED BY <2>1, <2>2 DEF Mailbox, Outbox
<1>3. TaskTypes'
  BY <1>2, TypesSplit DEF Posts, info, TaskTypes
<1> QED BY <1>1, <1>3, TypesJoin

(* A session that ends by itself keeps the types. *)
LEMMA StrayTypes == ASSUME Types, NEW s \in Session, Stray(s) PROVE Types'
<1>1. CallerTypes /\ TaskTypes
  BY TypesSplit
<1>2. budget' \in Budget
  BY BudgetLess DEF Stray
<1>3. CallerTypes'
  <2>1. spoilt' \in Mishaps
    BY <1>1 DEF Stray, CallerTypes, Mishaps
  <2>2. held' \in BOOLEAN /\ UNCHANGED <<caller, wait, done, result>>
    BY <1>1 DEF Stray, CallerTypes
  <2> QED BY <1>1, <1>2, <2>1, <2>2 DEF caller, wait, CallerTypes
<1>4. out' \in Outbox
  <2>1. PICK reason \in {"inband", "other"} : out' = out \o <<Status(s, "idle", reason)>>
    BY DEF Stray, Sends
  <2>2. <<Status(s, "idle", reason)>> \in Seq(Packet)
    BY PacketsAre DEF SessionState
  <2> QED BY <2>1, <2>2, SendsTransit DEF Outbox
<1>5. uwbs' \in SessionStates
  BY <1>1 DEF Stray, TaskTypes, SessionStates, SessionState
<1>6. TaskTypes'
  BY <1>1, <1>4, <1>5 DEF Stray, info, TaskTypes
<1> QED BY <1>3, <1>6, TypesJoin

(* What a command becomes: packets of the controller, or none *)
LEMMA CmdTypes == ASSUME Types, TakesCmd PROVE Types'
<1> DEFINE c == Head(mbox).cmd
<1>1. CallerTypes /\ TaskTypes /\ mbox # << >> /\ Head(mbox).event = "cmd" /\ mbox' = << >>
  BY TypesSplit DEF TakesCmd, Takes
<1>2. c \in CallType /\ c.op \in SessionOp \cup {"data"} /\ c.session \in Session /\ c.n \in Nat
  <2>1. Head(mbox) \in CmdType
    BY <1>1, TransitIs, MessageIs
  <2> QED BY <2>1 DEF CmdType, CallType
<1>3. UNCHANGED <<outranks, pc, call, awaited, got, result, wait, info>>
  BY DEF TakesCmd, Takes, caller
<1>4. CASE UNCHANGED <<uci_cmd_window, uwbs, out, budget, spoilt, done, held>>
  <2>1. CallerTypes'
    BY <1>1, <1>3, <1>4 DEF CallerTypes, wait
  <2>2. TaskTypes'
    BY <1>1, <1>3, <1>4, NoMessage DEF TaskTypes, info
  <2> QED BY <2>1, <2>2, TypesJoin
<1>5. CASE uci_cmd_window' = 0 /\ Obeys(c)
  <2>1. uwbs' \in SessionStates /\ \E p \in Seq(Packet) : out' = out \o p
    <3>1. CASE c.op = "data"
      <4>1. PICK more \in {<< >>, <<Transmit(c.session, c.n, "repetition")>>} :
               out' = out \o (more \o <<Transmit(c.session, c.n, "ok"), Credit(c.session)>>)
        BY <1>5, <3>1 DEF Obeys, Sends
      <4>2. more \in Seq(Packet)
            /\ <<Transmit(c.session, c.n, "ok"), Credit(c.session)>> \in Seq(Packet)
        <5>1. /\ Transmit(c.session, c.n, "ok") \in Packet /\ Credit(c.session) \in Packet
              /\ Transmit(c.session, c.n, "repetition") \in Packet
          BY <1>2, PacketsAre DEF Transfer
        <5> QED BY <4>1, <5>1, ShortSeqs
      <4>3. uwbs' = uwbs
        BY <1>5, <3>1 DEF Obeys
      <4>4. more \o <<Transmit(c.session, c.n, "ok"), Credit(c.session)>> \in Seq(Packet)
        BY <4>2
      <4> QED BY <1>1, <4>1, <4>3, <4>4 DEF TaskTypes
    <3>2. CASE c.op # "data"
      <4>1. PICK more \in {<< >>, <<DeviceStatus>>} :
               out' = out \o (<<Rsp(c.op, "ok"), Status(c.session, Target[c.op], "command")>> \o more)
        BY <1>5, <3>2 DEF Obeys, Sends
      <4>2. more \in Seq(Packet)
            /\ <<Rsp(c.op, "ok"), Status(c.session, Target[c.op], "command")>> \in Seq(Packet)
        <5>1. /\ Rsp(c.op, "ok") \in Packet /\ DeviceStatus \in Packet
              /\ Status(c.session, Target[c.op], "command") \in Packet
          BY <1>2, <3>2, PacketsAre, TargetIs
        <5> QED BY <4>1, <5>1, ShortSeqs
      <4>3. uwbs' = [uwbs EXCEPT ![c.session] = Target[c.op]]
        BY <1>5, <3>2 DEF Obeys
      <4>4. <<Rsp(c.op, "ok"), Status(c.session, Target[c.op], "command")>> \o more \in Seq(Packet)
        BY <4>2
      <4>5. uwbs' \in SessionStates
        <5>1. uwbs \in SessionStates /\ Target[c.op] \in SessionState
          BY <1>1, <1>2, <3>2, TargetIs DEF TaskTypes
        <5> QED BY <4>3, <5>1 DEF SessionStates
      <4> QED BY <4>1, <4>4, <4>5
    <3> QED BY <3>1, <3>2
  <2>2. out' \in Outbox
    BY <2>1, SendsTransit DEF Outbox
  <2>3. done' = TRUE /\ held' = TRUE /\ UNCHANGED <<budget, spoilt>>
    BY <1>5 DEF Obeys
  <2>4. CallerTypes'
    BY <1>1, <1>3, <2>3 DEF CallerTypes, wait
  <2>5. TaskTypes'
    BY <1>1, <1>3, <1>5, <2>1, <2>2, NoMessage DEF TaskTypes, info
  <2> QED BY <2>4, <2>5, TypesJoin
<1>6. CASE uci_cmd_window' = 0 /\ Refuses(c)
  <2>1. \E p \in Seq(Packet) : out' = out \o p
    <3>1. /\ <<Transmit(c.session, c.n, "error"), Credit(c.session)>> \in Seq(Packet)
          /\ c.op # "data" => <<Rsp(c.op, "error")>> \in Seq(Packet)
      BY <1>2, PacketsAre DEF Transfer
    <3> QED BY <1>6, <3>1 DEF Refuses, Sends
  <2>2. out' \in Outbox
    BY <2>1, SendsTransit DEF Outbox
  <2>3. UNCHANGED <<uwbs, budget, spoilt, done, held>>
    BY <1>6 DEF Refuses
  <2>4. CallerTypes'
    BY <1>1, <1>3, <2>3 DEF CallerTypes, wait
  <2>5. TaskTypes'
    BY <1>1, <1>3, <1>6, <2>2, <2>3, NoMessage DEF TaskTypes, info
  <2> QED BY <2>4, <2>5, TypesJoin
<1>7. CASE uci_cmd_window' = 0 /\ IsLost(c)
  <2>1. <<GivenUp>> \in Seq(Packet)
    BY PacketsAre
  <2>2. out' \in Outbox
    BY <1>7, <2>1, SendsTransit DEF IsLost, Sends, Outbox
  <2>3. budget' \in Budget
    BY <1>7, BudgetLess DEF IsLost
  <2>4. spoilt' \in Mishaps /\ UNCHANGED <<uwbs, done, held>>
    BY <1>1, <1>7 DEF IsLost, CallerTypes, Mishaps
  <2>5. CallerTypes'
    BY <1>1, <1>3, <2>3, <2>4 DEF CallerTypes, wait
  <2>6. TaskTypes'
    BY <1>1, <1>3, <1>7, <2>2, <2>4, NoMessage DEF TaskTypes, info
  <2> QED BY <2>5, <2>6, TypesJoin
<1> QED BY <1>4, <1>5, <1>6, <1>7 DEF TakesCmd

(* What the UWB task takes has the type its event tells. *)
LEMMA TakesTypes ==
    ASSUME Types, UwbTask
    PROVE  Types'
<1> USE DEF Takes, Wake, TaskRest
<1>0. CallerTypes /\ TaskTypes
  BY TypesSplit
<1>1. CASE TakesCmd
  BY <1>1, CmdTypes
<1>2. ASSUME mbox # << >> PROVE Head(mbox) \in Message
  BY <1>2, TransitIs
<1>3. CASE \E op \in SessionOp : TakesRsp(op)
  <2>1. PICK op \in SessionOp : TakesRsp(op)
    BY <1>3
  <2>2. wstatus' \in {"ok", "error"}
    BY <1>2, <2>1, MessageIs DEF TakesRsp, RspType
  <2>3. CallerTypes'
    BY <1>0, <2>1 DEF TakesRsp, CallerTypes, caller
  <2>4. TaskTypes'
    BY <1>0, <2>1, <2>2, NoMessage DEF TakesRsp, TaskTypes
  <2> QED BY <2>3, <2>4, TypesJoin
<1>4. CASE TakesGivenUp
  <2>3. CallerTypes'
    BY <1>0, <1>4 DEF TakesGivenUp, CallerTypes, caller
  <2>4. TaskTypes'
    BY <1>0, <1>4, NoMessage DEF TakesGivenUp, TaskTypes
  <2> QED BY <2>3, <2>4, TypesJoin
<1>5. CASE TakesSession
  <2>1. sessionInfo' \in SessionInfo
    BY <1>2, <1>5, MessageIs DEF TakesSession, StatusType, SessionInfo
  <2>3. CallerTypes'
    BY <1>0, <1>5 DEF TakesSession, CallerTypes, caller
  <2>4. TaskTypes'
    BY <1>0, <1>5, <2>1, NoMessage DEF TakesSession, TaskTypes
  <2> QED BY <2>3, <2>4, TypesJoin
<1>6. CASE TakesTransmit
  <2>1. dataTransmit' \in TransmitInfo
    BY <1>2, <1>6, MessageIs DEF TakesTransmit, TransmitType, TransmitInfo
  <2>3. CallerTypes'
    BY <1>0, <1>6 DEF TakesTransmit, CallerTypes, caller
  <2>4. TaskTypes'
    BY <1>0, <1>6, <2>1, NoMessage DEF TakesTransmit, TaskTypes
  <2> QED BY <2>3, <2>4, TypesJoin
<1>7. CASE TakesCredit
  <2>1. dataCredit' \in CreditInfo
    BY <1>2, <1>7, MessageIs DEF TakesCredit, CreditType, CreditInfo
  <2>3. CallerTypes'
    BY <1>0, <1>7 DEF TakesCredit, CallerTypes, caller
  <2>4. TaskTypes'
    BY <1>0, <1>7, <2>1, NoMessage DEF TakesCredit, TaskTypes
  <2> QED BY <2>3, <2>4, TypesJoin
<1>8. CASE TakesDevice
  <2>3. CallerTypes'
    BY <1>0, <1>8 DEF TakesDevice, CallerTypes, caller
  <2>4. TaskTypes'
    BY <1>0, <1>8, NoMessage DEF TakesDevice, TaskTypes, info
  <2> QED BY <2>3, <2>4, TypesJoin
<1> QED BY <1>1, <1>3, <1>4, <1>5, <1>6, <1>7, <1>8 DEF UwbTask
-----------------------------------------------------------------------------
(* Lemmas: the caller's steps keep the invariant *)

(* The caller runs between two messages, and leaves what is under way. *)
LEMMA CallerFrame ==
    ASSUME Types, Caller
    PROVE  /\ transit' = transit /\ mbox = << >> /\ mbox' = << >> /\ ~Sending /\ ~Sending'
           /\ pc # "idle"
           /\ UNCHANGED <<out, outranks, wstatus, sessionInfo, dataTransmit, dataCredit,
                          uci_cmd_window, call>>
<1>1. UNCHANGED <<mbox, out, outranks, info, uci_cmd_window, call>>
  BY DEF Caller, RspWoken, RspExpires, DataSent, Check, SetWaitEvent, NtfWoken, NtfExpires,
         ClearReceived, JudgeSession, JudgeTransmit, JudgeCredit, Judges, Await, Return, Goes
<1>2. mbox = << >> /\ pc # "idle"
  BY DEF Caller, RspWoken, RspExpires, DataSent, Check, SetWaitEvent, NtfWoken, NtfExpires,
         ClearReceived, JudgeSession, JudgeTransmit, JudgeCredit, Judges, Quiet, Runs
<1> QED BY <1>1, <1>2 DEF transit, Sending, info

(* When nothing of a set of events is under way *)
LEMMA HasNot ==
    ASSUME NEW q, NEW E, ~Has(q, E)
    PROVE  \A m \in In(q) : m.event \notin E
BY DEF Has

(* The caller's steps leave the command window. *)
LEMMA CallerWindow == ASSUME Types, Window, Caller PROVE Window'
BY CallerFrame DEF Window

(* A call that returns *)
LEMMA Returns ==
    ASSUME Types, Inv, Caller, NEW status, Return(status),
           UNCHANGED <<currentEventId, receivedEventId>>,
           InOrder => devMgmtSem' = 0 /\ ~Has(transit, Answers)
                      /\ currentEventId \in SessionOp \cup {"default"},
           spoilt = {} => ~Has(transit, {"session"}),
           Orderly => NoTransmit /\ receivedEventId # "transmit"
    PROVE  Inv'
<1>1. /\ pc' = "idle" /\ awaited' = "session" /\ got' = FALSE /\ done' = FALSE /\ held' = FALSE
      /\ UNCHANGED <<call, spoilt>>
  BY DEF Return, Goes
<1>2. /\ transit' = transit /\ ~Sending /\ ~Sending' /\ pc # "idle"
      /\ UNCHANGED <<outranks, wstatus, sessionInfo, dataTransmit, dataCredit>>
  BY CallerFrame
<1>3. InOrder' = InOrder
  BY <1>1 DEF InOrder
<1>4. Window'
  BY CallerWindow DEF Inv
<1>5. Places'
  BY <1>1, <1>2 DEF Places, Waits
<1>6. Data'
  BY <1>1, <1>2 DEF Inv, Data, Sent
<1>7. Control'
  <2>1. InOrder => \A m \in In(transit) : m.event \notin Answers
    BY HasNot
  <2> QED BY <1>1, <1>2, <1>3, <2>1 DEF Control, Answers
<1>8. Answered'
  BY <1>1, <1>2 DEF Answered, Waits
<1>9. Statuses'
  BY <1>1, <1>2 DEF Statuses
<1>10. Transfers'
  BY <1>1, <1>2 DEF Transfers, Orderly, DataCall, NoTransmit
<1> QED BY <1>4, <1>5, <1>6, <1>7, <1>8, <1>9, <1>10 DEF Inv

(* Whether the status of a call that returns is right *)
LEMMA ReturnsTrue ==
    ASSUME Types, Places, Caller, NEW status, Return(status),
           status = "ok" /\ result.fresh => held,
           done /\ result.fresh /\ spoilt \subseteq {"expired"} =>
              status = "ok" \/ (call.op = "data" /\ (~outranks \/ ~result.clean))
    PROVE  OkIsTrue' /\ DoneIsOk'
<1>1. /\ result'.status = status /\ result'.done = done /\ result'.held = held
      /\ result'.fresh = result.fresh /\ result'.clean = result.clean /\ result'.op = result.op
  BY DEF Return, Types, MoreTypeOK, Result
<1>2. pc # "idle" /\ UNCHANGED <<outranks, spoilt>>
  BY CallerFrame DEF Return, Goes
<1>3. result.op = call.op
  BY <1>2 DEF Places
<1> QED BY <1>1, <1>2, <1>3 DEF OkIsTrue, DoneIsOk

(* A call that goes on has no result to be right or wrong. *)
LEMMA StaysTrue ==
    ASSUME Types, Places, Caller, UNCHANGED result
    PROVE  OkIsTrue' /\ DoneIsOk'
<1>1. result'.status = "none"
  BY CallerFrame DEF Places
<1> QED BY <1>1 DEF OkIsTrue, DoneIsOk

(* The response *)
LEMMA RspWokenKeeps == ASSUME IInv, RspWoken PROVE Inv' /\ OkIsTrue' /\ DoneIsOk'
<1>0. Types /\ Inv /\ Caller /\ pc = "rsp" /\ devMgmtSem = 1 /\ devMgmtSem' = 0
      /\ UNCHANGED <<currentEventId, receivedEventId>>
  BY DEF IInv, RspWoken, Caller
<1>1. call.op \in SessionOp /\ call.op # "data"
  BY <1>0 DEF Inv, Places, SessionOp
<1>2. InOrder => ~Has(transit, Answers) /\ currentEventId = "default"
  BY <1>0 DEF Inv, Control
<1>3. result.fresh => InOrder /\ (wstatus = "ok" <=> done)
  BY <1>0, <1>1 DEF Inv, Answered
<1>4. InOrder => result.fresh
  BY <1>0 DEF Inv, Places
<1>5. done => held
  BY <1>0 DEF Inv, Places
<1>6. CASE wstatus = "ok"
  <2>1. /\ awaited' = "session" /\ pc' = "check" /\ UNCHANGED <<call, got, done, held, result, spoilt>>
    BY <1>6 DEF RspWoken, Await, Goes
  <2>2. /\ transit' = transit /\ mbox' = << >> /\ ~Sending /\ ~Sending' /\ pc # "idle"
        /\ UNCHANGED <<outranks, wstatus, sessionInfo, dataTransmit, dataCredit>>
    BY <1>0, CallerFrame
  <2>3. InOrder' = InOrder
    BY <2>1 DEF InOrder
  <2>4. Window'
    BY <1>0, CallerWindow DEF Inv
  <2>5. Places'
    BY <1>0, <1>1, <2>1, <2>2, <2>3 DEF Inv, Places, Waits
  <2>6. Data'
    BY <1>0, <2>1, <2>2 DEF Inv, Data, Sent
  <2>7. Control'
    <3>1. InOrder => \A m \in In(transit) : m.event \notin Answers
      BY <1>2, HasNot
    <3> QED BY <1>0, <1>2, <2>1, <2>2, <2>3, <3>1 DEF Control, Answers
  <2>8. Answered'
    BY <1>0, <1>3, <1>6, <2>1, <2>2, <2>3 DEF Answered, Waits
  <2>9. Statuses'
    BY <1>0, <2>1, <2>2 DEF Inv, Statuses, Wanted
  <2>10. Transfers'
    BY <1>0, <1>1, <2>1, <2>2 DEF Inv, Transfers, Orderly, DataCall, NoTransmit
  <2>11. OkIsTrue' /\ DoneIsOk'
    BY <1>0, <2>1, StaysTrue DEF Inv
  <2> QED BY <2>4, <2>5, <2>6, <2>7, <2>8, <2>9, <2>10, <2>11 DEF Inv
<1>7. CASE wstatus # "ok"
  <2>1. Return(wstatus)
    BY <1>7 DEF RspWoken
  <2>2. result.fresh => ~done
    BY <1>3, <1>7
  <2>3. spoilt = {} => ~Has(transit, {"session"})
    BY <1>0, <1>4, <2>2 DEF Inv, Statuses, InOrder
  <2>4. Orderly => NoTransmit /\ receivedEventId # "transmit"
    BY <1>0, <1>1 DEF Inv, Transfers, DataCall
  <2>5. Inv'
    BY <1>0, <1>2, <2>1, <2>3, <2>4, Returns
  <2>6. OkIsTrue' /\ DoneIsOk'
    BY <1>0, <1>7, <2>1, <2>2, ReturnsTrue DEF Inv
  <2> QED BY <2>5, <2>6
<1> QED BY <1>6, <1>7

(* The wait for a response ends by itself: nothing was carried out, unless a *)
(* former call left its trace.                                              *)
LEMMA RspExpiresKeeps == ASSUME IInv, RspExpires PROVE Inv' /\ OkIsTrue' /\ DoneIsOk'
<1>0. /\ Types /\ Inv /\ Caller /\ pc = "rsp" /\ devMgmtSem = 0 /\ Return("timeout")
      /\ UNCHANGED <<currentEventId, receivedEventId, devMgmtSem>>
  BY DEF IInv, RspExpires, Caller, wait
<1>1. \A E : ~Has(transit, E)
  <2>1. transit = << >>
    BY DEF RspExpires, Quiet, transit
  <2> QED BY <2>1, InShort DEF Has
<1>2. call.op \in SessionOp /\ call.op # "data"
  BY <1>0 DEF Inv, Places, SessionOp
<1>3. result.fresh => ~done
  BY <1>0, <1>1 DEF Inv, Answered, IInv, Types, MoreTypeOK
<1>4. InOrder => currentEventId \in SessionOp \cup {"default"}
  BY <1>0, <1>2 DEF Inv, Control
<1>5. Orderly => NoTransmit /\ receivedEventId # "transmit"
  BY <1>0, <1>2 DEF Inv, Transfers, DataCall
<1>6. Inv'
  BY <1>0, <1>1, <1>4, <1>5, Returns
<1>7. OkIsTrue' /\ DoneIsOk'
  BY <1>0, <1>3, ReturnsTrue DEF Inv
<1> QED BY <1>6, <1>7

(* A data call is sent, or fails for the status of an earlier command. *)
LEMMA DataSentKeeps == ASSUME IInv, DataSent PROVE Inv' /\ OkIsTrue' /\ DoneIsOk'
<1>0. /\ Types /\ Inv /\ Caller /\ pc = "sent"
      /\ UNCHANGED <<currentEventId, receivedEventId, devMgmtSem>>
      /\ transit' = transit /\ mbox' = << >> /\ ~Sending /\ ~Sending' /\ pc # "idle"
      /\ UNCHANGED <<outranks, wstatus, sessionInfo, dataTransmit, dataCredit>>
  BY CallerFrame DEF IInv, DataSent, Caller, wait
<1>1. call.op = "data" /\ call.op \notin SessionOp /\ DataCall
  BY <1>0 DEF Inv, Places, SessionOp, DataCall
<1>2. InOrder => ~Has(transit, Answers) /\ devMgmtSem = 0 /\ currentEventId \in SessionOp \cup {"default"}
  BY <1>0 DEF Inv, Control, Types, TypeOK
<1>3. InOrder => result.fresh
  BY <1>0 DEF Inv, Places
<1>4. ASSUME result.fresh, spoilt \subseteq {"expired"} PROVE ~Has(transit, {"session"})
  BY <1>0, <1>1, <1>4 DEF Inv, Statuses
<1>5. CASE wstatus = "ok"
  <2>1. /\ awaited' = "transmit" /\ pc' = "check" /\ UNCHANGED <<call, got, done, held, result, spoilt>>
    BY <1>5 DEF DataSent, Await, Goes
  <2>3. InOrder' = InOrder
    BY <2>1 DEF InOrder
  <2>4. Window'
    BY <1>0, CallerWindow DEF Inv
  <2>5. Places'
    BY <1>0, <1>1, <2>1, <2>3 DEF Inv, Places, Waits
  <2>6. Data'
    BY <1>0, <2>1 DEF Inv, Data, Sent
  <2>7. Control'
    <3>1. InOrder => \A m \in In(transit) : m.event \notin Answers
      BY <1>2, HasNot
    <3> QED BY <1>0, <1>2, <2>1, <2>3, <3>1 DEF Control, Answers
  <2>8. Answered'
    BY <1>0, <1>1, <2>1, <2>3 DEF Answered
  <2>9. Statuses'
    BY <1>0, <1>1, <2>1 DEF Inv, Statuses, Wanted
  <2>10. Transfers'
    <3>1. ASSUME Orderly' PROVE Stage'
      <4>1. Orderly /\ Stage
        BY <1>0, <1>1, <2>1, <3>1 DEF Inv, Transfers, Orderly
      <4>2. awaited = "session" /\ ~Holding /\ ~Holding'
        BY <1>0, <2>1 DEF Inv, Places, Waits, Holding
      <4> QED BY <1>0, <2>1, <4>1, <4>2 DEF Stage, NoTransmit, NoCredit, Mine
    <3>2. DataCall' <=> DataCall
      BY <1>0, <2>1 DEF DataCall
    <3> QED BY <1>0, <1>1, <2>1, <2>3, <3>1, <3>2 DEF Inv, Transfers
  <2>11. OkIsTrue' /\ DoneIsOk'
    BY <1>0, <2>1, StaysTrue DEF Inv
  <2> QED BY <2>4, <2>5, <2>6, <2>7, <2>8, <2>9, <2>10, <2>11 DEF Inv
<1>6. CASE wstatus # "ok"
  <2>1. Return("failed")
    BY <1>6 DEF DataSent
  <2>2. spoilt = {} => ~Has(transit, {"session"})
    BY <1>3, <1>4 DEF InOrder
  <2>3. ~Orderly
    BY <1>6 DEF Orderly
  <2>4. Inv'
    BY <1>0, <1>2, <2>1, <2>2, <2>3, Returns
  <2>5. ASSUME done, result.fresh, spoilt \subseteq {"expired"} PROVE ~outranks \/ ~result.clean
    <3>1. outranks /\ result.clean => spoilt = {}
      BY <1>0, <1>1, <2>5 DEF Inv, Transfers
    <3>2. spoilt = {} => ~result.clean
      BY <1>0, <1>1, <1>6 DEF Inv, Transfers, InOrder
    <3> QED BY <3>1, <3>2
  <2>6. OkIsTrue' /\ DoneIsOk'
    BY <1>0, <1>1, <2>1, <2>5, ReturnsTrue DEF Inv
  <2> QED BY <2>4, <2>6
<1> QED BY <1>5, <1>6

(* waitforNotification looks whether its event has come. *)
LEMMA CheckKeeps == ASSUME IInv, Check PROVE Inv' /\ OkIsTrue' /\ DoneIsOk'
<1>0. /\ Types /\ Inv /\ Caller /\ pc = "check"
      /\ transit' = transit /\ mbox' = << >> /\ ~Sending /\ ~Sending' /\ pc # "idle"
      /\ UNCHANGED <<outranks, wstatus, sessionInfo, dataTransmit, dataCredit>>
  BY CallerFrame DEF IInv, Check, Caller
<1>1. /\ got' = TRUE /\ pc' = IF receivedEventId = awaited THEN "reset" ELSE "set"
      /\ UNCHANGED <<call, awaited, currentEventId, receivedEventId, devMgmtSem,
                     done, held, result, spoilt>>
  BY DEF Check, Goes, wait
<1>2. pc' \in {"reset", "set"}
  BY <1>1
<1>3. InOrder' = InOrder
  BY <1>1 DEF InOrder
<1>4. Window'
  BY <1>0, CallerWindow DEF Inv
<1>5. Places'
  BY <1>0, <1>1, <1>2, <1>3 DEF Inv, Places, Waits
<1>6. Data'
  BY <1>0, <1>1 DEF Inv, Data, Sent
<1>7. Control'
  BY <1>0, <1>1, <1>2, <1>3 DEF Inv, Control
<1>8. Answered'
  BY <1>0, <1>1, <1>2, <1>3 DEF Inv, Answered, Waits
<1>9. Statuses'
  <2>1. ASSUME result.fresh, spoilt \subseteq {"expired"}, Has(transit, {"session"})
        PROVE  pc' = "set"
    <3>1. call.op \in SessionOp /\ (receivedEventId = "session" => Has(transit, SessionOp))
      BY <1>0, <2>1 DEF Inv, Statuses
    <3>2. awaited = "session"
      BY <1>0, <3>1 DEF Inv, Places, Waits
    <3>3. InOrder
      BY <1>0, <2>1, <3>1 DEF Inv, Answered
    <3>4. ~Has(transit, SessionOp)
      BY <1>0, <3>3 DEF Inv, Control, Has, Answers
    <3> QED BY <1>1, <3>1, <3>2, <3>4
  <2> QED BY <1>0, <1>1, <1>2, <2>1 DEF Inv, Statuses, Wanted
<1>10. Transfers'
  <2>1. ASSUME Orderly', DataCall' PROVE Stage'
    <3>1. Stage
      BY <1>0, <1>1, <2>1 DEF Inv, Transfers, Orderly, DataCall
    <3>2. receivedEventId # awaited /\ pc' = "set"
      BY <1>0, <1>1, <3>1 DEF Stage
    <3> QED BY <1>0, <1>1, <3>1, <3>2 DEF Stage, Holding, NoTransmit, NoCredit, Mine
  <2>2. (Orderly <=> Orderly') /\ (DataCall <=> DataCall')
    BY <1>0, <1>1, <1>2 DEF Orderly, DataCall
  <2> QED BY <1>0, <1>1, <1>2, <1>3, <2>1, <2>2 DEF Inv, Transfers, NoTransmit
<1>11. OkIsTrue' /\ DoneIsOk'
  BY <1>0, <1>1, StaysTrue DEF Inv
<1> QED BY <1>4, <1>5, <1>6, <1>7, <1>8, <1>9, <1>10, <1>11 DEF Inv

(* It says what it waits for. *)
LEMMA SetKeeps == ASSUME IInv, SetWaitEvent PROVE Inv' /\ OkIsTrue' /\ DoneIsOk'
<1>0. /\ Types /\ Inv /\ Caller /\ pc = "set"
      /\ transit' = transit /\ mbox' = << >> /\ ~Sending /\ ~Sending' /\ pc # "idle"
      /\ UNCHANGED <<outranks, wstatus, sessionInfo, dataTransmit, dataCredit>>
  BY CallerFrame DEF IInv, SetWaitEvent, Caller
<1>1. /\ pc' = "ntf" /\ currentEventId' = awaited
      /\ UNCHANGED <<call, awaited, got, receivedEventId, devMgmtSem, done, held, result, spoilt>>
  BY DEF SetWaitEvent, Goes
<1>2. devMgmtSem \in {0, 1}
  BY <1>0 DEF Types, TypeOK
<1>3. InOrder' = InOrder
  BY <1>1 DEF InOrder
<1>4. Window'
  BY <1>0, CallerWindow DEF Inv
<1>5. Places'
  BY <1>0, <1>1, <1>3 DEF Inv, Places, Waits
<1>6. Data'
  BY <1>0, <1>1 DEF Inv, Data, Sent
<1>7. Control'
  BY <1>0, <1>1, <1>2, <1>3 DEF Inv, Control
<1>8. Answered'
  BY <1>0, <1>1, <1>3 DEF Inv, Answered, Waits
<1>9. Statuses'
  <2>1. ASSUME result.fresh, spoilt \subseteq {"expired"}, Has(transit, {"session"})
        PROVE  devMgmtSem = 0
    <3>1. call.op \in SessionOp
      BY <1>0, <2>1 DEF Inv, Statuses
    <3>2. InOrder
      BY <1>0, <2>1, <3>1 DEF Inv, Answered
    <3> QED BY <1>0, <1>2, <3>2 DEF Inv, Control
  <2> QED BY <1>0, <1>1, <2>1 DEF Inv, Statuses, Wanted
<1>10. Transfers'
  <2>1. ASSUME Orderly', DataCall' PROVE Stage'
    <3>1. Stage
      BY <1>0, <1>1, <2>1 DEF Inv, Transfers, Orderly, DataCall
    <3>2. devMgmtSem = 0
      BY <1>0, <1>1, <1>2, <2>1 DEF Inv, Control, Orderly, InOrder
    <3> QED BY <1>0, <1>1, <3>1, <3>2 DEF Stage, Holding, NoTransmit, NoCredit, Mine
  <2>2. (Orderly <=> Orderly') /\ (DataCall <=> DataCall')
    BY <1>0, <1>1 DEF Orderly, DataCall
  <2> QED BY <1>0, <1>1, <1>3, <2>1, <2>2 DEF Inv, Transfers, NoTransmit
<1>11. OkIsTrue' /\ DoneIsOk'
  BY <1>0, <1>1, StaysTrue DEF Inv
<1> QED BY <1>4, <1>5, <1>6, <1>7, <1>8, <1>9, <1>10, <1>11 DEF Inv

(* The notification *)
LEMMA NtfWokenKeeps == ASSUME IInv, NtfWoken PROVE Inv' /\ OkIsTrue' /\ DoneIsOk'
<1>0. /\ Types /\ Inv /\ Caller /\ pc = "ntf" /\ devMgmtSem = 1
      /\ transit' = transit /\ mbox' = << >> /\ ~Sending /\ ~Sending' /\ pc # "idle"
      /\ UNCHANGED <<outranks, wstatus, sessionInfo, dataTransmit, dataCredit>>
  BY CallerFrame DEF IInv, NtfWoken, Caller
<1>1. /\ pc' = "reset" /\ got' = TRUE /\ devMgmtSem' = 0
      /\ UNCHANGED <<call, awaited, currentEventId, receivedEventId, done, held, result, spoilt>>
  BY DEF NtfWoken, Goes
<1>3. InOrder' = InOrder
  BY <1>1 DEF InOrder
<1>4. Window'
  BY <1>0, CallerWindow DEF Inv
<1>5. Places'
  BY <1>0, <1>1, <1>3 DEF Inv, Places, Waits
<1>6. Data'
  BY <1>0, <1>1 DEF Inv, Data, Sent
<1>7. Control'
  BY <1>0, <1>1, <1>3 DEF Inv, Control
<1>8. Answered'
  BY <1>0, <1>1, <1>3 DEF Inv, Answered, Waits
<1>9. Statuses'
  BY <1>0, <1>1 DEF Inv, Statuses, Wanted
<1>10. Transfers'
  <2>1. ASSUME Orderly', DataCall' PROVE Stage'
    <3>1. Stage
      BY <1>0, <1>1, <2>1 DEF Inv, Transfers, Orderly, DataCall
    <3> QED BY <1>0, <1>1, <3>1 DEF Stage, Holding, NoTransmit, NoCredit, Mine
  <2>2. (Orderly <=> Orderly') /\ (DataCall <=> DataCall')
    BY <1>0, <1>1 DEF Orderly, DataCall
  <2> QED BY <1>0, <1>1, <1>3, <2>1, <2>2 DEF Inv, Transfers, NoTransmit
<1>11. OkIsTrue' /\ DoneIsOk'
  BY <1>0, <1>1, StaysTrue DEF Inv
<1> QED BY <1>4, <1>5, <1>6, <1>7, <1>8, <1>9, <1>10, <1>11 DEF Inv

(* A wait that ends without its notification *)
LEMMA NtfExpiresKeeps == ASSUME IInv, NtfExpires PROVE Inv' /\ OkIsTrue' /\ DoneIsOk'
<1>0. /\ Types /\ Inv /\ Caller /\ pc = "ntf" /\ devMgmtSem = 0
      /\ transit' = transit /\ mbox' = << >> /\ ~Sending /\ ~Sending' /\ pc # "idle"
      /\ UNCHANGED <<outranks, wstatus, sessionInfo, dataTransmit, dataCredit>>
  BY CallerFrame DEF IInv, NtfExpires, Caller
<1>1. /\ pc' = "reset" /\ got' = (awaited = "session")
      /\ UNCHANGED <<call, awaited, currentEventId, receivedEventId, devMgmtSem, done, held, result>>
  BY DEF NtfExpires, wait
<1>2. /\ ~InOrder' /\ spoilt' # {}
      /\ spoilt' \subseteq {"expired"} => Quiet /\ spoilt \subseteq {"expired"}
  BY DEF NtfExpires, InOrder
<1>3. ASSUME Quiet PROVE \A E : ~Has(transit, E)
  <2>1. transit = << >>
    BY <1>3 DEF Quiet, transit
  <2> QED BY <2>1, InShort DEF Has
<1>4. Window'
  BY <1>0, CallerWindow DEF Inv
<1>5. Places'
  BY <1>0, <1>1, <1>2 DEF Inv, Places, Waits
<1>6. Data'
  BY <1>0, <1>1 DEF Inv, Data, Sent
<1>7. Control'
  BY <1>2 DEF Control
<1>8. Answered'
  BY <1>0, <1>1 DEF Inv, Answered, Waits
<1>9. Statuses'
  BY <1>0, <1>1, <1>2, <1>3 DEF Inv, Statuses, Wanted
<1>10. Transfers'
  <2>1. ~Orderly'
    BY <1>2 DEF Orderly
  <2>2. ASSUME call.op = "data", outranks, result.clean, result.fresh, done,
               spoilt \subseteq {"expired"}, Quiet
        PROVE  FALSE
    <3>1. spoilt = {}
      BY <1>0, <2>2 DEF Inv, Transfers
    <3>2. Orderly /\ DataCall
      BY <1>0, <2>2, <3>1 DEF Inv, Transfers, Orderly, DataCall, InOrder
    <3>3. Stage /\ ~Holding
      BY <1>0, <3>2 DEF Inv, Transfers, Holding
    <3>4. awaited # "credit" => ~NoTransmit
      BY <2>2, <3>3 DEF Stage
    <3>5. awaited = "credit" => ~NoCredit
      BY <2>2, <3>3 DEF Stage
    <3> QED BY <1>3, <2>2, <3>4, <3>5 DEF NoTransmit, NoCredit
  <2> QED BY <1>0, <1>1, <1>2, <2>1, <2>2 DEF Transfers
<1>11. OkIsTrue' /\ DoneIsOk'
  BY <1>0, <1>1, StaysTrue DEF Inv
<1> QED BY <1>4, <1>5, <1>6, <1>7, <1>8, <1>9, <1>10, <1>11 DEF Inv

(* receivedEventId is cleared. *)
LEMMA ClearKeeps == ASSUME IInv, ClearReceived PROVE Inv' /\ OkIsTrue' /\ DoneIsOk'
<1>0. /\ Types /\ Inv /\ Caller /\ pc = "reset"
      /\ transit' = transit /\ mbox' = << >> /\ ~Sending /\ ~Sending' /\ pc # "idle"
      /\ UNCHANGED <<outranks, wstatus, sessionInfo, dataTransmit, dataCredit>>
  BY CallerFrame DEF IInv, ClearReceived, Caller
<1>1. /\ pc' = "judge" /\ receivedEventId' = "default"
      /\ UNCHANGED <<call, awaited, got, currentEventId, devMgmtSem, done, held, result, spoilt>>
  BY DEF ClearReceived, Goes
<1>3. InOrder' = InOrder
  BY <1>1 DEF InOrder
<1>4. Window'
  BY <1>0, CallerWindow DEF Inv
<1>5. Places'
  BY <1>0, <1>1, <1>3 DEF Inv, Places, Waits
<1>6. Data'
  BY <1>0, <1>1 DEF Inv, Data, Sent
<1>7. Control'
  BY <1>0, <1>1, <1>3 DEF Inv, Control
<1>8. Answered'
  BY <1>0, <1>1, <1>3 DEF Inv, Answered, Waits
<1>9. Statuses'
  BY <1>0, <1>1 DEF Inv, Statuses, Wanted
<1>10. Transfers'
  <2>1. ASSUME Orderly', DataCall' PROVE Stage'
    <3>1. Stage
      BY <1>0, <1>1, <2>1 DEF Inv, Transfers, Orderly, DataCall
    <3> QED BY <1>0, <1>1, <3>1 DEF Stage, Holding, NoTransmit, NoCredit, Mine
  <2>2. (Orderly <=> Orderly') /\ (DataCall <=> DataCall')
    BY <1>0, <1>1 DEF Orderly, DataCall
  <2> QED BY <1>0, <1>1, <1>3, <2>1, <2>2 DEF Inv, Transfers, NoTransmit
<1>11. OkIsTrue' /\ DoneIsOk'
  BY <1>0, <1>1, StaysTrue DEF Inv
<1> QED BY <1>4, <1>5, <1>6, <1>7, <1>8, <1>9, <1>10, <1>11 DEF Inv

(* What is known once waitforNotification has returned *)
LEMMA Judging ==
    ASSUME IInv, Judges, Caller
    PROVE  /\ Types /\ Inv
           /\ transit' = transit /\ mbox' = << >> /\ ~Sending /\ ~Sending' /\ pc = "judge"
           /\ UNCHANGED <<outranks, wstatus, sessionInfo, dataTransmit, dataCredit,
                          currentEventId, receivedEventId, devMgmtSem>>
           /\ InOrder => devMgmtSem = 0 /\ ~Has(transit, Answers)
                         /\ currentEventId \in SessionOp \cup {"default"} /\ result.fresh
           /\ spoilt = {} => ~Has(transit, {"session"})
           /\ awaited # "session" => call.op = "data"
           /\ Orderly /\ call.op = "data" => Stage /\ got /\ receivedEventId = "default" /\ Holding
<1>1. /\ Types /\ Inv /\ transit' = transit /\ mbox' = << >> /\ ~Sending /\ ~Sending' /\ pc = "judge"
      /\ UNCHANGED <<outranks, wstatus, sessionInfo, dataTransmit, dataCredit,
                     currentEventId, receivedEventId, devMgmtSem>>
  BY CallerFrame DEF IInv, Judges, wait
<1>2. InOrder => devMgmtSem = 0 /\ ~Has(transit, Answers)
                 /\ currentEventId \in SessionOp \cup {"default"} /\ result.fresh
  BY <1>1 DEF Inv, Control, Places, Types, TypeOK
<1>3. spoilt = {} => ~Has(transit, {"session"})
  BY <1>1, <1>2 DEF Inv, Statuses, InOrder
<1>4. awaited # "session" => call.op = "data"
  BY <1>1 DEF Inv, Places, Waits, Types, TypeOK
<1>5. ASSUME Orderly, call.op = "data" PROVE Stage /\ got /\ receivedEventId = "default" /\ Holding
  <2>1. Stage
    BY <1>1, <1>5 DEF Inv, Transfers, DataCall
  <2> QED BY <1>1, <2>1 DEF Stage, Holding
<1> QED BY <1>1, <1>2, <1>3, <1>4, <1>5

(* What a data call that goes on with its loop waits for *)
LEMMA Loops ==
    ASSUME IInv, Judges, Caller, call.op = "data", NEW event \in {"transmit", "credit"}, Await(event),
           event = "credit" => done,
           Orderly /\ event = "credit" => NoTransmit /\ ~NoCredit,
           Orderly /\ event = "transmit" => awaited = "transmit" /\ ~NoTransmit
    PROVE  Inv' /\ OkIsTrue' /\ DoneIsOk'
<1>0. /\ Types /\ Inv
      /\ transit' = transit /\ mbox' = << >> /\ ~Sending /\ ~Sending' /\ pc = "judge"
      /\ UNCHANGED <<outranks, wstatus, sessionInfo, dataTransmit, dataCredit,
                     currentEventId, receivedEventId, devMgmtSem>>
  BY Judging
<1>1. /\ pc' = "check" /\ awaited' = event /\ UNCHANGED <<call, got, done, held, result, spoilt>>
  BY DEF Await, Goes
<1>2. call.op \notin SessionOp
  BY DEF SessionOp
<1>3. InOrder' = InOrder
  BY <1>1 DEF InOrder
<1>4. Window'
  BY <1>0, CallerWindow DEF Inv
<1>5. Places'
  BY <1>0, <1>1, <1>2, <1>3 DEF Inv, Places, Waits
<1>6. Data'
  BY <1>0, <1>1 DEF Inv, Data, Sent
<1>7. Control'
  BY <1>0, <1>1, <1>3 DEF Inv, Control
<1>8. Answered'
  BY <1>0, <1>1, <1>2, <1>3 DEF Inv, Answered, Waits
<1>9. Statuses'
  BY <1>0, <1>1, <1>2 DEF Inv, Statuses, Wanted
<1>10. Transfers'
  <2>1. ASSUME Orderly', DataCall' PROVE Stage'
    <3>1. Orderly
      BY <1>0, <1>1, <2>1 DEF Orderly
    <3>2. Stage /\ got /\ receivedEventId = "default" /\ Holding
      BY <3>1, Judging
    <3>3. ~Holding'
      BY <1>1 DEF Holding
    <3> QED BY <1>0, <1>1, <3>1, <3>2, <3>3 DEF Stage, NoTransmit, NoCredit, Mine
  <2>2. (Orderly <=> Orderly') /\ DataCall /\ DataCall'
    BY <1>0, <1>1 DEF Orderly, DataCall
  <2> QED BY <1>0, <1>1, <1>3, <2>1, <2>2 DEF Inv, Transfers, NoTransmit
<1>11. OkIsTrue' /\ DoneIsOk'
  BY <1>0, <1>1, StaysTrue DEF Inv
<1> QED BY <1>4, <1>5, <1>6, <1>7, <1>8, <1>9, <1>10, <1>11 DEF Inv

(* A call that fails after waitforNotification: the data was not to be     *)
(* reported sent.                                                          *)
LEMMA Fails ==
    ASSUME IInv, Judges, Caller, call.op = "data", Return("failed"),
           Orderly => ~done /\ NoTransmit
    PROVE  Inv' /\ OkIsTrue' /\ DoneIsOk'
<1>0. Types /\ Inv /\ pc = "judge" /\ UNCHANGED <<currentEventId, receivedEventId, devMgmtSem>>
  BY Judging
<1>1. Orderly => NoTransmit /\ receivedEventId # "transmit"
  BY Judging
<1>2. Inv'
  BY <1>0, <1>1, Judging, Returns
<1>3. ASSUME done, result.fresh, spoilt \subseteq {"expired"} PROVE ~outranks \/ ~result.clean
  <2>1. outranks /\ result.clean => spoilt = {}
    BY <1>0, <1>3 DEF Inv, Transfers
  <2>2. outranks /\ result.clean /\ spoilt = {} => Orderly
    BY <1>0 DEF Inv, Transfers, Orderly, InOrder
  <2> QED BY <1>3, <2>1, <2>2
<1>4. OkIsTrue' /\ DoneIsOk'
  BY <1>0, <1>3, ReturnsTrue DEF Inv
<1> QED BY <1>2, <1>4

(* The session has the status, or the call fails. *)
LEMMA JudgeSessionKeeps == ASSUME IInv, JudgeSession PROVE Inv' /\ OkIsTrue' /\ DoneIsOk'
<1>0. Caller /\ Judges /\ awaited = "session"
  BY DEF JudgeSession, Caller
<1>1. /\ Types /\ Inv /\ pc = "judge" /\ UNCHANGED <<currentEventId, receivedEventId, devMgmtSem>>
      /\ transit' = transit /\ ~Sending
  BY <1>0, Judging
<1>2. call.op \in SessionOp /\ call.op # "data"
  BY <1>0, <1>1 DEF Inv, Places, Waits, SessionOp
<1>3. Orderly => NoTransmit /\ receivedEventId # "transmit"
  BY <1>1, <1>2 DEF Inv, Transfers, DataCall
<1>4. result.fresh => done /\ held
  BY <1>0, <1>1 DEF Inv, Answered, Waits, Places
<1>5. ASSUME done, result.fresh, spoilt \subseteq {"expired"} PROVE got /\ sessionInfo = Wanted
  BY <1>0, <1>1, <1>2, <1>5 DEF Inv, Statuses
<1>6. CASE got /\ sessionInfo = Wanted
  <2>1. Return("ok")
    BY <1>6 DEF JudgeSession, Wanted
  <2>2. Inv'
    BY <1>0, <1>1, <1>3, <2>1, Judging, Returns
  <2>3. OkIsTrue' /\ DoneIsOk'
    BY <1>0, <1>1, <1>4, <2>1, ReturnsTrue DEF Inv
  <2> QED BY <2>2, <2>3
<1>7. CASE ~(got /\ sessionInfo = Wanted)
  <2>1. Return("failed")
    BY <1>7 DEF JudgeSession, Wanted
  <2>2. Inv'
    BY <1>0, <1>1, <1>3, <2>1, Judging, Returns
  <2>3. OkIsTrue' /\ DoneIsOk'
    BY <1>0, <1>1, <1>5, <1>7, <2>1, ReturnsTrue DEF Inv
  <2> QED BY <2>2, <2>3
<1> QED BY <1>6, <1>7

(* The loop of UwbApi_SendData *)
LEMMA JudgeTransmitKeeps == ASSUME IInv, JudgeTransmit PROVE Inv' /\ OkIsTrue' /\ DoneIsOk'
<1> DEFINE ours == [session |-> call.session, seq |-> call.n, status |-> "ok"]
<1>0. Caller /\ Judges /\ awaited = "transmit"
  BY DEF JudgeTransmit, Caller
<1>1. Types /\ Inv /\ pc = "judge" /\ call.op = "data"
  BY <1>0, Judging
<1>2. ASSUME Orderly
      PROVE  /\ got /\ Mine(dataTransmit) /\ (dataTransmit.status = "repetition" <=> ~NoTransmit)
             /\ done => ~NoCredit
  <2>1. Stage /\ got /\ Holding
    BY <1>0, <1>1, <1>2, Judging
  <2> QED BY <1>0, <2>1 DEF Stage
<1>3. CASE ~got
  <2>1. Return("failed")
    BY <1>3 DEF JudgeTransmit
  <2> QED BY <1>0, <1>1, <1>2, <1>3, <2>1, Fails DEF IInv
<1>4. CASE got /\ dataTransmit = ours
  <2>1. Await("credit")
    BY <1>4 DEF JudgeTransmit
  <2>2. dataTransmit.seq = call.n /\ dataTransmit.status = "ok"
    BY <1>4
  <2>3. done
    BY <1>1, <2>2 DEF Inv, Data, Sent
  <2>4. Orderly => NoTransmit /\ ~NoCredit
    BY <1>2, <2>2, <2>3
  <2> QED BY <1>0, <1>1, <2>1, <2>3, <2>4, Loops
<1>5. CASE got /\ dataTransmit # ours /\ dataTransmit.status = "repetition"
  <2>1. Await("transmit")
    BY <1>5 DEF JudgeTransmit
  <2> QED BY <1>0, <1>1, <1>2, <1>5, <2>1, Loops
<1>6. CASE got /\ dataTransmit # ours /\ dataTransmit.status # "repetition"
  <2>1. Return("failed")
    BY <1>6 DEF JudgeTransmit
  <2>2. ASSUME Orderly, done PROVE FALSE
    <3>1. dataTransmit \in TransmitInfo
      BY <1>1 DEF Types, MoreTypeOK
    <3>2. dataTransmit.session = call.session /\ dataTransmit.seq = call.n
          /\ dataTransmit.status # "error"
      BY <1>2, <2>2 DEF Mine
    <3>3. dataTransmit.status = "ok"
      BY <1>6, <3>1, <3>2 DEF TransmitInfo, Transfer
    <3>4. dataTransmit = ours
      BY <3>1, <3>2, <3>3 DEF TransmitInfo
    <3> QED BY <1>6, <3>4
  <2> QED BY <1>0, <1>1, <1>2, <1>6, <2>1, <2>2, Fails
<1> QED BY <1>3, <1>4, <1>5, <1>6

(* The credit *)
LEMMA JudgeCreditKeeps == ASSUME IInv, JudgeCredit PROVE Inv' /\ OkIsTrue' /\ DoneIsOk'
<1>0. Caller /\ Judges /\ awaited = "credit"
  BY DEF JudgeCredit, Caller
<1>1. /\ Types /\ Inv /\ pc = "judge" /\ call.op = "data"
      /\ UNCHANGED <<currentEventId, receivedEventId, devMgmtSem>>
  BY <1>0, Judging
<1>2. ASSUME Orderly
      PROVE  got /\ dataCredit.session = call.session /\ NoTransmit /\ receivedEventId # "transmit"
  <2>1. Stage /\ got /\ Holding /\ receivedEventId = "default"
    BY <1>0, <1>1, <1>2, Judging
  <2> QED BY <1>0, <2>1 DEF Stage
<1>3. done /\ held
  BY <1>0, <1>1 DEF Inv, Data, Places
<1>4. CASE got /\ dataCredit.session = call.session
  <2>1. Return("ok")
    BY <1>4 DEF JudgeCredit
  <2>2. Inv'
    BY <1>0, <1>1, <1>2, <2>1, Judging, Returns
  <2>3. OkIsTrue' /\ DoneIsOk'
    BY <1>0, <1>1, <1>3, <2>1, ReturnsTrue DEF Inv
  <2> QED BY <2>2, <2>3
<1>5. CASE ~(got /\ dataCredit.session = call.session)
  <2>1. Return("failed")
    BY <1>5 DEF JudgeCredit
  <2> QED BY <1>0, <1>1, <1>2, <1>5, <2>1, Fails
<1> QED BY <1>4, <1>5

(* The caller's steps keep the invariant. *)
LEMMA CallerKeeps == ASSUME IInv, Caller PROVE IInv'
<1>1. Inv' /\ OkIsTrue' /\ DoneIsOk'
  BY RspWokenKeeps, RspExpiresKeeps, DataSentKeeps, CheckKeeps, SetKeeps, NtfWokenKeeps, NtfExpiresKeeps,
     ClearKeeps, JudgeSessionKeeps, JudgeTransmitKeeps, JudgeCreditKeeps DEF Caller
<1> QED BY <1>1, CallerTypesKept DEF IInv
-----------------------------------------------------------------------------
(* Lemmas: a call keeps the invariant *)

(* A message more, and not the events of E *)
LEMMA OneMore ==
    ASSUME NEW S, NEW q \in Seq(S), NEW c \in S
    PROVE  /\ In(<<c>> \o q) = {c} \cup In(q)
           /\ \A E : c.event \notin E =>
                /\ Has(<<c>> \o q, E) <=> Has(q, E)
                /\ Single(q, E) => Single(<<c>> \o q, E)
           /\ Credited(q) /\ c.event # "transmit" => Credited(<<c>> \o q)
<1>0. PICK p : p = <<c>>
  OBVIOUS
<1>1. p \in Seq(S) /\ Len(p) = 1 /\ p[1] = c
  BY <1>0
<1>2. In(p) = {c}
  BY <1>0, InShort, Zenon
<1>3. In(p \o q) = {c} \cup In(q)
  <2>1. In(p \o q) = In(p) \cup In(q)
    BY <1>1, InJoined
  <2> QED BY <1>2, <2>1
<1>4. ASSUME NEW E, c.event \notin E
      PROVE  /\ Has(p \o q, E) <=> Has(q, E)
             /\ Single(q, E) => Single(p \o q, E)
  <2>1. ~Has(p, E)
    BY <1>2, <1>4 DEF Has
  <2>2. Single(p, E)
    BY <1>1 DEF Single
  <2>3. Single(q, E) => Single(p \o q, E)
    BY <1>1, <2>1, <2>2, SingleJoined
  <2> QED BY <1>3, <1>4, <2>3 DEF Has
<1>5. ASSUME Credited(q), c.event # "transmit" PROVE Credited(p \o q)
  <2>1. Credited(p)
    BY <1>1, <1>5 DEF Credited
  <2> QED BY <1>1, <1>5, <2>1, CreditedJoined
<1> QED BY <1>0, <1>3, <1>4, <1>5

(* A call adds its command to what is under way, and nothing else. *)
LEMMA CallUnderWay ==
    ASSUME IInv, NEW op \in SessionOp \cup {"data"}, NEW s \in Session, Call(op, s)
    PROVE  /\ \A m \in In(transit') : m \in In(transit) \/ m.event = "cmd"
           /\ \A E : "cmd" \notin E => /\ Has(transit', E) <=> Has(transit, E)
                                       /\ Single(transit, E) => Single(transit', E)
           /\ Credited(transit) => Credited(transit')
<1>1. PICK c : c = [event |-> "cmd", cmd |-> call']
  OBVIOUS
<1>2. c \in Message /\ transit' = <<c>> \o transit /\ c.event = "cmd"
  BY <1>1, CallTransit DEF IInv
<1>3. transit \in Seq(Message)
  BY TransitIs DEF IInv
<1> QED BY <1>2, <1>3, OneMore

(* A new call keeps the invariant: it finds no answer of the last under    *)
(* way.                                                                    *)
LEMMA CallKeeps ==
    ASSUME IInv, NEW op \in SessionOp \cup {"data"}, NEW s \in Session, Call(op, s)
    PROVE  IInv'
<1>1. /\ Types /\ Inv /\ pc = "idle" /\ pc' = IF op = "data" THEN "sent" ELSE "rsp"
      /\ currentEventId' = IF op = "data" THEN currentEventId ELSE op
      /\ done' = FALSE
      /\ UNCHANGED <<outranks, awaited, got, receivedEventId, devMgmtSem, wstatus, sessionInfo,
                     dataTransmit, dataCredit, uci_cmd_window, spoilt>>
  BY DEF IInv, Call, Goes, info
<1>2. /\ call'.op = op /\ call'.session = s /\ call'.n = call.n + 1 /\ call.n \in Nat
      /\ mbox' # << >> /\ Head(mbox').event = "cmd" /\ Head(mbox').cmd = call'
      /\ Sending' /\ ~Sending
  <2>1. call.n \in Nat
    BY <1>1 DEF Types, MoreTypeOK, CallType
  <2>2. /\ call'.op = op /\ call'.session = s /\ call'.n = call.n + 1 /\ mbox' # << >>
        /\ Head(mbox') = [event |-> "cmd", cmd |-> call'] /\ ~Sending
    BY <1>1, CallTransit
  <2>3. Head(mbox').event = "cmd" /\ Head(mbox').cmd = call'
    BY <2>2
  <2> QED BY <2>1, <2>2, <2>3 DEF Sending
<1>3. /\ result'.op = op /\ result'.status = "none" /\ result'.fresh = InOrder
      /\ result'.clean = (wstatus = "ok")
  BY DEF Call
<1>4. InOrder' = InOrder
  BY <1>1 DEF InOrder
<1>5. /\ \A m \in In(transit') : m \in In(transit) \/ m.event = "cmd"
      /\ \A E : "cmd" \notin E => /\ Has(transit', E) <=> Has(transit, E)
                                  /\ Single(transit, E) => Single(transit', E)
      /\ Credited(transit) => Credited(transit')
  BY CallUnderWay
<1>6. InOrder => ~Has(transit, Answers) /\ devMgmtSem = 0 /\ currentEventId \in SessionOp \cup {"default"}
  BY <1>1 DEF Inv, Control, Types, TypeOK
<1>7. "cmd" \notin Openers /\ "cmd" \notin Answers /\ "cmd" \notin SessionOp /\ "data" \notin SessionOp
  BY DEF Openers, Answers, SessionOp
<1>8. "cmd" \notin {"session"} /\ "cmd" \notin {"transmit"}
  OBVIOUS
<1>9. InOrder => \A m \in In(transit') : m.event \notin Answers
  BY <1>5, <1>6, <1>7, HasNot
<1>10. Window'
  BY <1>1, <1>5, <1>7 DEF Inv, Window
<1>11. Places'
  BY <1>1, <1>2, <1>3, <1>4 DEF Inv, Places, Waits
<1>12. Data'
  <2>1. ASSUME NEW t, t.seq \in Nat, Sent(t) PROVE t.seq <= call'.n /\ t.seq # call'.n
    BY <1>2, <2>1 DEF Sent
  <2>2. \A m \in In(transit) : m.event = "transmit" => m.seq \in Nat
    <3>1. transit \in Seq(Message)
      BY <1>1, TransitIs
    <3>2. \A m \in In(transit) : m \in Message
      BY <3>1 DEF In
    <3> QED BY <3>2, MessageIs DEF TransmitType
  <2>3. dataTransmit.seq \in Nat
    BY <1>1 DEF Types, MoreTypeOK, TransmitInfo
  <2> QED BY <1>1, <1>5, <2>1, <2>2, <2>3 DEF Inv, Data, Sent, Places, Waits
<1>13. Control'
  BY <1>1, <1>2, <1>4, <1>5, <1>6, <1>7, <1>9 DEF Control, Answers
<1>14. Answered'
  BY <1>1, <1>2, <1>3, <1>4, <1>6, <1>7, <1>9 DEF Answered, Waits, Answers
<1>15. Statuses'
  <2>1. ASSUME InOrder, spoilt \subseteq {"expired"} PROVE ~Has(transit', {"session"})
    <3>1. spoilt = {}
      BY <2>1 DEF InOrder
    <3> QED BY <1>1, <1>5, <1>8, <3>1 DEF Inv, Statuses
  <2>2. ASSUME InOrder, spoilt \subseteq {"expired"}
        PROVE  Single(transit', {"session"}) /\ \A m \in In(transit') : m.event # "session"
    BY <2>1, <2>2 DEF Has, Single, In
  <2>3. pc' \in {"rsp", "sent"}
    BY <1>1
  <2> QED BY <1>1, <1>3, <2>1, <2>2, <2>3 DEF Inv, Statuses, Places, Waits
<1>16. Transfers'
  <2>1. ~DataCall /\ ~DataCall'
    BY <1>1, <1>2 DEF DataCall
  <2>2. Orderly' = Orderly
    BY <1>1 DEF Orderly
  <2> QED BY <1>1, <1>3, <1>5, <1>8, <2>1, <2>2 DEF Inv, Transfers, NoTransmit
<1>17. OkIsTrue' /\ DoneIsOk'
  BY <1>3 DEF OkIsTrue, DoneIsOk
<1>18. Types'
  BY <1>1, CallTypes
<1> QED BY <1>10, <1>11, <1>12, <1>13, <1>14, <1>15, <1>16, <1>17, <1>18 DEF IInv, Inv
-----------------------------------------------------------------------------
(* Lemmas: what the client and the controller do of themselves *)

(* The client thread moves a packet, and the sequence under way stays. *)
LEMMA PostsKeeps == ASSUME IInv, Posts PROVE IInv'
<1>1. /\ Types /\ Inv /\ transit' = transit /\ ~Sending /\ ~Sending' /\ (outranks => Blocked)
      /\ UNCHANGED <<outranks, pc, call, awaited, got, currentEventId, receivedEventId, devMgmtSem,
                     wstatus, sessionInfo, dataTransmit, dataCredit, uci_cmd_window,
                     done, held, spoilt, result>>
  BY PostsTransit DEF IInv, Posts, caller, wait, info, ghosts
<1>2. InOrder' = InOrder
  BY <1>1 DEF InOrder
<1>3. Window'
  BY <1>1 DEF Inv, Window
<1>4. Places'
  BY <1>1, <1>2 DEF Inv, Places
<1>5. Data'
  BY <1>1 DEF Inv, Data, Sent
<1>6. Control'
  BY <1>1, <1>2 DEF Inv, Control
<1>7. Answered'
  BY <1>1, <1>2 DEF Inv, Answered
<1>8. Statuses'
  BY <1>1 DEF Inv, Statuses, Wanted
<1>9. Transfers'
  <2>1. ASSUME Orderly, DataCall PROVE Stage'
    <3>1. Stage
      BY <1>1, <2>1 DEF Inv, Transfers
    <3>2. ~(pc \in {"sent", "check", "set"} \/ Holding)
      BY <1>1, <2>1 DEF Blocked, Holding, Orderly
    <3>3. Holding' = Holding
      BY <1>1 DEF Holding
    <3> QED BY <1>1, <3>1, <3>2, <3>3 DEF Stage, NoTransmit, NoCredit, Mine
  <2>2. (Orderly <=> Orderly') /\ (DataCall <=> DataCall')
    BY <1>1 DEF Orderly, DataCall
  <2> QED BY <1>1, <1>2, <2>1, <2>2 DEF Inv, Transfers, NoTransmit
<1>10. OkIsTrue' /\ DoneIsOk'
  BY <1>1 DEF IInv, OkIsTrue, DoneIsOk
<1>11. Types'
  BY <1>1, PostsTypes
<1> QED BY <1>3, <1>4, <1>5, <1>6, <1>7, <1>8, <1>9, <1>10, <1>11 DEF IInv, Inv

(* A packet behind the others *)
LEMMA OneLast ==
    ASSUME NEW S, NEW q \in Seq(S), NEW c \in S
    PROVE  /\ In(q \o <<c>>) = In(q) \cup {c}
           /\ \A E : c.event \notin E =>
                /\ Has(q \o <<c>>, E) <=> Has(q, E)
                /\ Single(q, E) => Single(q \o <<c>>, E)
           /\ Credited(q) /\ c.event # "transmit" => Credited(q \o <<c>>)
<1>0. PICK p : p = <<c>>
  OBVIOUS
<1>1. p \in Seq(S) /\ Len(p) = 1 /\ p[1] = c
  BY <1>0
<1>2. In(p) = {c}
  BY <1>0, InShort, Zenon
<1>3. In(q \o p) = In(q) \cup {c}
  <2>1. In(q \o p) = In(q) \cup In(p)
    BY <1>1, InJoined
  <2> QED BY <1>2, <2>1
<1>4. ASSUME NEW E, c.event \notin E
      PROVE  /\ Has(q \o p, E) <=> Has(q, E)
             /\ Single(q, E) => Single(q \o p, E)
  <2>1. ~Has(p, E)
    BY <1>2, <1>4 DEF Has
  <2>2. Single(p, E)
    BY <1>1 DEF Single
  <2>3. Single(q, E) => Single(q \o p, E)
    BY <1>1, <2>1, <2>2, SingleJoined
  <2> QED BY <1>3, <1>4, <2>3 DEF Has
<1>5. ASSUME Credited(q), c.event # "transmit" PROVE Credited(q \o p)
  <2>1. Credited(p)
    BY <1>1, <1>5 DEF Credited
  <2> QED BY <1>1, <1>5, <2>1, CreditedJoined
<1> QED BY <1>0, <1>3, <1>4, <1>5

(* A stray status is one message more, behind all others. *)
LEMMA StrayUnderWay ==
    ASSUME IInv, NEW s \in Session, Stray(s)
    PROVE  /\ \A m \in In(transit) : m \in In(transit')
           /\ \A m \in In(transit') : m \in In(transit) \/ m.event = "session"
           /\ \A E : "session" \notin E => /\ Has(transit', E) <=> Has(transit, E)
                                           /\ Single(transit, E) => Single(transit', E)
           /\ Credited(transit) => Credited(transit')
<1>1. PICK reason \in {"inband", "other"} : out' = out \o <<Status(s, "idle", reason)>>
  BY DEF Stray, Sends
<1>2. PICK c : c = Status(s, "idle", reason)
  OBVIOUS
<1>3. c \in Packet /\ c.event = "session"
  <2>1. c \in Packet
    BY <1>2, PacketsAre DEF SessionState
  <2> QED BY <1>2, <2>1 DEF Status
<1>4. transit' = transit \o <<c>>
  <2>1. <<c>> \in Seq(Packet) /\ out' = out \o <<c>> /\ mbox' = mbox
    BY <1>1, <1>2, <1>3 DEF Stray
  <2> QED BY <2>1, SendsTransit DEF IInv
<1>5. transit \in Seq(Message) /\ c \in Message
  BY <1>3, TransitIs DEF IInv
<1> QED BY <1>3, <1>4, <1>5, OneLast

(* A session that ends by itself keeps the invariant. *)
LEMMA StrayKeeps == ASSUME IInv, NEW s \in Session, Stray(s) PROVE IInv'
<1>1. /\ Types /\ Inv
      /\ UNCHANGED <<outranks, pc, call, awaited, got, currentEventId, receivedEventId, devMgmtSem,
                     wstatus, sessionInfo, dataTransmit, dataCredit, uci_cmd_window, mbox, done, result>>
      /\ spoilt' = spoilt \cup {"stray"} /\ (held => held')
  BY DEF IInv, Stray, caller, wait, info
<1>2. InOrder' = InOrder /\ ~Orderly' /\ spoilt' # {} /\ ~(spoilt' \subseteq {"expired"})
  BY <1>1 DEF InOrder, Orderly
<1>3. Sending' = Sending /\ (Sending => Head(mbox') = Head(mbox))
  BY <1>1 DEF Sending
<1>4. /\ \A m \in In(transit) : m \in In(transit')
      /\ \A m \in In(transit') : m \in In(transit) \/ m.event = "session"
      /\ \A E : "session" \notin E => /\ Has(transit', E) <=> Has(transit, E)
                                      /\ Single(transit, E) => Single(transit', E)
      /\ Credited(transit) => Credited(transit')
  BY StrayUnderWay
<1>5. "session" \notin Openers /\ "session" \notin Answers /\ "session" \notin SessionOp
  BY DEF Openers, Answers, SessionOp
<1>6. Window'
  BY <1>1, <1>4, <1>5 DEF Inv, Window
<1>7. Places'
  BY <1>1, <1>2, <1>3 DEF Inv, Places
<1>8. Data'
  BY <1>1, <1>4 DEF Inv, Data, Sent
<1>9. Control'
  BY <1>1, <1>2, <1>3, <1>4, <1>5 DEF Inv, Control
<1>10. Answered'
  BY <1>1, <1>2, <1>3, <1>4, <1>5 DEF Inv, Answered
<1>11. Statuses'
  BY <1>2 DEF Statuses
<1>12. Transfers'
  BY <1>1, <1>2 DEF Inv, Transfers
<1>13. OkIsTrue' /\ DoneIsOk'
  BY <1>1, <1>2 DEF IInv, OkIsTrue, DoneIsOk
<1>14. Types'
  BY <1>1, StrayTypes
<1> QED BY <1>6, <1>7, <1>8, <1>9, <1>10, <1>11, <1>12, <1>13, <1>14 DEF IInv, Inv
-----------------------------------------------------------------------------
(* Lemmas: the controller answers a command *)

(* What joining two sequences does to each of their properties. *)
LEMMA Appended ==
    ASSUME NEW S, NEW q \in Seq(S), NEW p \in Seq(S)
    PROVE  /\ In(q \o p) = In(q) \cup In(p)
           /\ \A E : /\ Has(q \o p, E) <=> Has(q, E) \/ Has(p, E)
                     /\ Single(p, E) /\ ~Has(q, E) => Single(q \o p, E)
                     /\ Single(q, E) /\ ~Has(p, E) => Single(q \o p, E)
           /\ Credited(q) /\ Credited(p) => Credited(q \o p)
           /\ ~Has(q, {"transmit"}) /\ Final(p) => Final(q \o p)
<1>1. In(q \o p) = In(q) \cup In(p)
  BY InJoined
<1>2. \A E : ~Has(q, E) => Single(q, E)
  BY DEF Has, Single, In
<1>3. \A E : ~Has(p, E) => Single(p, E)
  BY DEF Has, Single, In
<1>4. ASSUME NEW E
      PROVE  /\ Has(q \o p, E) <=> Has(q, E) \/ Has(p, E)
             /\ Single(p, E) /\ ~Has(q, E) => Single(q \o p, E)
             /\ Single(q, E) /\ ~Has(p, E) => Single(q \o p, E)
  <2>1. Has(q \o p, E) <=> Has(q, E) \/ Has(p, E)
    BY <1>1 DEF Has
  <2>2. Single(p, E) /\ ~Has(q, E) => Single(q \o p, E)
    BY <1>2, SingleJoined
  <2>3. Single(q, E) /\ ~Has(p, E) => Single(q \o p, E)
    BY <1>3, SingleJoined
  <2> QED BY <2>1, <2>2, <2>3
<1>5. Credited(q) /\ Credited(p) => Credited(q \o p)
  BY CreditedJoined
<1>6. ~Has(q, {"transmit"}) /\ Final(p) => Final(q \o p)
  BY FinalJoined
<1> QED BY <1>1, <1>4, <1>5, <1>6

(* What taking the first message does to them. *)
LEMMA Removed ==
    ASSUME NEW S, NEW q \in Seq(S), q # << >>
    PROVE  /\ In(q) = {Head(q)} \cup In(Tail(q))
           /\ \A E : /\ Has(q, E) <=> Head(q).event \in E \/ Has(Tail(q), E)
                     /\ Single(q, E) => Single(Tail(q), E)
                     /\ Single(q, E) /\ Head(q).event \in E => ~Has(Tail(q), E)
           /\ Credited(q) => Credited(Tail(q))
           /\ Final(q) => Final(Tail(q))
<1>1. In(q) = {Head(q)} \cup In(Tail(q))
  BY InRest
<1>2. \A E : Has(q, E) <=> Head(q).event \in E \/ Has(Tail(q), E)
  BY <1>1 DEF Has
<1>3. \A E : Single(q, E) => Single(Tail(q), E) /\ (Head(q).event \in E => ~Has(Tail(q), E))
  BY SingleRest
<1> QED BY <1>1, <1>2, <1>3, CreditedRest, FinalRest

(* The controller's answers to a data packet *)
LEMMA TwoPackets ==
    ASSUME NEW p, NEW t, NEW c, p = <<t, c>>, t.event = "transmit", c.event = "credit",
           t.status # "repetition"
    PROVE  In(p) = {t, c} /\ Single(p, Openers) /\ Credited(p) /\ Final(p)
<1>1. Len(p) = 2 /\ p[1] = t /\ p[2] = c /\ 1 \in 1 .. 2 /\ 2 \in 1 .. 2
      /\ \A i \in 1 .. 2 : i = 1 \/ i = 2
  OBVIOUS
<1>2. "transmit" \notin Openers
  BY DEF Openers, Answers, SessionOp
<1>3. In(p) = {t, c}
  BY <1>1 DEF In
<1>4. Single(p, Openers)
  BY <1>1, <1>2 DEF Single
<1>5. Credited(p)
  BY <1>1 DEF Credited
<1>6. Final(p)
  BY <1>1 DEF Final
<1> QED BY <1>3, <1>4, <1>5, <1>6

(* Data that is sent at the second attempt: two statuses and the credit. *)
LEMMA ThreePackets ==
    ASSUME NEW p, NEW r, NEW t, NEW c, p = <<r, t, c>>,
           r.event = "transmit", t.event = "transmit", c.event = "credit",
           r.status = "repetition", t.status = "ok"
    PROVE  In(p) = {r, t, c} /\ Single(p, Openers) /\ Credited(p) /\ Final(p)
<1>1. Len(p) = 3 /\ p[1] = r /\ p[2] = t /\ p[3] = c /\ 1 \in 1 .. 3 /\ 2 \in 1 .. 3 /\ 3 \in 1 .. 3
      /\ \A i \in 1 .. 3 : i = 1 \/ i = 2 \/ i = 3
  OBVIOUS
<1>2. "transmit" \notin Openers
  BY DEF Openers, Answers, SessionOp
<1>3. In(p) = {r, t, c}
  BY <1>1 DEF In
<1>4. Single(p, Openers)
  BY <1>1, <1>2 DEF Single
<1>5. Credited(p)
  BY <1>1 DEF Credited
<1>6. Final(p)
  BY <1>1 DEF Final
<1> QED BY <1>3, <1>4, <1>5, <1>6

(* Its answers to a session command *)
LEMMA AnswerPackets ==
    ASSUME NEW p, NEW r, NEW s, NEW d, p = <<r, s>> \/ p = <<r, s, d>>,
           r.event \in SessionOp, s.event = "session", d.event = "device"
    PROVE  /\ r \in In(p) /\ s \in In(p) /\ In(p) \subseteq {r, s, d}
           /\ Single(p, Openers) /\ Single(p, {"session"}) /\ Credited(p)
<1>0. /\ "session" \notin Openers /\ "device" \notin Openers
      /\ "session" \notin SessionOp /\ "transmit" \notin SessionOp
  BY DEF Openers, Answers, SessionOp
<1>1. CASE p = <<r, s>>
  <2>1. Len(p) = 2 /\ p[1] = r /\ p[2] = s /\ 1 \in 1 .. 2 /\ 2 \in 1 .. 2
        /\ \A i \in 1 .. 2 : i = 1 \/ i = 2
    BY <1>1
  <2>2. r \in In(p) /\ s \in In(p) /\ In(p) \subseteq {r, s, d}
    BY <2>1 DEF In
  <2>3. Single(p, Openers) /\ Single(p, {"session"})
    BY <1>0, <2>1 DEF Single
  <2>4. Credited(p)
    BY <1>0, <2>1 DEF Credited
  <2> QED BY <2>2, <2>3, <2>4
<1>2. CASE p = <<r, s, d>>
  <2>1. Len(p) = 3 /\ p[1] = r /\ p[2] = s /\ p[3] = d /\ 1 \in 1 .. 3 /\ 2 \in 1 .. 3 /\ 3 \in 1 .. 3
        /\ \A i \in 1 .. 3 : i = 1 \/ i = 2 \/ i = 3
    BY <1>2
  <2>2. r \in In(p) /\ s \in In(p) /\ In(p) \subseteq {r, s, d}
    BY <2>1 DEF In
  <2>3. Single(p, Openers) /\ Single(p, {"session"})
    BY <1>0, <2>1 DEF Single
  <2>4. Credited(p)
    BY <1>0, <2>1 DEF Credited
  <2> QED BY <2>2, <2>3, <2>4
<1> QED BY <1>1, <1>2

(* A single packet, that is none of data *)
LEMMA OnePacket ==
    ASSUME NEW p, NEW c, p = <<c>>, c.event # "transmit"
    PROVE  In(p) = {c} /\ Credited(p) /\ \A E : Single(p, E)
<1>1. Len(p) = 1 /\ p[1] = c /\ 1 \in 1 .. 1 /\ \A i \in 1 .. 1 : i = 1
  OBVIOUS
<1> QED BY <1>1 DEF In, Credited, Single

(* What is known when a command is taken *)
LEMMA CmdTaken ==
    ASSUME IInv, TakesCmd
    PROVE  /\ Types /\ Inv /\ Sending /\ ~Sending' /\ mbox' = << >>
           /\ Head(mbox).cmd = call /\ call \in CallType
           /\ transit # << >> /\ transit \in Seq(Message) /\ Head(transit).event = "cmd"
           /\ Tail(transit) = out
           /\ pc \in {"rsp", "sent"} /\ done = FALSE /\ awaited = "session"
           /\ pc = "rsp" => call.op \in SessionOp /\ call.op # "data"
           /\ pc = "sent" => call.op = "data" /\ call.op \notin SessionOp
           /\ InOrder => devMgmtSem = 0 /\ result.fresh
           /\ result.fresh => InOrder
           /\ UNCHANGED <<outranks, pc, call, awaited, got, result, currentEventId, receivedEventId,
                          devMgmtSem, wstatus, sessionInfo, dataTransmit, dataCredit>>
           /\ OkIsTrue' /\ DoneIsOk'
<1>1. Types /\ Inv /\ mbox # << >> /\ Head(mbox).event = "cmd" /\ mbox' = << >>
  BY DEF IInv, TakesCmd, Takes
<1>2. Sending /\ ~Sending'
  BY <1>1 DEF Sending
<1>3. /\ transit # << >> /\ transit \in Seq(Message) /\ Tail(transit) = out
      /\ Head(transit).event = "cmd"
  BY <1>1, TransitIs
<1>4. Head(mbox).cmd = call /\ pc \in {"rsp", "sent"} /\ done = FALSE /\ awaited = "session"
  BY <1>1, <1>2 DEF Inv, Places, Waits, Types, MoreTypeOK
<1>5. /\ pc = "rsp" => call.op \in SessionOp /\ call.op # "data"
      /\ pc = "sent" => call.op = "data" /\ call.op \notin SessionOp
      /\ InOrder => result.fresh
      /\ pc # "idle" => result.status = "none"
  BY <1>1, <1>4 DEF Inv, Places, SessionOp
<1>6. InOrder => devMgmtSem = 0
  BY <1>1, <1>2 DEF Inv, Control, Types, TypeOK
<1>7. result.fresh => InOrder
  BY <1>1, <1>2 DEF Inv, Answered
<1>8. UNCHANGED <<outranks, pc, call, awaited, got, result, currentEventId, receivedEventId,
                  devMgmtSem, wstatus, sessionInfo, dataTransmit, dataCredit>>
  BY DEF TakesCmd, Takes, caller, wait, info
<1>9. OkIsTrue' /\ DoneIsOk'
  BY <1>4, <1>5, <1>8 DEF OkIsTrue, DoneIsOk
<1> QED BY <1>1, <1>2, <1>3, <1>4, <1>5, <1>6, <1>7, <1>8, <1>9 DEF Types, MoreTypeOK

(* What is under way when the controller has answered with packets p *)
LEMMA CmdSends ==
    ASSUME IInv, TakesCmd, NEW p \in Seq(Packet), out' = out \o p
    PROVE  /\ \A m \in In(transit') : (m \in In(transit) /\ m.event # "cmd") \/ m \in In(p)
           /\ In(p) \subseteq In(transit')
           /\ \A E : "cmd" \notin E =>
                /\ Has(transit', E) <=> Has(transit, E) \/ Has(p, E)
                /\ Single(p, E) /\ ~Has(transit, E) => Single(transit', E)
                /\ Single(transit, E) /\ ~Has(p, E) => Single(transit', E)
           /\ Credited(p) => Credited(transit')
           /\ ~Has(transit, {"transmit"}) /\ Final(p) => Final(transit')
<1>1. /\ transit # << >> /\ transit \in Seq(Message) /\ Head(transit).event = "cmd"
      /\ Tail(transit) = out /\ mbox' = << >> /\ Sending
      /\ Credited(transit)
  BY CmdTaken DEF Inv, Window
<1>2. p \in Seq(Message) /\ transit' = out \o p /\ out \in Seq(Message)
  BY <1>1, SendsTransit, TransitIs DEF IInv, Sending
<1>3. /\ In(transit) = {Head(transit)} \cup In(out)
      /\ \A E : /\ Has(transit, E) <=> Head(transit).event \in E \/ Has(out, E)
                /\ Single(transit, E) => Single(out, E)
      /\ Credited(out)
  BY <1>1, Removed
<1>4. /\ In(transit') = In(out) \cup In(p)
      /\ \A E : /\ Has(transit', E) <=> Has(out, E) \/ Has(p, E)
                /\ Single(p, E) /\ ~Has(out, E) => Single(transit', E)
                /\ Single(out, E) /\ ~Has(p, E) => Single(transit', E)
      /\ Credited(out) /\ Credited(p) => Credited(transit')
      /\ ~Has(out, {"transmit"}) /\ Final(p) => Final(transit')
  BY <1>2, Appended
<1>5. \A m \in In(out) : m.event # "cmd"
  <2>1. out \in Seq(Packet)
    BY DEF IInv, Types, MoreTypeOK
  <2>2. \A m \in In(out) : m \in Packet /\ m \in Message
    BY <2>1 DEF In, Message
  <2> QED BY <2>2, MessageIs
<1> QED BY <1>1, <1>3, <1>4, <1>5

(* Which of the sets of events each event is in. *)
LEMMA EventSets ==
    /\ "cmd" \notin Openers /\ "cmd" \notin Answers /\ "cmd" \notin SessionOp
    /\ "cmd" \notin {"session"} /\ "cmd" \notin {"transmit"} /\ "cmd" \notin {"credit"}
    /\ "transmit" \notin Openers /\ "transmit" \notin Answers /\ "transmit" \notin SessionOp
    /\ "session" \notin Openers /\ "session" \notin Answers /\ "session" \notin SessionOp
    /\ "device" \notin Openers /\ "device" \notin Answers /\ "device" \notin SessionOp
    /\ "credit" \in Openers /\ "credit" \notin Answers /\ "credit" \notin SessionOp
    /\ "timeout" \in Openers /\ "timeout" \in Answers /\ "timeout" \notin SessionOp
    /\ SessionOp \subseteq Answers /\ Answers \subseteq Openers
BY DEF Openers, Answers, SessionOp

(* The packets of a smaller set of events *)
LEMMA HasLess ==
    ASSUME NEW q, NEW E, NEW F, F \subseteq E, ~Has(q, E)
    PROVE  ~Has(q, F)
BY DEF Has

(* Nothing under way. *)
LEMMA NoPacket ==
    /\ In(<< >>) = {} /\ Single(<< >>, Openers) /\ Single(<< >>, {"session"})
    /\ Credited(<< >>) /\ Final(<< >>) /\ \A E : ~Has(<< >>, E)
<1>1. In(<< >>) = {} /\ 1 .. Len(<< >>) = {}
  BY DEF In
<1> QED BY <1>1 DEF Single, Credited, Final, Has

(* A command that is dropped *)
LEMMA DroppedKeeps ==
    ASSUME IInv, TakesCmd, UNCHANGED <<uci_cmd_window, out, spoilt, done, held>>
    PROVE  Inv'
<1>1. /\ Types /\ Inv /\ Sending /\ ~Sending' /\ mbox' = << >>
      /\ pc \in {"rsp", "sent"} /\ done = FALSE /\ awaited = "session"
      /\ pc = "rsp" => call.op \in SessionOp /\ call.op # "data"
      /\ pc = "sent" => call.op = "data" /\ call.op \notin SessionOp
      /\ InOrder => devMgmtSem = 0 /\ result.fresh
      /\ result.fresh => InOrder
      /\ UNCHANGED <<outranks, pc, call, awaited, got, result, currentEventId, receivedEventId,
                     devMgmtSem, wstatus, sessionInfo, dataTransmit, dataCredit>>
  BY CmdTaken
<1>2. PICK p : p = << >>
  OBVIOUS
<1>3. p \in Seq(Packet) /\ out' = out \o p
  BY <1>1, <1>2 DEF Types, MoreTypeOK
<1>4. In(p) = {} /\ Single(p, Openers) /\ Credited(p) /\ Final(p) /\ \A E : ~Has(p, E)
  BY <1>2, NoPacket
<1>5. /\ \A m \in In(transit') : m \in In(transit)
      /\ \A E : "cmd" \notin E =>
           /\ Has(transit', E) <=> Has(transit, E)
           /\ Single(transit, E) => Single(transit', E)
      /\ Credited(transit')
      /\ ~Has(transit, {"transmit"}) => Final(transit')
  BY <1>3, <1>4, CmdSends
<1>6. InOrder' = InOrder
  BY DEF InOrder
<1>7. Window'
  BY <1>1, <1>5, EventSets DEF Inv, Window
<1>8. Places'
  BY <1>1, <1>6 DEF Inv, Places
<1>9. Data'
  BY <1>1, <1>5 DEF Inv, Data, Sent
<1>10. Control'
  BY <1>1, <1>5, <1>6, EventSets DEF Inv, Control
<1>11. Answered'
  BY <1>1, <1>5, <1>6, EventSets DEF Inv, Answered
<1>12. Statuses'
  BY <1>1, <1>5, EventSets DEF Inv, Statuses, Wanted
<1>13. Transfers'
  <2>1. Orderly' = Orderly /\ ~DataCall
    BY <1>1 DEF Orderly, DataCall
  <2>2. ASSUME Orderly PROVE ~Has(transit, {"transmit"}) /\ receivedEventId # "transmit"
    BY <1>1, <2>1, <2>2 DEF Inv, Transfers, NoTransmit
  <2>3. ~Has(transit, {"transmit"}) => \A m \in In(transit') : m.event # "transmit"
    BY <1>5 DEF Has
  <2>4. ASSUME Orderly, DataCall' PROVE Stage'
    <3>1. pc = "sent" /\ ~Holding'
      BY <1>1, <2>4 DEF DataCall, Holding
    <3> QED BY <1>1, <1>5, <2>2, <2>3, <2>4, <3>1 DEF Stage, Mine
  <2> QED BY <1>1, <1>5, <1>6, <2>1, <2>2, <2>4, EventSets DEF Inv, Transfers, NoTransmit
<1> QED BY <1>7, <1>8, <1>9, <1>10, <1>11, <1>12, <1>13 DEF Inv

(* A command the core gives up *)
LEMMA LostKeeps ==
    ASSUME IInv, TakesCmd, uci_cmd_window = 1, uci_cmd_window' = 0, IsLost(call)
    PROVE  Inv'
<1>1. /\ Types /\ Inv /\ Sending /\ ~Sending' /\ mbox' = << >>
      /\ pc \in {"rsp", "sent"} /\ done = FALSE /\ awaited = "session"
      /\ pc = "rsp" => call.op \in SessionOp /\ call.op # "data"
      /\ pc = "sent" => call.op = "data" /\ call.op \notin SessionOp
      /\ InOrder => devMgmtSem = 0 /\ result.fresh
      /\ result.fresh => InOrder
      /\ UNCHANGED <<outranks, pc, call, awaited, got, result, currentEventId, receivedEventId,
                     devMgmtSem, wstatus, sessionInfo, dataTransmit, dataCredit>>
  BY CmdTaken
<1>2. PICK p : p = <<GivenUp>>
  OBVIOUS
<1>3. /\ p \in Seq(Packet) /\ out' = out \o p /\ UNCHANGED <<done, held>>
      /\ spoilt' = IF call.op = "data" THEN spoilt \cup {"given_up"} ELSE spoilt
  BY <1>2, PacketsAre DEF IsLost, Sends
<1>4. In(p) = {GivenUp} /\ GivenUp.event = "timeout" /\ Single(p, Openers) /\ Credited(p)
  BY <1>2, OnePacket DEF GivenUp
<1>5. /\ \A m \in In(transit') : m \in In(transit) \/ m = GivenUp
      /\ GivenUp \in In(transit')
      /\ \A E : "cmd" \notin E =>
           /\ Has(transit', E) <=> Has(transit, E) \/ Has(p, E)
           /\ Single(p, E) /\ ~Has(transit, E) => Single(transit', E)
           /\ Single(transit, E) /\ ~Has(p, E) => Single(transit', E)
      /\ Credited(transit')
  BY <1>3, <1>4, CmdSends
<1>6. Has(p, Openers) /\ Has(p, Answers) /\ ~Has(p, SessionOp) /\ ~Has(p, {"session"})
      /\ ~Has(p, {"transmit"})
  BY <1>4, EventSets DEF Has
<1>7. ~Has(transit, Openers) /\ ~Has(transit, Answers)
  BY <1>1, EventSets, HasLess DEF Inv, Window
<1>8. call.op # "data" => InOrder' = InOrder /\ spoilt' = spoilt
  BY <1>3 DEF InOrder
<1>9. call.op = "data" => ~InOrder' /\ spoilt' # {} /\ ~(spoilt' \subseteq {"expired"})
  BY <1>3 DEF InOrder
<1>10. Window'
  BY <1>4, <1>5, <1>6, <1>7, EventSets DEF Window
<1>11. Places'
  BY <1>1, <1>3, <1>8, <1>9 DEF Inv, Places
<1>12. Data'
  BY <1>1, <1>3, <1>4, <1>5 DEF Inv, Data, Sent
<1>13. Control'
  <2> SUFFICES ASSUME InOrder' PROVE Control'
    BY DEF Control
  <2>1. InOrder /\ pc = "rsp" /\ devMgmtSem = 0
    BY <1>1, <1>8, <1>9
  <2>2. /\ \A m \in In(transit) : m.event \in SessionOp => m.event = call.op
        /\ currentEventId = call.op /\ currentEventId \in SessionOp \cup {"default"}
    BY <1>1, <2>1 DEF Inv, Control
  <2>3. \A m \in In(transit') : m.event \in SessionOp => m.event = call.op
    BY <1>4, <1>5, <2>2, EventSets
  <2> QED BY <1>1, <2>1, <2>2, <2>3 DEF Control
<1>14. Answered'
  <2>1. \A m \in In(transit) : m.event \notin Answers
    BY <1>7, HasNot
  <2>2. \A m \in In(transit') : m.event \notin SessionOp
    BY <1>4, <1>5, <2>1, EventSets
  <2>3. pc = "rsp" => (InOrder' <=> InOrder)
    BY <1>1, <1>8
  <2> QED BY <1>1, <1>3, <2>2, <2>3 DEF Answered, Waits
<1>15. Statuses'
  BY <1>1, <1>3, <1>4, <1>5, <1>6, <1>8, <1>9, EventSets DEF Inv, Statuses, Wanted
<1>16. Transfers'
  <2>1. Orderly' => Orderly /\ call.op # "data"
    BY <1>1, <1>3 DEF Orderly
  <2>2. ~DataCall /\ (DataCall' => call.op = "data")
    BY <1>1 DEF DataCall
  <2> QED BY <1>1, <1>3, <1>5, <1>6, <1>8, <1>9, <2>1, <2>2, EventSets DEF Inv, Transfers, NoTransmit
<1> QED BY <1>10, <1>11, <1>12, <1>13, <1>14, <1>15, <1>16 DEF Inv

(* The answers to a data packet: whether it was sent, and the credit *)
LEMMA DataAnswered ==
    ASSUME IInv, TakesCmd, uci_cmd_window = 1, uci_cmd_window' = 0, call.op = "data",
           NEW p \in Seq(Packet), out' = out \o p, UNCHANGED spoilt, done' => held',
           \A m \in In(p) :
              \/ /\ m.event = "transmit" /\ m.session = call.session /\ m.seq = call.n
                 /\ m.status = "error" => ~done'
                 /\ m.status = "ok" => done'
              \/ m.event = "credit" /\ m.session = call.session,
           Has(p, {"transmit"}), Has(p, {"credit"}),
           Single(p, Openers), Credited(p), Final(p)
    PROVE  Inv'
<1>1. /\ Types /\ Inv /\ Sending /\ ~Sending' /\ mbox' = << >>
      /\ pc = "sent" /\ done = FALSE /\ awaited = "session" /\ call.op \notin SessionOp
      /\ InOrder => devMgmtSem = 0 /\ result.fresh
      /\ result.fresh => InOrder /\ call.n \in Nat
      /\ UNCHANGED <<outranks, pc, call, awaited, got, result, currentEventId, receivedEventId,
                     devMgmtSem, wstatus, sessionInfo, dataTransmit, dataCredit>>
  BY CmdTaken DEF CallType
<1>2. /\ \A m \in In(transit') : (m \in In(transit) /\ m.event # "cmd") \/ m \in In(p)
      /\ \A E : "cmd" \notin E =>
           /\ Has(transit', E) <=> Has(transit, E) \/ Has(p, E)
           /\ Single(p, E) /\ ~Has(transit, E) => Single(transit', E)
           /\ Single(transit, E) /\ ~Has(p, E) => Single(transit', E)
      /\ Credited(transit')
      /\ ~Has(transit, {"transmit"}) => Final(transit')
  BY CmdSends
<1>3. /\ Has(p, Openers) /\ ~Has(p, Answers) /\ ~Has(p, SessionOp) /\ ~Has(p, {"session"})
  BY EventSets DEF Has
<1>4. /\ ~Has(transit, Openers) /\ ~Has(transit, Answers) /\ ~Has(transit, {"credit"})
  <2>1. ~Has(transit, Openers)
    BY <1>1 DEF Inv, Window
  <2>2. {"credit"} \subseteq Openers
    BY EventSets
  <2> QED BY <2>1, <2>2, EventSets, HasLess
<1>5. InOrder' = InOrder
  BY DEF InOrder
<1>6. Window'
  BY <1>2, <1>3, <1>4, EventSets DEF Window
<1>7. Places'
  BY <1>1, <1>5 DEF Inv, Places
<1>8. Data'
  <2>1. ASSUME NEW m \in In(transit'), m.event = "transmit" PROVE Sent(m)'
    <3>1. CASE m \in In(transit)
      <4>1. Sent(m)
        BY <1>1, <2>1, <3>1 DEF Inv, Data
      <4> QED BY <1>1, <4>1 DEF Sent
    <3>2. CASE m \in In(p)
      <4>1. m.seq = call.n /\ (m.status = "ok" => done') /\ call.n \in Nat
        BY <1>1, <2>1, <3>2 DEF Types, MoreTypeOK, CallType
      <4> QED BY <1>1, <4>1 DEF Sent
    <3> QED BY <1>2, <3>1, <3>2
  <2>2. Sent(dataTransmit)'
    BY <1>1 DEF Inv, Data, Sent
  <2>3. awaited' # "credit"
    BY <1>1
  <2> QED BY <2>1, <2>2, <2>3 DEF Data
<1>9. Control'
  <2>1. \A m \in In(transit) : m.event \notin Answers
    BY <1>4, HasNot
  <2>2. \A m \in In(p) : m.event \notin Answers
    BY <1>3, HasNot
  <2> QED BY <1>1, <1>2, <1>3, <1>4, <1>5, <2>1, <2>2, EventSets DEF Inv, Control
<1>10. Answered'
  BY <1>1, <1>5 DEF Answered, Waits
<1>11. Statuses'
  <2>1. result.fresh /\ spoilt \subseteq {"expired"} => ~Has(transit, {"session"})
    BY <1>1 DEF Inv, Statuses
  <2>2. result.fresh /\ spoilt \subseteq {"expired"} => ~Has(transit', {"session"})
    BY <1>2, <1>3, <2>1, EventSets
  <2>3. result.fresh /\ spoilt \subseteq {"expired"} =>
          Single(transit', {"session"}) /\ \A m \in In(transit') : m.event # "session"
    BY <2>2 DEF Has, Single, In
  <2> QED BY <1>1, <2>2, <2>3 DEF Statuses
<1>12. Transfers'
  <2>1. Orderly' = Orderly /\ ~DataCall /\ DataCall'
    BY <1>1 DEF Orderly, DataCall
  <2>2. ASSUME Orderly PROVE Stage'
    <3>1. ~Has(transit, {"transmit"}) /\ receivedEventId # "transmit"
      BY <1>1, <2>1, <2>2 DEF Inv, Transfers, NoTransmit
    <3>2. Has(transit', {"transmit"}) /\ Has(transit', {"credit"})
      BY <1>2, EventSets
    <3>3. Final(transit') /\ ~Holding'
      BY <1>1, <1>2, <3>1 DEF Holding
    <3>4. \A m \in In(transit') : m.event \in {"transmit", "credit"} => m \in In(p)
      BY <1>2, <1>4, <3>1 DEF Has
    <3>5. \A m \in In(transit') : m.event = "transmit" => Mine(m)'
      BY <1>1, <3>4 DEF Mine
    <3>6. \A m \in In(transit') : m.event = "credit" => m.session = call.session
      BY <3>4
    <3> QED BY <1>1, <3>1, <3>2, <3>3, <3>5, <3>6 DEF Stage, NoTransmit, NoCredit
  <2>3. result.fresh /\ spoilt \subseteq {"expired"} => spoilt = {}
    BY <1>1 DEF InOrder
  <2> QED BY <1>1, <1>5, <2>1, <2>2, <2>3 DEF Inv, Transfers
<1> QED BY <1>6, <1>7, <1>8, <1>9, <1>10, <1>11, <1>12 DEF Inv

(* The answers to a session command: its response, and the session's       *)
(* status if it was carried out                                            *)
LEMMA SessionAnswered ==
    ASSUME IInv, TakesCmd, uci_cmd_window = 1, uci_cmd_window' = 0, call.op # "data",
           NEW p \in Seq(Packet), out' = out \o p, UNCHANGED spoilt, done' => held', done' \in BOOLEAN,
           \A m \in In(p) :
              \/ m.event = call.op /\ (m.status = "ok" <=> done')
              \/ m = Status(call.session, Target[call.op], "command") /\ done'
              \/ m.event = "device",
           Has(p, SessionOp), done' => Has(p, {"session"}),
           Single(p, Openers), Single(p, {"session"}), Credited(p)
    PROVE  Inv'
<1>1. /\ Types /\ Inv /\ Sending /\ ~Sending' /\ mbox' = << >>
      /\ pc = "rsp" /\ done = FALSE /\ awaited = "session" /\ call.op \in SessionOp
      /\ InOrder => devMgmtSem = 0 /\ result.fresh
      /\ result.fresh => InOrder
      /\ UNCHANGED <<outranks, pc, call, awaited, got, result, currentEventId, receivedEventId,
                     devMgmtSem, wstatus, sessionInfo, dataTransmit, dataCredit>>
  BY CmdTaken
<1>2. /\ \A m \in In(transit') : (m \in In(transit) /\ m.event # "cmd") \/ m \in In(p)
      /\ \A E : "cmd" \notin E =>
           /\ Has(transit', E) <=> Has(transit, E) \/ Has(p, E)
           /\ Single(p, E) /\ ~Has(transit, E) => Single(transit', E)
           /\ Single(transit, E) /\ ~Has(p, E) => Single(transit', E)
      /\ Credited(transit')
  BY CmdSends
<1>3. \A m \in In(p) : m.event = call.op \/ m.event = "session" \/ m.event = "device"
  BY DEF Status
<1>4. Has(p, Openers) /\ ~Has(p, {"transmit"}) /\ \A m \in In(p) : m.event # "timeout"
  BY <1>1, <1>3, EventSets DEF Has
<1>5. ~Has(transit, Openers) /\ \A m \in In(transit) : m.event \notin Answers
  <2>1. ~Has(transit, Openers)
    BY <1>1 DEF Inv, Window
  <2> QED BY <2>1, EventSets, HasNot
<1>6. InOrder' = InOrder
  BY DEF InOrder
<1>7. \A m \in In(transit') :
        /\ m.event \in SessionOp => m.event = call.op /\ (m.status = "ok" <=> done')
        /\ m.event # "timeout"
  <2>1. ASSUME NEW m \in In(transit'), m.event \in Answers PROVE m \in In(p)
    BY <1>2, <1>5, <2>1
  <2>2. ASSUME NEW m \in In(p), m.event \in SessionOp
        PROVE  m.event = call.op /\ (m.status = "ok" <=> done')
    <3>1. m.event # "session" /\ m.event # "device"
      BY <2>2, EventSets
    <3> QED BY <3>1 DEF Status
  <2> QED BY <1>4, <2>1, <2>2, EventSets
<1>8. Window'
  BY <1>2, <1>4, <1>5, EventSets DEF Window
<1>9. Places'
  BY <1>1, <1>6 DEF Inv, Places
<1>10. Data'
  <2>1. \A m \in In(transit') : m.event = "transmit" => m \in In(transit)
    BY <1>2, <1>4 DEF Has
  <2>2. ASSUME NEW t, Sent(t), ~(t.seq = call.n /\ t.status = "ok") PROVE Sent(t)'
    BY <1>1, <2>2 DEF Sent
  <2>3. ASSUME NEW t, Sent(t) PROVE ~(t.seq = call.n /\ t.status = "ok")
    BY <1>1, <2>3 DEF Sent
  <2> QED BY <1>1, <2>1, <2>2, <2>3 DEF Inv, Data, Sent
<1>11. Control'
  BY <1>1, <1>6, <1>7 DEF Inv, Control
<1>12. Answered'
  BY <1>1, <1>2, <1>6, <1>7, EventSets DEF Answered, Waits
<1>13. Statuses'
  <2> SUFFICES ASSUME result.fresh, spoilt \subseteq {"expired"} PROVE Statuses'
    BY <1>1 DEF Statuses
  <2>1. ~Has(transit, {"session"})
    BY <1>1 DEF Inv, Statuses
  <2>2. Single(transit', {"session"}) /\ (Has(transit', {"session"}) => Has(p, {"session"}))
    BY <1>2, <2>1, EventSets
  <2>3. \A m \in In(p) : m.event = "session" =>
           m = Status(call.session, Target[call.op], "command") /\ done'
    BY <1>1, EventSets
  <2>4. \A m \in In(transit') : m.event = "session" => m \in In(p)
    BY <1>2, <2>1 DEF Has
  <2>5. Has(p, {"session"}) => done'
    BY <2>3 DEF Has
  <2>6. Has(transit', SessionOp) /\ (done' => Has(transit', {"session"}))
    BY <1>2, EventSets
  <2> QED BY <1>1, <2>2, <2>3, <2>4, <2>5, <2>6 DEF Statuses
<1>14. Transfers'
  <2>1. Orderly' = Orderly /\ ~DataCall /\ ~DataCall'
    BY <1>1 DEF Orderly, DataCall
  <2> QED BY <1>1, <1>2, <1>4, <1>6, <2>1, EventSets DEF Inv, Transfers, NoTransmit
<1> QED BY <1>8, <1>9, <1>10, <1>11, <1>12, <1>13, <1>14 DEF Inv

(* Sequences of two and three packets, joined. *)
LEMMA ShortJoins ==
    ASSUME NEW S, NEW a \in S, NEW b \in S, NEW c \in S
    PROVE  /\ << >> \o <<a, b>> = <<a, b>> /\ <<c>> \o <<a, b>> = <<c, a, b>>
           /\ <<a, b>> \o << >> = <<a, b>> /\ <<a, b>> \o <<c>> = <<a, b, c>>
           /\ <<a, b>> \in Seq(S) /\ <<a, b, c>> \in Seq(S) /\ <<c, a, b>> \in Seq(S)
<1>1. << >> \o <<a, b>> = <<a, b>> /\ <<a, b>> \o << >> = <<a, b>>
  OBVIOUS
<1>2. <<a, b>> \in Seq(S) /\ <<a, b, c>> \in Seq(S) /\ <<c, a, b>> \in Seq(S)
  OBVIOUS
<1>3. \A i \in 1 .. 3 : i = 1 \/ i = 2 \/ i = 3
  OBVIOUS
<1>4. <<c>> \o <<a, b>> = <<c, a, b>>
  <2>1. PICK q : q = <<c>> \o <<a, b>>
    OBVIOUS
  <2>2. q \in Seq(S) /\ Len(q) = 3 /\ q[1] = c /\ q[2] = a /\ q[3] = b
    BY <2>1
  <2>3. PICK p : p = <<c, a, b>>
    OBVIOUS
  <2>4. p \in Seq(S) /\ Len(p) = 3 /\ p[1] = c /\ p[2] = a /\ p[3] = b
    BY <2>3
  <2>5. \A i \in 1 .. Len(q) : q[i] = p[i]
    BY <1>3, <2>2, <2>4
  <2>6. q = p
    BY <2>2, <2>4, <2>5, SeqEqual
  <2> QED BY <2>1, <2>3, <2>6
<1>5. <<a, b>> \o <<c>> = <<a, b, c>>
  <2>1. PICK q : q = <<a, b>> \o <<c>>
    OBVIOUS
  <2>2. q \in Seq(S) /\ Len(q) = 3 /\ q[1] = a /\ q[2] = b /\ q[3] = c
    BY <2>1
  <2>3. PICK p : p = <<a, b, c>>
    OBVIOUS
  <2>4. p \in Seq(S) /\ Len(p) = 3 /\ p[1] = a /\ p[2] = b /\ p[3] = c
    BY <2>3
  <2>5. \A i \in 1 .. Len(q) : q[i] = p[i]
    BY <1>3, <2>2, <2>4
  <2>6. q = p
    BY <2>2, <2>4, <2>5, SeqEqual
  <2> QED BY <2>1, <2>3, <2>6
<1> QED BY <1>1, <1>2, <1>4, <1>5

(* The controller carries out a command that finds the window open. *)
LEMMA ObeysKeeps ==
    ASSUME IInv, TakesCmd, uci_cmd_window = 1, uci_cmd_window' = 0, Obeys(call)
    PROVE  Inv'
<1>1. /\ call \in CallType /\ call.session \in Session /\ call.n \in Nat
      /\ call.op # "data" => call.op \in SessionOp
      /\ done' = TRUE /\ held' = TRUE /\ spoilt' = spoilt
  BY CmdTaken DEF CallType, Obeys
<1>2. CASE call.op = "data"
  <2>1. PICK more \in {<< >>, <<Transmit(call.session, call.n, "repetition")>>} :
           out' = out \o (more \o <<Transmit(call.session, call.n, "ok"), Credit(call.session)>>)
    BY <1>2 DEF Obeys, Sends
  <2>2. PICK r, t, c : /\ r = Transmit(call.session, call.n, "repetition")
                       /\ t = Transmit(call.session, call.n, "ok") /\ c = Credit(call.session)
    OBVIOUS
  <2>3. PICK p : p = more \o <<t, c>>
    OBVIOUS
  <2>4. /\ r \in Packet /\ t \in Packet /\ c \in Packet
    BY <1>1, <2>2, PacketsAre DEF Transfer
  <2>5. /\ r.event = "transmit" /\ r.session = call.session /\ r.seq = call.n /\ r.status = "repetition"
        /\ t.event = "transmit" /\ t.session = call.session /\ t.seq = call.n /\ t.status = "ok"
        /\ c.event = "credit" /\ c.session = call.session
    BY <2>2 DEF Transmit, Credit
  <2>6. (p = <<t, c>> \/ p = <<r, t, c>>) /\ p \in Seq(Packet)
    <3>1. more = << >> \/ more = <<r>>
      BY <2>1, <2>2
    <3>2. << >> \o <<t, c>> = <<t, c>> /\ <<r>> \o <<t, c>> = <<r, t, c>>
          /\ <<t, c>> \in Seq(Packet) /\ <<r, t, c>> \in Seq(Packet)
      BY <2>4, ShortJoins
    <3> QED BY <2>3, <3>1, <3>2
  <2>7. out' = out \o p
    BY <2>1, <2>2, <2>3
  <2>8. /\ t \in In(p) /\ c \in In(p) /\ In(p) \subseteq {r, t, c}
        /\ Single(p, Openers) /\ Credited(p) /\ Final(p)
    <3>1. CASE p = <<t, c>>
      <4>1. In(p) = {t, c} /\ Single(p, Openers) /\ Credited(p) /\ Final(p)
        BY <2>5, <3>1, TwoPackets
      <4> QED BY <4>1
    <3>2. CASE p = <<r, t, c>>
      <4>1. In(p) = {r, t, c} /\ Single(p, Openers) /\ Credited(p) /\ Final(p)
        BY <2>5, <3>2, ThreePackets
      <4> QED BY <4>1
    <3> QED BY <2>6, <3>1, <3>2
  <2>9. Has(p, {"transmit"}) /\ Has(p, {"credit"})
    BY <2>5, <2>8 DEF Has
  <2>10. \A m \in In(p) :
           \/ /\ m.event = "transmit" /\ m.session = call.session /\ m.seq = call.n
              /\ m.status = "error" => ~done'
              /\ m.status = "ok" => done'
           \/ m.event = "credit" /\ m.session = call.session
    BY <1>1, <2>5, <2>8
  <2> QED BY <1>1, <1>2, <2>6, <2>7, <2>8, <2>9, <2>10, DataAnswered
<1>3. CASE call.op # "data"
  <2>1. PICK more \in {<< >>, <<DeviceStatus>>} :
           out' = out \o (<<Rsp(call.op, "ok"), Status(call.session, Target[call.op], "command")>> \o more)
    BY <1>3 DEF Obeys, Sends
  <2>2. PICK r, s, d : /\ r = Rsp(call.op, "ok") /\ d = DeviceStatus
                       /\ s = Status(call.session, Target[call.op], "command")
    OBVIOUS
  <2>3. PICK p : p = <<r, s>> \o more
    OBVIOUS
  <2>4. r \in Packet /\ s \in Packet /\ d \in Packet
    BY <1>1, <1>3, <2>2, PacketsAre, TargetIs
  <2>5. /\ r.event = call.op /\ r.status = "ok" /\ s.event = "session" /\ d.event = "device"
    BY <2>2 DEF Rsp, Status, DeviceStatus
  <2>6. (p = <<r, s>> \/ p = <<r, s, d>>) /\ p \in Seq(Packet)
    <3>1. more = << >> \/ more = <<d>>
      BY <2>1, <2>2
    <3>2. <<r, s>> \o << >> = <<r, s>> /\ <<r, s>> \o <<d>> = <<r, s, d>>
          /\ <<r, s>> \in Seq(Packet) /\ <<r, s, d>> \in Seq(Packet)
      BY <2>4, ShortJoins
    <3> QED BY <2>3, <3>1, <3>2
  <2>7. out' = out \o p
    BY <2>1, <2>2, <2>3
  <2>8. /\ r \in In(p) /\ s \in In(p) /\ In(p) \subseteq {r, s, d}
        /\ Single(p, Openers) /\ Single(p, {"session"}) /\ Credited(p)
    BY <1>1, <1>3, <2>5, <2>6, AnswerPackets
  <2>9. Has(p, SessionOp) /\ Has(p, {"session"})
    BY <1>1, <1>3, <2>5, <2>8 DEF Has
  <2>10. \A m \in In(p) :
           \/ m.event = call.op /\ (m.status = "ok" <=> done')
           \/ m = Status(call.session, Target[call.op], "command") /\ done'
           \/ m.event = "device"
    BY <1>1, <2>2, <2>5, <2>8
  <2> QED BY <1>1, <1>3, <2>6, <2>7, <2>8, <2>9, <2>10, SessionAnswered
<1> QED BY <1>2, <1>3

(* The controller refuses it. *)
LEMMA RefusesKeeps ==
    ASSUME IInv, TakesCmd, uci_cmd_window = 1, uci_cmd_window' = 0, Refuses(call)
    PROVE  Inv'
<1>1. /\ call \in CallType /\ call.session \in Session /\ call.n \in Nat
      /\ call.op # "data" => call.op \in SessionOp
      /\ done = FALSE /\ done' = FALSE /\ spoilt' = spoilt
  BY CmdTaken DEF CallType, Refuses
<1>2. CASE call.op = "data"
  <2>1. PICK t, c : t = Transmit(call.session, call.n, "error") /\ c = Credit(call.session)
    OBVIOUS
  <2>2. PICK p : p = <<t, c>>
    OBVIOUS
  <2>3. t \in Packet /\ c \in Packet
    BY <1>1, <2>1, PacketsAre DEF Transfer
  <2>4. /\ t.event = "transmit" /\ t.session = call.session /\ t.seq = call.n /\ t.status = "error"
        /\ c.event = "credit" /\ c.session = call.session
    BY <2>1 DEF Transmit, Credit
  <2>5. p \in Seq(Packet) /\ out' = out \o p
    BY <1>2, <2>1, <2>2, <2>3 DEF Refuses, Sends
  <2>6. In(p) = {t, c} /\ Single(p, Openers) /\ Credited(p) /\ Final(p)
    BY <2>2, <2>4, TwoPackets
  <2>7. Has(p, {"transmit"}) /\ Has(p, {"credit"})
    BY <2>4, <2>6 DEF Has
  <2> QED BY <1>1, <1>2, <2>4, <2>5, <2>6, <2>7, DataAnswered
<1>3. CASE call.op # "data"
  <2>1. PICK r : r = Rsp(call.op, "error")
    OBVIOUS
  <2>2. PICK p : p = <<r>>
    OBVIOUS
  <2>3. r \in Packet /\ r.event = call.op /\ r.status = "error"
    <3>1. r \in Packet
      BY <1>1, <1>3, <2>1, PacketsAre
    <3> QED BY <2>1, <3>1 DEF Rsp
  <2>4. p \in Seq(Packet) /\ out' = out \o p
    BY <1>3, <2>1, <2>2, <2>3 DEF Refuses, Sends
  <2>5. r.event # "transmit"
    BY <1>1, <1>3, <2>3, EventSets
  <2>6. In(p) = {r} /\ Single(p, Openers) /\ Single(p, {"session"}) /\ Credited(p)
    BY <2>2, <2>5, OnePacket
  <2>7. Has(p, SessionOp)
    BY <1>1, <1>3, <2>3, <2>6 DEF Has
  <2> QED BY <1>1, <1>3, <2>3, <2>4, <2>6, <2>7, SessionAnswered
<1> QED BY <1>2, <1>3

(* The UWB task sends a command, or drops it. *)
LEMMA TakesCmdKeeps == ASSUME IInv, TakesCmd PROVE IInv'
<1>1. Head(mbox).cmd = call /\ OkIsTrue' /\ DoneIsOk' /\ Types
  BY CmdTaken
<1>2. uci_cmd_window \in {0, 1}
  BY <1>1 DEF Types, TypeOK
<1>3. \/ UNCHANGED <<uci_cmd_window, out, spoilt, done, held>>
      \/ /\ uci_cmd_window = 1 /\ uci_cmd_window' = 0
         /\ Obeys(call) \/ Refuses(call) \/ IsLost(call)
  BY <1>1, <1>2 DEF TakesCmd
<1>4. Inv'
  BY <1>3, DroppedKeeps, ObeysKeeps, RefusesKeeps, LostKeeps
<1> QED BY <1>1, <1>4, CmdTypes DEF IInv
-----------------------------------------------------------------------------
(* Lemmas: the UWB task takes what the controller sent *)

(* What the UWB task takes is the first of what is under way. *)
LEMMA Taken ==
    ASSUME IInv, NEW e, Takes(e), e # "cmd", UNCHANGED <<out, spoilt, done, held>>
    PROVE  /\ Types /\ Inv /\ ~Sending /\ ~Sending' /\ mbox # << >> /\ mbox' = << >>
           /\ Head(mbox) \in Message /\ Head(mbox).event = e /\ Head(mbox) \in In(transit)
           /\ \A m \in In(transit') : m \in In(transit)
           /\ \A E : /\ Has(transit, E) <=> e \in E \/ Has(transit', E)
                     /\ Single(transit, E) => Single(transit', E)
                     /\ Single(transit, E) /\ e \in E => ~Has(transit', E)
           /\ Credited(transit')
           /\ Final(transit) => Final(transit')
           /\ UNCHANGED <<outranks, pc, call, awaited, got, result>>
           /\ InOrder' = InOrder /\ DataCall' = DataCall
           /\ Places' /\ OkIsTrue' /\ DoneIsOk'
<1>1. Types /\ Inv /\ mbox # << >> /\ mbox' = << >> /\ Head(mbox).event = e
  BY DEF IInv, Takes
<1>2. ~Sending /\ ~Sending'
  BY <1>1 DEF Sending
<1>3. /\ transit # << >> /\ transit' = Tail(transit) /\ transit \in Seq(Message)
      /\ Head(transit) = Head(mbox) /\ Head(mbox) \in Message
  BY <1>1, TakesTransit, TransitIs
<1>4. /\ In(transit) = {Head(transit)} \cup In(transit')
      /\ \A E : /\ Has(transit, E) <=> e \in E \/ Has(transit', E)
                /\ Single(transit, E) => Single(transit', E)
                /\ Single(transit, E) /\ e \in E => ~Has(transit', E)
      /\ Credited(transit) => Credited(transit')
      /\ Final(transit) => Final(transit')
  BY <1>1, <1>3, Removed
<1>5. UNCHANGED <<outranks, pc, call, awaited, got, result>>
  BY DEF Takes, caller
<1>6. InOrder' = InOrder
  BY DEF InOrder
<1>7. DataCall' = DataCall
  BY <1>2, <1>5 DEF DataCall
<1>8. Places'
  BY <1>1, <1>2, <1>5, <1>6 DEF Inv, Places
<1>9. OkIsTrue' /\ DoneIsOk'
  BY <1>5 DEF IInv, OkIsTrue, DoneIsOk
<1> QED BY <1>1, <1>2, <1>3, <1>4, <1>5, <1>6, <1>7, <1>8, <1>9 DEF Inv, Window

(* A data call to which something is posted waits for it. *)
LEMMA DataWaits ==
    ASSUME IInv, mbox # << >>, Orderly, DataCall
    PROVE  /\ Stage /\ pc = "ntf" /\ devMgmtSem = 0 /\ call.op = "data" /\ call.op \notin SessionOp
           /\ awaited \in {"transmit", "credit"} /\ currentEventId = awaited
           /\ ~Has(transit, {"session"})
<1>1. Types /\ Inv
  BY DEF IInv
<1>2. call.op = "data" /\ pc # "idle" /\ call.op \notin SessionOp
  BY DEF DataCall, SessionOp
<1>3. Stage
  BY <1>1 DEF Inv, Transfers
<1>4. pc = "ntf" /\ devMgmtSem # 1
  <2>1. pc \notin {"sent", "check", "set", "reset", "judge"} /\ ~(pc = "ntf" /\ devMgmtSem = 1)
    BY <1>3 DEF Stage, Holding
  <2>2. pc # "rsp"
    BY <1>1, <1>2 DEF Inv, Places
  <2> QED BY <1>1, <1>2, <2>1, <2>2 DEF Types, TypeOK
<1>5. devMgmtSem = 0
  BY <1>1, <1>4 DEF Types, TypeOK
<1>6. awaited \in {"transmit", "credit"}
  BY <1>1, <1>3, <1>4 DEF Stage, Types, TypeOK
<1>7. InOrder
  BY DEF Orderly, InOrder
<1>8. currentEventId = awaited
  BY <1>1, <1>4, <1>5, <1>7 DEF Inv, Control
<1>9. ~Has(transit, {"session"})
  <2>1. result.fresh
    BY <1>1, <1>2, <1>7 DEF Inv, Places
  <2> QED BY <1>1, <1>2, <2>1 DEF Inv, Statuses, Orderly
<1> QED BY <1>2, <1>3, <1>4, <1>5, <1>6, <1>8, <1>9

(* A session's status that is under way is waited for. *)
LEMMA StatusWaited ==
    ASSUME IInv, result.fresh, pc = "ntf", spoilt \subseteq {"expired"}, Has(transit, {"session"})
    PROVE  /\ InOrder /\ devMgmtSem = 0 /\ currentEventId = "session" /\ awaited = "session"
           /\ call.op \in SessionOp /\ ~Has(transit, Answers)
<1>1. Types /\ Inv
  BY DEF IInv
<1>2. call.op \in SessionOp /\ devMgmtSem = 0
  BY <1>1 DEF Inv, Statuses
<1>3. awaited = "session"
  BY <1>1, <1>2 DEF Inv, Places, Waits
<1>4. InOrder
  BY <1>1, <1>2 DEF Inv, Answered
<1> QED BY <1>1, <1>2, <1>3, <1>4 DEF Inv, Control

(* Nothing of a data call is under way with a response. *)
LEMMA AnswerAlone ==
    ASSUME IInv, NEW m \in In(transit), m.event \in Answers
    PROVE  NoTransmit /\ NoCredit
<1>1. Single(transit, Openers) /\ Credited(transit) /\ transit \in Seq(Message)
  BY TransitIs DEF IInv, Inv, Window
<1>2. PICK i \in 1 .. Len(transit) : m = transit[i]
  BY DEF In
<1>3. ASSUME NEW j \in 1 .. Len(transit), transit[j].event = "credit" PROVE FALSE
  <2>1. i = j
    BY <1>1, <1>2, <1>3, EventSets DEF Single
  <2> QED BY <1>2, <1>3, <2>1, EventSets
<1>4. NoCredit
  BY <1>3 DEF NoCredit, Has, In
<1>5. NoTransmit
  BY <1>1, <1>4, CreditFollows DEF NoTransmit, NoCredit
<1> QED BY <1>4, <1>5

(* The response of a session command, or the timeout of any *)
LEMMA AnswerKeeps ==
    ASSUME IInv, NEW e \in Answers, Takes(e), UNCHANGED <<out, spoilt, done, held>>,
           NEW wakes \in BOOLEAN, Wake(e, wakes), currentEventId = e => wakes, e = "timeout" => wakes,
           wstatus' = IF e = "timeout" THEN "timeout" ELSE Head(mbox).status,
           uci_cmd_window' = 1, UNCHANGED <<sessionInfo, dataTransmit, dataCredit>>
    PROVE  Inv' /\ OkIsTrue' /\ DoneIsOk'
<1>0. e # "cmd" /\ e \in Openers /\ e \notin {"session"} /\ e \notin {"transmit"} /\ e \notin {"credit"}
      /\ (e \in SessionOp \/ e = "timeout")
  BY EventSets DEF Answers
<1>1. /\ Types /\ Inv /\ ~Sending /\ ~Sending' /\ mbox # << >> /\ mbox' = << >>
      /\ Head(mbox) \in Message /\ Head(mbox).event = e /\ Head(mbox) \in In(transit)
      /\ \A m \in In(transit') : m \in In(transit)
      /\ \A E : /\ Has(transit, E) <=> e \in E \/ Has(transit', E)
                /\ Single(transit, E) => Single(transit', E)
                /\ Single(transit, E) /\ e \in E => ~Has(transit', E)
      /\ Credited(transit')
      /\ UNCHANGED <<outranks, pc, call, awaited, got, result>>
      /\ InOrder' = InOrder /\ DataCall' = DataCall
      /\ Places' /\ OkIsTrue' /\ DoneIsOk'
  BY <1>0, Taken
<1>2. /\ receivedEventId' = e
      /\ devMgmtSem' = IF wakes THEN 1 ELSE devMgmtSem
      /\ currentEventId' = IF wakes THEN "default" ELSE currentEventId
  BY DEF Wake
<1>3. InOrder => pc = "rsp" /\ devMgmtSem = 0 /\ currentEventId = call.op /\ (e \in SessionOp => e = call.op)
                 /\ wakes
  <2>1. Has(transit, Answers)
    BY <1>1
  <2> QED BY <1>0, <1>1, <2>1 DEF Inv, Control
<1>4. ~Has(transit', Openers) /\ \A m \in In(transit') : m.event \notin Answers
  <2>1. ~Has(transit', Openers)
    BY <1>0, <1>1 DEF Inv, Window
  <2> QED BY <2>1, EventSets, HasNot
<1>5. pc = "rsp" => call.op \in SessionOp /\ call.op # "data"
  BY <1>1 DEF Inv, Places, SessionOp
<1>6. NoTransmit /\ NoTransmit'
  <2>1. NoTransmit
    BY <1>1, AnswerAlone
  <2> QED BY <1>0, <1>1, <2>1 DEF NoTransmit
<1>7. Window'
  BY <1>0, <1>1, <1>4 DEF Inv, Window
<1>8. Data'
  BY <1>1 DEF Inv, Data, Sent
<1>9. Control'
  <2>1. ~Has(transit', Answers)
    BY <1>4 DEF Has
  <2> QED BY <1>1, <1>2, <1>3, <1>4, <2>1, EventSets DEF Control
<1>10. Answered'
  <2>1. ASSUME result.fresh, pc = "rsp" PROVE wstatus' = "ok" <=> done
    <3>1. /\ Head(mbox).event \in SessionOp => (Head(mbox).status = "ok" <=> done)
          /\ Head(mbox).event = "timeout" => ~done
      BY <1>1, <2>1 DEF Inv, Answered
    <3> QED BY <1>0, <1>1, <3>1, EventSets
  <2>2. ASSUME result.fresh, pc = "rsp" PROVE devMgmtSem' = 1
    <3>1. InOrder
      BY <1>1, <1>5, <2>2 DEF Inv, Answered
    <3> QED BY <1>2, <1>3, <3>1
  <2> QED BY <1>1, <1>4, <2>1, <2>2, EventSets DEF Inv, Answered
<1>11. Statuses'
  <2>1. ASSUME result.fresh, spoilt \subseteq {"expired"}, Has(transit, {"session"}) PROVE pc # "ntf"
    <3>1. Has(transit, Answers)
      BY <1>1
    <3> QED BY <2>1, <3>1, StatusWaited
  <2> QED BY <1>0, <1>1, <1>2, <2>1 DEF Inv, Statuses, Wanted
<1>12. Transfers'
  <2>1. Orderly' => ~DataCall
    BY <1>1, <1>3, <1>5 DEF Orderly, InOrder, DataCall
  <2>2. InOrder => call.op # "data"
    BY <1>3, <1>5
  <2> QED BY <1>0, <1>1, <1>2, <1>6, <2>1, <2>2 DEF Inv, Transfers
<1> QED BY <1>1, <1>7, <1>8, <1>9, <1>10, <1>11, <1>12 DEF Inv

(* A notification, whatever it is of: the token is for the caller that     *)
(* waits for it.                                                           *)
LEMMA NotifyKeeps ==
    ASSUME IInv, NEW e \in {"session", "transmit", "credit", "device"}, Takes(e),
           UNCHANGED <<out, spoilt, done, held>>,
           NEW wakes \in BOOLEAN, Wake(e, wakes), wakes => currentEventId = e,
           UNCHANGED wstatus, uci_cmd_window' = IF e = "credit" THEN 1 ELSE uci_cmd_window
    PROVE  /\ Window' /\ Control' /\ Answered'
           /\ wakes /\ InOrder => pc = "ntf" /\ devMgmtSem = 0
           /\ Orderly' = Orderly
<1>0. e # "cmd" /\ e \notin SessionOp /\ e \notin Answers /\ (e \in Openers <=> e = "credit")
      /\ e # "timeout"
  BY EventSets
<1>1. /\ Types /\ Inv /\ ~Sending /\ ~Sending' /\ mbox # << >> /\ mbox' = << >>
      /\ \A m \in In(transit') : m \in In(transit)
      /\ \A E : /\ Has(transit, E) <=> e \in E \/ Has(transit', E)
                /\ Single(transit, E) => Single(transit', E)
                /\ Single(transit, E) /\ e \in E => ~Has(transit', E)
      /\ Credited(transit')
      /\ UNCHANGED <<outranks, pc, call, awaited, got, result>>
      /\ InOrder' = InOrder
  BY <1>0, Taken
<1>2. /\ devMgmtSem' = IF wakes THEN 1 ELSE devMgmtSem
      /\ currentEventId' = IF wakes THEN "default" ELSE currentEventId
  BY DEF Wake
<1>3. wakes /\ InOrder => pc = "ntf" /\ devMgmtSem = 0
  <2>1. e # "default"
    OBVIOUS
  <2>2. wakes /\ InOrder => pc = "ntf" /\ devMgmtSem # 1
    BY <1>0, <1>1, <2>1 DEF Inv, Control
  <2> QED BY <1>1, <2>2 DEF Types, TypeOK
<1>4. Window'
  <2>1. uci_cmd_window \in {0, 1}
    BY <1>1 DEF Types, TypeOK
  <2>2. Has(transit, Openers) <=> e = "credit" \/ Has(transit', Openers)
    BY <1>0, <1>1
  <2>3. e = "credit" => ~Has(transit', Openers)
    BY <1>0, <1>1 DEF Inv, Window
  <2>4. uci_cmd_window' = 0 <=> Has(transit', Openers)
    BY <1>1, <2>1, <2>2, <2>3 DEF Inv, Window
  <2> QED BY <1>1, <2>4 DEF Inv, Window
<1>5. Control'
  <2>1. Has(transit', Answers) <=> Has(transit, Answers)
    BY <1>0, <1>1
  <2> QED BY <1>1, <1>2, <1>3, <2>1 DEF Inv, Control
<1>6. Answered'
  <2>1. Has(transit', SessionOp) <=> Has(transit, SessionOp)
    BY <1>0, <1>1
  <2>2. ASSUME result.fresh, pc = "rsp" PROVE ~wakes
    <3>1. InOrder
      BY <1>1, <2>2 DEF Inv, Answered, Places
    <3> QED BY <1>3, <2>2, <3>1
  <2> QED BY <1>1, <1>2, <2>1, <2>2 DEF Inv, Answered
<1>7. Orderly' = Orderly
  BY <1>1 DEF Orderly
<1> QED BY <1>3, <1>4, <1>5, <1>6, <1>7

(* The callback of a session status. *)
LEMMA TakesSessionKeeps == ASSUME IInv, TakesSession PROVE Inv' /\ OkIsTrue' /\ DoneIsOk'
<1>0. PICK wakes \in BOOLEAN : wakes = (currentEventId = "session" /\ Head(mbox).reason # "inband")
  OBVIOUS
<1>1. /\ Takes("session") /\ UNCHANGED <<out, spoilt, done, held>> /\ Wake("session", wakes)
      /\ sessionInfo' = [session |-> Head(mbox).session, state |-> Head(mbox).state]
      /\ UNCHANGED <<wstatus, dataTransmit, dataCredit, uci_cmd_window>>
  BY <1>0 DEF TakesSession, TaskRest
<1>2. /\ Types /\ Inv /\ ~Sending /\ ~Sending' /\ mbox # << >> /\ mbox' = << >>
      /\ Head(mbox).event = "session" /\ Head(mbox) \in In(transit)
      /\ \A m \in In(transit') : m \in In(transit)
      /\ \A E : /\ Has(transit, E) <=> "session" \in E \/ Has(transit', E)
                /\ Single(transit, E) => Single(transit', E)
                /\ Single(transit, E) /\ "session" \in E => ~Has(transit', E)
      /\ UNCHANGED <<outranks, pc, call, awaited, got, result>>
      /\ InOrder' = InOrder /\ DataCall' = DataCall
      /\ Places' /\ OkIsTrue' /\ DoneIsOk'
  BY <1>1, Taken
<1>3. Window' /\ Control' /\ Answered' /\ Orderly' = Orderly
  BY <1>0, <1>1, NotifyKeeps
<1>4. Data'
  BY <1>1, <1>2 DEF Inv, Data, Sent
<1>5. Statuses'
  <2>1. ~(pc = "idle" /\ spoilt = {})
    BY <1>2 DEF Inv, Statuses
  <2>2. ASSUME pc # "idle", result.fresh, spoilt \subseteq {"expired"}
        PROVE  ~Has(transit', {"session"}) /\ Single(transit', {"session"}) /\ sessionInfo' = Wanted
    <3>1. Single(transit, {"session"}) /\ Head(mbox) = Status(call.session, Target[call.op], "command")
      BY <1>2, <2>2 DEF Inv, Statuses
    <3>2. Head(mbox).session = call.session /\ Head(mbox).state = Target[call.op]
      BY <3>1 DEF Status
    <3> QED BY <1>1, <1>2, <3>1, <3>2 DEF Wanted
  <2>3. Wanted' = Wanted
    BY <1>2 DEF Wanted
  <2> QED BY <1>1, <1>2, <2>1, <2>2, <2>3 DEF Inv, Statuses
<1>6. Transfers'
  <2>1. ~(Orderly /\ DataCall)
    BY <1>2, DataWaits
  <2>2. NoTransmit' <=> NoTransmit
    BY <1>2 DEF NoTransmit
  <2>3. receivedEventId' = "session"
    BY <1>1 DEF Wake
  <2> QED BY <1>1, <1>2, <1>3, <2>1, <2>2, <2>3 DEF Inv, Transfers
<1> QED BY <1>2, <1>3, <1>4, <1>5, <1>6 DEF Inv

(* The notifications that are of no session's status leave what is under   *)
(* way of it.                                                              *)
LEMMA StatusesKept ==
    ASSUME IInv, NEW e \in {"transmit", "credit", "device"}, Takes(e),
           UNCHANGED <<out, spoilt, done, held, sessionInfo>>,
           NEW wakes \in BOOLEAN, Wake(e, wakes), wakes => currentEventId = e
    PROVE  Statuses'
<1>0. e # "cmd" /\ e # "session" /\ e \notin SessionOp /\ e \notin {"session"}
  BY EventSets
<1>1. /\ Inv /\ \A m \in In(transit') : m \in In(transit)
      /\ \A E : /\ Has(transit, E) <=> e \in E \/ Has(transit', E)
                /\ Single(transit, E) => Single(transit', E)
      /\ UNCHANGED <<outranks, pc, call, awaited, got, result>>
  BY <1>0, Taken
<1>2. receivedEventId' = e /\ devMgmtSem' = IF wakes THEN 1 ELSE devMgmtSem
  BY DEF Wake
<1>3. ASSUME result.fresh, spoilt \subseteq {"expired"}, Has(transit, {"session"}), pc = "ntf"
      PROVE  ~wakes
  BY <1>0, <1>3, StatusWaited
<1> QED BY <1>0, <1>1, <1>2, <1>3 DEF Inv, Statuses, Wanted

(* The callback of a device status. *)
LEMMA TakesDeviceKeeps == ASSUME IInv, TakesDevice PROVE Inv' /\ OkIsTrue' /\ DoneIsOk'
<1>0. PICK wakes \in BOOLEAN : wakes = FALSE
  OBVIOUS
<1>1. /\ Takes("device") /\ UNCHANGED <<out, spoilt, done, held>> /\ Wake("device", wakes)
      /\ UNCHANGED <<wstatus, sessionInfo, dataTransmit, dataCredit, uci_cmd_window>>
  BY <1>0 DEF TakesDevice, TaskRest, info
<1>2. /\ Types /\ Inv /\ ~Sending /\ ~Sending' /\ mbox # << >> /\ mbox' = << >>
      /\ \A m \in In(transit') : m \in In(transit)
      /\ \A E : Has(transit, E) <=> "device" \in E \/ Has(transit', E)
      /\ Final(transit) => Final(transit')
      /\ UNCHANGED <<outranks, pc, call, awaited, got, result>>
      /\ InOrder' = InOrder /\ DataCall' = DataCall
      /\ Places' /\ OkIsTrue' /\ DoneIsOk'
  BY <1>1, Taken
<1>3. Window' /\ Control' /\ Answered' /\ Orderly' = Orderly
  BY <1>0, <1>1, NotifyKeeps
<1>4. Data'
  BY <1>1, <1>2 DEF Inv, Data, Sent
<1>5. Statuses'
  BY <1>0, <1>1, StatusesKept
<1>6. Transfers'
  <2>1. (NoTransmit' <=> NoTransmit) /\ (NoCredit' <=> NoCredit)
    BY <1>2 DEF NoTransmit, NoCredit
  <2>2. receivedEventId' = "device" /\ devMgmtSem' = devMgmtSem
    BY <1>0, <1>1 DEF Wake
  <2>3. ASSUME Orderly, DataCall PROVE Stage'
    <3>1. Stage /\ pc = "ntf" /\ devMgmtSem = 0 /\ awaited \in {"transmit", "credit"}
      BY <1>2, <2>3, DataWaits
    <3>2. ~Holding /\ ~Holding'
      BY <1>2, <2>2, <3>1 DEF Holding
    <3> QED BY <1>1, <1>2, <2>1, <3>1, <3>2 DEF Stage, Mine
  <2> QED BY <1>1, <1>2, <1>3, <2>1, <2>2, <2>3 DEF Inv, Transfers
<1> QED BY <1>2, <1>3, <1>4, <1>5, <1>6 DEF Inv

(* The callback of a transmit status. *)
LEMMA TakesTransmitKeeps == ASSUME IInv, TakesTransmit PROVE Inv' /\ OkIsTrue' /\ DoneIsOk'
<1>0. PICK wakes \in BOOLEAN : wakes = (currentEventId = "transmit")
  OBVIOUS
<1>1. /\ Takes("transmit") /\ UNCHANGED <<out, spoilt, done, held>> /\ Wake("transmit", wakes)
      /\ dataTransmit' = [session |-> Head(mbox).session, seq |-> Head(mbox).seq,
                          status |-> Head(mbox).status]
      /\ UNCHANGED <<wstatus, sessionInfo, dataCredit, uci_cmd_window>>
  BY <1>0 DEF TakesTransmit, TaskRest
<1>2. /\ Types /\ Inv /\ ~Sending /\ ~Sending' /\ mbox # << >> /\ mbox' = << >>
      /\ Head(mbox).event = "transmit" /\ Head(mbox) \in In(transit)
      /\ \A m \in In(transit') : m \in In(transit)
      /\ \A E : Has(transit, E) <=> "transmit" \in E \/ Has(transit', E)
      /\ Final(transit) => Final(transit')
      /\ UNCHANGED <<outranks, pc, call, awaited, got, result>>
      /\ InOrder' = InOrder /\ DataCall' = DataCall
      /\ Places' /\ OkIsTrue' /\ DoneIsOk'
  BY <1>1, Taken
<1>3. Window' /\ Control' /\ Answered' /\ Orderly' = Orderly
  BY <1>0, <1>1, NotifyKeeps
<1>4. /\ dataTransmit'.session = Head(mbox).session /\ dataTransmit'.seq = Head(mbox).seq
      /\ dataTransmit'.status = Head(mbox).status
  BY <1>1
<1>5. Data'
  <2>1. Sent(Head(mbox))
    BY <1>2 DEF Inv, Data
  <2>2. Sent(dataTransmit)'
    BY <1>1, <1>2, <1>4, <2>1 DEF Sent
  <2> QED BY <1>1, <1>2, <2>2 DEF Inv, Data, Sent
<1>6. Statuses'
  BY <1>0, <1>1, StatusesKept
<1>7. Transfers'
  <2>1. Has(transit, {"transmit"}) /\ (NoCredit' <=> NoCredit)
    BY <1>2 DEF NoCredit
  <2>2. receivedEventId' = "transmit" /\ (wakes => devMgmtSem' = 1)
    BY <1>1 DEF Wake
  <2>3. ~(Orderly /\ ~DataCall)
    BY <1>2, <2>1 DEF Inv, Transfers, NoTransmit
  <2>4. ASSUME Orderly, DataCall PROVE Stage'
    <3>1. /\ Stage /\ pc = "ntf" /\ devMgmtSem = 0 /\ awaited \in {"transmit", "credit"}
          /\ currentEventId = awaited
      BY <1>2, <2>4, DataWaits
    <3>2. awaited = "transmit"
      BY <2>1, <3>1 DEF Stage, NoTransmit
    <3>3. Holding'
      BY <1>0, <1>2, <2>2, <3>1, <3>2 DEF Holding
    <3>4. dataTransmit'.status = "repetition" <=> ~NoTransmit'
      <4>1. transit \in Seq(Message) /\ transit # << >> /\ transit' = Tail(transit)
            /\ Head(transit) = Head(mbox)
        BY <1>1, <1>2, TakesTransit, TransitIs
      <4>2. Head(transit).status = "repetition" <=> Has(Tail(transit), {"transmit"})
        BY <1>2, <3>1, <4>1, FinalRest DEF Stage
      <4> QED BY <1>4, <4>1, <4>2 DEF NoTransmit
    <3>5. Mine(dataTransmit)'
      <4>1. Mine(Head(mbox))
        BY <1>2, <3>1 DEF Stage
      <4> QED BY <1>1, <1>2, <1>4, <4>1 DEF Mine
    <3> QED BY <1>1, <1>2, <2>1, <3>1, <3>2, <3>3, <3>4, <3>5 DEF Stage, Mine
  <2> QED BY <1>1, <1>2, <1>3, <2>3, <2>4 DEF Inv, Transfers
<1> QED BY <1>2, <1>3, <1>5, <1>6, <1>7 DEF Inv

(* The callback of a credit, which opens the window. *)
LEMMA TakesCreditKeeps == ASSUME IInv, TakesCredit PROVE Inv' /\ OkIsTrue' /\ DoneIsOk'
<1>0. PICK wakes \in BOOLEAN : wakes = (currentEventId = "credit")
  OBVIOUS
<1>1. /\ Takes("credit") /\ UNCHANGED <<out, spoilt, done, held>> /\ Wake("credit", wakes)
      /\ dataCredit' = [session |-> Head(mbox).session] /\ uci_cmd_window' = 1
      /\ UNCHANGED <<wstatus, sessionInfo, dataTransmit>>
  BY <1>0 DEF TakesCredit, TaskRest
<1>2. /\ Types /\ Inv /\ ~Sending /\ ~Sending' /\ mbox # << >> /\ mbox' = << >>
      /\ Head(mbox).event = "credit" /\ Head(mbox) \in In(transit)
      /\ \A m \in In(transit') : m \in In(transit)
      /\ \A E : Has(transit, E) <=> "credit" \in E \/ Has(transit', E)
      /\ Final(transit) => Final(transit')
      /\ UNCHANGED <<outranks, pc, call, awaited, got, result>>
      /\ InOrder' = InOrder /\ DataCall' = DataCall
      /\ Places' /\ OkIsTrue' /\ DoneIsOk'
  BY <1>1, Taken
<1>3. Window' /\ Control' /\ Answered' /\ Orderly' = Orderly
  BY <1>0, <1>1, NotifyKeeps
<1>4. dataCredit'.session = Head(mbox).session
  BY <1>1
<1>5. Data'
  BY <1>1, <1>2 DEF Inv, Data, Sent
<1>6. Statuses'
  BY <1>0, <1>1, StatusesKept
<1>7. Transfers'
  <2>1. NoTransmit /\ NoTransmit'
    <3>1. transit \in Seq(Message) /\ Head(transit).event = "credit"
      BY <1>1, <1>2, TakesTransit, TransitIs
    <3>2. NoTransmit
      BY <1>2, <3>1, CreditFollows DEF NoTransmit, Inv, Window
    <3> QED BY <1>2, <3>2 DEF NoTransmit
  <2>2. receivedEventId' = "credit" /\ devMgmtSem' = IF wakes THEN 1 ELSE devMgmtSem
    BY <1>1 DEF Wake
  <2>3. ASSUME Orderly, DataCall PROVE Stage'
    <3>1. /\ Stage /\ pc = "ntf" /\ devMgmtSem = 0 /\ awaited \in {"transmit", "credit"}
          /\ currentEventId = awaited /\ ~Holding
      BY <1>2, <2>3, DataWaits DEF Holding
    <3>2. Holding' <=> awaited = "credit"
      BY <1>0, <1>2, <2>2, <3>1 DEF Holding
    <3>3. awaited # "credit" => ~done
      BY <2>1, <3>1 DEF Stage
    <3>4. awaited = "credit" => dataCredit'.session = call.session
      BY <1>2, <1>4, <3>1 DEF Stage, Inv, Data
    <3> QED BY <1>1, <1>2, <2>1, <3>1, <3>2, <3>3, <3>4 DEF Stage, Mine
  <2> QED BY <1>1, <1>2, <1>3, <2>1, <2>2, <2>3 DEF Inv, Transfers
<1> QED BY <1>2, <1>3, <1>5, <1>6, <1>7 DEF Inv

(* The callback of a response. *)
LEMMA TakesRspKeeps ==
    ASSUME IInv, NEW op \in SessionOp, TakesRsp(op)
    PROVE  Inv' /\ OkIsTrue' /\ DoneIsOk'
<1>1. PICK wakes \in BOOLEAN : wakes = (currentEventId = op)
  OBVIOUS
<1>2. op \in Answers /\ op # "timeout"
  BY EventSets
<1>3. /\ Takes(op) /\ UNCHANGED <<out, spoilt, done, held>> /\ Wake(op, wakes)
      /\ wstatus' = Head(mbox).status /\ uci_cmd_window' = 1
      /\ UNCHANGED <<sessionInfo, dataTransmit, dataCredit>>
  BY <1>1 DEF TakesRsp, TaskRest
<1> QED BY <1>1, <1>2, <1>3, AnswerKeeps

(* The callback of a command the core gives up. *)
LEMMA TakesGivenUpKeeps == ASSUME IInv, TakesGivenUp PROVE Inv' /\ OkIsTrue' /\ DoneIsOk'
<1>1. PICK wakes \in BOOLEAN : wakes = TRUE
  OBVIOUS
<1>2. "timeout" \in Answers
  BY EventSets
<1>3. /\ Takes("timeout") /\ UNCHANGED <<out, spoilt, done, held>> /\ Wake("timeout", wakes)
      /\ wstatus' = "timeout" /\ uci_cmd_window' = 1
      /\ UNCHANGED <<sessionInfo, dataTransmit, dataCredit>>
  BY <1>1 DEF TakesGivenUp, TaskRest
<1> QED BY <1>1, <1>2, <1>3, AnswerKeeps

(* The UWB task keeps the invariant. *)
LEMMA UwbTaskKeeps == ASSUME IInv, UwbTask PROVE IInv'
<1>1. CASE TakesCmd
  BY <1>1, TakesCmdKeeps
<1>2. CASE ~TakesCmd
  <2>1. Inv' /\ OkIsTrue' /\ DoneIsOk'
    BY <1>2, TakesRspKeeps, TakesGivenUpKeeps, TakesSessionKeeps, TakesTransmitKeeps, TakesCreditKeeps,
       TakesDeviceKeeps DEF UwbTask
  <2> QED BY <2>1, TakesTypes DEF IInv
<1> QED BY <1>1, <1>2
-----------------------------------------------------------------------------
(* The invariant, and what it says of the calls *)

(* The invariant holds when the stack has started. *)
LEMMA InitHolds == ASSUME Init PROVE IInv
<1> DEFINE ranging == CHOOSE s \in Session : TRUE
<1>1. ranging \in Session /\ Session \subseteq Nat
  BY UwbNotifyAssumption
<1>2. /\ pc = "idle" /\ awaited = "session" /\ got = FALSE
      /\ currentEventId = "default" /\ receivedEventId = "default" /\ devMgmtSem = 0
      /\ wstatus = "ok" /\ uci_cmd_window = 1 /\ mbox = << >> /\ out = << >>
      /\ done = FALSE /\ held = FALSE /\ spoilt = {} /\ outranks \in BOOLEAN
  BY DEF Init
<1>3. call = [op |-> "start", session |-> ranging, n |-> 0]
  BY DEF Init
<1>4. dataTransmit = [session |-> 0, seq |-> 0, status |-> "repetition"] /\ dataCredit = [session |-> 0]
  BY DEF Init
<1>5. result = [op |-> "start", status |-> "none", done |-> FALSE, held |-> FALSE,
                clean |-> TRUE, fresh |-> TRUE]
  BY DEF Init
<1>6. call \in CallType /\ call.n = 0
  BY <1>1, <1>3 DEF CallType, SessionOp
<1>7. result \in Result /\ result.status = "none"
  BY <1>5 DEF Result, SessionOp
<1>8. uwbs \in SessionStates
  <2>1. uwbs = [s \in Session |-> IF s = ranging THEN "active" ELSE "init"]
    BY DEF Init
  <2> QED BY <2>1 DEF SessionStates, SessionState
<1>9. sessionInfo \in SessionInfo
  <2>1. PICK s \in Session : sessionInfo = [session |-> s, state |-> uwbs[s]]
    BY DEF Init
  <2>2. uwbs[s] \in SessionState
    BY <1>8 DEF SessionStates
  <2> QED BY <2>1, <2>2 DEF SessionInfo
<1>10. /\ dataTransmit \in TransmitInfo /\ dataCredit \in CreditInfo
       /\ dataTransmit.seq = 0 /\ dataTransmit.status = "repetition"
  BY <1>4 DEF TransmitInfo, CreditInfo, Transfer
<1>11. budget \in Budget
  <2>1. budget = [call |-> MaxCall, fault |-> MaxFault]
    BY DEF Init
  <2>2. MaxCall \in 0 .. MaxCall /\ MaxFault \in 0 .. MaxFault
    BY UwbNotifyAssumption
  <2> QED BY <2>1, <2>2 DEF Budget
<1>12. spoilt \in Mishaps
  BY <1>2 DEF Mishaps
<1>13. mbox \in Mailbox /\ out \in Outbox
  <2>1. << >> \in Mailbox /\ << >> \in Outbox
    BY NoMessage, ShortSeqs DEF Outbox
  <2> QED BY <1>2, <2>1
<1>14. CallerTypes
  <2>1. done \in BOOLEAN /\ held \in BOOLEAN /\ got \in BOOLEAN
    BY <1>2, Zenon
  <2>4. devMgmtSem \in 0 .. 1
    BY <1>2
  <2>2. pc \in {"idle", "rsp", "sent"} \cup Waits /\ awaited \in {"session", "transmit", "credit"}
    BY <1>2
  <2>3. /\ currentEventId \in SessionOp \cup {"default", "session", "transmit", "credit"}
        /\ receivedEventId \in SessionOp \cup
                {"default", "timeout", "session", "transmit", "credit", "device"}
    BY <1>2
  <2> QED BY <1>6, <1>7, <1>11, <1>12, <2>1, <2>2, <2>3, <2>4 DEF CallerTypes
<1>15. TaskTypes
  BY <1>2, <1>8, <1>9, <1>10, <1>13 DEF TaskTypes
<1>16. Types
  BY <1>14, <1>15, TypesSplit
<1>17. transit = << >> /\ ~Sending
  <2>1. << >> \o << >> = << >>
    OBVIOUS
  <2> QED BY <1>2, <2>1 DEF transit, Sending
<1>18. In(transit) = {} /\ Single(transit, Openers) /\ Credited(transit)
  BY <1>17, NoPacket
<1>19. /\ ~Has(transit, Openers) /\ ~Has(transit, Answers) /\ ~Has(transit, {"session"})
       /\ ~Has(transit, {"transmit"})
  BY <1>18 DEF Has
<1>20. Window
  BY <1>2, <1>18, <1>19 DEF Window
<1>21. Places
  BY <1>2, <1>17 DEF Places, Waits
<1>22. Data
  BY <1>2, <1>6, <1>10, <1>18 DEF Data, Sent
<1>23. Control
  BY <1>2, <1>18, <1>19 DEF Control
<1>24. Answered
  BY <1>2, <1>17 DEF Answered, Waits
<1>25. Statuses
  BY <1>2, <1>19 DEF Statuses
<1>26. Transfers
  BY <1>2, <1>19 DEF Transfers, DataCall, NoTransmit
<1>27. OkIsTrue /\ DoneIsOk
  BY <1>7 DEF OkIsTrue, DoneIsOk
<1> QED BY <1>16, <1>20, <1>21, <1>22, <1>23, <1>24, <1>25, <1>26, <1>27 DEF IInv, Inv

(* The invariant is about the state alone. *)
LEMMA StutterKeeps == ASSUME IInv, UNCHANGED vars PROVE IInv'
<1>1. UNCHANGED <<outranks, pc, call, awaited, got, currentEventId, receivedEventId, devMgmtSem,
                  wstatus, sessionInfo, dataTransmit, dataCredit, uci_cmd_window, mbox, uwbs, out,
                  budget, done, held, spoilt, result>>
  BY DEF vars, caller, wait, info, ghosts
<1>2. transit' = transit /\ InOrder' = InOrder /\ Sending' = Sending
  BY <1>1 DEF transit, InOrder, Sending
<1>3. Types'
  <2>1. CallerTypes /\ TaskTypes
    BY TypesSplit DEF IInv
  <2>2. CallerTypes'
    BY <1>1, <2>1 DEF CallerTypes
  <2>3. TaskTypes'
    BY <1>1, <2>1 DEF TaskTypes
  <2> QED BY <2>2, <2>3, TypesJoin
<1>4. OkIsTrue' /\ DoneIsOk'
  BY <1>1 DEF IInv, OkIsTrue, DoneIsOk
<1>5. Inv
  BY DEF IInv
<1>6. Window'
  BY <1>1, <1>2, <1>5 DEF Inv, Window
<1>7. Places'
  BY <1>1, <1>2, <1>5 DEF Inv, Places
<1>8. Data'
  BY <1>1, <1>2, <1>5 DEF Inv, Data, Sent
<1>9. Control'
  BY <1>1, <1>2, <1>5 DEF Inv, Control
<1>10. Answered'
  BY <1>1, <1>2, <1>5 DEF Inv, Answered
<1>11. Statuses'
  BY <1>1, <1>2, <1>5 DEF Inv, Statuses, Wanted
<1>12. Transfers'
  <2>1. Orderly' = Orderly /\ DataCall' = DataCall /\ Holding' = Holding
    BY <1>1, <1>2 DEF Orderly, DataCall, Holding
  <2>2. Stage => Stage'
    BY <1>1, <1>2, <2>1 DEF Stage, NoTransmit, NoCredit, Mine
  <2> QED BY <1>1, <1>2, <1>5, <2>1, <2>2 DEF Inv, Transfers, NoTransmit
<1> QED BY <1>3, <1>4, <1>6, <1>7, <1>8, <1>9, <1>10, <1>11, <1>12 DEF IInv, Inv

(* The invariant holds always, for any sessions, calls and faults. *)
THEOREM Invariant == Spec => []IInv
<1>1. Init => IInv
  BY InitHolds
<1>2. IInv /\ [Next]_vars => IInv'
  BY CallKeeps, CallerKeeps, PostsKeeps, UwbTaskKeeps, StrayKeeps, StutterKeeps DEF Next
<1> QED BY <1>1, <1>2, PTL DEF Spec

(* The variables have their types. *)
THEOREM TypeCorrect == Spec => []TypeOK
<1>1. IInv => TypeOK
  BY DEF IInv, Types
<1> QED BY <1>1, Invariant, PTL

(* A call that returns OK has had its way, whichever notifications came    *)
(* between the steps of waitforNotification.                               *)
THEOREM OkTrue == Spec => []OkIsTrue
<1>1. IInv => OkIsTrue
  BY DEF IInv
<1> QED BY <1>1, Invariant, PTL

(* What the controller has carried out is reported as OK. *)
THEOREM DoneOk == Spec => []DoneIsOk
<1>1. IInv => DoneIsOk
  BY DEF IInv
<1> QED BY <1>1, Invariant, PTL

(* No call leaves a token on devMgmtSem for the next one. *)
THEOREM NoTokenLeft == Spec => []NothingLeft
<1>1. IInv => NothingLeft
  BY DEF IInv, Inv, Control, NothingLeft, Types, TypeOK
<1> QED BY <1>1, Invariant, PTL
=============================================================================
