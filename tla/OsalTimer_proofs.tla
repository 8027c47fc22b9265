--------------------------- MODULE OsalTimer_proofs ----------------------------
(***************************************************************************)
(* The timers, for any number of slots from two on, and any of FreeRTOS    *)
(* timers, of timeouts in the mailbox and of commands queued meanwhile.    *)
(*                                                                         *)
(* The argument: the slots are taken in one order only.  The HAL creates   *)
(* its timer when no other exists and has the first slot, the UWB task     *)
(* creates its own while the HAL's exists and has the second, and neither  *)
(* id is ever the other's.  A slot's timer has no deletion queued, unless  *)
(* the task that queued it is about to clear the slot; so the daemon never *)
(* finds a freed timer, provided that the callback cannot run then.  It    *)
(* cannot: the timer was stopped first, and what the daemon finds queued   *)
(* after a sleep it takes before it looks for an expiry.                   *)
(***************************************************************************)
EXTENDS OsalTimer, SequenceTheorems, WellFoundedInduction, TLAPS

(* PH_UWB_MAX_TIMER has a slot for each of the two users. *)
TwoSlots == MaxTimer >= 2

HalSlot   == 1
QuickSlot == 2

Cmd(what, h) == [op |-> what, h |-> h]
TimerCommand == [op : {"start", "stop", "delete"}, h : Handle]
SlotType == [TimerId : BOOLEAN, hTimerHandle : Handle \cup {0},
             eState : {"idle", "running", "stopped"}, user : {"none", "uwb_task", "hal"}]

TypeOK ==
    /\ apTimerInfo \in [Slot -> SlotType]
    /\ kernel \in [Handle -> {"none", "dormant", "active"}]
    /\ timerQ \in Seq(TimerCommand)
    /\ daemon \in {"ready", "drain", "delay"}
    /\ TimerHandle \in {NoSlot, QuickSlot}
    /\ uwbTimeoutTimerId \in {NoSlot, HalSlot}
    /\ open \in BOOLEAN
    /\ is_resp_pending \in BOOLEAN
    /\ posted \in 0 .. MaxPosted
    /\ ext \in {"idle", "wait", "woken"}
    /\ fault \in {"none", "handle"}

Taken(s)  == apTimerInfo[s].TimerId
Timer(s)  == apTimerInfo[s].hTimerHandle

(* Who has which slot *)
Owned ==
    /\ \A s \in Slot :
         \/ Taken(s) /\ s = HalSlot   /\ apTimerInfo[s].user = "hal"
         \/ Taken(s) /\ s = QuickSlot /\ apTimerInfo[s].user = "uwb_task"
         \/ ~Taken(s) /\ apTimerInfo[s].user = "none" /\ Timer(s) = 0
    /\ Taken(QuickSlot) => TimerHandle = QuickSlot
    /\ Taken(HalSlot) => uwbTimeoutTimerId = HalSlot
    /\ Taken(HalSlot) /\ Taken(QuickSlot) => Timer(HalSlot) # Timer(QuickSlot)
    /\ open => Taken(HalSlot)
-----------------------------------------------------------------------------
(* The commands the daemon will find, and the timer after them *)
NoneOf(q, c)   == \A i \in 1 .. Len(q) : q[i] # c
SomeOf(q, c)   == \E i \in 1 .. Len(q) : q[i] = c
Stops(q, h)    == \E i \in 1 .. Len(q) :
                    /\ q[i].h = h /\ q[i].op # "start"
                    /\ \A j \in 1 .. Len(q) : j > i => q[j] # Cmd("start", h)
Calm(h)        == kernel[h] # "active" /\ NoneOf(timerQ, Cmd("start", h))
WillBeQuiet(h) == Calm(h) \/ Stops(timerQ, h)
Quiet(h)       == Calm(h) \/ (daemon # "ready" /\ Stops(timerQ, h))

(* No command is about a timer the daemon has freed, or frees before it.   *)
Sound ==
    /\ \A i \in 1 .. Len(timerQ) : kernel[timerQ[i].h] # "none"
    /\ \A i, j \in 1 .. Len(timerQ) :
         i < j /\ timerQ[i].op = "delete" => timerQ[j].h # timerQ[i].h

(* The task has queued the deletion of the slot's timer. *)
Clearing(s) == prog # << >> /\ Head(prog) = Op("delete_clear", s)

Live(s) == kernel[Timer(s)] # "none" /\ NoneOf(timerQ, Cmd("delete", Timer(s)))

Timers ==
    /\ Sound
    /\ \A s \in Slot : Taken(s) => Timer(s) \in Handle /\ (Clearing(s) \/ Live(s))
    /\ Taken(QuickSlot) /\ apTimerInfo[QuickSlot].eState # "running" => Quiet(Timer(QuickSlot))
-----------------------------------------------------------------------------
(* What the UWB task has still to do: the call it is at, and the rest *)
Doing(x, id, t) == prog # << >> /\ Head(prog) = Op(x, id) /\ Tail(prog) = t

LastStop  == <<Op("closed", NoSlot)>> \o StopQuick
HalDelete == <<Op("delete", uwbTimeoutTimerId)>> \o LastStop
HalDown   == <<Op("stop", uwbTimeoutTimerId)>> \o HalDelete
After     == {<< >>, Start, HalDown}

Closing == ~open /\ ~is_resp_pending /\ uwbTimeoutTimerId = HalSlot

(* What may follow the deletion of the quick timer *)
Rest(r) ==
    \/ r = << >> /\ ~is_resp_pending /\ (uwbTimeoutTimerId = HalSlot => open)
    \/ r = Start /\ is_resp_pending /\ open
    \/ r = HalDown /\ Closing

(* The quick timer is started, or about to be, and nothing will stop it.   *)
Ticking ==
    /\ Taken(QuickSlot)
    /\ Coming(Timer(QuickSlot))
    /\ \A i \in 1 .. Len(timerQ) :
         timerQ[i].h = Timer(QuickSlot) => timerQ[i].op = "start"

AtIdle ==
    /\ prog = << >>
    /\ uwbTimeoutTimerId = HalSlot => open
    /\ ~is_resp_pending => ~Taken(QuickSlot)
    /\ is_resp_pending => open /\ (posted > 0 \/ Ticking)

AtStart ==
    Doing("start", NoSlot, << >>) /\ is_resp_pending /\ open /\ ~Taken(QuickSlot)

StopSteps   == {"stop", "stop_use", "stop_mark"}
DeleteSteps == {"delete", "delete_use", "delete_clear"}

AtQuickStop ==
    \E x \in StopSteps, r \in After :
        /\ Rest(r)
        /\ Doing(x, TimerHandle, <<Op("delete", TimerHandle)>> \o r)
        /\ x # "stop" => TimerHandle = QuickSlot
        /\ x = "stop_mark" /\ Taken(QuickSlot) => WillBeQuiet(Timer(QuickSlot))

AtQuickDelete ==
    \E x \in DeleteSteps, r \in After :
        /\ Rest(r)
        /\ Doing(x, TimerHandle, r)
        /\ x # "delete" => TimerHandle = QuickSlot
        /\ Taken(QuickSlot) => apTimerInfo[QuickSlot].eState # "running"

AtHalStop   == Closing /\ \E x \in StopSteps : Doing(x, HalSlot, HalDelete)
AtHalDelete == Closing /\ \E x \in DeleteSteps : Doing(x, HalSlot, LastStop)
AtClosed    == Closing /\ ~Taken(HalSlot) /\ Doing("closed", NoSlot, StopQuick)

Agenda == AtIdle \/ AtStart \/ AtQuickStop \/ AtQuickDelete \/ AtHalStop \/ AtHalDelete \/ AtClosed

IInv == TypeOK /\ Owned /\ Timers /\ Agenda
-----------------------------------------------------------------------------
(* Lemmas: the queue of commands *)

(* The bounds are numbers. *)
LEMMA Constants ==
    /\ MaxTimer \in Nat \ {0} /\ Handles \in Nat \ {0}
    /\ MaxPosted \in Nat \ {0} /\ MaxQueued \in Nat \ {0}
BY OsalTimerAssumption

(* A command is the one of its name and timer. *)
LEMMA CommandIs ==
    ASSUME NEW c \in TimerCommand
    PROVE  c = Cmd(c.op, c.h) /\ c.h \in Handle /\ c.op \in {"start", "stop", "delete"}
BY DEF TimerCommand, Cmd

(* A command joins the end of the queue. *)
LEMMA Appended ==
    ASSUME NEW q \in Seq(TimerCommand), NEW c \in TimerCommand
    PROVE  /\ Append(q, c) \in Seq(TimerCommand)
           /\ Len(q) \in Nat
           /\ Len(Append(q, c)) = Len(q) + 1
           /\ Append(q, c)[Len(q) + 1] = c
           /\ \A i \in 1 .. Len(q) : Append(q, c)[i] = q[i]
           /\ \A i \in 1 .. Len(q) + 1 : i \in 1 .. Len(q) \/ i = Len(q) + 1
OBVIOUS

(* A command leaves the front of the queue. *)
LEMMA Taking ==
    ASSUME NEW q \in Seq(TimerCommand), q # << >>
    PROVE  /\ Tail(q) \in Seq(TimerCommand)
           /\ Len(q) \in Nat /\ Len(q) > 0
           /\ Len(Tail(q)) = Len(q) - 1
           /\ Head(q) = q[1] /\ Head(q) \in TimerCommand
           /\ \A i \in 1 .. Len(q) - 1 : Tail(q)[i] = q[i + 1] /\ i + 1 \in 1 .. Len(q)
OBVIOUS

(* What a command more changes *)
LEMMA AppendedNone ==
    ASSUME NEW q \in Seq(TimerCommand), NEW c \in TimerCommand, NEW d
    PROVE  NoneOf(Append(q, c), d) <=> NoneOf(q, d) /\ c # d
<1>1. ASSUME NoneOf(q, d), c # d PROVE NoneOf(Append(q, c), d)
  BY <1>1, Appended DEF NoneOf
<1>2. ASSUME NoneOf(Append(q, c), d) PROVE NoneOf(q, d) /\ c # d
  BY <1>2, Appended DEF NoneOf
<1> QED BY <1>1, <1>2

(* A stop that is the last word on a timer stays so until its next start. *)
LEMMA AppendedStops ==
    ASSUME NEW q \in Seq(TimerCommand), NEW c \in TimerCommand, NEW h,
           \/ Stops(q, h) /\ c # Cmd("start", h)
           \/ c.h = h /\ c.op # "start"
    PROVE  Stops(Append(q, c), h)
<1>1. CASE Stops(q, h) /\ c # Cmd("start", h)
  <2>1. PICK i \in 1 .. Len(q) :
          /\ q[i].h = h /\ q[i].op # "start"
          /\ \A j \in 1 .. Len(q) : j > i => q[j] # Cmd("start", h)
    BY <1>1 DEF Stops
  <2>2. i \in 1 .. Len(Append(q, c)) /\ Append(q, c)[i] = q[i]
    BY Appended
  <2>3. \A j \in 1 .. Len(Append(q, c)) : j > i => Append(q, c)[j] # Cmd("start", h)
    BY <1>1, <2>1, Appended
  <2> QED BY <2>1, <2>2, <2>3 DEF Stops
<1>2. CASE c.h = h /\ c.op # "start"
  <2>1. \A j \in 1 .. Len(q) + 1 : ~(j > Len(q) + 1)
    BY Appended
  <2>2. Len(q) + 1 \in 1 .. Len(q) + 1
    BY Appended
  <2> QED BY <1>2, <2>1, <2>2, Appended DEF Stops
<1> QED BY <1>1, <1>2

(* What a command less changes *)
LEMMA TakenNone ==
    ASSUME NEW q \in Seq(TimerCommand), q # << >>, NEW d, NoneOf(q, d)
    PROVE  NoneOf(Tail(q), d) /\ Head(q) # d
BY Taking DEF NoneOf

(* It stays so as the queue is served, until it is served itself. *)
LEMMA TakenStops ==
    ASSUME NEW q \in Seq(TimerCommand), q # << >>, NEW h, Stops(q, h)
    PROVE  \/ Stops(Tail(q), h)
           \/ Head(q).h = h /\ Head(q).op # "start" /\ NoneOf(Tail(q), Cmd("start", h))
<1>1. PICK i \in 1 .. Len(q) :
        /\ q[i].h = h /\ q[i].op # "start"
        /\ \A j \in 1 .. Len(q) : j > i => q[j] # Cmd("start", h)
  BY DEF Stops
<1>2. CASE i = 1
  BY <1>1, <1>2, Taking DEF NoneOf
<1>3. CASE i # 1
  <2>1. i - 1 \in 1 .. Len(Tail(q)) /\ (i - 1) + 1 = i
    BY <1>3, Taking
  <2>2. Tail(q)[i - 1] = q[i]
    BY <2>1, Taking
  <2>3. \A j \in 1 .. Len(Tail(q)) : j > i - 1 => Tail(q)[j] # Cmd("start", h)
    BY <1>1, <2>1, Taking
  <2> QED BY <1>1, <2>1, <2>2, <2>3 DEF Stops
<1> QED BY <1>2, <1>3

(* An empty queue stops nothing. *)
LEMMA EmptyStops == \A h : ~Stops(<< >>, h)
BY DEF Stops

(* A command about a timer that is not freed, and not about to be, may be  *)
(* queued.                                                                 *)
LEMMA SoundAppend ==
    ASSUME TypeOK, Sound, NEW c \in TimerCommand, kernel[c.h] # "none",
           NoneOf(timerQ, Cmd("delete", c.h)),
           timerQ' = Append(timerQ, c),
           \A h \in Handle : kernel[h] # "none" => kernel'[h] # "none"
    PROVE  Sound'
<1>1. timerQ \in Seq(TimerCommand)
  BY DEF TypeOK
<1>2. \A i \in 1 .. Len(timerQ) : timerQ[i] \in TimerCommand
  BY <1>1
<1>3. \A i \in 1 .. Len(timerQ') : kernel'[timerQ'[i].h] # "none"
  BY <1>1, <1>2, Appended, CommandIs DEF Sound
<1>4. \A i \in 1 .. Len(timerQ) : timerQ[i].op = "delete" => c.h # timerQ[i].h
  BY <1>2, CommandIs DEF NoneOf
<1>5. ASSUME NEW i \in 1 .. Len(timerQ'), NEW j \in 1 .. Len(timerQ'),
             i < j, timerQ'[i].op = "delete"
      PROVE  timerQ'[j].h # timerQ'[i].h
  <2>1. i \in 1 .. Len(timerQ) /\ timerQ'[i] = timerQ[i]
    BY <1>1, <1>5, Appended
  <2>2. CASE j \in 1 .. Len(timerQ)
    BY <1>1, <1>5, <2>1, <2>2, Appended DEF Sound
  <2>3. CASE j = Len(timerQ) + 1
    BY <1>1, <1>4, <1>5, <2>1, <2>3, Appended
  <2> QED BY <1>1, <2>2, <2>3, Appended
<1> QED BY <1>3, <1>5 DEF Sound

(* The daemon finds the timer of the command, and what it does to it no    *)
(* later command misses.                                                   *)
LEMMA SoundTake ==
    ASSUME TypeOK, Sound, timerQ # << >>, timerQ' = Tail(timerQ),
           kernel' = [kernel EXCEPT ![Head(timerQ).h] = Effect(Head(timerQ).op)]
    PROVE  kernel[Head(timerQ).h] # "none" /\ Sound'
<1>1. timerQ \in Seq(TimerCommand)
  BY DEF TypeOK
<1>2. \A i \in 1 .. Len(timerQ) : timerQ[i] \in TimerCommand
  BY <1>1
<1>3. kernel[Head(timerQ).h] # "none"
  BY <1>1, Taking DEF Sound
<1>4. ASSUME NEW i \in 1 .. Len(timerQ') PROVE kernel'[timerQ'[i].h] # "none"
  <2>1. i + 1 \in 1 .. Len(timerQ) /\ timerQ'[i] = timerQ[i + 1] /\ 1 < i + 1 /\ 1 \in 1 .. Len(timerQ)
    BY <1>1, Taking
  <2>2. timerQ[i + 1].h \in Handle /\ kernel[timerQ[i + 1].h] # "none"
    BY <1>2, <2>1, CommandIs DEF Sound
  <2>3. CASE Head(timerQ).op = "delete"
    <3>1. timerQ[i + 1].h # Head(timerQ).h
      BY <1>1, <2>1, <2>3, Taking DEF Sound
    <3> QED BY <2>1, <2>2, <3>1 DEF TypeOK
  <2>4. CASE Head(timerQ).op # "delete"
    <3>1. Effect(Head(timerQ).op) # "none"
      BY <1>1, <2>4, Taking, CommandIs DEF Effect
    <3> QED BY <2>1, <2>2, <3>1 DEF TypeOK
  <2> QED BY <2>3, <2>4
<1>5. \A i, j \in 1 .. Len(timerQ') :
        i < j /\ timerQ'[i].op = "delete" => timerQ'[j].h # timerQ'[i].h
  BY <1>1, Taking DEF Sound
<1> QED BY <1>3, <1>4, <1>5 DEF Sound
-----------------------------------------------------------------------------
(* Lemmas: what the UWB task has still to do *)

Call == [op : StopSteps \cup DeleteSteps \cup {"start", "closed"}, id : 0 .. 2]

(* The next call and the calls after it, of a task *)
LEMMA Cons ==
    ASSUME NEW S, NEW x \in S, NEW t \in Seq(S)
    PROVE  /\ <<x>> \o t # << >> /\ Head(<<x>> \o t) = x /\ Tail(<<x>> \o t) = t
           /\ <<x>> \o t \in Seq(S)
<1>1. <<x>> \o t \in Seq(S) /\ Len(<<x>> \o t) = Len(t) + 1 /\ Len(t) \in Nat
      /\ (<<x>> \o t)[1] = x /\ \A i \in 1 .. Len(t) : (<<x>> \o t)[i + 1] = t[i]
  OBVIOUS
<1>2. Tail(<<x>> \o t) \in Seq(S) /\ Len(Tail(<<x>> \o t)) = Len(t)
  BY <1>1
<1>3. \A i \in 1 .. Len(t) : Tail(<<x>> \o t)[i] = t[i]
  BY <1>1
<1> QED BY <1>1, <1>2, <1>3

(* Sequences written out, as a first element and a rest *)
LEMMA PairIs ==
    ASSUME NEW S, NEW a \in S, NEW b \in S
    PROVE  <<a, b>> \in Seq(S) /\ <<a, b>> = <<a>> \o <<b>>
<1>1. \A i \in 1 .. 2 : i = 1 \/ i = 2
  OBVIOUS
<1>2. <<a, b>> \in Seq(S) /\ Len(<<a, b>>) = 2 /\ <<a, b>>[1] = a /\ <<a, b>>[2] = b
  OBVIOUS
<1>3. /\ <<a>> \o <<b>> \in Seq(S) /\ Len(<<a>> \o <<b>>) = 2
      /\ (<<a>> \o <<b>>)[1] = a /\ (<<a>> \o <<b>>)[2] = b
  OBVIOUS
<1> QED BY <1>1, <1>2, <1>3, SeqEqual

(* Three calls are one and two. *)
LEMMA TripleIs ==
    ASSUME NEW S, NEW a \in S, NEW b \in S, NEW c \in S
    PROVE  <<a, b, c>> \in Seq(S) /\ <<a, b, c>> = <<a>> \o <<b, c>>
<1>1. \A i \in 1 .. 3 : i = 1 \/ i = 2 \/ i = 3
  OBVIOUS
<1>2. /\ <<a, b, c>> \in Seq(S) /\ Len(<<a, b, c>>) = 3
      /\ <<a, b, c>>[1] = a /\ <<a, b, c>>[2] = b /\ <<a, b, c>>[3] = c
  OBVIOUS
<1>3. <<b, c>> \in Seq(S) /\ Len(<<b, c>>) = 2 /\ <<b, c>>[1] = b /\ <<b, c>>[2] = c
  OBVIOUS
<1>4. /\ Len(<<a>> \o <<b, c>>) = 3 /\ (<<a>> \o <<b, c>>)[1] = a
      /\ \A i \in 1 .. 2 : (<<a>> \o <<b, c>>)[i + 1] = <<b, c>>[i]
      /\ <<a>> \o <<b, c>> \in Seq(S)
  BY <1>3
<1>5. (<<a>> \o <<b, c>>)[2] = b /\ (<<a>> \o <<b, c>>)[3] = c
  BY <1>3, <1>4
<1> QED BY <1>1, <1>2, <1>4, <1>5, SeqEqual

(* The calls are calls, and their sequences are sequences. *)
LEMMA CallTypes ==
    ASSUME TypeOK
    PROVE  /\ \A x \in StopSteps \cup DeleteSteps \cup {"start", "closed"} :
                Op(x, TimerHandle) \in Call /\ Op(x, uwbTimeoutTimerId) \in Call
                /\ Op(x, NoSlot) \in Call /\ Op(x, HalSlot) \in Call /\ Op(x, QuickSlot) \in Call
           /\ StopQuick \in Seq(Call) /\ Start \in Seq(Call) /\ << >> \in Seq(Call)
           /\ LastStop \in Seq(Call) /\ HalDelete \in Seq(Call) /\ HalDown \in Seq(Call)
           /\ \A r \in After : r \in Seq(Call) /\ <<Op("delete", TimerHandle)>> \o r \in Seq(Call)
<1>1. \A x \in StopSteps \cup DeleteSteps \cup {"start", "closed"}, id \in 0 .. 2 : Op(x, id) \in Call
  BY DEF Op, Call
<1>2. {TimerHandle, uwbTimeoutTimerId, NoSlot, HalSlot, QuickSlot} \subseteq 0 .. 2
  BY DEF TypeOK, NoSlot, HalSlot, QuickSlot
<1>3. \A x \in StopSteps \cup DeleteSteps \cup {"start", "closed"} :
        Op(x, TimerHandle) \in Call /\ Op(x, uwbTimeoutTimerId) \in Call
        /\ Op(x, NoSlot) \in Call /\ Op(x, HalSlot) \in Call /\ Op(x, QuickSlot) \in Call
  BY <1>1, <1>2
<1>4. StopQuick \in Seq(Call) /\ Start \in Seq(Call) /\ << >> \in Seq(Call)
  <2>1. \A a, b \in Call : <<a, b>> \in Seq(Call) /\ <<a>> \in Seq(Call)
    OBVIOUS
  <2>2. /\ Op("stop", TimerHandle) \in Call /\ Op("delete", TimerHandle) \in Call
        /\ Op("start", NoSlot) \in Call
    BY <1>3 DEF StopSteps, DeleteSteps
  <2> QED BY <2>1, <2>2 DEF StopQuick, Start
<1>5. LastStop \in Seq(Call)
  BY <1>3, <1>4, Cons DEF LastStop
<1>6. HalDelete \in Seq(Call)
  BY <1>3, <1>5, Cons DEF HalDelete, DeleteSteps
<1>7. HalDown \in Seq(Call)
  BY <1>3, <1>6, Cons DEF HalDown, StopSteps
<1>8. \A r \in After : r \in Seq(Call)
  BY <1>4, <1>7 DEF After
<1>9. \A r \in After : <<Op("delete", TimerHandle)>> \o r \in Seq(Call)
  BY <1>3, <1>8, Cons DEF DeleteSteps
<1> QED BY <1>3, <1>4, <1>5, <1>6, <1>7, <1>8, <1>9

(* What the handlers and the close put on the agenda, as a first call and  *)
(* a rest.                                                                 *)
LEMMA Programs ==
    ASSUME TypeOK
    PROVE  /\ StopQuick = <<Op("stop", TimerHandle)>> \o (<<Op("delete", TimerHandle)>> \o << >>)
           /\ StopQuick \o Start =
                <<Op("stop", TimerHandle)>> \o (<<Op("delete", TimerHandle)>> \o Start)
           /\ StopQuick \o <<Op("stop", uwbTimeoutTimerId), Op("delete", uwbTimeoutTimerId),
                             Op("closed", NoSlot)>> \o StopQuick =
                <<Op("stop", TimerHandle)>> \o (<<Op("delete", TimerHandle)>> \o HalDown)
           /\ Start = <<Op("start", NoSlot)>> \o << >>
<1> DEFINE st == Op("stop", TimerHandle)       de == Op("delete", TimerHandle)
           hs == Op("stop", uwbTimeoutTimerId) hd == Op("delete", uwbTimeoutTimerId)
           cl == Op("closed", NoSlot)          sa == Op("start", NoSlot)
<1>1. /\ st \in Call /\ de \in Call /\ hs \in Call /\ hd \in Call /\ cl \in Call /\ sa \in Call
      /\ LastStop \in Seq(Call) /\ HalDelete \in Seq(Call) /\ HalDown \in Seq(Call)
  BY CallTypes DEF StopSteps, DeleteSteps
<1> HIDE DEF st, de, hs, hd, cl, sa
<1>2. <<st>> \in Seq(Call) /\ <<de>> \in Seq(Call) /\ <<hs>> \in Seq(Call) /\ <<hd>> \in Seq(Call)
      /\ <<cl>> \in Seq(Call) /\ <<sa>> \in Seq(Call) /\ <<hs, hd, cl>> \in Seq(Call)
  BY <1>1
<1>3. <<st, de>> = <<st>> \o <<de>>
  BY <1>1, PairIs
<1>4. <<hs, hd, cl>> = <<hs>> \o (<<hd>> \o <<cl>>)
  <2>1. <<hd, cl>> = <<hd>> \o <<cl>>
    BY <1>1, PairIs
  <2>2. <<hs, hd, cl>> = <<hs>> \o <<hd, cl>>
    BY <1>1, TripleIs
  <2> QED BY <2>1, <2>2
<1>5. <<de>> = <<de>> \o << >> /\ <<sa>> = <<sa>> \o << >>
  BY <1>2, ConcatEmptySeq
<1>6. (<<st>> \o <<de>>) \o <<sa>> = <<st>> \o (<<de>> \o <<sa>>)
  BY <1>2, ConcatAssociative
<1>7. <<hd>> \o <<cl>> \in Seq(Call) /\ <<st>> \o <<de>> \in Seq(Call)
      /\ <<cl>> \o (<<st>> \o <<de>>) \in Seq(Call)
      /\ <<hd>> \o (<<cl>> \o (<<st>> \o <<de>>)) \in Seq(Call)
      /\ <<hs>> \o (<<hd>> \o (<<cl>> \o (<<st>> \o <<de>>))) \in Seq(Call)
  BY <1>2, ConcatProperties
<1>8. (<<hs>> \o (<<hd>> \o <<cl>>)) \o (<<st>> \o <<de>>)
        = <<hs>> \o (<<hd>> \o (<<cl>> \o (<<st>> \o <<de>>)))
  BY <1>2, <1>7, ConcatAssociative
<1>9. <<st, de>> \o <<hs, hd, cl>> \o <<st, de>>
        = <<st>> \o (<<de>> \o (<<hs>> \o (<<hd>> \o (<<cl>> \o (<<st>> \o <<de>>)))))
  <2>1. (<<st, de>> \o <<hs, hd, cl>>) \o <<st, de>> = <<st, de>> \o (<<hs, hd, cl>> \o <<st, de>>)
    BY <1>2, <1>3, <1>7, ConcatAssociative
  <2> QED BY <1>2, <1>3, <1>4, <1>7, <1>8, <2>1, ConcatAssociative
<1> QED BY <1>3, <1>5, <1>6, <1>9 DEF StopQuick, Start, HalDown, HalDelete, LastStop, st, de, hs, hd, cl, sa
-----------------------------------------------------------------------------
(* Lemmas: what each step starts from *)

(* The two users have a slot each. *)
LEMMA Slots ==
    ASSUME TwoSlots
    PROVE  /\ HalSlot \in Slot /\ QuickSlot \in Slot /\ NoSlot \notin Slot /\ HalSlot # QuickSlot
           /\ HalSlot # NoSlot /\ QuickSlot # NoSlot
BY Constants DEF TwoSlots, HalSlot, QuickSlot, Slot, NoSlot

(* A slot whose timer is one is taken, and by whom. *)
LEMMA TakenIs ==
    ASSUME Owned, NEW s \in Slot
    PROVE  /\ Taken(s) => \/ s = HalSlot   /\ apTimerInfo[s].user = "hal"
                          \/ s = QuickSlot /\ apTimerInfo[s].user = "uwb_task"
           /\ Timer(s) \in Handle => Taken(s)
<1>1. 0 \notin Handle
  BY Constants DEF Handle
<1>2. \/ Taken(s) /\ s = HalSlot   /\ apTimerInfo[s].user = "hal"
      \/ Taken(s) /\ s = QuickSlot /\ apTimerInfo[s].user = "uwb_task"
      \/ ~Taken(s) /\ apTimerInfo[s].user = "none" /\ Timer(s) = 0
  BY DEF Owned
<1> QED BY <1>1, <1>2

(* What a task is at tells the call, its id and the calls after it. *)
LEMMA DoingIs ==
    /\ \A x, id, t : Doing(x, id, t) => prog # << >> /\ Head(prog).op = x /\ Id = id /\ Tail(prog) = t
    /\ \A x : AtWork(x) => prog # << >> /\ Head(prog).op = x
BY DEF Doing, Op, Id, AtWork

(* At a stop the UWB task stops its own timer, or the HAL's in the close.  *)
LEMMA StopWork ==
    ASSUME Agenda, NEW x \in StopSteps, AtWork(x)
    PROVE  \/ \E r \in After :
                /\ Rest(r)
                /\ Doing(x, TimerHandle, <<Op("delete", TimerHandle)>> \o r)
                /\ x # "stop" => TimerHandle = QuickSlot
                /\ x = "stop_mark" /\ Taken(QuickSlot) => WillBeQuiet(Timer(QuickSlot))
           \/ Closing /\ Doing(x, HalSlot, HalDelete)
<1>1. prog # << >> /\ Head(prog).op = x /\ x \notin DeleteSteps \cup {"start", "closed"}
  BY DoingIs DEF StopSteps, DeleteSteps
<1>2. ~AtIdle /\ ~AtStart /\ ~AtQuickDelete /\ ~AtHalDelete /\ ~AtClosed
  BY <1>1, DoingIs DEF AtIdle, AtStart, AtQuickDelete, AtHalDelete, AtClosed
<1>3. CASE AtQuickStop
  BY <1>1, <1>3, DoingIs DEF AtQuickStop
<1>4. CASE AtHalStop
  BY <1>1, <1>4, DoingIs DEF AtHalStop
<1> QED BY <1>2, <1>3, <1>4 DEF Agenda

(* At a deletion, likewise. *)
LEMMA DeleteWork ==
    ASSUME Agenda, NEW x \in DeleteSteps, AtWork(x)
    PROVE  \/ \E r \in After :
                /\ Rest(r)
                /\ Doing(x, TimerHandle, r)
                /\ x # "delete" => TimerHandle = QuickSlot
                /\ Taken(QuickSlot) => apTimerInfo[QuickSlot].eState # "running"
           \/ Closing /\ Doing(x, HalSlot, LastStop)
<1>1. prog # << >> /\ Head(prog).op = x /\ x \notin StopSteps \cup {"start", "closed"}
  BY DoingIs DEF StopSteps, DeleteSteps
<1>2. ~AtIdle /\ ~AtStart /\ ~AtQuickStop /\ ~AtHalStop /\ ~AtClosed
  BY <1>1, DoingIs DEF AtIdle, AtStart, AtQuickStop, AtHalStop, AtClosed
<1>3. CASE AtQuickDelete
  BY <1>1, <1>3, DoingIs DEF AtQuickDelete
<1>4. CASE AtHalDelete
  BY <1>1, <1>4, DoingIs DEF AtHalDelete
<1> QED BY <1>2, <1>3, <1>4 DEF Agenda

(* At any other call, or at none, the agenda says which it is. *)
LEMMA OtherWork ==
    ASSUME Agenda
    PROVE  /\ AtWork("start") => AtStart
           /\ AtWork("closed") => AtClosed
           /\ Idle => AtIdle
<1>1. /\ AtQuickStop \/ AtHalStop => prog # << >> /\ Head(prog).op \in StopSteps
      /\ AtQuickDelete \/ AtHalDelete => prog # << >> /\ Head(prog).op \in DeleteSteps
      /\ AtStart => prog # << >> /\ Head(prog).op = "start"
      /\ AtClosed => prog # << >> /\ Head(prog).op = "closed"
      /\ AtIdle => prog = << >>
  BY DoingIs DEF AtQuickStop, AtHalStop, AtQuickDelete, AtHalDelete, AtStart, AtClosed, AtIdle
<1>2. Agenda => AtIdle \/ AtStart \/ (AtQuickStop \/ AtHalStop) \/ (AtQuickDelete \/ AtHalDelete) \/ AtClosed
  BY DEF Agenda
<1>3. {"start", "closed"} \cap (StopSteps \cup DeleteSteps) = {}
  BY DEF StopSteps, DeleteSteps
<1>4. \A x : AtWork(x) => prog # << >> /\ Head(prog).op = x
  BY DoingIs
<1> QED BY <1>1, <1>2, <1>3, <1>4 DEF Idle

(* The call goes on to its next part. *)
LEMMA Goes ==
    ASSUME NEW x, NEW y, NEW id, NEW t \in Seq(Call), Op(y, id) \in Call,
           Doing(x, id, t), prog' = <<Op(y, Id)>> \o Tail(prog)
    PROVE  prog' # << >> /\ Head(prog') = Op(y, id) /\ Tail(prog') = t
<1>1. Id = id /\ Tail(prog) = t
  BY DEF Doing, Id, Op
<1> QED BY <1>1, Cons

(* Who is not about to clear a slot *)
LEMMA NotClearing ==
    /\ \A x : AtWork(x) /\ x # "delete_clear" => \A s : ~Clearing(s)
    /\ Idle => \A s : ~Clearing(s)
<1>1. \A s : Op("delete_clear", s).op = "delete_clear"
  BY DEF Op
<1>2. \A s : Clearing(s) => prog # << >> /\ Head(prog).op = "delete_clear"
  BY <1>1 DEF Clearing
<1> QED BY <1>2, DoingIs DEF Idle

(* What is next after the quick timer's deletion is the same. *)
LEMMA RestKept ==
    ASSUME UNCHANGED <<ids, open, is_resp_pending>>
    PROVE  After' = After /\ \A r : Rest(r) => Rest(r)'
BY DEF ids, After, Rest, HalDown, HalDelete, LastStop, StopQuick, Start, Closing
-----------------------------------------------------------------------------
(* Lemmas: what does not change *)

(* Slots that keep their timers and users keep their owners. *)
LEMMA OwnedKept ==
    ASSUME Owned, UNCHANGED <<TimerHandle, uwbTimeoutTimerId>>, open' => open,
           \A s \in Slot : /\ Taken(s)' = Taken(s) /\ Timer(s)' = Timer(s)
                           /\ apTimerInfo'[s].user = apTimerInfo[s].user,
           TwoSlots
    PROVE  Owned'
BY Slots DEF Owned, Taken, Timer

(* The timers are as they were when only the task has moved. *)
LEMMA TimersKept ==
    ASSUME Timers, UNCHANGED <<apTimerInfo, kernel, timerQ, daemon>>,
           \A s : ~Clearing(s)
    PROVE  Timers'
BY DEF Timers, Sound, Taken, Timer, Live, Quiet, Calm

(* One more command about a slot's timer *)
LEMMA TimersAppend ==
    ASSUME TwoSlots, TypeOK, Owned, Timers, \A s : ~Clearing(s),
           NEW z \in Slot, Taken(z), NEW what \in {"start", "stop", "delete"},
           timerQ' = Append(timerQ, Cmd(what, Timer(z))), UNCHANGED <<kernel, daemon>>,
           \A s \in Slot : Taken(s)' = Taken(s) /\ Timer(s)' = Timer(s),
           apTimerInfo'[QuickSlot].eState = apTimerInfo[QuickSlot].eState,
           what = "delete" => Clearing(z)',
           z = QuickSlot => what # "start"
    PROVE  timerQ' \in Seq(TimerCommand) /\ Timers'
<1> DEFINE c == Cmd(what, Timer(z))
<1>1. Timer(z) \in Handle /\ Live(z) /\ QuickSlot \in Slot /\ HalSlot \in Slot
  BY Slots DEF Timers
<1>2. timerQ \in Seq(TimerCommand) /\ c \in TimerCommand /\ c.h = Timer(z) /\ c.op = what
  BY <1>1 DEF TypeOK, TimerCommand, Cmd
<1> HIDE DEF c
<1>3. timerQ' = Append(timerQ, c) /\ timerQ' \in Seq(TimerCommand)
  BY <1>2, Appended DEF c
<1>4. Sound'
  BY <1>1, <1>2, <1>3, SoundAppend DEF Timers, Live
<1>5. \A s \in Slot : Taken(s) /\ s # z => Timer(s) # Timer(z)
  BY TakenIs DEF Owned
<1>6. ASSUME NEW s \in Slot, Taken(s)' PROVE Timer(s)' \in Handle /\ (Clearing(s)' \/ Live(s)')
  <2>1. Timer(s)' = Timer(s) /\ Timer(s) \in Handle /\ Live(s)
    BY <1>6 DEF Timers
  <2>2. CASE s = z /\ what = "delete"
    BY <2>1, <2>2
  <2>3. CASE ~(s = z /\ what = "delete")
    <3>1. c # Cmd("delete", Timer(s))
      BY <1>2, <1>5, <1>6, <2>3 DEF Cmd
    <3>2. NoneOf(timerQ', Cmd("delete", Timer(s)))
      BY <1>2, <1>3, <2>1, <3>1, AppendedNone DEF Live
    <3> QED BY <2>1, <3>2 DEF Live
  <2> QED BY <2>2, <2>3
<1>7. ASSUME Taken(QuickSlot)', apTimerInfo'[QuickSlot].eState # "running"
      PROVE  Quiet(Timer(QuickSlot))'
  <2> DEFINE h == Timer(QuickSlot)
  <2>1. Taken(QuickSlot) /\ h' = h /\ Quiet(h)
    BY <1>1, <1>7 DEF Timers
  <2>2. c # Cmd("start", h)
    BY <1>1, <1>2, <1>5, <2>1 DEF Cmd
  <2>3. Calm(h) => kernel'[h] # "active" /\ NoneOf(timerQ', Cmd("start", h))
    BY <1>2, <1>3, <2>2, AppendedNone DEF Calm
  <2>4. Stops(timerQ, h) => Stops(timerQ', h)
    BY <1>2, <1>3, <2>2, AppendedStops
  <2> QED BY <2>1, <2>3, <2>4 DEF Quiet, Calm
<1> QED BY <1>3, <1>4, <1>6, <1>7 DEF Timers
-----------------------------------------------------------------------------
(* Lemmas: the calls of the UWB task, step by step *)

(* A step that moves the program only *)
LEMMA OnlyProgram ==
    ASSUME TwoSlots, TypeOK, Owned, Timers, \A s : ~Clearing(s),
           UNCHANGED <<apTimerInfo, kernel, timerQ, daemon, ids>>,
           open' \in BOOLEAN /\ (open' => open), is_resp_pending' \in BOOLEAN,
           posted' \in 0 .. MaxPosted, ext' \in {"idle", "wait", "woken"},
           fault' \in {"none", "handle"}
    PROVE  TypeOK' /\ Owned' /\ Timers'
<1>1. TypeOK'
  BY DEF TypeOK, ids
<1>2. Owned'
  BY OwnedKept DEF ids, Taken, Timer
<1> QED BY <1>1, <1>2, TimersKept

(* The program stands where it stood, when a step of another, or a call    *)
(* that fails, leaves the quick timer as it is or ends it.                 *)
LEMMA AgendaKept ==
    ASSUME Agenda, UNCHANGED <<ids, prog, open, is_resp_pending>>,
           Taken(HalSlot)' => Taken(HalSlot),
           Taken(QuickSlot)' =>
             /\ Taken(QuickSlot) /\ Timer(QuickSlot)' = Timer(QuickSlot)
             /\ apTimerInfo'[QuickSlot].eState = "running" =>
                  apTimerInfo[QuickSlot].eState = "running"
             /\ WillBeQuiet(Timer(QuickSlot)) => WillBeQuiet(Timer(QuickSlot))',
           AtIdle /\ is_resp_pending => posted' > 0 \/ Ticking'
    PROVE  Agenda'
<1>1. After' = After /\ \A r : Rest(r) => Rest(r)'
  BY RestKept DEF ids
<1>2. \A x, id, t : Doing(x, id, t) => Doing(x, id, t)'
  BY DEF Doing
<1>3. /\ LastStop' = LastStop /\ HalDelete' = HalDelete /\ StopQuick' = StopQuick
      /\ TimerHandle' = TimerHandle /\ (Closing => Closing')
  BY DEF ids, LastStop, HalDelete, StopQuick, Closing
<1>4. AtIdle => AtIdle'
  BY DEF AtIdle, ids
<1>5. AtStart => AtStart'
  BY <1>2 DEF AtStart
<1>6. AtQuickStop => AtQuickStop'
  BY <1>1, <1>3 DEF AtQuickStop, Doing
<1>7. AtQuickDelete => AtQuickDelete'
  BY <1>1, <1>3 DEF AtQuickDelete, Doing
<1>8. (AtHalStop => AtHalStop') /\ (AtHalDelete => AtHalDelete') /\ (AtClosed => AtClosed')
  BY <1>3 DEF AtHalStop, AtHalDelete, AtClosed, Doing
<1> QED BY <1>4, <1>5, <1>6, <1>7, <1>8 DEF Agenda

(* A call that fails leaves everything as it is. *)
LEMMA FaultAgenda ==
    ASSUME Agenda, UNCHANGED <<apTimerInfo, kernel, timerQ, ids, prog, open, is_resp_pending, posted>>
    PROVE  Agenda'
<1>1. /\ \A s : Taken(s)' = Taken(s) /\ Timer(s)' = Timer(s)
      /\ \A h : (WillBeQuiet(h) => WillBeQuiet(h)') /\ (Coming(h) => Coming(h)')
  BY DEF Taken, Timer, WillBeQuiet, Calm, Coming
<1>2. AtIdle /\ is_resp_pending => posted' > 0 \/ Ticking'
  BY <1>1 DEF AtIdle, Ticking
<1> QED BY <1>1, <1>2, AgendaKept

(* After a stop of the quick timer its deletion is next, after that of the *)
(* HAL's likewise.                                                         *)
LEMMA StopDone ==
    ASSUME TypeOK, UNCHANGED <<ids, open, is_resp_pending>>, Done,
           NEW x \in StopSteps,
           \/ /\ \E r \in After :
                   Rest(r) /\ Doing(x, TimerHandle, <<Op("delete", TimerHandle)>> \o r)
              /\ Taken(QuickSlot)' => apTimerInfo'[QuickSlot].eState # "running"
           \/ Closing /\ Doing(x, HalSlot, HalDelete)
    PROVE  Agenda'
<1>0. After' = After /\ (\A r : Rest(r) => Rest(r)') /\ TimerHandle' = TimerHandle
  BY RestKept DEF ids
<1>1. CASE /\ \E r \in After :
                Rest(r) /\ Doing(x, TimerHandle, <<Op("delete", TimerHandle)>> \o r)
           /\ Taken(QuickSlot)' => apTimerInfo'[QuickSlot].eState # "running"
  <2>1. PICK r \in After :
          Rest(r) /\ Doing(x, TimerHandle, <<Op("delete", TimerHandle)>> \o r)
    BY <1>1
  <2>2. prog' = <<Op("delete", TimerHandle)>> \o r
    BY <2>1, DoingIs DEF Done
  <2>3. prog' # << >> /\ Head(prog') = Op("delete", TimerHandle) /\ Tail(prog') = r
    BY <2>2, Cons, CallTypes DEF DeleteSteps
  <2>4. Doing("delete", TimerHandle, r)'
    BY <1>0, <2>3 DEF Doing
  <2>5. "delete" \in DeleteSteps
    BY DEF DeleteSteps
  <2> QED BY <1>0, <1>1, <2>1, <2>4, <2>5 DEF Agenda, AtQuickDelete
<1>2. CASE Closing /\ Doing(x, HalSlot, HalDelete)
  <2>1. prog' = <<Op("delete", HalSlot)>> \o LastStop
    BY <1>2, DoingIs DEF Done, HalDelete, Closing
  <2>2. prog' # << >> /\ Head(prog') = Op("delete", HalSlot) /\ Tail(prog') = LastStop
    BY <2>1, Cons, CallTypes DEF DeleteSteps
  <2>3. Closing' /\ LastStop' = LastStop
    BY <1>2 DEF Closing, ids, LastStop, StopQuick
  <2>4. Doing("delete", HalSlot, LastStop)'
    BY <2>2, <2>3 DEF Doing
  <2> QED BY <2>3, <2>4 DEF Agenda, AtHalDelete, DeleteSteps
<1> QED BY <1>1, <1>2

(* After its deletion no quick timer is there, and what was asked next is  *)
(* next; after the HAL's its close goes on.                                *)
LEMMA DeleteDone ==
    ASSUME TypeOK, UNCHANGED <<ids, open, is_resp_pending>>, Done,
           NEW x \in DeleteSteps,
           \/ /\ \E r \in After : Rest(r) /\ Doing(x, TimerHandle, r)
              /\ ~Taken(QuickSlot)'
           \/ /\ Closing /\ Doing(x, HalSlot, LastStop)
              /\ ~Taken(HalSlot)'
    PROVE  Agenda'
<1>0. After' = After /\ (\A r : Rest(r) => Rest(r)') /\ TimerHandle' = TimerHandle
  BY RestKept DEF ids
<1>1. CASE (\E r \in After : Rest(r) /\ Doing(x, TimerHandle, r)) /\ ~Taken(QuickSlot)'
  <2>1. PICK r \in After : Rest(r) /\ Doing(x, TimerHandle, r)
    BY <1>1
  <2>2. prog' = r
    BY <2>1, DoingIs DEF Done
  <2>3. CASE r = << >> /\ ~is_resp_pending /\ (uwbTimeoutTimerId = HalSlot => open)
    BY <1>1, <2>2, <2>3 DEF Agenda, AtIdle, ids
  <2>4. CASE r = Start /\ is_resp_pending /\ open
    <3>1. prog' = <<Op("start", NoSlot)>> \o << >>
      BY <2>2, <2>4, Programs
    <3>2. prog' # << >> /\ Head(prog') = Op("start", NoSlot) /\ Tail(prog') = << >>
      BY <3>1, Cons, CallTypes
    <3> QED BY <1>1, <2>4, <3>2 DEF Agenda, AtStart, Doing
  <2>5. CASE r = HalDown /\ Closing
    <3>1. prog' = <<Op("stop", HalSlot)>> \o HalDelete
      BY <2>2, <2>5 DEF HalDown, Closing
    <3>2. prog' # << >> /\ Head(prog') = Op("stop", HalSlot) /\ Tail(prog') = HalDelete
      BY <3>1, Cons, CallTypes DEF StopSteps
    <3>3. Closing' /\ HalDelete' = HalDelete
      BY <2>5 DEF Closing, ids, HalDelete, LastStop, StopQuick
    <3>4. Doing("stop", HalSlot, HalDelete)'
      BY <3>2, <3>3 DEF Doing
    <3> QED BY <3>3, <3>4 DEF Agenda, AtHalStop, StopSteps
  <2> QED BY <2>1, <2>3, <2>4, <2>5 DEF Rest
<1>2. CASE Closing /\ Doing(x, HalSlot, LastStop) /\ ~Taken(HalSlot)'
  <2>1. prog' = <<Op("closed", NoSlot)>> \o StopQuick
    BY <1>2, DoingIs DEF Done, LastStop
  <2>2. prog' # << >> /\ Head(prog') = Op("closed", NoSlot) /\ Tail(prog') = StopQuick
    BY <2>1, Cons, CallTypes
  <2>3. Closing' /\ StopQuick' = StopQuick
    BY <1>2 DEF Closing, ids, StopQuick
  <2> QED BY <1>2, <2>2, <2>3 DEF Agenda, AtClosed, Doing
<1> QED BY <1>1, <1>2

(* Within a stop, and within a deletion, the call goes on. *)
LEMMA StopGoes ==
    ASSUME TypeOK, UNCHANGED <<ids, open, is_resp_pending>>,
           NEW x \in StopSteps, NEW y \in StopSteps, Then(y),
           \/ /\ \E r \in After :
                   Rest(r) /\ Doing(x, TimerHandle, <<Op("delete", TimerHandle)>> \o r)
              /\ TimerHandle = QuickSlot
              /\ y = "stop_mark" /\ Taken(QuickSlot)' => WillBeQuiet(Timer(QuickSlot))'
           \/ Closing /\ Doing(x, HalSlot, HalDelete)
    PROVE  Agenda'
<1>0. After' = After /\ (\A r : Rest(r) => Rest(r)') /\ TimerHandle' = TimerHandle
  BY RestKept DEF ids
<1>1. CASE /\ \E r \in After :
                Rest(r) /\ Doing(x, TimerHandle, <<Op("delete", TimerHandle)>> \o r)
           /\ TimerHandle = QuickSlot
           /\ y = "stop_mark" /\ Taken(QuickSlot)' => WillBeQuiet(Timer(QuickSlot))'
  <2>1. PICK r \in After :
          Rest(r) /\ Doing(x, TimerHandle, <<Op("delete", TimerHandle)>> \o r)
    BY <1>1
  <2>2. Op(y, TimerHandle) \in Call /\ <<Op("delete", TimerHandle)>> \o r \in Seq(Call)
    BY CallTypes
  <2>3. prog' # << >> /\ Head(prog') = Op(y, TimerHandle)
        /\ Tail(prog') = <<Op("delete", TimerHandle)>> \o r
    BY <2>1, <2>2, Goes DEF Then
  <2>4. Doing(y, TimerHandle, <<Op("delete", TimerHandle)>> \o r)'
    BY <1>0, <2>3 DEF Doing
  <2> QED BY <1>0, <1>1, <2>1, <2>4 DEF Agenda, AtQuickStop
<1>2. CASE Closing /\ Doing(x, HalSlot, HalDelete)
  <2>1. Op(y, HalSlot) \in Call /\ HalDelete \in Seq(Call)
    BY CallTypes
  <2>2. prog' # << >> /\ Head(prog') = Op(y, HalSlot) /\ Tail(prog') = HalDelete
    BY <1>2, <2>1, Goes DEF Then
  <2>3. Closing' /\ HalDelete' = HalDelete
    BY <1>2 DEF Closing, ids, HalDelete, LastStop, StopQuick
  <2> QED BY <2>2, <2>3 DEF Agenda, AtHalStop, Doing
<1> QED BY <1>1, <1>2

(* A deletion goes from its check to its use, and on to the clearing. *)
LEMMA DeleteGoes ==
    ASSUME TypeOK, UNCHANGED <<ids, open, is_resp_pending>>,
           NEW x \in DeleteSteps, NEW y \in DeleteSteps, Then(y),
           \/ /\ \E r \in After : Rest(r) /\ Doing(x, TimerHandle, r)
              /\ TimerHandle = QuickSlot
              /\ Taken(QuickSlot)' => apTimerInfo'[QuickSlot].eState # "running"
           \/ Closing /\ Doing(x, HalSlot, LastStop)
    PROVE  Agenda'
<1>0. After' = After /\ (\A r : Rest(r) => Rest(r)') /\ TimerHandle' = TimerHandle
  BY RestKept DEF ids
<1>1. CASE /\ \E r \in After : Rest(r) /\ Doing(x, TimerHandle, r)
           /\ TimerHandle = QuickSlot
           /\ Taken(QuickSlot)' => apTimerInfo'[QuickSlot].eState # "running"
  <2>1. PICK r \in After : Rest(r) /\ Doing(x, TimerHandle, r)
    BY <1>1
  <2>2. Op(y, TimerHandle) \in Call /\ r \in Seq(Call)
    BY CallTypes
  <2>3. prog' # << >> /\ Head(prog') = Op(y, TimerHandle) /\ Tail(prog') = r
    BY <2>1, <2>2, Goes DEF Then
  <2>4. Doing(y, TimerHandle, r)'
    BY <1>0, <2>3 DEF Doing
  <2> QED BY <1>0, <1>1, <2>1, <2>4 DEF Agenda, AtQuickDelete
<1>2. CASE Closing /\ Doing(x, HalSlot, LastStop)
  <2>1. Op(y, HalSlot) \in Call /\ LastStop \in Seq(Call)
    BY CallTypes
  <2>2. prog' # << >> /\ Head(prog') = Op(y, HalSlot) /\ Tail(prog') = LastStop
    BY <1>2, <2>1, Goes DEF Then
  <2>3. Closing' /\ LastStop' = LastStop
    BY <1>2 DEF Closing, ids, LastStop, StopQuick
  <2> QED BY <2>2, <2>3 DEF Agenda, AtHalDelete, Doing
<1> QED BY <1>1, <1>2

(* The slot whose call is under way *)
LEMMA CallSlot ==
    ASSUME TypeOK, Agenda
    PROVE  \A x \in StopSteps \cup DeleteSteps : AtWork(x) =>
             /\ Id \in {NoSlot, HalSlot, QuickSlot}
             /\ x # "stop" /\ x # "delete" => Id = HalSlot \/ Id = QuickSlot
             /\ Id = HalSlot => Closing
             /\ Id # HalSlot => Id = TimerHandle
<1> SUFFICES ASSUME NEW x \in StopSteps \cup DeleteSteps, AtWork(x)
             PROVE  /\ Id \in {NoSlot, HalSlot, QuickSlot}
                    /\ x # "stop" /\ x # "delete" => Id = HalSlot \/ Id = QuickSlot
                    /\ Id = HalSlot => Closing
                    /\ Id # HalSlot => Id = TimerHandle
  OBVIOUS
<1>0. TimerHandle \in {NoSlot, QuickSlot} /\ HalSlot \notin {NoSlot, QuickSlot}
  BY DEF TypeOK, HalSlot, QuickSlot, NoSlot
<1>1. CASE x \in StopSteps
  <2>1. \/ Id = TimerHandle /\ (x # "stop" => TimerHandle = QuickSlot)
        \/ Id = HalSlot /\ Closing
    BY <1>1, StopWork, DoingIs
  <2> QED BY <1>0, <2>1
<1>2. CASE x \in DeleteSteps
  <2>1. \/ Id = TimerHandle /\ (x # "delete" => TimerHandle = QuickSlot)
        \/ Id = HalSlot /\ Closing
    BY <1>2, DeleteWork, DoingIs
  <2> QED BY <1>0, <2>1
<1> QED BY <1>1, <1>2

(* Past its check, a call is about one of the two slots. *)
LEMMA UseSlot ==
    ASSUME TwoSlots, TypeOK, Agenda,
           NEW x \in StopSteps \cup DeleteSteps, x # "stop", x # "delete", AtWork(x)
    PROVE  /\ Id \in Slot /\ (Id = HalSlot \/ Id = QuickSlot)
           /\ Id = HalSlot => Closing
           /\ Id = QuickSlot => TimerHandle = QuickSlot
<1>1. /\ Id = HalSlot \/ Id = QuickSlot
      /\ Id = HalSlot => Closing
      /\ Id # HalSlot => Id = TimerHandle
  BY CallSlot
<1> QED BY <1>1, Slots
-----------------------------------------------------------------------------
(* phOsalUwb_Timer_Stop *)

(* Each step keeps the invariant: phOsalUwb_Timer_Stop, in three steps *)
LEMMA StopCheckIInv == ASSUME TwoSlots, IInv, StopCheck PROVE IInv'
<1>1. AtWork("stop") /\ "stop" \in StopSteps
  BY DEF StopCheck, StopSteps
<1>2. TypeOK /\ Owned /\ Timers /\ Agenda
  BY DEF IInv
<1>3. TypeOK' /\ Owned' /\ Timers'
  BY <1>1, <1>2, OnlyProgram, NotClearing DEF StopCheck, stack, TypeOK
<1>4. UNCHANGED <<ids, open, is_resp_pending, apTimerInfo>>
  BY DEF StopCheck, stack
<1>5. CASE Running(Id)
  <2>1. Then("stop_use") /\ "stop_use" \in StopSteps /\ Id \in Slot
    BY <1>5 DEF StopCheck, StopSteps, Running, Used
  <2>2. Id # HalSlot => TimerHandle = QuickSlot
    BY <1>1, <1>2, <2>1, CallSlot, Slots DEF TypeOK
  <2>3. \/ /\ \E r \in After :
                Rest(r) /\ Doing("stop", TimerHandle, <<Op("delete", TimerHandle)>> \o r)
           /\ TimerHandle = QuickSlot
        \/ Closing /\ Doing("stop", HalSlot, HalDelete)
    BY <1>1, <1>2, <2>1, <2>2, StopWork, Slots, DoingIs DEF TypeOK
  <2> QED BY <1>1, <1>2, <1>3, <1>4, <2>1, <2>3, StopGoes DEF IInv
<1>6. CASE ~Running(Id)
  <2>1. Done
    BY <1>6 DEF StopCheck
  <2>2. \/ /\ \E r \in After :
                Rest(r) /\ Doing("stop", TimerHandle, <<Op("delete", TimerHandle)>> \o r)
           /\ Taken(QuickSlot) => apTimerInfo[QuickSlot].eState # "running"
        \/ Closing /\ Doing("stop", HalSlot, HalDelete)
    <3>1. CASE \E r \in After :
                 Rest(r) /\ Doing("stop", TimerHandle, <<Op("delete", TimerHandle)>> \o r)
      <4>1. Id = TimerHandle
        BY <3>1, DoingIs
      <4>2. Taken(QuickSlot) => Id = QuickSlot /\ Id \in Slot
        BY <1>2, <4>1, Slots DEF Owned
      <4> QED BY <1>6, <3>1, <4>2 DEF Running, Used, Taken
    <3> QED BY <1>1, <1>2, <3>1, StopWork
  <2>3. (Taken(QuickSlot) => apTimerInfo[QuickSlot].eState # "running")
        => (Taken(QuickSlot)' => apTimerInfo'[QuickSlot].eState # "running")
    BY <1>4 DEF Taken
  <2> QED BY <1>1, <1>2, <1>3, <1>4, <2>1, <2>2, <2>3, StopDone DEF IInv
<1> QED BY <1>5, <1>6

LEMMA StopUseIInv == ASSUME TwoSlots, IInv, StopUse PROVE IInv'
<1>1. AtWork("stop_use") /\ "stop_use" \in StopSteps /\ "stop_mark" \in StopSteps
  BY DEF StopUse, StopSteps
<1>2. TypeOK /\ Owned /\ Timers /\ Agenda /\ \A s : ~Clearing(s)
  BY <1>1, NotClearing DEF IInv
<1>3. UNCHANGED <<ids, open, is_resp_pending, posted, ext, apTimerInfo, kernel, daemon>>
  BY DEF StopUse, stack
<1>4. CASE Dangling(Id) /\ fault' = "handle" /\ UNCHANGED <<timerQ, prog>>
  <2>1. TypeOK' /\ Owned' /\ Timers'
    BY <1>2, <1>3, <1>4, OnlyProgram DEF TypeOK
  <2> QED BY <1>2, <1>3, <1>4, <2>1, FaultAgenda DEF IInv
<1>5. CASE /\ ~Dangling(Id) /\ Command("stop", apTimerInfo[Id].hTimerHandle)
           /\ Then("stop_mark") /\ UNCHANGED fault
  <2>1. Id \in Slot /\ (Id = QuickSlot => TimerHandle = QuickSlot)
    BY <1>1, <1>2, UseSlot
  <2>2. Timer(Id) \in Handle /\ Taken(Id)
    BY <1>2, <1>5, <2>1, TakenIs DEF Dangling, Timer
  <2>3. timerQ' = Append(timerQ, Cmd("stop", Timer(Id)))
    BY <1>5 DEF Command, Cmd, Timer
  <2>4. timerQ' \in Seq(TimerCommand) /\ Timers'
    BY <1>2, <1>3, <2>1, <2>2, <2>3, TimersAppend DEF Taken, Timer
  <2>5. TypeOK'
    BY <1>2, <1>3, <1>5, <2>4 DEF TypeOK, ids
  <2>6. Owned'
    BY <1>2, <1>3, OwnedKept DEF ids, Taken, Timer
  <2>7. Id = QuickSlot => WillBeQuiet(Timer(QuickSlot))'
    <3>1. /\ Cmd("stop", Timer(Id)) \in TimerCommand
          /\ Cmd("stop", Timer(Id)).h = Timer(Id) /\ Cmd("stop", Timer(Id)).op # "start"
      BY <2>2 DEF Cmd, TimerCommand
    <3>2. Stops(timerQ', Timer(Id))
      BY <1>2, <2>3, <3>1, AppendedStops DEF TypeOK
    <3> QED BY <1>3, <3>2 DEF WillBeQuiet, Timer
  <2>8. \/ /\ \E r \in After :
                Rest(r) /\ Doing("stop_use", TimerHandle, <<Op("delete", TimerHandle)>> \o r)
           /\ TimerHandle = QuickSlot /\ Id = QuickSlot
        \/ Closing /\ Doing("stop_use", HalSlot, HalDelete)
    BY <1>1, <1>2, StopWork, DoingIs
  <2> QED BY <1>1, <1>2, <1>3, <1>5, <2>4, <2>5, <2>6, <2>7, <2>8, StopGoes DEF IInv
<1> QED BY <1>4, <1>5 DEF StopUse

LEMMA StopMarkIInv == ASSUME TwoSlots, IInv, StopMark PROVE IInv'
<1>1. AtWork("stop_mark") /\ "stop_mark" \in StopSteps /\ Done
  BY DEF StopMark, StopSteps
<1>2. TypeOK /\ Owned /\ Timers /\ Agenda /\ \A s : ~Clearing(s)
  BY <1>1, NotClearing DEF IInv
<1>3. UNCHANGED <<ids, open, is_resp_pending, posted, ext, kernel, timerQ, daemon, fault>>
  BY DEF StopMark, stack
<1>4. Id \in Slot
  BY <1>1, <1>2, UseSlot
<1>5. apTimerInfo' = [apTimerInfo EXCEPT ![Id] = [apTimerInfo[Id] EXCEPT !.eState = "stopped"]]
  BY DEF StopMark
<1>6. /\ [apTimerInfo[Id] EXCEPT !.eState = "stopped"] \in SlotType
      /\ [apTimerInfo[Id] EXCEPT !.eState = "stopped"].eState = "stopped"
      /\ [apTimerInfo[Id] EXCEPT !.eState = "stopped"].TimerId = apTimerInfo[Id].TimerId
      /\ [apTimerInfo[Id] EXCEPT !.eState = "stopped"].hTimerHandle = apTimerInfo[Id].hTimerHandle
      /\ [apTimerInfo[Id] EXCEPT !.eState = "stopped"].user = apTimerInfo[Id].user
  BY <1>2, <1>4 DEF TypeOK, SlotType
<1>7. /\ apTimerInfo' \in [Slot -> SlotType]
      /\ \A s \in Slot : /\ Taken(s)' = Taken(s) /\ Timer(s)' = Timer(s)
                         /\ apTimerInfo'[s].user = apTimerInfo[s].user
                         /\ apTimerInfo'[s].eState =
                              IF s = Id THEN "stopped" ELSE apTimerInfo[s].eState
  BY <1>2, <1>4, <1>5, <1>6 DEF TypeOK, Taken, Timer
<1>8. TypeOK' /\ Owned'
  BY <1>2, <1>3, <1>7, OwnedKept DEF TypeOK, ids
<1>9. CASE Id = QuickSlot
  <2>1. Taken(QuickSlot) => Quiet(Timer(QuickSlot))
    <3>1. Taken(QuickSlot) => WillBeQuiet(Timer(QuickSlot))
      <4>1. Id # HalSlot
        BY <1>9, Slots
      <4>2. ~Doing("stop_mark", HalSlot, HalDelete)
        BY <4>1, DoingIs
      <4> QED BY <1>1, <1>2, <4>2, StopWork
    <3>2. timerQ = << >> \/ daemon # "ready"
      BY <1>1 DEF AtWork, TaskRuns, DaemonWaits
    <3> QED BY <3>1, <3>2, EmptyStops DEF WillBeQuiet, Quiet
  <2>2. Timers'
    BY <1>2, <1>3, <1>7, <2>1, Slots DEF Timers, Sound, Live, Quiet, Calm
  <2>3. \E r \in After : Rest(r) /\ Doing("stop_mark", TimerHandle, <<Op("delete", TimerHandle)>> \o r)
    <3>1. Id # HalSlot
      BY <1>9, Slots
    <3>2. ~Doing("stop_mark", HalSlot, HalDelete)
      BY <3>1, DoingIs
    <3> QED BY <1>1, <1>2, <3>2, StopWork
  <2>4. apTimerInfo'[QuickSlot].eState # "running"
    BY <1>7, <1>9, <1>4
  <2> QED BY <1>1, <1>2, <1>3, <1>8, <2>2, <2>3, <2>4, StopDone DEF IInv
<1>10. CASE Id # QuickSlot
  <2>1. Timers'
    BY <1>2, <1>3, <1>7, <1>10, Slots DEF Timers, Sound, Live, Quiet, Calm
  <2>2. Closing /\ Doing("stop_mark", HalSlot, HalDelete)
    BY <1>1, <1>2, <1>10, StopWork, DoingIs
  <2> QED BY <1>1, <1>2, <1>3, <1>8, <2>1, <2>2, StopDone DEF IInv
<1> QED BY <1>9, <1>10
-----------------------------------------------------------------------------
(* phOsalUwb_Timer_Delete *)

(* phOsalUwb_Timer_Delete, in three steps *)
LEMMA DeleteCheckIInv == ASSUME TwoSlots, IInv, DeleteCheck PROVE IInv'
<1>1. AtWork("delete") /\ "delete" \in DeleteSteps /\ "delete_use" \in DeleteSteps
  BY DEF DeleteCheck, DeleteSteps
<1>2. TypeOK /\ Owned /\ Timers /\ Agenda
  BY DEF IInv
<1>3. TypeOK' /\ Owned' /\ Timers'
  BY <1>1, <1>2, OnlyProgram, NotClearing DEF DeleteCheck, stack, TypeOK
<1>4. UNCHANGED <<ids, open, is_resp_pending, apTimerInfo>>
  BY DEF DeleteCheck, stack
<1>5. \/ /\ \E r \in After : Rest(r) /\ Doing("delete", TimerHandle, r)
         /\ Taken(QuickSlot) => apTimerInfo[QuickSlot].eState # "running"
         /\ Id = TimerHandle
      \/ Closing /\ Doing("delete", HalSlot, LastStop) /\ Id = HalSlot
  BY <1>1, <1>2, DeleteWork, DoingIs
<1>6. CASE Used(Id)
  <2>1. Then("delete_use") /\ Id \in Slot
    BY <1>6 DEF DeleteCheck, Used
  <2>2. Id = TimerHandle => TimerHandle = QuickSlot
    BY <1>2, <2>1, Slots DEF TypeOK
  <2>3. (Taken(QuickSlot) => apTimerInfo[QuickSlot].eState # "running")
        => (Taken(QuickSlot)' => apTimerInfo'[QuickSlot].eState # "running")
    BY <1>4 DEF Taken
  <2> QED BY <1>1, <1>2, <1>3, <1>4, <1>5, <2>1, <2>2, <2>3, DeleteGoes DEF IInv
<1>7. CASE ~Used(Id)
  <2>1. Done
    BY <1>7 DEF DeleteCheck
  <2>2. (Id = TimerHandle => ~Taken(QuickSlot)') /\ (Id = HalSlot => ~Taken(HalSlot)')
    BY <1>2, <1>4, <1>7, Slots DEF Owned, Used, Taken
  <2> QED BY <1>1, <1>2, <1>3, <1>4, <1>5, <2>1, <2>2, DeleteDone DEF IInv
<1> QED BY <1>6, <1>7

LEMMA DeleteUseIInv == ASSUME TwoSlots, IInv, DeleteUse PROVE IInv'
<1>1. AtWork("delete_use") /\ "delete_use" \in DeleteSteps /\ "delete_clear" \in DeleteSteps
  BY DEF DeleteUse, DeleteSteps
<1>2. TypeOK /\ Owned /\ Timers /\ Agenda /\ \A s : ~Clearing(s)
  BY <1>1, NotClearing DEF IInv
<1>3. UNCHANGED <<ids, open, is_resp_pending, posted, ext, apTimerInfo, kernel, daemon>>
  BY DEF DeleteUse, stack
<1>4. CASE Dangling(Id) /\ fault' = "handle" /\ UNCHANGED <<timerQ, prog>>
  <2>1. TypeOK' /\ Owned' /\ Timers'
    BY <1>2, <1>3, <1>4, OnlyProgram DEF TypeOK
  <2> QED BY <1>2, <1>3, <1>4, <2>1, FaultAgenda DEF IInv
<1>5. CASE /\ ~Dangling(Id) /\ Command("delete", apTimerInfo[Id].hTimerHandle)
           /\ Then("delete_clear") /\ UNCHANGED fault
  <2>1. Id \in Slot /\ (Id = HalSlot \/ Id = QuickSlot)
    BY <1>1, <1>2, UseSlot
  <2>2. Timer(Id) \in Handle /\ Taken(Id)
    BY <1>2, <1>5, <2>1, TakenIs DEF Dangling, Timer
  <2>3. timerQ' = Append(timerQ, Cmd("delete", Timer(Id)))
    BY <1>5 DEF Command, Cmd, Timer
  <2>4. \/ /\ \E r \in After : Rest(r) /\ Doing("delete_use", TimerHandle, r)
           /\ Taken(QuickSlot) => apTimerInfo[QuickSlot].eState # "running"
           /\ TimerHandle = QuickSlot /\ Id = QuickSlot
        \/ Closing /\ Doing("delete_use", HalSlot, LastStop) /\ Id = HalSlot
    BY <1>1, <1>2, DeleteWork, DoingIs
  <2>5. PICK z \in Slot : z = Id
    BY <2>1
  <2>6. timerQ' \in Seq(TimerCommand) /\ Timers'
    <3>1. \E t \in Seq(Call) : Doing("delete_use", z, t)
      BY <1>2, <2>4, <2>5, CallTypes
    <3>2. Op("delete_clear", z) \in Call
      BY <1>1, <1>2, <2>1, <2>5, CallTypes
    <3>3. prog' # << >> /\ Head(prog') = Op("delete_clear", z)
      BY <1>5, <3>1, <3>2, Goes DEF Then
    <3>4. Clearing(z)'
      BY <3>3 DEF Clearing
    <3> QED BY <1>2, <1>3, <2>2, <2>3, <2>5, <3>4, TimersAppend DEF Taken, Timer
  <2>7. TypeOK'
    BY <1>2, <1>3, <1>5, <2>6 DEF TypeOK, ids
  <2>8. Owned'
    BY <1>2, <1>3, OwnedKept DEF ids, Taken, Timer
  <2>9. (Taken(QuickSlot) => apTimerInfo[QuickSlot].eState # "running")
        => (Taken(QuickSlot)' => apTimerInfo'[QuickSlot].eState # "running")
    BY <1>3 DEF Taken
  <2> QED BY <1>1, <1>2, <1>3, <1>5, <2>4, <2>6, <2>7, <2>8, <2>9, DeleteGoes DEF IInv
<1> QED BY <1>4, <1>5 DEF DeleteUse

LEMMA DeleteClearIInv == ASSUME TwoSlots, IInv, DeleteClear PROVE IInv'
<1>1. AtWork("delete_clear") /\ "delete_clear" \in DeleteSteps /\ Done
  BY DEF DeleteClear, DeleteSteps
<1>2. TypeOK /\ Owned /\ Timers /\ Agenda
  BY DEF IInv
<1>3. UNCHANGED <<ids, open, is_resp_pending, posted, ext, kernel, timerQ, daemon, fault>>
  BY DEF DeleteClear, stack
<1>4. Id \in Slot /\ (Id = HalSlot \/ Id = QuickSlot) /\ (Id = HalSlot => Closing)
  BY <1>1, <1>2, UseSlot
<1>5. Empty \in SlotType /\ Empty.TimerId = FALSE /\ Empty.hTimerHandle = 0 /\ Empty.user = "none"
  BY DEF Empty, SlotType
<1>. PICK z \in Slot : z = Id
  BY <1>4
<1>6. /\ apTimerInfo' \in [Slot -> SlotType] /\ apTimerInfo'[z] = Empty
      /\ \A s \in Slot : s # z => apTimerInfo'[s] = apTimerInfo[s]
  BY <1>2, <1>5 DEF DeleteClear, TypeOK
<1>7. ~Taken(z)' /\ \A s \in Slot : s # z => Taken(s)' = Taken(s) /\ Timer(s)' = Timer(s)
  BY <1>5, <1>6 DEF Taken, Timer
<1>8. TypeOK'
  BY <1>2, <1>3, <1>6 DEF TypeOK, ids
<1>9. Owned'
  <2>1. ASSUME NEW s \in Slot
        PROVE  \/ Taken(s)' /\ s = HalSlot   /\ apTimerInfo'[s].user = "hal"
               \/ Taken(s)' /\ s = QuickSlot /\ apTimerInfo'[s].user = "uwb_task"
               \/ ~Taken(s)' /\ apTimerInfo'[s].user = "none" /\ Timer(s)' = 0
    BY <1>2, <1>5, <1>6, <1>7 DEF Owned, Timer, Taken
  <2>2. open' => Taken(HalSlot)'
    BY <1>2, <1>3, <1>4, <1>7, Slots DEF Owned, Closing
  <2> QED BY <1>2, <1>3, <1>4, <1>7, <2>1, <2>2, Slots DEF Owned, ids
<1>10. \A s \in Slot : s # z => ~Clearing(s)
  <2>1. \A s : Op("delete_clear", s).id = s
    BY DEF Op
  <2> QED BY <2>1 DEF Clearing, Id
<1>11. Timers'
  <2>1. Sound'
    BY <1>2, <1>3 DEF Timers, Sound
  <2>2. ASSUME NEW s \in Slot, Taken(s)' PROVE Timer(s)' \in Handle /\ Live(s)'
    <3>1. s # z /\ Timer(s)' = Timer(s) /\ Timer(s) \in Handle /\ Live(s)
      BY <1>2, <1>7, <1>10, <2>2 DEF Timers
    <3> QED BY <1>3, <3>1 DEF Live
  <2>3. Taken(QuickSlot)' /\ apTimerInfo'[QuickSlot].eState # "running" => Quiet(Timer(QuickSlot))'
    <3> SUFFICES ASSUME Taken(QuickSlot)', apTimerInfo'[QuickSlot].eState # "running"
                 PROVE  Quiet(Timer(QuickSlot))'
      OBVIOUS
    <3>1. QuickSlot \in Slot /\ QuickSlot # z
      BY <1>7, Slots
    <3>2. Taken(QuickSlot) /\ Timer(QuickSlot)' = Timer(QuickSlot)
          /\ apTimerInfo[QuickSlot].eState # "running"
      BY <1>6, <1>7, <3>1
    <3>3. Quiet(Timer(QuickSlot))
      BY <1>2, <3>2 DEF Timers
    <3> QED BY <1>3, <3>2, <3>3 DEF Quiet, Calm
  <2> QED BY <2>1, <2>2, <2>3 DEF Timers
<1>12. \/ (\E r \in After : Rest(r) /\ Doing("delete_clear", TimerHandle, r)) /\ ~Taken(QuickSlot)'
       \/ Closing /\ Doing("delete_clear", HalSlot, LastStop) /\ ~Taken(HalSlot)'
  <2>1. \/ (\E r \in After : Rest(r) /\ Doing("delete_clear", TimerHandle, r)) /\ z = QuickSlot
        \/ Closing /\ Doing("delete_clear", HalSlot, LastStop) /\ z = HalSlot
    <3>1. \/ /\ \E r \in After : Rest(r) /\ Doing("delete_clear", TimerHandle, r)
             /\ TimerHandle = QuickSlot
          \/ Closing /\ Doing("delete_clear", HalSlot, LastStop)
      BY <1>1, <1>2, DeleteWork
    <3> QED BY <3>1, DoingIs
  <2>2. (z = QuickSlot => ~Taken(QuickSlot)') /\ (z = HalSlot => ~Taken(HalSlot)')
    BY <1>7 DEF Taken
  <2> QED BY <2>1, <2>2
<1> QED BY <1>1, <1>2, <1>3, <1>8, <1>9, <1>11, <1>12, DeleteDone DEF IInv
-----------------------------------------------------------------------------
(* phOsalUwb_Timer_Create *)

Before == {p \in Nat \X Nat : p[1] < p[2]}

(* A set of numbers that is not empty has a smallest, as First and Fresh need. *)
LEMMA Smallest ==
    ASSUME NEW T \in SUBSET Nat, T # {}
    PROVE  \E m \in T : \A n \in T : m <= n
<1>1. IsWellFoundedOn(Before, Nat)
  BY NatLessThanWellFounded DEF OpToRel, Before
<1>2. PICK m \in T : \A n \in T : <<n, m>> \notin Before
  BY <1>1, WFMin
<1>3. ASSUME NEW n \in T PROVE m <= n
  <2>1. n \in Nat /\ m \in Nat /\ <<n, m>> \notin Before
    BY <1>2
  <2> QED BY <2>1 DEF Before
<1> QED BY <1>3

(* FreeRTOS finds memory for a timer if there is some. *)
LEMMA FreshIsFree == Free # {} => Fresh \in Free
<1>1. Free \in SUBSET Nat
  BY Constants DEF Free, Handle
<1> QED BY <1>1, Smallest DEF Fresh

(* The HAL's timer finds the first slot free, the quick timer the second.  *)
LEMMA FirstSlot ==
    ASSUME TwoSlots, Owned, ~Taken(QuickSlot)
    PROVE  /\ Available # {}
           /\ ~Taken(HalSlot) => First = HalSlot
           /\ Taken(HalSlot) => First = QuickSlot
<1>1. Available \subseteq Nat /\ QuickSlot \in Available /\ HalSlot \in Slot
  BY Constants, Slots DEF Available, Slot, Taken
<1>2. CASE ~Taken(HalSlot)
  <2>1. HalSlot \in Available /\ \A r \in Available : HalSlot <= r
    BY <1>1, <1>2, Constants DEF Available, Slot, Taken, HalSlot
  <2>2. \A s \in Available : (\A r \in Available : s <= r) => s = HalSlot
    BY <1>1, <2>1 DEF HalSlot
  <2>3. First = HalSlot
    BY <2>1, <2>2 DEF First
  <2> QED BY <1>1, <1>2, <2>3
<1>3. CASE Taken(HalSlot)
  <2>1. \A r \in Available : QuickSlot <= r
    BY <1>1, <1>3, Constants DEF Available, Slot, Taken, HalSlot, QuickSlot
  <2>2. \A s \in Available : (\A r \in Available : s <= r) => s = QuickSlot
    BY <1>1, <2>1 DEF QuickSlot
  <2>3. First = QuickSlot
    BY <1>1, <2>1, <2>2 DEF First
  <2> QED BY <1>1, <1>3, <2>3
<1> QED BY <1>2, <1>3

(* A slot's new timer: no other slot has it and no command is about it.    *)
LEMMA CreateSlot ==
    ASSUME TwoSlots, TypeOK, Owned, Timers, \A s : ~Clearing(s), Free # {},
           NEW z \in {HalSlot, QuickSlot}, z = First, ~Taken(z),
           NEW state \in {"idle", "running"}, NEW whose \in {"hal", "uwb_task"},
           Create(state, whose)
    PROVE  /\ Fresh \in Handle
           /\ \A i \in 1 .. Len(timerQ) : timerQ[i].h # Fresh
           /\ \A s \in Slot : Timer(s) # Fresh
           /\ apTimerInfo' \in [Slot -> SlotType]
           /\ \A s \in Slot : s # z => apTimerInfo'[s] = apTimerInfo[s]
           /\ apTimerInfo'[z] = [TimerId |-> TRUE, hTimerHandle |-> Fresh,
                                 eState |-> state, user |-> whose]
           /\ kernel' \in [Handle -> {"none", "dormant", "active"}]
           /\ kernel'[Fresh] = "dormant"
           /\ \A h \in Handle : h # Fresh => kernel'[h] = kernel[h]
<1>1. Fresh \in Handle /\ (\A i \in 1 .. Len(timerQ) : timerQ[i].h # Fresh)
      /\ \A s \in Slot : Timer(s) # Fresh
  BY FreshIsFree DEF Free, Timer
<1>2. [TimerId |-> TRUE, hTimerHandle |-> Fresh, eState |-> state, user |-> whose] \in SlotType
  BY <1>1 DEF SlotType
<1>3. z \in Slot
  BY Slots
<1> QED BY <1>1, <1>2, <1>3 DEF Create, TypeOK

(* uwb_start_quick_timer: the HAL has the first slot, so this has the second. *)
LEMMA StartQuickIInv == ASSUME TwoSlots, IInv, StartQuick PROVE IInv'
<1>1. AtStart /\ Free # {} /\ UNCHANGED <<daemon, stack, uwbTimeoutTimerId>>
  BY OtherWork DEF StartQuick, IInv
<1>0. PICK f \in Handle : f = Fresh
  BY <1>1, FreshIsFree DEF Free
<1>2. TypeOK /\ Owned /\ Timers /\ Agenda /\ \A s : ~Clearing(s)
  BY NotClearing DEF IInv, StartQuick
<1>3. ~Taken(QuickSlot) /\ Taken(HalSlot) /\ open /\ is_resp_pending /\ Tail(prog) = << >>
  BY <1>1, <1>2 DEF AtStart, Owned, Doing
<1>4. Available # {} /\ First = QuickSlot
  BY <1>2, <1>3, FirstSlot
<1>5. /\ Create("running", "uwb_task") /\ TimerHandle' = QuickSlot
      /\ timerQ' = Append(timerQ, Cmd("start", f)) /\ prog' = << >> /\ UNCHANGED fault
  BY <1>0, <1>3, <1>4 DEF StartQuick, Command, Cmd, Done
<1>6. /\ f \in Handle
      /\ \A i \in 1 .. Len(timerQ) : timerQ[i].h # f
      /\ \A s \in Slot : Timer(s) # f
      /\ apTimerInfo' \in [Slot -> SlotType]
      /\ \A s \in Slot : s # QuickSlot => apTimerInfo'[s] = apTimerInfo[s]
      /\ apTimerInfo'[QuickSlot] = [TimerId |-> TRUE, hTimerHandle |-> f,
                                    eState |-> "running", user |-> "uwb_task"]
      /\ kernel' \in [Handle -> {"none", "dormant", "active"}]
      /\ kernel'[f] = "dormant"
      /\ \A h \in Handle : h # f => kernel'[h] = kernel[h]
  BY <1>0, <1>1, <1>2, <1>3, <1>4, <1>5, CreateSlot
<1>61. /\ apTimerInfo'[QuickSlot].TimerId = TRUE /\ apTimerInfo'[QuickSlot].hTimerHandle = f
       /\ apTimerInfo'[QuickSlot].eState = "running" /\ apTimerInfo'[QuickSlot].user = "uwb_task"
  <2>1. apTimerInfo'[QuickSlot] = [TimerId |-> TRUE, hTimerHandle |-> f,
                                   eState |-> "running", user |-> "uwb_task"]
    BY <1>6
  <2> QED BY <2>1
<1>62. \A s \in Slot : s # QuickSlot => apTimerInfo'[s] = apTimerInfo[s]
  BY <1>6
<1>7. PICK c \in TimerCommand : c = Cmd("start", f) /\ c.h = f /\ c.op = "start"
  <2>1. f \in Handle
    BY <1>6
  <2>2. Cmd("start", f) \in TimerCommand /\ Cmd("start", f).h = f /\ Cmd("start", f).op = "start"
    BY <2>1 DEF Cmd, TimerCommand
  <2> QED BY <2>2
<1>70. timerQ \in Seq(TimerCommand) /\ timerQ' = Append(timerQ, c)
  BY <1>2, <1>5, <1>7 DEF TypeOK
<1>71. /\ timerQ' \in Seq(TimerCommand) /\ Len(timerQ) \in Nat /\ Len(timerQ') = Len(timerQ) + 1
       /\ timerQ'[Len(timerQ) + 1] = c
       /\ \A i \in 1 .. Len(timerQ) : timerQ'[i] = timerQ[i] /\ timerQ[i] \in TimerCommand
       /\ \A i \in 1 .. Len(timerQ') : i \in 1 .. Len(timerQ) \/ i = Len(timerQ) + 1
       /\ Len(timerQ) + 1 \in 1 .. Len(timerQ')
  BY <1>70, Appended
<1>72. \A i \in 1 .. Len(timerQ) : timerQ[i].h # f
  BY <1>6
<1>73. \A d : NoneOf(timerQ', d) <=> NoneOf(timerQ, d) /\ c # d
  BY <1>70, AppendedNone
<1>9. TypeOK'
  BY <1>1, <1>2, <1>5, <1>6, <1>71 DEF TypeOK, stack
<1>10. /\ Taken(QuickSlot)' /\ Timer(QuickSlot)' = f
       /\ \A s \in Slot : s # QuickSlot => Taken(s)' = Taken(s) /\ Timer(s)' = Timer(s)
  BY <1>61, <1>62 DEF Taken, Timer
<1>11. Owned'
  <2>1. ASSUME NEW s \in Slot
        PROVE  \/ Taken(s)' /\ s = HalSlot   /\ apTimerInfo'[s].user = "hal"
               \/ Taken(s)' /\ s = QuickSlot /\ apTimerInfo'[s].user = "uwb_task"
               \/ ~Taken(s)' /\ apTimerInfo'[s].user = "none" /\ Timer(s)' = 0
    <3>1. CASE s = QuickSlot
      BY <1>10, <1>61, <3>1
    <3>2. CASE s # QuickSlot
      BY <1>2, <1>6, <1>10, <3>2 DEF Owned
    <3> QED BY <3>1, <3>2
  <2>2. Timer(HalSlot)' # Timer(QuickSlot)' /\ Taken(HalSlot)'
    BY <1>3, <1>6, <1>10, Slots
  <2> QED BY <1>1, <1>2, <1>3, <1>5, <2>1, <2>2 DEF Owned, stack
<1>12. NoneOf(timerQ, Cmd("delete", f)) /\ NoneOf(timerQ', Cmd("delete", f))
  <2>1. NoneOf(timerQ, Cmd("delete", f))
    <3>1. Cmd("delete", f).h = f
      BY DEF Cmd
    <3> QED BY <1>72, <3>1 DEF NoneOf
  <2>2. c # Cmd("delete", f)
    BY <1>7 DEF Cmd
  <2> QED BY <1>73, <2>1, <2>2
<1>13. Sound'
  <2>1. ASSUME NEW i \in 1 .. Len(timerQ') PROVE kernel'[timerQ'[i].h] # "none"
    <3>1. CASE i \in 1 .. Len(timerQ)
      <4>1. timerQ'[i] = timerQ[i] /\ timerQ[i].h \in Handle /\ kernel[timerQ[i].h] # "none"
        BY <1>2, <1>71, <3>1, CommandIs DEF Timers, Sound
      <4> QED BY <1>6, <1>72, <3>1, <4>1
    <3>2. CASE i = Len(timerQ) + 1
      BY <1>6, <1>7, <1>71, <3>2
    <3> QED BY <1>71, <2>1, <3>1, <3>2
  <2>2. ASSUME NEW i \in 1 .. Len(timerQ'), NEW j \in 1 .. Len(timerQ'),
               i < j, timerQ'[i].op = "delete"
        PROVE  timerQ'[j].h # timerQ'[i].h
    <3>1. i \in 1 .. Len(timerQ) /\ timerQ'[i] = timerQ[i]
      BY <1>71, <2>2
    <3>2. CASE j \in 1 .. Len(timerQ)
      BY <1>2, <1>71, <2>2, <3>1, <3>2 DEF Timers, Sound
    <3>3. CASE j = Len(timerQ) + 1
      BY <1>7, <1>71, <1>72, <3>1, <3>3
    <3> QED BY <1>71, <3>2, <3>3
  <2> QED BY <2>1, <2>2 DEF Sound
<1>14. ASSUME NEW s \in Slot, Taken(s)' PROVE Timer(s)' \in Handle /\ Live(s)'
  <2>1. CASE s = QuickSlot
    <3>1. Timer(s)' = f
      BY <1>10, <2>1
    <3> QED BY <1>6, <1>12, <3>1 DEF Live
  <2>2. CASE s # QuickSlot
    <3>1. Timer(s)' = Timer(s) /\ Timer(s) \in Handle /\ Live(s) /\ Timer(s) # f
      BY <1>2, <1>6, <1>10, <1>14, <2>2 DEF Timers
    <3>2. NoneOf(timerQ', Cmd("delete", Timer(s)))
      <4>1. c # Cmd("delete", Timer(s))
        BY <1>7 DEF Cmd
      <4> QED BY <1>73, <3>1, <4>1 DEF Live
    <3> QED BY <1>6, <3>1, <3>2 DEF Live
  <2> QED BY <2>1, <2>2
<1>15. Timers'
  BY <1>13, <1>14, <1>61 DEF Timers
<1>16. Ticking'
  <2>1. \A i \in 1 .. Len(timerQ') : timerQ'[i].h = f => timerQ'[i].op = "start"
    BY <1>7, <1>71, <1>72
  <2>2. \E i \in 1 .. Len(timerQ') : timerQ'[i] = [op |-> "start", h |-> f]
    BY <1>7, <1>71 DEF Cmd
  <2> QED BY <1>10, <2>1, <2>2 DEF Ticking, Coming
<1>17. AtIdle'
  BY <1>1, <1>3, <1>5, <1>16 DEF AtIdle, stack
<1> QED BY <1>9, <1>11, <1>15, <1>17 DEF IInv, Agenda

(* phNxpUciHal_open: no timer exists, so this is the first slot. *)
LEMMA OpenIInv == ASSUME TwoSlots, IInv, Open PROVE IInv'
<1>1. /\ AtIdle /\ ~open /\ Free # {}
      /\ UNCHANGED <<timerQ, daemon, prog, TimerHandle, is_resp_pending, posted, ext>>
  BY OtherWork DEF Open, IInv
<1>0. PICK f \in Handle : f = Fresh
  BY <1>1, FreshIsFree DEF Free
<1>2. TypeOK /\ Owned /\ Timers /\ Agenda /\ \A s : ~Clearing(s)
  <2>1. Idle
    BY DEF Open
  <2> QED BY <2>1, NotClearing DEF IInv
<1>3. ~Taken(HalSlot) /\ ~Taken(QuickSlot) /\ ~is_resp_pending
  BY <1>1, <1>2 DEF AtIdle, Owned
<1>4. Available # {} /\ First = HalSlot
  BY <1>2, <1>3, FirstSlot
<1>5. /\ Create("idle", "hal") /\ uwbTimeoutTimerId' = HalSlot /\ open' = TRUE /\ UNCHANGED fault
  BY <1>4 DEF Open
<1>6. /\ f \in Handle
      /\ \A i \in 1 .. Len(timerQ) : timerQ[i].h # f
      /\ \A s \in Slot : Timer(s) # f
      /\ apTimerInfo' \in [Slot -> SlotType]
      /\ \A s \in Slot : s # HalSlot => apTimerInfo'[s] = apTimerInfo[s]
      /\ apTimerInfo'[HalSlot] = [TimerId |-> TRUE, hTimerHandle |-> f,
                                  eState |-> "idle", user |-> "hal"]
      /\ kernel' \in [Handle -> {"none", "dormant", "active"}]
      /\ kernel'[f] = "dormant"
      /\ \A h \in Handle : h # f => kernel'[h] = kernel[h]
  BY <1>0, <1>1, <1>2, <1>3, <1>4, <1>5, CreateSlot
<1>61. /\ apTimerInfo'[HalSlot].TimerId = TRUE /\ apTimerInfo'[HalSlot].hTimerHandle = f
       /\ apTimerInfo'[HalSlot].eState = "idle" /\ apTimerInfo'[HalSlot].user = "hal"
  BY <1>6
<1>7. TypeOK'
  BY <1>1, <1>2, <1>5, <1>6 DEF TypeOK
<1>8. /\ Taken(HalSlot)' /\ Timer(HalSlot)' = f
      /\ \A s \in Slot : s # HalSlot => Taken(s)' = Taken(s) /\ Timer(s)' = Timer(s)
  BY <1>6, <1>61 DEF Taken, Timer
<1>9. ~Taken(QuickSlot)'
  BY <1>3, <1>8, Slots
<1>10. Owned'
  <2>1. ASSUME NEW s \in Slot
        PROVE  \/ Taken(s)' /\ s = HalSlot   /\ apTimerInfo'[s].user = "hal"
               \/ Taken(s)' /\ s = QuickSlot /\ apTimerInfo'[s].user = "uwb_task"
               \/ ~Taken(s)' /\ apTimerInfo'[s].user = "none" /\ Timer(s)' = 0
    <3>1. CASE s = HalSlot
      BY <1>8, <1>61, <3>1
    <3>2. CASE s # HalSlot
      BY <1>2, <1>6, <1>8, <3>2 DEF Owned
    <3> QED BY <3>1, <3>2
  <2> QED BY <1>5, <1>8, <1>9, <2>1 DEF Owned
<1>11. Sound'
  BY <1>1, <1>2, <1>6, CommandIs DEF Timers, Sound, TypeOK
<1>12. ASSUME NEW s \in Slot, Taken(s)' PROVE Timer(s)' \in Handle /\ Live(s)'
  <2>1. CASE s = HalSlot
    <3>1. Timer(s)' = f
      BY <1>8, <2>1
    <3>2. NoneOf(timerQ, Cmd("delete", f))
      BY <1>6 DEF NoneOf, Cmd
    <3> QED BY <1>1, <1>6, <3>1, <3>2 DEF Live
  <2>2. CASE s # HalSlot
    <3>1. Timer(s)' = Timer(s) /\ Timer(s) \in Handle /\ Live(s) /\ Timer(s) # f
      BY <1>2, <1>6, <1>8, <1>12, <2>2 DEF Timers
    <3> QED BY <1>1, <1>6, <3>1 DEF Live
  <2> QED BY <2>1, <2>2
<1>13. Timers'
  BY <1>9, <1>11, <1>12 DEF Timers
<1>14. AtIdle'
  BY <1>1, <1>3, <1>5, <1>9 DEF AtIdle
<1> QED BY <1>7, <1>10, <1>13, <1>14 DEF IInv, Agenda
-----------------------------------------------------------------------------
(* Lemmas: the handlers of the UWB task, and the close *)

(* A handler that stops the quick timer, and what it does after *)
LEMMA Handler ==
    ASSUME TypeOK, NEW r \in After, UNCHANGED ids, Rest(r)', r \in After',
           prog' = <<Op("stop", TimerHandle)>> \o (<<Op("delete", TimerHandle)>> \o r)
    PROVE  Agenda'
<1>1. TimerHandle' = TimerHandle
  BY DEF ids
<1>2. Op("stop", TimerHandle) \in Call /\ <<Op("delete", TimerHandle)>> \o r \in Seq(Call)
  BY CallTypes DEF StopSteps
<1>3. prog' # << >> /\ Head(prog') = Op("stop", TimerHandle)
      /\ Tail(prog') = <<Op("delete", TimerHandle)>> \o r
  BY <1>2, Cons
<1>4. Doing("stop", TimerHandle, <<Op("delete", TimerHandle)>> \o r)'
  BY <1>1, <1>3 DEF Doing
<1>5. "stop" \in StopSteps /\ "stop" # "stop_mark"
  BY DEF StopSteps
<1> QED BY <1>4, <1>5 DEF Agenda, AtQuickStop

(* What the task has still to do depends on the ids only. *)
LEMMA AfterKept == ASSUME UNCHANGED ids PROVE After' = After /\ HalDown' = HalDown
BY DEF ids, After, HalDown, HalDelete, LastStop, StopQuick, Start

(* A task that is at no call has nothing half done. *)
LEMMA AtIdleIs ==
    ASSUME IInv, Idle
    PROVE  /\ AtIdle /\ TypeOK /\ Owned /\ Timers /\ Agenda /\ \A s : ~Clearing(s)
BY OtherWork, NotClearing DEF IInv

(* The UWB task between its calls: a command, an answer, a timeout, the close *)
LEMMA SendCmdIInv == ASSUME TwoSlots, IInv, SendCmd PROVE IInv'
<1>1. AtIdle /\ TypeOK /\ Owned /\ Timers /\ Agenda /\ \A s : ~Clearing(s)
  BY AtIdleIs DEF SendCmd
<1>2. /\ open /\ ~is_resp_pending /\ is_resp_pending' = TRUE /\ prog' = Start
      /\ UNCHANGED <<apTimerInfo, kernel, timerQ, daemon, ids, open, posted, ext, fault>>
  BY DEF SendCmd
<1>3. TypeOK' /\ Owned' /\ Timers'
  BY <1>1, <1>2, OnlyProgram DEF TypeOK
<1>4. prog' # << >> /\ Head(prog') = Op("start", NoSlot) /\ Tail(prog') = << >>
  <2>1. prog' = <<Op("start", NoSlot)>> \o << >>
    BY <1>1, <1>2, Programs
  <2>2. Op("start", NoSlot) \in Call /\ << >> \in Seq(Call)
    BY <1>1, CallTypes
  <2> QED BY <2>1, <2>2, Cons
<1>5. ~Taken(QuickSlot)'
  BY <1>1, <1>2 DEF AtIdle, Taken
<1>6. AtStart'
  BY <1>2, <1>4, <1>5 DEF AtStart, Doing
<1> QED BY <1>3, <1>6 DEF IInv, Agenda

LEMMA EndExchangeIInv == ASSUME TwoSlots, IInv, EndExchange PROVE IInv'
<1>1. AtIdle /\ TypeOK /\ Owned /\ Timers /\ Agenda /\ \A s : ~Clearing(s)
  BY AtIdleIs DEF EndExchange
<1>2. /\ open /\ is_resp_pending' = FALSE /\ prog' = StopQuick
      /\ UNCHANGED <<apTimerInfo, kernel, timerQ, daemon, ids, open, posted, ext, fault>>
  BY DEF EndExchange
<1>3. TypeOK' /\ Owned' /\ Timers'
  BY <1>1, <1>2, OnlyProgram DEF TypeOK
<1>4. << >> \in After /\ After' = After /\ Rest(<< >>)'
  BY <1>2, AfterKept DEF After, Rest
<1> QED BY <1>1, <1>2, <1>3, <1>4, Handler, Programs DEF IInv

LEMMA TimeoutIInv == ASSUME TwoSlots, IInv, Timeout PROVE IInv'
<1>1. AtIdle /\ TypeOK /\ Owned /\ Timers /\ Agenda /\ \A s : ~Clearing(s)
  BY AtIdleIs DEF Timeout
<1>2. /\ posted > 0 /\ posted' = posted - 1
      /\ UNCHANGED <<apTimerInfo, kernel, timerQ, daemon, ids, open, ext, fault>>
  BY DEF Timeout
<1>3. posted' \in 0 .. MaxPosted /\ is_resp_pending' \in BOOLEAN
  <2>1. posted \in 0 .. MaxPosted
    BY <1>1 DEF TypeOK
  <2>2. posted' \in 0 .. MaxPosted
    BY <1>2, <2>1, Constants
  <2>3. is_resp_pending' \in BOOLEAN
    BY <1>1 DEF TypeOK, Timeout
  <2> QED BY <2>2, <2>3
<1>4. TypeOK' /\ Owned' /\ Timers'
  BY <1>1, <1>2, <1>3, OnlyProgram DEF TypeOK
<1>5. CASE is_resp_pending /\ prog' = StopQuick \o Start /\ UNCHANGED is_resp_pending
  <2>1. Start \in After /\ After' = After /\ Rest(Start)
    BY <1>1, <1>2, <1>5, AfterKept DEF After, Rest, AtIdle
  <2>2. Rest(Start)'
    BY <1>2, <1>5, <2>1, RestKept DEF Start
  <2> QED BY <1>1, <1>2, <1>4, <1>5, <2>1, <2>2, Handler, Programs DEF IInv, Start
<1>6. CASE is_resp_pending' = FALSE /\ prog' = StopQuick
  <2>1. << >> \in After /\ After' = After /\ Rest(<< >>)'
    BY <1>1, <1>2, <1>6, AfterKept DEF After, Rest, AtIdle, ids
  <2> QED BY <1>1, <1>2, <1>4, <1>6, <2>1, Handler, Programs DEF IInv
<1> QED BY <1>5, <1>6 DEF Timeout

LEMMA CloseIInv == ASSUME TwoSlots, IInv, Close PROVE IInv'
<1>1. AtIdle /\ TypeOK /\ Owned /\ Timers /\ Agenda /\ \A s : ~Clearing(s)
  BY AtIdleIs DEF Close
<1>2. /\ open /\ open' = FALSE /\ is_resp_pending' = FALSE
      /\ UNCHANGED <<apTimerInfo, kernel, timerQ, daemon, ids, posted, ext, fault>>
      /\ prog' = StopQuick
                 \o <<Op("stop", uwbTimeoutTimerId), Op("delete", uwbTimeoutTimerId),
                      Op("closed", NoSlot)>>
                 \o StopQuick
  BY DEF Close
<1>3. TypeOK' /\ Owned' /\ Timers'
  BY <1>1, <1>2, OnlyProgram DEF TypeOK
<1>4. uwbTimeoutTimerId = HalSlot /\ Closing'
  BY <1>1, <1>2 DEF Owned, Closing, ids
<1>5. PICK r \in After : r = HalDown
  BY DEF After
<1>6. r \in After' /\ Rest(r)'
  BY <1>2, <1>4, <1>5, AfterKept DEF Rest
<1> QED BY <1>1, <1>2, <1>3, <1>5, <1>6, Handler, Programs DEF IInv

LEMMA ClosedIInv == ASSUME TwoSlots, IInv, Closed PROVE IInv'
<1>1. TypeOK /\ Owned /\ Timers /\ Agenda /\ AtClosed
  BY OtherWork DEF IInv, Closed
<1>2. \A s : ~Clearing(s)
  BY NotClearing DEF Closed
<1>3. /\ uwbTimeoutTimerId' = NoSlot /\ prog' = StopQuick
      /\ UNCHANGED <<apTimerInfo, kernel, timerQ, daemon, TimerHandle, stack, fault>>
  BY <1>1 DEF Closed, Done, AtClosed, Doing
<1>4. TypeOK'
  BY <1>1, <1>3 DEF TypeOK, stack
<1>5. Owned'
  BY <1>1, <1>3, Slots DEF Owned, AtClosed, Taken, Timer, stack
<1>6. Timers'
  BY <1>1, <1>2, <1>3, TimersKept
<1>7. prog' = <<Op("stop", TimerHandle)>> \o (<<Op("delete", TimerHandle)>> \o << >>)
  BY <1>1, <1>3, Programs
<1>8. Op("stop", TimerHandle) \in Call /\ <<Op("delete", TimerHandle)>> \o << >> \in Seq(Call)
  BY <1>1, CallTypes DEF StopSteps, After
<1>9. prog' # << >> /\ Head(prog') = Op("stop", TimerHandle)
      /\ Tail(prog') = <<Op("delete", TimerHandle)>> \o << >>
  BY <1>7, <1>8, Cons
<1>10. Doing("stop", TimerHandle, <<Op("delete", TimerHandle)>> \o << >>)'
  BY <1>3, <1>9 DEF Doing
<1>11. << >> \in After' /\ Rest(<< >>)'
  BY <1>1, <1>3, Slots DEF After, Rest, AtClosed, Closing, stack
<1>12. "stop" \in StopSteps /\ "stop" # "stop_mark"
  BY DEF StopSteps
<1>13. AtQuickStop'
  BY <1>10, <1>11, <1>12 DEF AtQuickStop
<1> QED BY <1>4, <1>5, <1>6, <1>13 DEF IInv, Agenda
-----------------------------------------------------------------------------
(* Lemmas: the extension command, and the daemon *)

(* A command about the HAL's timer is none about the quick timer.          *)
LEMMA HalCommand ==
    ASSUME TwoSlots, TypeOK, Owned, Timers, AtIdle, \A s : ~Clearing(s), Taken(HalSlot),
           NEW what \in {"start", "stop"},
           timerQ' = Append(timerQ, Cmd(what, Timer(HalSlot))),
           NEW state \in {"running", "stopped"},
           apTimerInfo' = [apTimerInfo EXCEPT ![HalSlot].eState = state],
           ext' \in {"idle", "wait", "woken"},
           UNCHANGED <<kernel, daemon, prog, ids, open, is_resp_pending, posted, fault>>
    PROVE  IInv'
<1> DEFINE e == [apTimerInfo[HalSlot] EXCEPT !.eState = state]
<1>1. HalSlot \in Slot /\ QuickSlot \in Slot /\ HalSlot # QuickSlot
  BY Slots
<1>2. /\ e \in SlotType /\ e.TimerId = apTimerInfo[HalSlot].TimerId
      /\ e.hTimerHandle = apTimerInfo[HalSlot].hTimerHandle /\ e.user = apTimerInfo[HalSlot].user
  BY <1>1 DEF TypeOK, SlotType
<1>3. apTimerInfo' = [apTimerInfo EXCEPT ![HalSlot] = e]
  OBVIOUS
<1> HIDE DEF e
<1>4. /\ apTimerInfo' \in [Slot -> SlotType]
      /\ \A s \in Slot : /\ Taken(s)' = Taken(s) /\ Timer(s)' = Timer(s)
                         /\ apTimerInfo'[s].user = apTimerInfo[s].user
      /\ apTimerInfo'[QuickSlot] = apTimerInfo[QuickSlot]
  BY <1>1, <1>2, <1>3 DEF TypeOK, Taken, Timer
<1>5. timerQ' \in Seq(TimerCommand) /\ Timers'
  BY <1>1, <1>4, TimersAppend
<1>6. TypeOK'
  BY <1>4, <1>5 DEF TypeOK, ids
<1>7. Owned'
  BY <1>4, OwnedKept DEF ids
<1>8. Taken(QuickSlot)' = Taken(QuickSlot) /\ Timer(QuickSlot)' = Timer(QuickSlot)
  BY <1>1, <1>4
<1>9. ASSUME Ticking PROVE Ticking'
  <2>1. PICK h \in Handle : h = Timer(HalSlot)
    BY <1>1 DEF Timers
  <2>2. PICK c \in TimerCommand : c = Cmd(what, h) /\ c.h = h
    <3>1. Cmd(what, h) \in TimerCommand /\ Cmd(what, h).h = h
      BY DEF Cmd, TimerCommand
    <3> QED BY <3>1
  <2>3. timerQ \in Seq(TimerCommand) /\ timerQ' = Append(timerQ, c)
    BY <2>1, <2>2 DEF TypeOK
  <2>4. Taken(QuickSlot) /\ Timer(QuickSlot) # h
    BY <1>9, <2>1 DEF Ticking, Owned
  <2>5. /\ Len(timerQ) \in Nat /\ Len(timerQ') = Len(timerQ) + 1 /\ timerQ'[Len(timerQ) + 1] = c
        /\ \A i \in 1 .. Len(timerQ) : timerQ'[i] = timerQ[i]
        /\ \A i \in 1 .. Len(timerQ') : i \in 1 .. Len(timerQ) \/ i = Len(timerQ) + 1
        /\ \A i \in 1 .. Len(timerQ) : i \in 1 .. Len(timerQ')
    BY <2>3, Appended
  <2>6. \A i \in 1 .. Len(timerQ') : timerQ'[i].h = Timer(QuickSlot) => timerQ'[i].op = "start"
    BY <1>9, <2>2, <2>4, <2>5 DEF Ticking
  <2>7. PICK q : q = Timer(QuickSlot)
    OBVIOUS
  <2>8. Coming(q) => Coming(q)'
    BY <2>5 DEF Coming
  <2> QED BY <1>8, <1>9, <2>4, <2>6, <2>7, <2>8 DEF Ticking, Coming
<1>10. AtIdle'
  BY <1>8, <1>9 DEF AtIdle, ids
<1> QED BY <1>5, <1>6, <1>7, <1>10 DEF IInv, Agenda

(* The extension command uses the HAL's slot only. *)
LEMMA StartExtIInv == ASSUME TwoSlots, IInv, StartExt PROVE IInv'
<1>1. AtIdle /\ TypeOK /\ Owned /\ Timers /\ Agenda /\ \A s : ~Clearing(s)
  BY AtIdleIs DEF StartExt
<1>2. uwbTimeoutTimerId = HalSlot /\ Taken(HalSlot)
  BY <1>1 DEF StartExt, Used, Taken, TypeOK, Slot, NoSlot
<1> QED BY <1>1, <1>2, HalCommand DEF StartExt, Command, Cmd, Timer

LEMMA StopExtIInv == ASSUME TwoSlots, IInv, StopExt PROVE IInv'
<1>1. AtIdle /\ TypeOK /\ Owned /\ Timers /\ Agenda /\ \A s : ~Clearing(s)
  BY AtIdleIs DEF StopExt
<1>2. CASE Running(uwbTimeoutTimerId) /\ Command("stop", apTimerInfo[uwbTimeoutTimerId].hTimerHandle)
           /\ apTimerInfo' = [apTimerInfo EXCEPT ![uwbTimeoutTimerId].eState = "stopped"]
  <2>1. uwbTimeoutTimerId = HalSlot /\ Taken(HalSlot)
    BY <1>1, <1>2 DEF Running, Used, Taken, TypeOK, Slot, NoSlot
  <2> QED BY <1>1, <1>2, <2>1, HalCommand DEF StopExt, Command, Cmd, Timer
<1>3. CASE UNCHANGED <<timerQ, apTimerInfo>>
  <2>1. UNCHANGED <<apTimerInfo, kernel, timerQ, daemon, ids, prog, open, is_resp_pending, posted, fault>>
        /\ ext' = "idle"
    BY <1>3 DEF StopExt
  <2>2. TypeOK' /\ Owned' /\ Timers'
    BY <1>1, <2>1, OnlyProgram DEF TypeOK
  <2> QED BY <1>1, <2>1, <2>2, FaultAgenda DEF IInv
<1> QED BY <1>2, <1>3 DEF StopExt

(* A step that leaves every timer, slot and program alone *)
LEMMA ExtAnsweredIInv == ASSUME TwoSlots, IInv, ExtAnswered PROVE IInv'
<1>1. UNCHANGED <<apTimerInfo, kernel, timerQ, daemon, ids, prog, open, is_resp_pending, posted, fault>>
      /\ ext' = "woken"
  BY DEF ExtAnswered
<1>2. TypeOK' /\ Owned'
  BY <1>1, OwnedKept DEF IInv, TypeOK, ids, Taken, Timer
<1>3. Timers'
  BY <1>1 DEF IInv, Timers, Sound, Taken, Timer, Live, Quiet, Calm, Clearing
<1> QED BY <1>1, <1>2, <1>3, FaultAgenda DEF IInv

(* The daemon wakes, and has the commands of its sleep to process first. *)
LEMMA DelayEndsIInv == ASSUME TwoSlots, IInv, DelayEnds PROVE IInv'
<1>1. /\ UNCHANGED <<apTimerInfo, kernel, timerQ, ids, prog, open, is_resp_pending, posted, fault>>
      /\ daemon' = IF timerQ = << >> THEN "ready" ELSE "drain"
      /\ ext' = IF ext = "wait" THEN "woken" ELSE ext
  BY DEF DelayEnds
<1>2. TypeOK' /\ Owned'
  BY <1>1, OwnedKept DEF IInv, TypeOK, ids, Taken, Timer
<1>3. \A h : Quiet(h) => Quiet(h)'
  BY <1>1, EmptyStops DEF Quiet, Calm
<1>4. Timers'
  BY <1>1, <1>3 DEF IInv, Timers, Sound, Taken, Timer, Live, Clearing
<1> QED BY <1>1, <1>2, <1>4, FaultAgenda DEF IInv

(* What the daemon does to a timer: a command to stop it leaves it quiet,  *)
(* and none that is still queued is lost.                                  *)
LEMMA ProcessIInv == ASSUME TwoSlots, IInv, Process PROVE IInv'
<1>1. TypeOK /\ Owned /\ Timers /\ Agenda /\ Sound
  BY DEF IInv, Timers
<1>2. PICK c \in TimerCommand : c = Head(timerQ)
  BY <1>1, Taking DEF Process, TypeOK
<1>3. /\ timerQ # << >> /\ timerQ' = Tail(timerQ) /\ daemon # "delay"
      /\ daemon' = IF Tail(timerQ) = << >> THEN "ready" ELSE "drain"
      /\ UNCHANGED <<apTimerInfo, prog, ids, stack>>
  BY DEF Process
<1>4. timerQ \in Seq(TimerCommand) /\ c.h \in Handle /\ c.op \in {"start", "stop", "delete"}
      /\ c = Cmd(c.op, c.h)
  BY <1>1, CommandIs DEF TypeOK
<1>5. kernel[c.h] # "none"
  BY <1>1, <1>2, <1>3, <1>4, Taking DEF Sound
<1>6. kernel' = [kernel EXCEPT ![c.h] = Effect(c.op)] /\ UNCHANGED fault
  BY <1>2, <1>5 DEF Process
<1>7. Sound'
  BY <1>1, <1>2, <1>3, <1>6, SoundTake
<1>8. Effect(c.op) = IF c.op = "start" THEN "active" ELSE IF c.op = "stop" THEN "dormant" ELSE "none"
  BY <1>4 DEF Effect
<1>9. timerQ' \in Seq(TimerCommand)
  BY <1>3, <1>4, Taking
<1>10. TypeOK'
  BY <1>1, <1>3, <1>4, <1>6, <1>8, <1>9 DEF TypeOK, ids, stack
<1>11. Owned'
  BY <1>1, <1>3, OwnedKept DEF ids, stack, Taken, Timer
<1>12. \A d : NoneOf(timerQ, d) => NoneOf(timerQ', d) /\ c # d
  BY <1>2, <1>3, <1>4, TakenNone
<1>13. ASSUME NEW h \in Handle PROVE (Calm(h) => Calm(h)') /\ (Stops(timerQ, h) => WillBeQuiet(h)')
  <2>1. Calm(h) => Calm(h)'
    <3>1. ASSUME Calm(h) PROVE c # Cmd("start", h)
      BY <1>12, <3>1 DEF Calm
    <3> QED BY <1>1, <1>4, <1>6, <1>8, <1>12, <3>1 DEF Calm, TypeOK
  <2>2. ASSUME Stops(timerQ, h) PROVE WillBeQuiet(h)'
    <3>1. CASE Stops(timerQ', h)
      BY <3>1 DEF WillBeQuiet
    <3>2. CASE c.h = h /\ c.op # "start" /\ NoneOf(timerQ', Cmd("start", h))
      BY <1>1, <1>4, <1>6, <1>8, <3>2 DEF WillBeQuiet, Calm, TypeOK
    <3> QED BY <1>2, <1>3, <1>4, <2>2, <3>1, <3>2, TakenStops
  <2> QED BY <2>1, <2>2
<1>14. ASSUME NEW h \in Handle, Quiet(h) PROVE Quiet(h)'
  <2>1. WillBeQuiet(h)'
    BY <1>13, <1>14 DEF Quiet, WillBeQuiet
  <2>2. daemon' = "ready" => timerQ' = << >>
    BY <1>3
  <2> QED BY <2>1, <2>2, EmptyStops DEF WillBeQuiet, Quiet
<1>15. ASSUME NEW s \in Slot, Taken(s), Live(s), Timer(s) \in Handle PROVE Live(s)'
  <2>1. NoneOf(timerQ', Cmd("delete", Timer(s))) /\ c # Cmd("delete", Timer(s))
    BY <1>12, <1>15 DEF Live
  <2>2. kernel'[Timer(s)] # "none"
    BY <1>1, <1>4, <1>6, <1>8, <1>15, <2>1 DEF Live, TypeOK
  <2>3. Timer(s)' = Timer(s)
    BY <1>3 DEF Timer
  <2> QED BY <2>1, <2>2, <2>3 DEF Live
<1>16. \A s : Taken(s)' = Taken(s) /\ Timer(s)' = Timer(s) /\ (Clearing(s) => Clearing(s)')
  BY <1>3 DEF Taken, Timer, Clearing
<1>17. Timers'
  <2>1. \A s \in Slot : Taken(s)' => Timer(s)' \in Handle /\ (Clearing(s)' \/ Live(s)')
    BY <1>1, <1>15, <1>16 DEF Timers
  <2>2. ASSUME Taken(QuickSlot)', apTimerInfo'[QuickSlot].eState # "running"
        PROVE  Quiet(Timer(QuickSlot))'
    <3>1. PICK h \in Handle : h = Timer(QuickSlot) /\ Quiet(h)
      BY <1>1, <1>3, <1>16, <2>2, Slots DEF Timers
    <3> QED BY <1>14, <1>16, <3>1 DEF Quiet, Calm
  <2> QED BY <1>7, <2>1, <2>2 DEF Timers
<1>18. ASSUME Ticking PROVE Ticking'
  <2>1. PICK h \in Handle : h = Timer(QuickSlot) /\ Coming(h)
    BY <1>1, <1>18, Slots DEF Timers, Ticking
  <2>2. \A i \in 1 .. Len(timerQ) : timerQ[i].h = h => timerQ[i].op = "start"
    BY <1>18, <2>1 DEF Ticking
  <2>3. /\ Len(timerQ) \in Nat /\ Len(timerQ) > 0 /\ Len(timerQ') = Len(timerQ) - 1 /\ timerQ[1] = c
        /\ \A i \in 1 .. Len(timerQ') : timerQ'[i] = timerQ[i + 1] /\ i + 1 \in 1 .. Len(timerQ)
    BY <1>2, <1>3, <1>4, Taking
  <2>4. \A i \in 1 .. Len(timerQ') : timerQ'[i].h = h => timerQ'[i].op = "start"
    BY <2>2, <2>3
  <2>5. c.h = h => c.op = "start"
    BY <2>2, <2>3
  <2>6. Coming(h)'
    <3>1. CASE kernel[h] = "active"
      BY <1>1, <1>4, <1>6, <1>8, <2>5, <3>1 DEF Coming, TypeOK
    <3>2. CASE \E i \in 1 .. Len(timerQ) : timerQ[i] = [op |-> "start", h |-> h]
      <4>1. PICK i \in 1 .. Len(timerQ) : timerQ[i] = [op |-> "start", h |-> h]
        BY <3>2
      <4>2. CASE i = 1
        <5>1. c.h = h /\ c.op = "start"
          BY <2>3, <4>1, <4>2
        <5> QED BY <1>1, <1>6, <1>8, <5>1 DEF Coming, TypeOK
      <4>3. CASE i # 1
        <5>1. i - 1 \in 1 .. Len(timerQ') /\ timerQ'[i - 1] = timerQ[i]
          BY <2>3, <4>3
        <5> QED BY <4>1, <5>1 DEF Coming
      <4> QED BY <4>2, <4>3
    <3> QED BY <2>1, <3>1, <3>2 DEF Coming
  <2> QED BY <1>16, <1>18, <2>1, <2>4, <2>6 DEF Ticking, Coming
<1>19. Taken(QuickSlot)' /\ WillBeQuiet(Timer(QuickSlot)) => WillBeQuiet(Timer(QuickSlot))'
  <2> SUFFICES ASSUME Taken(QuickSlot)', WillBeQuiet(Timer(QuickSlot))
               PROVE  WillBeQuiet(Timer(QuickSlot))'
    OBVIOUS
  <2>1. PICK h \in Handle : h = Timer(QuickSlot) /\ WillBeQuiet(h)
    BY <1>1, <1>16, Slots DEF Timers
  <2>2. WillBeQuiet(h)'
    BY <1>13, <2>1 DEF WillBeQuiet
  <2> QED BY <1>16, <2>1, <2>2 DEF WillBeQuiet, Calm
<1>20. AtIdle /\ is_resp_pending => posted' > 0 \/ Ticking'
  BY <1>3, <1>18 DEF AtIdle, stack
<1>21. Agenda'
  BY <1>1, <1>3, <1>16, <1>19, <1>20, AgendaKept DEF stack
<1> QED BY <1>10, <1>11, <1>17, <1>21 DEF IInv

(* The task that is about to clear the quick timer's slot has stopped the  *)
(* timer before, so the callback does not come between.                    *)
LEMMA NotBetween ==
    ASSUME IInv, Taken(QuickSlot), daemon = "ready", kernel[Timer(QuickSlot)] = "active"
    PROVE  ~Clearing(QuickSlot)
<1> SUFFICES ASSUME Clearing(QuickSlot) PROVE FALSE
  OBVIOUS
<1>1. prog # << >> /\ Head(prog).op = "delete_clear" /\ Id = QuickSlot
  BY DEF Clearing, Op, Id
<1>2. "delete_clear" \notin StopSteps \cup {"start", "closed"}
  BY DEF StopSteps
<1>3. ~AtIdle /\ ~AtStart /\ ~AtClosed /\ ~AtQuickStop /\ ~AtHalStop
  BY <1>1, <1>2, DoingIs DEF AtIdle, AtStart, AtClosed, AtQuickStop, AtHalStop
<1>4. ~AtHalDelete
  BY <1>1, DoingIs DEF AtHalDelete, HalSlot, QuickSlot
<1>5. AtQuickDelete
  BY <1>3, <1>4 DEF IInv, Agenda
<1>6. apTimerInfo[QuickSlot].eState # "running"
  BY <1>5 DEF AtQuickDelete
<1> QED BY <1>6 DEF IInv, Timers, Quiet, Calm

(* quick_timer_callback: the slot is free, the deletion is queued once.    *)
LEMMA QuickExpires ==
    ASSUME TwoSlots, IInv, NEW h \in Handle, Timer(QuickSlot) = h, Taken(QuickSlot),
           daemon = "ready", kernel[h] = "active", kernel' = [kernel EXCEPT ![h] = "dormant"],
           QuickCallback(QuickSlot),
           UNCHANGED <<prog, ids, open, is_resp_pending, ext, fault>>
    PROVE  IInv'
<1>1. TypeOK /\ Owned /\ Timers /\ Agenda /\ Sound /\ QuickSlot \in Slot /\ HalSlot \in Slot
      /\ HalSlot # QuickSlot
  BY Slots DEF IInv, Timers
<1>2. /\ posted < MaxPosted /\ posted' = posted + 1 /\ daemon' = "drain"
      /\ timerQ' = Append(timerQ, Cmd("delete", h))
      /\ apTimerInfo' = [apTimerInfo EXCEPT ![QuickSlot] = Empty]
  BY DEF QuickCallback, Command, Cmd, Timer
<1>3. Live(QuickSlot)
  BY <1>1, NotBetween DEF Timers
<1>4. PICK c \in TimerCommand : c = Cmd("delete", h) /\ c.h = h /\ c.op = "delete"
  <2>1. Cmd("delete", h) \in TimerCommand /\ Cmd("delete", h).h = h /\ Cmd("delete", h).op = "delete"
    BY DEF Cmd, TimerCommand
  <2> QED BY <2>1
<1>5. timerQ \in Seq(TimerCommand) /\ timerQ' = Append(timerQ, c) /\ timerQ' \in Seq(TimerCommand)
  BY <1>1, <1>2, <1>4, Appended DEF TypeOK
<1>6. /\ kernel' \in [Handle -> {"none", "dormant", "active"}]
      /\ \A g \in Handle : (kernel[g] # "none" => kernel'[g] # "none")
                           /\ (g # h => kernel'[g] = kernel[g])
  BY <1>1 DEF TypeOK
<1>7. Sound'
  BY <1>1, <1>3, <1>4, <1>5, <1>6, SoundAppend DEF Live
<1>8. Empty \in SlotType /\ Empty.TimerId = FALSE /\ Empty.hTimerHandle = 0 /\ Empty.user = "none"
  BY DEF Empty, SlotType
<1>9. /\ apTimerInfo' \in [Slot -> SlotType] /\ apTimerInfo'[QuickSlot] = Empty
      /\ \A s \in Slot : s # QuickSlot => apTimerInfo'[s] = apTimerInfo[s]
  BY <1>1, <1>2, <1>8 DEF TypeOK
<1>10. ~Taken(QuickSlot)' /\ \A s \in Slot : s # QuickSlot => Taken(s)' = Taken(s) /\ Timer(s)' = Timer(s)
  BY <1>8, <1>9 DEF Taken, Timer
<1>11. posted' \in 0 .. MaxPosted /\ posted' > 0
  <2>1. posted \in 0 .. MaxPosted
    BY <1>1 DEF TypeOK
  <2> QED BY <1>2, <2>1, Constants
<1>12. TypeOK'
  BY <1>1, <1>2, <1>5, <1>6, <1>9, <1>11 DEF TypeOK, ids
<1>13. Owned'
  <2>1. ASSUME NEW s \in Slot
        PROVE  \/ Taken(s)' /\ s = HalSlot   /\ apTimerInfo'[s].user = "hal"
               \/ Taken(s)' /\ s = QuickSlot /\ apTimerInfo'[s].user = "uwb_task"
               \/ ~Taken(s)' /\ apTimerInfo'[s].user = "none" /\ Timer(s)' = 0
    <3>1. CASE s = QuickSlot
      BY <1>8, <1>9, <1>10, <3>1 DEF Timer
    <3>2. CASE s # QuickSlot
      BY <1>1, <1>9, <1>10, <3>2 DEF Owned
    <3> QED BY <3>1, <3>2
  <2> QED BY <1>1, <1>10, <2>1 DEF Owned, ids
<1>14. ASSUME NEW s \in Slot, Taken(s)' PROVE Timer(s)' \in Handle /\ (Clearing(s)' \/ Live(s)')
  <2>1. s # QuickSlot
    BY <1>10, <1>14
  <2>2. Timer(s)' = Timer(s) /\ Timer(s) \in Handle /\ (Clearing(s) \/ Live(s)) /\ Taken(s)
    BY <1>1, <1>10, <1>14, <2>1 DEF Timers
  <2>3. Clearing(s) => Clearing(s)'
    BY DEF Clearing
  <2>4. ASSUME Live(s) PROVE Live(s)'
    <3>1. s = HalSlot
      BY <1>1, <2>1, <2>2, TakenIs
    <3>2. Timer(s) # h
      BY <1>1, <2>2, <3>1 DEF Owned
    <3>3. c # Cmd("delete", Timer(s))
      BY <1>4, <3>2 DEF Cmd
    <3>4. NoneOf(timerQ', Cmd("delete", Timer(s)))
      BY <1>5, <2>4, <3>3, AppendedNone DEF Live
    <3> QED BY <1>6, <2>2, <2>4, <3>4 DEF Live
  <2> QED BY <2>2, <2>3, <2>4
<1>15. Timers'
  BY <1>7, <1>10, <1>14 DEF Timers
<1>16. Taken(HalSlot)' => Taken(HalSlot)
  BY <1>1, <1>10
<1>17. Agenda'
  BY <1>1, <1>10, <1>11, <1>16, AgendaKept
<1> QED BY <1>12, <1>13, <1>15, <1>17 DEF IInv

(* hal_extns_write_rsp_timeout_cb: the quick timer is as it was.           *)
LEMMA HalExpires ==
    ASSUME TwoSlots, IInv, NEW h \in Handle, Timer(HalSlot) = h, Taken(HalSlot),
           kernel[h] = "active", kernel' = [kernel EXCEPT ![h] = "dormant"],
           ExtCallback(HalSlot),
           UNCHANGED <<prog, ids, open, is_resp_pending, ext, fault>>
    PROVE  IInv'
<1>1. TypeOK /\ Owned /\ Timers /\ Agenda /\ Sound /\ QuickSlot \in Slot /\ HalSlot \in Slot
      /\ HalSlot # QuickSlot
  BY Slots DEF IInv, Timers
<1> DEFINE e == [apTimerInfo[HalSlot] EXCEPT !.eState = "stopped"]
<1>2. /\ apTimerInfo' = [apTimerInfo EXCEPT ![HalSlot] = e]
      /\ daemon' = "delay" /\ UNCHANGED <<timerQ, posted>>
  BY DEF ExtCallback
<1>3. /\ e \in SlotType /\ e.TimerId = apTimerInfo[HalSlot].TimerId
      /\ e.hTimerHandle = apTimerInfo[HalSlot].hTimerHandle /\ e.user = apTimerInfo[HalSlot].user
  BY <1>1 DEF TypeOK, SlotType
<1> HIDE DEF e
<1>4. /\ apTimerInfo' \in [Slot -> SlotType]
      /\ \A s \in Slot : /\ Taken(s)' = Taken(s) /\ Timer(s)' = Timer(s)
                         /\ apTimerInfo'[s].user = apTimerInfo[s].user
      /\ apTimerInfo'[QuickSlot] = apTimerInfo[QuickSlot]
  BY <1>1, <1>2, <1>3 DEF TypeOK, Taken, Timer
<1>5. /\ kernel' \in [Handle -> {"none", "dormant", "active"}]
      /\ \A g \in Handle : (kernel[g] # "none" => kernel'[g] # "none")
                           /\ (g # h => kernel'[g] = kernel[g])
                           /\ (kernel[g] # "active" => kernel'[g] # "active")
  BY <1>1 DEF TypeOK
<1>6. TypeOK'
  BY <1>1, <1>2, <1>4, <1>5 DEF TypeOK, ids
<1>7. Owned'
  BY <1>1, <1>4, OwnedKept DEF ids
<1>8. Sound'
  <2>1. \A i \in 1 .. Len(timerQ) : timerQ[i].h \in Handle
    BY <1>1, CommandIs DEF TypeOK
  <2> QED BY <1>1, <1>2, <1>5, <2>1 DEF Sound
<1>9. \A g \in Handle : (Calm(g) => Calm(g)') /\ (Stops(timerQ, g) => Stops(timerQ, g)')
  BY <1>2, <1>5 DEF Calm, Stops
<1>10. ASSUME NEW s \in Slot, Taken(s)' PROVE Timer(s)' \in Handle /\ (Clearing(s)' \/ Live(s)')
  <2>1. Timer(s)' = Timer(s) /\ Timer(s) \in Handle /\ (Clearing(s) \/ Live(s))
    BY <1>1, <1>4, <1>10 DEF Timers
  <2>2. Clearing(s) => Clearing(s)'
    BY DEF Clearing
  <2>3. Live(s) => Live(s)'
    BY <1>2, <1>5, <2>1 DEF Live
  <2> QED BY <2>1, <2>2, <2>3
<1>11. Taken(QuickSlot)' = Taken(QuickSlot) /\ Timer(QuickSlot)' = Timer(QuickSlot)
  BY <1>1, <1>4
<1>12. ASSUME Taken(QuickSlot)
       PROVE  /\ Quiet(Timer(QuickSlot)) => Quiet(Timer(QuickSlot))'
              /\ WillBeQuiet(Timer(QuickSlot)) => WillBeQuiet(Timer(QuickSlot))'
  <2>1. PICK q \in Handle : q = Timer(QuickSlot)
    BY <1>1, <1>12 DEF Timers
  <2>2. (Quiet(q) => Quiet(q)') /\ (WillBeQuiet(q) => WillBeQuiet(q)')
    BY <1>2, <1>9 DEF Quiet, WillBeQuiet
  <2>3. q = Timer(QuickSlot)'
    BY <1>11, <2>1
  <2> QED BY <2>1, <2>2, <2>3 DEF Quiet, WillBeQuiet, Calm
<1>13. Timers'
  BY <1>1, <1>4, <1>8, <1>10, <1>11, <1>12 DEF Timers
<1>14. ASSUME Ticking PROVE Ticking'
  <2>1. Taken(QuickSlot) /\ Timer(QuickSlot) # h /\ Timer(QuickSlot) \in Handle
    BY <1>1, <1>14 DEF Ticking, Owned, Timers
  <2> QED BY <1>2, <1>5, <1>11, <1>14, <2>1 DEF Ticking, Coming
<1>15. AtIdle /\ is_resp_pending => posted' > 0 \/ Ticking'
  BY <1>2, <1>14 DEF AtIdle
<1>16. Taken(HalSlot)' = Taken(HalSlot)
  BY <1>1, <1>4
<1>17. Agenda'
  BY <1>1, <1>4, <1>11, <1>12, <1>15, <1>16, AgendaKept
<1> QED BY <1>6, <1>7, <1>13, <1>17 DEF IInv

(* phOsalUwb_Timer_Expired: the quick timer's callback, or the HAL's *)
LEMMA ExpireIInv == ASSUME TwoSlots, IInv, NEW h \in Handle, Expire(h) PROVE IInv'
<1>1. /\ daemon = "ready" /\ kernel[h] = "active" /\ kernel' = [kernel EXCEPT ![h] = "dormant"]
      /\ UNCHANGED <<prog, ids, open, is_resp_pending, ext, fault>>
  BY DEF Expire
<1>2. PICK s \in Slot :
        /\ Timer(s) = h
        /\ \/ apTimerInfo[s].user = "uwb_task" /\ QuickCallback(s)
           \/ apTimerInfo[s].user = "hal" /\ ExtCallback(s)
  BY DEF Expire, Timer
<1>3. Taken(s) /\ (s = HalSlot \/ s = QuickSlot)
      /\ (s = HalSlot => apTimerInfo[s].user = "hal")
      /\ (s = QuickSlot => apTimerInfo[s].user = "uwb_task")
  BY <1>2, TakenIs, Slots DEF IInv
<1>4. CASE s = QuickSlot
  BY <1>1, <1>2, <1>3, <1>4, QuickExpires
<1>5. CASE s = HalSlot
  BY <1>1, <1>2, <1>3, <1>5, HalExpires
<1> QED BY <1>3, <1>4, <1>5
-----------------------------------------------------------------------------
(* The invariant *)

(* At the start there is no timer at all. *)
LEMMA InitIInv == ASSUME TwoSlots, Init PROVE IInv
<1>1. Empty \in SlotType /\ Empty.TimerId = FALSE /\ Empty.hTimerHandle = 0 /\ Empty.user = "none"
  BY DEF Empty, SlotType
<1>2. TypeOK
  <2>1. apTimerInfo \in [Slot -> SlotType]
    BY <1>1 DEF Init
  <2>2. kernel \in [Handle -> {"none", "dormant", "active"}]
    BY DEF Init
  <2>3. timerQ \in Seq(TimerCommand)
    BY DEF Init
  <2>4. posted \in 0 .. MaxPosted
    BY Constants DEF Init
  <2>5. /\ daemon \in {"ready", "drain", "delay"} /\ ext \in {"idle", "wait", "woken"}
        /\ fault \in {"none", "handle"}
        /\ TimerHandle \in {NoSlot, QuickSlot} /\ uwbTimeoutTimerId \in {NoSlot, HalSlot}
        /\ open \in BOOLEAN /\ is_resp_pending \in BOOLEAN
    BY DEF Init
  <2> QED BY <2>1, <2>2, <2>3, <2>4, <2>5 DEF TypeOK
<1>3. \A s \in Slot : ~Taken(s) /\ apTimerInfo[s].user = "none" /\ Timer(s) = 0
  BY <1>1 DEF Init, Taken, Timer
<1>4. Owned
  BY <1>3, Slots DEF Init, Owned
<1>5. Timers
  BY <1>3, Slots DEF Init, Timers, Sound
<1>6. AtIdle
  BY <1>3, Slots DEF Init, AtIdle
<1> QED BY <1>2, <1>4, <1>5, <1>6 DEF IInv, Agenda

(* A stuttering step keeps everything. *)
LEMMA StutterIInv == ASSUME TwoSlots, IInv, UNCHANGED vars PROVE IInv'
<1>1. UNCHANGED <<apTimerInfo, kernel, timerQ, daemon, prog, ids, open, is_resp_pending, posted, ext, fault>>
  BY DEF vars, stack
<1>2. TypeOK' /\ Owned'
  BY <1>1, OwnedKept DEF IInv, TypeOK, ids, Taken, Timer
<1>3. Timers'
  BY <1>1 DEF IInv, Timers, Sound, Taken, Timer, Live, Quiet, Calm, Clearing
<1> QED BY <1>1, <1>2, <1>3, FaultAgenda DEF IInv

(* Every step keeps the invariant. *)
LEMMA NextIInv == ASSUME TwoSlots, IInv, [Next]_vars PROVE IInv'
<1>1. CASE UwbTask
  BY <1>1, StopCheckIInv, StopUseIInv, StopMarkIInv, DeleteCheckIInv, DeleteUseIInv,
     DeleteClearIInv, StartQuickIInv, SendCmdIInv, EndExchangeIInv, TimeoutIInv,
     OpenIInv, CloseIInv, ClosedIInv DEF UwbTask
<1>2. CASE ExtCommand
  BY <1>2, StartExtIInv, ExtAnsweredIInv, StopExtIInv DEF ExtCommand
<1>3. CASE Daemon
  BY <1>3, ExpireIInv, DelayEndsIInv, ProcessIInv DEF Daemon
<1> QED BY <1>1, <1>2, <1>3, StutterIInv DEF Next

(* So the invariant always holds. *)
LEMMA Invariant == ASSUME TwoSlots PROVE Spec => []IInv
<1>1. Init => IInv
  BY InitIInv
<1>2. IInv /\ [Next]_vars => IInv'
  BY NextIInv
<1> QED BY <1>1, <1>2, PTL DEF Spec

(* Create always finds a slot, and no command that reaches the daemon is   *)
(* about a timer it has freed (phOsalUwb_Timer_FreeRTOS.c:29).             *)
THEOREM TwoTimersSuffice == ASSUME TwoSlots PROVE Spec => []PoolSuffices
<1>1. IInv => PoolSuffices
  BY DEF IInv, TypeOK, PoolSuffices
<1> QED BY <1>1, Invariant, PTL

(* uwb_stop_quick_timer never stops or deletes the HAL's timer, whatever   *)
(* has become of the id it uses (uwb_task.c:84).                           *)
THEOREM OwnTimerOnly == ASSUME TwoSlots PROVE Spec => []OnlyOwnTimer
<1>1. ASSUME TwoSlots, IInv PROVE OnlyOwnTimer
  <2> SUFFICES ASSUME prog # << >>, Head(prog).op \in {"stop_use", "delete_use"}
               PROVE  /\ Id = uwbTimeoutTimerId \/ apTimerInfo[Id].user # "hal"
                      /\ open => apTimerInfo[Id].user # "hal"
    BY DEF OnlyOwnTimer
  <2>1. QuickSlot \in Slot /\ apTimerInfo[QuickSlot].user # "hal"
    BY <1>1, Slots DEF IInv, Owned
  <2>2. Agenda /\ {"stop_use", "delete_use"} \cap {"start", "closed", "stop", "delete"} = {}
    BY <1>1 DEF IInv
  <2>3. ~AtIdle /\ ~AtStart /\ ~AtClosed
    BY <2>2, DoingIs DEF AtIdle, AtStart, AtClosed
  <2>4. CASE AtQuickStop \/ AtQuickDelete
    <3>1. Id = QuickSlot
      BY <2>2, <2>4, DoingIs DEF AtQuickStop, AtQuickDelete
    <3> QED BY <2>1, <3>1
  <2>5. CASE AtHalStop \/ AtHalDelete
    BY <2>5, DoingIs DEF AtHalStop, AtHalDelete, Closing
  <2> QED BY <2>2, <2>3, <2>4, <2>5 DEF Agenda
<1>2. TwoSlots => (IInv => OnlyOwnTimer)
  BY <1>1
<1> QED BY <1>2, Invariant, PTL

(* A command in flight has its timer started or about to be, or its        *)
(* timeout in the mailbox (uwb_start_quick_timer, uwb_task.c).             *)
THEOREM CommandWatched == ASSUME TwoSlots PROVE Spec => []Watched
<1>1. ASSUME TwoSlots, IInv PROVE Watched
  <2> SUFFICES ASSUME is_resp_pending, prog = << >>
               PROVE  \/ posted > 0
                      \/ /\ Used(TimerHandle)
                         /\ apTimerInfo[TimerHandle].user = "uwb_task"
                         /\ Coming(apTimerInfo[TimerHandle].hTimerHandle)
    BY DEF Watched
  <2>1. AtIdle
    BY <1>1 DEF IInv, Agenda, AtIdle, AtStart, AtQuickStop, AtQuickDelete, AtHalStop,
                AtHalDelete, AtClosed, Doing
  <2>2. CASE Ticking
    <3>1. TimerHandle = QuickSlot /\ QuickSlot \in Slot /\ HalSlot # QuickSlot
      BY <1>1, <2>2, Slots DEF IInv, Owned, Ticking
    <3>2. apTimerInfo[QuickSlot].user = "uwb_task"
      BY <1>1, <2>2, <3>1, TakenIs DEF IInv, Ticking
    <3> QED BY <2>2, <3>1, <3>2 DEF Ticking, Used, Taken, Timer
  <2> QED BY <2>1, <2>2 DEF AtIdle
<1>2. TwoSlots => (IInv => Watched)
  BY <1>1
<1> QED BY <1>2, Invariant, PTL

(* With no command in flight the quick timer has no slot: the next open    *)
(* and the next command find one (uwb_stop_quick_timer, uwb_task.c).       *)
THEOREM NothingLeftOver == ASSUME TwoSlots PROVE Spec => []NoLeftover
<1>1. ASSUME TwoSlots, IInv PROVE NoLeftover
  <2> SUFFICES ASSUME ~is_resp_pending, prog = << >>, NEW s \in Slot
               PROVE  apTimerInfo[s].user # "uwb_task"
    BY DEF NoLeftover
  <2>1. AtIdle
    BY <1>1 DEF IInv, Agenda, AtIdle, AtStart, AtQuickStop, AtQuickDelete, AtHalStop,
                AtHalDelete, AtClosed, Doing
  <2>2. ~Taken(QuickSlot)
    BY <2>1 DEF AtIdle
  <2> QED BY <1>1, <2>2 DEF IInv, Owned
<1>2. TwoSlots => (IInv => NoLeftover)
  BY <1>1
<1> QED BY <1>2, Invariant, PTL
===============================================================================
