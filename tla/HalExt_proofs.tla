---------------------------- MODULE HalExt_proofs ----------------------------
(***************************************************************************)
(* The extension commands of the HAL, for any number of attempts, commands,*)
(* losses and failed calls: as long as no answer and no timer outlives the *)
(* wait for it, an attempt is in one place at a time, with the controller, *)
(* the client thread, the timer's callback or on the semaphore, so nobody  *)
(* writes a status another has still to read.                              *)
(***************************************************************************)
EXTENDS HalExt, TLAPS

Finals == {"SUCCESS", "FAILED"}
Place  == {"none", "controller", "client", "callback", "semaphore"}
Exits  == {"loop", "semaphore", "write", "start", "wait", "stop"}
Record == [ok : BOOLEAN, tries : Nat, exit : Exits]

(* The status is final exactly when the controller has said so. *)
Truthful == \A f \in Finals : status = f <=> Told(cmd, f)

(* The controller has said nothing final of the present command. *)
Open == \A f \in Finals : ~Told(cmd, f)

(* The attempt is at p, and nowhere else. *)
At(p) ==
    /\ written = IF p = "controller" THEN <<cmd>> ELSE << >>
    /\ client = IF p = "client" THEN "posts" ELSE "reads"
    /\ callback = IF p = "callback" THEN "delay" ELSE "none"
    /\ sem = "1" <=> p = "semaphore"
    /\ p \in {"client", "semaphore"} => Truthful
    /\ p = "callback" => status = "TIMEOUT"
    /\ p \in {"none", "controller", "callback"} /\ app \in {"sent", "wait"} => Open
    /\ p \in {"controller", "client", "semaphore"} => app \in {"sent", "wait"}
    /\ p = "callback" => app = "wait"

Shape ==
    /\ app \in {"idle", "unsent", "sent", "wait", "check", "again", "result"}
    /\ cmd \in Nat
    /\ ext_cmd_retry_cnt \in 0 .. MAX_RETRY_COUNT
    /\ app = "again" => ext_cmd_retry_cnt < MAX_RETRY_COUNT
    /\ sem = "null" <=> app = "idle"
    /\ hal_ext_enabled <=> app # "idle"
    /\ hal_ext_enabled \in BOOLEAN
    /\ returned \in Seq(Record)
    /\ cmd = IF app = "idle" THEN Len(returned) ELSE Len(returned) + 1

(* The loop goes on for as many attempts as there are, and what it ends    *)
(* with is final, or the last attempt's.  No later command has an answer.  *)
Loop ==
    /\ status \in Finals \cup {"TIMEOUT", "COMMAND_RETRY"}
    /\ \A a \in answers : a.cmd \in 0 .. cmd
    /\ app \in {"check", "result"} => Truthful
    /\ app \in {"again", "unsent"} => Open
    /\ app = "result" => \/ status \in Finals
                         \/ ext_cmd_retry_cnt = MAX_RETRY_COUNT

Orderly == \E p \in Place : At(p)

Promises == OkMeansAnswered /\ FailureIsReal /\ KeptFromCore

IInv == Shape /\ (~late => Orderly /\ Loop /\ Promises)

(* No command yet: the attempt is nowhere. *)
LEMMA InitIInv == Init => IInv
<1> SUFFICES ASSUME Init PROVE IInv
  OBVIOUS
<1>1. Shape
  <2>1. ext_cmd_retry_cnt \in 0 .. MAX_RETRY_COUNT
    BY HalExtAssumption DEF Init
  <2>2. returned \in Seq(Record) /\ Len(returned) = 0
    BY DEF Init
  <2>3. cmd = 0 /\ app = "idle" /\ sem = "null" /\ hal_ext_enabled = FALSE
    BY DEF Init
  <2> QED BY <2>1, <2>2, <2>3 DEF Shape
<1>2. At("none")
  BY DEF Init, At
<1>3. Loop /\ Promises
  BY DEF Init, Finals, Loop, Promises, OkMeansAnswered, FailureIsReal, KeptFromCore
<1> QED BY <1>1, <1>2, <1>3 DEF IInv, Orderly, Place

(* What a step that ends no command and hands nothing up keeps: an answer  *)
(* of the present command changes nothing that has been returned.          *)
LEMMA PromisesKept ==
  ASSUME Promises, ~late, UNCHANGED <<returned, passedUp>>, answers \subseteq answers',
         \A a \in answers' \ answers : a.cmd \notin 1 .. Len(returned)
  PROVE  Promises'
<1>1. \A c \in 1 .. Len(returned), f \in Finals : Told(c, f)' <=> Told(c, f)
  BY DEF Told
<1> QED BY <1>1 DEF Promises, OkMeansAnswered, FailureIsReal, KeptFromCore, Finals

(* The application takes the attempt further, or it has been nowhere yet. *)
LEMMA SendIInv == ASSUME IInv, Send PROVE IInv'
<1>1. Shape'
  <2>1. CASE app = "idle"
    BY <2>1, HalExtAssumption DEF Send, Begin, Attempts, IInv, Shape
  <2>2. CASE app = "again"
    BY <2>2, HalExtAssumption DEF Send, Begin, Attempts, IInv, Shape
  <2> QED BY <2>1, <2>2 DEF Send, Begin
<1>2. ASSUME ~late' PROVE Orderly' /\ Loop' /\ Promises'
  <2>1. ~late /\ At("none") /\ Loop /\ Shape
    BY <1>2 DEF Send, Begin, ghosts, IInv, Orderly, At, Place
  <2>2. answers' = answers /\ passedUp' = passedUp /\ returned' = returned
    BY DEF Send, ghosts
  <2>3. Open'
    <3>1. CASE app = "idle"
      <4>1. cmd' \notin 0 .. cmd
        BY <2>1, <3>1 DEF Send, Begin, Shape
      <4>2. \A f : [cmd |-> cmd', says |-> f] \notin answers
        BY <2>1, <4>1 DEF Loop
      <4> QED BY <2>2, <4>2 DEF Open, Told
    <3>2. CASE app = "again"
      BY <2>1, <2>2, <3>2 DEF Send, Begin, Loop, Open, Told
    <3> QED BY <3>1, <3>2 DEF Send, Begin
  <2>4. Orderly'
    <3>1. CASE app' = "sent"
      <4>1. written' = <<cmd'>> /\ sem' # "1"
        BY <2>1, <3>1 DEF Send, Begin, At
      <4>2. At("controller")'
        BY <2>1, <2>3, <3>1, <4>1 DEF Send, At
      <4> QED BY <4>2 DEF Orderly, Place
    <3>2. CASE app' = "unsent"
      <4>1. written' = written /\ sem' # "1"
        BY <2>1, <3>2 DEF Send, Begin, At
      <4>2. At("none")'
        BY <2>1, <3>2, <4>1 DEF Send, At
      <4> QED BY <4>2 DEF Orderly, Place
    <3> QED BY <3>1, <3>2 DEF Send
  <2>5. Loop'
    <3>1. cmd' \in Nat /\ cmd <= cmd' /\ cmd \in Nat
      BY <2>1 DEF Send, Begin, Shape
    <3>2. \A a \in answers' : a.cmd \in 0 .. cmd'
      BY <2>1, <2>2, <3>1 DEF Loop
    <3>3. status' \in Finals /\ app' \in {"sent", "unsent"}
      BY DEF Send, Begin, Finals
    <3> QED BY <2>3, <3>2, <3>3 DEF Loop
  <2>6. Promises'
    BY <2>1, <1>2, <2>2, PromisesKept DEF IInv
  <2> QED BY <2>4, <2>5, <2>6
<1> QED BY <1>1, <1>2 DEF IInv

(* The timer is none of the places. *)
LEMMA StartTimerIInv == ASSUME IInv, StartTimer PROVE IInv'
<1>1. Shape'
  BY DEF StartTimer, command, IInv, Shape
<1>2. ASSUME ~late' PROVE Orderly' /\ Loop' /\ Promises'
  <2>1. PICK p \in Place : At(p)
    BY <1>2 DEF StartTimer, ghosts, IInv, Orderly
  <2>2. At(p)'
    BY <2>1 DEF StartTimer, command, remote, ghosts, At, Truthful, Open, Told
  <2>3. Loop'
    BY <1>2 DEF StartTimer, command, ghosts, IInv, Loop
  <2>4. Promises'
    BY <1>2, PromisesKept DEF StartTimer, command, ghosts, IInv
  <2> QED BY <2>2, <2>3, <2>4 DEF Orderly
<1> QED BY <1>1, <1>2 DEF IInv

(* The application takes the attempt from the semaphore. *)
LEMMA WakeIInv == ASSUME IInv, Wake PROVE IInv'
<1>1. Shape'
  BY DEF Wake, command, IInv, Shape
<1>2. ASSUME ~late' PROVE Orderly' /\ Loop' /\ Promises'
  <2>1. At("semaphore")
    BY <1>2 DEF Wake, ghosts, IInv, Orderly, At
  <2>2. At("none")'
    BY <2>1 DEF Wake, remote, command, At
  <2>3. Truthful'
    BY <2>1 DEF Wake, command, ghosts, At, Truthful, Told
  <2>4. Loop'
    BY <1>2, <2>3 DEF Wake, IInv, command, ghosts, Loop
  <2>5. Promises'
    BY <1>2, PromisesKept DEF Wake, command, ghosts, IInv
  <2> QED BY <2>2, <2>4, <2>5 DEF Orderly, Place
<1> QED BY <1>1, <1>2 DEF IInv

(* An application that is not waiting has the attempt to itself. *)
LEMMA CheckIInv == ASSUME IInv, Check PROVE IInv'
<1>1. Shape'
  BY DEF Check, command, IInv, Shape
<1>2. ASSUME ~late' PROVE Orderly' /\ Loop' /\ Promises'
  <2>1. At("none") /\ Loop /\ Shape
    BY <1>2 DEF Check, ghosts, IInv, Orderly, At, Place
  <2>2. At("none")'
    BY <2>1 DEF Check, remote, command, At
  <2>3. Loop'
    <3>1. Truthful'
      BY <2>1 DEF Check, command, ghosts, Loop, Truthful, Told
    <3>2. app' = "again" => Open'
      BY <3>1 DEF Check, Truthful, Open, Finals
    <3>3. app' = "result" => status \in Finals \/ ext_cmd_retry_cnt = MAX_RETRY_COUNT
      BY <2>1, HalExtAssumption DEF Check, Shape, Loop, Finals
    <3> QED BY <2>1, <3>1, <3>2, <3>3 DEF Check, command, ghosts, Loop
  <2>4. Promises'
    BY <1>2, PromisesKept DEF Check, command, ghosts, IInv
  <2> QED BY <2>2, <2>3, <2>4 DEF Orderly, Place
<1> QED BY <1>1, <1>2 DEF IInv

(* What command c may return. *)
Justified(c, r) ==
    /\ r.ok => \/ Told(c, "SUCCESS")
               \/ r.exit = "wait"
               \/ r.exit = "write" /\ r.tries > 0
    /\ ~r.ok => \/ r.exit \in {"semaphore", "start", "stop"}
                \/ r.exit = "write" /\ r.tries = 0
                \/ /\ ~Told(c, "SUCCESS")
                   /\ Told(c, "FAILED") \/ r.tries = MAX_RETRY_COUNT

Returned(ok, exit) == [ok |-> ok, tries |-> ext_cmd_retry_cnt, exit |-> exit]

(* A record that is appended is the present command's. *)
LEMMA PromisesExtended ==
  ASSUME Promises, ~late, Shape, NEW STATE c, c \in Nat, c = Len(returned) + 1,
         NEW STATE r, r \in Record, returned' = Append(returned, r),
         UNCHANGED <<answers, passedUp>>, Justified(c, r)
  PROVE  Promises'
<1>1. /\ Len(returned') = c
      /\ \A i \in 1 .. c : returned'[i] = IF i = c THEN r ELSE returned[i]
      /\ \A i \in 1 .. c : i # c => i \in 1 .. Len(returned)
  BY DEF Shape
<1>2. \A i, f : Told(i, f)' <=> Told(i, f)
  BY DEF Told
<1>3. OkMeansAnswered'
  <2> SUFFICES ASSUME NEW i \in 1 .. c, returned'[i].ok
               PROVE  \/ Told(i, "SUCCESS")
                      \/ returned'[i].exit = "wait"
                      \/ returned'[i].exit = "write" /\ returned'[i].tries > 0
    BY <1>1, <1>2 DEF OkMeansAnswered
  <2>1. CASE i = c
    <3>1. returned'[i] = r
      BY <1>1, <2>1
    <3> QED BY <2>1, <3>1 DEF Justified
  <2>2. CASE i # c
    <3>1. returned'[i] = returned[i] /\ i \in 1 .. Len(returned)
      BY <1>1, <2>2
    <3> QED BY <3>1 DEF Promises, OkMeansAnswered
  <2> QED BY <2>1, <2>2
<1>4. FailureIsReal'
  <2> SUFFICES ASSUME NEW i \in 1 .. c, ~returned'[i].ok
               PROVE  \/ returned'[i].exit \in {"semaphore", "start", "stop"}
                      \/ returned'[i].exit = "write" /\ returned'[i].tries = 0
                      \/ /\ ~Told(i, "SUCCESS")
                         /\ Told(i, "FAILED") \/ returned'[i].tries = MAX_RETRY_COUNT
    BY <1>1, <1>2 DEF FailureIsReal
  <2>1. CASE i = c
    <3>1. returned'[i] = r
      BY <1>1, <2>1
    <3> QED BY <2>1, <3>1 DEF Justified
  <2>2. CASE i # c
    <3>1. returned'[i] = returned[i] /\ i \in 1 .. Len(returned)
      BY <1>1, <2>2
    <3> QED BY <3>1 DEF Promises, FailureIsReal
  <2> QED BY <2>1, <2>2
<1>5. KeptFromCore'
  BY DEF Promises, KeptFromCore
<1> QED BY <1>3, <1>4, <1>5 DEF Promises

(* A command returns, at the end of the loop or before: nothing of it is   *)
(* under way then, or it is late.                                          *)
LEMMA ReturnIInv ==
  ASSUME IInv, app # "idle", NEW STATE ok, ok \in BOOLEAN, NEW exit \in Exits, Return(ok, exit),
         ~late => Justified(cmd, Returned(ok, exit))
  PROVE  IInv'
<1> DEFINE r == Returned(ok, exit)
<1>1. Shape'
  <2>1. r \in Record
    BY HalExtAssumption DEF IInv, Shape, Record, Returned
  <2>2. returned' \in Seq(Record) /\ Len(returned') = cmd
    BY <2>1 DEF Return, Returned, IInv, Shape
  <2> QED BY <2>2 DEF Return, IInv, Shape
<1>2. ASSUME ~late' PROVE Orderly' /\ Loop' /\ Promises'
  <2>1. ~late /\ Settled /\ Shape /\ Loop /\ Promises /\ Justified(cmd, r)
    BY <1>2 DEF Return, IInv
  <2>2. At("none")'
    BY <2>1 DEF Return, Settled, remote, At
  <2>3. Loop'
    BY <2>1 DEF Return, Loop
  <2>4. Promises'
    <3>1. r \in Record
      BY <2>1, HalExtAssumption DEF Shape, Record, Returned
    <3>2. cmd \in Nat /\ cmd = Len(returned) + 1
      BY <2>1 DEF Shape
    <3>3. returned' = Append(returned, r) /\ UNCHANGED <<answers, passedUp>>
      BY DEF Return, Returned
    <3> HIDE DEF r
    <3> QED BY <2>1, <3>1, <3>2, <3>3, PromisesExtended
  <2> QED BY <2>2, <2>3, <2>4 DEF Orderly, Place
<1> QED BY <1>1, <1>2 DEF IInv

(* The loop ends with what the controller has said, or the last attempt's  *)
(* outcome.                                                                *)
LEMMA ResultIInv == ASSUME IInv, Result PROVE IInv'
<1>1. Return(status = "SUCCESS", "loop") /\ app = "result"
  BY DEF Result
<1>2. ~late => Justified(cmd, Returned(status = "SUCCESS", "loop"))
  <2> SUFFICES ASSUME ~late PROVE Justified(cmd, Returned(status = "SUCCESS", "loop"))
    OBVIOUS
  <2>1. Loop /\ Truthful
    BY <1>1 DEF IInv, Loop
  <2> QED BY <1>1, <2>1 DEF Justified, Returned, Loop, Truthful, Finals
<1> QED BY <1>1, <1>2, ReturnIInv DEF Exits

(* The ways out of the loop of a call that fails. *)
LEMMA UnsentIInv == ASSUME IInv, Unsent PROVE IInv'
<1>1. Return(ext_cmd_retry_cnt > 0, "write") /\ app = "unsent"
  BY DEF Unsent
<1>2. Justified(cmd, Returned(ext_cmd_retry_cnt > 0, "write"))
  <2>1. ext_cmd_retry_cnt > 0 \/ ext_cmd_retry_cnt = 0
    BY HalExtAssumption DEF IInv, Shape
  <2>2. CASE ext_cmd_retry_cnt > 0
    BY <2>2 DEF Justified, Returned
  <2>3. CASE ext_cmd_retry_cnt = 0
    <3>1. ~(ext_cmd_retry_cnt > 0)
      BY <2>3
    <3> QED BY <2>3, <3>1 DEF Justified, Returned
  <2> QED BY <2>1, <2>2, <2>3
<1>3. (ext_cmd_retry_cnt > 0) \in BOOLEAN /\ "write" \in Exits
  BY DEF Exits
<1> QED BY <1>1, <1>2, <1>3, ReturnIInv

LEMMA TimerNotStartedIInv == ASSUME IInv, TimerNotStarted PROVE IInv'
  BY ReturnIInv DEF TimerNotStarted, Justified, Returned, Exits

LEMMA WaitEndsIInv == ASSUME IInv, WaitEnds PROVE IInv'
  BY ReturnIInv DEF WaitEnds, Justified, Returned, Exits

LEMMA TimerNotStoppedIInv == ASSUME IInv, TimerNotStopped PROVE IInv'
  BY ReturnIInv DEF TimerNotStopped, Justified, Returned, Exits

(* A command without a semaphore has no attempt. *)
LEMMA NoSemaphoreIInv == ASSUME IInv, NoSemaphore PROVE IInv'
<1> DEFINE r == [ok |-> FALSE, tries |-> 0, exit |-> "semaphore"]
<1>1. r \in Record /\ Justified(cmd + 1, r)
  BY DEF Record, Exits, Justified
<1>2. returned' = Append(returned, r)
  BY DEF NoSemaphore
<1>3. cmd \in Nat /\ cmd = Len(returned) /\ cmd' = cmd + 1
  BY DEF NoSemaphore, IInv, Shape
<1> HIDE DEF r
<1>4. Shape'
  BY <1>1, <1>2, <1>3, HalExtAssumption DEF NoSemaphore, IInv, Shape
<1>5. ASSUME ~late' PROVE Orderly' /\ Loop' /\ Promises'
  <2>1. ~late /\ At("none") /\ Loop /\ Promises /\ Shape
    BY <1>5 DEF NoSemaphore, ghosts, IInv, Orderly, At, Place
  <2>2. At("none")'
    BY <2>1 DEF NoSemaphore, remote, At
  <2>3. Loop'
    BY <2>1, <1>3 DEF NoSemaphore, ghosts, Loop
  <2>4. Promises'
    <3>1. UNCHANGED <<answers, passedUp>>
      BY DEF NoSemaphore, ghosts
    <3>2. cmd + 1 \in Nat /\ cmd + 1 = Len(returned) + 1
      BY <1>3
    <3> QED BY <2>1, <3>1, <3>2, <1>1, <1>2, PromisesExtended
  <2> QED BY <2>2, <2>3, <2>4 DEF Orderly, Place
<1> QED BY <1>4, <1>5 DEF IInv

(* The client thread finds the command still waiting. *)
LEMMA ReadPacketIInv == ASSUME IInv, ReadPacket PROVE IInv'
<1>1. Shape'
  BY DEF ReadPacket, exchange, command, IInv, Shape
<1>2. ASSUME ~late' PROVE Orderly' /\ Loop' /\ Promises'
  <2>1. ~late /\ At("controller") /\ Shape /\ Loop /\ Promises
    BY <1>2 DEF ReadPacket, IInv, Orderly, At, Place
  <2>2. app \in {"sent", "wait"} /\ Open /\ hal_ext_enabled
    BY <2>1 DEF At, Shape
  <2>3. Head(written) = cmd /\ written' = << >>
    BY <2>1 DEF At, ReadPacket
  <2>4. /\ client' = "posts" /\ UNCHANGED <<passedUp, returned, cmd, app>> /\ Truthful'
        /\ status' \in Finals \cup {"COMMAND_RETRY"}
        /\ \A a \in answers' \ answers : a.cmd = cmd
        /\ answers \subseteq answers'
    <3>1. CASE status' = "COMMAND_RETRY" /\ client' = "posts" /\ UNCHANGED <<answers, passedUp>>
      BY <3>1, <2>2 DEF ReadPacket, exchange, command, Open, Truthful, Told, Finals
    <3>2. ASSUME NEW says \in Finals, answers' = answers \cup {[cmd |-> cmd, says |-> says]},
                 status' = says, client' = "posts", UNCHANGED passedUp
          PROVE  <2>4
      <4>1. cmd' = cmd /\ returned' = returned /\ app' = app
        BY DEF ReadPacket, exchange, command
      <4>2. \A f \in Finals : Told(cmd, f)' <=> f = says
        BY <2>2, <3>2, <4>1 DEF Told, Open
      <4>3. Truthful'
        BY <3>2, <4>1, <4>2 DEF Truthful, Finals, Told
      <4> QED BY <3>2, <4>1, <4>3
    <3> QED BY <2>2, <2>3, <3>1, <3>2 DEF ReadPacket, Finals
  <2>5. At("client")'
    BY <2>1, <2>2, <2>3, <2>4 DEF ReadPacket, exchange, At
  <2>6. Loop'
    <3>1. \A a \in answers' : a.cmd \in 0 .. cmd'
      BY <2>1, <2>4 DEF Loop, Shape
    <3> QED BY <2>2, <2>4, <3>1 DEF Loop
  <2>7. Promises'
    <3>1. cmd \notin 1 .. Len(returned)
      BY <2>1, <2>2 DEF Shape
    <3> QED BY <2>1, <2>4, <3>1, PromisesKept
  <2> QED BY <2>5, <2>6, <2>7 DEF Orderly, Place
<1> QED BY <1>1, <1>2 DEF IInv

(* The client hands the attempt to the application. *)
LEMMA PostSemaphoreIInv == ASSUME IInv, PostSemaphore PROVE IInv'
<1>1. Shape'
  BY DEF PostSemaphore, Produced, exchange, command, IInv, Shape
<1>2. ASSUME ~late' PROVE Orderly' /\ Loop' /\ Promises'
  <2>1. At("client")
    BY <1>2 DEF PostSemaphore, ghosts, IInv, Orderly, At
  <2>2. At("semaphore")'
    BY <2>1 DEF PostSemaphore, Produced, exchange, command, remote, ghosts, At, Truthful, Told,
                IInv, Shape
  <2>3. Loop'
    BY <1>2, <2>1 DEF PostSemaphore, IInv, exchange, command, ghosts, Loop, At
  <2>4. Promises'
    BY <1>2, PromisesKept DEF PostSemaphore, exchange, command, ghosts, IInv
  <2> QED BY <2>2, <2>3, <2>4 DEF Orderly, Place
<1> QED BY <1>1, <1>2 DEF IInv

(* A timer that is not late finds the attempt nowhere. *)
LEMMA ExpireIInv == ASSUME IInv, Expire PROVE IInv'
<1>1. Shape'
  BY DEF Expire, exchange, command, IInv, Shape
<1>2. ASSUME ~late' PROVE Orderly' /\ Loop' /\ Promises'
  <2>1. ~late /\ Unanswered
    BY <1>2 DEF Expire
  <2>2. At("none")
    BY <2>1 DEF Unanswered, Settled, IInv, Orderly, Place, At
  <2>3. At("callback")'
    BY <2>1, <2>2 DEF Expire, Unanswered, Settled, exchange, command, remote, At, Open, Told
  <2>4. Loop'
    BY <2>1 DEF Expire, Unanswered, exchange, command, IInv, Loop
  <2>5. Promises'
    BY <1>2, <2>1, PromisesKept DEF Expire, exchange, command, IInv
  <2> QED BY <2>3, <2>4, <2>5 DEF Orderly, Place
<1> QED BY <1>1, <1>2 DEF IInv

(* The callback wakes the command that its timer was for. *)
LEMMA DelayEndsIInv == ASSUME IInv, DelayEnds PROVE IInv'
<1>1. Shape'
  BY DEF DelayEnds, Produced, exchange, command, IInv, Shape
<1>2. ASSUME ~late' PROVE Orderly' /\ Loop' /\ Promises'
  <2>1. At("callback") /\ app = "wait"
    BY <1>2 DEF DelayEnds, ghosts, IInv, Orderly, At
  <2>2. Truthful'
    BY <2>1 DEF DelayEnds, exchange, command, ghosts, At, Open, Truthful, Told, Finals
  <2>3. At("semaphore")'
    BY <2>1, <2>2 DEF DelayEnds, Produced, exchange, remote, At, IInv, Shape
  <2>4. Loop'
    BY <1>2, <2>1 DEF DelayEnds, IInv, exchange, command, ghosts, Loop
  <2>5. Promises'
    BY <1>2, PromisesKept DEF DelayEnds, exchange, command, ghosts, IInv
  <2> QED BY <2>3, <2>4, <2>5 DEF Orderly, Place
<1> QED BY <1>1, <1>2 DEF IInv

(* The controller forgets the attempt. *)
LEMMA LoseIInv == ASSUME IInv, Lose PROVE IInv'
<1>1. Shape'
  BY DEF Lose, exchange, command, IInv, Shape
<1>2. ASSUME ~late' PROVE Orderly' /\ Loop' /\ Promises'
  <2>1. At("controller") /\ app \in {"sent", "wait"}
    BY <1>2 DEF Lose, ghosts, IInv, Orderly, At
  <2>2. At("none")'
    BY <2>1 DEF Lose, exchange, command, ghosts, At, Open, Told
  <2>3. Loop'
    BY <1>2, <2>1 DEF Lose, IInv, exchange, command, ghosts, Loop
  <2>4. Promises'
    BY <1>2, PromisesKept DEF Lose, exchange, command, ghosts, IInv
  <2> QED BY <2>2, <2>3, <2>4 DEF Orderly, Place
<1> QED BY <1>1, <1>2 DEF IInv

(* Every reachable state is well-formed, and while nothing is late the     *)
(* attempt is in one place and the results are true: every step of         *)
(* phNxpUciHal_process_ext_cmd_rsp, the client and the timer keeps it.     *)
LEMMA Invariant == Spec => []IInv
<1>1. IInv /\ [Next]_vars => IInv'
  <2> SUFFICES ASSUME IInv, [Next]_vars PROVE IInv'
    OBVIOUS
  <2>1. CASE UNCHANGED vars
    BY <2>1 DEF vars, exchange, command, remote, ghosts, IInv, Shape, Orderly, At, Truthful, Open,
                Told, Loop, Promises, OkMeansAnswered, FailureIsReal, KeptFromCore
  <2>2. CASE Attempt
    BY <2>2, SendIInv, StartTimerIInv, WakeIInv, CheckIInv, ResultIInv DEF Attempt
  <2>3. CASE Exit
    BY <2>3, NoSemaphoreIInv, UnsentIInv, TimerNotStartedIInv, WaitEndsIInv, TimerNotStoppedIInv
       DEF Exit
  <2> QED BY <2>1, <2>2, <2>3, ReadPacketIInv, PostSemaphoreIInv, ExpireIInv, DelayEndsIInv, LoseIInv
          DEF Next, Client
<1> QED BY InitIInv, <1>1, PTL DEF Spec

(* While nothing is late, SUCCESS is the controller's, unless the wait     *)
(* ended by itself or a re-transmission could not be written: the two ways *)
(* out that hand back the success of the timer's start                     *)
(* (phNxpUciHal_ext.c:76, 96).                                             *)
THEOREM SuccessAnswered == Spec => []OkMeansAnswered
<1>1. IInv => OkMeansAnswered
  BY DEF IInv, Promises, OkMeansAnswered
<1> QED BY <1>1, Invariant, PTL

(* While nothing is late, a command that fails has had a failed call of    *)
(* its own, or the controller has said FAILED, or it was the last attempt; *)
(* and but for the failed call the controller has not said SUCCESS         *)
(* (phNxpUciHal_ext.c:67-122).                                             *)
THEOREM FailureReal == Spec => []FailureIsReal
<1>1. IInv => FailureIsReal
  BY DEF IInv, Promises, FailureIsReal
<1> QED BY <1>1, Invariant, PTL

(* While nothing is late, no answer of an extension command goes up to the *)
(* UCI core, whichever call fails (phNxpUciHal.c:510).                     *)
THEOREM CoreUntouched == Spec => []KeptFromCore
<1>1. IInv => KeptFromCore
  BY DEF IInv, Promises, KeptFromCore
<1> QED BY <1>1, Invariant, PTL
=============================================================================
