--------------------------- MODULE TmlReader_proofs ---------------------------
(***************************************************************************)
(* The read path, for any number of packets, empty reads and recoveries:   *)
(* as long as no recovery falls between a read and its post, one buffer is *)
(* enough for the reader, the client and the recovery, and packets are     *)
(* taken in order.                                                         *)
(***************************************************************************)
EXTENDS TmlReader, TLAPS

Shape ==
    /\ tReadInfo \in [bEnable : BOOLEAN, bThreadBusy : BOOLEAN]
    /\ reader \in {"rx", "test", "read", "copy", "post"}
    /\ client \in {"idle", "callback", "rearm"}
    /\ app \in {"init", "up", "download"}
    /\ temp \in Nat /\ Rx_data \in Nat /\ sent \in Nat
    /\ wire \in Seq(Nat) /\ queue \in Seq(Nat) /\ delivered \in Seq(Nat)
    /\ Len(queue) <= 1
    /\ client # "idle" => queue # << >>

Quiet == queue = << >> /\ client = "idle"

(* Who may use the buffer: a request is made only when the client has done *)
(* with it, and between a read and its post nothing else happens to it.    *)
OneUser ==
    /\ tReadInfo.bEnable => tReadInfo.bThreadBusy
    /\ tReadInfo.bEnable \/ reader \in {"read", "copy", "post"} => Quiet
    /\ tReadInfo.bThreadBusy /\ ~tReadInfo.bEnable =>
         reader = "post" \/ (client = "idle" /\ queue # << >>)
    /\ reader = "read" /\ app # "download" => tReadInfo.bEnable
    /\ reader = "copy" => tReadInfo.bEnable
    /\ reader = "post" => tReadInfo.bThreadBusy /\ ~tReadInfo.bEnable /\ Rx_data = temp
    /\ reader \in {"copy", "post"} => app # "download"
    /\ app = "download" => suspended
    /\ app = "init" => Quiet /\ ~tReadInfo.bThreadBusy

(* A packet that was read and is still to be delivered *)
InHand(p) == \/ reader \in {"copy", "post"} /\ p = temp
             \/ queue # << >> /\ client # "rearm" /\ p = Rx_data

(* What is delivered came before what is in hand, and that before what the *)
(* controller still has.                                                   *)
Ascending(s) == \A i, j \in 1 .. Len(s) : i < j => s[i] < s[j]
Ordered ==
    /\ Ascending(wire) /\ Ascending(delivered)
    /\ \A i \in 1 .. Len(wire) : wire[i] <= sent
    /\ \A i \in 1 .. Len(delivered) : delivered[i] <= sent
    /\ \A i \in 1 .. Len(delivered), j \in 1 .. Len(wire) : delivered[i] < wire[j]
    /\ \A p \in Nat : InHand(p) =>
         /\ p <= sent
         /\ \A i \in 1 .. Len(delivered) : delivered[i] < p
         /\ \A j \in 1 .. Len(wire) : p < wire[j]

IInv == Shape /\ OneUser /\ Ordered /\ BufferIntact

(* Nobody has asked for a read, and there is no packet. *)
LEMMA InitIInv == Init => IInv
<1> SUFFICES ASSUME Init PROVE IInv
  OBVIOUS
<1>1. Shape /\ OneUser /\ BufferIntact
  BY DEF Init, Nothing, Shape, OneUser, Quiet, BufferIntact
<1>2. Ordered
  BY DEF Init, Nothing, Ordered, Ascending, InHand
<1> QED BY <1>1, <1>2 DEF IInv

(* What a step that moves no packet keeps. *)
LEMMA OrderKept ==
  ASSUME Ordered, UNCHANGED <<wire, delivered, sent>>, \A p \in Nat : InHand(p)' => InHand(p)
  PROVE  Ordered'
  BY DEF Ordered, Ascending

(* A token that ends the wait, and the test behind it: a request is found  *)
(* only when the client is done.                                           *)
LEMMA WaitIInv == ASSUME IInv, WaitRx \/ Test \/ ReadEmpty PROVE IInv'
<1>1. Shape' /\ OneUser' /\ BufferIntact'
  BY DEF WaitRx, Test, ReadEmpty, At, reading, remote, IInv, Shape, OneUser, Quiet, BufferIntact
<1>2. Ordered'
  BY OrderKept DEF WaitRx, Test, ReadEmpty, At, reading, remote, IInv, InHand
<1> QED BY <1>1, <1>2 DEF IInv

(* The first packet of the controller is later than all delivered, and     *)
(* earlier than the others it has.                                         *)
LEMMA ReadPacketIInv == ASSUME IInv, ReadPacket PROVE IInv'
<1>1. /\ wire' \in Seq(Nat) /\ temp' = wire[1] /\ Len(wire) > 0
      /\ Len(wire') = Len(wire) - 1
      /\ \A i \in 1 .. Len(wire') : wire'[i] = wire[i + 1]
  BY DEF ReadPacket, IInv, Shape
<1>2. Shape' /\ OneUser' /\ BufferIntact'
  BY <1>1 DEF ReadPacket, At, reading, remote, IInv, Shape, OneUser, Quiet, BufferIntact
<1>3. Ordered'
  <2>1. \A p \in Nat : InHand(p)' => p = wire[1]
    BY <1>1 DEF ReadPacket, At, IInv, OneUser, Quiet, InHand
  <2>2. Ascending(wire')
    <3> SUFFICES ASSUME NEW i \in 1 .. Len(wire'), NEW j \in 1 .. Len(wire'), i < j
                 PROVE  wire'[i] < wire'[j]
      BY DEF Ascending
    <3>1. Len(wire) \in Nat
      BY DEF IInv, Shape
    <3>2. i \in 1 .. Len(wire) - 1 /\ j \in 1 .. Len(wire) - 1
      BY <1>1
    <3>3. i + 1 \in 1 .. Len(wire) /\ j + 1 \in 1 .. Len(wire) /\ i + 1 < j + 1
      BY <3>1, <3>2
    <3> QED BY <1>1, <3>3 DEF IInv, Ordered, Ascending
  <2> QED BY <1>1, <2>1, <2>2 DEF ReadPacket, IInv, Shape, Ordered, Ascending
<1> QED BY <1>2, <1>3 DEF IInv

(* The packet is copied while the client has nothing of the buffer. *)
LEMMA CopyIInv == ASSUME IInv, Copy PROVE IInv'
<1>1. Shape' /\ OneUser' /\ BufferIntact'
  BY DEF Copy, At, remote, IInv, Shape, OneUser, Quiet, BufferIntact
<1>2. Ordered'
  BY OrderKept DEF Copy, At, remote, IInv, InHand, OneUser, Quiet
<1> QED BY <1>1, <1>2 DEF IInv

(* The packet is announced: it is the one in the buffer. *)
LEMMA PostIInv == ASSUME IInv, Post PROVE IInv'
<1>1. queue' = <<temp>>
  BY DEF Post, At, IInv, Shape, OneUser, Quiet
<1>2. Shape' /\ OneUser' /\ BufferIntact'
  BY <1>1 DEF Post, At, reading, remote, IInv, Shape, OneUser, Quiet, BufferIntact
<1>3. Ordered'
  BY <1>1, OrderKept DEF Post, At, remote, IInv, InHand, OneUser
<1> QED BY <1>2, <1>3 DEF IInv

(* The client takes the announcement; the buffer is still its own. *)
LEMMA TakeIInv == ASSUME IInv, Take PROVE IInv'
<1>1. Shape' /\ OneUser' /\ BufferIntact'
  BY DEF Take, remote, IInv, Shape, OneUser, Quiet, BufferIntact
<1>2. Ordered'
  BY OrderKept DEF Take, remote, IInv, InHand
<1> QED BY <1>1, <1>2 DEF IInv

(* The packet in the buffer is delivered, after those before it. *)
LEMMA CallbackIInv == ASSUME IInv, Callback PROVE IInv'
<1>1. /\ delivered' \in Seq(Nat) /\ Len(delivered') = Len(delivered) + 1
      /\ \A i \in 1 .. Len(delivered) : delivered'[i] = delivered[i]
      /\ delivered'[Len(delivered) + 1] = Rx_data
  BY DEF Callback, IInv, Shape
<1>2. Shape' /\ OneUser' /\ BufferIntact'
  BY <1>1 DEF Callback, reading, remote, IInv, Shape, OneUser, Quiet, BufferIntact
<1>3. Ordered'
  <2>1. InHand(Rx_data)
    BY DEF Callback, IInv, Shape, InHand
  <2>2. /\ Rx_data <= sent
        /\ \A i \in 1 .. Len(delivered) : delivered[i] < Rx_data
        /\ \A j \in 1 .. Len(wire) : Rx_data < wire[j]
    BY <2>1 DEF IInv, Shape, Ordered
  <2>3. \A p \in Nat : ~InHand(p)'
    BY DEF Callback, IInv, Shape, OneUser, Quiet, InHand
  <2>4. \A i \in 1 .. Len(delivered') : i \in 1 .. Len(delivered) \/ i = Len(delivered) + 1
    BY <1>1 DEF IInv, Shape
  <2>5. Ascending(delivered')
    <3> SUFFICES ASSUME NEW i \in 1 .. Len(delivered'), NEW j \in 1 .. Len(delivered'), i < j
                 PROVE  delivered'[i] < delivered'[j]
      BY DEF Ascending
    <3>1. i \in 1 .. Len(delivered)
      BY <1>1, <2>4 DEF IInv, Shape
    <3>2. CASE j \in 1 .. Len(delivered)
      BY <1>1, <3>1, <3>2 DEF IInv, Ordered, Ascending
    <3>3. CASE j = Len(delivered) + 1
      BY <1>1, <2>2, <3>1, <3>3
    <3> QED BY <2>4, <3>2, <3>3
  <2>6. \A i \in 1 .. Len(delivered') :
          delivered'[i] <= sent /\ \A j \in 1 .. Len(wire) : delivered'[i] < wire[j]
    BY <1>1, <2>2, <2>4 DEF IInv, Shape, Ordered
  <2> QED BY <2>3, <2>5, <2>6 DEF Callback, remote, IInv, Ordered, Ascending
<1> QED BY <1>2, <1>3 DEF IInv

(* The next read is asked for when the client is done with the last. *)
LEMMA RearmIInv == ASSUME IInv, Rearm PROVE IInv'
<1>1. queue' = << >> /\ queue # << >>
  BY DEF Rearm, IInv, Shape
<1>2. Shape' /\ OneUser' /\ BufferIntact'
  <2>1. ~tReadInfo.bThreadBusy \/ reader = "post"
    BY <1>1 DEF Rearm, IInv, OneUser, Quiet
  <2>2. tReadInfo' = [bEnable |-> TRUE, bThreadBusy |-> TRUE]
    BY <1>1, <2>1 DEF Rearm, Read, IInv, OneUser, Quiet
  <2> QED BY <1>1, <2>2 DEF Rearm, remote, IInv, Shape, OneUser, Quiet, BufferIntact
<1>3. Ordered'
  BY <1>1, OrderKept DEF Rearm, remote, IInv, InHand
<1> QED BY <1>2, <1>3 DEF IInv

(* The first read is asked for while nothing is going on. *)
LEMMA FirstReadIInv == ASSUME IInv, FirstRead PROVE IInv'
<1>1. Shape' /\ OneUser' /\ BufferIntact'
  <2>1. tReadInfo' = [bEnable |-> TRUE, bThreadBusy |-> TRUE]
    BY DEF FirstRead, Read, IInv, OneUser
  <2> QED BY <2>1 DEF FirstRead, remote, IInv, Shape, OneUser, Quiet, BufferIntact
<1>2. Ordered'
  BY OrderKept DEF FirstRead, remote, IInv, InHand
<1> QED BY <1>1, <1>2 DEF IInv

(* The recovery finds no packet between its read and its post. *)
LEMMA AbortIInv == ASSUME IInv, ~CutsPost, Abort PROVE IInv'
<1>1. Shape' /\ OneUser' /\ BufferIntact'
  BY DEF Abort, CanRecover, remote, IInv, Shape, OneUser, Quiet, BufferIntact
<1>2. Ordered'
  BY OrderKept DEF Abort, remote, IInv, InHand
<1> QED BY <1>1, <1>2 DEF IInv

(* The read asked for at the end of the recovery is one more, or the one   *)
(* that the client asked for meanwhile; the controller starts empty.       *)
LEMMA RestartIInv == ASSUME IInv, Restart PROVE IInv'
<1>1. Shape' /\ OneUser' /\ BufferIntact'
  <2>1. tReadInfo'.bEnable /\ tReadInfo'.bThreadBusy /\
          tReadInfo' \in [bEnable : BOOLEAN, bThreadBusy : BOOLEAN]
    <3>1. CASE tReadInfo.bThreadBusy
      <4>1. UNCHANGED tReadInfo /\ tReadInfo.bEnable
        BY <3>1 DEF Restart, Read, reading, IInv, OneUser
      <4> QED BY <3>1, <4>1 DEF IInv, Shape
    <3>2. CASE ~tReadInfo.bThreadBusy
      <4>1. tReadInfo' = [bEnable |-> TRUE, bThreadBusy |-> TRUE]
        BY <3>2 DEF Restart, Read
      <4> QED BY <4>1
    <3> QED BY <3>1, <3>2
  <2>2. wire' \in Seq(Nat)
    BY DEF Restart
  <2> QED BY <2>1, <2>2 DEF Restart, IInv, Shape, OneUser, Quiet, BufferIntact
<1>2. Ordered'
  <2>1. \A p \in Nat : InHand(p)' => InHand(p)
    BY DEF Restart, InHand
  <2>2. wire' = << >>
    BY DEF Restart
  <2> QED BY <2>1, <2>2 DEF Restart, IInv, Ordered, Ascending
<1> QED BY <1>1, <1>2 DEF IInv

(* A new packet is later than all before it. *)
LEMMA ControllerIInv == ASSUME IInv, Controller PROVE IInv'
<1>1. /\ wire' \in Seq(Nat) /\ Len(wire') = Len(wire) + 1
      /\ \A i \in 1 .. Len(wire) : wire'[i] = wire[i]
      /\ wire'[Len(wire) + 1] = sent + 1
  BY DEF Controller, IInv, Shape
<1>2. Shape' /\ OneUser' /\ BufferIntact'
  BY <1>1 DEF Controller, reading, IInv, Shape, OneUser, Quiet, BufferIntact
<1>3. Ordered'
  <2>1. \A p \in Nat : InHand(p)' => InHand(p)
    BY DEF Controller, InHand
  <2>2. \A i \in 1 .. Len(wire') : i \in 1 .. Len(wire) \/ i = Len(wire) + 1
    BY <1>1 DEF IInv, Shape
  <2>3. sent' = sent + 1 /\ UNCHANGED delivered
    BY DEF Controller
  <2>8. \A p \in Nat : p <= sent => p < sent + 1 /\ p <= sent + 1
    BY DEF IInv, Shape
  <2>9. /\ \A i \in 1 .. Len(wire) : wire[i] \in Nat
        /\ \A i \in 1 .. Len(delivered) : delivered[i] \in Nat
    BY DEF IInv, Shape
  <2>4. Ascending(wire')
    <3> SUFFICES ASSUME NEW i \in 1 .. Len(wire'), NEW j \in 1 .. Len(wire'), i < j
                 PROVE  wire'[i] < wire'[j]
      BY DEF Ascending
    <3>1. i \in 1 .. Len(wire)
      BY <1>1, <2>2 DEF IInv, Shape
    <3>2. CASE j \in 1 .. Len(wire)
      BY <1>1, <3>1, <3>2 DEF IInv, Ordered, Ascending
    <3>3. CASE j = Len(wire) + 1
      BY <1>1, <2>8, <2>9, <3>1, <3>3 DEF IInv, Ordered
    <3> QED BY <2>2, <3>2, <3>3
  <2>5. \A i \in 1 .. Len(wire') : wire'[i] <= sent'
    <3>1. sent' <= sent'
      BY <2>3 DEF IInv, Shape
    <3> QED BY <1>1, <2>2, <2>3, <2>8, <2>9, <3>1 DEF IInv, Ordered
  <2>6. \A i \in 1 .. Len(delivered) : delivered[i] <= sent' /\
          \A j \in 1 .. Len(wire') : delivered[i] < wire'[j]
    BY <1>1, <2>2, <2>3, <2>8, <2>9 DEF IInv, Ordered
  <2>7. ASSUME NEW p \in Nat, InHand(p)'
        PROVE  /\ p <= sent' /\ \A i \in 1 .. Len(delivered) : delivered[i] < p
               /\ \A j \in 1 .. Len(wire') : p < wire'[j]
    BY <1>1, <2>1, <2>2, <2>3, <2>7, <2>8 DEF IInv, Ordered
  <2> QED BY <2>3, <2>4, <2>5, <2>6, <2>7 DEF IInv, Ordered, Ascending
<1> QED BY <1>2, <1>3 DEF IInv

(* Unless the recovery cuts a post, every step keeps the buffer with one   *)
(* user, and the packets in their order.                                   *)
LEMMA Invariant == ASSUME ~CutsPost PROVE Spec => []IInv
<1>1. IInv /\ [Next]_vars => IInv'
  <2> SUFFICES ASSUME IInv, [Next]_vars PROVE IInv'
    OBVIOUS
  <2>1. CASE UNCHANGED vars
    <3>1. Shape' /\ OneUser' /\ BufferIntact'
      BY <2>1 DEF vars, reading, remote, IInv, Shape, OneUser, Quiet, BufferIntact
    <3>2. Ordered'
      BY <2>1, OrderKept DEF vars, remote, IInv, InHand
    <3> QED BY <3>1, <3>2 DEF IInv
  <2> QED BY <2>1, WaitIInv, ReadPacketIInv, CopyIInv, PostIInv, TakeIInv, CallbackIInv,
             RearmIInv, FirstReadIInv, AbortIInv, RestartIInv, ControllerIInv
          DEF Next, Reader, Client, Application
<1> QED BY InitIInv, <1>1, PTL DEF Spec

(* The packet that is announced is in Rx_data until its callback ends,     *)
(* unless the recovery cuts a post (phTmlUwb.c:598, :645).                 *)
THEOREM BufferKept == ASSUME ~CutsPost PROVE Spec => []BufferIntact
<1>1. IInv => BufferIntact
  BY DEF IInv
<1> QED BY <1>1, Invariant, PTL

(* Packets are taken once and in the order of the controller, unless the   *)
(* recovery cuts a post (phNxpUciHal.c:552).                               *)
THEOREM TakenInOrder == ASSUME ~CutsPost PROVE Spec => []InOrder
<1>1. IInv => InOrder
  BY DEF IInv, Ordered, Ascending, InOrder
<1> QED BY <1>1, Invariant, PTL
=============================================================================
