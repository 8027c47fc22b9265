----------------------------- MODULE TmlReader ------------------------------
(***************************************************************************)
(* The read path: the TML reader thread (phTmlUwb.c), the HAL client       *)
(* thread whose callback takes the packet and asks for the next read       *)
(* (phNxpUciHal.c), and the recovery, which aborts the read from the       *)
(* application's task while both threads are at work.                      *)
(*                                                                         *)
(* One buffer, Rx_data, and one static transaction record carry every      *)
(* packet; tReadInfo says whose they are.  Packets are numbered by the     *)
(* controller.  The reader and the client have the same priority and may   *)
(* be overtaken by the application anywhere.                               *)
(***************************************************************************)
EXTENDS Naturals, Sequences, SequencesExt

CONSTANTS MaxPacket,    \* bound: packets the controller sends
          MaxEmpty,     \* bound: reads that return nothing
          MaxRecovery,  \* bound: recoveries
          CutsPost      \* the recovery may suspend the reader with a packet in hand

ASSUME TmlReaderAssumption ==
    {MaxPacket, MaxEmpty, MaxRecovery} \subseteq Nat /\ CutsPost \in BOOLEAN

Nothing == 0

VARIABLES
    tReadInfo,        \* bEnable and bThreadBusy
    rxSemaphore,      \* its tokens
    reader,           \* the reader thread: where it is
    suspended,        \* the reader is suspended
    temp,             \* the reader's own buffer
    Rx_data,          \* the buffer of the HAL
    queue,            \* the client's queue: read completions
    client,           \* the client thread: where it is
    app,              \* the recovery on the application's task
    recoveries,
    wire,             \* packets at the controller's side of the bus
    sent,             \* packets the controller has sent
    empty,            \* reads that returned nothing
    delivered,        \* packets the callback has taken
    wiped             \* ghost: packets the restart of the controller dropped

reading == <<tReadInfo, rxSemaphore>>
remote  == <<wire, sent, wiped>>
vars    == <<reading, reader, suspended, temp, Rx_data, queue, client, app,
             recoveries, remote, empty, delivered>>

Init ==
    /\ tReadInfo = [bEnable |-> FALSE, bThreadBusy |-> FALSE]
    /\ rxSemaphore = 0
    /\ reader = "rx"
    /\ suspended = FALSE
    /\ temp = Nothing /\ Rx_data = Nothing
    /\ queue = << >>
    /\ client = "idle"
    /\ app = "init"
    /\ recoveries = 0
    /\ wire = << >> /\ sent = 0 /\ wiped = {}
    /\ empty = 0
    /\ delivered = << >>
-----------------------------------------------------------------------------
(* phTmlUwb_Read: refused while a read is under way. *)
Read ==
    IF tReadInfo.bThreadBusy
    THEN UNCHANGED reading
    ELSE /\ tReadInfo' = [bEnable |-> TRUE, bThreadBusy |-> TRUE]
         /\ rxSemaphore' = 1
-----------------------------------------------------------------------------
(* phTmlUwb_TmlReaderThread *)
At(step) == reader = step /\ ~suspended

(* The wait ends with a token, or without one after 10 s. *)
WaitRx ==
    /\ At("rx")
    /\ rxSemaphore' = 0
    /\ reader' = "test"
    /\ UNCHANGED <<tReadInfo, suspended, temp, Rx_data, queue, client, app,
                   recoveries, remote, empty, delivered>>

Test ==
    /\ At("test")
    /\ reader' = IF tReadInfo.bEnable THEN "read" ELSE "rx"
    /\ UNCHANGED <<reading, suspended, temp, Rx_data, queue, client, app,
                   recoveries, remote, empty, delivered>>

ReadPacket ==
    /\ At("read")
    /\ wire # << >>
    /\ temp' = Head(wire)
    /\ wire' = Tail(wire)
    /\ reader' = "copy"
    /\ UNCHANGED <<reading, suspended, Rx_data, queue, client, app, recoveries,
                   sent, wiped, empty, delivered>>

(* Mutant: an empty read ends the request. *)
ReadEmptyEnds ==
    /\ At("read")
    /\ empty < MaxEmpty
    /\ empty' = empty + 1
    /\ tReadInfo' = [tReadInfo EXCEPT !.bEnable = FALSE]
    /\ reader' = "rx"
    /\ UNCHANGED <<rxSemaphore, suspended, temp, Rx_data, queue, client, app,
                   recoveries, remote, delivered>>

(* An empty read, or one that is too long, is ignored and tried again. *)
ReadEmpty ==
    /\ At("read")
    /\ empty < MaxEmpty
    /\ empty' = empty + 1
    /\ rxSemaphore' = 1
    /\ reader' = "rx"
    /\ UNCHANGED <<tReadInfo, suspended, temp, Rx_data, queue, client, app,
                   recoveries, remote, delivered>>

(* Mutant: the request stays enabled after a successful read. *)
CopyKeepsEnabled ==
    /\ At("copy")
    /\ Rx_data' = temp
    /\ rxSemaphore' = 1
    /\ reader' = "post"
    /\ UNCHANGED <<tReadInfo, suspended, temp, queue, client, app,
                   recoveries, remote, empty, delivered>>

Copy ==
    /\ At("copy")
    /\ Rx_data' = temp
    /\ tReadInfo' = [tReadInfo EXCEPT !.bEnable = FALSE]
    /\ reader' = "post"
    /\ UNCHANGED <<rxSemaphore, suspended, temp, queue, client, app,
                   recoveries, remote, empty, delivered>>

(* phTmlUwb_DeferredCall; the message points to the static record.  The    *)
(* message says, as a ghost, which packet it announces.                    *)
Post ==
    /\ At("post")
    /\ queue' = Append(queue, temp)
    /\ reader' = "rx"
    /\ UNCHANGED <<reading, suspended, temp, Rx_data, client, app,
                   recoveries, remote, empty, delivered>>

Reader == WaitRx \/ Test \/ ReadPacket \/ ReadEmpty \/ Copy \/ Post
-----------------------------------------------------------------------------
(* The client thread: phTmlUwb_ReadDeferredCb and phNxpUciHal_read_complete. *)
Take ==
    /\ client = "idle"
    /\ queue # << >>
    /\ tReadInfo' = [tReadInfo EXCEPT !.bThreadBusy = FALSE]
    /\ client' = "callback"
    /\ UNCHANGED <<rxSemaphore, reader, suspended, temp, Rx_data, queue, app,
                   recoveries, remote, empty, delivered>>

Callback ==
    /\ client = "callback"
    /\ delivered' = Append(delivered, Rx_data)
    /\ client' = "rearm"
    /\ UNCHANGED <<reading, reader, suspended, temp, Rx_data, queue, app,
                   recoveries, remote, empty>>

(* "Read again because read must be pending always." *)
Rearm ==
    /\ client = "rearm"
    /\ Read
    /\ queue' = Tail(queue)
    /\ client' = "idle"
    /\ UNCHANGED <<reader, suspended, temp, Rx_data, app,
                   recoveries, remote, empty, delivered>>

Client == Take \/ Callback \/ Rearm
-----------------------------------------------------------------------------
(* phNxpUciHal_uwbDeviceInit on the application's task. *)
FirstRead ==
    /\ app = "init"
    /\ Read
    /\ app' = "up"
    /\ UNCHANGED <<reader, suspended, temp, Rx_data, queue, client,
                   recoveries, remote, empty, delivered>>

(* From the end of a read to the post the reader does not wait: only an    *)
(* application woken by something else just then can overtake it there.    *)
CanRecover ==
    /\ app = "up"
    /\ recoveries < MaxRecovery
    /\ CutsPost \/ reader \notin {"copy", "post"}

(* Mutant: the recovery does not suspend the reader. *)
AbortOnly ==
    /\ CanRecover
    /\ recoveries' = recoveries + 1
    /\ tReadInfo' = [bEnable |-> FALSE, bThreadBusy |-> FALSE]
    /\ app' = "download"
    /\ UNCHANGED <<rxSemaphore, reader, suspended, temp, Rx_data, queue, client,
                   remote, empty, delivered>>

(* The recovery: phTmlUwb_reset, which is phTmlUwb_ReadAbort, and then     *)
(* phTmlUwb_suspendReader, at a priority above the two threads'.           *)
Abort ==
    /\ CanRecover
    /\ recoveries' = recoveries + 1
    /\ tReadInfo' = [bEnable |-> FALSE, bThreadBusy |-> FALSE]
    /\ suspended' = TRUE
    /\ app' = "download"
    /\ UNCHANGED <<rxSemaphore, reader, temp, Rx_data, queue, client,
                   remote, empty, delivered>>

(* The download restarts the controller, and takes so long that the client *)
(* has nothing left to do when it ends; then the reader is resumed and the *)
(* read asked for, before the reader can run.                              *)
Restart ==
    /\ app = "download"
    /\ client = "idle" /\ queue = << >>
    /\ wiped' = wiped \cup ToSet(wire)
    /\ wire' = << >>
    /\ suspended' = FALSE
    /\ Read
    /\ app' = "up"
    /\ UNCHANGED <<reader, temp, Rx_data, queue, client,
                   recoveries, sent, empty, delivered>>

Application == FirstRead \/ Abort \/ Restart

(* The controller has a packet to be read. *)
Controller ==
    /\ sent < MaxPacket
    /\ app # "download"
    /\ sent' = sent + 1
    /\ wire' = Append(wire, sent + 1)
    /\ UNCHANGED <<reading, reader, suspended, temp, Rx_data, queue, client, app,
                   recoveries, wiped, empty, delivered>>

Next == Reader \/ Client \/ Application \/ Controller

Spec == /\ Init /\ [][Next]_vars
        /\ WF_vars(Reader) /\ WF_vars(Client)
        /\ WF_vars(FirstRead) /\ WF_vars(Restart)
-----------------------------------------------------------------------------
(* Rx_data and the static transaction record are not written from the post *)
(* of a packet to the end of its callback, although bThreadBusy is cleared *)
(* before the callback and by the abort (phTmlUwb.c:598, :645).            *)
BufferIntact ==
    /\ Len(queue) <= 1
    /\ queue # << >> /\ client # "rearm" => Rx_data = Head(queue)

(* Each packet is taken once, in the order the controller sent them. *)
InOrder == \A i, j \in 1 .. Len(delivered) : i < j => delivered[i] < delivered[j]

(* phNxpUciHal.c:552, "Read again because read must be pending always": a  *)
(* packet is taken in the end, unless the controller restarts before.      *)
PacketTaken ==
    \A p \in 1 .. MaxPacket : sent >= p ~> p \in ToSet(delivered) \cup wiped
=============================================================================
