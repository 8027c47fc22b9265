--------------------------- MODULE UciReassembly ---------------------------
(***************************************************************************)
(* Chaining of what the controller sends in several packets, each but the  *)
(* last with the PBF bit set: responses and notifications in               *)
(* uwb_ucif_process_event, data in chain_data_packet.  Each of the two     *)
(* keeps one static chained_packet; the two channels are independent.      *)
(*                                                                         *)
(* The controller sends one message after the other in each channel.  A    *)
(* packet may be lost on its way (the mailbox is full, or no memory in     *)
(* uwb_main_hal_data_cback), and nothing tells the chain about it.  The    *)
(* mailbox keeps the order, so a packet is handled in the step it arrives. *)
(***************************************************************************)
EXTENDS Integers, Sequences

CONSTANTS Hdr,        \* group/opcode pairs of control messages
          NoHdr,      \* the key of an empty chain; data has no key
          Payload,    \* octets of a packet with PBF set: HOST_MAX_UCI_PAYLOAD_LENGTH
          Lens,       \* bound: payload lengths of the last packet of a message
          Size,       \* sizeof(chained_packet.buffer), 4204 on this target
          Word,       \* values of a uint16_t, 65536
          MaxFrag,    \* bound: packets of a message
          MaxMsg,     \* bound: messages sent
          MaxLoss,    \* bound: packets lost
          RawOn       \* bound: the application sends raw commands

UCI_MSG_HDR_SIZE == 4

ASSUME UciReassemblyAssumption ==
    /\ NoHdr \notin Hdr
    /\ Payload \in Nat \ {0}
    /\ Lens \subseteq 1 .. Payload
    /\ Size \in Nat /\ Word \in Nat /\ Size < Word
    /\ UCI_MSG_HDR_SIZE + Payload <= Size    \* UCI_MAX_DATA_LEN < sizeof(buffer)
    /\ MaxFrag \in Nat \ {0} /\ MaxMsg \in Nat /\ MaxLoss \in Nat
    /\ RawOn \in BOOLEAN

Chan == {"ctl", "data"}

(* id: ghost; n: its packets; last: payload length of the last one. *)
Msg(ch) ==
    IF ch = "data"
    THEN [id : 1 .. MaxMsg, mt : {"data"}, hdr : {NoHdr}, n : 1 .. MaxFrag, last : Lens]
    ELSE [id : 1 .. MaxMsg, mt : {"rsp", "ntf"}, hdr : Hdr, n : 1 .. MaxFrag, last : Lens]

(* A piece of a buffer: packet i of message id. *)
Piece == [id : 1 .. MaxMsg, i : 1 .. MaxFrag, hdr : Hdr \cup {NoHdr}]

VARIABLES
    out,          \* per channel, the message under way: m, next packet i, ok
    chain,        \* per channel, chained_packet
    rawCmdCbflag, \* uwb_cb.rawCmdCbflag
    IsConformaceTestEnabled,   \* uwb_cb.IsConformaceTestEnabled
    up,           \* ghost: the upcall of the last step
    verdict,      \* ghost: per channel, what became of the last message
    sent, losses, \* ghost: messages begun, packets lost
    overrun       \* ghost: a copy went past the end of a buffer

vars == <<out, chain, rawCmdCbflag, IsConformaceTestEnabled, up, verdict,
          sent, losses, overrun>>

Idle == [i |-> 0]
NoUp == [to |-> "none"]
Emptied ==
    [is_first_frgmnt_done |-> FALSE, key |-> NoHdr, offset |-> 0, buffer |-> << >>]

Init ==
    /\ out = [ch \in Chan |-> Idle]
    /\ chain = [ch \in Chan |-> Emptied]
    /\ rawCmdCbflag = FALSE
    /\ IsConformaceTestEnabled = FALSE
    /\ up = NoUp
    /\ verdict = [ch \in Chan |-> "whole"]
    /\ sent = 0 /\ losses = 0
    /\ overrun = FALSE
-----------------------------------------------------------------------------
(* The packet that comes next. *)
Packet(o) ==
    [mt    |-> o.m.mt,
     hdr   |-> o.m.hdr,
     pbf   |-> o.i < o.m.n,
     len   |-> IF o.i < o.m.n THEN Payload ELSE o.m.last,
     piece |-> [id |-> o.m.id, i |-> o.i, hdr |-> o.m.hdr]]

(* Conformance mode turns the chaining off. *)
Chaining(p) == ~IsConformaceTestEnabled /\ p.pbf

(* Mutant: group and opcode are not compared. *)
ContinuesAny(ch, p) == chain[ch].is_first_frgmnt_done

(* A control packet belongs to the chain if group and opcode agree; the    *)
(* message type is not compared.  The data chain compares nothing.         *)
Continues(ch, p) ==
    /\ chain[ch].is_first_frgmnt_done
    /\ ch = "ctl" => chain[ch].key = p.hdr

(* A response to a raw command is kept as it is, headers included; the     *)
(* room is checked for the payload alone.                                  *)
AsIs(p) == rawCmdCbflag /\ p.mt = "rsp"

Added(p) == IF AsIs(p) THEN p.len + UCI_MSG_HDR_SIZE ELSE p.len

Free(ch) == Size - chain[ch].offset

HasRoom(ch, p) == p.len <= Free(ch)

(* Mutant: payload_length has a sign. *)
SignedLength(offset) == offset - UCI_MSG_HDR_SIZE

(* payload_length is a uint16_t. *)
PayloadLength(offset) == (offset - UCI_MSG_HDR_SIZE) % Word
-----------------------------------------------------------------------------
Upcall(p, len, buffer) ==
    [to     |-> IF AsIs(p) THEN "raw" ELSE p.mt,
     hdr    |-> p.hdr,
     len    |-> len,
     pieces |-> buffer]

(* A packet that ends no message: of data, it goes up all the same. *)
NotLast(ch, p) ==
    /\ up' = IF ch = "data" THEN Upcall(p, p.len, <<p.piece>>) ELSE NoUp
    /\ UNCHANGED <<rawCmdCbflag, overrun>>

(* The chain is handed up and emptied.  A raw callback is used once; a     *)
(* device fault among the notifications takes it back.                     *)
HandUp(ch, p, offset, buffer) ==
    /\ up' = Upcall(p, PayloadLength(offset), buffer)
    /\ chain' = [chain EXCEPT ![ch] = Emptied]
    /\ \/ AsIs(p) /\ rawCmdCbflag' = FALSE
       \/ ~AsIs(p) /\ UNCHANGED rawCmdCbflag
       \/ p.mt = "ntf" /\ rawCmdCbflag' = FALSE
    /\ UNCHANGED overrun

(* Mutant: the header is counted twice. *)
GrownTwice(ch, p) ==
    [chain[ch] EXCEPT !.offset = @ + Added(p) + UCI_MSG_HDR_SIZE,
                      !.buffer = Append(@, p.piece)]

Grown(ch, p) ==
    [chain[ch] EXCEPT !.offset = @ + Added(p),
                      !.buffer = Append(@, p.piece)]

(* The first packet of a chain is stored with its header. *)
Open(ch, p) ==
    /\ Chaining(p) /\ ~chain[ch].is_first_frgmnt_done
    /\ chain' = [chain EXCEPT ![ch] =
         [is_first_frgmnt_done |-> TRUE,
          key    |-> p.hdr,
          offset |-> UCI_MSG_HDR_SIZE + p.len,
          buffer |-> <<p.piece>>]]
    /\ NotLast(ch, p)

Extend(ch, p) ==
    /\ Chaining(p) /\ Continues(ch, p) /\ Added(p) <= Free(ch)
    /\ chain' = [chain EXCEPT ![ch] = Grown(ch, p)]
    /\ NotLast(ch, p)

(* A packet of another message is dropped and the chain stays as it is. *)
Foreign(ch, p) ==
    /\ Chaining(p) /\ chain[ch].is_first_frgmnt_done /\ ~Continues(ch, p)
    /\ UNCHANGED chain
    /\ NotLast(ch, p)

(* Mutant: a control chain without room is handed up as well. *)
OverflowHandsUp(ch, p) ==
    /\ Continues(ch, p) /\ ~HasRoom(ch, p)
    /\ \/ ~Chaining(p) /\ HandUp(ch, p, 0, << >>)
       \/ /\ Chaining(p)
          /\ chain' = [chain EXCEPT ![ch] = Emptied]
          /\ NotLast(ch, p)

(* No room: the chain is thrown away, and the packet with it.  The data    *)
(* chain is then handed up as if nothing had happened, with offset 0.      *)
Overflow(ch, p) ==
    /\ Continues(ch, p) /\ ~HasRoom(ch, p)
    /\ \/ /\ ch = "data" /\ ~Chaining(p)
          /\ HandUp(ch, p, 0, << >>)
       \/ /\ ch = "ctl" \/ Chaining(p)
          /\ chain' = [chain EXCEPT ![ch] = Emptied]
          /\ NotLast(ch, p)

(* Mutant: the chain keeps its contents when it is handed up. *)
FinishKeeping(ch, p) ==
    /\ ~Chaining(p) /\ Continues(ch, p) /\ Added(p) <= Free(ch)
    /\ LET g == Grown(ch, p) IN up' = Upcall(p, PayloadLength(g.offset), g.buffer)
    /\ rawCmdCbflag' = (rawCmdCbflag /\ ~AsIs(p))
    /\ UNCHANGED <<chain, overrun>>

(* The last packet of a chain. *)
Finish(ch, p) ==
    /\ ~Chaining(p) /\ Continues(ch, p) /\ Added(p) <= Free(ch)
    /\ LET g == Grown(ch, p) IN HandUp(ch, p, g.offset, g.buffer)

(* A message of one packet; a chain of other messages is dropped. *)
Single(ch, p) ==
    /\ ~Chaining(p) /\ ~Continues(ch, p)
    /\ HandUp(ch, p, UCI_MSG_HDR_SIZE + p.len, <<p.piece>>)

(* The payload fits and the header does not: the copy runs over the end of *)
(* the buffer, and what follows is undefined.  The model stops here.       *)
Overrun(ch, p) ==
    /\ Continues(ch, p) /\ HasRoom(ch, p) /\ ~(Added(p) <= Free(ch))
    /\ overrun' = TRUE
    /\ up' = NoUp
    /\ UNCHANGED <<chain, rawCmdCbflag>>
-----------------------------------------------------------------------------
(* The controller. *)
Octets(m) == (m.n - 1) * Payload + m.last

(* A response may be stored with all its headers. *)
Stored(m) == Octets(m) + UCI_MSG_HDR_SIZE * (IF m.mt = "rsp" THEN m.n ELSE 1)

(* m went up complete, in order, once. *)
Delivered(u, m) ==
    /\ u # NoUp
    /\ u.pieces = [i \in 1 .. m.n |-> [id |-> m.id, i |-> i, hdr |-> m.hdr]]
    /\ u.to = m.mt => u.len = Octets(m)

Begin(ch) ==
    /\ ~overrun /\ out[ch] = Idle /\ sent < MaxMsg
    /\ \E m \in Msg(ch) :
         /\ m.id = sent + 1
         /\ out' = [out EXCEPT ![ch] =
              [m |-> m, i |-> 1,
               ok |-> Stored(m) <= Size /\ (IsConformaceTestEnabled => m.n = 1)]]
    /\ sent' = sent + 1
    /\ up' = NoUp
    /\ UNCHANGED <<chain, rawCmdCbflag, IsConformaceTestEnabled, verdict, losses, overrun>>

(* ok: none of its packets is lost, and the chain can hold it. *)
Advance(ch, ok) ==
    LET o == out[ch] IN
    IF o.i < o.m.n
    THEN /\ out' = [out EXCEPT ![ch] = [m |-> o.m, i |-> o.i + 1, ok |-> o.ok /\ ok]]
         /\ UNCHANGED verdict
    ELSE /\ out' = [out EXCEPT ![ch] = Idle]
         /\ verdict' = [verdict EXCEPT ![ch] =
              IF Delivered(up', o.m) THEN "whole"
              ELSE IF o.ok /\ ok THEN "spoilt" ELSE "troubled"]

Arrive(ch) ==
    /\ ~overrun /\ out[ch] # Idle
    /\ LET p == Packet(out[ch]) IN
         \/ Open(ch, p)   \/ Extend(ch, p) \/ Foreign(ch, p) \/ Overflow(ch, p)
         \/ Finish(ch, p) \/ Single(ch, p) \/ Overrun(ch, p)
    /\ Advance(ch, TRUE)
    /\ UNCHANGED <<IsConformaceTestEnabled, sent, losses>>

Lose(ch) ==
    /\ ~overrun /\ out[ch] # Idle /\ losses < MaxLoss
    /\ losses' = losses + 1
    /\ up' = NoUp
    /\ Advance(ch, FALSE)
    /\ UNCHANGED <<chain, rawCmdCbflag, IsConformaceTestEnabled, sent, overrun>>

(* UWA_SendRawCommand reaches the transport.  One segment of a raw command *)
(* (PBF) clears the flag again at once (uwb_ucif.c:253), which is no step; *)
(* that it clears a flag left by a former command too is not modelled.     *)
SendRaw ==
    /\ RawOn /\ ~overrun /\ ~rawCmdCbflag
    /\ rawCmdCbflag' = TRUE
    /\ up' = NoUp
    /\ UNCHANGED <<out, chain, IsConformaceTestEnabled, verdict, sent, losses, overrun>>

(* Hal_setOperationMode, by an application's task at any time. *)
EnterConformance ==
    /\ ~overrun /\ ~IsConformaceTestEnabled
    /\ IsConformaceTestEnabled' = TRUE
    /\ out' = [ch \in Chan |->
         IF out[ch] = Idle THEN Idle ELSE [m |-> out[ch].m, i |-> out[ch].i, ok |-> FALSE]]
    /\ up' = NoUp
    /\ UNCHANGED <<chain, rawCmdCbflag, verdict, sent, losses, overrun>>

Next ==
    \/ \E ch \in Chan : Begin(ch) \/ Arrive(ch) \/ Lose(ch)
    \/ SendRaw
    \/ EnterConformance

Spec == Init /\ [][Next]_vars
-----------------------------------------------------------------------------
Sending(ch, o) ==
    o \in [m : Msg(ch), i : 1 .. MaxFrag, ok : BOOLEAN] /\ o.i <= o.m.n

ReassemblyTypeOK ==
    /\ out = [ch \in Chan |-> out[ch]]
    /\ \A ch \in Chan : out[ch] = Idle \/ Sending(ch, out[ch])
    /\ chain \in [Chan -> [is_first_frgmnt_done : BOOLEAN, key : Hdr \cup {NoHdr},
                           offset : Nat, buffer : Seq(Piece)]]
    /\ rawCmdCbflag \in BOOLEAN
    /\ IsConformaceTestEnabled \in BOOLEAN
    /\ up = NoUp \/ up \in [to : {"raw", "rsp", "ntf", "data"}, hdr : Hdr \cup {NoHdr},
                            len : 0 .. Word - 1, pieces : Seq(Piece)]
    /\ verdict \in [Chan -> {"whole", "spoilt", "troubled"}]
    /\ sent \in 0 .. MaxMsg /\ losses \in 0 .. MaxLoss
    /\ overrun \in BOOLEAN

(* The room left in a buffer is computed without a sign from the offset:   *)
(* the offset never passes the end, and a chain is empty or holds a packet *)
(* (uwb_ucif.c:310, 438: the first packet is stored at the offset left).   *)
ChainFits ==
    \A ch \in Chan :
        /\ chain[ch].offset <= Size
        /\ chain[ch].is_first_frgmnt_done => chain[ch].offset > UCI_MSG_HDR_SIZE
        /\ ~chain[ch].is_first_frgmnt_done => chain[ch].offset = 0

(* Whatever is lost, what goes up of the control channel holds packets of  *)
(* one group and opcode, those it is dispatched by.                        *)
OneHeader ==
    up # NoUp /\ up.to # "data" => \A k \in DOMAIN up.pieces : up.pieces[k].hdr = up.hdr

(* A length never wraps: no control message goes up after an overflow.     *)
ControlLength == up # NoUp /\ up.to # "data" => up.len \in 1 .. Size - UCI_MSG_HDR_SIZE

(* A loss is contained: a message whose packets all arrive goes up whole,  *)
(* unless the message before it in its channel lost a packet or was longer *)
(* than the buffer.  The chain never carries a loss over two messages.     *)
Contained ==
    [][\A ch \in Chan :
        out[ch] # Idle /\ out'[ch] = Idle /\ verdict'[ch] = "spoilt"
            => verdict[ch] = "troubled"]_vars
-----------------------------------------------------------------------------
(* uwb_ucif.c:357: "p -> points to complete UCI packet".  What goes up of  *)
(* data is a complete message.                                             *)
DataComplete ==
    [][\A ch \in Chan :
        up'.to = "data" /\ out[ch] # out'[ch] /\ out[ch] # Idle /\ out[ch].ok
            => Delivered(up', out[ch].m)]_vars
=============================================================================
