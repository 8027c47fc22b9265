------------------------ MODULE UciReassembly_proofs ------------------------
(***************************************************************************)
(* Proofs about UciReassembly, for every size of the buffer that holds a   *)
(* packet, every payload length and every number of messages and losses.   *)
(***************************************************************************)
EXTENDS UciReassembly, TLAPS

LEMMA Facts ==
    /\ NoHdr \notin Hdr
    /\ Payload \in Nat /\ Payload > 0
    /\ Lens \subseteq 1 .. Payload
    /\ Word \in Nat
    /\ Size \in Nat /\ Size < Word /\ 4 + Payload <= Size
    /\ MaxFrag \in Nat /\ MaxFrag > 0 /\ MaxMsg \in Nat /\ MaxLoss \in Nat
BY UciReassemblyAssumption DEF UciReassemblyAssumption, UCI_MSG_HDR_SIZE

(* What a channel sends next. *)
LEMMA PacketFacts ==
    ASSUME NEW ch \in Chan, NEW o, Sending(ch, o)
    PROVE  /\ Packet(o).len \in 1 .. Payload
           /\ Packet(o).piece \in Piece
           /\ Packet(o).hdr \in Hdr \cup {NoHdr}
           /\ Packet(o).piece.hdr = Packet(o).hdr
           /\ Packet(o).pbf \in BOOLEAN
           /\ Packet(o).mt \in {"rsp", "ntf", "data"}
           /\ Packet(o).mt = "data" <=> ch = "data"
<1>1. /\ o.m.id \in 1 .. MaxMsg /\ o.m.last \in Lens /\ o.m.n \in 1 .. MaxFrag
      /\ o.m.hdr \in Hdr \cup {NoHdr} /\ o.i \in 1 .. MaxFrag
      /\ o.m.mt \in {"rsp", "ntf", "data"} /\ (o.m.mt = "data" <=> ch = "data")
  BY DEF Sending, Msg, Chan
<1>2. Packet(o).len \in 1 .. Payload
  <2>1. Payload \in 1 .. Payload
    BY Facts
  <2>2. o.m.last \in Lens /\ Lens \subseteq 1 .. Payload
    BY <1>1, Facts, Zenon
  <2>3. Packet(o).len = Payload \/ Packet(o).len = o.m.last
    BY DEF Packet
  <2> QED
    BY <2>1, <2>2, <2>3, Zenon
<1> QED
  BY <1>1, <1>2 DEF Packet, Piece

-----------------------------------------------------------------------------
(* What a buffer always looks like.  The pieces of a control chain carry   *)
(* the chain's own header, which is what makes OneHeader inductive.        *)
ChainType == [is_first_frgmnt_done : BOOLEAN, key : Hdr \cup {NoHdr},
              offset : Nat, buffer : Seq(Piece)]

OfHeader(s, hdr) == \A k \in DOMAIN s : s[k].hdr = hdr

GoodChain(ch, c) ==
    /\ c \in ChainType
    /\ c.offset <= Size
    /\ c.is_first_frgmnt_done => c.offset > 4
    /\ ~c.is_first_frgmnt_done => c.offset = 0
    /\ c.is_first_frgmnt_done /\ ch = "ctl" => OfHeader(c.buffer, c.key)

UpType == [to : {"raw", "rsp", "ntf", "data"}, hdr : Hdr \cup {NoHdr},
           len : 0 .. Word - 1, pieces : Seq(Piece)]

GoodUp(u) ==
    u # NoUp => /\ u \in UpType
                /\ u.to # "data" => /\ OfHeader(u.pieces, u.hdr)
                                    /\ u.len \in 1 .. Size - 4

GoodOut(ch, o) == o = Idle \/ Sending(ch, o)

IInv ==
    /\ out = [ch \in Chan |-> out[ch]]
    /\ chain = [ch \in Chan |-> chain[ch]]
    /\ \A ch \in Chan : GoodOut(ch, out[ch]) /\ GoodChain(ch, chain[ch])
    /\ GoodUp(up)
    /\ rawCmdCbflag \in BOOLEAN /\ IsConformaceTestEnabled \in BOOLEAN
    /\ verdict \in [Chan -> {"whole", "spoilt", "troubled"}]
    /\ sent \in 0 .. MaxMsg /\ losses \in 0 .. MaxLoss
    /\ overrun \in BOOLEAN

LEMMA EmptyPieces == << >> \in Seq(Piece)
OBVIOUS

LEMMA OnePiece ==
    ASSUME NEW x \in Piece
    PROVE  <<x>> \in Seq(Piece) /\ OfHeader(<<x>>, x.hdr)
BY DEF OfHeader

LEMMA MorePieces ==
    ASSUME NEW s \in Seq(Piece), NEW x \in Piece
    PROVE  /\ Append(s, x) \in Seq(Piece)
           /\ OfHeader(s, x.hdr) => OfHeader(Append(s, x), x.hdr)
<1>1. Append(s, x) \in Seq(Piece)
  OBVIOUS
<1>2. ASSUME OfHeader(s, x.hdr) PROVE OfHeader(Append(s, x), x.hdr)
  BY <1>2 DEF OfHeader
<1> QED
  BY <1>1, <1>2

LEMMA EmptiedGood == \A ch \in Chan : GoodChain(ch, Emptied)
<1>1. Emptied \in ChainType
  BY EmptyPieces DEF Emptied, ChainType
<1> QED
  BY <1>1, Facts DEF GoodChain, Emptied

(* An open chain holds more than a header and leaves room for no more than *)
(* Free says (Grown).                                                      *)
LEMMA GrownGood ==
    ASSUME NEW ch \in Chan, NEW o, Sending(ch, o), GoodChain(ch, chain[ch]),
           rawCmdCbflag \in BOOLEAN,
           Continues(ch, Packet(o)), Added(Packet(o)) <= Free(ch)
    PROVE  /\ GoodChain(ch, Grown(ch, Packet(o)))
           /\ Grown(ch, Packet(o)).is_first_frgmnt_done
           /\ ch = "ctl" => Grown(ch, Packet(o)).key = Packet(o).hdr
<1> DEFINE p == Packet(o)
           c == chain[ch]
           g == Grown(ch, p)
<1>1. p.len \in 1 .. Payload /\ p.piece \in Piece /\ p.piece.hdr = p.hdr
  BY PacketFacts
<1>2. Added(p) \in Nat /\ Added(p) > 0
  BY <1>1, Facts DEF Added, UCI_MSG_HDR_SIZE
<1>3. c \in ChainType /\ c.is_first_frgmnt_done /\ (ch = "ctl" => c.key = p.hdr)
  BY DEF GoodChain, Continues
<1>4. c.offset \in Nat /\ c.buffer \in Seq(Piece) /\ c.offset > 4
  BY <1>3 DEF ChainType, GoodChain
<1>5. g = [c EXCEPT !.offset = c.offset + Added(p), !.buffer = Append(c.buffer, p.piece)]
  BY DEF Grown
<1>6. /\ g.offset = c.offset + Added(p) /\ g.buffer = Append(c.buffer, p.piece)
      /\ g.key = c.key /\ g.is_first_frgmnt_done = c.is_first_frgmnt_done
  BY <1>5, <1>3 DEF ChainType
<1>7. g.offset \in Nat /\ g.offset <= Size /\ g.offset > 4
  BY <1>2, <1>4, <1>6, Facts DEF Free
<1>8. g \in ChainType
  BY <1>1, <1>3, <1>4, <1>5, <1>7, <1>6, MorePieces DEF ChainType
<1>9. ch = "ctl" => OfHeader(g.buffer, g.key)
  BY <1>1, <1>3, <1>4, <1>6, MorePieces DEF GoodChain
<1> QED
  BY <1>3, <1>6, <1>7, <1>8, <1>9 DEF GoodChain
-----------------------------------------------------------------------------
(* What a packet leaves behind. *)
ChainsGood ==
    /\ chain = [ch \in Chan |-> chain[ch]]
    /\ \A ch \in Chan : GoodChain(ch, chain[ch])

Good ==
    /\ ChainsGood
    /\ GoodUp(up)
    /\ rawCmdCbflag \in BOOLEAN
    /\ overrun \in BOOLEAN

LEMMA ChainUpdate ==
    ASSUME ChainsGood, NEW ch \in Chan, NEW c, GoodChain(ch, c),
           chain' = [chain EXCEPT ![ch] = c]
    PROVE  ChainsGood'
BY DEF ChainsGood, GoodChain, ChainType, OfHeader

(* payload_length does not wrap when there is a payload behind the header. *)
LEMMA LengthGood ==
    /\ \A offset \in Nat : offset > 4 /\ offset <= Size
                            => PayloadLength(offset) \in 1 .. Size - 4
    /\ PayloadLength(0) \in 0 .. Word - 1
<1>1. \A x \in 0 .. Word - 1 : x % Word = x
  BY Facts, SMT
<1>2. ASSUME NEW offset \in Nat, offset > 4, offset <= Size
      PROVE  PayloadLength(offset) \in 1 .. Size - 4
  <2>1. offset - 4 \in 0 .. Word - 1
    BY <1>2, Facts
  <2> QED
    BY <1>1, <1>2, <2>1, Facts DEF PayloadLength, UCI_MSG_HDR_SIZE
<1>3. PayloadLength(0) \in 0 .. Word - 1
  <2>1. (0 - 4) % Word \in 0 .. Word - 1
    BY Facts, SMT
  <2> QED
    BY <2>1 DEF PayloadLength, UCI_MSG_HDR_SIZE
<1> QED
  BY <1>2, <1>3

LEMMA UpcallGood ==
    ASSUME NEW ch \in Chan, NEW o, Sending(ch, o), rawCmdCbflag \in BOOLEAN,
           NEW len \in 0 .. Word - 1, NEW s \in Seq(Piece),
           ch = "ctl" => OfHeader(s, Packet(o).hdr) /\ len \in 1 .. Size - 4
    PROVE  GoodUp(Upcall(Packet(o), len, s))
<1> DEFINE p == Packet(o)
           u == Upcall(p, len, s)
<1>1. /\ p.hdr \in Hdr \cup {NoHdr} /\ p.mt \in {"rsp", "ntf", "data"}
      /\ p.mt = "data" <=> ch = "data"
  BY PacketFacts
<1>2. u.to \in {"raw", p.mt} /\ (p.mt = "data" => u.to = "data")
  BY DEF Upcall, AsIs
<1>3. u.hdr = p.hdr /\ u.len = len /\ u.pieces = s
  BY DEF Upcall
<1>4. u \in UpType
  BY <1>1 DEF Upcall, UpType
<1>5. u.to # "data" => ch = "ctl"
  BY <1>1, <1>2 DEF Chan
<1> QED
  BY <1>3, <1>4, <1>5 DEF GoodUp

LEMMA NotLastGood ==
    ASSUME Good, NEW ch \in Chan, NEW o, Sending(ch, o), NotLast(ch, Packet(o)), ChainsGood'
    PROVE  Good'
<1> DEFINE p == Packet(o)
<1>1. rawCmdCbflag' \in BOOLEAN /\ overrun' \in BOOLEAN
  BY DEF NotLast, Good
<1>2. CASE ch = "data"
  <2>1. p.len \in 0 .. Word - 1 /\ <<p.piece>> \in Seq(Piece)
    BY PacketFacts, Facts, OnePiece
  <2>2. up' = Upcall(p, p.len, <<p.piece>>)
    BY <1>2 DEF NotLast
  <2>3. GoodUp(Upcall(p, p.len, <<p.piece>>))
    BY <1>2, <2>1, UpcallGood DEF Good
  <2>4. GoodUp(up')
    BY <2>2, <2>3
  <2> QED
    BY <1>1, <2>4 DEF Good, GoodUp
<1>3. CASE ch # "data"
  <2>1. up' = NoUp
    BY <1>3 DEF NotLast
  <2> QED
    BY <1>1, <2>1 DEF Good, GoodUp
<1> QED
  BY <1>2, <1>3

LEMMA HandUpGood ==
    ASSUME Good, NEW ch \in Chan, NEW o, Sending(ch, o),
           NEW offset \in Nat, NEW s \in Seq(Piece),
           \/ offset > 4 /\ offset <= Size /\ (ch = "ctl" => OfHeader(s, Packet(o).hdr))
           \/ offset = 0 /\ ch = "data",
           HandUp(ch, Packet(o), offset, s)
    PROVE  Good'
<1> DEFINE p == Packet(o)
<1>1. ChainsGood'
  <2>1. GoodChain(ch, Emptied) /\ ChainsGood
    BY EmptiedGood DEF Good
  <2>2. chain' = [chain EXCEPT ![ch] = Emptied]
    BY DEF HandUp
  <2> QED
    BY <2>1, <2>2, ChainUpdate
<1>2. rawCmdCbflag' \in BOOLEAN /\ overrun' \in BOOLEAN
  <2>1. rawCmdCbflag \in BOOLEAN /\ overrun' = overrun /\ overrun \in BOOLEAN
    BY DEF Good, HandUp
  <2>2. rawCmdCbflag' = FALSE \/ rawCmdCbflag' = rawCmdCbflag
    BY DEF HandUp
  <2>3. rawCmdCbflag' \in BOOLEAN
    BY <2>1, <2>2
  <2> QED
    BY <2>1, <2>3
<1>3. PayloadLength(offset) \in 0 .. Word - 1 /\ (ch = "ctl" => PayloadLength(offset) \in 1 .. Size - 4)
  BY LengthGood, Facts
<1>4. GoodUp(Upcall(p, PayloadLength(offset), s))
  BY <1>3, UpcallGood DEF Good
<1>5. up' = Upcall(p, PayloadLength(offset), s)
  BY DEF HandUp
<1>6. GoodUp(up)'
  BY <1>4, <1>5
<1> QED
  BY <1>1, <1>2, <1>6 DEF Good
-----------------------------------------------------------------------------
(* A packet keeps the chains and what goes up in order. *)
LEMMA PacketGood ==
    ASSUME Good, NEW ch \in Chan, NEW o, Sending(ch, o),
           \/ Open(ch, Packet(o))   \/ Extend(ch, Packet(o)) \/ Foreign(ch, Packet(o))
           \/ Overflow(ch, Packet(o)) \/ Finish(ch, Packet(o)) \/ Single(ch, Packet(o))
           \/ Overrun(ch, Packet(o))
    PROVE  Good'
<1> DEFINE p == Packet(o)
           c == chain[ch]
<1>1. /\ ChainsGood /\ GoodChain(ch, c) /\ rawCmdCbflag \in BOOLEAN
  BY DEF Good, ChainsGood
<1>2. /\ p.len \in 1 .. Payload /\ p.piece \in Piece /\ p.piece.hdr = p.hdr
      /\ p.hdr \in Hdr \cup {NoHdr}
  BY PacketFacts
<1>3. /\ <<p.piece>> \in Seq(Piece) /\ OfHeader(<<p.piece>>, p.hdr)
  BY <1>2, OnePiece
<1>4. /\ 4 + p.len \in Nat /\ 4 + p.len > 4 /\ 4 + p.len <= Size
  BY <1>2, Facts
<1>5. ASSUME Open(ch, p) PROVE Good'
  <2> DEFINE new == [is_first_frgmnt_done |-> TRUE, key |-> p.hdr,
                     offset |-> 4 + p.len, buffer |-> <<p.piece>>]
  <2>1. GoodChain(ch, new)
    BY <1>2, <1>3, <1>4 DEF GoodChain, ChainType
  <2>2. chain' = [chain EXCEPT ![ch] = new] /\ NotLast(ch, p)
    BY <1>5 DEF Open, UCI_MSG_HDR_SIZE
  <2>3. ChainsGood'
    BY <1>1, <2>1, <2>2, ChainUpdate
  <2> QED
    BY <2>2, <2>3, NotLastGood
<1>6. ASSUME Extend(ch, p) PROVE Good'
  <2>1. Continues(ch, p) /\ Added(p) <= Free(ch)
    BY <1>6 DEF Extend
  <2>2. GoodChain(ch, Grown(ch, p))
    BY <1>1, <2>1, GrownGood
  <2>3. chain' = [chain EXCEPT ![ch] = Grown(ch, p)] /\ NotLast(ch, p)
    BY <1>6 DEF Extend
  <2>4. ChainsGood'
    BY <1>1, <2>2, <2>3, ChainUpdate
  <2> QED
    BY <2>3, <2>4, NotLastGood
<1>7. ASSUME Foreign(ch, p) PROVE Good'
  <2>1. chain' = chain /\ NotLast(ch, p)
    BY <1>7 DEF Foreign
  <2>2. ChainsGood'
    BY <1>1, <2>1 DEF ChainsGood, GoodChain, ChainType, OfHeader
  <2> QED
    BY <2>1, <2>2, NotLastGood
<1>8. ASSUME Overflow(ch, p) PROVE Good'
  <2>1. CASE ch = "data" /\ HandUp(ch, p, 0, << >>)
    BY <2>1, EmptyPieces, HandUpGood
  <2>2. CASE chain' = [chain EXCEPT ![ch] = Emptied] /\ NotLast(ch, p)
    <3>1. ChainsGood'
      BY <1>1, <2>2, EmptiedGood, ChainUpdate
    <3> QED
      BY <2>2, <3>1, NotLastGood
  <2> QED
    BY <1>8, <2>1, <2>2 DEF Overflow
<1>9. ASSUME Finish(ch, p) PROVE Good'
  <2> DEFINE g == Grown(ch, p)
  <2>1. Continues(ch, p) /\ Added(p) <= Free(ch) /\ HandUp(ch, p, g.offset, g.buffer)
    BY <1>9 DEF Finish
  <2>2. /\ GoodChain(ch, g) /\ g.is_first_frgmnt_done /\ (ch = "ctl" => g.key = p.hdr)
    BY <1>1, <2>1, GrownGood
  <2>3. /\ g.offset \in Nat /\ g.buffer \in Seq(Piece)
        /\ g.offset > 4 /\ g.offset <= Size
        /\ ch = "ctl" => OfHeader(g.buffer, p.hdr)
    BY <2>2 DEF GoodChain, ChainType
  <2> HIDE DEF g
  <2> QED
    BY <2>1, <2>3, HandUpGood
<1>10. ASSUME Single(ch, p) PROVE Good'
  <2>1. HandUp(ch, p, 4 + p.len, <<p.piece>>)
    BY <1>10 DEF Single, UCI_MSG_HDR_SIZE
  <2> QED
    BY <1>3, <1>4, <2>1, HandUpGood
<1>11. ASSUME Overrun(ch, p) PROVE Good'
  <2>1. chain' = chain /\ rawCmdCbflag' = rawCmdCbflag /\ up' = NoUp /\ overrun' = TRUE
    BY <1>11 DEF Overrun
  <2>2. ChainsGood'
    BY <1>1, <2>1 DEF ChainsGood, GoodChain, ChainType, OfHeader
  <2> QED
    BY <1>1, <2>1, <2>2 DEF Good, GoodUp
<1> QED
  BY <1>5, <1>6, <1>7, <1>8, <1>9, <1>10, <1>11
-----------------------------------------------------------------------------
(* The controller's side. *)
LEMMA BeginGood ==
    ASSUME IInv, NEW ch \in Chan, Begin(ch)
    PROVE  IInv'
<1>1. PICK m \in Msg(ch) : out' = [out EXCEPT ![ch] =
          [m |-> m, i |-> 1,
           ok |-> Stored(m) <= Size /\ (IsConformaceTestEnabled => m.n = 1)]]
  BY DEF Begin
<1> DEFINE b == Stored(m) <= Size /\ (IsConformaceTestEnabled => m.n = 1)
           new == [m |-> m, i |-> 1, ok |-> b]
<1>2. Sending(ch, new)
  <2>1. m.n \in 1 .. MaxFrag
    BY DEF Msg
  <2>2. 1 \in 1 .. MaxFrag /\ 1 <= m.n
    BY <2>1, Facts
  <2>3. b \in BOOLEAN
    OBVIOUS
  <2> HIDE DEF b
  <2> QED
    BY <2>2, <2>3 DEF Sending
<1> HIDE DEF new
<1>3. out' = [out EXCEPT ![ch] = new]
  BY <1>1 DEF new
<1>4. out' = [k \in Chan |-> out'[k]] /\ \A k \in Chan : GoodOut(k, out'[k])
  BY <1>2, <1>3 DEF IInv, GoodOut
<1>5. sent' \in 0 .. MaxMsg
  BY Facts DEF IInv, Begin
<1>6. /\ chain' = chain /\ rawCmdCbflag' = rawCmdCbflag /\ up' = NoUp
      /\ IsConformaceTestEnabled' = IsConformaceTestEnabled /\ verdict' = verdict
      /\ losses' = losses /\ overrun' = overrun
  BY DEF Begin
<1> QED
  BY <1>4, <1>5, <1>6 DEF IInv, GoodUp, GoodOut

(* The next packet, or the end of the message. *)
LEMMA AdvanceGood ==
    ASSUME IInv, NEW ch \in Chan, Sending(ch, out[ch]), NEW good \in BOOLEAN,
           Advance(ch, good)
    PROVE  /\ out' = [k \in Chan |-> out'[k]]
           /\ \A k \in Chan : GoodOut(k, out'[k])
           /\ verdict' \in [Chan -> {"whole", "spoilt", "troubled"}]
<1> DEFINE o == out[ch]
<1>1. /\ o \in [m : Msg(ch), i : 1 .. MaxFrag, ok : BOOLEAN] /\ o.i <= o.m.n
      /\ o.m.n \in 1 .. MaxFrag
  BY DEF Sending, Msg
<1>2. out = [k \in Chan |-> out[k]] /\ \A k \in Chan : GoodOut(k, out[k])
  BY DEF IInv
<1>3. verdict \in [Chan -> {"whole", "spoilt", "troubled"}]
  BY DEF IInv
<1>4. CASE o.i < o.m.n
  <2> DEFINE b == o.ok /\ good
             new == [m |-> o.m, i |-> o.i + 1, ok |-> b]
  <2>1. out' = [out EXCEPT ![ch] = new] /\ verdict' = verdict
    BY <1>4, <1>2 DEF Advance
  <2>2. Sending(ch, new)
    <3>1. o.i + 1 \in 1 .. MaxFrag /\ o.i + 1 <= o.m.n
      BY <1>1, <1>4, Facts
    <3>2. b \in BOOLEAN
      OBVIOUS
    <3>3. o.m \in Msg(ch)
      BY <1>1
    <3> HIDE DEF b
    <3> QED
      BY <3>1, <3>2, <3>3 DEF Sending
  <2> HIDE DEF new
  <2> QED
    BY <1>2, <1>3, <2>1, <2>2 DEF GoodOut
<1>5. CASE ~(o.i < o.m.n)
  <2>1. out' = [out EXCEPT ![ch] = Idle]
    BY <1>5 DEF Advance
  <2>2. \E v \in {"whole", "spoilt", "troubled"} : verdict' = [verdict EXCEPT ![ch] = v]
    BY <1>5 DEF Advance
  <2> QED
    BY <1>2, <1>3, <2>1, <2>2 DEF GoodOut
<1> QED
  BY <1>4, <1>5

LEMMA InvInit == Init => IInv
<1> SUFFICES ASSUME Init PROVE IInv
  OBVIOUS
<1>1. \A ch \in Chan : GoodChain(ch, chain[ch])
  BY EmptiedGood DEF Init
<1>2. \A ch \in Chan : GoodOut(ch, out[ch])
  BY DEF Init, GoodOut
<1>3. 0 \in 0 .. MaxMsg /\ 0 \in 0 .. MaxLoss
  BY Facts
<1> QED
  BY <1>1, <1>2, <1>3 DEF Init, IInv, GoodUp

LEMMA InvNext == IInv /\ [Next]_vars => IInv'
<1> SUFFICES ASSUME IInv, [Next]_vars PROVE IInv'
  OBVIOUS
<1>1. ASSUME NEW ch \in Chan, Begin(ch) PROVE IInv'
  BY <1>1, BeginGood
<1>2. ASSUME NEW ch \in Chan, Arrive(ch) PROVE IInv'
  <2>1. Sending(ch, out[ch])
    BY <1>2 DEF Arrive, IInv, GoodOut
  <2>2. Good'
    BY <1>2, <2>1, PacketGood DEF Arrive, IInv, Good, ChainsGood
  <2>3. Advance(ch, TRUE)
    BY <1>2 DEF Arrive
  <2>4. /\ IsConformaceTestEnabled' = IsConformaceTestEnabled
        /\ sent' = sent /\ losses' = losses
    BY <1>2 DEF Arrive
  <2>5. /\ out' = [k \in Chan |-> out'[k]]
        /\ \A k \in Chan : GoodOut(k, out'[k])
        /\ verdict' \in [Chan -> {"whole", "spoilt", "troubled"}]
    BY <2>1, <2>3, AdvanceGood
  <2> QED
    BY <2>2, <2>4, <2>5 DEF IInv, Good, ChainsGood, GoodOut, GoodUp
<1>3. ASSUME NEW ch \in Chan, Lose(ch) PROVE IInv'
  <2>1. Sending(ch, out[ch])
    BY <1>3 DEF Lose, IInv, GoodOut
  <2>2. Advance(ch, FALSE)
    BY <1>3 DEF Lose
  <2>3. /\ out' = [k \in Chan |-> out'[k]]
        /\ \A k \in Chan : GoodOut(k, out'[k])
        /\ verdict' \in [Chan -> {"whole", "spoilt", "troubled"}]
    BY <2>1, <2>2, AdvanceGood
  <2>4. losses' \in 0 .. MaxLoss
    BY <1>3, Facts DEF Lose, IInv
  <2>5. /\ chain' = chain /\ rawCmdCbflag' = rawCmdCbflag /\ up' = NoUp
        /\ IsConformaceTestEnabled' = IsConformaceTestEnabled
        /\ sent' = sent /\ overrun' = overrun
    BY <1>3 DEF Lose
  <2> QED
    BY <2>3, <2>4, <2>5 DEF IInv, GoodOut, GoodUp
<1>4. ASSUME SendRaw PROVE IInv'
  BY <1>4 DEF SendRaw, IInv, GoodUp, GoodOut
<1>5. ASSUME EnterConformance PROVE IInv'
  <2>1. ASSUME NEW ch \in Chan, out[ch] = Idle PROVE GoodOut(ch, out'[ch])
    BY <1>5, <2>1 DEF EnterConformance, GoodOut
  <2>2. ASSUME NEW ch \in Chan, out[ch] # Idle PROVE GoodOut(ch, out'[ch])
    <3>1. out'[ch] = [m |-> out[ch].m, i |-> out[ch].i, ok |-> FALSE]
      BY <1>5, <2>2 DEF EnterConformance
    <3>2. Sending(ch, out[ch])
      BY <2>2 DEF IInv, GoodOut
    <3> QED
      BY <3>1, <3>2 DEF GoodOut, Sending
  <2>3. out' = [k \in Chan |-> out'[k]]
    BY <1>5 DEF EnterConformance
  <2>4. /\ chain' = chain /\ rawCmdCbflag' = rawCmdCbflag /\ up' = NoUp
        /\ IsConformaceTestEnabled' = TRUE /\ verdict' = verdict
        /\ sent' = sent /\ losses' = losses /\ overrun' = overrun
    BY <1>5 DEF EnterConformance
  <2> QED
    BY <2>1, <2>2, <2>3, <2>4 DEF IInv, GoodOut, GoodUp
<1>6. ASSUME UNCHANGED vars PROVE IInv'
  BY <1>6 DEF vars, IInv, GoodOut, GoodUp
<1> QED
  BY <1>1, <1>2, <1>3, <1>4, <1>5, <1>6 DEF Next
-----------------------------------------------------------------------------
LEMMA Invariant == Spec => []IInv
BY InvInit, InvNext, PTL DEF Spec

(* Every variable keeps its type; an offset is never negative.             *)
THEOREM ReassemblyTypeCorrect == Spec => []ReassemblyTypeOK
<1>1. IInv => ReassemblyTypeOK
  <2> SUFFICES ASSUME IInv PROVE ReassemblyTypeOK
    OBVIOUS
  <2>1. chain \in [Chan -> ChainType]
    BY DEF IInv, GoodChain
  <2>2. up = NoUp \/ up \in UpType
    BY DEF IInv, GoodUp
  <2> QED
    BY <2>1, <2>2 DEF IInv, GoodOut, ChainType, UpType, ReassemblyTypeOK
<1> QED
  BY <1>1, Invariant, PTL

(* The offset of a chain never passes the end of the buffer, and a chain   *)
(* that is not under way is empty (uwb_ucif.c:310, 438).                   *)
THEOREM BufferBound == Spec => []ChainFits
<1>1. IInv => ChainFits
  BY DEF IInv, GoodChain, ChainFits, UCI_MSG_HDR_SIZE
<1> QED
  BY <1>1, Invariant, PTL

(* What goes up of the control channel is of one header and its length has *)
(* not wrapped, whatever was lost (uwb_ucif.c:451, 491, 535).              *)
THEOREM ControlUpcalls == Spec => [](OneHeader /\ ControlLength)
<1>1. IInv => OneHeader /\ ControlLength
  BY DEF IInv, GoodUp, OfHeader, OneHeader, ControlLength, UCI_MSG_HDR_SIZE
<1> QED
  BY <1>1, Invariant, PTL

(* The length handed up with a control message has not wrapped in its      *)
(* uint16_t and is less than the buffer (uwb_ucif.c:451, 491, 535).        *)
THEOREM ControlLengths == Spec => []ControlLength
BY ControlUpcalls, PTL
-----------------------------------------------------------------------------
(***************************************************************************)
(* A loss is contained.  When a message follows one that left no trace, an *)
(* open chain is exactly the packets of that message so far, and what is   *)
(* still to come has room: Clean, which rests on what remains of a message *)
(* (Rest) shrinking by what its chain grows.                               *)
(***************************************************************************)
PieceOf(m, k) == [id |-> m.id, i |-> k, hdr |-> m.hdr]

Rest(o) == (o.m.n - o.i) * Payload + o.m.last

Headers(o) == IF o.m.mt = "rsp" THEN 4 * (o.m.n - o.i + 1) ELSE 0

Prefix(o, c, raw) ==
    /\ o.i = 1 => ~c.is_first_frgmnt_done
    /\ o.i > 1 => /\ c.is_first_frgmnt_done
                  /\ c.key = o.m.hdr
                  /\ c.buffer = [k \in 1 .. o.i - 1 |-> PieceOf(o.m, k)]
                  /\ c.offset + Rest(o) + Headers(o) <= Size
                  /\ ~(raw /\ o.m.mt = "rsp") => c.offset + Rest(o) = 4 + Octets(o.m)

CleanAt(ch) ==
    /\ out[ch] = Idle /\ verdict[ch] # "troubled" => ~chain[ch].is_first_frgmnt_done
    /\ out[ch] # Idle /\ out[ch].ok =>
         /\ Stored(out[ch].m) <= Size
         /\ IsConformaceTestEnabled => out[ch].m.n = 1
         /\ verdict[ch] # "troubled" => Prefix(out[ch], chain[ch], rawCmdCbflag)

Clean == ~overrun => \A ch \in Chan : CleanAt(ch)

LEMMA Multiply ==
    /\ \A k \in Nat : k * Payload \in Nat
    /\ \A k \in Nat : (k + 1) * Payload = k * Payload + Payload
BY Facts, SMT

(* One packet less to come. *)
LEMMA RestStep ==
    ASSUME NEW ch \in Chan, NEW o, Sending(ch, o), NEW b
    PROVE  /\ Rest(o) \in Nat
           /\ o.i < o.m.n => Rest([m |-> o.m, i |-> o.i + 1, ok |-> b]) = Rest(o) - Payload
           /\ o.i < o.m.n => Rest(o) > Payload
           /\ o.i = o.m.n => Rest(o) = o.m.last
           /\ o.i = 1 => Rest(o) = Octets(o.m)
<1> DEFINE k == o.m.n - o.i
           new == [m |-> o.m, i |-> o.i + 1, ok |-> b]
<1>1. /\ o.i \in 1 .. MaxFrag /\ o.m.n \in 1 .. MaxFrag /\ o.i <= o.m.n
      /\ o.m.last \in Lens
  BY DEF Sending, Msg
<1>2. o.m.last \in 1 .. Payload
  BY <1>1, Facts, Zenon
<1>3. k \in Nat /\ (o.i < o.m.n => k - 1 \in Nat)
  BY <1>1, Facts
<1>4. Rest(o) = k * Payload + o.m.last /\ k * Payload \in Nat
  BY <1>3, Multiply DEF Rest
<1>5. Rest(new) = (o.m.n - (o.i + 1)) * Payload + o.m.last
  BY DEF Rest
<1>6. ASSUME o.i < o.m.n PROVE Rest(new) = Rest(o) - Payload /\ Rest(o) > Payload
  <2>1. o.m.n - (o.i + 1) = k - 1 /\ k - 1 \in Nat
    BY <1>1, <1>3, <1>6
  <2>2. (k - 1) + 1 = k
    BY <1>3
  <2> HIDE DEF k
  <2>3. k * Payload = (k - 1) * Payload + Payload /\ (k - 1) * Payload \in Nat
    BY <2>1, <2>2, Multiply
  <2> QED
    BY <1>2, <1>4, <1>5, <2>1, <2>3, Facts
<1>7. ASSUME o.i = o.m.n PROVE Rest(o) = o.m.last
  <2>1. k = 0
    BY <1>1, <1>7
  <2> QED
    BY <1>2, <1>4, <2>1, Facts
<1>8. o.i = 1 => Rest(o) = Octets(o.m)
  BY DEF Rest, Octets
<1> QED
  BY <1>2, <1>4, <1>6, <1>7, <1>8, Facts

LEMMA OneMorePiece ==
    ASSUME NEW m, NEW j \in Nat
    PROVE  Append([k \in 1 .. j |-> PieceOf(m, k)], PieceOf(m, j + 1))
             = [k \in 1 .. j + 1 |-> PieceOf(m, k)]
<1> DEFINE s == [k \in 1 .. j |-> PieceOf(m, k)]
<1>1. Len(s) = j /\ s \in Seq({PieceOf(m, k) : k \in 1 .. j})
  OBVIOUS
<1> QED
  BY <1>1

(* payload_length of a chain that holds the octets of a message. *)
LEMMA LengthIs ==
    ASSUME NEW k \in Nat, k + 4 <= Size
    PROVE  PayloadLength(4 + k) = k
<1>1. k \in 0 .. Word - 1 /\ (4 + k) - 4 = k
  BY Facts
<1>2. \A x \in 0 .. Word - 1 : x % Word = x
  BY Facts, SMT
<1> QED
  BY <1>1, <1>2 DEF PayloadLength, UCI_MSG_HDR_SIZE

LEMMA UpcallDelivers ==
    ASSUME NEW ch \in Chan, NEW o, Sending(ch, o), NEW len,
           ~AsIs(Packet(o)) => len = Octets(o.m)
    PROVE  Delivered(Upcall(Packet(o), len, [k \in 1 .. o.m.n |-> PieceOf(o.m, k)]), o.m)
<1> DEFINE p == Packet(o)
           s == [k \in 1 .. o.m.n |-> PieceOf(o.m, k)]
           u == Upcall(p, len, s)
<1>1. p.mt = o.m.mt /\ p.mt \in {"rsp", "ntf", "data"}
  BY PacketFacts DEF Packet
<1>2. u.len = len /\ u.pieces = s /\ u.to = IF AsIs(p) THEN "raw" ELSE p.mt
  BY DEF Upcall
<1>3. u # NoUp
  <2>1. u.to # "none"
    BY <1>1, <1>2
  <2> QED
    BY <2>1 DEF NoUp
<1>4. u.to = o.m.mt => u.len = Octets(o.m)
  BY <1>1, <1>2
<1>5. s = [i \in 1 .. o.m.n |-> [id |-> o.m.id, i |-> i, hdr |-> o.m.hdr]]
  BY DEF PieceOf
<1> HIDE DEF u, s
<1> QED
  BY <1>2, <1>3, <1>4, <1>5 DEF Delivered, u, s

(* What the packet of a clean message meets: room. *)
LEMMA RoomForRest ==
    ASSUME NEW ch \in Chan, NEW o, Sending(ch, o), GoodChain(ch, chain[ch]),
           rawCmdCbflag \in BOOLEAN, o.i > 1, Prefix(o, chain[ch], rawCmdCbflag)
    PROVE  LET p == Packet(o) IN
           /\ Continues(ch, p) /\ HasRoom(ch, p) /\ Added(p) <= Free(ch)
           /\ Added(p) \in {p.len, p.len + 4} /\ (~AsIs(p) => Added(p) = p.len)
           /\ chain[ch].offset \in Nat
<1> DEFINE p == Packet(o)
           c == chain[ch]
<1>1. /\ c.is_first_frgmnt_done /\ c.key = o.m.hdr
      /\ c.offset + Rest(o) + Headers(o) <= Size
  BY DEF Prefix
<1>2. c.offset \in Nat
  BY DEF GoodChain, ChainType
<1>3. p.len \in 1 .. Payload /\ p.hdr = o.m.hdr /\ p.mt = o.m.mt
  BY PacketFacts DEF Packet
<1>4. /\ o.i \in Nat /\ o.m.n \in Nat /\ o.i <= o.m.n
  BY Facts DEF Sending, Msg
<1>5. Rest(o) \in Nat /\ p.len <= Rest(o)
  <2>1. CASE o.i < o.m.n
    <3>1. p.len = Payload
      BY <2>1 DEF Packet
    <3>2. Rest(o) > Payload /\ Rest(o) \in Nat
      BY <2>1, RestStep
    <3> QED
      BY <3>1, <3>2, Facts
  <2>2. CASE o.i = o.m.n
    <3>1. p.len = o.m.last
      BY <2>2, <1>4 DEF Packet
    <3>2. Rest(o) = o.m.last /\ Rest(o) \in Nat
      BY <2>2, RestStep
    <3> QED
      BY <3>1, <3>2
  <2> QED
    BY <1>4, <2>1, <2>2
<1>6. Headers(o) \in Nat /\ (p.mt = "rsp" => Headers(o) >= 4)
  BY <1>3, <1>4 DEF Headers
<1>7. Added(p) \in {p.len, p.len + 4} /\ (~AsIs(p) => Added(p) = p.len)
  BY DEF Added, UCI_MSG_HDR_SIZE
<1>8. Added(p) <= Rest(o) + Headers(o)
  <2>1. CASE AsIs(p)
    BY <2>1, <1>3, <1>5, <1>6, <1>7 DEF AsIs
  <2>2. CASE ~AsIs(p)
    BY <2>2, <1>3, <1>5, <1>6, <1>7
  <2> QED
    BY <2>1, <2>2
<1>9. Added(p) <= Free(ch) /\ HasRoom(ch, p)
  BY <1>1, <1>2, <1>3, <1>5, <1>6, <1>7, <1>8, Facts DEF Free, HasRoom
<1>10. Continues(ch, p)
  BY <1>1, <1>3 DEF Continues
<1> QED
  BY <1>2, <1>7, <1>9, <1>10

(* The numbers of a message: what it takes with its headers. *)
LEMMA StoredIs ==
    ASSUME NEW ch \in Chan, NEW o, Sending(ch, o)
    PROVE  /\ Octets(o.m) \in Nat
           /\ Stored(o.m) = Octets(o.m) + (IF o.m.mt = "rsp" THEN 4 * o.m.n ELSE 4)
           /\ o.m.n \in Nat /\ o.i \in Nat /\ o.i >= 1 /\ o.i <= o.m.n
           /\ Octets(o.m) + 4 <= Stored(o.m)
<1>1. /\ o.m.n \in 1 .. MaxFrag /\ o.i \in 1 .. MaxFrag /\ o.i <= o.m.n
      /\ o.m.last \in Lens
  BY DEF Sending, Msg
<1>2. o.m.last \in 1 .. Payload
  BY <1>1, Facts, Zenon
<1>3. o.m.n - 1 \in Nat
  BY <1>1, Facts
<1>4. (o.m.n - 1) * Payload \in Nat
  BY <1>3, Multiply
<1>5. Octets(o.m) \in Nat
  BY <1>2, <1>4, Facts DEF Octets
<1>6. Stored(o.m) = Octets(o.m) + (IF o.m.mt = "rsp" THEN 4 * o.m.n ELSE 4)
  BY DEF Stored, UCI_MSG_HDR_SIZE
<1> HIDE DEF Octets
<1>7. o.m.n \in Nat /\ o.i \in Nat /\ o.i >= 1 /\ o.m.n >= 1
  BY <1>1, Facts
<1>8. Octets(o.m) + 4 <= Stored(o.m)
  BY <1>5, <1>6, <1>7
<1> QED
  BY <1>1, <1>5, <1>6, <1>7, <1>8

(* The first packet of a longer message opens a chain that is its prefix. *)
LEMMA OpenClean ==
    ASSUME NEW ch \in Chan, NEW o, Sending(ch, o), NEW b, NEW c, NEW raw,
           o.i = 1, o.i < o.m.n, Stored(o.m) <= Size,
           c = [is_first_frgmnt_done |-> TRUE, key |-> Packet(o).hdr,
                offset |-> 4 + Packet(o).len, buffer |-> <<Packet(o).piece>>]
    PROVE  Prefix([m |-> o.m, i |-> o.i + 1, ok |-> b], c, raw)
<1> DEFINE new == [m |-> o.m, i |-> o.i + 1, ok |-> b]
<1>1. new.i = 2 /\ new.m = o.m
  OBVIOUS
<1>2. /\ Packet(o).hdr = o.m.hdr /\ Packet(o).len = Payload
      /\ Packet(o).piece = PieceOf(o.m, 1)
  BY DEF Packet, PieceOf
<1>3. Rest(new) = Octets(o.m) - Payload
  BY RestStep
<1>4. Headers(new) = IF o.m.mt = "rsp" THEN 4 * (o.m.n - 1) ELSE 0
  BY <1>1, StoredIs DEF Headers
<1>5. c.offset = 4 + Payload /\ c.is_first_frgmnt_done /\ c.key = o.m.hdr
  BY <1>2
<1>6. c.offset + Rest(new) = 4 + Octets(o.m)
  BY <1>3, <1>5, StoredIs, Facts
<1>7. c.offset + Rest(new) + Headers(new) <= Size
  BY <1>4, <1>6, StoredIs, Facts
<1>8. c.buffer = [k \in 1 .. new.i - 1 |-> PieceOf(o.m, k)]
  <2>1. c.buffer = <<PieceOf(o.m, 1)>>
    BY <1>2
  <2>2. <<PieceOf(o.m, 1)>> = [k \in 1 .. 1 |-> PieceOf(o.m, k)]
    OBVIOUS
  <2> QED
    BY <1>1, <2>1, <2>2
<1> HIDE DEF new
<1> QED
  BY <1>1, <1>5, <1>6, <1>7, <1>8 DEF Prefix, new

(* What Grown makes of the chain. *)
LEMMA GrownIs ==
    ASSUME NEW ch \in Chan, NEW p, GoodChain(ch, chain[ch])
    PROVE  /\ Grown(ch, p).offset = chain[ch].offset + Added(p)
           /\ Grown(ch, p).buffer = Append(chain[ch].buffer, p.piece)
           /\ Grown(ch, p).key = chain[ch].key
           /\ Grown(ch, p).is_first_frgmnt_done = chain[ch].is_first_frgmnt_done
<1>1. chain[ch] \in ChainType
  BY DEF GoodChain
<1>2. Grown(ch, p) = [chain[ch] EXCEPT !.offset = chain[ch].offset + Added(p),
                                       !.buffer = Append(chain[ch].buffer, p.piece)]
  BY DEF Grown
<1> QED
  BY <1>1, <1>2 DEF ChainType

LEMMA ExtendClean ==
    ASSUME NEW ch \in Chan, NEW o, Sending(ch, o), GoodChain(ch, chain[ch]), NEW b,
           rawCmdCbflag \in BOOLEAN,
           o.i > 1, o.i < o.m.n, Prefix(o, chain[ch], rawCmdCbflag)
    PROVE  Prefix([m |-> o.m, i |-> o.i + 1, ok |-> b], Grown(ch, Packet(o)), rawCmdCbflag)
<1> DEFINE new == [m |-> o.m, i |-> o.i + 1, ok |-> b]
           p == Packet(o)
           c == chain[ch]
           g == Grown(ch, p)
<1>1. new.i = o.i + 1 /\ new.m = o.m
  OBVIOUS
<1>2. p.len = Payload /\ p.piece = PieceOf(o.m, o.i) /\ p.mt = o.m.mt
  BY DEF Packet, PieceOf
<1>3. /\ c.is_first_frgmnt_done /\ c.key = o.m.hdr
      /\ c.buffer = [k \in 1 .. o.i - 1 |-> PieceOf(o.m, k)]
      /\ c.offset + Rest(o) + Headers(o) <= Size
      /\ ~(rawCmdCbflag /\ o.m.mt = "rsp") => c.offset + Rest(o) = 4 + Octets(o.m)
  BY DEF Prefix
<1>4. /\ g.offset = c.offset + Added(p) /\ g.buffer = Append(c.buffer, p.piece)
      /\ g.key = c.key /\ g.is_first_frgmnt_done = c.is_first_frgmnt_done
  BY GrownIs
<1>5. /\ c.offset \in Nat /\ Added(p) \in {p.len, p.len + 4}
      /\ ~AsIs(p) => Added(p) = p.len
  BY RoomForRest
<1>6. Rest(new) = Rest(o) - Payload /\ Rest(o) \in Nat
  BY RestStep
<1>7. o.m.n \in Nat /\ o.i \in Nat /\ o.i >= 1 /\ Octets(o.m) \in Nat
  BY StoredIs
<1>8. Headers(new) = IF o.m.mt = "rsp" THEN 4 * (o.m.n - o.i) ELSE 0
  BY <1>1, <1>7 DEF Headers
<1>9. Headers(o) = IF o.m.mt = "rsp" THEN 4 * (o.m.n - o.i) + 4 ELSE 0
  BY <1>7 DEF Headers
<1> HIDE DEF new, p, g
<1>10. g.offset + Rest(new) + Headers(new) <= Size
  <2>1. CASE o.m.mt = "rsp"
    <3> DEFINE k == 4 * (o.m.n - o.i)
    <3>1. k \in Int /\ Headers(new) = k /\ Headers(o) = k + 4
      BY <2>1, <1>7, <1>8, <1>9
    <3>2. Added(p) <= Payload + 4 /\ Added(p) \in Nat
      BY <1>2, <1>5, Facts
    <3>3. c.offset + Rest(o) + (k + 4) <= Size
      BY <3>1, <1>3
    <3>4. g.offset = c.offset + Added(p) /\ Rest(new) = Rest(o) - Payload
      BY <1>4, <1>6
    <3> HIDE DEF k, c
    <3> DEFINE A == Added(p)
               R == Rest(o)
    <3>5. A \in Nat /\ A <= Payload + 4 /\ R \in Nat /\ c.offset \in Nat
      BY <3>2, <1>5, <1>6
    <3>6. g.offset = c.offset + A /\ Rest(new) = R - Payload /\ c.offset + R + (k + 4) <= Size
      BY <3>3, <3>4
    <3> HIDE DEF A, R
    <3> QED
      BY <3>1, <3>5, <3>6, Facts
  <2>2. CASE o.m.mt # "rsp"
    <3>1. Added(p) = p.len
      BY <2>2, <1>2, <1>5 DEF AsIs
    <3> QED
      BY <2>2, <3>1, <1>2, <1>3, <1>4, <1>5, <1>6, <1>7, <1>8, <1>9, Facts
  <2> QED
    BY <2>1, <2>2
<1>11. ASSUME ~(rawCmdCbflag /\ o.m.mt = "rsp")
       PROVE  g.offset + Rest(new) = 4 + Octets(o.m)
  <2>1. Added(p) = p.len
    BY <1>2, <1>5, <1>11 DEF AsIs
  <2> QED
    BY <2>1, <1>2, <1>3, <1>4, <1>5, <1>6, <1>7, <1>11, Facts
<1>12. g.buffer = [k \in 1 .. new.i - 1 |-> PieceOf(o.m, k)]
  <2>1. o.i - 1 \in Nat /\ (o.i - 1) + 1 = o.i /\ new.i - 1 = o.i
    BY <1>1, <1>7
  <2> QED
    BY <2>1, <1>2, <1>3, <1>4, OneMorePiece
<1>13. g.is_first_frgmnt_done /\ g.key = o.m.hdr /\ new.i > 1
  BY <1>1, <1>3, <1>4, <1>7
<1> QED
  BY <1>1, <1>10, <1>11, <1>12, <1>13 DEF Prefix, new, p, g

(* The last packet completes the message. *)
LEMMA FinishClean ==
    ASSUME NEW ch \in Chan, NEW o, Sending(ch, o), GoodChain(ch, chain[ch]),
           rawCmdCbflag \in BOOLEAN, Stored(o.m) <= Size,
           o.i > 1, o.i = o.m.n, Prefix(o, chain[ch], rawCmdCbflag),
           HandUp(ch, Packet(o), Grown(ch, Packet(o)).offset, Grown(ch, Packet(o)).buffer)
    PROVE  Delivered(up', o.m)
<1> DEFINE p == Packet(o)
           c == chain[ch]
           g == Grown(ch, p)
<1>0. o.m.n \in Nat /\ o.i \in Nat /\ ~(o.i < o.m.n)
  BY StoredIs
<1>1. p.len = o.m.last /\ p.piece = PieceOf(o.m, o.i) /\ p.mt = o.m.mt
  BY <1>0 DEF Packet, PieceOf
<1>2. /\ c.buffer = [k \in 1 .. o.i - 1 |-> PieceOf(o.m, k)]
      /\ ~(rawCmdCbflag /\ o.m.mt = "rsp") => c.offset + Rest(o) = 4 + Octets(o.m)
  BY DEF Prefix
<1>3. g.offset = c.offset + Added(p) /\ g.buffer = Append(c.buffer, p.piece)
  BY GrownIs
<1>4. ~AsIs(p) => Added(p) = p.len
  BY RoomForRest
<1>5. Rest(o) = o.m.last
  BY RestStep
<1>6. /\ o.m.n \in Nat /\ o.i \in Nat /\ o.i >= 1 /\ Octets(o.m) \in Nat
      /\ Octets(o.m) + 4 <= Size
  BY StoredIs, Facts
<1>7. up' = Upcall(p, PayloadLength(g.offset), g.buffer)
  BY DEF HandUp
<1> HIDE DEF p, g
<1>8. ~AsIs(p) => g.offset = 4 + Octets(o.m)
  BY <1>1, <1>2, <1>3, <1>4, <1>5 DEF AsIs
<1>9. ~AsIs(p) => PayloadLength(g.offset) = Octets(o.m)
  BY <1>6, <1>8, LengthIs
<1>10. g.buffer = [k \in 1 .. o.m.n |-> PieceOf(o.m, k)]
  <2>1. o.i - 1 \in Nat /\ (o.i - 1) + 1 = o.i
    BY <1>6
  <2> QED
    BY <2>1, <1>1, <1>2, <1>3, OneMorePiece
<1> QED
  BY <1>7, <1>9, <1>10, UpcallDelivers DEF p

LEMMA SingleClean ==
    ASSUME NEW ch \in Chan, NEW o, Sending(ch, o), Stored(o.m) <= Size,
           o.i = 1, o.i = o.m.n,
           HandUp(ch, Packet(o), 4 + Packet(o).len, <<Packet(o).piece>>)
    PROVE  Delivered(up', o.m)
<1> DEFINE p == Packet(o)
<1>1. p.len = o.m.last /\ p.piece = PieceOf(o.m, 1)
  BY DEF Packet, PieceOf
<1>2. Octets(o.m) = o.m.last /\ Octets(o.m) \in Nat /\ Octets(o.m) + 4 <= Size
  <2>1. Rest(o) = o.m.last /\ Rest(o) = Octets(o.m)
    BY RestStep
  <2>2. Octets(o.m) \in Nat /\ Octets(o.m) + 4 <= Stored(o.m)
    BY StoredIs
  <2>3. Stored(o.m) = Octets(o.m) + (IF o.m.mt = "rsp" THEN 4 * o.m.n ELSE 4)
    BY StoredIs
  <2>4. Stored(o.m) \in Nat
    BY <2>2, <2>3
  <2> QED
    BY <2>1, <2>2, <2>4, Facts
<1>3. PayloadLength(4 + p.len) = Octets(o.m)
  BY <1>1, <1>2, LengthIs
<1>4. <<p.piece>> = [k \in 1 .. o.m.n |-> PieceOf(o.m, k)]
  <2>1. <<PieceOf(o.m, 1)>> = [k \in 1 .. 1 |-> PieceOf(o.m, k)]
    OBVIOUS
  <2>2. o.m.n = 1
    OBVIOUS
  <2> QED
    BY <1>1, <2>1, <2>2
<1>5. up' = Upcall(p, PayloadLength(4 + p.len), <<p.piece>>)
  BY DEF HandUp
<1> QED
  BY <1>3, <1>4, <1>5, UpcallDelivers
-----------------------------------------------------------------------------
(* Every packet of a message without a trace of an earlier one finds its   *)
(* place, and the last one delivers the message.                           *)
LEMMA PacketClean ==
    ASSUME IInv, ~overrun, NEW ch \in Chan, CleanAt(ch), verdict[ch] # "troubled",
           Sending(ch, out[ch]), out[ch] # Idle, out[ch].ok, NEW b,
           LET p == Packet(out[ch]) IN
             \/ Open(ch, p)   \/ Extend(ch, p) \/ Foreign(ch, p) \/ Overflow(ch, p)
             \/ Finish(ch, p) \/ Single(ch, p) \/ Overrun(ch, p)
    PROVE  LET o == out[ch] IN
           /\ o.i < o.m.n => Prefix([m |-> o.m, i |-> o.i + 1, ok |-> b],
                                    chain'[ch], rawCmdCbflag')
           /\ ~(o.i < o.m.n) => Delivered(up', o.m)
<1> DEFINE o == out[ch]
           p == Packet(o)
           c == chain[ch]
<1>1. /\ GoodChain(ch, c) /\ rawCmdCbflag \in BOOLEAN
      /\ chain = [k \in Chan |-> chain[k]]
  BY DEF IInv
<1>2. /\ Stored(o.m) <= Size /\ Prefix(o, c, rawCmdCbflag)
      /\ IsConformaceTestEnabled => o.m.n = 1
  BY DEF CleanAt
<1>3. o.m.n \in Nat /\ o.i \in Nat /\ o.i >= 1 /\ o.i <= o.m.n
  BY StoredIs
<1>4. Chaining(p) <=> o.i < o.m.n
  <2>1. p.pbf <=> o.i < o.m.n
    BY Zenon DEF Packet
  <2>2. o.i < o.m.n => ~IsConformaceTestEnabled
    BY <1>2, <1>3
  <2> HIDE DEF p
  <2> QED
    BY <2>1, <2>2, Zenon DEF Chaining
<1>5. CASE o.i = 1
  <2>1. ~c.is_first_frgmnt_done
    BY <1>2, <1>5 DEF Prefix
  <2>2. ~Continues(ch, p)
    BY <2>1 DEF Continues
  <2>3. Open(ch, p) \/ Single(ch, p)
    BY <2>1, <2>2 DEF Extend, Foreign, Overflow, Finish, Overrun
  <2>4. CASE Open(ch, p)
    <3> DEFINE new == [is_first_frgmnt_done |-> TRUE, key |-> p.hdr,
                       offset |-> 4 + p.len, buffer |-> <<p.piece>>]
    <3>1. chain' = [chain EXCEPT ![ch] = new] /\ Chaining(p)
      BY <2>4 DEF Open, UCI_MSG_HDR_SIZE
    <3>2. chain'[ch] = new
      BY <1>1, <3>1
    <3>3. o.i < o.m.n
      BY <1>4, <3>1
    <3> QED
      BY <1>2, <1>5, <3>2, <3>3, OpenClean
  <2>5. CASE Single(ch, p)
    <3>1. ~Chaining(p) /\ HandUp(ch, p, 4 + p.len, <<p.piece>>)
      BY <2>5 DEF Single, UCI_MSG_HDR_SIZE
    <3>2. o.i = o.m.n
      BY <1>3, <1>4, <3>1
    <3> QED
      BY <1>2, <1>3, <1>5, <3>1, <3>2, SingleClean
  <2> QED
    BY <2>3, <2>4, <2>5
<1>6. CASE o.i > 1
  <2>1. Continues(ch, p) /\ HasRoom(ch, p) /\ Added(p) <= Free(ch)
    BY <1>1, <1>2, <1>6, RoomForRest
  <2>2. c.is_first_frgmnt_done
    BY <2>1 DEF Continues
  <2>3. Extend(ch, p) \/ Finish(ch, p)
    BY <2>1, <2>2 DEF Open, Foreign, Overflow, Single, Overrun
  <2>4. CASE Extend(ch, p)
    <3>1. chain' = [chain EXCEPT ![ch] = Grown(ch, p)] /\ rawCmdCbflag' = rawCmdCbflag
      BY <2>4 DEF Extend, NotLast
    <3>2. chain'[ch] = Grown(ch, p)
      BY <1>1, <3>1
    <3>3. o.i < o.m.n
      BY <1>4, <2>4 DEF Extend
    <3> QED
      BY <1>1, <1>2, <1>6, <3>1, <3>2, <3>3, ExtendClean
  <2>5. CASE Finish(ch, p)
    <3>1. ~Chaining(p) /\ HandUp(ch, p, Grown(ch, p).offset, Grown(ch, p).buffer)
      BY <2>5 DEF Finish
    <3>2. o.i = o.m.n
      BY <1>3, <1>4, <3>1
    <3> QED
      BY <1>1, <1>2, <1>3, <1>6, <3>1, <3>2, FinishClean
  <2> QED
    BY <2>3, <2>4, <2>5
<1> QED
  BY <1>3, <1>5, <1>6

(* The last packet of a message, of whatever state it meets, leaves the    *)
(* chain empty.                                                            *)
LEMMA EndEmpties ==
    ASSUME IInv, NEW ch \in Chan, Arrive(ch), ~(out[ch].i < out[ch].m.n), ~overrun'
    PROVE  ~chain'[ch].is_first_frgmnt_done
<1> DEFINE p == Packet(out[ch])
<1>1. ~Chaining(p)
  BY DEF Chaining, Packet
<1>2. Overflow(ch, p) \/ Finish(ch, p) \/ Single(ch, p)
  BY <1>1 DEF Arrive, Open, Extend, Foreign, Overrun
<1>3. chain' = [chain EXCEPT ![ch] = Emptied]
  BY <1>1, <1>2 DEF Overflow, Finish, Single, HandUp
<1>4. chain'[ch] = Emptied
  BY <1>3 DEF IInv
<1> QED
  BY <1>4 DEF Emptied

(* What Advance makes of both channels. *)
LEMMA AdvanceIs ==
    ASSUME IInv, NEW ch \in Chan, NEW good \in BOOLEAN, Advance(ch, good)
    PROVE  LET o == out[ch] IN
           /\ \A k \in Chan : k # ch => out'[k] = out[k] /\ verdict'[k] = verdict[k]
           /\ o.i < o.m.n =>
                /\ out'[ch] = [m |-> o.m, i |-> o.i + 1, ok |-> o.ok /\ good]
                /\ verdict'[ch] = verdict[ch]
           /\ ~(o.i < o.m.n) =>
                /\ out'[ch] = Idle
                /\ verdict'[ch] = IF Delivered(up', o.m) THEN "whole"
                                  ELSE IF o.ok /\ good THEN "spoilt" ELSE "troubled"
<1> DEFINE o == out[ch]
<1>1. /\ out = [k \in Chan |-> out[k]]
      /\ verdict \in [Chan -> {"whole", "spoilt", "troubled"}]
  BY DEF IInv
<1>2. CASE o.i < o.m.n
  <2> DEFINE new == [m |-> o.m, i |-> o.i + 1, ok |-> o.ok /\ good]
  <2>1. out' = [out EXCEPT ![ch] = new] /\ verdict' = verdict
    BY <1>2 DEF Advance
  <2> HIDE DEF new
  <2>2. out'[ch] = new /\ \A k \in Chan : k # ch => out'[k] = out[k]
    BY <1>1, <2>1
  <2> QED
    BY <1>2, <2>1, <2>2 DEF new
<1>3. CASE ~(o.i < o.m.n)
  <2> DEFINE v == IF Delivered(up', o.m) THEN "whole"
                  ELSE IF o.ok /\ good THEN "spoilt" ELSE "troubled"
  <2>1. out' = [out EXCEPT ![ch] = Idle] /\ verdict' = [verdict EXCEPT ![ch] = v]
    BY <1>3 DEF Advance
  <2> HIDE DEF v
  <2>2. /\ out'[ch] = Idle /\ verdict'[ch] = v
        /\ \A k \in Chan : k # ch => out'[k] = out[k] /\ verdict'[k] = verdict[k]
    BY <1>1, <2>1
  <2> QED
    BY <1>3, <2>2 DEF v
<1> QED
  BY <1>2, <1>3

LEMMA AdvanceEnds ==
    ASSUME IInv, NEW ch \in Chan, NEW good \in BOOLEAN, Advance(ch, good), out'[ch] = Idle
    PROVE  ~(out[ch].i < out[ch].m.n)
<1> DEFINE o == out[ch]
           new == [m |-> o.m, i |-> o.i + 1, ok |-> o.ok /\ good]
<1>1. o.i < o.m.n => out'[ch] = new
  BY AdvanceIs
<1>2. new # Idle
  BY DEF Idle
<1> HIDE DEF new
<1> QED
  BY <1>1, <1>2

(* Clean holds of what a packet leaves behind, in the channel it is in. *)
LEMMA ArriveClean ==
    ASSUME IInv, ~overrun, NEW ch \in Chan, CleanAt(ch), Arrive(ch), ~overrun'
    PROVE  CleanAt(ch)'
<1> DEFINE o == out[ch]
<1>1. Sending(ch, o) /\ o # Idle
  BY DEF Arrive, IInv, GoodOut
<1>2. Advance(ch, TRUE) /\ IsConformaceTestEnabled' = IsConformaceTestEnabled
  BY DEF Arrive
<1>3. CASE o.i < o.m.n
  <2> DEFINE new == [m |-> o.m, i |-> o.i + 1, ok |-> o.ok /\ TRUE]
  <2>1. out'[ch] = new /\ verdict'[ch] = verdict[ch]
    BY <1>2, <1>3, AdvanceIs
  <2>2. new # Idle /\ new.m = o.m /\ (new.ok <=> o.ok)
    BY DEF Idle
  <2>3. ASSUME o.ok PROVE Stored(o.m) <= Size /\ (IsConformaceTestEnabled => o.m.n = 1)
    BY <1>1, <2>3 DEF CleanAt
  <2>4. ASSUME o.ok, verdict[ch] # "troubled" PROVE Prefix(new, chain'[ch], rawCmdCbflag')
    BY <1>1, <1>3, <2>4, PacketClean DEF Arrive
  <2> HIDE DEF new, o
  <2> QED
    BY <1>2, <2>1, <2>2, <2>3, <2>4 DEF CleanAt, Stored, Octets
<1>4. CASE ~(o.i < o.m.n)
  <2>1. out'[ch] = Idle
    BY <1>2, <1>4, AdvanceIs
  <2>2. ~chain'[ch].is_first_frgmnt_done
    BY <1>4, EndEmpties
  <2> QED
    BY <2>1, <2>2 DEF CleanAt
<1> QED
  BY <1>3, <1>4

(* A packet of one channel leaves the other as it is; a callback of raw    *)
(* commands is taken back only with no response under way.                 *)
LEMMA OtherClean ==
    ASSUME IInv, NEW ch \in Chan, NEW k \in Chan, k # ch, CleanAt(k), Arrive(ch), ~overrun'
    PROVE  CleanAt(k)'
<1> DEFINE p == Packet(out[ch])
<1>1. Sending(ch, out[ch])
  BY DEF Arrive, IInv, GoodOut
<1>2. /\ Advance(ch, TRUE) /\ IsConformaceTestEnabled' = IsConformaceTestEnabled
  BY DEF Arrive
<1>3. out'[k] = out[k] /\ verdict'[k] = verdict[k]
  BY <1>2, AdvanceIs
<1>4. chain'[k] = chain[k]
  <2>1. chain' = chain \/ \E c : chain' = [chain EXCEPT ![ch] = c]
    BY DEF Arrive, Open, Extend, Foreign, Overflow, Finish, Single, Overrun, HandUp
  <2> QED
    BY <2>1 DEF IInv
<1>5. ch = "data" => rawCmdCbflag' = rawCmdCbflag
  <2> SUFFICES ASSUME ch = "data" PROVE rawCmdCbflag' = rawCmdCbflag
    OBVIOUS
  <2>1. p.mt = "data"
    BY <1>1, PacketFacts
  <2>2. ~AsIs(p) /\ p.mt # "ntf"
    BY <2>1 DEF AsIs
  <2> HIDE DEF p
  <2>3. \/ Open(ch, p)   \/ Extend(ch, p) \/ Foreign(ch, p) \/ Overflow(ch, p)
        \/ Finish(ch, p) \/ Single(ch, p) \/ Overrun(ch, p)
    BY DEF Arrive, p
  <2> QED
    BY <2>2, <2>3 DEF Open, Extend, Foreign, Overflow, Finish, Single, Overrun, HandUp, NotLast
<1>6. out[k] # Idle /\ k = "data" => out[k].m.mt # "rsp"
  BY DEF IInv, GoodOut, Sending, Msg
<1>7. k = "data" \/ ch = "data"
  BY DEF Chan
<1>8. ASSUME out[k] # Idle, Prefix(out[k], chain[k], rawCmdCbflag)
      PROVE  Prefix(out[k], chain[k], rawCmdCbflag')
  BY <1>5, <1>6, <1>7, <1>8 DEF Prefix
<1> QED
  BY <1>2, <1>3, <1>4, <1>8 DEF CleanAt, Stored, Octets

LEMMA LoseClean ==
    ASSUME IInv, NEW ch \in Chan, NEW k \in Chan, CleanAt(k), Lose(ch)
    PROVE  CleanAt(k)'
<1>1. Advance(ch, FALSE) /\ up' = NoUp
  BY DEF Lose
<1>2. /\ chain' = chain /\ rawCmdCbflag' = rawCmdCbflag
      /\ IsConformaceTestEnabled' = IsConformaceTestEnabled
  BY DEF Lose
<1>3. CASE k # ch
  <2>1. out'[k] = out[k] /\ verdict'[k] = verdict[k]
    BY <1>1, <1>3, AdvanceIs
  <2> QED
    BY <1>2, <2>1 DEF CleanAt, Stored, Octets, Prefix, Rest, Headers
<1>4. CASE k = ch
  <2>1. CASE out[ch].i < out[ch].m.n
    <3> DEFINE o == out[ch]
               new == [m |-> o.m, i |-> o.i + 1, ok |-> o.ok /\ FALSE]
    <3>1. out'[ch] = new
      BY <1>1, <2>1, AdvanceIs
    <3>2. new.ok = FALSE /\ new # Idle
      BY DEF Idle
    <3> HIDE DEF new, o
    <3>3. out'[ch].ok = FALSE /\ out'[ch] # Idle
      BY <3>1, <3>2
    <3> QED
      BY <1>4, <3>3 DEF CleanAt
  <2>2. CASE ~(out[ch].i < out[ch].m.n)
    <3>1. ~Delivered(up', out[ch].m)
      BY <1>1 DEF Delivered
    <3>2. out'[ch] = Idle /\ verdict'[ch] = "troubled"
      BY <1>1, <2>2, <3>1, AdvanceIs
    <3> QED
      BY <1>4, <3>2 DEF CleanAt
  <2> QED
    BY <2>1, <2>2
<1> QED
  BY <1>3, <1>4

LEMMA BeginClean ==
    ASSUME IInv, NEW ch \in Chan, NEW k \in Chan, CleanAt(k), Begin(ch)
    PROVE  CleanAt(k)'
<1>1. PICK m \in Msg(ch) : out' = [out EXCEPT ![ch] =
          [m |-> m, i |-> 1,
           ok |-> Stored(m) <= Size /\ (IsConformaceTestEnabled => m.n = 1)]]
  BY DEF Begin
<1> DEFINE b == Stored(m) <= Size /\ (IsConformaceTestEnabled => m.n = 1)
           new == [m |-> m, i |-> 1, ok |-> b]
<1>2. /\ chain' = chain /\ rawCmdCbflag' = rawCmdCbflag /\ verdict' = verdict
      /\ IsConformaceTestEnabled' = IsConformaceTestEnabled
      /\ out[ch] = Idle
  BY DEF Begin
<1>3. new # Idle /\ new.m = m /\ new.i = 1 /\ new.ok = b
  BY DEF Idle
<1> HIDE DEF new
<1>4. out' = [out EXCEPT ![ch] = new] /\ out = [j \in Chan |-> out[j]]
  BY <1>1 DEF new, IInv
<1>5. CASE k # ch
  <2>1. out'[k] = out[k]
    BY <1>4, <1>5
  <2> QED
    BY <1>2, <2>1 DEF CleanAt, Stored, Octets, Prefix, Rest, Headers
<1>6. CASE k = ch
  <2>1. out'[ch] = new
    BY <1>4
  <2>2. verdict[ch] # "troubled" => ~chain[ch].is_first_frgmnt_done
    BY <1>2, <1>6 DEF CleanAt
  <2>3. ASSUME ~chain[ch].is_first_frgmnt_done PROVE Prefix(new, chain[ch], rawCmdCbflag)
    BY <1>3, <2>3 DEF Prefix
  <2> QED
    BY <1>2, <1>3, <1>6, <2>1, <2>2, <2>3 DEF CleanAt, Stored, Octets
<1> QED
  BY <1>5, <1>6

LEMMA SwitchClean ==
    ASSUME IInv, NEW k \in Chan, CleanAt(k), SendRaw \/ EnterConformance \/ UNCHANGED vars
    PROVE  CleanAt(k)'
<1>1. CASE SendRaw
  <2>1. /\ out' = out /\ chain' = chain /\ verdict' = verdict
        /\ IsConformaceTestEnabled' = IsConformaceTestEnabled /\ rawCmdCbflag' = TRUE
    BY <1>1 DEF SendRaw
  <2>2. ~rawCmdCbflag
    BY <1>1 DEF SendRaw
  <2>3. \A o, c : Prefix(o, c, FALSE) => Prefix(o, c, TRUE)
    BY DEF Prefix
  <2>4. \A o, c : Prefix(o, c, rawCmdCbflag) => Prefix(o, c, TRUE)
    BY <2>2, <2>3 DEF IInv
  <2> QED
    BY <2>1, <2>4 DEF CleanAt, Stored, Octets
<1>2. CASE EnterConformance
  <2>1. chain' = chain /\ verdict' = verdict
    BY <1>2 DEF EnterConformance
  <2>2. out[k] = Idle => out'[k] = Idle
    BY <1>2 DEF EnterConformance
  <2>3. out[k] # Idle => out'[k] = [m |-> out[k].m, i |-> out[k].i, ok |-> FALSE]
    BY <1>2 DEF EnterConformance
  <2>4. out[k] # Idle => out'[k] # Idle /\ out'[k].ok = FALSE
    BY <2>3 DEF Idle
  <2> QED
    BY <2>1, <2>2, <2>4 DEF CleanAt
<1>3. CASE UNCHANGED vars
  BY <1>3 DEF vars, CleanAt, Stored, Octets, Prefix, Rest, Headers
<1> QED
  BY <1>1, <1>2, <1>3

LEMMA CleanNext == IInv /\ Clean /\ [Next]_vars => Clean'
<1> SUFFICES ASSUME IInv, Clean, [Next]_vars, ~overrun', NEW k \in Chan
             PROVE  CleanAt(k)'
  BY DEF Clean
<1>1. ~overrun
  BY DEF Next, Begin, Arrive, Lose, SendRaw, EnterConformance, vars
<1>2. \A j \in Chan : CleanAt(j)
  BY <1>1 DEF Clean
<1>3. ASSUME NEW ch \in Chan, Arrive(ch) PROVE CleanAt(k)'
  <2>1. CASE k = ch
    BY <1>1, <1>2, <1>3, <2>1, ArriveClean
  <2>2. CASE k # ch
    BY <1>2, <1>3, <2>2, OtherClean
  <2> QED
    BY <2>1, <2>2
<1>4. ASSUME NEW ch \in Chan, Lose(ch) PROVE CleanAt(k)'
  BY <1>2, <1>4, LoseClean
<1>5. ASSUME NEW ch \in Chan, Begin(ch) PROVE CleanAt(k)'
  BY <1>2, <1>5, BeginClean
<1>6. ASSUME SendRaw \/ EnterConformance \/ UNCHANGED vars PROVE CleanAt(k)'
  BY <1>2, <1>6, SwitchClean
<1> QED
  BY <1>3, <1>4, <1>5, <1>6 DEF Next

LEMMA CleanInvariant == Spec => []Clean
<1>1. Init => Clean
  BY DEF Init, Clean, CleanAt, Emptied
<1> QED
  BY <1>1, CleanNext, Invariant, PTL DEF Spec

(* A message whose packets all arrive is delivered unless the one before   *)
(* it in its channel was lost in part or too long (uwb_ucif.c:434, 491).   *)
THEOREM LossContained == Spec => Contained
<1>1. IInv /\ Clean /\ [Next]_vars =>
        [\A ch \in Chan :
           out[ch] # Idle /\ out'[ch] = Idle /\ verdict'[ch] = "spoilt"
               => verdict[ch] = "troubled"]_vars
  <2> SUFFICES ASSUME IInv, Clean, Next, NEW k \in Chan,
                      out[k] # Idle, out'[k] = Idle, verdict'[k] = "spoilt",
                      verdict[k] # "troubled"
               PROVE  FALSE
    OBVIOUS
  <2>1. ~overrun
    BY DEF Next, Begin, Arrive, Lose, SendRaw, EnterConformance
  <2>2. CleanAt(k) /\ Sending(k, out[k])
    BY <2>1 DEF Clean, IInv, GoodOut
  <2>3. ASSUME NEW ch \in Chan, Arrive(ch) PROVE FALSE
    <3>1. Advance(ch, TRUE)
      BY <2>3 DEF Arrive
    <3>2. k = ch
      BY <3>1, AdvanceIs
    <3>3. ~(out[ch].i < out[ch].m.n)
      BY <3>1, <3>2, AdvanceEnds
    <3>4. out[ch].ok /\ ~Delivered(up', out[ch].m)
      BY <3>1, <3>2, <3>3, AdvanceIs
    <3>5. Delivered(up', out[ch].m)
      BY <2>1, <2>2, <2>3, <3>2, <3>3, <3>4, PacketClean DEF Arrive
    <3> QED
      BY <3>4, <3>5
  <2>4. ASSUME NEW ch \in Chan, Lose(ch) PROVE FALSE
    <3>1. Advance(ch, FALSE)
      BY <2>4 DEF Lose
    <3>2. k = ch
      BY <3>1, AdvanceIs
    <3>3. ~(out[ch].i < out[ch].m.n)
      BY <3>1, <3>2, AdvanceEnds
    <3> QED
      BY <3>1, <3>2, <3>3, AdvanceIs
  <2>5. ASSUME NEW ch \in Chan, Begin(ch) PROVE FALSE
    <3>1. PICK m \in Msg(ch) : out' = [out EXCEPT ![ch] =
            [m |-> m, i |-> 1,
             ok |-> Stored(m) <= Size /\ (IsConformaceTestEnabled => m.n = 1)]]
      BY <2>5 DEF Begin
    <3>2. out[ch] = Idle
      BY <2>5 DEF Begin
    <3> QED
      BY <3>1, <3>2 DEF IInv
  <2>6. ASSUME SendRaw \/ EnterConformance PROVE FALSE
    BY <2>6 DEF SendRaw, EnterConformance, Idle
  <2> QED
    BY <2>3, <2>4, <2>5, <2>6 DEF Next
<1> QED
  BY <1>1, Invariant, CleanInvariant, PTL DEF Spec, Contained
=============================================================================
