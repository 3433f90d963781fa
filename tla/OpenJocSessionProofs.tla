------------------------ MODULE OpenJocSessionProofs ------------------------
(***************************************************************************)
(* Proofs about OpenJocSession, for every mode, unit, block and tail size, *)
(* every range of timestamps and any number of units and resets: types,    *)
(* the timestamps and the continuity of what is received, the account of   *)
(* samples at completion, and that completion is final.                    *)
(***************************************************************************)
EXTENDS OpenJocSession, SequenceTheorems, TLAPS

\* The end of a segment of the most units.
Last == MaxUnits * UnitSize

\* What is behind a packet: units decoded, and the times they were stamped for.
StreamInv(s, st) ==
  /\ s.next = Len(st) * UnitSize /\ Len(st) <= MaxUnits
  /\ s.rate = None => s.next = 0
  /\ s.next = 0 => s.tail = 0
  /\ s.held # None => s.held < Len(st) /\ s.metadata # <<>>
  /\ s.expected <= Last
  /\ s.origin # None => s.origin >= MinPts
  /\ \A i \in 1 .. Len(st) :
       st[i] # None => s.origin # None /\ st[i] = s.origin + (i - 1) * UnitSize

HeldInv(s, er) ==
  "topology" \notin er => s.metadata = (IF s.held = None THEN <<>> ELSE <<s.held>>)

Excused(l, er) == l > 0 \/ er \cap {"input", "topology", "emit"} # {}

\* Until a unit is lost the one held is the newest, and the next block begins where it does,
\* or, after a failed render, before it.
OrderInv(s, l, er) ==
  ~Excused(l, er) =>
    /\ s.held = None => s.next = 0 /\ s.expected = 0 /\ "render" \notin er
    /\ s.held # None =>
         /\ s.next = s.held * UnitSize + UnitSize
         /\ "render" \notin er => s.expected = s.held * UnitSize
         /\ "render" \in er => s.expected < s.held * UnitSize
    /\ s.end = s.expected

\* The samples that are not rendered yet.
HeldSamples(s) == IF s.held = None THEN 0 ELSE UnitSize

OpenAccount(s, r, l, er) ==
  er = {} => /\ s.held = None => s.next = 0
             /\ r + l + HeldSamples(s) = s.next

PlacedBlock(b, st) == b.unit # None => b.unit < Len(st) /\ b.start = b.unit * UnitSize

StampedFrame(f, s, st) ==
  /\ PlacedBlock(f.block, st)
  /\ f.pts # None => s.origin # None /\ f.pts = s.origin + (f.block.start + f.offset)

QueuedSamples ==
  (IF Len(queue) >= 1 THEN queue[1].count ELSE 0) + (IF Len(queue) >= 2 THEN queue[2].count ELSE 0)

StoreInv ==
  /\ Len(queue) <= 2 /\ (~drained => Len(queue) <= 1)
  /\ mode = "pull" => queue = <<>>
  /\ mode # "pull" => deferred = <<>> /\ current = None
  /\ deferred # <<>> => current = None /\ deferred[1].count = UnitSize
  /\ current # None => current.offset < current.block.count
  /\ terminal => drained /\ ~HasPendingOutput /\ "terminal" \in errors

EpochInv ==
  /\ \A i \in 1 .. Len(queue) : queue[i].block.epoch = epoch
  /\ \A i \in 1 .. Len(deferred) : deferred[i].epoch = epoch
  /\ current # None => current.block.epoch = epoch

StampInv ==
  /\ \A i \in 1 .. Len(queue) : StampedFrame(queue[i], stream, stamps)
  /\ \A i \in 1 .. Len(deferred) : deferred[i].unit # None /\ PlacedBlock(deferred[i], stamps)
  /\ current # None => current.block.unit # None /\ PlacedBlock(current.block, stamps)
  /\ got # None => StampedFrame(got, stream, stamps)

EndInv ==
  /\ ~drained \/ deferred # <<>> \/ current # None => stream.end <= Last
  /\ mode = "pull" => stream.end + stream.tail <= Last + TailSize

\* The pending frames follow what was received, and the stream ends where they do.
ChainInv ==
  ~Excused(lost, errors) =>
    /\ ~gapped
    /\ Len(queue) >= 1 => Position(queue[1]) = GotEnd
    /\ Len(queue) >= 2 => Position(queue[2]) = GotEnd + queue[1].count
    /\ deferred # <<>> => deferred[1].start = GotEnd
    /\ current # None => current.block.start + current.offset = GotEnd
    /\ ~terminal /\ (~drained \/ mode = "pull") =>
         stream.end = GotEnd + QueuedSamples + waiting

AccountInv ==
  /\ ~drained => /\ OrderInv(stream, lost, errors)
                 /\ OpenAccount(stream, received + QueuedSamples + waiting, lost, errors)
  /\ drained /\ errors = {} =>
       /\ stream.next = 0 => ~HasPendingOutput /\ received + lost = 0
       /\ stream.next > 0 /\ mode # "pull" =>
            received + QueuedSamples + lost =
              stream.next + (IF mode = "binaural" THEN TailSize ELSE GainSize)
       /\ stream.next > 0 /\ mode = "pull" =>
            IF waiting > 0 THEN received + waiting + lost = stream.next
            ELSE received + lost + stream.tail = stream.next + TailSize

IInv ==
  /\ TypeOK /\ StoreInv /\ EpochInv
  /\ StreamInv(stream, stamps) /\ HeldInv(stream, errors)
  /\ StampInv /\ EndInv /\ ChainInv /\ AccountInv

-----------------------------------------------------------------------------
(* Numbers *)

LEMMA Constants ==
  /\ UnitSize \in Nat /\ UnitSize > 0 /\ PullSize \in Nat /\ PullSize > 0
  /\ TailSize \in Nat /\ GainSize \in Nat /\ MaxUnits \in Nat /\ MaxEpoch \in Nat
  /\ MinPts \in Int /\ MaxPts \in Int /\ Last \in Nat
BY ConstantsAssumption DEF Last

LEMMA UnitEnd ==
  ASSUME NEW u \in Int
  PROVE  /\ u * UnitSize \in Int /\ (u >= 0 => u * UnitSize >= 0)
         /\ (u + 1) * UnitSize = u * UnitSize + UnitSize
BY ConstantsAssumption

LEMMA UnitsGrow ==
  ASSUME NEW u \in Nat, NEW v \in Nat, u < v
  PROVE  u * UnitSize + UnitSize <= v * UnitSize
<1> DEFINE k == v - (u + 1)
<1>1. k \in Nat /\ v = (u + 1) + k
  OBVIOUS
<1>2. UnitSize \in Nat
  BY Constants
<1> HIDE DEF k
<1>3. v * UnitSize = (u * UnitSize + UnitSize) + k * UnitSize
  BY <1>1, <1>2
<1>4. k * UnitSize \in Nat /\ u * UnitSize \in Nat
  BY <1>1, <1>2
<1>5. QED
  BY <1>2, <1>3, <1>4

LEMMA UnitsDiffer ==
  ASSUME NEW u \in Nat, NEW v \in Nat, u * UnitSize = v * UnitSize
  PROVE  u = v
<1>1. UnitSize \in Nat /\ UnitSize > 0 /\ u * UnitSize \in Int /\ v * UnitSize \in Int
  BY Constants, UnitEnd
<1>2. ~(u < v)
  BY <1>1, UnitsGrow
<1>3. ~(v < u)
  BY <1>1, UnitsGrow
<1>4. QED
  BY <1>2, <1>3

LEMMA UnitNumber ==
  ASSUME NEW u \in Nat
  PROVE  (u * UnitSize) \div UnitSize = u
BY ConstantsAssumption

LEMMA UnitFits ==
  ASSUME NEW n \in 0 .. MaxUnits
  PROVE  /\ n * UnitSize \in 0 .. Last
         /\ n < MaxUnits => n * UnitSize + UnitSize <= Last
<1>1. /\ MaxUnits \in Nat /\ UnitSize \in Nat /\ n \in Nat
      /\ n * UnitSize \in Int /\ n * UnitSize >= 0 /\ Last \in Nat
  BY Constants, UnitEnd
<1>2. n < MaxUnits => n * UnitSize + UnitSize <= MaxUnits * UnitSize
  BY <1>1, UnitsGrow
<1>3. n = MaxUnits => n * UnitSize = Last
  BY DEF Last
<1> DEFINE x == n * UnitSize
<1>4. n < MaxUnits => x + UnitSize <= Last
  BY <1>2 DEF Last
<1> HIDE DEF x
<1>5. x \in Int /\ x >= 0 /\ (n = MaxUnits => x = Last)
  BY <1>1, <1>3 DEF x
<1>6. x \in 0 .. Last
  BY <1>1, <1>4, <1>5
<1>7. QED
  BY <1>4, <1>6 DEF x

-----------------------------------------------------------------------------
(* Streams *)

\* A stream whose positions are not bounded yet.
Shape == [
  rate : Option(Rates), profile : Option(Profiles), core : Option(Cores),
  origin : Option(Int), next : Nat, end : Nat, frame : 0 .. MaxUnits, expected : Nat,
  base : Option(Bases), held : Option(Units), metadata : Seq(Units), tail : 0 .. TailSize]

LEMMA PositionsNat == Positions \subseteq Nat /\ 0 .. Last \subseteq Positions
<1>1. Positions = 0 .. Last + TailSize + GainSize
  BY DEF Positions, Last
<1>2. QED
  BY <1>1, Constants

LEMMA StreamsShape ==
  ASSUME NEW s \in Streams
  PROVE  /\ s \in Shape /\ s.next \in Positions /\ s.end \in Positions /\ s.expected \in Positions
BY PositionsNat DEF Streams, Shape

LEMMA ShapeStreams ==
  ASSUME NEW s \in Shape, s.next \in Positions, s.end \in Positions, s.expected \in Positions
  PROVE  s \in Streams
BY DEF Streams, Shape

LEMMA NoneIs ==
  /\ None \notin Int /\ None \notin Nat /\ None \notin Rates /\ None \notin Units
  /\ None \notin Frames /\ None \notin Pulls
<1>1. None \notin Int /\ None \notin Rates /\ None \notin Frames /\ None \notin Pulls
  BY ConstantsAssumption, NoneAssumption
<1>2. Units \subseteq Int /\ Nat \subseteq Int
  BY Constants DEF Units
<1>3. QED
  BY <1>1, <1>2

LEMMA ShapeFields ==
  ASSUME NEW s \in Shape
  PROVE  /\ s.next \in Nat /\ s.end \in Nat /\ s.expected \in Nat /\ s.tail \in 0 .. TailSize
         /\ s.frame \in 0 .. MaxUnits /\ s.origin \in Option(Int) /\ s.held \in Option(Units)
         /\ s.metadata \in Seq(Units) /\ s.rate \in Option(Rates)
BY DEF Shape

LEMMA FreshShape ==
  /\ Fresh \in Shape /\ Fresh.rate = None /\ Fresh.origin = None /\ Fresh.next = 0 /\ Fresh.end = 0
  /\ Fresh.frame = 0 /\ Fresh.expected = 0 /\ Fresh.held = None /\ Fresh.metadata = <<>>
  /\ Fresh.tail = 0
<1>1. <<>> \in Seq(Units) /\ 0 \in 0 .. MaxUnits /\ 0 \in 0 .. TailSize
  BY Constants, EmptySeq
<1>2. Fresh \in Shape
  BY <1>1 DEF Fresh, Shape, Option
<1>3. QED
  BY <1>2 DEF Fresh

SameClock(s, t) == t.next = s.next /\ t.end = s.end /\ t.tail = s.tail /\ t.frame = s.frame
SameUnits(s, t) == t.held = s.held /\ t.metadata = s.metadata /\ t.expected = s.expected

\* What an anchor or a stamp may do to the origin.
Anchors(s, t, stamp) ==
  /\ s.origin # None => t.origin = s.origin
  /\ t.origin # None => t.origin >= MinPts
  /\ stamp # None => t.origin # None /\ stamp = t.origin + s.next

LEMMA PacketTypes ==
  ASSUME NEW p \in Packets
  PROVE  /\ p.pts \in Option(Pts) /\ p.discontinuity \in BOOLEAN /\ p.follows \in BOOLEAN
         /\ p.rate \in Rates /\ p.profile \in Profiles /\ p.core \in Cores /\ p.base \in Bases
         /\ p.rate # None /\ (p.pts # None => p.pts \in Int)
BY NoneIs, Constants DEF Packets, Option, Pts

LEMMA AnchoredFields ==
  ASSUME NEW s \in Shape, NEW p \in Packets, s.origin # None => s.origin >= MinPts,
         TimestampFits(s, p)
  PROVE  /\ Anchored(s, p) \in Shape /\ SameClock(s, Anchored(s, p)) /\ SameUnits(s, Anchored(s, p))
         /\ Anchored(s, p).rate = s.rate /\ Anchors(s, Anchored(s, p), p.pts)
<1> DEFINE v == p.pts - s.next
<1>1. /\ p.pts \in Option(Pts) /\ (p.pts # None => p.pts \in Int) /\ s.next \in Nat
      /\ s.origin \in Option(Int)
  BY PacketTypes DEF Shape
<1>2. CASE p.pts = None \/ s.origin # None
  <2>1. Anchored(s, p) = s
    BY <1>2 DEF Anchored
  <2>2. p.pts # None => s.origin # None /\ p.pts = s.origin + s.next
    BY <1>2 DEF TimestampFits
  <2>3. QED
    BY <2>1, <2>2 DEF SameClock, SameUnits, Anchors
<1>3. CASE p.pts # None /\ s.origin = None
  <2>1. Anchored(s, p) = [s EXCEPT !.origin = v]
    BY <1>3 DEF Anchored
  <2>2. v \in Int /\ v >= MinPts /\ p.pts = v + s.next
    BY <1>1, <1>3, Constants DEF TimestampFits
  <2> HIDE DEF v
  <2>3. v # None /\ v \in Option(Int)
    BY <2>2, NoneIs DEF Option
  <2>4. /\ [s EXCEPT !.origin = v] \in Shape /\ [s EXCEPT !.origin = v].origin = v
        /\ SameClock(s, [s EXCEPT !.origin = v]) /\ SameUnits(s, [s EXCEPT !.origin = v])
        /\ [s EXCEPT !.origin = v].rate = s.rate
    BY <2>3 DEF Shape, SameClock, SameUnits
  <2>5. QED
    BY <1>3, <2>1, <2>2, <2>3, <2>4 DEF Anchors
<1>4. QED
  BY <1>2, <1>3

\* The values that a unit pins: rate, then profile.
LEMMA RateFields ==
  ASSUME NEW s \in Shape, NEW r \in Rates
  PROVE  /\ [s EXCEPT !.rate = r] \in Shape /\ [s EXCEPT !.rate = r].rate = r
         /\ [s EXCEPT !.rate = r].origin = s.origin
         /\ SameClock(s, [s EXCEPT !.rate = r]) /\ SameUnits(s, [s EXCEPT !.rate = r])
BY DEF Shape, Option, SameClock, SameUnits

LEMMA ProfileFields ==
  ASSUME NEW s \in Shape, NEW f \in Profiles
  PROVE  /\ [s EXCEPT !.profile = f] \in Shape /\ [s EXCEPT !.profile = f].rate = s.rate
         /\ [s EXCEPT !.profile = f].origin = s.origin
         /\ SameClock(s, [s EXCEPT !.profile = f]) /\ SameUnits(s, [s EXCEPT !.profile = f])
BY DEF Shape, Option, SameClock, SameUnits

LEMMA CoreFields ==
  ASSUME NEW s \in Shape, NEW c \in Cores
  PROVE  /\ [s EXCEPT !.core = c] \in Shape /\ [s EXCEPT !.core = c].rate = s.rate
         /\ [s EXCEPT !.core = c].origin = s.origin
         /\ SameClock(s, [s EXCEPT !.core = c]) /\ SameUnits(s, [s EXCEPT !.core = c])
BY DEF Shape, Option, SameClock, SameUnits

LEMMA BaseFields ==
  ASSUME NEW s \in Shape, NEW b \in Option(Bases)
  PROVE  /\ [s EXCEPT !.base = b] \in Shape /\ [s EXCEPT !.base = b].rate = s.rate
         /\ [s EXCEPT !.base = b].origin = s.origin
         /\ SameClock(s, [s EXCEPT !.base = b]) /\ SameUnits(s, [s EXCEPT !.base = b])
BY DEF Shape, SameClock, SameUnits

LEMMA NextFields ==
  ASSUME NEW s \in Shape, NEW v \in Nat
  PROVE  LET t == [s EXCEPT !.next = v] IN
         /\ t \in Shape /\ t.next = v /\ t.rate = s.rate /\ t.origin = s.origin
         /\ t.end = s.end /\ t.tail = s.tail /\ t.frame = s.frame /\ SameUnits(s, t)
BY DEF Shape, SameUnits

LEMMA ExpectedFields ==
  ASSUME NEW s \in Shape, NEW v \in Nat
  PROVE  LET t == [s EXCEPT !.expected = v] IN
         /\ t \in Shape /\ t.expected = v /\ t.rate = s.rate /\ t.origin = s.origin
         /\ t.held = s.held /\ t.metadata = s.metadata /\ SameClock(s, t)
BY DEF Shape, SameClock

LEMMA PinnedFields ==
  ASSUME NEW p \in Packets, Started(p) \in Shape, TimestampFits(Started(p), p),
         Started(p).origin # None => Started(p).origin >= MinPts
  PROVE  /\ Pinned(p) \in Shape /\ Pinned(p).rate = p.rate
         /\ SameClock(Started(p), Pinned(p)) /\ SameUnits(Started(p), Pinned(p))
         /\ Anchors(Started(p), Pinned(p), p.pts)
<1> DEFINE s == Started(p)
           a == Anchored(s, p)
           b == [a EXCEPT !.rate = p.rate]
           c == [b EXCEPT !.profile = p.profile]
<1>1. Pinned(p) = c
  BY DEF Pinned
<1> HIDE DEF s
<1>2. a \in Shape /\ SameClock(s, a) /\ SameUnits(s, a) /\ Anchors(s, a, p.pts)
  BY AnchoredFields DEF s
<1> HIDE DEF a
<1>3. b \in Shape /\ b.rate = p.rate /\ b.origin = a.origin /\ SameClock(a, b) /\ SameUnits(a, b)
  BY <1>2, RateFields, PacketTypes
<1> HIDE DEF b
<1>4. c \in Shape /\ c.rate = b.rate /\ c.origin = b.origin /\ SameClock(b, c) /\ SameUnits(b, c)
  BY <1>3, ProfileFields, PacketTypes
<1> HIDE DEF c
<1>5. QED
  BY <1>1, <1>2, <1>3, <1>4 DEF s, SameClock, SameUnits, Anchors

LEMMA SplicedFields ==
  ASSUME NEW s \in Shape, NEW p
  PROVE  /\ Spliced(s, p) \in Shape /\ Spliced(s, p).rate = s.rate
         /\ Spliced(s, p).origin = s.origin /\ SameClock(s, Spliced(s, p))
         /\ ~Splices(s, p) => SameUnits(s, Spliced(s, p))
         /\ Splices(s, p) => /\ Spliced(s, p).held = None /\ Spliced(s, p).metadata = <<>>
                             /\ Spliced(s, p).expected = s.next
<1>1. CASE ~Splices(s, p)
  BY <1>1 DEF Spliced, SameClock, SameUnits
<1>2. CASE Splices(s, p)
  <2> DEFINE a == [s EXCEPT !.held = None]
             b == [a EXCEPT !.metadata = <<>>]
             c == [b EXCEPT !.base = None]
             d == [c EXCEPT !.expected = s.next]
  <2>1. Spliced(s, p) = d
    BY <1>2 DEF Spliced
  <2>2. <<>> \in Seq(Units) /\ s.next \in Nat
    BY EmptySeq DEF Shape
  <2>3. a \in Shape /\ a.held = None /\ a.rate = s.rate /\ a.origin = s.origin /\ SameClock(s, a)
    BY DEF Shape, Option, SameClock
  <2> HIDE DEF a
  <2>4. /\ b \in Shape /\ b.held = None /\ b.metadata = <<>> /\ b.rate = s.rate
        /\ b.origin = s.origin /\ SameClock(s, b)
    BY <2>2, <2>3 DEF Shape, SameClock
  <2> HIDE DEF b
  <2>5. /\ c \in Shape /\ c.rate = b.rate /\ c.origin = b.origin
        /\ SameClock(b, c) /\ SameUnits(b, c)
    BY <2>4, BaseFields DEF Option
  <2> HIDE DEF c
  <2>6. /\ d \in Shape /\ d.held = c.held /\ d.metadata = c.metadata /\ d.rate = c.rate
        /\ d.origin = c.origin /\ SameClock(c, d) /\ d.expected = s.next
    BY <2>2, <2>5, ExpectedFields
  <2> HIDE DEF d
  <2>7. QED
    BY <1>2, <2>1, <2>4, <2>5, <2>6 DEF SameClock, SameUnits
<1>3. QED
  BY <1>1, <1>2

LEMMA DecodedFields ==
  ASSUME NEW p \in Packets, Started(p) \in Shape, TimestampFits(Started(p), p),
         Started(p).origin # None => Started(p).origin >= MinPts
  PROVE  /\ Decoded(p) \in Shape /\ Decoded(p).rate = p.rate
         /\ Anchors(Started(p), Decoded(p), p.pts)
         /\ Decoded(p).next = Started(p).next + UnitSize
         /\ Decoded(p).end = Started(p).end /\ Decoded(p).tail = Started(p).tail
         /\ Decoded(p).frame = Started(p).frame
         /\ ~Splices(Started(p), p) => SameUnits(Started(p), Decoded(p))
         /\ Splices(Started(p), p) => /\ Decoded(p).held = None /\ Decoded(p).metadata = <<>>
                                      /\ Decoded(p).expected = Started(p).next
<1> DEFINE s == Started(p)
           a == Pinned(p)
           b == Spliced(a, p)
           c == [b EXCEPT !.next = @ + UnitSize]
<1>1. Decoded(p) = c
  BY DEF Decoded
<1>2. a \in Shape /\ a.rate = p.rate /\ SameClock(s, a) /\ SameUnits(s, a) /\ Anchors(s, a, p.pts)
  BY PinnedFields
<1> HIDE DEF a, s
<1>3. Splices(a, p) <=> Splices(s, p)
  BY <1>2 DEF Splices, SameClock
<1>4. /\ b \in Shape /\ b.rate = p.rate /\ b.origin = a.origin /\ SameClock(a, b)
      /\ ~Splices(s, p) => SameUnits(a, b)
      /\ Splices(s, p) => b.held = None /\ b.metadata = <<>> /\ b.expected = a.next
  BY <1>2, <1>3, SplicedFields
<1> HIDE DEF b
<1>5. b.next + UnitSize \in Nat
  <2>1. b.next \in Nat
    BY <1>4, ShapeFields
  <2>2. QED
    BY <2>1, Constants
<1>6. /\ c \in Shape /\ c.rate = b.rate /\ c.origin = b.origin /\ c.next = b.next + UnitSize
      /\ c.end = b.end /\ c.tail = b.tail /\ c.frame = b.frame /\ SameUnits(b, c)
  BY <1>4, <1>5, NextFields
<1> HIDE DEF c
<1>7. QED
  BY <1>1, <1>2, <1>4, <1>6 DEF s, SameClock, SameUnits, Anchors

LEMMA TakeFields ==
  ASSUME NEW s \in Shape, NEW u \in Units, s.frame = u
  PROVE  LET t == TakeUnit(s, u) IN
         /\ t \in Shape /\ t.rate = s.rate /\ t.origin = s.origin /\ t.held = u
         /\ t.metadata = Append(s.metadata, u) /\ t.next = s.next /\ t.end = s.end
         /\ t.expected = s.expected /\ t.tail = s.tail
<1> DEFINE a == [s EXCEPT !.held = u]
           b == [a EXCEPT !.metadata = Append(@, u)]
           c == [b EXCEPT !.frame = @ + 1]
<1>1. TakeUnit(s, u) = c
  BY DEF TakeUnit
<1>2. s.metadata \in Seq(Units) /\ s.frame + 1 \in 0 .. MaxUnits
  BY Constants DEF Shape, Units
<1>3. Append(s.metadata, u) \in Seq(Units)
  BY <1>2, AppendProperties
<1>4. /\ a \in Shape /\ a.held = u /\ a.rate = s.rate /\ a.origin = s.origin /\ SameClock(s, a)
      /\ a.expected = s.expected /\ a.metadata = s.metadata
  BY DEF Shape, Option, SameClock
<1> HIDE DEF a
<1>5. /\ b \in Shape /\ b.held = u /\ b.rate = s.rate /\ b.origin = s.origin /\ SameClock(s, b)
      /\ b.expected = s.expected /\ b.metadata = Append(s.metadata, u)
  BY <1>3, <1>4 DEF Shape, SameClock
<1> HIDE DEF b
<1>6. /\ c \in Shape /\ c.held = u /\ c.rate = s.rate /\ c.origin = s.origin
      /\ c.next = s.next /\ c.end = s.end /\ c.tail = s.tail
      /\ c.expected = s.expected /\ c.metadata = Append(s.metadata, u)
  BY <1>2, <1>5 DEF Shape, SameClock
<1> HIDE DEF c
<1>7. QED
  BY <1>1, <1>6

LEMMA PopFields ==
  ASSUME NEW s \in Shape, s.metadata # <<>>
  PROVE  LET t == PopMetadata(s) IN
         /\ t \in Shape /\ t.rate = s.rate /\ t.origin = s.origin /\ t.held = s.held
         /\ t.metadata = Tail(s.metadata) /\ SameClock(s, t) /\ t.expected = s.expected
<1>1. Tail(s.metadata) \in Seq(Units)
  BY HeadTailProperties DEF Shape
<1>2. QED
  BY <1>1 DEF PopMetadata, Shape, SameClock

LEMMA RenderedFields ==
  ASSUME NEW s \in Shape, s.metadata # <<>>
  PROVE  LET t == Rendered(s) IN
         /\ t \in Shape /\ t.rate = s.rate /\ t.origin = s.origin /\ t.held = s.held
         /\ t.metadata = Tail(s.metadata) /\ SameClock(s, t) /\ t.expected = s.expected + UnitSize
<1> DEFINE a == PopMetadata(s)
<1>1. Rendered(s) = [a EXCEPT !.expected = @ + UnitSize]
  BY DEF Rendered
<1>2. /\ a \in Shape /\ a.rate = s.rate /\ a.origin = s.origin /\ a.held = s.held
      /\ a.metadata = Tail(s.metadata) /\ SameClock(s, a) /\ a.expected = s.expected
  BY PopFields
<1> HIDE DEF a
<1>3. a.expected + UnitSize \in Nat
  <2>1. a.expected \in Nat
    BY <1>2, ShapeFields
  <2>2. QED
    BY <2>1, Constants
<1>4. /\ [a EXCEPT !.expected = @ + UnitSize] \in Shape
      /\ [a EXCEPT !.expected = @ + UnitSize].expected = a.expected + UnitSize
      /\ [a EXCEPT !.expected = @ + UnitSize].rate = a.rate
      /\ [a EXCEPT !.expected = @ + UnitSize].origin = a.origin
      /\ [a EXCEPT !.expected = @ + UnitSize].held = a.held
      /\ [a EXCEPT !.expected = @ + UnitSize].metadata = a.metadata
      /\ SameClock(a, [a EXCEPT !.expected = @ + UnitSize])
  BY <1>2, <1>3, ExpectedFields
<1>5. QED
  BY <1>1, <1>2, <1>4 DEF SameClock

\* The end and the tail after a block of which the end is known.
LEMMA EmittedFields ==
  ASSUME NEW s \in Shape, NEW b, b.start \in Nat, b.count \in Nat
  PROVE  LET t == Emitted(s, b) IN
         /\ t \in Shape /\ t.rate = s.rate /\ t.origin = s.origin /\ SameUnits(s, t)
         /\ t.next = s.next /\ t.frame = s.frame /\ t.end = Larger(s.end, b.start + b.count)
         /\ t.tail = IF mode = "binaural" THEN TailSize ELSE s.tail
<1> DEFINE e == Larger(s.end, b.start + b.count)
           l == IF mode = "binaural" THEN TailSize ELSE s.tail
           a == [s EXCEPT !.end = e]
<1>1. Emitted(s, b) = [a EXCEPT !.tail = l]
  BY DEF Emitted
<1>2. e \in Nat
  BY DEF Larger, Shape
<1>3. l \in 0 .. TailSize
  BY Constants DEF Shape
<1> HIDE DEF e, l
<1>4. /\ a \in Shape /\ a.rate = s.rate /\ a.origin = s.origin /\ SameUnits(s, a)
      /\ a.next = s.next /\ a.frame = s.frame /\ a.end = e
  BY <1>2 DEF Shape, SameUnits
<1> HIDE DEF a
<1>5. /\ [a EXCEPT !.tail = l] \in Shape /\ [a EXCEPT !.tail = l].tail = l
      /\ [a EXCEPT !.tail = l].rate = a.rate /\ [a EXCEPT !.tail = l].origin = a.origin
      /\ SameUnits(a, [a EXCEPT !.tail = l])
      /\ [a EXCEPT !.tail = l].next = a.next /\ [a EXCEPT !.tail = l].frame = a.frame
      /\ [a EXCEPT !.tail = l].end = a.end
  BY <1>3, <1>4 DEF Shape, SameUnits
<1>6. QED
  BY <1>1, <1>4, <1>5 DEF e, l, SameUnits

-----------------------------------------------------------------------------
(* A session in which nothing is pending and that is not drained *)

HistoryTypes(st, g, r, l, gp, er) ==
  /\ st \in Seq(Option(Pts)) /\ g \in Option(Frames) /\ r \in Nat /\ l \in Nat
  /\ gp \in BOOLEAN /\ er \subseteq {"input", "topology", "render", "emit", "terminal"}

EndOf(g) == IF g = None THEN 0 ELSE Position(g) + g.count

Rest(s, st, g, r, l, gp, er) ==
  /\ s \in Shape /\ s.end <= Last /\ HistoryTypes(st, g, r, l, gp, er)
  /\ StreamInv(s, st) /\ HeldInv(s, er) /\ OrderInv(s, l, er) /\ OpenAccount(s, r, l, er)
  /\ g # None => StampedFrame(g, s, st)
  /\ ~Excused(l, er) => ~gp /\ s.end = EndOf(g)

Resting ==
  /\ mode \in Modes /\ gain \in BOOLEAN /\ epoch \in 0 .. MaxEpoch
  /\ queue = <<>> /\ deferred = <<>> /\ current = None /\ waiting = 0
  /\ ~drained /\ ~terminal /\ drained \in BOOLEAN /\ terminal \in BOOLEAN
  /\ Rest(stream, stamps, got, received, lost, gapped, errors)

LEMMA NextInLast ==
  ASSUME NEW s \in Shape, NEW st \in Seq(Option(Pts)), StreamInv(s, st)
  PROVE  s.next \in Positions /\ s.next <= Last /\ s.expected \in Positions
<1>1. Len(st) \in 0 .. MaxUnits
  BY LenProperties, Constants DEF StreamInv
<1>2. s.next \in 0 .. Last
  BY <1>1, UnitFits DEF StreamInv
<1>3. s.expected \in 0 .. Last
  <2>1. s.expected \in Nat /\ s.expected <= Last
    BY ShapeFields DEF StreamInv
  <2>2. QED
    BY <2>1, Constants
<1>4. QED
  BY <1>2, <1>3, PositionsNat, Constants

LEMMA EmptyStores == <<>> \in Seq(Frames) /\ <<>> \in Seq(Blocks) /\ Len(<<>>) = 0
BY EmptySeq

LEMMA RestingInv == Resting => IInv
<1> SUFFICES ASSUME Resting  PROVE IInv
  OBVIOUS
<1>1. /\ queue = <<>> /\ deferred = <<>> /\ current = None /\ waiting = 0 /\ ~drained /\ ~terminal
      /\ Rest(stream, stamps, got, received, lost, gapped, errors)
  BY DEF Resting
<1>2. /\ stream \in Shape /\ stamps \in Seq(Option(Pts)) /\ StreamInv(stream, stamps)
      /\ stream.end <= Last /\ received \in Nat
  BY <1>1 DEF Rest, HistoryTypes
<1>3. stream \in Streams
  <2>1. stream.end \in 0 .. Last
    BY <1>2, ShapeFields, Constants
  <2>2. QED
    BY <1>2, <2>1, NextInLast, PositionsNat, ShapeStreams
<1>4. 0 \in 0 .. UnitSize /\ <<>> \in Seq(Frames) /\ <<>> \in Seq(Blocks) /\ Len(<<>>) = 0
  BY EmptyStores, Constants
<1>5. TypeOK
  <2>1. /\ mode \in Modes /\ stream \in Streams /\ gain \in BOOLEAN /\ epoch \in 0 .. MaxEpoch
        /\ drained \in BOOLEAN /\ terminal \in BOOLEAN
    BY <1>3 DEF Resting
  <2>2. /\ queue \in Seq(Frames) /\ deferred \in Seq(Blocks) /\ Len(deferred) <= 1
        /\ current \in Option(Pulls) /\ waiting \in 0 .. UnitSize
    BY <1>1, <1>4 DEF Option
  <2>3. waiting = (IF deferred = <<>> THEN 0 ELSE Head(deferred).count)
                    + (IF current = None THEN 0 ELSE current.block.count - current.offset)
    BY <1>1
  <2>4. QED
    BY <1>1, <2>1, <2>2, <2>3 DEF Rest, HistoryTypes, TypeOK
<1>6. StoreInv /\ EpochInv
  BY <1>1, <1>4 DEF StoreInv, EpochInv, HasPendingOutput
<1>7. StampInv
  BY <1>1, <1>4 DEF StampInv, Rest
<1>8. EndInv
  <2>1. stream.end \in Nat /\ stream.tail \in Nat /\ stream.tail <= TailSize
    BY <1>2, ShapeFields, Constants
  <2>2. QED
    BY <1>2, <2>1, Constants DEF EndInv
<1>9. QueuedSamples = 0
  BY <1>1, <1>4 DEF QueuedSamples
<1>10. ChainInv
  <2>1. EndOf(got) = GotEnd
    BY DEF EndOf, GotEnd
  <2>2. ~Excused(lost, errors) => ~gapped /\ stream.end = GotEnd
    BY <1>1, <2>1 DEF Rest
  <2>3. stream.end = stream.end + 0 + 0
    BY <1>2, ShapeFields
  <2>4. QED
    BY <1>1, <1>4, <1>9, <2>2, <2>3 DEF ChainInv
<1>11. AccountInv
  <2>1. received + QueuedSamples + waiting = received
    BY <1>1, <1>2, <1>9
  <2>2. QED
    BY <1>1, <2>1 DEF Rest, AccountInv
<1>12. QED
  BY <1>1, <1>5, <1>6, <1>7, <1>8, <1>10, <1>11 DEF Rest, IInv

LEMMA RestingStays == Resting' => IInv'
BY RestingInv, PTL

LEMMA OpenRests ==
  ASSUME IInv, Open
  PROVE  Resting
<1>1. /\ queue = <<>> /\ deferred = <<>> /\ current = None /\ ~drained /\ ~terminal
  BY DEF Open, HasPendingOutput
<1>2. waiting = 0
  BY <1>1 DEF IInv, TypeOK
<1>3. /\ stream \in Streams /\ received \in Nat
      /\ HistoryTypes(stamps, got, received, lost, gapped, errors)
  BY DEF IInv, TypeOK, HistoryTypes
<1>4. stream \in Shape
  BY <1>3, StreamsShape
<1>5. QueuedSamples = 0
  BY <1>1, EmptyStores DEF QueuedSamples
<1>6. /\ StreamInv(stream, stamps) /\ HeldInv(stream, errors) /\ stream.end <= Last
      /\ got # None => StampedFrame(got, stream, stamps)
  BY <1>1 DEF IInv, EndInv, StampInv
<1>7. OrderInv(stream, lost, errors) /\ OpenAccount(stream, received, lost, errors)
  <2>1. received + QueuedSamples + waiting = received
    BY <1>2, <1>3, <1>5
  <2>2. QED
    BY <1>1, <2>1 DEF IInv, AccountInv
<1>8. ~Excused(lost, errors) => ~gapped /\ stream.end = EndOf(got)
  <2>1. GotEnd = EndOf(got) /\ (~Excused(lost, errors) => stream.end = GotEnd + QueuedSamples + waiting)
    BY <1>1 DEF IInv, ChainInv, GotEnd, EndOf
  <2>2. GotEnd \in Int
    <3>1. CASE got = None
      BY <3>1 DEF GotEnd
    <3>2. CASE got # None
      <4>1. got.block.start \in Nat /\ got.offset \in Nat /\ got.count \in Nat
        BY <1>3, <3>2, PositionsNat DEF HistoryTypes, Option, Frames, Blocks
      <4>2. QED
        BY <3>2, <4>1 DEF GotEnd, Position
    <3>3. QED
      BY <3>1, <3>2
  <2>3. GotEnd + QueuedSamples + waiting = GotEnd
    BY <1>2, <1>5, <2>2
  <2>4. QED
    BY <2>1, <2>3 DEF IInv, ChainInv
<1>9. Rest(stream, stamps, got, received, lost, gapped, errors)
  BY <1>3, <1>4, <1>6, <1>7, <1>8 DEF Rest
<1>10. QED
  BY <1>1, <1>2, <1>9 DEF IInv, TypeOK, Resting

LEMMA FreshRests == Rest(Fresh, <<>>, None, 0, 0, FALSE, {})
<1>1. /\ Fresh \in Shape /\ Fresh.rate = None /\ Fresh.origin = None /\ Fresh.next = 0
      /\ Fresh.end = 0 /\ Fresh.expected = 0 /\ Fresh.held = None /\ Fresh.metadata = <<>>
      /\ Fresh.tail = 0
  BY FreshShape
<1>2. <<>> \in Seq(Option(Pts)) /\ Len(<<>>) = 0 /\ 0 * UnitSize = 0
  BY EmptySeq, Constants
<1>3. HistoryTypes(<<>>, None, 0, 0, FALSE, {})
  BY <1>2 DEF HistoryTypes, Option
<1>4. StreamInv(Fresh, <<>>)
  BY <1>1, <1>2, Constants DEF StreamInv
<1>5. HeldInv(Fresh, {}) /\ OrderInv(Fresh, 0, {}) /\ OpenAccount(Fresh, 0, 0, {})
  BY <1>1 DEF HeldInv, OrderInv, OpenAccount, HeldSamples
<1>6. Fresh.end <= Last /\ EndOf(None) = 0
  BY <1>1, Constants DEF EndOf
<1>7. QED
  BY <1>1, <1>3, <1>4, <1>5, <1>6 DEF Rest

LEMMA InitInv == Init => IInv
<1> SUFFICES ASSUME Init  PROVE Resting
  BY RestingInv
<1>1. 0 \in 0 .. MaxEpoch
  BY Constants
<1>2. QED
  BY <1>1, FreshRests DEF Init, Resting

\* A reset that succeeds begins a segment.
LEMMA ResetStep ==
  ASSUME IInv, CanReset, stream' = Fresh, epoch' = epoch + 1, ClearPendingOutput,
         drained' = FALSE, terminal' = FALSE, NoHistory, UNCHANGED <<mode, gain>>
  PROVE  IInv'
<1>1. epoch' \in 0 .. MaxEpoch /\ mode \in Modes /\ gain \in BOOLEAN
  BY Constants DEF IInv, TypeOK, CanReset
<1>2. Rest(stream', stamps', got', received', lost', gapped', errors')
  BY FreshRests DEF NoHistory
<1>3. Resting'
  BY <1>1, <1>2 DEF Resting, ClearPendingOutput
<1>4. QED
  BY <1>3, RestingStays

LEMMA GainKept ==
  ASSUME IInv, gain' = gain
  PROVE  gain' \in BOOLEAN
BY DEF IInv, TypeOK

\* A session that fails closed: nothing is pending, and nothing follows.
LEMMA ClosedStep ==
  ASSUME IInv, FailClosed, gain' \in BOOLEAN,
         UNCHANGED <<mode, epoch, stamps, got, received, lost, gapped>>,
         stream' \in Shape,
         stream'.next = stream.next, stream'.end = stream.end, stream'.tail = stream.tail,
         stream'.origin = stream.origin, stream'.expected <= Last,
         StreamInv(stream', stamps), HeldInv(stream', errors)
  PROVE  IInv'
<1>1. /\ queue' = <<>> /\ deferred' = <<>> /\ current' = None /\ waiting' = 0
      /\ drained' /\ terminal' /\ drained' \in BOOLEAN /\ terminal' \in BOOLEAN
      /\ errors' = errors \cup {"terminal"}
  BY DEF FailClosed, ClearPendingOutput
<1>2. 0 \in 0 .. UnitSize /\ <<>> \in Seq(Frames) /\ <<>> \in Seq(Blocks) /\ Len(<<>>) = 0
  BY EmptyStores, Constants
<1>3. stream' \in Streams
  <2>1. stream.end \in Positions /\ stamps \in Seq(Option(Pts))
    BY StreamsShape DEF IInv, TypeOK
  <2>2. QED
    BY <2>1, NextInLast, ShapeStreams
<1>4. TypeOK'
  <2>1. /\ mode' \in Modes /\ gain' \in BOOLEAN /\ epoch' \in 0 .. MaxEpoch
        /\ HistoryTypes(stamps', got', received', lost', gapped', errors')
    BY <1>1 DEF IInv, TypeOK, HistoryTypes
  <2>2. /\ queue' \in Seq(Frames) /\ deferred' \in Seq(Blocks) /\ Len(deferred') <= 1
        /\ current' \in Option(Pulls) /\ waiting' \in 0 .. UnitSize
    BY <1>1, <1>2 DEF Option
  <2>3. waiting' = (IF deferred' = <<>> THEN 0 ELSE Head(deferred').count)
                     + (IF current' = None THEN 0 ELSE current'.block.count - current'.offset)
    BY <1>1
  <2>4. QED
    BY <1>1, <1>3, <2>1, <2>2, <2>3 DEF HistoryTypes, TypeOK
<1>5. StoreInv' /\ EpochInv'
  BY <1>1, <1>2 DEF StoreInv, EpochInv, HasPendingOutput
<1>6. StreamInv(stream, stamps)' /\ HeldInv(stream, errors)'
  BY <1>1 DEF HeldInv
<1>7. StampInv'
  BY <1>1, <1>2 DEF IInv, StampInv, StampedFrame
<1>8. EndInv'
  BY <1>1 DEF IInv, EndInv
<1>9. ChainInv'
  <2>1. Excused(lost, errors) => Excused(lost, errors)'
    BY <1>1 DEF Excused
  <2>2. QED
    BY <1>1, <1>2, <2>1 DEF IInv, ChainInv
<1>10. AccountInv'
  BY <1>1 DEF AccountInv
<1>11. QED
  BY <1>4, <1>5, <1>6, <1>7, <1>8, <1>9, <1>10 DEF IInv

LEMMA FailResetStep ==
  ASSUME IInv, FailReset
  PROVE  IInv'
<1> DEFINE a == [stream EXCEPT !.frame = 0]
           b == [a EXCEPT !.expected = 0]
           c == [b EXCEPT !.base = None]
           d == [c EXCEPT !.held = None]
           e == [d EXCEPT !.metadata = <<>>]
<1>1. stream' = e /\ FailClosed /\ UNCHANGED <<mode, gain, epoch, stamps, got, received, lost, gapped>>
  BY DEF FailReset
<1>2. stream \in Shape
  BY StreamsShape DEF IInv, TypeOK
<1>3. <<>> \in Seq(Units) /\ 0 \in 0 .. MaxUnits /\ 0 <= Last
  BY EmptySeq, Constants
<1>4. /\ a \in Shape /\ a.rate = stream.rate /\ a.origin = stream.origin
      /\ a.next = stream.next /\ a.end = stream.end /\ a.tail = stream.tail
  BY <1>2, <1>3 DEF Shape
<1> HIDE DEF a
<1>5. /\ b \in Shape /\ b.rate = a.rate /\ b.origin = a.origin /\ b.expected = 0 /\ SameClock(a, b)
  BY <1>4, ExpectedFields
<1> HIDE DEF b
<1>6. /\ c \in Shape /\ c.rate = b.rate /\ c.origin = b.origin /\ SameClock(b, c) /\ SameUnits(b, c)
  BY <1>5, BaseFields DEF Option
<1> HIDE DEF c
<1>7. /\ d \in Shape /\ d.rate = c.rate /\ d.origin = c.origin /\ SameClock(c, d)
      /\ d.held = None /\ d.expected = c.expected
  BY <1>6 DEF Shape, Option, SameClock
<1> HIDE DEF d
<1>8. /\ e \in Shape /\ e.rate = d.rate /\ e.origin = d.origin /\ SameClock(d, e)
      /\ e.held = d.held /\ e.expected = d.expected /\ e.metadata = <<>>
  BY <1>3, <1>7 DEF Shape, SameClock
<1> HIDE DEF e
<1>9. /\ e.rate = stream.rate /\ e.origin = stream.origin /\ e.next = stream.next
      /\ e.end = stream.end /\ e.tail = stream.tail /\ e.held = None /\ e.expected = 0
  BY <1>4, <1>5, <1>6, <1>7, <1>8 DEF SameClock, SameUnits
<1>10. StreamInv(e, stamps)
  BY <1>3, <1>9 DEF IInv, StreamInv
<1>11. HeldInv(e, errors)
  BY <1>8, <1>9 DEF HeldInv
<1>12. QED
  BY <1>1, <1>3, <1>8, <1>9, <1>10, <1>11, GainKept, ClosedStep

LEMMA FlushStep ==
  ASSUME IInv, Flush
  PROVE  IInv'
BY ResetStep, FailResetStep DEF Flush

-----------------------------------------------------------------------------
(* The beginning of a push *)

\* The errors of the segment a packet belongs to.
ErrorsBefore(p) == IF p.discontinuity THEN {} ELSE errors

LEMMA BeginRests ==
  ASSUME Resting, NEW p \in Packets
  PROVE  IF p.discontinuity THEN Rest(Started(p), <<>>, None, 0, 0, FALSE, {})
         ELSE Rest(Started(p), stamps, got, received, lost, gapped, errors)
BY FreshRests DEF Resting, Started

\* A stream that differs from one at rest in what a refused packet may leave.
LEMMA AnchoredRests ==
  ASSUME NEW s \in Shape, NEW t \in Shape, NEW st, NEW g, NEW r, NEW l, NEW gp, NEW er,
         Rest(s, st, g, r, l, gp, er), SameClock(s, t), SameUnits(s, t),
         s.origin # None => t.origin = s.origin, t.origin # None => t.origin >= MinPts,
         t.rate = s.rate \/ t.rate # None
  PROVE  Rest(t, st, g, r, l, gp, er)
<1>1. /\ t.next = s.next /\ t.end = s.end /\ t.tail = s.tail /\ t.held = s.held
      /\ t.metadata = s.metadata /\ t.expected = s.expected
  BY DEF SameClock, SameUnits
<1>2. StreamInv(t, st)
  BY <1>1 DEF Rest, StreamInv
<1>3. HeldInv(t, er) /\ OrderInv(t, l, er) /\ OpenAccount(t, r, l, er)
  BY <1>1 DEF Rest, HeldInv, OrderInv, OpenAccount, HeldSamples
<1>4. g # None => StampedFrame(g, t, st)
  BY DEF Rest, StampedFrame
<1>5. QED
  BY <1>1, <1>2, <1>3, <1>4 DEF Rest

LEMMA SegmentTypes ==
  ASSUME Resting, NEW p \in Packets, Segment(p)
  PROVE  epoch' \in 0 .. MaxEpoch
BY Constants DEF Resting, Segment, CanReset

LEMMA RefusePacketStep ==
  ASSUME Resting, NEW p \in Packets, RefusePacket(p)
  PROVE  Resting'
<1> DEFINE s == Started(p)
           a == Anchored(s, p)
<1>1. /\ Segment(p) /\ UNCHANGED <<mode, gain, queue, deferred, current, waiting, drained, terminal>>
      /\ IF p.discontinuity THEN NoHistory ELSE UNCHANGED <<stamps, got, received, lost, gapped, errors>>
  BY DEF RefusePacket, Refused, stores, history
<1>2. epoch' \in 0 .. MaxEpoch
  BY <1>1, SegmentTypes
<1>3. Rest(s, stamps', got', received', lost', gapped', errors')
  BY <1>1, BeginRests DEF NoHistory
<1>4. s \in Shape /\ (s.origin # None => s.origin >= MinPts)
  BY <1>3 DEF Rest, StreamInv
<1> SUFFICES Rest(stream', stamps', got', received', lost', gapped', errors')
  BY <1>1, <1>2 DEF Resting
<1>5. CASE stream' = s
  BY <1>3, <1>5
<1>6. CASE TimestampFits(s, p) /\ stream' = a
  <2>1. a \in Shape /\ SameClock(s, a) /\ SameUnits(s, a) /\ a.rate = s.rate /\ Anchors(s, a, p.pts)
    BY <1>4, <1>6, AnchoredFields
  <2>2. QED
    BY <1>3, <1>4, <1>6, <2>1, AnchoredRests DEF Anchors
<1>7. CASE TimestampFits(s, p) /\ stream' = [a EXCEPT !.rate = p.rate]
  <2>1. a \in Shape /\ SameClock(s, a) /\ SameUnits(s, a) /\ Anchors(s, a, p.pts)
    BY <1>4, <1>7, AnchoredFields
  <2>2. /\ stream' \in Shape /\ SameClock(a, stream') /\ SameUnits(a, stream')
        /\ stream'.rate = p.rate /\ stream'.origin = a.origin
    BY <1>7, <2>1, RateFields, PacketTypes
  <2>3. /\ SameClock(s, stream') /\ SameUnits(s, stream') /\ stream'.rate # None
        /\ s.origin # None => stream'.origin = s.origin
        /\ stream'.origin # None => stream'.origin >= MinPts
    BY <2>1, <2>2, PacketTypes DEF SameClock, SameUnits, Anchors
  <2>4. QED
    BY <1>3, <1>4, <2>2, <2>3, AnchoredRests
<1>8. CASE TimestampFits(s, p) /\ stream' = Pinned(p)
  <2>1. /\ stream' \in Shape /\ stream'.rate = p.rate /\ SameClock(s, stream')
        /\ SameUnits(s, stream') /\ Anchors(s, stream', p.pts)
    BY <1>4, <1>8, PinnedFields
  <2>2. /\ stream'.rate # None
        /\ s.origin # None => stream'.origin = s.origin
        /\ stream'.origin # None => stream'.origin >= MinPts
    BY <2>1, PacketTypes DEF Anchors
  <2>3. QED
    BY <1>3, <1>4, <2>1, <2>2, AnchoredRests
<1>9. QED
  BY <1>5, <1>6, <1>7, <1>8 DEF RefusePacket

\* A stream with a unit decoded that is not queued yet, which st counts already.
Behind(s, st, g, r, l, gp, er) ==
  /\ s \in Shape /\ s.end <= Last /\ HistoryTypes(st, g, r, l, gp, er) /\ Len(st) > 0
  /\ StreamInv(s, st) /\ HeldInv(s, er)
  /\ ~Excused(l, er) =>
       /\ s.held = None => s.next = UnitSize /\ s.expected = 0 /\ "render" \notin er
       /\ s.held # None =>
            /\ s.next = s.held * UnitSize + UnitSize + UnitSize
            /\ "render" \notin er => s.expected = s.held * UnitSize
            /\ "render" \in er => s.expected < s.held * UnitSize
       /\ s.end = s.expected
  /\ er = {} => r + l + HeldSamples(s) + UnitSize = s.next
  /\ g # None => StampedFrame(g, s, st)
  /\ ~Excused(l, er) => ~gp /\ s.end = EndOf(g)

LEMMA DecodedBehind ==
  ASSUME Resting, NEW p \in Packets, Decoding(p)
  PROVE  /\ Behind(Decoded(p), stamps', got', received', lost', gapped', ErrorsBefore(p))
         /\ UnitOf(p) \in Units /\ Len(stamps') = UnitOf(p) + 1
<1> DEFINE s == Started(p)
           d == Decoded(p)
           st == IF p.discontinuity THEN <<>> ELSE stamps
           l == IF p.discontinuity THEN 0 ELSE lost
           er == ErrorsBefore(p)
           n == Len(st)
<1>1. Rest(s, st, got', received', l, gapped', er)
  BY BeginRests DEF Decoding, ErrorsBefore
<1>2. /\ s \in Shape /\ s.end <= Last /\ HistoryTypes(st, got', received', l, gapped', er)
      /\ StreamInv(s, st) /\ HeldInv(s, er) /\ OrderInv(s, l, er) /\ OpenAccount(s, received', l, er)
      /\ got' # None => StampedFrame(got', s, st)
      /\ ~Excused(l, er) => ~gapped' /\ s.end = EndOf(got')
  BY <1>1 DEF Rest
<1>3. /\ TimestampFits(s, p) /\ s.next \div UnitSize < MaxUnits /\ stamps' = Append(st, p.pts)
  BY DEF Decoding, Decodes
<1>4. st \in Seq(Option(Pts)) /\ l \in Nat /\ received' \in Nat /\ n \in Nat
  BY <1>2, LenProperties DEF HistoryTypes
<1>5. /\ d \in Shape /\ d.rate = p.rate /\ Anchors(s, d, p.pts) /\ d.next = s.next + UnitSize
      /\ d.end = s.end /\ d.tail = s.tail /\ d.frame = s.frame
      /\ ~Splices(s, p) => SameUnits(s, d)
      /\ Splices(s, p) => d.held = None /\ d.metadata = <<>> /\ d.expected = s.next
  BY <1>2, <1>3, DecodedFields DEF StreamInv
<1>6. lost' = IF Splices(s, p) /\ s.held # None THEN l + UnitSize ELSE l
  <2>1. CASE p.discontinuity
    <3>1. s.next = 0
      BY <2>1, FreshShape DEF Started
    <3>2. ~Splices(s, p)
      BY <3>1 DEF Splices
    <3>3. QED
      BY <2>1, <3>2 DEF Decoding
  <2>2. CASE ~p.discontinuity
    BY <2>2 DEF Decoding, Started
  <2>3. QED
    BY <2>1, <2>2
<1> HIDE DEF st, l, er, d
<1>7. UnitOf(p) = s.next \div UnitSize
  BY DEF UnitOf
<1> HIDE DEF s
<1>8. s.next = n * UnitSize /\ s.next \div UnitSize = n /\ n < MaxUnits /\ UnitOf(p) = n
  BY <1>2, <1>3, <1>4, <1>7, UnitNumber DEF StreamInv
<1>9. p.pts \in Option(Pts) /\ (p.pts # None => p.pts \in Int) /\ p.rate # None
  BY PacketTypes
<1>10. /\ stamps' \in Seq(Option(Pts)) /\ Len(stamps') = n + 1 /\ stamps'[n + 1] = p.pts
       /\ \A i \in 1 .. n : stamps'[i] = st[i]
  BY <1>3, <1>4, <1>9, AppendProperties
<1> HIDE DEF n
<1>11. s.next \in Nat /\ s.next <= Last /\ s.tail \in 0 .. TailSize
  BY <1>2, <1>4, ShapeFields, NextInLast
<1>12. UnitSize \in Nat /\ UnitSize > 0 /\ MaxUnits \in Nat
  BY Constants
<1>13. lost' \in Nat /\ lost' >= l
  BY <1>4, <1>6, <1>12
<1>14. StreamInv(d, stamps')
  <2>1. d.next = (n + 1) * UnitSize
    BY <1>4, <1>5, <1>8, UnitEnd
  <2>2. Len(stamps') <= MaxUnits /\ d.next # 0 /\ d.rate # None
    BY <1>4, <1>5, <1>8, <1>9, <1>10, <1>11, <1>12
  <2>3. d.held # None => d.held < Len(stamps') /\ d.metadata # <<>>
    <3>1. d.held # None => s.held = d.held /\ s.metadata = d.metadata
      BY <1>5 DEF SameUnits
    <3>2. s.held # None => s.held < n /\ s.metadata # <<>>
      BY <1>2 DEF StreamInv, n
    <3>3. s.held # None => s.held \in Int
      BY <1>2, ShapeFields, Constants DEF Option, Units
    <3>4. QED
      BY <1>4, <1>10, <3>1, <3>2, <3>3
  <2>4. d.expected <= Last
    BY <1>2, <1>5, <1>11 DEF SameUnits, StreamInv
  <2>5. d.origin # None => d.origin >= MinPts
    BY <1>5 DEF Anchors
  <2>6. ASSUME NEW i \in 1 .. Len(stamps'), stamps'[i] # None
        PROVE  d.origin # None /\ stamps'[i] = d.origin + (i - 1) * UnitSize
    <3>1. CASE i = n + 1
      <4>1. d.origin # None /\ stamps'[i] = d.origin + s.next
        BY <1>5, <1>10, <2>6, <3>1 DEF Anchors
      <4>2. i - 1 = n
        BY <1>4, <3>1
      <4>3. QED
        BY <1>8, <4>1, <4>2
    <3>2. CASE i # n + 1
      <4>1. i \in 1 .. n
        BY <1>4, <1>10, <3>2
      <4>2. s.origin # None /\ st[i] = s.origin + (i - 1) * UnitSize
        BY <1>2, <1>10, <2>6, <4>1 DEF StreamInv, n
      <4>3. QED
        BY <1>5, <1>10, <4>1, <4>2 DEF Anchors
    <3>3. QED
      BY <3>1, <3>2
  <2>7. QED
    BY <1>10, <2>1, <2>2, <2>3, <2>4, <2>5, <2>6 DEF StreamInv
<1>15. HeldInv(d, er)
  BY <1>2, <1>5 DEF HeldInv, SameUnits
<1>16. ~Excused(lost', er) => /\ ~Excused(l, er) /\ SameUnits(s, d)
  <2> SUFFICES ASSUME ~Excused(lost', er)  PROVE ~Excused(l, er) /\ ~Splices(s, p)
    BY <1>5
  <2>1. ~(lost' > 0) /\ er \cap {"input", "topology", "emit"} = {}
    BY DEF Excused
  <2>2. ~(l > 0)
    BY <1>4, <1>13, <2>1
  <2>3. ~Excused(l, er)
    BY <2>1, <2>2 DEF Excused
  <2>4. ASSUME Splices(s, p)  PROVE FALSE
    <3>1. s.next > 0
      BY <2>4 DEF Splices
    <3>2. s.held # None
      BY <1>2, <1>11, <2>3, <3>1 DEF OrderInv
    <3>3. lost' = l + UnitSize
      BY <1>6, <2>4, <3>2
    <3>4. QED
      BY <1>4, <1>12, <2>1, <3>3
  <2>5. QED
    BY <2>3, <2>4
<1>17. ~Excused(lost', er) =>
         /\ d.held = None => d.next = UnitSize /\ d.expected = 0 /\ "render" \notin er
         /\ d.held # None =>
              /\ d.next = d.held * UnitSize + UnitSize + UnitSize
              /\ "render" \notin er => d.expected = d.held * UnitSize
              /\ "render" \in er => d.expected < d.held * UnitSize
         /\ d.end = d.expected /\ ~gapped' /\ d.end = EndOf(got')
  <2> SUFFICES ASSUME ~Excused(lost', er)
               PROVE  /\ s.held = None => s.next + UnitSize = UnitSize /\ s.expected = 0 /\ "render" \notin er
                      /\ s.held # None =>
                           /\ s.next + UnitSize = s.held * UnitSize + UnitSize + UnitSize
                           /\ "render" \notin er => s.expected = s.held * UnitSize
                           /\ "render" \in er => s.expected < s.held * UnitSize
                      /\ s.end = s.expected /\ ~gapped' /\ s.end = EndOf(got')
    BY <1>5, <1>16 DEF SameUnits
  <2>1. ~Excused(l, er)
    BY <1>16
  <2>2. /\ s.held = None => s.next = 0 /\ s.expected = 0 /\ "render" \notin er
        /\ s.held # None =>
             /\ s.next = s.held * UnitSize + UnitSize
             /\ "render" \notin er => s.expected = s.held * UnitSize
             /\ "render" \in er => s.expected < s.held * UnitSize
        /\ s.end = s.expected
    BY <1>2, <2>1 DEF OrderInv
  <2>3. s.held = None => s.next + UnitSize = UnitSize
    BY <1>12, <2>2
  <2>4. QED
    BY <1>2, <2>1, <2>2, <2>3
<1>18. er = {} => received' + lost' + HeldSamples(d) + UnitSize = d.next
  <2> SUFFICES ASSUME er = {}  PROVE received' + lost' + HeldSamples(d) + UnitSize = s.next + UnitSize
    BY <1>5
  <2>1. received' + l + HeldSamples(s) = s.next /\ (s.held = None => s.next = 0)
    BY <1>2 DEF OpenAccount
  <2>2. CASE Splices(s, p)
    <3>1. s.next > 0
      BY <2>2 DEF Splices
    <3>2. s.held # None
      BY <1>11, <2>1, <3>1
    <3>3. lost' = l + UnitSize /\ HeldSamples(s) = UnitSize /\ HeldSamples(d) = 0
      BY <1>5, <1>6, <2>2, <3>2 DEF HeldSamples
    <3>4. QED
      BY <1>4, <1>12, <2>1, <3>3
  <2>3. CASE ~Splices(s, p)
    <3>1. lost' = l /\ HeldSamples(d) = HeldSamples(s)
      BY <1>5, <1>6, <2>3 DEF HeldSamples, SameUnits
    <3>2. QED
      BY <2>1, <3>1
  <2>4. QED
    BY <2>2, <2>3
<1>19. got' # None => StampedFrame(got', d, stamps')
  <2> SUFFICES ASSUME got' # None  PROVE StampedFrame(got', d, stamps')
    OBVIOUS
  <2>1. StampedFrame(got', s, st)
    BY <1>2
  <2>2. got'.block.unit # None => got'.block.unit \in Int
    BY <1>2, Constants DEF HistoryTypes, Option, Frames, Blocks, Units
  <2>3. PlacedBlock(got'.block, stamps')
    BY <1>4, <1>10, <2>1, <2>2 DEF StampedFrame, PlacedBlock, n
  <2>4. got'.pts # None => d.origin # None /\ got'.pts = d.origin + (got'.block.start + got'.offset)
    BY <1>5, <2>1 DEF StampedFrame, Anchors
  <2>5. QED
    BY <2>3, <2>4 DEF StampedFrame
<1>20. HistoryTypes(stamps', got', received', lost', gapped', er)
  BY <1>2, <1>10, <1>13 DEF HistoryTypes
<1>21. UnitOf(p) \in Units /\ Len(stamps') = UnitOf(p) + 1 /\ Len(stamps') > 0
  BY <1>4, <1>8, <1>10, <1>12 DEF Units
<1>22. d.end <= Last
  BY <1>2, <1>5
<1>23. QED
  BY <1>5, <1>14, <1>15, <1>17, <1>18, <1>19, <1>20, <1>21, <1>22 DEF Behind, d, er

-----------------------------------------------------------------------------
(* The ways a push ends *)

\* What a push that has decoded leaves alone, if it puts nothing in a queue.
LEMMA DecodingFrame ==
  ASSUME Resting, NEW p \in Packets, Decoding(p), gain' \in BOOLEAN,
         UNCHANGED <<queue, deferred, waiting>>,
         Rest(stream', stamps', got', received', lost', gapped', errors')
  PROVE  Resting'
<1>1. epoch' \in 0 .. MaxEpoch
  BY SegmentTypes DEF Decoding
<1>2. UNCHANGED <<mode, current, drained, terminal>>
  BY DEF Decoding
<1>3. QED
  BY <1>1, <1>2 DEF Resting

\* A stream behind which the loss of a unit is reported.
LEMMA ExcusedRests ==
  ASSUME NEW s \in Shape, NEW st, NEW g, NEW r, NEW l, NEW gp, NEW er,
         s.end <= Last, HistoryTypes(st, g, r, l, gp, er), StreamInv(s, st), HeldInv(s, er),
         g # None => StampedFrame(g, s, st), er \cap {"input", "topology", "emit"} # {}
  PROVE  Rest(s, st, g, r, l, gp, er)
BY DEF Rest, OrderInv, OpenAccount, Excused

LEMMA RefuseUnitStep ==
  ASSUME Resting, NEW p \in Packets, RefuseUnit(p)
  PROVE  Resting'
<1>1. /\ Decoding(p) /\ stream' = Decoded(p) /\ errors' = ErrorsBefore(p) \cup {"input"}
      /\ UNCHANGED <<gain, queue, deferred, waiting>>
  BY DEF RefuseUnit, Note, ErrorsBefore
<1>2. Behind(stream', stamps', got', received', lost', gapped', ErrorsBefore(p))
  BY <1>1, DecodedBehind
<1>3. /\ HistoryTypes(stamps', got', received', lost', gapped', errors') /\ HeldInv(stream', errors')
      /\ errors' \cap {"input", "topology", "emit"} # {}
  BY <1>1, <1>2 DEF Behind, HistoryTypes, HeldInv
<1>4. Rest(stream', stamps', got', received', lost', gapped', errors')
  BY <1>2, <1>3, ExcusedRests DEF Behind
<1>5. gain' \in BOOLEAN
  BY <1>1 DEF Resting
<1>6. QED
  BY <1>1, <1>4, <1>5, DecodingFrame

\* The stream with the unit queued, as it is behind a unit that was decoded.
LEMMA TakenFields ==
  ASSUME Resting, NEW p \in Packets, Decoding(p), Takes(p)
  PROVE  LET d == Decoded(p)
             t == Taken(p)
             k == TakeUnit(d, UnitOf(p))
         IN /\ k \in Shape /\ k.rate = d.rate /\ k.origin = d.origin /\ k.held = UnitOf(p)
            /\ k.metadata = Append(d.metadata, UnitOf(p)) /\ k.next = d.next /\ k.end = d.end
            /\ k.expected = d.expected /\ k.tail = d.tail
            /\ t \in Shape /\ t.rate = d.rate /\ t.origin = d.origin /\ t.held = UnitOf(p)
            /\ t.metadata = Append(d.metadata, UnitOf(p)) /\ t.next = d.next /\ t.end = d.end
            /\ t.expected = d.expected /\ t.tail = d.tail
<1> DEFINE d == Decoded(p)
           t == Taken(p)
           k == TakeUnit(d, UnitOf(p))
<1>1. d \in Shape /\ UnitOf(p) \in Units /\ d.frame = UnitOf(p)
  BY DecodedBehind DEF Behind, Takes
<1>2. t = [k EXCEPT !.base = p.base]
  BY DEF Taken
<1> HIDE DEF d
<1>3. /\ k \in Shape /\ k.rate = d.rate /\ k.origin = d.origin /\ k.held = UnitOf(p)
      /\ k.metadata = Append(d.metadata, UnitOf(p)) /\ k.next = d.next /\ k.end = d.end
      /\ k.expected = d.expected /\ k.tail = d.tail
  BY <1>1, TakeFields
<1> HIDE DEF k
<1>4. /\ t \in Shape /\ t.rate = k.rate /\ t.origin = k.origin /\ SameClock(k, t) /\ SameUnits(k, t)
  BY <1>2, <1>3, BaseFields, PacketTypes DEF Option
<1> HIDE DEF t
<1>5. /\ t.rate = d.rate /\ t.origin = d.origin /\ t.held = UnitOf(p)
      /\ t.metadata = Append(d.metadata, UnitOf(p)) /\ t.next = d.next /\ t.end = d.end
      /\ t.expected = d.expected /\ t.tail = d.tail
  BY <1>3, <1>4 DEF SameClock, SameUnits
<1>6. QED
  BY <1>3, <1>4, <1>5 DEF d, t, k

\* A unit behind the metadata of the units before it.
LEMMA AppendedMetadata ==
  ASSUME NEW m \in Seq(Units), NEW u \in Units
  PROVE  /\ Append(m, u) \in Seq(Units) /\ Append(m, u) # <<>> /\ Head(Append(m, u)) \in Units
         /\ Tail(Append(m, u)) \in Seq(Units)
         /\ m # <<>> => Tail(Append(m, u)) # <<>>
<1> DEFINE q == Append(m, u)
<1>1. q \in Seq(Units) /\ Len(q) = Len(m) + 1 /\ Len(m) \in Nat
  BY AppendProperties, LenProperties
<1>2. q # <<>>
  BY <1>1, EmptySeq
<1> HIDE DEF q
<1>3. Head(q) \in Units /\ Tail(q) \in Seq(Units) /\ Len(Tail(q)) = Len(q) - 1
  BY <1>1, <1>2, HeadTailProperties
<1>4. m # <<>> => Len(m) # 0
  BY EmptySeq
<1>5. m # <<>> => Len(Tail(q)) # 0
  BY <1>1, <1>3, <1>4
<1>6. Len(<<>>) = 0
  BY EmptySeq
<1>7. m # <<>> => Tail(q) # <<>>
  BY <1>5, <1>6
<1>8. QED
  BY <1>1, <1>2, <1>3, <1>7 DEF q

LEMMA FirstMetadata ==
  ASSUME NEW u \in Units
  PROVE  Append(<<>>, u) = <<u>>
OBVIOUS

LEMMA Singleton ==
  ASSUME NEW S, NEW q \in Seq(S), Len(q) = 1
  PROVE  q = <<q[1]>>
<1> DEFINE t == <<q[1]>>
<1>1. q[1] \in S
  OBVIOUS
<1>2. t \in Seq(S) /\ Len(t) = 1 /\ t[1] = q[1]
  BY <1>1
<1> HIDE DEF t
<1>3. \A i \in 1 .. Len(q) : q[i] = t[i]
  <2>1. \A i \in 1 .. Len(q) : i = 1
    OBVIOUS
  <2>2. QED
    BY <1>2, <2>1
<1>4. q = t
  BY <1>2, <1>3, SeqEqual
<1>5. QED
  BY <1>4 DEF t

LEMMA SecondMetadata ==
  ASSUME NEW h \in Units, NEW u \in Units
  PROVE  Head(Append(<<h>>, u)) = h /\ Tail(Append(<<h>>, u)) = <<u>>
<1> DEFINE q == Append(<<h>>, u)
<1>1. <<h>> \in Seq(Units) /\ Len(<<h>>) = 1 /\ <<h>>[1] = h
  OBVIOUS
<1>2. q \in Seq(Units) /\ Len(q) = 2 /\ q[1] = h /\ q[2] = u
  BY <1>1, AppendProperties
<1>3. q # <<>>
  BY <1>2, EmptySeq
<1> HIDE DEF q
<1>4. Head(q) = q[1] /\ Tail(q) \in Seq(Units) /\ Len(Tail(q)) = 1 /\ Tail(q)[1] = q[2]
  BY <1>2, <1>3, HeadTailProperties
<1>5. Tail(q) = <<u>>
  BY <1>2, <1>4, Singleton
<1>6. QED
  BY <1>2, <1>4, <1>5 DEF q

\* The stream with a new unit held, whatever has become of the one before.
LEMMA QueuedStream ==
  ASSUME NEW d, NEW t \in Shape, NEW u \in Units, NEW st, NEW g, NEW r, NEW l, NEW gp, NEW er,
         Behind(d, st, g, r, l, gp, er), Len(st) = u + 1,
         t.held = u, t.metadata # <<>>, t.rate = d.rate, t.origin = d.origin, t.next = d.next,
         t.expected <= Last
  PROVE  /\ StreamInv(t, st) /\ (g # None => StampedFrame(g, t, st))
         /\ t.next = u * UnitSize + UnitSize /\ t.next > 0 /\ d.next = u * UnitSize + UnitSize
<1>1. StreamInv(d, st) /\ Len(st) > 0
  BY DEF Behind
<1>2. u \in Nat /\ UnitSize \in Nat /\ UnitSize > 0 /\ u * UnitSize \in Int /\ u * UnitSize >= 0
  BY Constants, UnitEnd DEF Units
<1>3. t.next = u * UnitSize + UnitSize
  BY <1>1, <1>2, UnitEnd DEF StreamInv
<1> DEFINE x == u * UnitSize
<1>4. x \in Int /\ x >= 0 /\ t.next = x + UnitSize
  BY <1>2, <1>3
<1> HIDE DEF x
<1>5. t.next > 0
  BY <1>2, <1>4
<1>6. u < Len(st)
  BY <1>2
<1>7. StreamInv(t, st)
  BY <1>1, <1>5, <1>6 DEF StreamInv
<1>8. g # None => StampedFrame(g, t, st)
  BY DEF Behind, StampedFrame
<1>9. QED
  BY <1>3, <1>5, <1>7, <1>8

LEMMA RefuseTopologyStep ==
  ASSUME Resting, NEW p \in Packets, RefuseTopology(p)
  PROVE  Resting'
<1> DEFINE d == Decoded(p)
           u == UnitOf(p)
<1>1. /\ Decoding(p) /\ Takes(p) /\ stream' = TakeUnit(d, u)
      /\ errors' = ErrorsBefore(p) \cup {"topology"} /\ UNCHANGED <<gain, queue, deferred, waiting>>
  BY DEF RefuseTopology, Note, ErrorsBefore
<1>2. /\ Behind(d, stamps', got', received', lost', gapped', ErrorsBefore(p))
      /\ u \in Units /\ Len(stamps') = u + 1
  BY <1>1, DecodedBehind
<1>3. /\ stream' \in Shape /\ stream'.rate = d.rate /\ stream'.origin = d.origin /\ stream'.held = u
      /\ stream'.metadata = Append(d.metadata, u) /\ stream'.next = d.next /\ stream'.end = d.end
      /\ stream'.expected = d.expected
  BY <1>1, TakenFields
<1> HIDE DEF d, u
<1>4. /\ d.end <= Last /\ d.expected <= Last /\ d.metadata \in Seq(Units)
      /\ HistoryTypes(stamps', got', received', lost', gapped', errors')
  BY <1>1, <1>2, ShapeFields DEF Behind, StreamInv, HistoryTypes
<1>5. stream'.metadata # <<>>
  BY <1>2, <1>3, <1>4, AppendedMetadata
<1>6. /\ StreamInv(stream', stamps') /\ (got' # None => StampedFrame(got', stream', stamps'))
      /\ stream'.next = u * UnitSize + UnitSize
  BY <1>2, <1>3, <1>4, <1>5, QueuedStream
<1>7. HeldInv(stream', errors')
  BY <1>1 DEF HeldInv
<1>8. Rest(stream', stamps', got', received', lost', gapped', errors')
  <2>1. errors' \cap {"input", "topology", "emit"} # {}
    BY <1>1
  <2>2. QED
    BY <1>3, <1>4, <1>6, <1>7, <2>1, ExcusedRests
<1>9. gain' \in BOOLEAN
  BY <1>1 DEF Resting
<1>10. QED
  BY <1>1, <1>8, <1>9, DecodingFrame

\* The metadata once those at the front have left.
LEMMA PoppedMetadata ==
  ASSUME NEW d \in Shape, NEW t, NEW u \in Units, NEW er, HeldInv(d, er),
         d.held # None, d.metadata # <<>>, t.held = u, t.metadata = Tail(Append(d.metadata, u))
  PROVE  /\ t.metadata # <<>> /\ HeldInv(t, er)
         /\ "topology" \notin er => Head(Append(d.metadata, u)) = d.held
<1>1. d.metadata \in Seq(Units) /\ d.held \in Units /\ u # None
  BY ShapeFields, NoneIs DEF Option
<1>2. t.metadata # <<>>
  BY <1>1, AppendedMetadata
<1>3. ASSUME "topology" \notin er
      PROVE  t.metadata = <<u>> /\ Head(Append(d.metadata, u)) = d.held
  <2>1. d.metadata = <<d.held>>
    BY <1>3 DEF HeldInv
  <2>2. QED
    BY <1>1, <2>1, SecondMetadata
<1>4. HeldInv(t, er)
  BY <1>1, <1>3 DEF HeldInv
<1>5. QED
  BY <1>2, <1>3, <1>4

LEMMA HoldUnitStep ==
  ASSUME Resting, NEW p \in Packets, HoldUnit(p)
  PROVE  Resting'
<1> DEFINE d == Decoded(p)
           u == UnitOf(p)
           t == Taken(p)
           er == ErrorsBefore(p)
<1>1. /\ Decoding(p) /\ Takes(p) /\ d.held = None /\ stream' = [t EXCEPT !.core = p.core]
      /\ errors' = er /\ UNCHANGED <<gain, queue, deferred, waiting>>
  BY DEF HoldUnit, TakesAlike, Note, ErrorsBefore
<1>2. /\ Behind(d, stamps', got', received', lost', gapped', er)
      /\ u \in Units /\ Len(stamps') = u + 1
  BY <1>1, DecodedBehind
<1>3. /\ t \in Shape /\ t.rate = d.rate /\ t.origin = d.origin /\ t.held = u
      /\ t.metadata = Append(d.metadata, u) /\ t.next = d.next /\ t.end = d.end
      /\ t.expected = d.expected
  BY <1>1, TakenFields
<1> HIDE DEF d, u, t, er
<1>4. /\ stream' \in Shape /\ stream'.rate = d.rate /\ stream'.origin = d.origin /\ stream'.held = u
      /\ stream'.metadata = Append(d.metadata, u) /\ stream'.next = d.next /\ stream'.end = d.end
      /\ stream'.expected = d.expected
  BY <1>1, <1>3, CoreFields, PacketTypes DEF SameClock, SameUnits
<1>5. /\ d \in Shape /\ d.end <= Last /\ d.expected <= Last /\ HeldInv(d, er)
      /\ HistoryTypes(stamps', got', received', lost', gapped', er)
  BY <1>2 DEF Behind, StreamInv
<1>6. d.metadata \in Seq(Units)
  BY <1>5, ShapeFields
<1>7. stream'.metadata # <<>>
  BY <1>2, <1>4, <1>6, AppendedMetadata
<1>8. /\ StreamInv(stream', stamps') /\ (got' # None => StampedFrame(got', stream', stamps'))
      /\ stream'.next = u * UnitSize + UnitSize
  BY <1>2, <1>4, <1>5, <1>7, QueuedStream
<1>9. u # None /\ u * UnitSize \in Int /\ UnitSize \in Nat
  BY <1>2, NoneIs, UnitEnd, Constants DEF Units
<1>10. HeldInv(stream', er)
  <2>1. "topology" \notin er => d.metadata = <<>>
    BY <1>1, <1>5 DEF HeldInv
  <2>2. QED
    BY <1>2, <1>4, <1>9, <2>1, FirstMetadata DEF HeldInv
<1>11. ~Excused(lost', er) => /\ stream'.expected = u * UnitSize /\ "render" \notin er
                              /\ stream'.end = stream'.expected
                              /\ ~gapped' /\ stream'.end = EndOf(got')
  <2> SUFFICES ASSUME ~Excused(lost', er)
               PROVE  /\ d.expected = u * UnitSize /\ "render" \notin er /\ d.end = d.expected
                      /\ ~gapped' /\ d.end = EndOf(got')
    BY <1>4
  <2>1. /\ d.next = UnitSize /\ d.expected = 0 /\ "render" \notin er /\ d.end = d.expected
        /\ ~gapped' /\ d.end = EndOf(got')
    BY <1>1, <1>2 DEF Behind
  <2>2. UnitSize = u * UnitSize + UnitSize
    BY <1>4, <1>8, <2>1
  <2> DEFINE x == u * UnitSize
  <2>3. x \in Int /\ UnitSize = x + UnitSize
    BY <1>9, <2>2
  <2> HIDE DEF x
  <2>4. x = 0
    BY <1>9, <2>3
  <2>5. QED
    BY <2>1, <2>4 DEF x
<1>12. OrderInv(stream', lost', er)
  BY <1>4, <1>8, <1>9, <1>11 DEF OrderInv
<1>13. OpenAccount(stream', received', lost', er)
  <2> SUFFICES ASSUME er = {}  PROVE received' + lost' + UnitSize = d.next
    BY <1>4, <1>9 DEF OpenAccount, HeldSamples
  <2>1. received' + lost' + 0 + UnitSize = d.next
    BY <1>1, <1>2 DEF Behind, HeldSamples
  <2>2. received' \in Nat /\ lost' \in Nat
    BY <1>5 DEF HistoryTypes
  <2>3. QED
    BY <1>9, <2>1, <2>2
<1>14. stream'.end <= Last
  BY <1>4, <1>5
<1>15. Rest(stream', stamps', got', received', lost', gapped', errors')
  BY <1>1, <1>4, <1>5, <1>8, <1>10, <1>11, <1>12, <1>13, <1>14 DEF Rest
<1>16. gain' \in BOOLEAN
  BY <1>1 DEF Resting
<1>17. QED
  BY <1>1, <1>15, <1>16, DecodingFrame

LEMMA RefuseRenderStep ==
  ASSUME Resting, NEW p \in Packets, RefuseRender(p)
  PROVE  Resting'
<1> DEFINE d == Decoded(p)
           u == UnitOf(p)
           t == Taken(p)
           er == ErrorsBefore(p)
<1>1. /\ Decoding(p) /\ Takes(p) /\ d.held # None /\ stream' = PopMetadata(t)
      /\ errors' = er \cup {"render"} /\ UNCHANGED <<queue, deferred, waiting>>
      /\ gain' \in {gain, gain \/ mode = "speaker"}
  BY DEF RefuseRender, TakesAlike, Note, ErrorsBefore
<1>2. /\ Behind(d, stamps', got', received', lost', gapped', er)
      /\ u \in Units /\ Len(stamps') = u + 1
  BY <1>1, DecodedBehind
<1>3. /\ t \in Shape /\ t.rate = d.rate /\ t.origin = d.origin /\ t.held = u
      /\ t.metadata = Append(d.metadata, u) /\ t.next = d.next /\ t.end = d.end
      /\ t.expected = d.expected
  BY <1>1, TakenFields
<1> HIDE DEF d, u, t, er
<1>4. /\ d \in Shape /\ d.end <= Last /\ d.expected <= Last /\ HeldInv(d, er) /\ d.metadata # <<>>
      /\ HistoryTypes(stamps', got', received', lost', gapped', er)
  BY <1>1, <1>2 DEF Behind, StreamInv
<1>5. d.metadata \in Seq(Units) /\ d.held \in Units /\ d.expected \in Nat
  BY <1>1, <1>4, ShapeFields DEF Option
<1>6. t.metadata # <<>>
  BY <1>2, <1>3, <1>5, AppendedMetadata
<1>7. /\ stream' \in Shape /\ stream'.rate = d.rate /\ stream'.origin = d.origin /\ stream'.held = u
      /\ stream'.metadata = Tail(Append(d.metadata, u)) /\ stream'.next = d.next
      /\ stream'.end = d.end /\ stream'.expected = d.expected
  <2>1. LET m == PopMetadata(t) IN
        /\ m \in Shape /\ m.rate = t.rate /\ m.origin = t.origin /\ m.held = t.held
        /\ m.metadata = Tail(t.metadata) /\ SameClock(t, m) /\ m.expected = t.expected
    BY <1>3, <1>6, PopFields
  <2>2. /\ stream' \in Shape /\ stream'.rate = t.rate /\ stream'.origin = t.origin
        /\ stream'.held = t.held /\ stream'.metadata = Tail(t.metadata)
        /\ SameClock(t, stream') /\ stream'.expected = t.expected
    BY <1>1, <2>1
  <2>3. stream'.next = t.next /\ stream'.end = t.end
    BY <2>2 DEF SameClock
  <2>4. QED
    BY <1>3, <2>2, <2>3
<1>8. stream'.metadata # <<>> /\ HeldInv(stream', er)
  <2>1. d.held # None
    BY <1>1
  <2>2. stream'.held = u /\ stream'.metadata = Tail(Append(d.metadata, u))
    BY <1>7
  <2>3. QED
    BY <1>2, <1>4, <2>1, <2>2, PoppedMetadata
<1>9. /\ StreamInv(stream', stamps') /\ (got' # None => StampedFrame(got', stream', stamps'))
      /\ d.next = u * UnitSize + UnitSize
  BY <1>2, <1>4, <1>7, <1>8, QueuedStream
<1>10. /\ u # None /\ u * UnitSize \in Int /\ d.held * UnitSize \in Int
       /\ UnitSize \in Nat /\ UnitSize > 0
  BY <1>2, <1>5, NoneIs, UnitEnd, Constants DEF Units
<1>11. HeldInv(stream', errors')
  BY <1>1, <1>8 DEF HeldInv
<1>12. Excused(lost', errors') <=> Excused(lost', er)
  BY <1>1 DEF Excused
<1>13. ~Excused(lost', er) => /\ d.expected < u * UnitSize /\ d.end = d.expected
                              /\ ~gapped' /\ d.end = EndOf(got')
  <2> SUFFICES ASSUME ~Excused(lost', er)
               PROVE  d.expected < u * UnitSize /\ d.end = d.expected /\ ~gapped' /\ d.end = EndOf(got')
    OBVIOUS
  <2>1. /\ d.next = d.held * UnitSize + UnitSize + UnitSize
        /\ "render" \notin er => d.expected = d.held * UnitSize
        /\ "render" \in er => d.expected < d.held * UnitSize
        /\ d.end = d.expected /\ ~gapped' /\ d.end = EndOf(got')
    BY <1>1, <1>2 DEF Behind
  <2> DEFINE x == u * UnitSize
             h == d.held * UnitSize
  <2>2. x \in Int /\ h \in Int /\ x + UnitSize = h + UnitSize + UnitSize
    BY <1>9, <1>10, <2>1
  <2>3. "render" \notin er => d.expected = h
    BY <2>1
  <2>4. "render" \in er => d.expected < h
    BY <2>1
  <2> HIDE DEF x, h
  <2>5. h < x
    BY <1>10, <2>2
  <2>6. d.expected < x
    <3>1. CASE "render" \in er
      BY <1>5, <2>2, <2>4, <2>5, <3>1
    <3>2. CASE "render" \notin er
      BY <2>3, <2>5, <3>2
    <3>3. QED
      BY <3>1, <3>2
  <2>7. QED
    BY <2>1, <2>6 DEF x
<1>14. OrderInv(stream', lost', errors')
  BY <1>1, <1>7, <1>9, <1>10, <1>12, <1>13 DEF OrderInv
<1>15. OpenAccount(stream', received', lost', errors')
  BY <1>1 DEF OpenAccount
<1>16. stream'.end <= Last /\ HistoryTypes(stamps', got', received', lost', gapped', errors')
  BY <1>1, <1>4, <1>7 DEF HistoryTypes
<1>17. Rest(stream', stamps', got', received', lost', gapped', errors')
  BY <1>7, <1>9, <1>11, <1>12, <1>13, <1>14, <1>15, <1>16 DEF Rest
<1>18. gain' \in BOOLEAN
  BY <1>1 DEF Resting
<1>19. QED
  BY <1>1, <1>17, <1>18, DecodingFrame

-----------------------------------------------------------------------------
(* The block of a unit that another one has followed *)

LEMMA BlockType ==
  ASSUME NEW e \in 0 .. MaxEpoch, NEW u \in Option(Units), NEW m \in Option(Units),
         NEW start \in Positions, NEW n \in Nat
  PROVE  [epoch |-> e, unit |-> u, meta |-> m, start |-> start, count |-> n] \in Blocks
BY DEF Blocks

\* The block of unit h with the metadata m of the front.
LEMMA AlignedType ==
  ASSUME NEW h \in Units, NEW s, Head(s.metadata) \in Units, epoch' \in 0 .. MaxEpoch
  PROVE  /\ AlignedBlock(h, s) \in Blocks /\ AlignedBlock(h, s).epoch = epoch'
         /\ AlignedBlock(h, s).unit = h /\ AlignedBlock(h, s).start = h * UnitSize
         /\ AlignedBlock(h, s).count = UnitSize
         /\ h * UnitSize \in Nat /\ h * UnitSize + UnitSize <= Last
<1>1. h \in 0 .. MaxUnits /\ h < MaxUnits /\ UnitSize \in Nat
  BY Constants DEF Units
<1>2. h * UnitSize \in 0 .. Last /\ h * UnitSize + UnitSize <= Last
  BY <1>1, UnitFits
<1>3. h * UnitSize \in Positions /\ h * UnitSize \in Nat
  BY <1>2, PositionsNat
<1>4. AlignedBlock(h, s) \in Blocks
  BY <1>1, <1>3, BlockType DEF AlignedBlock, Block, Option
<1>5. QED
  BY <1>2, <1>3, <1>4 DEF AlignedBlock, Block

LEMMA RenderedUnit ==
  ASSUME Resting, NEW p \in Packets, Renders(p)
  PROVE  LET d == Decoded(p)
             u == UnitOf(p)
             r == Rendered(Taken(p))
             b == AlignedBlock(d.held, Taken(p))
         IN /\ Decoding(p) /\ d.held \in Units /\ gain' \in BOOLEAN
            /\ b \in Blocks /\ b.epoch = epoch' /\ b.unit = d.held
            /\ b.start = d.held * UnitSize /\ b.count = UnitSize /\ b.start \in Nat
            /\ b.start + UnitSize <= Last
            /\ r \in Shape /\ r.rate = d.rate /\ r.origin = d.origin /\ r.held = u
            /\ r.metadata = Tail(Append(d.metadata, u)) /\ r.next = d.next /\ r.end = d.end
            /\ r.tail = d.tail /\ r.expected = d.expected + UnitSize
            /\ r.expected <= Last
            /\ "topology" \notin ErrorsBefore(p) => d.expected = d.held * UnitSize
<1> DEFINE d == Decoded(p)
           u == UnitOf(p)
           t == Taken(p)
           r == Rendered(t)
           b == AlignedBlock(d.held, t)
           er == ErrorsBefore(p)
<1>1. /\ Decoding(p) /\ Takes(p) /\ d.held # None /\ InPlace(t, Head(t.metadata))
      /\ gain' = (gain \/ mode = "speaker")
  BY DEF Renders, TakesAlike
<1>2. /\ Behind(d, stamps', got', received', lost', gapped', er)
      /\ u \in Units /\ Len(stamps') = u + 1
  BY <1>1, DecodedBehind
<1>3. /\ t \in Shape /\ t.rate = d.rate /\ t.origin = d.origin /\ t.held = u
      /\ t.metadata = Append(d.metadata, u) /\ t.next = d.next /\ t.end = d.end
      /\ t.expected = d.expected /\ t.tail = d.tail
  BY <1>1, TakenFields
<1>4. epoch' \in 0 .. MaxEpoch /\ gain' \in BOOLEAN
  BY <1>1, SegmentTypes DEF Decoding, Resting
<1> HIDE DEF d, u, t, er
<1>5. d \in Shape /\ HeldInv(d, er) /\ d.metadata # <<>>
  BY <1>1, <1>2 DEF Behind, StreamInv
<1>6. d.metadata \in Seq(Units) /\ d.held \in Units /\ d.expected \in Nat
  BY <1>1, <1>5, ShapeFields DEF Option
<1>7. t.metadata # <<>> /\ Head(t.metadata) \in Units
  BY <1>2, <1>3, <1>6, AppendedMetadata
<1>8. /\ b \in Blocks /\ b.epoch = epoch' /\ b.unit = d.held /\ b.start = d.held * UnitSize
      /\ b.count = UnitSize /\ b.start \in Nat /\ b.start + UnitSize <= Last
  BY <1>4, <1>6, <1>7, AlignedType
<1> HIDE DEF b
<1>9. /\ r \in Shape /\ r.rate = t.rate /\ r.origin = t.origin /\ r.held = t.held
      /\ r.metadata = Tail(t.metadata) /\ SameClock(t, r) /\ r.expected = t.expected + UnitSize
  BY <1>3, <1>7, RenderedFields
<1> HIDE DEF r
<1>10. d.expected = Head(t.metadata) * UnitSize
  BY <1>1, <1>3 DEF InPlace
<1>11. d.expected + UnitSize <= Last
  <2> DEFINE m == Head(t.metadata)
  <2>1. m \in 0 .. MaxUnits /\ m < MaxUnits
    BY <1>7, Constants DEF Units
  <2> HIDE DEF m
  <2>2. m * UnitSize + UnitSize <= Last
    BY <2>1, UnitFits
  <2>3. QED
    BY <1>10, <2>2 DEF m
<1>12. "topology" \notin er => d.expected = d.held * UnitSize
  <2>1. "topology" \notin er => Head(Append(d.metadata, u)) = d.held
    <3> SUFFICES ASSUME "topology" \notin er  PROVE Head(Append(d.metadata, u)) = d.held
      OBVIOUS
    <3>1. d.metadata = <<d.held>>
      BY <1>1, <1>5 DEF HeldInv
    <3>2. QED
      BY <1>2, <1>6, <3>1, SecondMetadata
  <2>2. QED
    BY <1>3, <1>10, <2>1
<1>13. r.expected <= Last
  BY <1>3, <1>9, <1>11
<1>14. QED
  BY <1>1, <1>3, <1>4, <1>6, <1>8, <1>9, <1>12, <1>13 DEF d, u, t, r, b, er, SameClock

\* The stream behind a block that was played: held, in order and accounted for.
LEMMA PlayedStream ==
  ASSUME Resting, NEW p \in Packets, Renders(p), NEW s \in Shape,
         s.rate = Decoded(p).rate, s.origin = Decoded(p).origin, s.held = UnitOf(p),
         s.metadata = Tail(Append(Decoded(p).metadata, UnitOf(p))),
         s.next = Decoded(p).next, s.expected = Decoded(p).expected + UnitSize,
         s.end = Larger(Decoded(p).end, Decoded(p).held * UnitSize + UnitSize)
  PROVE  LET d == Decoded(p)
             er == ErrorsBefore(p)
         IN /\ StreamInv(s, stamps') /\ HeldInv(s, er) /\ s.end <= Last /\ s.held # None
            /\ got' # None => StampedFrame(got', s, stamps')
            /\ HistoryTypes(stamps', got', received', lost', gapped', er)
            /\ OrderInv(s, lost', er)
            /\ OpenAccount(s, received' + UnitSize, lost', er)
            /\ ~Excused(lost', er) => /\ ~gapped' /\ d.held * UnitSize = EndOf(got')
                                      /\ s.end = EndOf(got') + UnitSize
            /\ d.held < Len(stamps')
<1> DEFINE d == Decoded(p)
           u == UnitOf(p)
           er == ErrorsBefore(p)
<1>1. /\ Decoding(p) /\ d.held \in Units /\ d.held * UnitSize \in Nat
      /\ d.held * UnitSize + UnitSize <= Last /\ s.expected <= Last
      /\ "topology" \notin er => d.expected = d.held * UnitSize
  BY RenderedUnit
<1>2. /\ Behind(d, stamps', got', received', lost', gapped', er)
      /\ u \in Units /\ Len(stamps') = u + 1
  BY <1>1, DecodedBehind
<1> HIDE DEF d, u, er
<1>3. d.held # None /\ u # None /\ UnitSize \in Nat /\ UnitSize > 0 /\ u * UnitSize \in Int
  <2>1. d.held # None /\ u # None /\ UnitSize \in Nat /\ UnitSize > 0
    BY <1>1, <1>2, NoneIs, Constants
  <2>2. u \in Int
    BY <1>2, Constants DEF Units
  <2>3. u * UnitSize \in Int
    BY <2>2, UnitEnd
  <2>4. QED
    BY <2>1, <2>3
<1>4. /\ d \in Shape /\ HeldInv(d, er) /\ d.metadata # <<>> /\ d.end <= Last
      /\ d.held < Len(stamps') /\ HistoryTypes(stamps', got', received', lost', gapped', er)
  BY <1>2, <1>3 DEF Behind, StreamInv
<1>5. s.metadata # <<>> /\ HeldInv(s, er)
  BY <1>2, <1>3, <1>4, PoppedMetadata DEF d, u
<1>6. /\ StreamInv(s, stamps') /\ (got' # None => StampedFrame(got', s, stamps'))
      /\ s.next = u * UnitSize + UnitSize /\ d.next = u * UnitSize + UnitSize
  BY <1>1, <1>2, <1>5, QueuedStream DEF d, u
<1>7. d.end \in Nat /\ d.expected \in Nat /\ s.end <= Last
  <2>1. d.end \in Nat /\ d.expected \in Nat
    BY <1>4, ShapeFields
  <2>2. s.end = d.end \/ s.end = d.held * UnitSize + UnitSize
    BY DEF Larger, d
  <2>3. QED
    BY <1>1, <1>4, <2>1, <2>2
<1>8. ~Excused(lost', er) => /\ d.next = d.held * UnitSize + UnitSize + UnitSize /\ "render" \notin er
                             /\ d.expected = d.held * UnitSize /\ d.end = d.expected
                             /\ ~gapped' /\ d.end = EndOf(got')
  <2> SUFFICES ASSUME ~Excused(lost', er)
               PROVE  /\ d.next = d.held * UnitSize + UnitSize + UnitSize /\ "render" \notin er
                      /\ d.expected = d.held * UnitSize /\ d.end = d.expected
                      /\ ~gapped' /\ d.end = EndOf(got')
    OBVIOUS
  <2>1. /\ d.next = d.held * UnitSize + UnitSize + UnitSize
        /\ "render" \in er => d.expected < d.held * UnitSize
        /\ d.end = d.expected /\ ~gapped' /\ d.end = EndOf(got')
    BY <1>2, <1>3 DEF Behind
  <2>2. d.expected = d.held * UnitSize
    BY <1>1 DEF Excused
  <2>3. "render" \notin er
    <3> DEFINE y == d.held * UnitSize
    <3>1. y \in Nat /\ d.expected = y /\ ("render" \in er => d.expected < y)
      BY <1>1, <2>1, <2>2
    <3> HIDE DEF y
    <3>2. QED
      BY <3>1
  <2>4. QED
    BY <2>1, <2>2, <2>3
<1> DEFINE h == d.held * UnitSize
           x == u * UnitSize
<1>9. ~Excused(lost', er) => /\ s.end = h + UnitSize /\ s.expected = h + UnitSize
                             /\ h + UnitSize = x /\ h = EndOf(got')
  <2> SUFFICES ASSUME ~Excused(lost', er)
               PROVE  /\ s.end = h + UnitSize /\ s.expected = h + UnitSize
                      /\ h + UnitSize = x /\ h = EndOf(got')
    OBVIOUS
  <2>1. d.end = h /\ d.expected = h /\ h = EndOf(got') /\ d.next = h + UnitSize + UnitSize
    BY <1>8
  <2>2. h \in Nat /\ x \in Int /\ d.next = x + UnitSize
    BY <1>1, <1>3, <1>6
  <2>3. s.end = Larger(d.end, h + UnitSize) /\ s.expected = d.expected + UnitSize
    BY DEF d
  <2> HIDE DEF h, x
  <2>4. s.end = h + UnitSize
    <3>1. Larger(h, h + UnitSize) = h + UnitSize
      BY <1>3, <2>2 DEF Larger
    <3>2. QED
      BY <2>1, <2>3, <3>1
  <2>5. h + UnitSize = x
    BY SMTT(30), <1>3, <2>1, <2>2
  <2>6. QED
    BY <2>1, <2>3, <2>4, <2>5
<1>10. OrderInv(s, lost', er)
  <2>1. s.held = u /\ s.held # None
    BY <1>3 DEF u
  <2>2. ~Excused(lost', er) => /\ s.next = u * UnitSize + UnitSize /\ "render" \notin er
                               /\ s.expected = u * UnitSize /\ s.end = s.expected
    BY <1>6, <1>8, <1>9
  <2>3. QED
    BY <2>1, <2>2 DEF OrderInv
<1>11. OpenAccount(s, received' + UnitSize, lost', er)
  <2>1. s.held # None /\ HeldSamples(s) = UnitSize /\ HeldSamples(d) = UnitSize
    BY <1>3 DEF HeldSamples, u
  <2>2. er = {} => received' + lost' + UnitSize + UnitSize = d.next
    BY <1>2, <2>1 DEF Behind
  <2>3. received' \in Nat /\ lost' \in Nat /\ s.next = d.next
    BY <1>4 DEF HistoryTypes, d
  <2>4. received' + UnitSize + lost' + UnitSize = received' + lost' + UnitSize + UnitSize
    BY <1>3, <2>3
  <2>5. QED
    BY <2>1, <2>2, <2>3, <2>4 DEF OpenAccount
<1>12. s.held # None
  BY <1>3 DEF u
<1>13. QED
  BY <1>4, <1>5, <1>6, <1>7, <1>8, <1>9, <1>10, <1>11, <1>12 DEF d, er

LEMMA RefuseEmitStep ==
  ASSUME Resting, NEW p \in Packets, RefuseEmit(p)
  PROVE  Resting'
<1> DEFINE d == Decoded(p)
           u == UnitOf(p)
           er == ErrorsBefore(p)
           b == AlignedBlock(d.held, Taken(p))
           r == Rendered(Taken(p))
<1>1. /\ Renders(p) /\ (stream' = r \/ stream' = Emitted(r, b))
      /\ errors' = er \cup {"emit"} /\ UNCHANGED <<queue, deferred, waiting>>
  BY DEF RefuseEmit, Note, ErrorsBefore
<1>2. /\ Decoding(p) /\ d.held \in Units /\ gain' \in BOOLEAN
      /\ b.start \in Nat /\ b.count = UnitSize /\ b.start + UnitSize <= Last
      /\ r \in Shape /\ r.rate = d.rate /\ r.origin = d.origin /\ r.held = u
      /\ r.metadata = Tail(Append(d.metadata, u)) /\ r.next = d.next /\ r.end = d.end
      /\ r.expected <= Last
  BY <1>1, RenderedUnit
<1>3. /\ Behind(d, stamps', got', received', lost', gapped', er)
      /\ u \in Units /\ Len(stamps') = u + 1
  BY <1>2, DecodedBehind
<1>4. b.count \in Nat
  BY <1>2, Constants
<1>5. LET e == Emitted(r, b) IN
      /\ e \in Shape /\ e.rate = r.rate /\ e.origin = r.origin /\ SameUnits(r, e)
      /\ e.next = r.next /\ e.end = Larger(r.end, b.start + b.count)
  BY <1>2, <1>4, EmittedFields
<1> HIDE DEF d, u, er, b, r
<1>6. d.held # None /\ d.end <= Last
  BY <1>2, <1>3, NoneIs DEF Behind
<1>7. /\ stream' \in Shape /\ stream'.rate = d.rate /\ stream'.origin = d.origin /\ stream'.held = u
      /\ stream'.metadata = Tail(Append(d.metadata, u)) /\ stream'.next = d.next
      /\ stream'.expected <= Last /\ stream'.end <= Last
  <2>1. CASE stream' = r
    BY <1>2, <1>6, <2>1
  <2>2. CASE stream' = Emitted(r, b)
    <3>1. Larger(r.end, b.start + b.count) <= Last
      BY <1>2, <1>6 DEF Larger
    <3>2. QED
      BY <1>2, <1>5, <2>2, <3>1 DEF SameUnits
  <2>3. QED
    BY <1>1, <2>1, <2>2
<1>8. d \in Shape /\ HeldInv(d, er) /\ d.metadata # <<>>
  BY <1>3, <1>6 DEF Behind, StreamInv
<1>9. stream'.metadata # <<>> /\ HeldInv(stream', er)
  BY <1>3, <1>6, <1>7, <1>8, PoppedMetadata
<1>10. StreamInv(stream', stamps') /\ (got' # None => StampedFrame(got', stream', stamps'))
  BY <1>3, <1>7, <1>9, QueuedStream
<1>11. /\ HeldInv(stream', errors') /\ HistoryTypes(stamps', got', received', lost', gapped', errors')
       /\ errors' \cap {"input", "topology", "emit"} # {}
  BY <1>1, <1>3, <1>9 DEF Behind, HeldInv, HistoryTypes
<1>12. Rest(stream', stamps', got', received', lost', gapped', errors')
  BY <1>7, <1>10, <1>11, ExcusedRests
<1>13. QED
  BY <1>1, <1>2, <1>12, DecodingFrame

\* The timestamp of a position that has one.
LEMMA TimestampType ==
  ASSUME NEW s \in Shape, NEW q \in Nat, s.origin # None => s.origin >= MinPts, HasTimestamp(s, q)
  PROVE  /\ TimestampOf(s, q) \in Option(Pts)
         /\ TimestampOf(s, q) # None => s.origin # None /\ TimestampOf(s, q) = s.origin + q
<1>1. CASE s.origin = None
  BY <1>1 DEF TimestampOf, Option
<1>2. CASE s.origin # None
  <2>1. s.origin \in Int
    BY <1>2, ShapeFields DEF Option
  <2>2. s.origin + q \in Pts
    BY <1>2, <2>1, Constants DEF HasTimestamp, Pts
  <2>3. QED
    BY <1>2, <2>2 DEF TimestampOf, Option
<1>3. QED
  BY <1>1, <1>2

LEMMA FrameType ==
  ASSUME NEW s \in Shape, NEW b \in Blocks, b.count \in Nat,
         s.origin # None => s.origin >= MinPts, HasTimestamp(s, b.start)
  PROVE  /\ PcmFrame(s, b) \in Frames /\ PcmFrame(s, b).block = b
         /\ PcmFrame(s, b).offset = 0 /\ PcmFrame(s, b).count = b.count
         /\ b.start \in Nat
         /\ PcmFrame(s, b).pts # None =>
              s.origin # None /\ PcmFrame(s, b).pts = s.origin + (b.start + 0)
<1>1. b.start \in Nat
  BY PositionsNat DEF Blocks
<1>2. /\ TimestampOf(s, b.start) \in Option(Pts)
      /\ TimestampOf(s, b.start) # None =>
           s.origin # None /\ TimestampOf(s, b.start) = s.origin + b.start
  BY <1>1, TimestampType
<1> DEFINE x == TimestampOf(s, b.start)
<1>3. PcmFrame(s, b) = [block |-> b, offset |-> 0, count |-> b.count, pts |-> x]
  BY DEF PcmFrame
<1> HIDE DEF x
<1>4. PcmFrame(s, b) \in Frames /\ PcmFrame(s, b).pts = x
  BY <1>2, <1>3 DEF Frames, x
<1>5. b.start = b.start + 0
  BY <1>1
<1>6. QED
  BY <1>1, <1>2, <1>3, <1>4, <1>5 DEF x

LEMMA EndOfType ==
  ASSUME NEW g \in Option(Frames)
  PROVE  EndOf(g) \in Nat
<1>1. CASE g = None
  BY <1>1 DEF EndOf
<1>2. CASE g # None
  <2>1. g \in Frames
    BY <1>2 DEF Option
  <2>2. g.block.start \in Nat /\ g.offset \in Nat /\ g.count \in Nat
    BY <2>1, PositionsNat DEF Frames, Blocks
  <2>3. QED
    BY <1>2, <2>2 DEF EndOf, Position
<1>3. QED
  BY <1>1, <1>2

\* What is common to a block that is queued and to one that is left to the receiver.
LEMMA PlayedParts ==
  ASSUME Resting, NEW p \in Packets, Renders(p), errors' = ErrorsBefore(p), NEW b, NEW e,
         b = AlignedBlock(Decoded(p).held, Taken(p)), e = Emitted(Rendered(Taken(p)), b),
         stream' = [e EXCEPT !.core = p.core]
  PROVE  /\ mode' = mode /\ mode' \in Modes /\ gain' \in BOOLEAN /\ epoch' \in 0 .. MaxEpoch
         /\ current' = None /\ ~drained' /\ ~terminal'
         /\ drained' \in BOOLEAN /\ terminal' \in BOOLEAN
         /\ stream' \in Streams /\ HistoryTypes(stamps', got', received', lost', gapped', errors')
         /\ StreamInv(stream', stamps') /\ HeldInv(stream', errors') /\ EndInv'
         /\ OrderInv(stream', lost', errors')
         /\ OpenAccount(stream', received' + UnitSize, lost', errors')
         /\ got' # None => StampedFrame(got', stream', stamps')
         /\ b \in Blocks /\ b.epoch = epoch' /\ b.count = UnitSize /\ b.start \in Nat
         /\ b.unit # None /\ PlacedBlock(b, stamps')
         /\ ~Excused(lost', errors') => /\ ~gapped' /\ b.start = GotEnd'
                                        /\ stream'.end = GotEnd' + UnitSize
         /\ e \in Shape /\ e.origin = stream'.origin
<1> DEFINE d == Decoded(p)
           u == UnitOf(p)
           r == Rendered(Taken(p))
           s == [e EXCEPT !.core = p.core]
<1>1. /\ Decoding(p) /\ d.held \in Units /\ gain' \in BOOLEAN
      /\ b \in Blocks /\ b.epoch = epoch' /\ b.unit = d.held
      /\ b.start = d.held * UnitSize /\ b.count = UnitSize /\ b.start \in Nat
      /\ b.start + UnitSize <= Last
      /\ r \in Shape /\ r.rate = d.rate /\ r.origin = d.origin /\ r.held = u
      /\ r.metadata = Tail(Append(d.metadata, u)) /\ r.next = d.next /\ r.end = d.end
      /\ r.tail = d.tail /\ r.expected = d.expected + UnitSize
  BY RenderedUnit
<1> HIDE DEF r
<1>2. /\ e \in Shape /\ e.rate = r.rate /\ e.origin = r.origin /\ SameUnits(r, e)
      /\ e.next = r.next /\ e.end = Larger(r.end, b.start + b.count)
  BY <1>1, Constants, EmittedFields DEF r
<1>3. s \in Shape /\ s.rate = e.rate /\ s.origin = e.origin /\ SameClock(e, s) /\ SameUnits(e, s)
  BY <1>2, CoreFields, PacketTypes
<1>4. stream' = s
  OBVIOUS
<1> HIDE DEF s
<1>5. /\ s.rate = d.rate /\ s.origin = d.origin /\ s.held = u
      /\ s.metadata = Tail(Append(d.metadata, u)) /\ s.next = d.next
      /\ s.expected = d.expected + UnitSize /\ s.end = Larger(d.end, d.held * UnitSize + UnitSize)
  BY <1>1, <1>2, <1>3 DEF SameClock, SameUnits
<1>6. /\ StreamInv(s, stamps') /\ HeldInv(s, errors') /\ s.end <= Last
      /\ got' # None => StampedFrame(got', s, stamps')
      /\ HistoryTypes(stamps', got', received', lost', gapped', errors')
      /\ OrderInv(s, lost', errors')
      /\ OpenAccount(s, received' + UnitSize, lost', errors')
      /\ ~Excused(lost', errors') => /\ ~gapped' /\ d.held * UnitSize = EndOf(got')
                                     /\ s.end = EndOf(got') + UnitSize
      /\ d.held < Len(stamps')
  BY <1>3, <1>5, PlayedStream
<1>7. epoch' \in 0 .. MaxEpoch /\ UNCHANGED <<mode, current, drained, terminal>>
  BY <1>1, SegmentTypes DEF Decoding
<1> HIDE DEF d, u
<1>8. s \in Streams
  <2>1. s.end \in 0 .. Last /\ stamps' \in Seq(Option(Pts))
    BY <1>3, <1>6, ShapeFields, Constants DEF HistoryTypes
  <2>2. s.next \in Positions /\ s.expected \in Positions
    BY <1>3, <1>6, <2>1, NextInLast
  <2>3. s.end \in Positions
    BY <2>1, PositionsNat
  <2>4. QED
    BY <1>3, <2>2, <2>3, ShapeStreams
<1>9. EndInv'
  <2>1. s.end \in Nat /\ s.tail \in Nat /\ s.tail <= TailSize
    BY <1>3, ShapeFields, Constants
  <2>2. s.end + s.tail <= Last + TailSize
    BY <1>6, <2>1, Constants
  <2>3. QED
    BY <1>4, <1>6, <2>2 DEF EndInv
<1>10. b.unit # None /\ PlacedBlock(b, stamps')
  BY <1>1, <1>6, NoneIs DEF PlacedBlock
<1>11. GotEnd' = EndOf(got')
  BY DEF GotEnd, EndOf
<1>12. QED
  BY <1>1, <1>2, <1>3, <1>4, <1>6, <1>7, <1>8, <1>9, <1>10, <1>11 DEF Resting

LEMMA OneFrame ==
  ASSUME NEW f \in Frames
  PROVE  /\ Append(<<>>, f) \in Seq(Frames) /\ Len(Append(<<>>, f)) = 1
         /\ Append(<<>>, f)[1] = f /\ Append(<<>>, f) # <<>>
<1>1. <<>> \in Seq(Frames) /\ Len(<<>>) = 0
  BY EmptyStores
<1>2. Append(<<>>, f) \in Seq(Frames) /\ Len(Append(<<>>, f)) = 1 /\ Append(<<>>, f)[1] = f
  BY <1>1, AppendProperties
<1>3. QED
  BY <1>1, <1>2

LEMMA OneBlock ==
  ASSUME NEW b \in Blocks
  PROVE  /\ Append(<<>>, b) \in Seq(Blocks) /\ Len(Append(<<>>, b)) = 1
         /\ Append(<<>>, b)[1] = b /\ Append(<<>>, b) # <<>> /\ Head(Append(<<>>, b)) = b
<1>1. <<>> \in Seq(Blocks) /\ Len(<<>>) = 0
  BY EmptyStores
<1>2. Append(<<>>, b) \in Seq(Blocks) /\ Len(Append(<<>>, b)) = 1 /\ Append(<<>>, b)[1] = b
  BY <1>1, AppendProperties
<1>3. Append(<<>>, b) # <<>>
  BY <1>1, <1>2
<1>4. Head(Append(<<>>, b)) = Append(<<>>, b)[1]
  BY <1>2, <1>3, HeadTailProperties
<1>5. QED
  BY <1>2, <1>3, <1>4

LEMMA EmitUnitStep ==
  ASSUME Resting, NEW p \in Packets, EmitUnit(p)
  PROVE  IInv'
<1> DEFINE b == AlignedBlock(Decoded(p).held, Taken(p))
           e == Emitted(Rendered(Taken(p)), b)
           f == PcmFrame(e, b)
<1>1. /\ mode # "pull" /\ Renders(p) /\ HasTimestamp(e, b.start) /\ queue' = Append(<<>>, f)
      /\ stream' = [e EXCEPT !.core = p.core] /\ errors' = ErrorsBefore(p)
      /\ deferred' = <<>> /\ waiting' = 0
  BY DEF EmitUnit, Note, ErrorsBefore, Resting
<1>2. /\ mode' = mode /\ mode' \in Modes /\ gain' \in BOOLEAN /\ epoch' \in 0 .. MaxEpoch
      /\ current' = None /\ ~drained' /\ ~terminal'
      /\ drained' \in BOOLEAN /\ terminal' \in BOOLEAN
      /\ stream' \in Streams /\ HistoryTypes(stamps', got', received', lost', gapped', errors')
      /\ StreamInv(stream', stamps') /\ HeldInv(stream', errors') /\ EndInv'
      /\ OrderInv(stream', lost', errors')
      /\ OpenAccount(stream', received' + UnitSize, lost', errors')
      /\ got' # None => StampedFrame(got', stream', stamps')
      /\ b \in Blocks /\ b.epoch = epoch' /\ b.count = UnitSize /\ b.start \in Nat
      /\ b.unit # None /\ PlacedBlock(b, stamps')
      /\ ~Excused(lost', errors') => /\ ~gapped' /\ b.start = GotEnd'
                                     /\ stream'.end = GotEnd' + UnitSize
      /\ e \in Shape /\ e.origin = stream'.origin
  BY <1>1, PlayedParts
<1> HIDE DEF e, b
<1>3. e.origin # None => e.origin >= MinPts
  BY <1>2 DEF StreamInv
<1>4. /\ f \in Frames /\ f.block = b /\ f.offset = 0 /\ f.count = UnitSize
      /\ f.pts # None => e.origin # None /\ f.pts = e.origin + (b.start + 0)
  BY <1>1, <1>2, <1>3, FrameType, Constants
<1> HIDE DEF f
<1>5. queue' \in Seq(Frames) /\ Len(queue') = 1 /\ queue'[1] = f /\ queue' # <<>>
  BY <1>1, <1>4, OneFrame
<1>6. <<>> \in Seq(Blocks) /\ Len(<<>>) = 0 /\ UnitSize \in Nat /\ 0 \in 0 .. UnitSize
  BY EmptyStores, Constants
<1>7. TypeOK'
  <2>1. /\ deferred' \in Seq(Blocks) /\ Len(deferred') <= 1
        /\ current' \in Option(Pulls) /\ waiting' \in 0 .. UnitSize
    BY <1>1, <1>2, <1>6 DEF Option
  <2>2. waiting' = (IF deferred' = <<>> THEN 0 ELSE Head(deferred').count)
                     + (IF current' = None THEN 0 ELSE current'.block.count - current'.offset)
    BY <1>1, <1>2
  <2>3. QED
    BY <1>2, <1>5, <2>1, <2>2 DEF HistoryTypes, TypeOK
<1>8. StoreInv' /\ EpochInv'
  <2>1. StoreInv'
    BY <1>1, <1>2, <1>5, <1>6 DEF StoreInv
  <2>2. \A i \in 1 .. Len(queue') : queue'[i].block.epoch = epoch'
    BY <1>2, <1>4, <1>5
  <2>3. QED
    BY <1>1, <1>2, <1>6, <2>1, <2>2 DEF EpochInv
<1>9. StampInv'
  <2>1. StampedFrame(f, stream', stamps')
    BY <1>2, <1>4 DEF StampedFrame
  <2>2. \A i \in 1 .. Len(queue') : StampedFrame(queue'[i], stream', stamps')
    BY <1>5, <2>1
  <2>3. QED
    BY <1>1, <1>2, <1>6, <2>2 DEF StampInv
<1>10. QueuedSamples' = UnitSize
  BY <1>4, <1>5, <1>6 DEF QueuedSamples
<1>11. ChainInv'
  <2>1. Position(queue'[1]) = b.start
    BY <1>2, <1>4, <1>5 DEF Position
  <2>2. GotEnd' = EndOf(got')
    BY DEF GotEnd, EndOf
  <2>3. GotEnd' \in Nat
    BY <1>2, <2>2, EndOfType DEF HistoryTypes
  <2>4. GotEnd' + UnitSize = GotEnd' + QueuedSamples' + waiting'
    BY <1>1, <1>6, <1>10, <2>3
  <2>5. QED
    BY <1>1, <1>2, <1>5, <1>6, <2>1, <2>4 DEF ChainInv
<1>12. AccountInv'
  <2>1. received' + QueuedSamples' + waiting' = received' + UnitSize
    BY <1>1, <1>2, <1>6, <1>10 DEF HistoryTypes
  <2>2. QED
    BY <1>2, <2>1 DEF AccountInv
<1>13. QED
  BY <1>2, <1>7, <1>8, <1>9, <1>11, <1>12 DEF IInv

LEMMA DeferUnitStep ==
  ASSUME Resting, NEW p \in Packets, DeferUnit(p)
  PROVE  IInv'
<1> DEFINE b == AlignedBlock(Decoded(p).held, Taken(p))
           e == Emitted(Rendered(Taken(p)), b)
<1>1. /\ mode = "pull" /\ Renders(p) /\ deferred' = Append(<<>>, b) /\ waiting' = b.count
      /\ stream' = [e EXCEPT !.core = p.core] /\ errors' = ErrorsBefore(p)
      /\ queue' = <<>>
  BY DEF DeferUnit, Note, ErrorsBefore, Resting
<1>2. /\ mode' = mode /\ mode' \in Modes /\ gain' \in BOOLEAN /\ epoch' \in 0 .. MaxEpoch
      /\ current' = None /\ ~drained' /\ ~terminal'
      /\ drained' \in BOOLEAN /\ terminal' \in BOOLEAN
      /\ stream' \in Streams /\ HistoryTypes(stamps', got', received', lost', gapped', errors')
      /\ StreamInv(stream', stamps') /\ HeldInv(stream', errors') /\ EndInv'
      /\ OrderInv(stream', lost', errors')
      /\ OpenAccount(stream', received' + UnitSize, lost', errors')
      /\ got' # None => StampedFrame(got', stream', stamps')
      /\ b \in Blocks /\ b.epoch = epoch' /\ b.count = UnitSize /\ b.start \in Nat
      /\ b.unit # None /\ PlacedBlock(b, stamps')
      /\ ~Excused(lost', errors') => /\ ~gapped' /\ b.start = GotEnd'
                                     /\ stream'.end = GotEnd' + UnitSize
  BY <1>1, PlayedParts
<1> HIDE DEF e, b
<1>3. /\ deferred' \in Seq(Blocks) /\ Len(deferred') = 1 /\ deferred'[1] = b
      /\ deferred' # <<>> /\ Head(deferred') = b
  BY <1>1, <1>2, OneBlock
<1>4. /\ <<>> \in Seq(Frames) /\ Len(<<>>) = 0 /\ UnitSize \in Nat /\ UnitSize \in 0 .. UnitSize
      /\ waiting' = UnitSize
  BY <1>1, <1>2, EmptyStores, Constants
<1>5. TypeOK'
  <2>1. queue' \in Seq(Frames) /\ current' \in Option(Pulls) /\ waiting' \in 0 .. UnitSize
    BY <1>1, <1>2, <1>4 DEF Option
  <2>2. waiting' = (IF deferred' = <<>> THEN 0 ELSE Head(deferred').count)
                     + (IF current' = None THEN 0 ELSE current'.block.count - current'.offset)
    BY <1>2, <1>3, <1>4
  <2>3. QED
    BY <1>2, <1>3, <2>1, <2>2 DEF HistoryTypes, TypeOK
<1>6. StoreInv' /\ EpochInv'
  <2>1. StoreInv'
    BY <1>1, <1>2, <1>3, <1>4 DEF StoreInv
  <2>2. \A i \in 1 .. Len(deferred') : deferred'[i].epoch = epoch'
    BY <1>2, <1>3
  <2>3. QED
    BY <1>1, <1>2, <1>4, <2>1, <2>2 DEF EpochInv
<1>7. StampInv'
  <2>1. \A i \in 1 .. Len(deferred') : deferred'[i].unit # None /\ PlacedBlock(deferred'[i], stamps')
    BY <1>2, <1>3
  <2>2. QED
    BY <1>1, <1>2, <1>4, <2>1 DEF StampInv
<1>8. QueuedSamples' = 0
  BY <1>1, <1>4 DEF QueuedSamples
<1>9. ChainInv'
  <2>1. GotEnd' = EndOf(got')
    BY DEF GotEnd, EndOf
  <2>2. GotEnd' \in Nat
    BY <1>2, <2>1, EndOfType DEF HistoryTypes
  <2>3. GotEnd' + UnitSize = GotEnd' + QueuedSamples' + waiting'
    BY <1>4, <1>8, <2>2
  <2>4. QED
    BY <1>1, <1>2, <1>3, <1>4, <2>3 DEF ChainInv
<1>10. AccountInv'
  <2>1. received' + QueuedSamples' + waiting' = received' + UnitSize
    BY <1>2, <1>4, <1>8 DEF HistoryTypes
  <2>2. QED
    BY <1>2, <2>1 DEF AccountInv
<1>11. QED
  BY <1>2, <1>5, <1>6, <1>7, <1>9, <1>10 DEF IInv

LEMMA PushStep ==
  ASSUME IInv, NEW p \in Packets, Push(p)
  PROVE  IInv'
<1>1. Resting
  BY OpenRests DEF Push
<1>2. CASE RefusePacket(p)
  BY <1>1, <1>2, RefusePacketStep, RestingStays
<1>3. CASE RefuseUnit(p)
  BY <1>1, <1>3, RefuseUnitStep, RestingStays
<1>4. CASE RefuseTopology(p)
  BY <1>1, <1>4, RefuseTopologyStep, RestingStays
<1>5. CASE HoldUnit(p)
  BY <1>1, <1>5, HoldUnitStep, RestingStays
<1>6. CASE RefuseRender(p)
  BY <1>1, <1>6, RefuseRenderStep, RestingStays
<1>7. CASE EmitUnit(p)
  BY <1>1, <1>7, EmitUnitStep
<1>8. CASE RefuseEmit(p)
  BY <1>1, <1>8, RefuseEmitStep, RestingStays
<1>9. CASE DeferUnit(p)
  BY <1>1, <1>9, DeferUnitStep
<1>10. CASE RefuseReset(p)
  BY <1>10, FailResetStep DEF RefuseReset
<1>11. QED
  BY <1>2, <1>3, <1>4, <1>5, <1>6, <1>7, <1>8, <1>9, <1>10 DEF Push

-----------------------------------------------------------------------------
(* Draining *)

LEMMA DrainEmptyStep ==
  ASSUME IInv, Open, DrainEmpty
  PROVE  IInv'
<1>1. /\ drained' = TRUE /\ UNCHANGED <<mode, stream, gain, epoch, terminal>>
      /\ UNCHANGED <<queue, deferred, current, waiting>>
      /\ UNCHANGED <<stamps, got, received, lost, gapped, errors>> /\ stream.rate = None
  BY DEF DrainEmpty, stores, history
<1>2. Resting
  BY OpenRests
<1>3. /\ queue = <<>> /\ deferred = <<>> /\ current = None /\ waiting = 0 /\ ~terminal /\ ~drained
      /\ Rest(stream, stamps, got, received, lost, gapped, errors)
  BY <1>2 DEF Resting
<1>4. stream \in Shape /\ stream.next = 0 /\ OpenAccount(stream, received, lost, errors)
  BY <1>1, <1>3 DEF Rest, StreamInv
<1>5. TypeOK'
  BY <1>1 DEF IInv, TypeOK
<1>6. StoreInv' /\ EpochInv' /\ StampInv' /\ EndInv'
  <2>1. Len(<<>>) = 0
    BY EmptyStores
  <2>2. StoreInv'
    BY <1>1, <1>3, <2>1 DEF StoreInv
  <2>3. EpochInv' /\ StampInv'
    BY <1>1 DEF IInv, EpochInv, StampInv
  <2>4. EndInv'
    BY <1>1, <1>3 DEF IInv, EndInv
  <2>5. QED
    BY <2>2, <2>3, <2>4
<1>7. StreamInv(stream', stamps') /\ HeldInv(stream', errors')
  BY <1>1, <1>3 DEF Rest
<1>8. ChainInv'
  <2>1. GotEnd' = GotEnd /\ QueuedSamples' = QueuedSamples
    BY <1>1 DEF GotEnd, QueuedSamples
  <2>2. QED
    BY <1>1, <1>3, <2>1 DEF IInv, ChainInv
<1>9. AccountInv'
  <2>1. errors = {} => received + lost = 0
    <3> SUFFICES ASSUME errors = {}  PROVE received + lost = 0
      OBVIOUS
    <3>1. received + lost + HeldSamples(stream) = 0
      BY <1>4 DEF OpenAccount
    <3>2. HeldSamples(stream) \in Nat
      BY Constants DEF HeldSamples
    <3>3. received \in Nat /\ lost \in Nat
      BY <1>3 DEF Rest, HistoryTypes
    <3>4. QED
      BY <3>1, <3>2, <3>3
  <2>2. ~HasPendingOutput'
    BY <1>1, <1>3 DEF HasPendingOutput
  <2>3. QED
    BY <1>1, <1>4, <2>1, <2>2 DEF AccountInv
<1>10. QED
  BY <1>5, <1>6, <1>7, <1>8, <1>9 DEF IInv

LEMMA DrainNoUnitStep ==
  ASSUME IInv, DrainNoUnit
  PROVE  IInv'
<1>1. /\ FailClosed /\ stream' = stream
      /\ UNCHANGED <<mode, gain, epoch, stamps, got, received, lost, gapped>>
  BY DEF DrainNoUnit
<1>2. stream \in Shape /\ StreamInv(stream, stamps) /\ stream.expected <= Last
  BY StreamsShape DEF IInv, TypeOK, StreamInv
<1>3. HeldInv(stream, errors)
  BY DEF IInv
<1>4. /\ stream' \in Shape /\ stream'.next = stream.next /\ stream'.end = stream.end
      /\ stream'.tail = stream.tail /\ stream'.origin = stream.origin /\ stream'.expected <= Last
      /\ StreamInv(stream', stamps) /\ HeldInv(stream', errors)
  BY <1>1, <1>2, <1>3
<1>5. FailClosed /\ UNCHANGED <<mode, gain, epoch, stamps, got, received, lost, gapped>>
  BY <1>1
<1>6. QED
  BY <1>4, <1>5, GainKept, ClosedStep

\* The stream without the unit held.
LEMMA UnheldFields ==
  ASSUME NEW s \in Shape
  PROVE  LET t == [s EXCEPT !.held = None] IN
         /\ t \in Shape /\ t.held = None /\ t.rate = s.rate /\ t.origin = s.origin
         /\ t.metadata = s.metadata /\ t.expected = s.expected /\ SameClock(s, t)
BY DEF Shape, Option, SameClock

LEMMA FailDrainStep ==
  ASSUME IInv, FailDrain
  PROVE  IInv'
<1>1. /\ FailClosed /\ gain' \in BOOLEAN
      /\ UNCHANGED <<mode, epoch, stamps, got, received, lost, gapped>>
  <2>1. gain' \in {gain, gain \/ (mode = "speaker" /\ stream.held # None)}
    BY DEF FailDrain
  <2>2. gain \in BOOLEAN
    BY DEF IInv, TypeOK
  <2>3. QED
    BY <2>1, <2>2 DEF FailDrain
<1>2. /\ stream \in Shape /\ StreamInv(stream, stamps) /\ stream.expected <= Last
      /\ HeldInv(stream, errors)
  BY StreamsShape DEF IInv, TypeOK, StreamInv
<1>3. CASE stream.held = None
  <2>1. stream' = stream
    BY <1>3 DEF FailDrain
  <2>2. QED
    BY <1>1, <1>2, <2>1, ClosedStep
<1>4. CASE stream.held # None
  <2> DEFINE a == PopMetadata(stream)
             t == [a EXCEPT !.held = None]
  <2>1. stream' = t
    BY <1>4 DEF FailDrain
  <2>2. stream.metadata # <<>> /\ stream.held \in Units
    BY <1>2, <1>4, ShapeFields DEF StreamInv, Option
  <2>3. /\ a \in Shape /\ a.rate = stream.rate /\ a.origin = stream.origin
        /\ a.metadata = Tail(stream.metadata) /\ SameClock(stream, a) /\ a.expected = stream.expected
    BY <1>2, <2>2, PopFields
  <2> HIDE DEF a
  <2>4. /\ t \in Shape /\ t.held = None /\ t.rate = a.rate /\ t.origin = a.origin
        /\ t.metadata = a.metadata /\ t.expected = a.expected /\ SameClock(a, t)
    BY <2>3, UnheldFields
  <2> HIDE DEF t
  <2>5. /\ t.next = stream.next /\ t.end = stream.end /\ t.tail = stream.tail
        /\ t.origin = stream.origin /\ t.rate = stream.rate /\ t.expected = stream.expected
        /\ t.metadata = Tail(stream.metadata)
    BY <2>3, <2>4 DEF SameClock
  <2>6. StreamInv(t, stamps)
    BY <1>2, <2>4, <2>5 DEF StreamInv
  <2>7. "topology" \notin errors => t.metadata = <<>>
    <3> SUFFICES ASSUME "topology" \notin errors  PROVE Tail(stream.metadata) = <<>>
      BY <2>5
    <3>1. stream.metadata = <<stream.held>>
      BY <1>2, <1>4 DEF HeldInv
    <3>2. QED
      BY <2>2, <3>1
  <2>8. HeldInv(t, errors)
    BY <2>4, <2>7 DEF HeldInv
  <2>9. /\ stream' \in Shape /\ stream'.next = stream.next /\ stream'.end = stream.end
        /\ stream'.tail = stream.tail /\ stream'.origin = stream.origin /\ stream'.expected <= Last
        /\ StreamInv(stream', stamps) /\ HeldInv(stream', errors)
    BY <1>2, <2>1, <2>4, <2>5, <2>6, <2>8
  <2>10. QED
    BY <1>1, <2>9, ClosedStep
<1>5. QED
  BY <1>3, <1>4

\* What the last unit leaves: the stream without it, and its block.
LEMMA LastUnitFields ==
  ASSUME Resting, stream.next > 0, UNCHANGED epoch,
         stream.held # None => InPlace(stream, Head(stream.metadata))
  PROVE  LET s == LastUnit.s
             q == LastUnit.blocks
         IN /\ s \in Shape /\ s.rate = stream.rate /\ s.origin = stream.origin
            /\ s.next = stream.next /\ s.held = None /\ s.expected <= Last /\ s.end <= Last
            /\ q \in Seq(Blocks)
            /\ stream.held = None => q = <<>>
            /\ stream.held # None =>
                 /\ Len(q) = 1 /\ q # <<>> /\ q[1].epoch = epoch /\ q[1].count = UnitSize
                 /\ q[1].unit # None /\ PlacedBlock(q[1], stamps)
                 /\ mode = "binaural" => s.tail = TailSize
            /\ ~Excused(lost, errors) =>
                 /\ stream.held # None /\ q[1].start = EndOf(got)
                 /\ s.end = EndOf(got) + UnitSize /\ s.expected = EndOf(got) + UnitSize
            /\ errors = {} => stream.held # None /\ received + lost + UnitSize = stream.next
<1>1. /\ stream \in Shape /\ stream.end <= Last /\ StreamInv(stream, stamps)
      /\ HeldInv(stream, errors) /\ OrderInv(stream, lost, errors)
      /\ OpenAccount(stream, received, lost, errors)
      /\ ~Excused(lost, errors) => stream.end = EndOf(got)
      /\ HistoryTypes(stamps, got, received, lost, gapped, errors) /\ epoch \in 0 .. MaxEpoch
  BY DEF Resting, Rest
<1>2. /\ stream.next \in Nat /\ stream.expected \in Nat /\ stream.end \in Nat
      /\ stream.metadata \in Seq(Units) /\ UnitSize \in Nat /\ UnitSize > 0
      /\ stream.expected <= Last
  BY <1>1, ShapeFields, Constants DEF StreamInv
<1>3. errors = {} => stream.held # None /\ received + lost + UnitSize = stream.next
  <2> SUFFICES ASSUME errors = {}
               PROVE  stream.held # None /\ received + lost + UnitSize = stream.next
    OBVIOUS
  <2>1. stream.held # None /\ received + lost + HeldSamples(stream) = stream.next
    BY <1>1, <1>2 DEF OpenAccount
  <2>2. QED
    BY <2>1 DEF HeldSamples
<1>4. ~Excused(lost, errors) => stream.held # None
  BY <1>1, <1>2 DEF OrderInv
<1>5. CASE stream.held = None
  <2>1. LastUnit = [s |-> stream, blocks |-> <<>>]
    BY <1>5 DEF LastUnit
  <2>2. LastUnit.s = stream /\ LastUnit.blocks = <<>>
    BY <2>1
  <2>3. <<>> \in Seq(Blocks)
    BY EmptyStores
  <2>4. QED
    BY <1>1, <1>2, <1>3, <1>4, <1>5, <2>2, <2>3
<1>6. CASE stream.held # None
  <2> DEFINE h == stream.held
             b == AlignedBlock(h, stream)
             r == Rendered(stream)
             t == [r EXCEPT !.held = None]
             e == Emitted(t, b)
  <2>1. LastUnit = [s |-> e, blocks |-> <<b>>]
    BY <1>6 DEF LastUnit
  <2>2. LastUnit.s = e /\ LastUnit.blocks = <<b>>
    BY <2>1
  <2>3. /\ h \in Units /\ h < Len(stamps) /\ stream.metadata # <<>>
        /\ stream.expected = Head(stream.metadata) * UnitSize
    BY <1>1, <1>6, ShapeFields DEF StreamInv, Option, InPlace
  <2>4. Head(stream.metadata) \in Units
    BY <1>2, <2>3, HeadTailProperties
  <2>5. epoch' \in 0 .. MaxEpoch /\ epoch' = epoch
    BY <1>1
  <2>6. /\ b \in Blocks /\ b.epoch = epoch /\ b.unit = h /\ b.start = h * UnitSize
        /\ b.count = UnitSize /\ h * UnitSize \in Nat /\ h * UnitSize + UnitSize <= Last
    BY <2>3, <2>4, <2>5, AlignedType
  <2> HIDE DEF b
  <2>7. /\ r \in Shape /\ r.rate = stream.rate /\ r.origin = stream.origin
        /\ SameClock(stream, r) /\ r.expected = stream.expected + UnitSize
    BY <1>1, <2>3, RenderedFields
  <2> HIDE DEF r
  <2>8. /\ t \in Shape /\ t.held = None /\ t.rate = r.rate /\ t.origin = r.origin
        /\ t.expected = r.expected /\ SameClock(r, t)
    BY <2>7, UnheldFields
  <2> HIDE DEF t
  <2>9. /\ e \in Shape /\ e.rate = t.rate /\ e.origin = t.origin /\ SameUnits(t, e)
        /\ e.next = t.next /\ e.end = Larger(t.end, b.start + b.count)
        /\ mode = "binaural" => e.tail = TailSize
    BY <1>2, <2>6, <2>8, EmittedFields
  <2> HIDE DEF e
  <2>10. /\ e.rate = stream.rate /\ e.origin = stream.origin /\ e.next = stream.next /\ e.held = None
         /\ e.expected = stream.expected + UnitSize
         /\ e.end = Larger(stream.end, h * UnitSize + UnitSize)
    BY <2>6, <2>7, <2>8, <2>9 DEF SameClock, SameUnits
  <2>11. e.expected <= Last
    <3> DEFINE m == Head(stream.metadata)
    <3>1. m \in 0 .. MaxUnits /\ m < MaxUnits
      BY <2>4, Constants DEF Units
    <3> HIDE DEF m
    <3>2. m * UnitSize + UnitSize <= Last
      BY <3>1, UnitFits
    <3>3. QED
      BY <2>3, <2>10, <3>2 DEF m
  <2>12. e.end <= Last
    BY <1>1, <2>6, <2>10 DEF Larger
  <2>13. <<b>> \in Seq(Blocks) /\ Len(<<b>>) = 1 /\ <<b>>[1] = b /\ <<b>> # <<>>
    BY <2>6
  <2>14. b.unit # None /\ PlacedBlock(b, stamps)
    BY <1>6, <2>3, <2>6 DEF PlacedBlock
  <2>15. ~Excused(lost, errors) =>
           /\ b.start = EndOf(got) /\ e.end = EndOf(got) + UnitSize
           /\ e.expected = EndOf(got) + UnitSize
    <3> SUFFICES ASSUME ~Excused(lost, errors)
                 PROVE  /\ b.start = EndOf(got) /\ e.end = EndOf(got) + UnitSize
                        /\ e.expected = EndOf(got) + UnitSize
      OBVIOUS
    <3>1. stream.metadata = <<h>>
      BY <1>1, <1>6 DEF Excused, HeldInv
    <3>2. stream.expected = h * UnitSize
      BY <2>3, <3>1
    <3>3. stream.end = stream.expected /\ stream.end = EndOf(got)
      BY <1>1 DEF OrderInv
    <3> DEFINE x == h * UnitSize
    <3>4. /\ x \in Nat /\ stream.expected = x /\ b.start = x
          /\ e.end = Larger(stream.end, x + UnitSize)
      BY <2>6, <2>10, <3>2
    <3> HIDE DEF x, h
    <3>5. Larger(x, x + UnitSize) = x + UnitSize
      BY <1>2, <3>4 DEF Larger
    <3>6. QED
      BY <2>10, <3>3, <3>4, <3>5
  <2> HIDE DEF h
  <2>16. QED
    BY <1>3, <1>6, <2>2, <2>6, <2>9, <2>10, <2>11, <2>12, <2>13, <2>14, <2>15
<1>7. QED
  BY <1>5, <1>6

LEMMA EndTailFields ==
  ASSUME NEW s \in Shape, NEW x \in 0 .. TailSize, NEW y \in Nat
  PROVE  LET t == [s EXCEPT !.tail = x, !.end = y] IN
         /\ t \in Shape /\ t.tail = x /\ t.end = y /\ t.rate = s.rate /\ t.origin = s.origin
         /\ t.next = s.next /\ SameUnits(s, t)
<1> DEFINE a == [s EXCEPT !.tail = x]
<1>1. /\ a \in Shape /\ a.tail = x /\ a.rate = s.rate /\ a.origin = s.origin
      /\ a.next = s.next /\ SameUnits(s, a)
  BY DEF Shape, SameUnits
<1> HIDE DEF a
<1>2. LET t == [a EXCEPT !.end = y] IN
      /\ t \in Shape /\ t.tail = a.tail /\ t.end = y /\ t.rate = a.rate /\ t.origin = a.origin
      /\ t.next = a.next /\ SameUnits(a, t)
  BY <1>1 DEF Shape, SameUnits
<1>3. [s EXCEPT !.tail = x, !.end = y] = [a EXCEPT !.end = y]
  BY DEF a
<1>4. QED
  BY <1>1, <1>2, <1>3 DEF SameUnits

\* The stream of a session that has drained, and what drain leaves alone.
LEMMA DrainedStream ==
  ASSUME Resting, DrainUnits
  PROVE  LET s == LastUnit.s IN
         /\ stream' \in Streams /\ stream'.next = stream.next /\ stream'.origin = s.origin
         /\ s.origin # None => s.origin >= MinPts
         /\ StreamInv(stream', stamps') /\ HeldInv(stream', errors')
         /\ got' # None => StampedFrame(got', stream', stamps')
         /\ s.tail \in 0 .. TailSize /\ s.end \in Nat /\ s.expected \in Nat
         /\ mode = "pull" => stream'.end = s.end /\ stream'.tail = s.tail
         /\ mode = "binaural" => stream'.tail = 0
         /\ mode \in Modes /\ gain' \in BOOLEAN /\ epoch \in 0 .. MaxEpoch /\ drained' = TRUE
         /\ drained' \in BOOLEAN /\ terminal' \in BOOLEAN /\ ~terminal'
         /\ current' = None /\ UNCHANGED <<mode, epoch, stamps, got, received, lost, gapped, errors>>
         /\ HistoryTypes(stamps', got', received', lost', gapped', errors')
         /\ ~Excused(lost, errors) => ~gapped
<1> DEFINE s == LastUnit.s
           x == IF mode = "binaural" THEN 0 ELSE s.tail
           y == IF GainBlock(s) = <<>> THEN s.end ELSE s.expected + GainSize
           t == [s EXCEPT !.tail = x, !.end = y]
<1>1. /\ stream.next > 0 /\ UNCHANGED epoch /\ s.metadata = <<>> /\ drained' = TRUE
      /\ stream.held # None => InPlace(stream, Head(stream.metadata))
      /\ gain' = (gain \/ (mode = "speaker" /\ stream.held # None))
      /\ UNCHANGED <<mode, current, terminal, stamps, got, received, lost, gapped, errors>>
      /\ stream' = t
  BY DEF DrainUnits, history
<1>2. /\ s \in Shape /\ s.rate = stream.rate /\ s.origin = stream.origin
      /\ s.next = stream.next /\ s.held = None /\ s.expected <= Last /\ s.end <= Last
  BY <1>1, LastUnitFields
<1> HIDE DEF s
<1>3. s.end \in Nat /\ s.expected \in Nat /\ s.tail \in 0 .. TailSize /\ GainSize \in Nat
  BY <1>2, ShapeFields, Constants
<1>4. x \in 0 .. TailSize /\ y \in Nat
  BY <1>3, Constants
<1>5. mode = "pull" => y = s.end /\ x = s.tail
  BY DEF GainBlock
<1>6. mode = "binaural" => x = 0
  OBVIOUS
<1>7. y \in Positions
  <2>1. y \in 0 .. Last + TailSize + GainSize
    BY <1>2, <1>3, Constants
  <2>2. QED
    BY <2>1 DEF Positions, Last
<1> HIDE DEF x, y
<1>8. /\ t \in Shape /\ t.tail = x /\ t.end = y /\ t.rate = s.rate /\ t.origin = s.origin
      /\ t.next = s.next /\ SameUnits(s, t)
  BY <1>2, <1>4, EndTailFields
<1> HIDE DEF t
<1>9. /\ t.held = None /\ t.metadata = <<>> /\ t.expected <= Last /\ t.rate = stream.rate
      /\ t.origin = stream.origin /\ t.next = stream.next
  BY <1>1, <1>2, <1>8 DEF SameUnits
<1>10. /\ StreamInv(stream, stamps) /\ (got # None => StampedFrame(got, stream, stamps))
       /\ HistoryTypes(stamps, got, received, lost, gapped, errors)
       /\ ~Excused(lost, errors) => ~gapped
  BY DEF Resting, Rest
<1>11. StreamInv(t, stamps)
  BY <1>1, <1>9, <1>10 DEF StreamInv
<1>12. HeldInv(t, errors)
  BY <1>9 DEF HeldInv
<1>13. got # None => StampedFrame(got, t, stamps)
  BY <1>9, <1>10 DEF StampedFrame
<1>14. t \in Streams
  BY <1>7, <1>8, <1>10, <1>11, NextInLast, ShapeStreams DEF HistoryTypes
<1>15. s.origin # None => s.origin >= MinPts
  BY <1>2, <1>10 DEF StreamInv
<1>16. gain' \in BOOLEAN /\ mode \in Modes /\ epoch \in 0 .. MaxEpoch /\ current = None
       /\ ~terminal /\ terminal \in BOOLEAN
  BY <1>1 DEF Resting
<1>17. /\ UNCHANGED <<mode, epoch, stamps, got, received, lost, gapped, errors>>
       /\ drained' = TRUE /\ current' = None /\ ~terminal'
       /\ drained' \in BOOLEAN /\ terminal' \in BOOLEAN
  BY <1>1, <1>16
<1>18. /\ stream' \in Streams /\ StreamInv(stream', stamps') /\ HeldInv(stream', errors')
       /\ got' # None => StampedFrame(got', stream', stamps')
       /\ HistoryTypes(stamps', got', received', lost', gapped', errors')
  BY <1>1, <1>10, <1>11, <1>12, <1>13, <1>14, <1>17
<1>19. /\ stream'.next = stream.next /\ stream'.origin = s.origin
       /\ mode = "pull" => stream'.end = s.end /\ stream'.tail = s.tail
       /\ mode = "binaural" => stream'.tail = 0
  BY <1>1, <1>2, <1>5, <1>6, <1>8, <1>9
<1>20. QED
  BY <1>3, <1>10, <1>15, <1>16, <1>17, <1>18, <1>19 DEF s

LEMMA DrainPullStep ==
  ASSUME Resting, DrainUnits, mode = "pull"
  PROVE  IInv'
<1> DEFINE s == LastUnit.s
           q == LastUnit.blocks
<1>1. /\ stream.next > 0 /\ UNCHANGED epoch
      /\ stream.held # None => InPlace(stream, Head(stream.metadata))
  BY DEF DrainUnits
<1>2. /\ q \in Seq(Blocks) /\ s.end <= Last /\ s.held = None
      /\ stream.held = None => q = <<>>
      /\ stream.held # None =>
           /\ Len(q) = 1 /\ q # <<>> /\ q[1].epoch = epoch /\ q[1].count = UnitSize
           /\ q[1].unit # None /\ PlacedBlock(q[1], stamps)
      /\ ~Excused(lost, errors) =>
           /\ stream.held # None /\ q[1].start = EndOf(got) /\ s.end = EndOf(got) + UnitSize
      /\ errors = {} => stream.held # None /\ received + lost + UnitSize = stream.next
  BY <1>1, LastUnitFields
<1>3. /\ stream' \in Streams /\ stream'.next = stream.next
      /\ StreamInv(stream', stamps') /\ HeldInv(stream', errors')
      /\ got' # None => StampedFrame(got', stream', stamps')
      /\ s.tail \in 0 .. TailSize /\ s.end \in Nat
      /\ stream'.end = s.end /\ stream'.tail = s.tail
      /\ mode \in Modes /\ gain' \in BOOLEAN /\ epoch \in 0 .. MaxEpoch /\ drained' = TRUE
      /\ drained' \in BOOLEAN /\ terminal' \in BOOLEAN /\ ~terminal'
      /\ current' = None /\ UNCHANGED <<mode, epoch, stamps, got, received, lost, gapped, errors>>
      /\ HistoryTypes(stamps', got', received', lost', gapped', errors')
      /\ ~Excused(lost, errors) => ~gapped
  BY DrainedStream
<1>4. q \o <<>> \o <<>> = q
  BY <1>2, ConcatEmptySeq
<1>5. /\ deferred' = q /\ waiting' = (IF q = <<>> THEN 0 ELSE UnitSize) /\ queue' = <<>>
  <2>1. GainBlock(s) = <<>> /\ EngineTail(s) = <<>>
    BY DEF GainBlock, EngineTail
  <2> HIDE DEF s, q
  <2>2. q \o GainBlock(s) \o EngineTail(s) = q
    BY <1>4, <2>1
  <2>3. QED
    BY <2>2 DEF DrainUnits, Resting, s, q
<1> HIDE DEF s, q
<1>6. /\ <<>> \in Seq(Frames) /\ Len(<<>>) = 0 /\ UnitSize \in Nat /\ UnitSize \in 0 .. UnitSize
      /\ 0 \in 0 .. UnitSize /\ UnitSize > 0
  BY EmptyStores, Constants
<1>7. Len(q) <= 1 /\ (q # <<>> => stream.held # None /\ Head(q) = q[1])
  <2>1. CASE stream.held = None
    BY <1>2, <1>6, <2>1
  <2>2. CASE stream.held # None
    <3>1. q # <<>> /\ Len(q) = 1 /\ q \in Seq(Blocks)
      BY <1>2, <2>2
    <3>2. Head(q) = q[1]
      BY <3>1, HeadTailProperties
    <3>3. QED
      BY <2>2, <3>1, <3>2
  <2>3. QED
    BY <2>1, <2>2
<1>8. \A i \in 1 .. Len(q) : q[i].epoch = epoch /\ q[i].unit # None /\ PlacedBlock(q[i], stamps)
  <2>1. CASE stream.held = None
    BY <1>2, <1>6, <2>1
  <2>2. CASE stream.held # None
    BY <1>2, <2>2
  <2>3. QED
    BY <2>1, <2>2
<1>9. TypeOK'
  <2>1. /\ queue' \in Seq(Frames) /\ deferred' \in Seq(Blocks) /\ Len(deferred') <= 1
        /\ current' \in Option(Pulls) /\ waiting' \in 0 .. UnitSize
    BY <1>2, <1>3, <1>5, <1>6, <1>7 DEF Option
  <2>2. waiting' = (IF deferred' = <<>> THEN 0 ELSE Head(deferred').count)
                     + (IF current' = None THEN 0 ELSE current'.block.count - current'.offset)
    BY <1>2, <1>3, <1>5, <1>6, <1>7
  <2>3. QED
    BY <1>3, <2>1, <2>2 DEF HistoryTypes, TypeOK
<1>10. StoreInv' /\ EpochInv'
  <2>1. StoreInv'
    BY <1>2, <1>3, <1>5, <1>6, <1>7 DEF StoreInv
  <2>2. \A i \in 1 .. Len(deferred') : deferred'[i].epoch = epoch'
    BY <1>3, <1>5, <1>8
  <2>3. QED
    BY <1>3, <1>5, <1>6, <2>1, <2>2 DEF EpochInv
<1>11. StampInv'
  <2>1. \A i \in 1 .. Len(deferred') : deferred'[i].unit # None /\ PlacedBlock(deferred'[i], stamps')
    BY <1>3, <1>5, <1>8
  <2>2. QED
    BY <1>3, <1>5, <1>6, <2>1 DEF StampInv
<1>12. EndInv'
  <2>1. s.end + s.tail <= Last + TailSize
    BY <1>2, <1>3, Constants
  <2>2. QED
    BY <1>2, <1>3, <2>1 DEF EndInv
<1>13. QueuedSamples' = 0
  BY <1>5, <1>6 DEF QueuedSamples
<1>14. ChainInv'
  <2>1. GotEnd' = EndOf(got)
    BY <1>3 DEF GotEnd, EndOf
  <2>2. EndOf(got) \in Nat
    BY <1>3, EndOfType DEF HistoryTypes
  <2>3. ~Excused(lost, errors) => waiting' = UnitSize
    BY <1>2, <1>5
  <2>4. EndOf(got) + UnitSize = EndOf(got) + QueuedSamples' + UnitSize
    BY <1>6, <1>13, <2>2
  <2>5. ~Excused(lost, errors) => stream'.end = GotEnd' + QueuedSamples' + waiting'
    BY <1>2, <1>3, <2>1, <2>3, <2>4
  <2>6. QED
    BY <1>2, <1>3, <1>5, <1>6, <2>1, <2>5 DEF ChainInv
<1>15. AccountInv'
  <2>1. errors = {} => waiting' = UnitSize /\ received + waiting' + lost = stream.next
    <3>1. errors = {} => waiting' = UnitSize
      BY <1>2, <1>5
    <3>2. errors = {} => received + UnitSize + lost = stream.next
      BY <1>2, <1>3, <1>6 DEF HistoryTypes
    <3>3. QED
      BY <3>1, <3>2
  <2>2. stream.next # 0
    BY <1>1
  <2>3. QED
    BY <1>1, <1>3, <1>6, <2>1, <2>2 DEF AccountInv
<1>16. QED
  BY <1>3, <1>9, <1>10, <1>11, <1>12, <1>14, <1>15 DEF IInv

LEMMA ShortConcat ==
  ASSUME NEW S, NEW a \in Seq(S), NEW c \in Seq(S), Len(a) <= 1, Len(c) <= 1
  PROVE  /\ a \o c \in Seq(S) /\ Len(a \o c) = Len(a) + Len(c) /\ Len(a) \in Nat /\ Len(c) \in Nat
         /\ Len(a) = 1 => (a \o c)[1] = a[1]
         /\ Len(a) = 0 /\ Len(c) = 1 => (a \o c)[1] = c[1]
         /\ Len(a) = 1 /\ Len(c) = 1 => (a \o c)[2] = c[1]
<1>1. /\ a \o c \in Seq(S) /\ Len(a \o c) = Len(a) + Len(c)
      /\ \A i \in 1 .. Len(a) + Len(c) :
           (a \o c)[i] = IF i <= Len(a) THEN a[i] ELSE c[i - Len(a)]
  BY ConcatProperties
<1>2. Len(a) \in Nat /\ Len(c) \in Nat
  BY LenProperties
<1>3. Len(a) = 1 => (a \o c)[1] = a[1]
  BY <1>1, <1>2
<1>4. Len(a) = 0 /\ Len(c) = 1 => (a \o c)[1] = c[1]
  BY <1>1, <1>2
<1>5. Len(a) = 1 /\ Len(c) = 1 => (a \o c)[2] = c[1]
  BY <1>1, <1>2
<1>6. QED
  BY <1>1, <1>2, <1>3, <1>4, <1>5

\* The frames of the blocks that drain has ready.
LEMMA FramesOf ==
  ASSUME NEW s \in Shape, s.origin # None => s.origin >= MinPts, NEW q \in Seq(Blocks),
         \A i \in 1 .. Len(q) : HasTimestamp(s, q[i].start)
  PROVE  LET c == [i \in 1 .. Len(q) |-> PcmFrame(s, q[i])] IN
         /\ c \in Seq(Frames) /\ Len(c) = Len(q)
         /\ \A i \in 1 .. Len(q) :
              /\ c[i].block = q[i] /\ c[i].offset = 0 /\ c[i].count = q[i].count
              /\ q[i].start \in Nat /\ q[i].count \in Nat
              /\ c[i].pts # None => s.origin # None /\ c[i].pts = s.origin + (q[i].start + 0)
<1> DEFINE c == [i \in 1 .. Len(q) |-> PcmFrame(s, q[i])]
<1>1. ASSUME NEW i \in 1 .. Len(q)
      PROVE  /\ c[i] \in Frames /\ c[i].block = q[i] /\ c[i].offset = 0 /\ c[i].count = q[i].count
             /\ q[i].start \in Nat /\ q[i].count \in Nat
             /\ c[i].pts # None => s.origin # None /\ c[i].pts = s.origin + (q[i].start + 0)
  <2>1. q[i] \in Blocks
    OBVIOUS
  <2>2. q[i].count \in Nat
    BY <2>1 DEF Blocks
  <2>3. c[i] = PcmFrame(s, q[i])
    OBVIOUS
  <2> HIDE DEF c
  <2>4. QED
    BY <2>1, <2>2, <2>3, FrameType
<1>2. Len(q) \in Nat
  BY LenProperties
<1>3. c \in [1 .. Len(q) -> Frames]
  BY <1>1
<1> HIDE DEF c
<1>4. c \in Seq(Frames)
  BY <1>2, <1>3, SeqDef
<1>5. Len(c) = Len(q)
  <2>1. Len(c) \in Nat /\ 1 .. Len(c) = 1 .. Len(q)
    BY <1>3, <1>4, LenProperties
  <2>2. QED
    BY <1>2, <2>1
<1>6. QED
  BY <1>1, <1>4, <1>5 DEF c

\* The blocks of a drain that queues them: the last unit, then what the gain or the engine holds.
LEMMA DrainBlocks ==
  ASSUME Resting, DrainUnits, mode # "pull"
  PROVE  LET s == LastUnit.s
             q == LastUnit.blocks \o GainBlock(s) \o EngineTail(s)
             n == IF mode = "binaural" THEN TailSize ELSE GainSize
         IN /\ q \in Seq(Blocks) /\ Len(q) <= 2
            /\ \A i \in 1 .. Len(q) : q[i].epoch = epoch /\ PlacedBlock(q[i], stamps)
            /\ ~Excused(lost, errors) =>
                 /\ Len(q) >= 1 /\ q[1].start = EndOf(got) /\ q[1].count = UnitSize
                 /\ Len(q) = 2 => q[2].start = EndOf(got) + UnitSize
            /\ errors = {} => /\ Len(q) >= 1 /\ q[1].count = UnitSize
                              /\ Len(q) = 2 => q[2].count = n
                              /\ Len(q) = 1 => n = 0
                              /\ received + lost + UnitSize = stream.next
<1> DEFINE s == LastUnit.s
           l == LastUnit.blocks
           g == GainBlock(s)
           e == EngineTail(s)
           n == IF mode = "binaural" THEN TailSize ELSE GainSize
           c == IF mode = "binaural" THEN Block(None, None, s.end, s.tail)
                                     ELSE Block(None, None, s.expected, GainSize)
           x == IF mode = "binaural" THEN e ELSE g
<1>1. /\ stream.next > 0 /\ UNCHANGED epoch
      /\ stream.held # None => InPlace(stream, Head(stream.metadata))
  BY DEF DrainUnits
<1>2. mode = "speaker" \/ mode = "binaural"
  BY ConstantsAssumption DEF Resting
<1>3. /\ l \in Seq(Blocks) /\ s.expected <= Last /\ s.end <= Last
      /\ stream.held = None => l = <<>>
      /\ stream.held # None =>
           /\ Len(l) = 1 /\ l # <<>> /\ l[1].epoch = epoch /\ l[1].count = UnitSize
           /\ l[1].unit # None /\ PlacedBlock(l[1], stamps)
           /\ mode = "binaural" => s.tail = TailSize
      /\ ~Excused(lost, errors) =>
           /\ stream.held # None /\ l[1].start = EndOf(got)
           /\ s.end = EndOf(got) + UnitSize /\ s.expected = EndOf(got) + UnitSize
      /\ errors = {} => stream.held # None /\ received + lost + UnitSize = stream.next
  BY <1>1, LastUnitFields
<1>4. s.tail \in 0 .. TailSize /\ s.end \in Nat /\ s.expected \in Nat /\ epoch \in 0 .. MaxEpoch
  BY DrainedStream
<1>5. c \in Blocks /\ c.epoch = epoch /\ c.unit = None
  <2>1. s.end \in Positions /\ s.expected \in Positions /\ s.tail \in Nat /\ GainSize \in Nat
    BY <1>3, <1>4, PositionsNat, Constants
  <2>2. epoch' = epoch /\ None \in Option(Units)
    BY <1>1 DEF Option
  <2> HIDE DEF s
  <2>3. Block(None, None, s.end, s.tail) \in Blocks
    BY <1>4, <2>1, <2>2, BlockType DEF Block
  <2>4. Block(None, None, s.expected, GainSize) \in Blocks
    BY <1>4, <2>1, <2>2, BlockType DEF Block
  <2>5. c.epoch = epoch /\ c.unit = None
    BY <2>2 DEF Block
  <2>6. QED
    BY <2>3, <2>4, <2>5
<1>6. c.start = (IF mode = "binaural" THEN s.end ELSE s.expected)
      /\ c.count = (IF mode = "binaural" THEN s.tail ELSE GainSize)
  BY DEF Block
<1>7. /\ x = <<>> \/ x = <<c>>
      /\ stream.held # None =>
           IF mode = "binaural" THEN x = IF s.tail > 0 THEN <<c>> ELSE <<>> ELSE x = <<c>>
  <2>1. CASE mode = "binaural"
    BY <2>1 DEF EngineTail
  <2>2. CASE mode # "binaural"
    BY <1>2, <2>2 DEF GainBlock
  <2>3. QED
    BY <2>1, <2>2
<1>8. l \o g \o e = l \o x
  <2>1. <<>> \in Seq(Blocks) /\ <<c>> \in Seq(Blocks)
    BY <1>5, EmptyStores
  <2>2. x \in Seq(Blocks)
    BY <1>7, <2>1
  <2>3. CASE mode = "binaural"
    <3>1. g = <<>> /\ x = e
      BY <2>3 DEF GainBlock
    <3> HIDE DEF g, e, x, l
    <3>2. l \o g = l
      BY <1>3, <3>1, ConcatEmptySeq
    <3>3. QED
      BY <3>1, <3>2
  <2>4. CASE mode # "binaural"
    <3>1. e = <<>> /\ x = g
      BY <2>4 DEF EngineTail
    <3> HIDE DEF g, e, x, l
    <3>2. l \o g \in Seq(Blocks)
      BY <1>3, <2>2, <3>1, ConcatProperties
    <3>3. (l \o g) \o <<>> = l \o g
      BY <3>2, ConcatEmptySeq
    <3>4. QED
      BY <3>1, <3>3
  <2>5. QED
    BY <2>3, <2>4
<1> HIDE DEF s, l, g, e, x, c
<1>9. /\ x \in Seq(Blocks) /\ Len(x) \in {0, 1} /\ (Len(x) = 1 => x[1] = c)
      /\ stream.held # None /\ Len(x) = 0 => mode = "binaural" /\ ~(s.tail > 0)
  <2> DEFINE y == <<c>>
  <2>1. <<>> \in Seq(Blocks) /\ Len(<<>>) = 0 /\ y \in Seq(Blocks) /\ Len(y) = 1 /\ y[1] = c
    BY <1>5, EmptyStores
  <2>2. /\ x = <<>> \/ x = y
        /\ stream.held # None /\ x = <<>> => y = <<>> \/ (mode = "binaural" /\ ~(s.tail > 0))
    BY <1>7
  <2> HIDE DEF y
  <2>3. CASE x = <<>>
    <3>1. Len(x) = 0 /\ x \in Seq(Blocks) /\ Len(y) # 0
      BY <2>1, <2>3
    <3>2. y # <<>>
      BY <2>1, <3>1
    <3>3. stream.held # None => mode = "binaural" /\ ~(s.tail > 0)
      BY <2>2, <2>3, <3>2
    <3>4. QED
      BY <3>1, <3>3
  <2>4. CASE x = y
    BY SMTT(30), <2>1, <2>4
  <2>5. QED
    BY <2>2, <2>3, <2>4
<1>10. Len(l) \in {0, 1} /\ (stream.held = None => Len(l) = 0)
  BY <1>3, EmptyStores
<1> DEFINE q == l \o x
<1>11. /\ q \in Seq(Blocks) /\ Len(q) = Len(l) + Len(x)
       /\ Len(l) = 1 => q[1] = l[1]
       /\ Len(l) = 0 /\ Len(x) = 1 => q[1] = x[1]
       /\ Len(l) = 1 /\ Len(x) = 1 => q[2] = x[1]
  BY <1>3, <1>9, <1>10, ShortConcat
<1> HIDE DEF q
<1>12. /\ Len(l) = 1 => stream.held # None
       /\ 1 .. Len(q) \subseteq {1, 2} /\ Len(q) <= 2
       /\ Len(l) = 1 => Len(q) >= 1
       /\ Len(l) = 1 /\ 2 \in 1 .. Len(q) => Len(x) = 1
       /\ Len(l) = 1 /\ Len(q) = 2 => Len(x) = 1
       /\ Len(l) = 1 /\ Len(q) = 1 => Len(x) = 0
       /\ Len(l) = 0 => 1 .. Len(q) \subseteq {1} /\ (1 \in 1 .. Len(q) => Len(x) = 1)
  <2> DEFINE u == Len(l)
             v == Len(x)
             w == Len(q)
  <2>1. w = u + v /\ u \in {0, 1} /\ v \in {0, 1} /\ (u = 1 => stream.held # None)
    BY <1>9, <1>10, <1>11
  <2> HIDE DEF u, v, w
  <2>2. /\ u = 1 => stream.held # None
        /\ 1 .. w \subseteq {1, 2} /\ w <= 2
        /\ u = 1 => w >= 1
        /\ u = 1 /\ 2 \in 1 .. w => v = 1
        /\ u = 1 /\ w = 2 => v = 1
        /\ u = 1 /\ w = 1 => v = 0
        /\ u = 0 => 1 .. w \subseteq {1} /\ (1 \in 1 .. w => v = 1)
    BY <2>1
  <2>3. QED
    BY <2>2 DEF u, v, w
<1>13. PlacedBlock(c, stamps)
  BY <1>5 DEF PlacedBlock
<1>14. ASSUME NEW i \in 1 .. Len(q)  PROVE q[i].epoch = epoch /\ PlacedBlock(q[i], stamps)
  <2>1. CASE Len(l) = 1
    <3>1. i = 1 \/ (i = 2 /\ Len(x) = 1)
      BY <1>12, <2>1
    <3>2. q[1].epoch = epoch /\ PlacedBlock(q[1], stamps)
      BY <1>3, <1>11, <1>12, <2>1
    <3>3. Len(x) = 1 => q[2].epoch = epoch /\ PlacedBlock(q[2], stamps)
      BY <1>5, <1>9, <1>11, <1>13, <2>1
    <3>4. QED
      BY <3>1, <3>2, <3>3
  <2>2. CASE Len(l) = 0
    <3>1. i = 1 /\ Len(x) = 1
      BY <1>12, <2>2
    <3>2. QED
      BY <1>5, <1>9, <1>11, <1>13, <2>2, <3>1
  <2>3. QED
    BY <1>10, <2>1, <2>2
<1>15. ~Excused(lost, errors) =>
         /\ Len(q) >= 1 /\ q[1].start = EndOf(got) /\ q[1].count = UnitSize
         /\ Len(q) = 2 => q[2].start = EndOf(got) + UnitSize
  <2> SUFFICES ASSUME ~Excused(lost, errors)
               PROVE  /\ Len(q) >= 1 /\ q[1].start = EndOf(got) /\ q[1].count = UnitSize
                      /\ Len(q) = 2 => q[2].start = EndOf(got) + UnitSize
    OBVIOUS
  <2>1. /\ Len(l) = 1 /\ q[1] = l[1] /\ l[1].start = EndOf(got) /\ l[1].count = UnitSize
        /\ s.end = EndOf(got) + UnitSize /\ s.expected = EndOf(got) + UnitSize
    BY <1>3, <1>11
  <2>2. Len(q) >= 1 /\ (Len(q) = 2 => Len(x) = 1)
    BY <1>12, <2>1
  <2>3. Len(x) = 1 => q[2] = c
    BY <1>9, <1>11, <2>1
  <2>4. c.start = EndOf(got) + UnitSize
    BY <1>6, <2>1
  <2>5. QED
    BY <2>1, <2>2, <2>3, <2>4
<1>16. errors = {} => /\ Len(q) >= 1 /\ q[1].count = UnitSize
                      /\ Len(q) = 2 => q[2].count = n
                      /\ Len(q) = 1 => n = 0
                      /\ received + lost + UnitSize = stream.next
  <2> SUFFICES ASSUME errors = {}
               PROVE  /\ Len(q) >= 1 /\ q[1].count = UnitSize
                      /\ Len(q) = 2 => q[2].count = n
                      /\ Len(q) = 1 => n = 0
    BY <1>3
  <2>1. stream.held # None /\ Len(l) = 1 /\ q[1].count = UnitSize
    BY <1>3, <1>11
  <2>2. Len(q) >= 1 /\ (Len(q) = 2 => Len(x) = 1) /\ (Len(q) = 1 => Len(x) = 0)
    BY <1>12, <2>1
  <2>3. c.count = n
    BY <1>3, <1>6, <2>1
  <2>4. Len(x) = 0 => n = 0
    <3>1. Len(x) = 0 => mode = "binaural" /\ s.tail = TailSize /\ ~(s.tail > 0)
      BY <1>3, <1>9, <2>1
    <3>2. QED
      BY <3>1, Constants
  <2>5. QED
    BY <1>9, <1>11, <2>1, <2>2, <2>3, <2>4
<1>17. QED
  BY <1>8, <1>11, <1>12, <1>14, <1>15, <1>16 DEF s, l, g, e, q

LEMMA DrainQueueStep ==
  ASSUME Resting, DrainUnits, mode # "pull"
  PROVE  IInv'
<1> DEFINE s == LastUnit.s
           q == LastUnit.blocks \o GainBlock(s) \o EngineTail(s)
           n == IF mode = "binaural" THEN TailSize ELSE GainSize
           c == [i \in 1 .. Len(q) |-> PcmFrame(s, q[i])]
<1>1. /\ stream' \in Streams /\ stream'.next = stream.next /\ stream'.origin = s.origin
      /\ s.origin # None => s.origin >= MinPts
      /\ StreamInv(stream', stamps') /\ HeldInv(stream', errors')
      /\ got' # None => StampedFrame(got', stream', stamps')
      /\ mode \in Modes /\ gain' \in BOOLEAN /\ epoch \in 0 .. MaxEpoch /\ drained' = TRUE
      /\ drained' \in BOOLEAN /\ terminal' \in BOOLEAN /\ ~terminal'
      /\ current' = None /\ UNCHANGED <<mode, epoch, stamps, got, received, lost, gapped, errors>>
      /\ HistoryTypes(stamps', got', received', lost', gapped', errors')
      /\ ~Excused(lost, errors) => ~gapped
  BY DrainedStream
<1>2. /\ q \in Seq(Blocks) /\ Len(q) <= 2
      /\ \A i \in 1 .. Len(q) : q[i].epoch = epoch /\ PlacedBlock(q[i], stamps)
      /\ ~Excused(lost, errors) =>
           /\ Len(q) >= 1 /\ q[1].start = EndOf(got) /\ q[1].count = UnitSize
           /\ Len(q) = 2 => q[2].start = EndOf(got) + UnitSize
      /\ errors = {} => /\ Len(q) >= 1 /\ q[1].count = UnitSize
                        /\ Len(q) = 2 => q[2].count = n
                        /\ Len(q) = 1 => n = 0
                        /\ received + lost + UnitSize = stream.next
  BY DrainBlocks
<1>3. /\ stream.next > 0 /\ deferred' = <<>> /\ waiting' = 0
      /\ \A i \in 1 .. Len(q) : HasTimestamp(s, q[i].start)
      /\ queue' = c
  BY DEF DrainUnits, Resting
<1>4. s \in Shape
  <2>1. /\ UNCHANGED epoch
        /\ stream.held # None => InPlace(stream, Head(stream.metadata))
    BY DEF DrainUnits
  <2>2. QED
    BY <1>3, <2>1, LastUnitFields
<1> HIDE DEF s, q, n
<1>5. /\ c \in Seq(Frames) /\ Len(c) = Len(q)
      /\ \A i \in 1 .. Len(q) :
           /\ c[i].block = q[i] /\ c[i].offset = 0 /\ c[i].count = q[i].count
           /\ q[i].start \in Nat /\ q[i].count \in Nat
           /\ c[i].pts # None => s.origin # None /\ c[i].pts = s.origin + (q[i].start + 0)
  BY <1>1, <1>2, <1>3, <1>4, FramesOf
<1> HIDE DEF c
<1>6. <<>> \in Seq(Blocks) /\ Len(<<>>) = 0 /\ UnitSize \in Nat /\ 0 \in 0 .. UnitSize
  BY EmptyStores, Constants
<1>7. TypeOK'
  <2>1. /\ queue' \in Seq(Frames) /\ deferred' \in Seq(Blocks) /\ Len(deferred') <= 1
        /\ current' \in Option(Pulls) /\ waiting' \in 0 .. UnitSize
    BY <1>1, <1>3, <1>5, <1>6 DEF Option
  <2>2. waiting' = (IF deferred' = <<>> THEN 0 ELSE Head(deferred').count)
                     + (IF current' = None THEN 0 ELSE current'.block.count - current'.offset)
    BY <1>1, <1>3
  <2>3. QED
    BY <1>1, <2>1, <2>2 DEF HistoryTypes, TypeOK
<1>8. StoreInv' /\ EpochInv'
  <2>1. StoreInv'
    BY <1>1, <1>2, <1>3, <1>5, <1>6 DEF StoreInv
  <2>2. \A i \in 1 .. Len(queue') : queue'[i].block.epoch = epoch'
    BY <1>1, <1>2, <1>3, <1>5
  <2>3. QED
    BY <1>1, <1>3, <1>6, <2>2, <2>1 DEF EpochInv
<1>9. StampInv'
  <2>1. ASSUME NEW i \in 1 .. Len(queue')  PROVE StampedFrame(queue'[i], stream', stamps')
    <3>1. i \in 1 .. Len(q) /\ queue'[i] = c[i]
      BY <1>3, <1>5
    <3>2. c[i].block = q[i] /\ c[i].offset = 0 /\ PlacedBlock(q[i], stamps')
      BY <1>1, <1>2, <1>5, <3>1
    <3>3. c[i].pts # None => s.origin # None /\ c[i].pts = s.origin + (q[i].start + 0)
      BY <1>5, <3>1
    <3>4. StampedFrame(c[i], stream', stamps')
      BY <1>1, <3>2, <3>3 DEF StampedFrame
    <3>5. QED
      BY <3>1, <3>4
  <2>2. QED
    BY <1>1, <1>3, <1>6, <2>1 DEF StampInv
<1>10. EndInv'
  BY <1>1, <1>3 DEF EndInv
<1>11. Len(queue') = Len(q) /\ Len(q) \in Nat
  BY <1>2, <1>3, <1>5, LenProperties
<1>12. ChainInv'
  <2>1. GotEnd' = EndOf(got)
    BY <1>1 DEF GotEnd, EndOf
  <2>2. EndOf(got) \in Nat
    BY <1>1, EndOfType DEF HistoryTypes
  <2>3. ~Excused(lost, errors) => (Len(queue') >= 1 => Position(queue'[1]) = GotEnd')
    <3> SUFFICES ASSUME ~Excused(lost, errors)  PROVE Position(queue'[1]) = GotEnd'
      OBVIOUS
    <3>1. 1 \in 1 .. Len(q) /\ q[1].start = EndOf(got)
      BY <1>2, <1>11
    <3>2. queue'[1].block = q[1] /\ queue'[1].offset = 0
      BY <1>3, <1>5, <3>1
    <3>3. QED
      BY <2>1, <2>2, <3>1, <3>2 DEF Position
  <2>4. ~Excused(lost, errors) => (Len(queue') >= 2 => Position(queue'[2]) = GotEnd' + queue'[1].count)
    <3> SUFFICES ASSUME ~Excused(lost, errors), Len(queue') >= 2
                 PROVE  Position(queue'[2]) = GotEnd' + queue'[1].count
      OBVIOUS
    <3>1. Len(q) = 2 /\ 1 \in 1 .. Len(q) /\ 2 \in 1 .. Len(q)
      BY <1>2, <1>11
    <3>2. q[2].start = EndOf(got) + UnitSize /\ q[1].count = UnitSize
      BY <1>2, <3>1
    <3>3. queue'[2].block = q[2] /\ queue'[2].offset = 0 /\ queue'[1].count = q[1].count
      BY <1>3, <1>5, <3>1
    <3>4. QED
      BY <1>6, <2>1, <2>2, <3>2, <3>3 DEF Position
  <2>5. QED
    BY <1>1, <1>3, <2>3, <2>4 DEF ChainInv
<1>13. AccountInv'
  <2>1. errors = {} => QueuedSamples' = UnitSize + n
    <3> SUFFICES ASSUME errors = {}  PROVE QueuedSamples' = UnitSize + n
      OBVIOUS
    <3>1. n \in Nat
      BY Constants DEF n
    <3>2. 1 \in 1 .. Len(q) /\ queue'[1].count = UnitSize
      BY <1>2, <1>3, <1>5, <1>11
    <3>3. CASE Len(q) = 2
      <4>1. 2 \in 1 .. Len(q)
        BY <3>3
      <4>2. queue'[2].count = n
        BY <1>2, <1>3, <1>5, <3>3, <4>1
      <4>3. QED
        BY <1>11, <3>2, <3>3, <4>2 DEF QueuedSamples
    <3>4. CASE Len(q) # 2
      <4>1. Len(q) = 1
        BY <1>2, <1>11, <3>2, <3>4
      <4>2. n = 0
        BY <1>2, <4>1
      <4>3. QED
        BY <1>11, <3>2, <4>1, <4>2 DEF QueuedSamples
    <3>5. QED
      BY <3>3, <3>4
  <2>2. errors = {} => received + QueuedSamples' + lost = stream.next + n
    <3> SUFFICES ASSUME errors = {}  PROVE received + (UnitSize + n) + lost = stream.next + n
      BY <2>1
    <3>1. n \in Nat /\ received \in Nat /\ lost \in Nat /\ received + lost + UnitSize = stream.next
      BY <1>1, <1>2, Constants DEF n, HistoryTypes
    <3>2. QED
      BY <1>6, <3>1
  <2>3. stream.next # 0
    BY <1>3
  <2>4. QED
    BY <1>1, <2>2, <2>3 DEF AccountInv, n
<1>14. QED
  BY <1>1, <1>7, <1>8, <1>9, <1>10, <1>12, <1>13 DEF IInv

LEMMA DrainStep ==
  ASSUME IInv, Drain
  PROVE  IInv'
<1>1. Open /\ Resting
  BY OpenRests DEF Drain
<1>2. CASE DrainEmpty
  BY <1>1, <1>2, DrainEmptyStep
<1>3. CASE DrainNoUnit
  BY <1>3, DrainNoUnitStep
<1>4. CASE FailDrain
  BY <1>4, FailDrainStep
<1>5. CASE DrainUnits
  BY <1>1, <1>5, DrainPullStep, DrainQueueStep
<1>6. QED
  BY <1>2, <1>3, <1>4, <1>5 DEF Drain

-----------------------------------------------------------------------------
(* Receiving *)

\* The queue without its first frame.
LEMMA QueueTail ==
  ASSUME NEW q \in Seq(Frames), q # <<>>, Len(q) <= 2
  PROVE  /\ Head(q) = q[1] /\ q[1] \in Frames /\ Tail(q) \in Seq(Frames) /\ 1 \in 1 .. Len(q)
         /\ Len(q) = 1 \/ Len(q) = 2
         /\ Len(q) = 1 => Tail(q) = <<>> /\ Len(Tail(q)) = 0
         /\ Len(q) = 2 => Len(Tail(q)) = 1 /\ Tail(q)[1] = q[2] /\ q[2] \in Frames /\ 2 \in 1 .. Len(q)
<1>1. Len(q) \in Nat /\ Len(q) # 0
  BY LenProperties, EmptySeq
<1>2. Len(q) = 1 \/ Len(q) = 2
  <2> DEFINE n == Len(q)
  <2>1. n \in Nat /\ n # 0 /\ n <= 2
    BY <1>1
  <2> HIDE DEF n
  <2>2. n = 1 \/ n = 2
    BY <2>1
  <2>3. QED
    BY <2>2 DEF n
<1>3. /\ Head(q) = q[1] /\ Tail(q) \in Seq(Frames) /\ Len(Tail(q)) = Len(q) - 1
      /\ \A i \in 1 .. Len(Tail(q)) : Tail(q)[i] = q[i + 1]
  BY HeadTailProperties
<1>4. q[1] \in Frames /\ 1 \in 1 .. Len(q)
  BY <1>1, ElementOfSeq
<1>5. CASE Len(q) = 1
  <2>1. Len(Tail(q)) = 0
    BY <1>3, <1>5
  <2>2. Tail(q) = <<>>
    BY <1>3, <2>1, EmptySeq
  <2>3. QED
    BY <1>3, <1>4, <1>5, <2>1, <2>2
<1>6. CASE Len(q) = 2
  <2>1. Len(Tail(q)) = 1 /\ 1 \in 1 .. Len(Tail(q)) /\ 2 \in 1 .. Len(q)
    <3> DEFINE n == Len(q)
               m == Len(Tail(q))
    <3>1. n = 2 /\ m = n - 1
      BY <1>3, <1>6
    <3> HIDE DEF n, m
    <3>2. m = 1 /\ 1 \in 1 .. m /\ 2 \in 1 .. n
      BY <3>1
    <3>3. QED
      BY <3>2 DEF n, m
  <2>2. Tail(q)[1] = q[2]
    BY <1>3, <2>1
  <2>3. q[2] \in Frames
    BY <2>1, ElementOfSeq
  <2>4. QED
    BY <1>3, <1>4, <1>6, <2>1, <2>2, <2>3
<1>7. QED
  BY <1>2, <1>5, <1>6

LEMMA FrameNumbers ==
  ASSUME NEW f \in Frames
  PROVE  /\ f.block \in Blocks /\ f.block.start \in Nat /\ f.offset \in Nat /\ f.count \in Nat
         /\ Position(f) \in Nat
<1>1. f.block \in Blocks /\ f.offset \in Nat /\ f.count \in Nat
  BY DEF Frames
<1>2. f.block.start \in Nat
  BY <1>1, PositionsNat DEF Blocks
<1>3. QED
  BY <1>1, <1>2 DEF Position

LEMMA ReceiveStep ==
  ASSUME IInv, Receive
  PROVE  IInv'
<1> DEFINE f == queue[1]
           k == Len(queue)
<1>1. /\ mode # "pull" /\ queue # <<>> /\ Receives(Head(queue)) /\ queue' = Tail(queue)
      /\ UNCHANGED <<mode, stream, gain, epoch, deferred, current, waiting, drained, terminal>>
  BY DEF Receive
<1>2. TypeOK /\ StoreInv /\ EpochInv /\ StampInv /\ EndInv /\ ChainInv /\ AccountInv
      /\ StreamInv(stream, stamps) /\ HeldInv(stream, errors)
  BY DEF IInv
<1>3. queue \in Seq(Frames) /\ k <= 2 /\ (~drained => k <= 1)
  BY <1>2 DEF TypeOK, StoreInv
<1>4. /\ Head(queue) = f /\ f \in Frames /\ queue' \in Seq(Frames) /\ 1 \in 1 .. k
      /\ k = 1 \/ k = 2
      /\ k = 1 => queue' = <<>> /\ Len(queue') = 0
      /\ k = 2 => Len(queue') = 1 /\ queue'[1] = queue[2] /\ queue[2] \in Frames /\ 2 \in 1 .. k
  BY <1>1, <1>3, QueueTail
<1> HIDE DEF f, k
<1>5. /\ got' = f /\ received' = received + f.count
      /\ gapped' = (gapped \/ Position(f) # GotEnd)
      /\ UNCHANGED <<stamps, lost, errors>>
  BY <1>1, <1>4 DEF Receives
<1>6. /\ f.count \in Nat /\ Position(f) \in Nat
      /\ k = 2 => queue[2].count \in Nat
  BY <1>4, FrameNumbers
<1>7. deferred = <<>> /\ current = None /\ waiting = 0 /\ ~terminal /\ f # None
  <2>1. deferred = <<>> /\ current = None /\ ~terminal
    BY <1>1, <1>2 DEF StoreInv, HasPendingOutput
  <2>2. waiting = 0
    BY <1>2, <2>1 DEF TypeOK
  <2>3. QED
    BY <1>4, <2>1, <2>2, NoneIs
<1>8. received \in Nat /\ lost \in Nat
  BY <1>2 DEF TypeOK
<1>9. TypeOK'
  <2>1. got' \in Option(Frames) /\ received' \in Nat /\ gapped' \in BOOLEAN
    BY SMTT(30), <1>2, <1>4, <1>5, <1>6, <1>8 DEF TypeOK, Option
  <2>2. QED
    BY <1>1, <1>2, <1>4, <1>5, <2>1 DEF TypeOK
<1>10. StoreInv'
  <2> DEFINE m == Len(queue')
  <2>1. m = 0 \/ m = 1
    BY <1>4
  <2> HIDE DEF m
  <2>2. m <= 1 /\ m <= 2
    BY <2>1
  <2>3. QED
    BY <1>1, <1>7, <2>2 DEF StoreInv, m
<1>11. ASSUME NEW i \in 1 .. Len(queue')  PROVE queue'[i] = queue[2] /\ 2 \in 1 .. Len(queue)
  BY <1>4 DEF k
<1>12. EpochInv'
  <2>1. \A i \in 1 .. Len(queue') : queue'[i].block.epoch = epoch'
    BY <1>1, <1>2, <1>11 DEF EpochInv
  <2>2. QED
    BY <1>1, <1>2, <2>1 DEF EpochInv
<1>13. StampInv'
  <2>1. \A i \in 1 .. Len(queue') : StampedFrame(queue'[i], stream', stamps')
    BY <1>1, <1>2, <1>5, <1>11 DEF StampInv
  <2>2. StampedFrame(got', stream', stamps')
    BY <1>1, <1>2, <1>4, <1>5 DEF StampInv, f, k
  <2>3. QED
    BY <1>1, <1>2, <1>5, <2>1, <2>2 DEF StampInv
<1>14. EndInv'
  BY <1>1, <1>2 DEF EndInv
<1>15. QueuedSamples = f.count + QueuedSamples' /\ QueuedSamples' \in Nat
  <2>1. CASE k = 1
    <3>1. QueuedSamples = f.count + 0
      BY <2>1 DEF QueuedSamples, f, k
    <3>2. QueuedSamples' = 0
      BY <1>4, <2>1 DEF QueuedSamples
    <3>3. QED
      BY <1>6, <3>1, <3>2
  <2>2. CASE k = 2
    <3>1. QueuedSamples = f.count + queue[2].count
      BY <2>2 DEF QueuedSamples, f, k
    <3>2. QueuedSamples' = queue[2].count + 0
      <4>1. Len(queue') = 1 /\ queue'[1] = queue[2]
        BY <1>4, <2>2
      <4>2. QED
        BY <4>1 DEF QueuedSamples
    <3>3. QED
      BY <1>6, <2>2, <3>1, <3>2
  <2>3. QED
    BY <1>4, <2>1, <2>2
<1>16. GotEnd' = Position(f) + f.count
  BY <1>5, <1>7 DEF GotEnd, Position
<1>17. ChainInv'
  <2> SUFFICES ASSUME ~Excused(lost, errors)
               PROVE  /\ ~gapped'
                      /\ Len(queue') >= 1 => Position(queue'[1]) = GotEnd'
                      /\ Len(queue') >= 2 => Position(queue'[2]) = GotEnd' + queue'[1].count
                      /\ ~drained => stream.end = GotEnd' + QueuedSamples' + waiting
    BY <1>1, <1>5, <1>7 DEF ChainInv
  <2>1. /\ ~gapped /\ Position(f) = GotEnd
        /\ k = 2 => Position(queue[2]) = GotEnd + f.count
        /\ ~drained => stream.end = GotEnd + QueuedSamples + waiting
    BY <1>2, <1>4, <1>7 DEF ChainInv, f, k
  <2>2. ~gapped'
    BY <1>5, <2>1
  <2>3. Len(queue') >= 1 => Position(queue'[1]) = GotEnd'
    BY <1>4, <1>16, <2>1
  <2>4. ~(Len(queue') >= 2)
    <3> DEFINE m == Len(queue')
    <3>1. m = 0 \/ m = 1
      BY <1>4
    <3> HIDE DEF m
    <3>2. ~(m >= 2)
      BY <3>1
    <3>3. QED
      BY <3>2 DEF m
  <2>5. ~drained => stream.end = GotEnd' + QueuedSamples' + waiting
    <3>1. ~drained => stream.end = Position(f) + (f.count + QueuedSamples') + 0
      BY <1>7, <1>15, <2>1
    <3>2. Position(f) + (f.count + QueuedSamples') + 0 = (Position(f) + f.count) + QueuedSamples' + 0
      BY <1>6, <1>15
    <3>3. QED
      BY <1>7, <1>16, <3>1, <3>2
  <2>6. QED
    BY <2>2, <2>3, <2>4, <2>5
<1>18. AccountInv'
  <2>1. received' + QueuedSamples' = received + QueuedSamples
    BY <1>5, <1>6, <1>8, <1>15
  <2>2. received' + QueuedSamples' + waiting' = received + QueuedSamples + waiting
    BY <1>1, <2>1
  <2>3. ~drained => /\ OrderInv(stream', lost', errors')
                    /\ OpenAccount(stream', received' + QueuedSamples' + waiting', lost', errors')
    BY <1>1, <1>2, <1>5, <2>2 DEF AccountInv
  <2>4. drained /\ errors = {} => stream.next # 0
    BY <1>1, <1>2 DEF AccountInv, HasPendingOutput
  <2>5. drained /\ errors = {} /\ stream.next > 0 =>
          received' + QueuedSamples' + lost =
            stream.next + (IF mode = "binaural" THEN TailSize ELSE GainSize)
    BY <1>1, <1>2, <2>1 DEF AccountInv
  <2>6. QED
    BY <1>1, <1>5, <2>3, <2>4, <2>5 DEF AccountInv
<1>19. QED
  BY <1>1, <1>2, <1>5, <1>9, <1>10, <1>12, <1>13, <1>14, <1>17, <1>18 DEF IInv

\* What is being pulled: the block begun, or the one at the front of the queue.
LEMMA PullSourceIs ==
  ASSUME IInv, CanPull, current # None \/ deferred # <<>>
  PROVE  LET h == PullSource IN
         /\ h \in Pulls /\ h.block \in Blocks /\ h.block.count \in Nat /\ h.offset \in Nat
         /\ h.block.start \in Nat /\ h.offset < h.block.count
         /\ waiting = h.block.count - h.offset
         /\ h.block.epoch = epoch /\ h.block.unit # None /\ PlacedBlock(h.block, stamps)
         /\ ~Excused(lost, errors) => h.block.start + h.offset = GotEnd
         /\ current # None => deferred = <<>>
         /\ current = None => Tail(deferred) = <<>>
         /\ stream.end <= Last /\ queue = <<>>
<1>1. TypeOK /\ StoreInv /\ EpochInv /\ StampInv /\ EndInv /\ ChainInv
  BY DEF IInv
<1>2. mode = "pull" /\ queue = <<>> /\ stream.end <= Last
  BY <1>1 DEF CanPull, StoreInv, EndInv
<1>3. waiting = (IF deferred = <<>> THEN 0 ELSE Head(deferred).count)
                  + (IF current = None THEN 0 ELSE current.block.count - current.offset)
  BY <1>1 DEF TypeOK
<1>4. ASSUME NEW h \in Pulls
      PROVE  h.block \in Blocks /\ h.block.count \in Nat /\ h.offset \in Nat /\ h.block.start \in Nat
  BY PositionsNat DEF Pulls, Blocks
<1>5. CASE current # None
  <2>1. PullSource = current /\ current \in Pulls /\ deferred = <<>> /\ current.offset < current.block.count
    BY <1>1, <1>5 DEF PullSource, TypeOK, Option, StoreInv
  <2>2. current.block.count \in Nat /\ current.offset \in Nat
    BY <1>4, <2>1
  <2>3. waiting = current.block.count - current.offset
    BY <1>3, <1>5, <2>1, <2>2
  <2>4. /\ current.block.epoch = epoch /\ current.block.unit # None
        /\ PlacedBlock(current.block, stamps)
        /\ ~Excused(lost, errors) => current.block.start + current.offset = GotEnd
    BY <1>1, <1>5 DEF EpochInv, StampInv, ChainInv
  <2>5. QED
    BY <1>2, <1>4, <1>5, <2>1, <2>3, <2>4
<1>6. CASE current = None
  <2> DEFINE b == Head(deferred)
             h == [block |-> b, offset |-> 0]
  <2>1. PullSource = h /\ deferred # <<>>
    BY <1>6 DEF PullSource
  <2>2. deferred \in Seq(Blocks) /\ Len(deferred) <= 1 /\ deferred[1].count = UnitSize
    BY <1>1, <2>1 DEF TypeOK, StoreInv
  <2>3. Len(deferred) \in Nat /\ Len(deferred) # 0
    BY <2>1, <2>2, LenProperties, EmptySeq
  <2>4. Len(deferred) = 1
    <3> DEFINE n == Len(deferred)
    <3>1. n \in Nat /\ n # 0 /\ n <= 1
      BY <2>2, <2>3
    <3> HIDE DEF n
    <3>2. n = 1
      BY <3>1
    <3>3. QED
      BY <3>2 DEF n
  <2>5. /\ b = deferred[1] /\ b \in Blocks /\ Tail(deferred) \in Seq(Blocks)
        /\ Len(Tail(deferred)) = Len(deferred) - 1
    BY <2>1, <2>2, HeadTailProperties
  <2>6. Tail(deferred) = <<>>
    <3>1. Len(Tail(deferred)) = 0
      BY <2>4, <2>5
    <3>2. QED
      BY <2>5, <3>1, EmptySeq
  <2>7. 1 \in 1 .. Len(deferred)
    BY <2>4
  <2>8. /\ b.epoch = epoch /\ b.unit # None /\ PlacedBlock(b, stamps)
        /\ ~Excused(lost, errors) => b.start = GotEnd
    BY <1>1, <2>1, <2>5, <2>7 DEF EpochInv, StampInv, ChainInv
  <2>9. b.count = UnitSize /\ UnitSize \in Nat /\ UnitSize > 0
    BY <2>2, <2>5, Constants
  <2>10. waiting = b.count + 0
    BY <1>3, <1>6, <2>1
  <2> HIDE DEF b
  <2>11. h \in Pulls /\ h.block = b /\ h.offset = 0
    BY <2>5 DEF Pulls, b
  <2> HIDE DEF h
  <2>12. b.start \in Nat /\ b.start + 0 = b.start
    <3>1. b.start \in Nat
      BY <1>4, <2>11
    <3>2. QED
      BY <3>1
  <2>13. waiting = b.count - 0 /\ 0 < b.count
    BY <2>9, <2>10
  <2>14. ~Excused(lost, errors) => h.block.start + h.offset = GotEnd
    BY <2>8, <2>11, <2>12
  <2>15. QED
    BY <1>2, <1>4, <1>6, <2>1, <2>6, <2>8, <2>11, <2>13, <2>14
<1>7. QED
  BY <1>5, <1>6

LEMMA TailField ==
  ASSUME NEW s \in Shape, NEW x \in 0 .. TailSize
  PROVE  LET t == [s EXCEPT !.tail = x] IN
         /\ t \in Shape /\ t.tail = x /\ t.end = s.end /\ t.rate = s.rate /\ t.origin = s.origin
         /\ t.next = s.next /\ SameUnits(s, t)
BY DEF Shape, SameUnits

\* The frame rendered from a block from some sample on.
LEMMA PulledType ==
  ASSUME NEW s \in Shape, s.origin # None => s.origin >= MinPts, NEW b \in Blocks,
         NEW i \in Nat, NEW n \in Nat, HasTimestamp(s, b.start + i)
  PROVE  LET f == [block |-> b, offset |-> i, count |-> n, pts |-> TimestampOf(s, b.start + i)] IN
         /\ f \in Frames /\ f.block = b /\ f.offset = i /\ f.count = n
         /\ f.pts # None => s.origin # None /\ f.pts = s.origin + (b.start + i)
<1> DEFINE x == TimestampOf(s, b.start + i)
<1>1. b.start + i \in Nat
  <2>1. b.start \in Nat
    BY PositionsNat DEF Blocks
  <2>2. QED
    BY <2>1
<1>2. x \in Option(Pts) /\ (x # None => s.origin # None /\ x = s.origin + (b.start + i))
  BY <1>1, TimestampType
<1> HIDE DEF x
<1> DEFINE f == [block |-> b, offset |-> i, count |-> n, pts |-> x]
<1>3. f \in Frames /\ f.block = b /\ f.offset = i /\ f.count = n /\ f.pts = x
  BY <1>2 DEF Frames
<1> HIDE DEF f
<1>4. /\ f \in Frames /\ f.block = b /\ f.offset = i /\ f.count = n
      /\ f.pts # None => s.origin # None /\ f.pts = s.origin + (b.start + i)
  BY <1>2, <1>3
<1>5. QED
  BY <1>4 DEF f, x

LEMMA PullInputStep ==
  ASSUME IInv, PullInput
  PROVE  IInv'
<1> DEFINE h == PullSource
           n == PullCount
           f == Pulled(stream)
           b == h.block
<1>1. /\ CanPull /\ (current # None \/ deferred # <<>>)
      /\ HasTimestamp(stream, b.start + h.offset) /\ Receives(f)
      /\ current' = IF h.offset + n < b.count THEN [h EXCEPT !.offset = @ + n] ELSE None
      /\ deferred' = IF current # None THEN deferred ELSE Tail(deferred)
      /\ waiting' = waiting - n
      /\ stream' = [stream EXCEPT !.tail = TailSize]
      /\ UNCHANGED <<mode, gain, epoch, queue, drained, terminal>>
  BY DEF PullInput, WaitingAfterPull
<1>2. /\ h \in Pulls /\ b \in Blocks /\ b.count \in Nat /\ h.offset \in Nat
      /\ b.start \in Nat /\ h.offset < b.count
      /\ waiting = b.count - h.offset
      /\ b.epoch = epoch /\ b.unit # None /\ PlacedBlock(b, stamps)
      /\ ~Excused(lost, errors) => b.start + h.offset = GotEnd
      /\ current # None => deferred = <<>>
      /\ current = None => Tail(deferred) = <<>>
      /\ stream.end <= Last /\ queue = <<>>
  BY <1>1, PullSourceIs
<1>3. n \in Nat /\ n > 0 /\ n <= b.count - h.offset
  <2>1. n = Smaller(PullSize, b.count - h.offset)
    BY DEF PullCount
  <2>2. PullSize \in Nat /\ PullSize > 0
    BY Constants
  <2> HIDE DEF n, b, h
  <2>3. QED
    BY <1>2, <2>1, <2>2 DEF Smaller
<1>4. f = [block |-> b, offset |-> h.offset, count |-> n,
           pts |-> TimestampOf(stream, b.start + h.offset)]
  BY DEF Pulled
<1> HIDE DEF h, n, f, b
<1>5. /\ TypeOK /\ StoreInv /\ EpochInv /\ StampInv /\ EndInv /\ ChainInv /\ AccountInv
      /\ StreamInv(stream, stamps) /\ HeldInv(stream, errors)
  BY DEF IInv
<1>6. stream \in Shape /\ (stream.origin # None => stream.origin >= MinPts) /\ mode = "pull" /\ ~terminal
  BY <1>1, <1>5, StreamsShape DEF TypeOK, StreamInv, CanPull
<1>7. /\ f \in Frames /\ f.block = b /\ f.offset = h.offset /\ f.count = n
      /\ f.pts # None => stream.origin # None /\ f.pts = stream.origin + (b.start + h.offset)
  BY <1>1, <1>2, <1>3, <1>4, <1>6, PulledType
<1>8. /\ got' = f /\ received' = received + n /\ gapped' = (gapped \/ Position(f) # GotEnd)
      /\ UNCHANGED <<stamps, lost, errors>> /\ Position(f) = b.start + h.offset
  BY <1>1, <1>7 DEF Receives, Position
<1>9. deferred' = <<>> /\ queue' = <<>> /\ <<>> \in Seq(Blocks) /\ <<>> \in Seq(Frames) /\ Len(<<>>) = 0
  BY <1>1, <1>2, EmptyStores
<1>10. /\ stream' \in Shape /\ stream'.tail = TailSize /\ stream'.end = stream.end
       /\ stream'.rate = stream.rate /\ stream'.origin = stream.origin
       /\ stream'.next = stream.next /\ SameUnits(stream, stream')
  <2>1. TailSize \in 0 .. TailSize
    BY Constants
  <2>2. QED
    BY <1>1, <1>6, <2>1, TailField
<1>11. stream'.held = stream.held /\ stream'.metadata = stream.metadata /\ stream'.expected = stream.expected
  BY <1>10 DEF SameUnits
<1>12. /\ current' \in Option(Pulls)
       /\ current' # None => /\ current'.block = b /\ current'.offset = h.offset + n
                             /\ h.offset + n < b.count
       /\ current' = None => h.offset + n = b.count
  <2>1. h.offset + n \in Nat
    BY <1>2, <1>3
  <2> DEFINE c == [h EXCEPT !.offset = @ + n]
  <2>2. c \in Pulls /\ c.block = b /\ c.offset = h.offset + n
    BY <1>2, <2>1 DEF Pulls, b
  <2>3. c # None
    BY <2>2, NoneIs
  <2> HIDE DEF c
  <2>4. CASE h.offset + n < b.count
    <3>1. current' = c
      BY <1>1, <2>4 DEF c
    <3>2. current' \in Option(Pulls) /\ current' # None
      BY <2>2, <2>3, <3>1 DEF Option
    <3>3. QED
      BY <2>2, <2>4, <3>1, <3>2
  <2>5. CASE ~(h.offset + n < b.count)
    <3>1. current' = None /\ h.offset + n = b.count
      BY SMTT(30), <1>1, <1>2, <1>3, <2>5
    <3>2. QED
      BY <3>1 DEF Option
  <2>6. QED
    BY <2>4, <2>5
<1>13. /\ waiting' \in Nat /\ waiting' <= waiting /\ waiting = n + waiting' /\ waiting > 0
       /\ waiting' = IF current' = None THEN 0 ELSE current'.block.count - current'.offset
  <2>1. waiting' = (b.count - h.offset) - n
    BY <1>1, <1>2
  <2>2. current' # None => current'.block.count - current'.offset = b.count - (h.offset + n)
    BY <1>12
  <2>3. /\ waiting' \in Nat /\ waiting' <= waiting /\ waiting = n + waiting' /\ waiting > 0
        /\ b.count - (h.offset + n) = waiting' /\ (h.offset + n = b.count => waiting' = 0)
    BY <1>2, <1>3, <2>1
  <2>4. QED
    BY <1>12, <2>2, <2>3
<1>14. received \in Nat /\ lost \in Nat /\ waiting \in 0 .. UnitSize /\ UnitSize \in Nat
  BY <1>5, Constants DEF TypeOK
<1>15. TypeOK'
  <2>1. stream' \in Streams
    <3>1. stream.next \in Positions /\ stream.end \in Positions /\ stream.expected \in Positions
      BY <1>5, StreamsShape DEF TypeOK
    <3>2. QED
      BY <1>10, <1>11, <3>1, ShapeStreams
  <2>2. waiting' \in 0 .. UnitSize
    BY <1>13, <1>14
  <2>3. waiting' = (IF deferred' = <<>> THEN 0 ELSE Head(deferred').count)
                     + (IF current' = None THEN 0 ELSE current'.block.count - current'.offset)
    BY <1>9, <1>13
  <2>4. got' \in Option(Frames) /\ received' \in Nat /\ gapped' \in BOOLEAN
    BY <1>3, <1>5, <1>7, <1>8, <1>14 DEF TypeOK, Option
  <2>5. QED
    BY <1>1, <1>5, <1>8, <1>9, <1>12, <2>1, <2>2, <2>3, <2>4 DEF TypeOK
<1>16. StoreInv' /\ EpochInv'
  <2>1. StoreInv'
    BY <1>1, <1>6, <1>9, <1>12 DEF StoreInv
  <2>2. EpochInv'
    BY <1>1, <1>2, <1>9, <1>12 DEF EpochInv
  <2>3. QED
    BY <2>1, <2>2
<1>17. StreamInv(stream', stamps') /\ HeldInv(stream', errors')
  <2>1. stream.next # 0
    <3>1. Len(stamps) \in Nat /\ b.unit \in Units /\ b.unit < Len(stamps) /\ Len(stamps) \in 0 .. MaxUnits
      BY <1>2, <1>5, LenProperties, Constants DEF TypeOK, Blocks, Option, PlacedBlock, StreamInv
    <3>2. 0 < Len(stamps)
      BY <3>1, Constants DEF Units
    <3>3. 0 * UnitSize + UnitSize <= Len(stamps) * UnitSize
      BY <3>1, <3>2, UnitsGrow
    <3>4. 0 * UnitSize = 0 /\ UnitSize > 0 /\ stream.next = Len(stamps) * UnitSize
      BY <1>5, Constants DEF StreamInv
    <3>5. QED
      BY <1>14, <3>3, <3>4
  <2>2. StreamInv(stream', stamps')
    BY <1>5, <1>8, <1>10, <1>11, <2>1 DEF StreamInv
  <2>3. HeldInv(stream', errors')
    BY <1>5, <1>8, <1>11 DEF HeldInv
  <2>4. QED
    BY <2>2, <2>3
<1>18. StampInv'
  <2>1. StampedFrame(f, stream', stamps')
    BY <1>2, <1>7, <1>8, <1>10 DEF StampedFrame
  <2>2. QED
    BY <1>2, <1>8, <1>9, <1>12, <2>1 DEF StampInv
<1>19. EndInv'
  <2>1. stream.end \in Nat
    BY <1>6, ShapeFields
  <2>2. stream.end + TailSize <= Last + TailSize
    BY <1>2, <2>1, Constants
  <2>3. QED
    BY <1>2, <1>10, <2>2 DEF EndInv
<1>20. QueuedSamples' = 0 /\ QueuedSamples = 0
  BY <1>2, <1>9 DEF QueuedSamples
<1>21. ChainInv'
  <2>1. GotEnd' = (b.start + h.offset) + n
    <3>1. f # None
      BY <1>7, NoneIs
    <3>2. GotEnd' = Position(f) + f.count
      BY <1>8, <3>1 DEF GotEnd, Position
    <3>3. QED
      BY <1>7, <1>8, <3>2
  <2> SUFFICES ASSUME ~Excused(lost, errors)
               PROVE  /\ ~gapped'
                      /\ current' # None => current'.block.start + current'.offset = GotEnd'
                      /\ stream'.end = GotEnd' + QueuedSamples' + waiting'
    BY <1>8, <1>9 DEF ChainInv
  <2>2. /\ ~gapped /\ b.start + h.offset = GotEnd /\ stream.end = GotEnd + QueuedSamples + waiting
    BY <1>2, <1>5, <1>6 DEF ChainInv
  <2>3. ~gapped'
    BY <1>8, <2>2
  <2>4. current' # None => current'.block.start + current'.offset = GotEnd'
    <3>1. b.start + (h.offset + n) = (b.start + h.offset) + n
      BY <1>2, <1>3
    <3>2. QED
      BY <1>12, <2>1, <3>1
  <2>5. stream'.end = GotEnd' + QueuedSamples' + waiting'
    <3>1. stream.end = (b.start + h.offset) + 0 + (n + waiting')
      BY <1>13, <1>20, <2>2
    <3>2. (b.start + h.offset) + 0 + (n + waiting') = ((b.start + h.offset) + n) + 0 + waiting'
      BY <1>2, <1>3, <1>13
    <3>3. QED
      BY <1>10, <1>20, <2>1, <3>1, <3>2
  <2>6. QED
    BY <2>3, <2>4, <2>5
<1>22. AccountInv'
  <2>1. received' + QueuedSamples' + waiting' = received + QueuedSamples + waiting
    BY <1>3, <1>8, <1>13, <1>14, <1>20
  <2>2. ~drained => /\ OrderInv(stream', lost', errors')
                    /\ OpenAccount(stream', received' + QueuedSamples' + waiting', lost', errors')
    BY <1>5, <1>8, <1>10, <1>11, <2>1 DEF AccountInv, OrderInv, OpenAccount, HeldSamples
  <2>3. drained /\ errors = {} => stream.next # 0
    BY <1>1, <1>5 DEF AccountInv, HasPendingOutput
  <2>4. drained /\ errors = {} /\ stream.next > 0 => received + waiting + lost = stream.next
    BY <1>5, <1>6, <1>13 DEF AccountInv
  <2>5. drained /\ errors = {} /\ stream.next > 0 =>
          IF waiting' > 0 THEN received' + waiting' + lost = stream.next
          ELSE received' + lost + TailSize = stream.next + TailSize
    <3> SUFFICES ASSUME received + waiting + lost = stream.next
                 PROVE  IF waiting' > 0 THEN received' + waiting' + lost = stream.next
                        ELSE received' + lost + TailSize = stream.next + TailSize
      BY <2>4
    <3>1. received + n \in Nat /\ (received + n) + waiting' + lost = stream.next /\ TailSize \in Nat
      BY <1>3, <1>13, <1>14, Constants
    <3>2. waiting' > 0 \/ waiting' = 0
      BY <1>13
    <3>3. QED
      BY <1>8, <1>14, <3>1, <3>2
  <2>6. QED
    BY <1>1, <1>6, <1>8, <1>10, <2>2, <2>3, <2>5 DEF AccountInv
<1>23. QED
  BY <1>15, <1>16, <1>17, <1>18, <1>19, <1>21, <1>22 DEF IInv

LEMMA PullTailStep ==
  ASSUME IInv, PullTail
  PROVE  IInv'
<1> DEFINE n == TailCount
           b == Block(None, None, stream.end, n)
           f == [block |-> b, offset |-> 0, count |-> b.count, pts |-> TimestampOf(stream, b.start)]
           x == stream.tail - n
           y == stream.end + n
<1>1. /\ CanPull /\ drained /\ current = None /\ deferred = <<>> /\ stream.tail > 0
      /\ UNCHANGED epoch /\ HasTimestamp(stream, stream.end) /\ Receives(f)
      /\ stream' = [stream EXCEPT !.end = stream.end + b.count, !.tail = stream.tail - b.count]
      /\ UNCHANGED <<mode, gain, queue, deferred, current, waiting, drained, terminal>>
  BY DEF PullTail, EndAfterTail, TailAfter, stores
<1>2. /\ TypeOK /\ StoreInv /\ EpochInv /\ StampInv /\ EndInv /\ ChainInv /\ AccountInv
      /\ StreamInv(stream, stamps) /\ HeldInv(stream, errors)
  BY DEF IInv
<1>3. /\ stream \in Shape /\ (stream.origin # None => stream.origin >= MinPts)
      /\ mode = "pull" /\ ~terminal /\ queue = <<>> /\ epoch \in 0 .. MaxEpoch
      /\ stream.next \in Positions /\ stream.end \in Positions /\ stream.expected \in Positions
  BY <1>1, <1>2, StreamsShape DEF TypeOK, StreamInv, CanPull, StoreInv
<1>4. stream.tail \in 0 .. TailSize /\ stream.tail \in Nat /\ stream.end \in Nat /\ TailSize \in Nat
  BY <1>3, ShapeFields, Constants
<1>5. n \in Nat /\ n > 0 /\ n <= stream.tail
  <2>1. n = Smaller(PullSize, stream.tail)
    BY DEF TailCount
  <2>2. PullSize \in Nat /\ PullSize > 0
    BY Constants
  <2> HIDE DEF n
  <2>3. QED
    BY <1>1, <1>4, <2>1, <2>2 DEF Smaller
<1> HIDE DEF n
<1>6. b \in Blocks /\ b.start = stream.end /\ b.count = n /\ b.unit = None
  <2>1. epoch' \in 0 .. MaxEpoch /\ None \in Option(Units)
    BY <1>1, <1>3 DEF Option
  <2>2. b \in Blocks
    BY <1>3, <1>5, <2>1, BlockType DEF Block
  <2>3. QED
    BY <2>2 DEF Block
<1>7. f = [block |-> b, offset |-> 0, count |-> n, pts |-> TimestampOf(stream, b.start + 0)]
  <2>1. b.start + 0 = b.start
    BY <1>4, <1>6
  <2>2. QED
    BY <1>6, <2>1
<1> HIDE DEF b, f
<1>8. /\ f \in Frames /\ f.block = b /\ f.offset = 0 /\ f.count = n
      /\ f.pts # None => stream.origin # None /\ f.pts = stream.origin + (b.start + 0)
  <2>1. HasTimestamp(stream, b.start + 0)
    BY <1>1, <1>4, <1>6
  <2>2. QED
    BY <1>3, <1>5, <1>6, <1>7, <2>1, PulledType
<1>9. /\ got' = f /\ received' = received + n /\ gapped' = (gapped \/ Position(f) # GotEnd)
      /\ UNCHANGED <<stamps, lost, errors>> /\ Position(f) = stream.end
  <2>1. Position(f) = stream.end
    BY <1>4, <1>6, <1>8 DEF Position
  <2>2. QED
    BY <1>1, <1>8, <2>1 DEF Receives
<1>10. x \in 0 .. TailSize /\ y \in Nat /\ y + x = stream.end + stream.tail /\ y <= stream.end + stream.tail
  BY <1>4, <1>5
<1>11. /\ stream' \in Shape /\ stream'.tail = x /\ stream'.end = y /\ stream'.rate = stream.rate
       /\ stream'.origin = stream.origin /\ stream'.next = stream.next /\ SameUnits(stream, stream')
  <2>1. stream' = [stream EXCEPT !.end = y, !.tail = x]
    BY <1>1, <1>6
  <2> HIDE DEF x, y
  <2> DEFINE a == [stream EXCEPT !.end = y]
  <2>2. /\ a \in Shape /\ a.end = y /\ a.rate = stream.rate /\ a.origin = stream.origin
        /\ a.next = stream.next /\ SameUnits(stream, a)
    BY <1>3, <1>10 DEF Shape, SameUnits
  <2> HIDE DEF a
  <2>3. /\ [a EXCEPT !.tail = x] \in Shape /\ [a EXCEPT !.tail = x].tail = x
        /\ [a EXCEPT !.tail = x].end = a.end /\ [a EXCEPT !.tail = x].rate = a.rate
        /\ [a EXCEPT !.tail = x].origin = a.origin /\ [a EXCEPT !.tail = x].next = a.next
        /\ SameUnits(a, [a EXCEPT !.tail = x])
    BY <1>10, <2>2, TailField
  <2>4. stream' = [a EXCEPT !.tail = x]
    BY <2>1 DEF a
  <2>5. QED
    BY <2>2, <2>3, <2>4 DEF SameUnits
<1> HIDE DEF x, y
<1>12. stream'.held = stream.held /\ stream'.metadata = stream.metadata /\ stream'.expected = stream.expected
  BY <1>11 DEF SameUnits
<1>13. waiting = 0 /\ Len(<<>>) = 0
  BY <1>1, <1>2, EmptyStores DEF TypeOK
<1>14. received \in Nat /\ lost \in Nat
  BY <1>2 DEF TypeOK
<1>15. stream.end + stream.tail <= Last + TailSize
  BY <1>2, <1>3 DEF EndInv
<1>16. TypeOK'
  <2>1. y \in Positions
    <3>1. y \in 0 .. Last + TailSize + GainSize
      BY <1>4, <1>10, <1>15, Constants
    <3>2. QED
      BY <3>1 DEF Positions, Last
  <2>2. stream' \in Streams
    BY <1>3, <1>11, <1>12, <2>1, ShapeStreams
  <2>3. got' \in Option(Frames) /\ received' \in Nat /\ gapped' \in BOOLEAN
    BY <1>2, <1>5, <1>8, <1>9, <1>14 DEF TypeOK, Option
  <2>4. QED
    BY <1>1, <1>2, <1>9, <2>2, <2>3 DEF TypeOK
<1>17. StoreInv' /\ EpochInv'
  <2>1. StoreInv'
    BY <1>1, <1>2, <1>3 DEF StoreInv
  <2>2. EpochInv'
    BY <1>1, <1>2 DEF EpochInv
  <2>3. QED
    BY <2>1, <2>2
<1>18. StreamInv(stream', stamps') /\ HeldInv(stream', errors')
  <2>1. stream.next # 0
    BY <1>1, <1>2 DEF StreamInv
  <2>2. StreamInv(stream', stamps')
    BY <1>2, <1>9, <1>11, <1>12, <2>1 DEF StreamInv
  <2>3. HeldInv(stream', errors')
    BY <1>2, <1>9, <1>12 DEF HeldInv
  <2>4. QED
    BY <2>2, <2>3
<1>19. StampInv'
  <2>1. StampedFrame(f, stream', stamps')
    BY <1>6, <1>8, <1>9, <1>11 DEF StampedFrame, PlacedBlock
  <2>2. QED
    BY <1>1, <1>3, <1>9, <1>13, <2>1 DEF StampInv
<1>20. EndInv'
  BY <1>1, <1>10, <1>11, <1>15 DEF EndInv
<1>21. QueuedSamples' = 0 /\ QueuedSamples = 0
  BY <1>1, <1>3, <1>13 DEF QueuedSamples
<1>22. ChainInv'
  <2>1. GotEnd' = y
    <3>1. f # None
      BY <1>8, NoneIs
    <3>2. GotEnd' = Position(f) + f.count
      BY <1>9, <3>1 DEF GotEnd, Position
    <3>3. QED
      BY <1>8, <1>9, <3>2 DEF y
  <2> SUFFICES ASSUME ~Excused(lost, errors)
               PROVE  ~gapped' /\ stream'.end = GotEnd' + QueuedSamples' + waiting'
    BY <1>1, <1>3, <1>9, <1>13 DEF ChainInv
  <2>2. ~gapped /\ stream.end = GotEnd + QueuedSamples + waiting
    BY <1>2, <1>3 DEF ChainInv
  <2>3. GotEnd \in Nat
    <3>1. GotEnd = EndOf(got) /\ got \in Option(Frames)
      BY <1>2 DEF GotEnd, EndOf, TypeOK
    <3>2. QED
      BY <3>1, EndOfType
  <2>4. stream.end = GotEnd
    BY <1>13, <1>21, <2>2, <2>3
  <2>5. y = y + 0 + 0
    BY <1>10
  <2>6. QED
    BY <1>1, <1>9, <1>11, <1>13, <1>21, <2>1, <2>2, <2>4, <2>5
<1>23. AccountInv'
  <2>1. stream.next # 0
    BY <1>1, <1>2 DEF StreamInv
  <2>2. errors = {} /\ stream.next > 0 => received + lost + stream.tail = stream.next + TailSize
    BY <1>1, <1>2, <1>3, <1>13 DEF AccountInv
  <2>3. received' + lost + x = received + lost + stream.tail
    BY <1>4, <1>5, <1>9, <1>14 DEF x
  <2>4. QED
    BY <1>1, <1>3, <1>9, <1>11, <1>13, <2>1, <2>2, <2>3 DEF AccountInv
<1>24. QED
  BY <1>16, <1>17, <1>18, <1>19, <1>20, <1>22, <1>23 DEF IInv

LEMMA FailPullStep ==
  ASSUME IInv, FailPull
  PROVE  IInv'
<1>1. /\ FailClosed /\ UNCHANGED <<mode, gain, epoch, stamps, got, received, lost, gapped>>
      /\ stream' = stream
  BY DEF FailPull
<1>2. stream \in Shape /\ stream.expected <= Last /\ StreamInv(stream, stamps) /\ HeldInv(stream, errors)
  BY StreamsShape DEF IInv, TypeOK, StreamInv
<1>3. /\ stream' \in Shape /\ stream'.next = stream.next /\ stream'.end = stream.end
      /\ stream'.tail = stream.tail /\ stream'.origin = stream.origin /\ stream'.expected <= Last
      /\ StreamInv(stream', stamps) /\ HeldInv(stream', errors)
  BY <1>1, <1>2
<1>4. QED
  BY <1>1, <1>3, GainKept, ClosedStep

LEMMA StutterStep ==
  ASSUME IInv, UNCHANGED vars
  PROVE  IInv'
<1>1. /\ UNCHANGED <<mode, stream, gain, epoch, queue, deferred, current, waiting>>
      /\ UNCHANGED <<drained, terminal, stamps, got, received, lost, gapped, errors>>
  BY DEF vars, stores, history
<1>2. TypeOK' /\ StoreInv' /\ EpochInv' /\ StreamInv(stream', stamps') /\ HeldInv(stream', errors')
  BY <1>1 DEF IInv, TypeOK, StoreInv, HasPendingOutput, EpochInv
<1>3. StampInv' /\ EndInv'
  BY <1>1 DEF IInv, StampInv, EndInv
<1>4. GotEnd' = GotEnd /\ QueuedSamples' = QueuedSamples /\ HasPendingOutput' = HasPendingOutput
  BY <1>1 DEF GotEnd, QueuedSamples, HasPendingOutput
<1>5. ChainInv' /\ AccountInv'
  BY <1>1, <1>4 DEF IInv, ChainInv, AccountInv
<1>6. QED
  BY <1>2, <1>3, <1>5 DEF IInv

-----------------------------------------------------------------------------
(* Theorems *)

LEMMA NextInv ==
  ASSUME IInv, [Next]_vars
  PROVE  IInv'
<1>1. CASE \E p \in Packets : p.pts \in PacketStamps(p) /\ Push(p)
  BY <1>1, PushStep
<1>2. CASE Drain
  BY <1>2, DrainStep
<1>3. CASE Receive
  BY <1>3, ReceiveStep
<1>4. CASE PullInput
  BY <1>4, PullInputStep
<1>5. CASE PullTail
  BY <1>5, PullTailStep
<1>6. CASE FailPull
  BY <1>6, FailPullStep
<1>7. CASE Flush
  BY <1>7, FlushStep
<1>8. CASE UNCHANGED vars
  BY <1>8, StutterStep
<1>9. QED
  BY <1>1, <1>2, <1>3, <1>4, <1>5, <1>6, <1>7, <1>8 DEF Next

\* Every reachable state of a session satisfies the invariant, however the host calls it
\* and wherever a unit, the renderer or a reset fails.
THEOREM Invariant == Spec => []IInv
<1>1. Init => IInv
  BY InitInv
<1>2. IInv /\ [Next]_vars => IInv'
  BY NextInv
<1>3. QED
  BY <1>1, <1>2, PTL DEF Spec

\* The types, the range of timestamps and the count of deferred samples.
THEOREM TypeCorrect == Spec => []TypeOK
<1>1. IInv => TypeOK
  BY DEF IInv
<1>2. QED
  BY <1>1, Invariant, PTL

\* Nothing rendered before a discontinuity, a flush or a reset is received after it.
THEOREM NoStaleOutputHolds == Spec => []NoStaleOutput
<1>1. IInv => NoStaleOutput
  BY DEF IInv, EpochInv, NoStaleOutput, PendingBlocks, Queued, Deferred
<1>2. QED
  BY <1>1, Invariant, PTL

\* The metadata queued are those of the unit held, whatever was refused before.
THEOREM OneUnitHeldHolds == Spec => []OneUnitHeld
<1>1. IInv => OneUnitHeld
  BY DEF IInv, HeldInv, OneUnitHeld
<1>2. QED
  BY <1>1, Invariant, PTL

\* A frame with a timestamp carries that of its unit, if the unit was pushed with one.
LEMMA FrameReturnsStamp ==
  ASSUME IInv, NEW f \in Frames, StampedFrame(f, stream, stamps),
         f.block.unit # None, f.pts # None, stamps[f.block.unit + 1] # None
  PROVE  f.pts = stamps[f.block.unit + 1] + f.offset
<1> DEFINE u == f.block.unit
           i == u + 1
           x == u * UnitSize
           o == stream.origin
<1>1. /\ stream \in Shape /\ StreamInv(stream, stamps) /\ stamps \in Seq(Option(Pts))
  BY StreamsShape DEF IInv, TypeOK
<1>2. u < Len(stamps) /\ f.block.start = x /\ o # None /\ f.pts = o + (f.block.start + f.offset)
  BY DEF StampedFrame, PlacedBlock
<1>3. u \in Nat /\ o \in Int /\ f.offset \in Nat /\ Len(stamps) \in Nat /\ x \in Int
  <2>1. u \in Units /\ f.offset \in Nat
    BY DEF Frames, Blocks, Option
  <2>2. u \in Nat
    BY <2>1, Constants DEF Units
  <2>3. o \in Int
    BY <1>1, <1>2, ShapeFields DEF Option
  <2>4. x \in Int
    BY <2>2, UnitEnd
  <2>5. QED
    BY <1>1, <2>1, <2>2, <2>3, <2>4, LenProperties
<1>4. i \in 1 .. Len(stamps) /\ i - 1 = u
  BY <1>2, <1>3
<1>5. stamps[i] = o + (i - 1) * UnitSize
  BY <1>1, <1>4 DEF StreamInv
<1>6. stamps[i] = o + x
  BY <1>4, <1>5
<1> HIDE DEF x, o
<1>7. f.pts = (o + x) + f.offset
  BY <1>2, <1>3
<1>8. QED
  BY <1>6, <1>7

\* A timestamp comes back with its unit, and what is received has no gap unless a unit was
\* lost or an error was reported for it.
THEOREM TimestampsReturnHolds == Spec => []TimestampsReturn
<1>1. ASSUME IInv  PROVE TimestampsReturn
  <2>1. ASSUME NEW f \in Queued \cup ({got} \ {None})
        PROVE  f \in Frames /\ StampedFrame(f, stream, stamps)
    <3>1. CASE f \in Queued
      <4>1. PICK i \in 1 .. Len(queue) : f = queue[i]
        BY <3>1 DEF Queued
      <4>2. StampedFrame(queue[i], stream, stamps) /\ queue \in Seq(Frames)
        BY <1>1 DEF IInv, StampInv, TypeOK
      <4>3. QED
        BY <4>1, <4>2, ElementOfSeq
    <3>2. CASE f = got /\ got # None
      BY <1>1, <3>2 DEF IInv, StampInv, TypeOK, Option
    <3>3. QED
      BY <2>1, <3>1, <3>2
  <2>2. gapped => lost > 0 \/ errors \cap {"input", "topology", "emit"} # {}
    BY <1>1 DEF IInv, ChainInv, Excused
  <2>3. QED
    BY <1>1, <2>1, <2>2, FrameReturnsStamp DEF TimestampsReturn
<1>2. QED
  BY <1>1, Invariant, PTL

\* A session that reports completion and no error has given the host every sample.
THEOREM CompleteMeansAllHolds == Spec => []CompleteMeansAll
<1>1. ASSUME IInv, DrainComplete, errors = {}
      PROVE  received + lost = stream.next +
               (IF stream.next = 0 THEN 0 ELSE IF Binaural THEN TailSize ELSE GainSize)
  <2>1. drained /\ ~terminal /\ ~HasPendingOutput /\ ~HasUnrenderedPullTail
    BY <1>1 DEF DrainComplete, IInv, StoreInv
  <2>2. queue = <<>> /\ deferred = <<>> /\ current = None
    BY <2>1 DEF HasPendingOutput
  <2>3. waiting = 0 /\ stream \in Shape /\ received \in Nat /\ lost \in Nat
    BY <1>1, <2>2, StreamsShape DEF IInv, TypeOK
  <2>4. /\ stream.next \in Nat /\ stream.tail \in Nat /\ stream.tail <= TailSize
        /\ TailSize \in Nat /\ GainSize \in Nat /\ QueuedSamples = 0
    BY <2>2, <2>3, ShapeFields, Constants, EmptyStores DEF QueuedSamples
  <2>5. /\ stream.next = 0 => received + lost = 0
        /\ stream.next > 0 /\ mode # "pull" =>
             received + QueuedSamples + lost =
               stream.next + (IF mode = "binaural" THEN TailSize ELSE GainSize)
        /\ stream.next > 0 /\ mode = "pull" =>
             received + lost + stream.tail = stream.next + TailSize
    BY <1>1, <2>1, <2>3 DEF IInv, AccountInv
  <2>6. CASE stream.next = 0
    BY <2>4, <2>5, <2>6
  <2>7. CASE stream.next > 0 /\ mode = "pull"
    <3>1. stream.tail = 0
      BY <2>1, <2>4, <2>7 DEF HasUnrenderedPullTail
    <3>2. received + lost = stream.next + TailSize
      BY <2>3, <2>4, <2>5, <2>7, <3>1
    <3>3. QED
      BY <2>7, <3>2 DEF Binaural
  <2>8. CASE stream.next > 0 /\ mode # "pull"
    <3>1. received + lost = stream.next + (IF mode = "binaural" THEN TailSize ELSE GainSize)
      BY <2>3, <2>4, <2>5, <2>8
    <3>2. Binaural <=> mode = "binaural"
      BY <1>1, <2>8, ConstantsAssumption DEF IInv, TypeOK, Binaural
    <3>3. QED
      BY <2>8, <3>1, <3>2
  <2>9. QED
    BY <2>4, <2>6, <2>7, <2>8
<1>2. IInv => CompleteMeansAll
  BY <1>1 DEF CompleteMeansAll
<1>3. QED
  BY <1>2, Invariant, PTL

\* A session that has completed stays complete and gives nothing more until it is reset.
THEOREM CompletionIsFinalHolds == Spec => CompletionIsFinal
<1>1. ASSUME IInv, Next, DrainComplete, epoch' = epoch
      PROVE  DrainComplete' /\ received' = received
  <2>1. drained /\ ~HasPendingOutput /\ (terminal \/ ~HasUnrenderedPullTail)
    BY <1>1 DEF DrainComplete, IInv, StoreInv
  <2>2. queue = <<>> /\ deferred = <<>> /\ current = None
    BY <2>1 DEF HasPendingOutput
  <2>3. ~Open
    BY <2>1 DEF Open
  <2>4. ~Receive /\ ~PullInput
    BY <2>2 DEF Receive, PullInput
  <2>5. ~PullTail /\ ~FailPull
    BY <2>1, <2>2 DEF PullTail, FailPull, CanPull, HasUnrenderedPullTail
  <2>6. Flush
    BY <1>1, <2>3, <2>4, <2>5 DEF Next, Push, Drain
  <2>7. epoch \in Int /\ epoch + 1 # epoch
    BY <1>1, Constants DEF IInv, TypeOK
  <2>8. FailReset
    BY <1>1, <2>6, <2>7 DEF Flush
  <2>9. drained' = TRUE /\ terminal' = TRUE /\ received' = received
    BY <2>8 DEF FailReset, FailClosed
  <2>10. QED
    BY <2>9 DEF DrainComplete
<1>2. IInv /\ [Next]_vars => [DrainComplete /\ epoch' = epoch => DrainComplete' /\ received' = received]_vars
  BY <1>1
<1>3. QED
  BY <1>2, Invariant, PTL DEF Spec, CompletionIsFinal
=============================================================================
