------------------------- MODULE FfmpegBridgeProofs -------------------------
(***************************************************************************)
(* Proofs about FfmpegBridge, for every number of units, every size of     *)
(* packets, staging and units, every set of kinds and stamps, both modes.  *)
(*                                                                         *)
(* First what rescale_q_checked returns, for every time base: the nearest  *)
(* value, so that a timestamp survives the way through its time base.      *)
(* Then the inductive invariant IInv and its preservation, one part of it  *)
(* at a time: the types, the bytes, the segments, the stamps, the run of   *)
(* times, the poses, the queues, and the flow of units to the end of the   *)
(* stream.  Last the theorems.                                             *)
(***************************************************************************)
EXTENDS FfmpegBridge, SequenceTheorems, TLAPS

\* Division with remainder by a positive number.
LEMMA DivisionWithRemainder ==
  ASSUME NEW n \in Int, NEW d \in Nat \ {0}
  PROVE  /\ n \div d \in Int /\ n % d \in 0 .. d - 1
         /\ n = d * (n \div d) + (n % d)
  BY SMT

\* The only multiple of d closer to 0 than d is 0.
LEMMA SmallMultiple ==
  ASSUME NEW a \in Int, NEW d \in Nat \ {0}, -d < a * d, a * d < d
  PROVE  a = 0
<1>1. CASE a >= 1
  <2>1. a * d >= d
    BY <1>1, Z3
  <2>2. QED
    BY <2>1
<1>2. CASE a <= -1
  <2>1. a * d <= -d
    BY <1>2, Z3
  <2>2. QED
    BY <2>1
<1>3. QED
  BY <1>1, <1>2
Bases == [num : Nat \ {0}, den : Nat \ {0}]

\* How far the rescaled timestamp is from the exact one, in parts of base.den
Miss(value, base) == Rescaled(value, base) * base.den - value * base.num

\* rescale_q_checked returns the nearest sample, and of two equally near ones the one
\* farther from zero, for negative timestamps as for positive ones, as av_rescale_q does.
THEOREM RescaledIsNearest ==
  ASSUME NEW value \in Int, NEW base \in Bases
  PROVE  /\ Rescaled(value, base) \in Int
         /\ 2 * Magnitude(Miss(value, base)) <= base.den
         /\ 2 * Magnitude(Miss(value, base)) = base.den =>
              IF value * base.num < 0 THEN Miss(value, base) < 0 ELSE Miss(value, base) > 0
<1> DEFINE scaled == value * base.num
           d == base.den
           cut == Magnitude(scaled) \div d
           rest == Magnitude(scaled) % d
           rounded == IF 2 * rest >= d THEN cut + 1 ELSE cut
<1>1. d \in Nat \ {0} /\ base.num \in Int
  BY DEF Bases
<1>2. scaled \in Int
  BY <1>1
<1>3. Magnitude(scaled) \in Int
  BY <1>2 DEF Magnitude
<1>4. /\ cut \in Int /\ rest \in 0 .. d - 1
      /\ Magnitude(scaled) = d * cut + rest
  BY <1>1, <1>3, DivisionWithRemainder
<1>5. Rescaled(value, base) = IF scaled < 0 THEN -rounded ELSE rounded
  BY DEF Rescaled
<1> HIDE DEF scaled, d, cut, rest
<1>6. /\ rounded \in Int
      /\ 2 * rest >= d => rounded * d = Magnitude(scaled) + d - rest
      /\ ~(2 * rest >= d) => rounded * d = Magnitude(scaled) - rest
  <2>1. d * cut = cut * d /\ (cut + 1) * d = cut * d + d
    BY <1>1, <1>4
  <2>2. QED
    BY <1>1, <1>3, <1>4, <2>1
<1> HIDE DEF rounded
<1>7. (-rounded) * d = -(rounded * d) /\ rounded * d \in Int
  BY <1>1, <1>6
<1>8. /\ Miss(value, base) = Rescaled(value, base) * d - scaled
      /\ base.den = d /\ value * base.num = scaled
  BY DEF Miss, scaled, d
<1>9. CASE scaled < 0
  <2>1. Rescaled(value, base) = -rounded /\ Miss(value, base) = -(rounded * d) - scaled
    BY <1>5, <1>7, <1>8, <1>9
  <2>2. QED
    BY <1>1, <1>2, <1>4, <1>6, <1>7, <1>8, <1>9, <2>1 DEF Magnitude
<1>10. CASE ~(scaled < 0)
  <2>1. Rescaled(value, base) = rounded /\ Miss(value, base) = rounded * d - scaled
    BY <1>5, <1>8, <1>10
  <2>2. QED
    BY <1>1, <1>2, <1>4, <1>6, <1>7, <1>8, <1>10, <2>1 DEF Magnitude
<1>11. QED
  BY <1>9, <1>10

\* The tick a host writes for a time is within half a tick of it.
LEMMA TickIsNearest ==
  ASSUME NEW t \in Int, NEW base \in Bases
  PROVE  /\ Tick(t, base) \in Int
         /\ 2 * Magnitude(Tick(t, base) * base.num - t * base.den) <= base.num
<1> DEFINE n == base.num
           exact == t * base.den
           doubled == 2 * t * base.den + n
           v == doubled \div (2 * n)
           rest == doubled % (2 * n)
<1>1. n \in Nat \ {0} /\ base.den \in Nat \ {0}
  BY DEF Bases
<1>2. exact \in Int /\ doubled = 2 * exact + n /\ doubled \in Int /\ 2 * n \in Nat \ {0}
  BY <1>1
<1>3. v \in Int /\ rest \in 0 .. 2 * n - 1 /\ doubled = (2 * n) * v + rest
  BY <1>2, DivisionWithRemainder
<1>4. Tick(t, base) = v
  BY DEF Tick
<1> HIDE DEF n, exact, doubled, v, rest
<1>5. (2 * n) * v = 2 * (v * n) /\ v * n \in Int
  BY <1>1, <1>3
<1>6. 2 * (v * n - exact) = n - rest
  BY <1>1, <1>2, <1>3, <1>5
<1>7. 2 * Magnitude(v * n - exact) <= n
  BY <1>1, <1>2, <1>3, <1>5, <1>6 DEF Magnitude
<1>8. QED
  BY <1>3, <1>4, <1>7 DEF n, exact

\* A timestamp written to the nearest tick of a time base that is at least as fine as the
\* clock of the bridge is read back exactly: no time base shifts a programme by a sample.
THEOREM TimestampsSurvive ==
  ASSUME NEW t \in Int, NEW base \in Bases, base.num <= base.den
  PROVE  Rescaled(Tick(t, base), base) = t
<1> DEFINE n == base.num
           d == base.den
           v == Tick(t, base)
           r == Rescaled(v, base)
           a == v * n
           b == r * d
           c == t * d
<1>1. n \in Nat \ {0} /\ d \in Nat \ {0} /\ n <= d
  BY DEF Bases
<1>2. v \in Int /\ 2 * Magnitude(a - c) <= n
  BY TickIsNearest
<1>3. /\ r \in Int /\ 2 * Magnitude(b - a) <= d
      /\ 2 * Magnitude(b - a) = d => IF a < 0 THEN b - a < 0 ELSE b - a > 0
  BY <1>2, RescaledIsNearest DEF Miss
<1> HIDE DEF n, d, v, r
<1>4. a \in Int /\ b \in Int /\ c \in Int
  BY <1>1, <1>2, <1>3
<1>5. b - c = (r - t) * d
  BY <1>1, <1>3
<1> HIDE DEF a, b, c
<1>6. CASE n < d
  <2>1. -d < b - c /\ b - c < d
    BY <1>1, <1>2, <1>3, <1>4, <1>6 DEF Magnitude
  <2>2. r - t = 0
    BY <1>1, <1>3, <1>5, <2>1, SmallMultiple
  <2>3. QED
    BY <1>3, <2>2 DEF r, v
<1>7. CASE n = d
  <2>1. a - c = (v - t) * d
    BY <1>1, <1>2, <1>7 DEF a, c
  <2>2. -d < a - c /\ a - c < d
    BY <1>1, <1>2, <1>4, <1>7 DEF Magnitude
  <2>3. v - t = 0
    BY <1>1, <1>2, <2>1, <2>2, SmallMultiple
  <2>4. a = c
    BY <1>1, <1>2, <2>3, <1>7 DEF a, c
  <2>5. b - a = (r - t) * d
    BY <1>5, <2>4
  <2>6. -d < b - a /\ b - a < d
    BY <1>1, <1>3, <1>4 DEF Magnitude
  <2>7. QED
    BY <1>1, <1>3, <2>5, <2>6, SmallMultiple DEF r, v
<1>8. QED
  BY <1>1, <1>6, <1>7

-----------------------------------------------------------------------------
(***************************************************************************)
(* The inductive invariant of the bridge.                                  *)
(***************************************************************************)

\* The byte of the first unit the session has not taken.
First == start + UnitBytes * Len(pushed)

Entries == [unit : Units, pts : Option(Int)]
Stamps == [byte : Nat, stamp : Int]

BridgeFits(b) == b \in Bridges /\ Len(b.staging) <= MaxStaging
CallFits(c, o, r) == c \in Option(Calls) /\ o \in Option(Outcomes) /\ r \in Option(Results)

\* The types, those of the history included.
TypeInv ==
  /\ mode \in Modes /\ BridgeFits(bridge) /\ session \in Option(Sessions)
  /\ epoch \in 0 .. MaxEpoch /\ accepted \in 0 .. MaxPose /\ pose \in Option(Poses)
  /\ poisoned \in BOOLEAN /\ CallFits(call, outcome, result)
  /\ at \in Nat /\ at <= MaxUnits * UnitBytes
  /\ segment \in 0 .. MaxSegment /\ start \in Nat
  /\ pushed \in Seq(Entries) /\ received \in Seq(Units)
  /\ stamped \subseteq Stamps /\ failed \in BOOLEAN

\* Bytes leave the staging with the units pushed, and with nothing else.
BytesInv ==
  /\ bridge.classification # "other" =>
       First <= at /\ bridge.staging = Packet(First, at - First)
  /\ \A i \in 1 .. Len(pushed) : pushed[i].unit = (start \div UnitBytes) + i - 1
  /\ pushed # <<>> => start % UnitBytes = 0

\* PCM is of the segment it is handed over in.
OfSegment(q, n) == \A i \in 1 .. Len(q) : q[i].segment = n

SegmentInv ==
  /\ OfSegment(bridge.output, segment)
  /\ session # None => OfSegment(session.blocks, segment)

\* Ticks no longer than the unit of time name every time there is.
FineBases == \A base \in TimeBases : base.num <= base.den

\* A stamp is with a boundary in the staging, or with the unit it was for.
StampInv ==
  /\ \A p \in stamped : start <= p.byte
  /\ \A p \in stamped, i \in 1 .. Len(pushed) :
       pushed[i].unit = p.byte \div UnitBytes => pushed[i].pts = p.stamp
  /\ bridge.classification # "other" =>
       /\ \A b \in bridge.boundaries : b.offset < Len(bridge.staging)
       /\ \A b, c \in bridge.boundaries : b.offset = c.offset => b = c
       /\ \A p \in stamped : p.byte >= First =>
            [offset |-> p.byte - First, stamp |-> p.stamp] \in bridge.boundaries

\* The timeline goes on from the last unit pushed.
FollowsLast ==
  LET last == pushed[Len(pushed)].pts IN
  bridge.timeline = IF last = None THEN [kind |-> "untimed", next |-> 0]
                                   ELSE [kind |-> "timed", next |-> last + 1]

RunInv ==
  ~failed =>
    /\ UnitKeepsItsTime
    /\ pushed # <<>> /\ bridge.classification # "other" => FollowsLast

\* An owned bridge knows no poses.
PoseInv == PoseKept /\ (~Pull => accepted = 0)

\* What has left the session and has not been received.
Blocks == IF session = None THEN <<>> ELSE session.blocks
Queued == bridge.output \o Blocks

\* A queue with the last piece of no unit, and of unit u alone.
CarriesNone(q) == \A i \in 1 .. Len(q) : ~IsLast(q[i])
Carries(q, u) ==
  \E k \in 1 .. Len(q) : /\ IsLast(q[k]) /\ q[k].unit = u
                         /\ \A i \in 1 .. Len(q) : IsLast(q[i]) => i = k

HeldUnits == IF session # None /\ session.held # None THEN 1 ELSE 0
AllOut == CarriesNone(Queued) /\ Len(pushed) = Len(received) + HeldUnits
OneOut ==
  Carries(Queued, pushed[Len(received) + 1].unit) /\ Len(pushed) = Len(received) + 1 + HeldUnits

\* The unit held is the last one pushed; nothing is held once the session is drained.
HoldsLast ==
  /\ session = None => pushed = <<>>
  /\ session # None =>
       /\ session.last = IF pushed = <<>> THEN None ELSE pushed[Len(pushed)].unit
       /\ session.held # None => session.held = session.last
       /\ bridge.sessionDrained => session.held = None

\* Until something fails, units pushed are received, under way, or held.
FlowInv ==
  /\ \A i \in 1 .. Len(received) : received[i] = pushed[i].unit
  /\ AllOut \/ OneOut
  /\ HoldsLast

\* Where the output queue is empty, and what the end of the session closes.
QueueInv ==
  /\ call # None => ~poisoned
  /\ call = None => outcome = None
  /\ call # None /\ outcome \notin {"frame"} => bridge.output = <<>>
  /\ ~Pull /\ session # None => session.blocks = <<>>
  /\ bridge.sessionDrained => bridge.drainRequested /\ bridge.staging = <<>>

All ==
  /\ bridge.staging = <<>> /\ bridge.output = <<>>
  /\ ~failed => received = [i \in 1 .. Len(pushed) |-> pushed[i].unit]
                /\ at = start + UnitBytes * Len(pushed)

EofInv ==
  /\ ~failed /\ ~poisoned => FlowInv
  /\ call # None /\ outcome = "eof" => All
  /\ call = None /\ result = "eof" => All

IInv ==
  /\ TypeInv /\ BytesInv /\ SegmentInv /\ (FineBases => StampInv) /\ RunInv /\ PoseInv /\ QueueInv /\ EofInv

-----------------------------------------------------------------------------
(* Bytes and units *)

\* A byte k units further on is k units further on in the programme.
LEMMA UnitsFurther ==
  ASSUME NEW s \in Nat, NEW d \in Nat \ {0}, NEW k \in Nat
  PROVE  (s + d * k) \div d = (s \div d) + k /\ (s + d * k) % d = s % d
<1> DEFINE q == s \div d
           r == s % d
           t == s + d * k
           v == t \div d
           w == t % d
           a == q + k - v
<1>1. q \in Int /\ r \in 0 .. d - 1 /\ s = d * q + r
  BY DivisionWithRemainder
<1>2. d * k \in Int /\ t \in Int
  OBVIOUS
<1>3. v \in Int /\ w \in 0 .. d - 1 /\ t = d * v + w
  BY <1>2, DivisionWithRemainder
<1>4. a \in Int
  BY <1>1, <1>3
<1>5. a * d = d * q + d * k - d * v
  BY <1>1, <1>3
<1>6. d * q \in Int /\ d * v \in Int
  BY <1>1, <1>3
<1> HIDE DEF q, r, v, w, a
<1>7. a * d = w - r
  BY <1>1, <1>2, <1>3, <1>5, <1>6
<1>8. a = 0
  BY <1>1, <1>3, <1>4, <1>7, SmallMultiple
<1>9. v = q + k
  BY <1>1, <1>3, <1>8 DEF a
<1>10. w = r
  BY <1>1, <1>3, <1>7, <1>8
<1>11. QED
  BY <1>9, <1>10 DEF v, q, w, r

\* Where a byte of a programme of k units is.
LEMMA UnitOfByte ==
  ASSUME NEW d \in Nat \ {0}, NEW k \in Nat, NEW n \in Nat, n < k * d
  PROVE  n \div d \in 0 .. k - 1
<1> DEFINE v == n \div d
           w == n % d
<1>1. v \in Int /\ w \in 0 .. d - 1 /\ n = d * v + w
  BY DivisionWithRemainder
<1> HIDE DEF v, w
<1>2. CASE v < 0
  <2>1. d * v <= -d
    BY <1>1, <1>2, Z3
  <2>2. QED
    BY <1>1, <2>1
<1>3. CASE v >= k
  <2>1. d * v >= k * d
    BY <1>1, <1>3, Z3
  <2>2. QED
    BY <1>1, <2>1
<1>4. QED
  BY <1>1, <1>2, <1>3 DEF v

LEMMA PacketProperties ==
  ASSUME NEW m \in Int, NEW n \in Nat
  PROVE  /\ Packet(m, n) \in Seq(Int) /\ Len(Packet(m, n)) = n
         /\ \A i \in 1 .. n : Packet(m, n)[i] = m + i - 1
  BY DEF Packet

LEMMA PacketType ==
  ASSUME NEW m \in Nat, NEW n \in Nat, m + n <= MaxUnits * UnitBytes
  PROVE  Packet(m, n) \in Seq(Bytes)
<1>1. MaxUnits * UnitBytes \in Int
  BY ConstantsAssumption
<1>2. \A i \in 1 .. n : m + i - 1 \in Bytes
  BY <1>1 DEF Bytes
<1>3. QED
  BY <1>2 DEF Packet

\* Packets that follow one another are one stretch of the programme.
LEMMA PacketJoin ==
  ASSUME NEW m \in Int, NEW n \in Nat, NEW k \in Nat
  PROVE  Packet(m, n) \o Packet(m + n, k) = Packet(m, n + k)
<1> DEFINE s == Packet(m, n)
           t == Packet(m + n, k)
           u == Packet(m, n + k)
<1>1. s \in Seq(Int) /\ Len(s) = n /\ \A i \in 1 .. n : s[i] = m + i - 1
  BY PacketProperties
<1>2. t \in Seq(Int) /\ Len(t) = k /\ \A i \in 1 .. k : t[i] = m + n + i - 1
  BY PacketProperties
<1>3. u \in Seq(Int) /\ Len(u) = n + k /\ \A i \in 1 .. n + k : u[i] = m + i - 1
  BY PacketProperties
<1> HIDE DEF s, t, u
<1>4. /\ s \o t \in Seq(Int) /\ Len(s \o t) = Len(s) + Len(t)
      /\ \A i \in 1 .. Len(s) + Len(t) : (s \o t)[i] = IF i <= Len(s) THEN s[i] ELSE t[i - Len(s)]
  BY <1>1, <1>2, ConcatProperties
<1>5. \A i \in 1 .. n + k : (s \o t)[i] = u[i]
  <2> SUFFICES ASSUME NEW i \in 1 .. n + k  PROVE (s \o t)[i] = u[i]
    OBVIOUS
  <2>1. u[i] = m + i - 1
    BY <1>3
  <2>2. CASE i <= n
    <3>1. (s \o t)[i] = s[i]
      BY <1>1, <1>2, <1>4, <2>2
    <3>2. s[i] = m + i - 1
      BY <1>1, <2>2
    <3>3. QED
      BY <2>1, <3>1, <3>2
  <2>3. CASE i > n
    <3>1. i - n \in 1 .. k
      BY <2>3
    <3>2. (s \o t)[i] = t[i - n]
      BY <1>1, <1>2, <1>4, <2>3
    <3>3. t[i - n] = m + n + (i - n) - 1
      BY <1>2, <3>1
    <3>4. QED
      BY <2>1, <3>2, <3>3
  <2>4. i <= n \/ i > n
    OBVIOUS
  <2>5. QED
    BY <2>2, <2>3, <2>4
<1>6. s \o t = u
  <2>1. Len(s \o t) = n + k
    BY <1>1, <1>2, <1>4
  <2>2. \A i \in 1 .. Len(s \o t) : (s \o t)[i] = u[i]
    BY <1>5, <2>1
  <2>3. QED
    BY <1>3, <1>4, <2>1, <2>2, SeqEqual
<1>7. QED
  BY <1>6 DEF s, t, u

LEMMA PacketCut ==
  ASSUME NEW m \in Int, NEW n \in Nat, NEW k \in 0 .. n
  PROVE  SubSeq(Packet(m, n), k + 1, n) = Packet(m + k, n - k)
<1> DEFINE s == Packet(m, n)
           t == Packet(m + k, n - k)
           u == SubSeq(s, k + 1, n)
<1>1. s \in Seq(Int) /\ Len(s) = n /\ \A i \in 1 .. n : s[i] = m + i - 1
  BY PacketProperties
<1>2. t \in Seq(Int) /\ Len(t) = n - k /\ \A i \in 1 .. n - k : t[i] = m + k + i - 1
  BY PacketProperties
<1> HIDE DEF s, t
<1>3. \A i \in k + 1 .. n : s[i] \in Int
  BY <1>1
<1>4. /\ u \in Seq(Int) /\ Len(u) = IF k + 1 <= n THEN n - (k + 1) + 1 ELSE 0
      /\ \A i \in 1 .. n - (k + 1) + 1 : u[i] = s[k + 1 + i - 1]
  BY <1>3, SubSeqProperties
<1> HIDE DEF u
<1>5. Len(u) = Len(t)
  BY <1>2, <1>4
<1>6. \A i \in 1 .. Len(u) : u[i] = t[i]
  <2> SUFFICES ASSUME NEW i \in 1 .. n - k  PROVE u[i] = t[i]
    BY <1>2, <1>5
  <2>1. u[i] = s[k + 1 + i - 1] /\ k + 1 + i - 1 = k + i
    BY <1>4
  <2>2. s[k + i] = m + (k + i) - 1
    BY <1>1
  <2>3. QED
    BY <1>2, <2>1, <2>2
<1>7. u = t
  BY <1>2, <1>4, <1>5, <1>6, SeqEqual
<1>8. QED
  BY <1>7 DEF s, t, u

-----------------------------------------------------------------------------
(* Types *)

LEMMA Numbers ==
  /\ UnitBytes \in Nat \ {0} /\ MaxUnits \in Nat \ {0} /\ MaxUnits * UnitBytes \in Nat
  /\ Pieces \in Nat \ {0} /\ TailPieces \in Nat
  BY ConstantsAssumption

\* None is nothing else.
LEMMA NoneDiffers ==
  /\ \A n \in Int : n # None
  /\ \A s \in Sessions : s # None
  /\ \A u \in Poses : u # None
  /\ \A c \in Calls : c # None
  /\ \A o \in Outcomes : o # None
  /\ \A r \in Results : r # None
<1>1. /\ None \notin Int /\ None \notin Sessions /\ None \notin Poses
      /\ None \notin Calls /\ None \notin Results
  BY NoneAssumption
<1>2. Outcomes \subseteq Results
  BY DEF Results
<1> HIDE DEF Outcomes
<1>3. QED
  BY <1>1, <1>2, Zenon

LEMMA StampType ==
  ASSUME NEW m \in Nat, NEW w \in Offsets, NEW base \in TimeBases
  PROVE  /\ PacketStamp(m, w, base) \in Option(Int)
         /\ w # None => TimeAt(m, w) \in Int
         /\ StampsAt(m, w) \subseteq Stamps
<1>1. base \in Bases
  BY ConstantsAssumption DEF Bases
<1>2. w \in Int \cup {None}
  BY ConstantsAssumption
<1>3. ASSUME w # None  PROVE TimeAt(m, w) \in Int
  <2>1. m \div UnitBytes \in Int /\ w \in Int
    BY Numbers, <1>2, <1>3
  <2>2. QED
    BY <2>1 DEF TimeAt
<1>4. ASSUME w # None  PROVE Rescaled(Tick(TimeAt(m, w), base), base) \in Int
  <2>1. Tick(TimeAt(m, w), base) \in Int
    BY <1>1, <1>3, <1>4, TickIsNearest
  <2>2. QED
    BY <1>1, <2>1, RescaledIsNearest
<1>5. QED
  BY <1>3, <1>4 DEF PacketStamp, Option, StampsAt, Stamps

LEMMA StagedType ==
  ASSUME NEW b \in Bridges, NEW bytes \in Seq(Bytes), NEW stamp \in Option(Int)
  PROVE  /\ Staged(b, bytes, stamp) \in Bridges
         /\ Len(Staged(b, bytes, stamp).staging) = Len(b.staging) + Len(bytes)
<1>1. b.staging \in Seq(Bytes) /\ b.boundaries \in SUBSET [offset : Nat, stamp : Option(Int)]
  BY DEF Bridges
<1>2. /\ b.staging \o bytes \in Seq(Bytes)
      /\ Len(b.staging \o bytes) = Len(b.staging) + Len(bytes) /\ Len(b.staging) \in Nat
  BY <1>1, ConcatProperties, LenProperties
<1>3. [offset |-> Len(b.staging), stamp |-> stamp] \in [offset : Nat, stamp : Option(Int)]
  BY <1>2
<1>4. QED
  BY <1>1, <1>2, <1>3 DEF Staged, Bridges

LEMMA StagedFields ==
  ASSUME NEW b \in Bridges, NEW bytes, NEW stamp, NEW c, c = Staged(b, bytes, stamp)
  PROVE  /\ c.staging = b.staging \o bytes
         /\ c.boundaries = b.boundaries \cup {[offset |-> Len(b.staging), stamp |-> stamp]}
         /\ c.output = b.output /\ c.classification = b.classification
         /\ c.timeline = b.timeline
         /\ c.drainRequested = b.drainRequested /\ c.sessionDrained = b.sessionDrained
  BY DEF Staged, Bridges

LEMMA FreshType == Fresh \in Bridges
<1>1. <<>> \in Seq(Bytes) /\ <<>> \in Seq(Frames)
  BY EmptySeq
<1>2. [kind |-> "unset", next |-> 0] \in Timelines
  BY DEF Timelines
<1>3. QED
  BY <1>1, <1>2 DEF Fresh, Bridges

LEMMA NewSessionType ==
  ASSUME NEW e \in 0 .. MaxEpoch, NEW a \in 0 .. MaxPose
  PROVE  NewSession(e, a) \in Sessions
<1>1. <<>> \in Seq(Frames)
  BY EmptySeq
<1>2. 0 \in 0 .. MaxDecoded /\ 0 \in 0 .. TailPieces
  BY ConstantsAssumption
<1>3. QED
  BY <1>1, <1>2 DEF NewSession, Sessions, Option

LEMMA ClosedType ==
  ASSUME NEW s \in Sessions
  PROVE  Closed(s) \in Sessions
<1>1. <<>> \in Seq(Frames)
  BY EmptySeq
<1>2. QED
  BY <1>1 DEF Closed, Sessions

\* What a reset makes of the engine and of the history.
LEMMA ResetType ==
  ASSUME TypeInv, ResetEngine, NewSegment
  PROVE  /\ session' \in Option(Sessions) /\ poisoned' \in BOOLEAN
         /\ epoch' \in 0 .. MaxEpoch /\ accepted' \in 0 .. MaxPose /\ pose' \in Option(Poses)
         /\ segment' \in 0 .. MaxSegment /\ pushed' = <<>> /\ received' = <<>>
<1>1. /\ session \in Option(Sessions) /\ epoch \in 0 .. MaxEpoch /\ accepted \in 0 .. MaxPose
      /\ pose \in Option(Poses) /\ segment \in 0 .. MaxSegment
  BY DEF TypeInv, BridgeFits
<1>2. segment' \in 0 .. MaxSegment /\ pushed' = <<>> /\ received' = <<>>
  BY <1>1, ConstantsAssumption DEF NewSegment
<1>3. MaxEpoch \in Nat /\ MaxPose \in Nat
  BY ConstantsAssumption
<1>4. CASE Pull /\ epoch < MaxEpoch
  <2>1. epoch + 1 \in 0 .. MaxEpoch /\ 0 \in 0 .. MaxPose
    BY <1>1, <1>3, <1>4
  <2>2. NewSession(epoch + 1, 0) \in Sessions
    BY <2>1, NewSessionType
  <2>3. epoch # MaxEpoch
    BY <1>1, <1>3, <1>4
  <2>4. QED
    BY <1>2, <1>4, <2>1, <2>2, <2>3 DEF ResetEngine, Option
<1>5. CASE ~(Pull /\ epoch < MaxEpoch)
  <2>1. session # None => Closed(session) \in Sessions
    BY <1>1, ClosedType DEF Option
  <2>2. QED
    BY <1>1, <1>2, <1>5, <2>1 DEF ResetEngine, Option, orientation
<1>6. QED
  BY <1>4, <1>5

LEMMA FrontType ==
  ASSUME TypeInv, bridge.staging # <<>>
  PROVE  Head(bridge.staging) \in Bytes /\ Unit \in Units
<1>1. bridge.staging \in Seq(Bytes)
  BY DEF TypeInv, BridgeFits, Bridges
<1>2. Head(bridge.staging) \in Bytes
  BY <1>1, HeadTailProperties
<1>3. Head(bridge.staging) \in Nat /\ Head(bridge.staging) < MaxUnits * UnitBytes
  BY <1>2, Numbers DEF Bytes
<1>4. Head(bridge.staging) \div UnitBytes \in 0 .. MaxUnits - 1
  BY <1>3, Numbers, UnitOfByte
<1>5. QED
  BY <1>2, <1>4 DEF Unit, Units

LEMMA PtsType ==
  ASSUME TypeInv
  PROVE  Explicit \in Option(Int) /\ Pts \in Option(Int)
<1> DEFINE front == {b \in bridge.boundaries : b.offset = 0}
<1>1. /\ bridge.boundaries \in SUBSET [offset : Nat, stamp : Option(Int)]
      /\ bridge.timeline \in Timelines
  BY DEF TypeInv, BridgeFits, Bridges
<1>2. ASSUME front # {}  PROVE (CHOOSE b \in front : TRUE).stamp \in Option(Int)
  <2>1. (CHOOSE b \in front : TRUE) \in front
    BY <1>2, Zenon
  <2>2. (CHOOSE b \in front : TRUE) \in [offset : Nat, stamp : Option(Int)]
    BY <1>1, <2>1
  <2> HIDE DEF front
  <2>3. QED
    BY <2>2
<1>3. Explicit = IF front = {} THEN None ELSE (CHOOSE b \in front : TRUE).stamp
  BY DEF Explicit
<1> HIDE DEF front
<1>4. Explicit \in Option(Int)
  BY <1>2, <1>3 DEF Option
<1>5. bridge.timeline.next \in Int
  BY <1>1 DEF Timelines, Times
<1>6. QED
  BY <1>4, <1>5 DEF Pts, Option

LEMMA TimelineType ==
  ASSUME TypeInv, StampAgrees
  PROVE  NextTimeline \in Timelines
<1>1. Pts \in Option(Int) /\ (Pts # None => Pts + 1 <= MaxPts)
  BY PtsType DEF StampAgrees
<1>2. ASSUME Pts # None  PROVE Pts + 1 \in Times
  BY <1>1, <1>2 DEF Option, Times
<1>3. QED
  BY <1>2 DEF NextTimeline, Timelines

LEMMA ConsumedType ==
  ASSUME NEW b \in Bridges, UnitBytes <= Len(b.staging),
         NEW c, c = Consumed(b)
  PROVE  /\ c \in Bridges
         /\ c.staging = SubSeq(b.staging, UnitBytes + 1, Len(b.staging))
         /\ Len(c.staging) = Len(b.staging) - UnitBytes
         /\ c.boundaries = Shifted(b.boundaries)
         /\ c.output = b.output /\ c.classification = b.classification
         /\ c.timeline = b.timeline
         /\ c.drainRequested = b.drainRequested /\ c.sessionDrained = b.sessionDrained
<1>1. /\ b.staging \in Seq(Bytes) /\ Len(b.staging) \in Nat
      /\ b.boundaries \in SUBSET [offset : Nat, stamp : Option(Int)]
  BY LenProperties DEF Bridges
<1>2. \A i \in UnitBytes + 1 .. Len(b.staging) : b.staging[i] \in Bytes
  BY <1>1, Numbers, ElementOfSeq
<1>3. /\ SubSeq(b.staging, UnitBytes + 1, Len(b.staging)) \in Seq(Bytes)
      /\ Len(SubSeq(b.staging, UnitBytes + 1, Len(b.staging))) =
           IF UnitBytes + 1 <= Len(b.staging) THEN Len(b.staging) - (UnitBytes + 1) + 1 ELSE 0
  BY <1>1, <1>2, Numbers, SubSeqProperties
<1>4. Shifted(b.boundaries) \in SUBSET [offset : Nat, stamp : Option(Int)]
  <2> SUFFICES ASSUME NEW d \in b.boundaries, d.offset >= UnitBytes
               PROVE  [d EXCEPT !.offset = @ - UnitBytes] \in [offset : Nat, stamp : Option(Int)]
    BY DEF Shifted
  <2>1. d \in [offset : Nat, stamp : Option(Int)]
    BY <1>1
  <2>2. d.offset - UnitBytes \in Nat
    BY <2>1, Numbers
  <2>3. QED
    BY <2>1, <2>2
<1>5. Len(SubSeq(b.staging, UnitBytes + 1, Len(b.staging))) = Len(b.staging) - UnitBytes
  BY <1>1, <1>3, Numbers
<1>6. QED
  BY <1>3, <1>4, <1>5 DEF Consumed, Bridges

LEMMA TargetType ==
  ASSUME TypeInv
  PROVE  Target \in Sessions
<1>1. session \in Option(Sessions) /\ epoch \in 0 .. MaxEpoch /\ pose \in Option(Poses)
  BY DEF TypeInv, BridgeFits
<1>2. MaxPose \in Nat
  BY ConstantsAssumption
<1>3. PoseHanded \in 0 .. MaxPose
  BY <1>1, <1>2 DEF PoseHanded, Option, Poses
<1>4. QED
  BY <1>1, <1>3, NewSessionType DEF Target, Option

LEMMA AnchoredType ==
  ASSUME TypeInv, NEW s \in Sessions
  PROVE  /\ Anchored(s) \in Sessions
         /\ Anchored(s).epoch = s.epoch /\ Anchored(s).accepted = s.accepted
         /\ Anchored(s).next = s.next /\ Anchored(s).last = s.last /\ Anchored(s).held = s.held
         /\ Anchored(s).blocks = s.blocks
<1>1. Pts # None => Pts - s.next \in Int
  <2>1. Pts \in Option(Int) /\ s.next \in 0 .. MaxDecoded
    BY PtsType DEF Sessions
  <2>2. QED
    BY <2>1 DEF Option
<1>2. Anchored(s) = IF Pts = None \/ s.origin # None THEN s ELSE [s EXCEPT !.origin = Pts - s.next]
  BY DEF Anchored
<1>3. CASE Pts = None \/ s.origin # None
  BY <1>2, <1>3
<1>4. CASE ~(Pts = None \/ s.origin # None)
  <2>1. PICK o \in Option(Int) : Anchored(s) = [s EXCEPT !.origin = o]
    BY <1>1, <1>2, <1>4 DEF Option
  <2>2. QED
    BY <2>1 DEF Sessions
<1>5. QED
  BY <1>3, <1>4

LEMMA TakenType ==
  ASSUME TypeInv, NEW s \in Sessions, s.next < MaxDecoded, Unit \in Units,
         NEW t, t = Taken(s)
  PROVE  /\ t \in Sessions
         /\ t.epoch = s.epoch /\ t.accepted = s.accepted /\ t.blocks = s.blocks
         /\ t.last = Unit
         /\ t.held \in {s.held, None}
         /\ s.last = None \/ Unit = s.last + 1 => t.held = s.held
<1> DEFINE a == [Anchored(s) EXCEPT !.touched = TRUE, !.next = @ + 1, !.last = Unit]
<1>1. /\ Anchored(s) \in Sessions
      /\ Anchored(s).epoch = s.epoch /\ Anchored(s).accepted = s.accepted
      /\ Anchored(s).next = s.next /\ Anchored(s).last = s.last /\ Anchored(s).held = s.held
      /\ Anchored(s).blocks = s.blocks
  BY AnchoredType
<1>2. Anchored(s).next + 1 \in 0 .. MaxDecoded
  <2>1. s.next \in 0 .. MaxDecoded /\ MaxDecoded \in Nat
    BY ConstantsAssumption DEF Sessions
  <2>2. QED
    BY <1>1, <2>1
<1>3. /\ a \in Sessions /\ a.epoch = s.epoch /\ a.accepted = s.accepted /\ a.blocks = s.blocks
      /\ a.last = Unit /\ a.held = s.held
  BY <1>1, <1>2 DEF Sessions, Option
<1> HIDE DEF a
<1>4. t = IF s.last # None /\ Unit # s.last + 1 THEN [a EXCEPT !.held = None] ELSE a
  BY DEF Taken, a
<1>5. [a EXCEPT !.held = None] \in Sessions
  BY <1>3 DEF Sessions, Option
<1>6. CASE s.last # None /\ Unit # s.last + 1
  BY <1>3, <1>4, <1>5, <1>6 DEF Sessions
<1>7. CASE ~(s.last # None /\ Unit # s.last + 1)
  BY <1>3, <1>4, <1>7
<1>8. QED
  BY <1>6, <1>7

LEMMA FramesType ==
  ASSUME NEW u \in Option(Units), segment \in 0 .. MaxSegment
  PROVE  /\ FramesOf(u) \in Seq(Frames)
         /\ u = None => FramesOf(u) = <<>>
         /\ u # None => Len(FramesOf(u)) = IF Pull THEN Pieces ELSE 1
         /\ \A i \in 1 .. Len(FramesOf(u)) :
              FramesOf(u)[i] = [segment |-> segment, unit |-> u, piece |-> i]
<1> DEFINE n == IF Pull THEN Pieces ELSE 1
           s == [i \in 1 .. n |-> [segment |-> segment, unit |-> u, piece |-> i]]
<1>1. n \in Nat /\ n <= Pieces + TailPieces
  BY Numbers
<1> HIDE DEF n
<1>2. CASE u = None
  BY <1>2, EmptySeq DEF FramesOf
<1>3. CASE u # None
  <2>1. FramesOf(u) = s
    BY <1>3 DEF FramesOf, n
  <2>2. \A i \in 1 .. n : [segment |-> segment, unit |-> u, piece |-> i] \in Frames
    BY <1>1, Numbers DEF Frames
  <2>3. s \in Seq(Frames) /\ Len(s) = n
    BY <1>1, <2>2
  <2>4. QED
    BY <1>3, <2>1, <2>3 DEF n
<1>4. QED
  BY <1>2, <1>3

LEMMA TailFrameType ==
  ASSUME segment \in 0 .. MaxSegment, NEW i \in 1 .. Pieces + TailPieces
  PROVE  TailFrame(i) \in Frames
  BY DEF TailFrame, Frames, Option

\* A step that leaves the history and the input alone keeps its types if it keeps those of
\* the bridge, the session and the call.
Elsewhere == UNCHANGED <<mode, at, segment, start, pushed, received, stamped>>
Poise == UNCHANGED <<epoch, accepted, pose>>

LEMMA InitType == Init => TypeInv
<1> SUFFICES ASSUME Init  PROVE TypeInv
  OBVIOUS
<1>1. BridgeFits(bridge)
  BY FreshType, EmptySeq, ConstantsAssumption DEF Init, BridgeFits, Fresh
<1>2. pushed \in Seq(Entries) /\ received \in Seq(Units)
  BY EmptySeq DEF Init
<1>3. 0 \in 0 .. MaxEpoch /\ 0 \in 0 .. MaxPose /\ 0 \in 0 .. MaxSegment
  BY ConstantsAssumption
<1>4. session \in Option(Sessions) /\ pose \in Option(Poses) /\ CallFits(call, outcome, result)
  BY DEF Init, Option, CallFits
<1>5. at \in Nat /\ at <= MaxUnits * UnitBytes /\ start \in Nat
  <2>1. at \in {0, 1} /\ start = at
    BY DEF Init
  <2>2. MaxUnits * UnitBytes # 0
    BY Numbers, Z3
  <2> DEFINE total == MaxUnits * UnitBytes
  <2>3. total \in Nat /\ total # 0
    BY <2>2, Numbers
  <2> HIDE DEF total
  <2>4. 0 <= total /\ 1 <= total
    BY <2>3
  <2>5. QED
    BY <2>1, <2>4 DEF total
<1>6. /\ mode \in Modes /\ poisoned \in BOOLEAN /\ failed \in BOOLEAN /\ stamped \subseteq Stamps
      /\ epoch \in 0 .. MaxEpoch /\ accepted \in 0 .. MaxPose /\ segment \in 0 .. MaxSegment
  BY <1>3 DEF Init
<1>7. QED
  BY <1>1, <1>2, <1>4, <1>5, <1>6 DEF TypeInv

\* The steps that take no packet and no unit and hand over no frame.
LEMMA QuietType ==
  ASSUME TypeInv, Elsewhere, Poise, poisoned' \in BOOLEAN, failed' \in BOOLEAN,
         BridgeFits(bridge'), session' \in Option(Sessions), CallFits(call', outcome', result')
  PROVE  TypeInv'
  BY DEF TypeInv, Elsewhere, Poise

LEMMA BridgeUpdates ==
  ASSUME NEW b, BridgeFits(b)
  PROVE  /\ \A c \in {"unknown", "joc", "other", "invalid"} :
              BridgeFits([b EXCEPT !.classification = c])
         /\ \A t \in Timelines : BridgeFits([b EXCEPT !.timeline = t])
         /\ \A o \in Seq(Frames) : BridgeFits([b EXCEPT !.output = o])
         /\ \A d \in BOOLEAN : BridgeFits([b EXCEPT !.drainRequested = d])
         /\ \A d \in BOOLEAN : BridgeFits([b EXCEPT !.sessionDrained = d])
         /\ BridgeFits(Admitted(b))
  BY DEF BridgeFits, Bridges, Admitted

LEMMA SessionUpdates ==
  ASSUME NEW s \in Sessions
  PROVE  /\ \A u \in Option(Units) : [s EXCEPT !.held = u] \in Sessions
         /\ \A q \in Seq(Frames) : [s EXCEPT !.blocks = q] \in Sessions
         /\ \A n \in 0 .. TailPieces : [s EXCEPT !.tail = n] \in Sessions
         /\ \A a \in 0 .. MaxPose : [s EXCEPT !.accepted = a] \in Sessions
         /\ \A d \in BOOLEAN : [s EXCEPT !.drained = d] \in Sessions
         /\ \A d \in BOOLEAN : [s EXCEPT !.touched = d] \in Sessions
         /\ \A d \in BOOLEAN : [s EXCEPT !.behind = d] \in Sessions
  BY DEF Sessions

\* The bytes that are being cut into units.
LEMMA CompleteType ==
  ASSUME TypeInv, Assembling, Complete
  PROVE  Unit \in Units /\ UnitBytes <= Len(bridge.staging) /\ Len(bridge.staging) \in Nat
<1>1. bridge.staging \in Seq(Bytes) /\ bridge.staging # <<>>
  BY DEF TypeInv, BridgeFits, Bridges, Assembling
<1>2. Len(bridge.staging) \in Nat
  BY <1>1, LenProperties
<1>3. QED
  BY <1>1, <1>2, FrontType, Numbers DEF Complete

LEMMA ResolvedType ==
  ASSUME TypeInv, StampAgrees
  PROVE  BridgeFits(Resolved)
<1>1. BridgeFits(Admitted(bridge))
  BY BridgeUpdates DEF TypeInv
<1>2. QED
  BY <1>1, TimelineType, BridgeUpdates DEF Resolved

LEMMA EndsType ==
  ASSUME TypeInv
  PROVE  /\ \A o \in Outcomes : Ends(o) => CallFits(call', outcome', result')
         /\ \A r \in Results : Returns(r) => CallFits(call', outcome', result')
         /\ UNCHANGED calling => CallFits(call', outcome', result')
  BY DEF TypeInv, CallFits, Ends, Returns, Option, calling

\* The head of a queue of frames, and what is left of it.
LEMMA QueueType ==
  ASSUME NEW q \in Seq(Frames), q # <<>>
  PROVE  /\ Head(q) \in Frames /\ Tail(q) \in Seq(Frames)
         /\ Append(<<>>, Head(q)) = <<Head(q)>>
         /\ \A o \in Seq(Frames) : Append(o, Head(q)) \in Seq(Frames)
  BY HeadTailProperties, AppendProperties

LEMMA ReceivesType ==
  ASSUME TypeInv, NEW f \in Frames, Receives(f)
  PROVE  received' \in Seq(Units)
<1>1. received \in Seq(Units)
  BY DEF TypeInv
<1>2. IsLast(f) => f.unit \in Units
  BY DEF IsLast, Frames, Option
<1>3. QED
  BY <1>1, <1>2, AppendProperties DEF Receives

LEMMA ResetStepType ==
  ASSUME TypeInv, Flush \/ \E m \in Bytes, n \in 1 .. MaxPacket, w \in Offsets, base \in TimeBases :
                             SendDiscontinuity(m, n, w, base)
  PROVE  TypeInv'
<1>1. ResetEngine /\ NewSegment /\ mode' = mode
  BY DEF Flush, SendDiscontinuity
<1>2. /\ session' \in Option(Sessions) /\ poisoned' \in BOOLEAN
      /\ epoch' \in 0 .. MaxEpoch /\ accepted' \in 0 .. MaxPose /\ pose' \in Option(Poses)
      /\ segment' \in 0 .. MaxSegment /\ pushed' = <<>> /\ received' = <<>>
  BY <1>1, ResetType
<1>3. <<>> \in Seq(Entries) /\ <<>> \in Seq(Units) /\ {} \subseteq Stamps
  BY EmptySeq
<1>4. BridgeFits(Fresh)
  BY FreshType, EmptySeq, ConstantsAssumption DEF BridgeFits, Fresh
<1> DEFINE total == MaxUnits * UnitBytes
<1>5. total \in Nat /\ Bytes = 0 .. total - 1
  BY Numbers DEF Bytes
<1> HIDE DEF total
<1>6. CASE Flush
  <2>1. bridge' = Fresh /\ at' \in Nat /\ at' <= total /\ start' \in Nat /\ stamped' = {} /\ failed' = FALSE
    BY <1>5, <1>6 DEF Flush, Flushed
  <2>2. CallFits(call', outcome', result')
    BY <1>6, EndsType DEF Flush
  <2>3. QED
    BY <1>1, <1>2, <1>3, <1>4, <2>1, <2>2 DEF TypeInv, total
<1>7. ASSUME NEW m \in Bytes, NEW n \in 1 .. MaxPacket, NEW w \in Offsets, NEW base \in TimeBases,
             SendDiscontinuity(m, n, w, base)
      PROVE  TypeInv'
  <2>1. m \in Nat /\ n \in Nat /\ m + n <= total /\ start' = m
    BY <1>5, <1>7 DEF SendDiscontinuity, total
  <2> DEFINE c == Staged(Fresh, Packet(m, n), PacketStamp(m, w, base))
  <2>2. Packet(m, n) \in Seq(Bytes) /\ Len(Packet(m, n)) = n
    BY <2>1, PacketType, PacketProperties DEF total
  <2>3. PacketStamp(m, w, base) \in Option(Int) /\ StampsAt(m, w) \subseteq Stamps
    BY <2>1, StampType
  <2>9. c = Staged(Fresh, Packet(m, n), PacketStamp(m, w, base))
    OBVIOUS
  <2> HIDE DEF c
  <2>4. c \in Bridges /\ Len(c.staging) = Len(Fresh.staging) + Len(Packet(m, n))
    <3>1. Packet(m, n) \in Seq(Bytes) /\ PacketStamp(m, w, base) \in Option(Int) /\ Fresh \in Bridges
      BY <2>2, <2>3, FreshType
    <3>2. QED
      BY <2>9, <3>1, StagedType
  <2>5. Len(c.staging) = n
    BY <2>1, <2>2, <2>4, EmptySeq DEF Fresh
  <2>6. CASE /\ Room(n) /\ bridge' = c /\ at' = m + n
             /\ call' = "send" /\ UNCHANGED <<outcome, result>>
             /\ stamped' = StampsAt(m, w) /\ failed' = FALSE
    <3>1. BridgeFits(c)
      BY <2>4, <2>5, <2>6 DEF BridgeFits, Room
    <3>2. CallFits(call', outcome', result')
      BY <2>6 DEF TypeInv, CallFits, Option, Calls
    <3>3. at' \in Nat /\ at' <= total /\ start' \in Nat
      BY <2>1, <2>6
    <3>4. QED
      BY <1>1, <1>2, <1>3, <2>3, <2>6, <3>1, <3>2, <3>3 DEF TypeInv, total
  <2>7. CASE /\ bridge' = Fresh /\ at' = m
             /\ result' = "error" /\ UNCHANGED <<call, outcome>>
             /\ stamped' = {} /\ failed' = TRUE
    <3>1. CallFits(call', outcome', result')
      BY <2>7 DEF TypeInv, CallFits, Option, Results, Outcomes
    <3>2. m <= total
      BY <2>1, <1>5
    <3>3. QED
      BY <1>1, <1>2, <1>3, <1>4, <2>1, <2>7, <3>1, <3>2 DEF TypeInv, total
  <2>8. QED
    BY <1>7, <2>6, <2>7 DEF SendDiscontinuity, c
<1>8. QED
  BY <1>6, <1>7

\* A packet is staged.
LEMMA SendType ==
  ASSUME TypeInv, NEW n \in 1 .. MaxPacket, NEW w \in Offsets, NEW base \in TimeBases,
         Send(n, w, base)
  PROVE  TypeInv'
<1> DEFINE total == MaxUnits * UnitBytes
<1>1. at \in Nat /\ n \in Nat /\ at + n <= total /\ at' = at + n
  BY DEF Send, TypeInv
<1>2. Packet(at, n) \in Seq(Bytes) /\ Len(Packet(at, n)) = n
  <2>1. Packet(at, n) \in Seq(Bytes)
    BY <1>1, PacketType
  <2>2. Len(Packet(at, n)) = n
    BY <1>1, PacketProperties
  <2>3. QED
    BY <2>1, <2>2
<1>3. PacketStamp(at, w, base) \in Option(Int) /\ StampsAt(at, w) \subseteq Stamps
  BY <1>1, StampType
<1>4. bridge \in Bridges /\ bridge' = Staged(bridge, Packet(at, n), PacketStamp(at, w, base))
  BY DEF TypeInv, BridgeFits, Send
<1>5. bridge' \in Bridges /\ Len(bridge'.staging) = Len(bridge.staging) + Len(Packet(at, n))
  BY <1>2, <1>3, <1>4, StagedType
<1>6. BridgeFits(bridge')
  BY <1>2, <1>5 DEF Send, Room, BridgeFits
<1>7. CallFits(call', outcome', result')
  BY DEF Send, TypeInv, CallFits, Option, Calls
<1>8. at' \in Nat /\ at' <= total
  BY <1>1
<1> HIDE DEF total
<1>9. stamped' \subseteq Stamps
  BY <1>3 DEF Send, TypeInv
<1>10. QED
  BY <1>6, <1>7, <1>8, <1>9 DEF Send, TypeInv, orientation, total

\* The session gets the unit at the front of the staging, or a part of what is to be done
\* with it.
LEMMA PushType ==
  ASSUME TypeInv, CreateFails \/ PushRefused \/ PushMissed \/ PushLate \/ PushUnit
  PROVE  TypeInv'
<1>1. /\ Assembling /\ Complete /\ StampAgrees
      /\ mode' = mode /\ at' = at /\ start' = start /\ segment' = segment /\ received' = received
      /\ stamped' = stamped /\ epoch' = epoch /\ accepted' = accepted /\ poisoned' = poisoned
      /\ pose' \in {None, pose} /\ failed' \in {TRUE, failed}
  BY DEF CreateFails, PushRefused, PushMissed, PushLate, PushUnit, Pushing, PushCommon, orientation,
         Fails
<1>2. Unit \in Units /\ UnitBytes <= Len(bridge.staging) /\ Len(bridge.staging) \in Nat
  BY <1>1, CompleteType
<1>3. BridgeFits(Resolved)
  BY <1>1, ResolvedType
<1>4. Target \in Sessions
  BY TargetType
<1>5. ASSUME BridgeFits(bridge'), session' \in Option(Sessions), CallFits(call', outcome', result'),
             pushed' \in Seq(Entries)
      PROVE  TypeInv'
  BY <1>1, <1>5 DEF TypeInv, Option
<1>6. pushed \in Seq(Entries)
  BY DEF TypeInv
<1>7. CASE CreateFails
  <2>1. CallFits(call', outcome', result')
    BY <1>7, EndsType DEF CreateFails, Fails, Outcomes
  <2>2. bridge' = Resolved /\ session' = session /\ pushed' = pushed
    BY <1>7 DEF CreateFails
  <2>3. QED
    BY <1>3, <1>5, <1>6, <2>1, <2>2 DEF TypeInv
<1>8. Decodes(Target) => Target.next < MaxDecoded
  BY DEF Decodes
<1>9. CASE PushRefused
  <2>1. CallFits(call', outcome', result')
    BY <1>9, EndsType DEF PushRefused, Fails, Outcomes
  <2>2. bridge' = Resolved /\ pushed' = pushed
    BY <1>9 DEF PushRefused
  <2>3. Anchored(Target) \in Sessions
    BY <1>4, AnchoredType
  <2>4. [Anchored(Target) EXCEPT !.touched = TRUE] \in Sessions
    BY <2>3, SessionUpdates
  <2>5. session' \in Sessions
    BY <1>4, <1>9, <2>3, <2>4 DEF PushRefused
  <2>6. QED
    BY <1>3, <1>5, <1>6, <2>1, <2>2, <2>5 DEF Option
<1>10. ASSUME Decodes(Target)  PROVE Taken(Target) \in Sessions /\ Taken(Target).held \in Option(Units)
  BY <1>2, <1>4, <1>8, <1>10, TakenType DEF Sessions
<1>11. CASE PushMissed
  <2>1. CallFits(call', outcome', result')
    BY <1>11, EndsType DEF PushMissed, Fails, Outcomes
  <2>2. bridge' = Resolved /\ pushed' = pushed
    BY <1>11 DEF PushMissed
  <2>3. session' \in Sessions
    BY <1>10, <1>11, SessionUpdates DEF PushMissed
  <2>4. QED
    BY <1>3, <1>5, <1>6, <2>1, <2>2, <2>3 DEF Option
<1>12. CASE PushLate
  <2>1. CallFits(call', outcome', result')
    BY <1>12, EndsType DEF PushLate, Fails, Outcomes
  <2>2. bridge' = Resolved /\ pushed' = pushed
    BY <1>12 DEF PushLate
  <2>3. session' \in Sessions
    BY <1>2, <1>10, <1>12, SessionUpdates DEF PushLate, Option
  <2>4. QED
    BY <1>3, <1>5, <1>6, <2>1, <2>2, <2>3 DEF Option
<1>13. CASE PushUnit
  <2> DEFINE frames == FramesOf(Taken(Target).held)
             b == TakeBytes(Resolved)
  <2>1. /\ session' = [Taken(Target) EXCEPT !.held = Unit, !.blocks = IF Pull THEN frames ELSE <<>>]
        /\ bridge' = (IF Pull THEN b ELSE [b EXCEPT !.output = @ \o frames])
        /\ AfterPush(frames) /\ Decodes(Target)
        /\ pushed' = Append(pushed, [unit |-> Unit, pts |-> Pts])
    BY <1>13 DEF PushUnit
  <2>2. frames \in Seq(Frames)
    BY <1>10, <2>1, FramesType DEF TypeInv
  <2>3. Resolved \in Bridges /\ Resolved.staging = bridge.staging
    BY <1>3 DEF BridgeFits, Resolved, Admitted, Bridges
  <2>4. /\ b = Consumed(Resolved) /\ UnitBytes <= Len(Resolved.staging)
    BY <1>2, <2>3 DEF TakeBytes
  <2> HIDE DEF frames, b
  <2>5. b \in Bridges /\ Len(b.staging) = Len(Resolved.staging) - UnitBytes
    BY <2>3, <2>4, ConsumedType
  <2>6. BridgeFits(b)
    <3>1. Len(b.staging) = Len(bridge.staging) - UnitBytes
      BY <2>3, <2>5
    <3>2. Len(bridge.staging) <= MaxStaging /\ MaxStaging \in Nat
      BY ConstantsAssumption DEF TypeInv, BridgeFits
    <3>3. Len(b.staging) <= MaxStaging
      BY <1>2, <3>1, <3>2, Numbers
    <3>4. QED
      BY <2>5, <3>3 DEF BridgeFits
  <2>7. BridgeFits(bridge')
    <3>1. b.output \in Seq(Frames)
      BY <2>5 DEF Bridges
    <3>2. b.output \o frames \in Seq(Frames)
      BY <2>2, <3>1, ConcatProperties
    <3>3. QED
      BY <2>1, <2>6, <3>2, BridgeUpdates
  <2>8. session' \in Sessions
    <3>1. [Taken(Target) EXCEPT !.held = Unit] \in Sessions
      BY <1>2, <1>10, <2>1, SessionUpdates DEF Option
    <3>2. (IF Pull THEN frames ELSE <<>>) \in Seq(Frames)
      BY <2>2, EmptySeq
    <3>3. session' = [[Taken(Target) EXCEPT !.held = Unit] EXCEPT !.blocks = IF Pull THEN frames ELSE <<>>]
      BY <2>1
    <3>4. QED
      BY <3>1, <3>2, <3>3, SessionUpdates
  <2>9. CallFits(call', outcome', result')
    BY <2>1, EndsType DEF AfterPush, Outcomes
  <2>10. pushed' \in Seq(Entries)
    <3>1. [unit |-> Unit, pts |-> Pts] \in Entries
      BY <1>2, PtsType DEF Entries
    <3>2. QED
      BY <1>6, <2>1, <3>1, AppendProperties
  <2>11. QED
    BY <1>5, <2>7, <2>8, <2>9, <2>10 DEF Option
<1>14. QED
  BY <1>7, <1>9, <1>11, <1>12, <1>13

\* Frames are handed over or queued.
LEMMA FrameStepType ==
  ASSUME TypeInv, ReceiveQueued \/ PumpPending \/ ReturnFrame
  PROVE  TypeInv' /\ (session # None => session' \in Sessions)
<1>1. /\ mode' = mode /\ at' = at /\ start' = start /\ segment' = segment /\ pushed' = pushed
      /\ stamped' = stamped /\ epoch' = epoch /\ accepted' = accepted /\ pose' = pose
      /\ poisoned' = poisoned /\ failed' \in {TRUE, failed}
  BY DEF ReceiveQueued, PumpPending, ReturnFrame, orientation, Fails
<1>2. bridge.output \in Seq(Frames) /\ BridgeFits(bridge) /\ session \in Option(Sessions)
  BY DEF TypeInv, BridgeFits, Bridges
<1>3. ASSUME BridgeFits(bridge'), session' \in Sessions \/ session' = session,
             CallFits(call', outcome', result'), received' \in Seq(Units)
      PROVE  TypeInv' /\ (session # None => session' \in Sessions)
  <2>1. session' \in Option(Sessions) /\ (session # None => session' \in Sessions)
    BY <1>2, <1>3 DEF Option
  <2>2. QED
    BY <1>1, <1>3, <2>1 DEF TypeInv
<1>4. PendingInput => session \in Sessions /\ session.blocks \in Seq(Frames) /\ session.blocks # <<>>
  BY <1>2 DEF PendingInput, Option, Sessions
<1>5. ASSUME PendingInput
      PROVE  [session EXCEPT !.blocks = Tail(@), !.tail = TailPieces] \in Sessions
  <2>1. Tail(session.blocks) \in Seq(Frames) /\ TailPieces \in 0 .. TailPieces
    BY <1>4, <1>5, QueueType, Numbers
  <2>2. [session EXCEPT !.blocks = Tail(session.blocks)] \in Sessions
    BY <1>4, <1>5, <2>1, SessionUpdates
  <2>3. [[session EXCEPT !.blocks = Tail(session.blocks)] EXCEPT !.tail = TailPieces] \in Sessions
    BY <2>1, <2>2, SessionUpdates
  <2>4. QED
    BY <1>4, <1>5, <2>3 DEF Sessions
<1>6. PendingInput => Closed(session) \in Sessions
  BY <1>4, ClosedType
<1>7. received \in Seq(Units)
  BY DEF TypeInv
<1>8. CASE ReceiveQueued
  <2>1. Head(bridge.output) \in Frames /\ Tail(bridge.output) \in Seq(Frames)
    BY <1>2, <1>8, QueueType DEF ReceiveQueued
  <2>2. BridgeFits(bridge') /\ session' = session /\ received' \in Seq(Units)
    BY <1>2, <1>8, <2>1, BridgeUpdates, ReceivesType DEF ReceiveQueued
  <2>3. CallFits(call', outcome', result')
    BY <1>8 DEF ReceiveQueued, TypeInv, CallFits, Option, Results, Outcomes
  <2>4. QED
    BY <1>2, <1>3, <2>2, <2>3
<1>9. CASE PumpPending
  <2>1. PendingInput /\ received' = received
    BY <1>9 DEF PumpPending
  <2>2. CallFits(call', outcome', result')
    BY <1>9, EndsType DEF PumpPending, Fails, Outcomes
  <2>3. CASE DeliversBlock
    <3>1. Append(bridge.output, Head(session.blocks)) \in Seq(Frames)
      BY <1>2, <1>4, <2>1, QueueType
    <3>2. BridgeFits(bridge') /\ session' \in Sessions
      BY <1>2, <1>5, <2>1, <2>3, <3>1, BridgeUpdates DEF DeliversBlock
    <3>3. QED
      BY <1>3, <1>7, <2>1, <2>2, <3>2
  <2>4. CASE session' = Closed(session) /\ UNCHANGED bridge
    BY <1>2, <1>3, <1>6, <1>7, <2>1, <2>2, <2>4
  <2>5. QED
    BY <1>9, <2>3, <2>4 DEF PumpPending
<1>10. CASE ReturnFrame
  <2>1. CallFits(call', outcome', result')
    BY <1>10, EndsType DEF ReturnFrame, Results, Outcomes
  <2>2. CASE /\ bridge.output # <<>> /\ Receives(Head(bridge.output))
             /\ bridge' = [bridge EXCEPT !.output = Tail(@)] /\ session' = session
    <3>1. Head(bridge.output) \in Frames /\ Tail(bridge.output) \in Seq(Frames)
      BY <1>2, <2>2, QueueType
    <3>2. BridgeFits(bridge') /\ received' \in Seq(Units)
      BY <1>2, <2>2, <3>1, BridgeUpdates, ReceivesType
    <3>3. QED
      BY <1>2, <1>3, <2>1, <2>2, <3>2
  <2>3. CASE /\ PendingInput /\ Receives(Head(session.blocks))
             /\ session' = [session EXCEPT !.blocks = Tail(@), !.tail = TailPieces] /\ bridge' = bridge
    <3>1. Head(session.blocks) \in Frames
      BY <1>4, <2>3, QueueType
    <3>2. session' \in Sessions /\ received' \in Seq(Units)
      BY <1>5, <2>3, <3>1, ReceivesType
    <3>3. QED
      BY <1>2, <1>3, <2>1, <2>3, <3>2
  <2>4. CASE PendingInput /\ session' = Closed(session) /\ bridge' = bridge /\ received' = received
    BY <1>2, <1>3, <1>6, <1>7, <2>1, <2>4
  <2>5. QED
    BY <1>10, <2>2, <2>3, <2>4 DEF ReturnFrame
<1>11. QED
  BY <1>8, <1>9, <1>10

\* The session is drained.
LEMMA DrainType ==
  ASSUME TypeInv, DrainOwned \/ DrainPull
  PROVE  TypeInv' /\ (session # None => session' \in Sessions)
<1>1. Elsewhere /\ Poise /\ poisoned' \in BOOLEAN /\ failed' \in BOOLEAN /\ MayDrain
  BY DEF DrainOwned, DrainPull, Elsewhere, Poise, orientation, history, TypeInv
<1>2. /\ session \in Sessions /\ session.held \in Option(Units) /\ session.tail \in 0 .. TailPieces
      /\ session # None
  BY <1>1 DEF MayDrain, Draining, TypeInv, Option, Sessions
<1>3. BridgeFits(bridge) /\ bridge.output \in Seq(Frames) /\ segment \in 0 .. MaxSegment
  BY DEF TypeInv, BridgeFits, Bridges
<1> DEFINE s == [session EXCEPT !.drained = TRUE, !.held = None]
<1>4. s \in Sessions /\ s.tail = session.tail
  BY <1>2 DEF Sessions, Option
<1>5. FramesOf(session.held) \in Seq(Frames)
  BY <1>2, <1>3, FramesType
<1>6. CASE DrainOwned
  <2> DEFINE last == IF session.next > 0 /\ TailPieces > 0 THEN <<TailFrame(1)>> ELSE <<>>
             frames == FramesOf(session.held) \o last
  <2>1. last \in Seq(Frames)
    <3>1. CASE TailPieces > 0
      <4>1. TailFrame(1) \in Frames
        BY <1>3, Numbers, TailFrameType
      <4>2. QED
        BY <4>1, EmptySeq
    <3>2. CASE ~(TailPieces > 0)
      BY <3>2, EmptySeq
    <3>3. QED
      BY <3>1, <3>2
  <2> HIDE DEF last
  <2>2. frames \in Seq(Frames)
    BY <1>5, <2>1, ConcatProperties
  <2>3. /\ session' = s
        /\ bridge' = [bridge EXCEPT !.output = @ \o frames, !.sessionDrained = TRUE]
        /\ Ends(IF frames = <<>> THEN "eof" ELSE "frame")
    BY <1>6 DEF DrainOwned, last
  <2> HIDE DEF frames
  <2>4. bridge.output \o frames \in Seq(Frames)
    BY <1>3, <2>2, ConcatProperties
  <2>5. BridgeFits([[bridge EXCEPT !.output = bridge.output \o frames] EXCEPT !.sessionDrained = TRUE])
    BY <1>3, <2>4, BridgeUpdates
  <2>6. BridgeFits(bridge')
    BY <2>3, <2>5
  <2>7. CallFits(call', outcome', result')
    BY <2>3, EndsType DEF Outcomes
  <2>8. QED
    BY <1>1, <1>4, <2>3, <2>6, <2>7, QuietType DEF Option
<1>7. CASE DrainPull
  <2> DEFINE blocks == FramesOf(session.held)
  <2>1. CallFits(call', outcome', result')
    BY <1>7, EndsType DEF DrainPull, Outcomes
  <2>2. ASSUME BridgeFits(bridge'), session' \in Sessions
        PROVE  TypeInv' /\ session' \in Sessions
    BY <1>1, <2>1, <2>2, QuietType DEF Option
  <2>3. CASE /\ blocks # <<>>
             /\ session' = [s EXCEPT !.blocks = Tail(blocks), !.tail = TailPieces]
             /\ bridge' = [bridge EXCEPT !.output = Append(@, Head(blocks))]
    <3>1. Tail(blocks) \in Seq(Frames) /\ Append(bridge.output, Head(blocks)) \in Seq(Frames)
      BY <1>3, <1>5, <2>3, QueueType
    <3> HIDE DEF blocks, s
    <3>2. [s EXCEPT !.blocks = Tail(blocks)] \in Sessions
      BY <1>4, <3>1, SessionUpdates
    <3>3. [[s EXCEPT !.blocks = Tail(blocks)] EXCEPT !.tail = TailPieces] \in Sessions
      <4>1. TailPieces \in 0 .. TailPieces
        BY Numbers
      <4>2. QED
        BY <3>2, <4>1, SessionUpdates
    <3>4. session' \in Sessions
      BY <2>3, <3>3
    <3>5. BridgeFits(bridge')
      BY <1>3, <2>3, <3>1, BridgeUpdates
    <3>6. QED
      BY <2>2, <3>4, <3>5
  <2>4. CASE /\ s.tail > 0 /\ session' = [s EXCEPT !.tail = @ - 1]
             /\ bridge' = [bridge EXCEPT !.output = Append(@, TailFrame(Pieces + s.tail))]
    <3> HIDE DEF s
    <3>1. s.tail - 1 \in 0 .. TailPieces /\ Pieces + s.tail \in 1 .. Pieces + TailPieces
      BY <1>2, <1>4, <2>4, Numbers
    <3>2. Append(bridge.output, TailFrame(Pieces + s.tail)) \in Seq(Frames)
      BY <1>3, <3>1, TailFrameType, AppendProperties
    <3>3. session' \in Sessions
      BY <1>4, <2>4, <3>1, SessionUpdates
    <3>4. BridgeFits(bridge')
      BY <1>3, <2>4, <3>2, BridgeUpdates
    <3>5. QED
      BY <2>2, <3>3, <3>4
  <2>5. CASE session' = s /\ bridge' = EofReached(bridge)
    BY <1>3, <1>4, <2>2, <2>5, BridgeUpdates DEF EofReached
  <2>6. QED
    BY <1>7, <2>3, <2>4, <2>5 DEF DrainPull
<1>8. QED
  BY <1>6, <1>7

\* Everything else leaves the input and the history alone.
LEMMA TypeStep ==
  ASSUME TypeInv, [Next]_vars
  PROVE  TypeInv'
<1>1. BridgeFits(bridge) /\ session \in Option(Sessions)
  BY DEF TypeInv
<1>2. CASE Flush \/ \E m \in Bytes, n \in 1 .. MaxPacket, w \in Offsets, base \in TimeBases :
                      SendDiscontinuity(m, n, w, base)
  BY <1>2, ResetStepType
<1>3. CASE \E n \in 1 .. MaxPacket, w \in Offsets, base \in TimeBases : Send(n, w, base)
  BY <1>3, SendType
<1>4. CASE CreateFails \/ PushRefused \/ PushMissed \/ PushLate \/ PushUnit
  BY <1>4, PushType
<1>5. CASE ReceiveQueued \/ PumpPending \/ ReturnFrame
  BY <1>5, FrameStepType
<1>6. CASE DrainOwned \/ DrainPull
  BY <1>6, DrainType
<1>7. CASE RefusePoisoned \/ RefuseSend \/ RefusePacket \/ Receive \/ Drain
  <2>1. Elsewhere /\ Poise /\ poisoned' \in BOOLEAN /\ failed' \in BOOLEAN /\ session' = session
    BY <1>7 DEF RefusePoisoned, RefuseSend, RefusePacket, Receive, Drain, Elsewhere, Poise,
                orientation, history, TypeInv
  <2>2. CallFits(call', outcome', result')
    BY <1>7 DEF RefusePoisoned, RefuseSend, RefusePacket, Receive, Drain, TypeInv, CallFits, Option,
                Calls, Results, Outcomes
  <2>3. BridgeFits(bridge')
    BY <1>1, <1>7, BridgeUpdates DEF RefusePoisoned, RefuseSend, RefusePacket, Receive, Drain
  <2>4. QED
    BY <1>1, <2>1, <2>2, <2>3, QuietType
<1>8. CASE NotJoc \/ NeedMore \/ RefuseBytes \/ RefuseStamp \/ LoseJoc \/ Idle \/ EndAgain
  <2>1. Elsewhere /\ Poise /\ poisoned' \in BOOLEAN /\ failed' \in BOOLEAN /\ session' = session
    BY <1>8 DEF NotJoc, NeedMore, RefuseBytes, RefuseStamp, LoseJoc, Idle, EndAgain, Elsewhere,
                Poise, orientation, history, Fails, TypeInv
  <2>2. CallFits(call', outcome', result')
    BY <1>8, EndsType DEF NotJoc, NeedMore, RefuseBytes, RefuseStamp, LoseJoc, Idle, EndAgain,
                          Fails, Outcomes
  <2>3. BridgeFits(bridge')
    BY <1>1, <1>8, BridgeUpdates
       DEF NotJoc, NeedMore, RefuseBytes, RefuseStamp, LoseJoc, Idle, EndAgain
  <2>4. QED
    BY <1>1, <2>1, <2>2, <2>3, QuietType
<1>9. CASE RouteAway
  <2> DEFINE b == [[bridge EXCEPT !.classification = "other"] EXCEPT !.timeline = NextTimeline]
  <2>1. /\ Elsewhere /\ Poise /\ poisoned' = poisoned /\ failed' = failed /\ session' = session
        /\ Ends("notjoc") /\ StampAgrees
        /\ bridge' = [bridge EXCEPT !.classification = "other", !.timeline = NextTimeline,
                                    !.staging = <<>>, !.boundaries = {}]
    BY <1>9 DEF RouteAway, Elsewhere, Poise, orientation, history
  <2>2. BridgeFits(b)
    BY <1>1, <2>1, TimelineType, BridgeUpdates
  <2>3. <<>> \in Seq(Bytes) /\ Len(<<>>) = 0 /\ MaxStaging \in Nat
    BY EmptySeq, ConstantsAssumption
  <2>4. bridge' = [b EXCEPT !.staging = <<>>, !.boundaries = {}]
    BY <2>1
  <2> HIDE DEF b
  <2>5. BridgeFits(bridge')
    <3>1. b \in Bridges
      BY <2>2 DEF BridgeFits
    <3>2. [b EXCEPT !.staging = <<>>, !.boundaries = {}] \in Bridges
      BY <2>3, <3>1 DEF Bridges
    <3>3. bridge'.staging = <<>>
      BY <2>4, <3>1 DEF Bridges
    <3>4. Len(bridge'.staging) <= MaxStaging
      BY <2>3, <3>3
    <3>5. QED
      BY <2>4, <3>2, <3>4 DEF BridgeFits
  <2>6. CallFits(call', outcome', result')
    BY <2>1, EndsType DEF Outcomes
  <2>7. QED
    BY <1>1, <2>1, <2>5, <2>6, QuietType DEF TypeInv
<1>10. CASE FailDrain
  <2>1. /\ Elsewhere /\ Poise /\ poisoned' = poisoned /\ failed' = TRUE /\ bridge' = bridge
        /\ session' = Closed(session) /\ session # None
    BY <1>10 DEF FailDrain, Draining, Elsewhere, Poise, orientation, Fails
  <2>2. session' \in Option(Sessions)
    BY <1>1, <2>1, ClosedType DEF Option
  <2>3. CallFits(call', outcome', result')
    BY <1>10, EndsType DEF FailDrain, Fails, Outcomes
  <2>4. QED
    BY <1>1, <2>1, <2>2, <2>3, QuietType DEF TypeInv
<1>11. CASE ReturnStatus \/ Panic \/ OuterPanic
  <2>1. /\ Elsewhere /\ Poise /\ poisoned' \in BOOLEAN /\ failed' \in BOOLEAN
        /\ bridge' = bridge /\ session' = session
    BY <1>11 DEF ReturnStatus, Panic, OuterPanic, Elsewhere, Poise, orientation, history, TypeInv
  <2>2. outcome \in Option(Outcomes)
    BY DEF TypeInv, CallFits
  <2>3. CallFits(call', outcome', result')
    <3>1. CASE ReturnStatus
      BY <2>2, <3>1, EndsType DEF ReturnStatus, Results, Option
    <3>2. CASE Panic \/ OuterPanic
      BY <3>2, EndsType DEF Panic, OuterPanic, Results, Outcomes
    <3>3. QED
      BY <1>11, <3>1, <3>2
  <2>4. QED
    BY <1>1, <2>1, <2>3, QuietType
<1>12. ASSUME NEW e \in 0 .. MaxEpoch, NEW n \in 1 .. MaxPose, ApplyPose([epoch |-> e, sequence |-> n])
       PROVE  TypeInv'
  <2>1. MaxPose \in Nat /\ n \in 0 .. MaxPose /\ [epoch |-> e, sequence |-> n] \in Poses
    BY ConstantsAssumption DEF Poses
  <2>2. session' \in Option(Sessions)
    BY <1>1, <1>12, <2>1, SessionUpdates DEF ApplyPose, Option
  <2>3. /\ accepted' = n /\ pose' \in {pose, [epoch |-> e, sequence |-> n]}
        /\ UNCHANGED <<mode, at, bridge, epoch, poisoned, calling, history>>
    BY <1>12 DEF ApplyPose
  <2>4. QED
    BY <2>1, <2>2, <2>3 DEF TypeInv, calling, history, Option
<1>13. CASE UNCHANGED vars
  BY <1>13 DEF vars, orientation, calling, history, TypeInv
<1>14. QED
  BY <1>2, <1>3, <1>4, <1>5, <1>6, <1>7, <1>8, <1>9, <1>10, <1>11, <1>12, <1>13
     DEF Next, Pump, Return

-----------------------------------------------------------------------------
(* Poses *)

\* A step that hands the session no pose and no epoch.
SameOwner ==
  IF session = None THEN session' = None
  ELSE session' # None /\ session'.epoch = session.epoch /\ session'.accepted = session.accepted

LEMMA SessionSteps ==
  ASSUME TypeInv, PumpPending \/ FailDrain \/ DrainOwned \/ DrainPull \/ ReturnFrame
  PROVE  SameOwner /\ UNCHANGED <<mode, epoch, accepted, pose>>
<1>1. UNCHANGED <<mode, epoch, accepted, pose>>
  BY DEF PumpPending, FailDrain, DrainOwned, DrainPull, ReturnFrame, orientation
<1>2. CASE session = None
  BY <1>1, <1>2
     DEF PumpPending, FailDrain, DrainOwned, DrainPull, ReturnFrame, PendingInput, Draining,
         MayDrain, SameOwner
<1>3. CASE session # None
  <2>1. session \in Sessions
    BY <1>3 DEF TypeInv, Option
  <2>2. FailDrain => session' \in Sessions
    BY <2>1, ClosedType DEF FailDrain
  <2>3. session' \in Sessions
    BY <1>3, <2>2, FrameStepType, DrainType
  <2>4. session' # None
    BY <2>3, NoneDiffers
  <2>5. session'.epoch = session.epoch /\ session'.accepted = session.accepted
    BY <2>1 DEF PumpPending, DeliversBlock, FailDrain, DrainOwned, DrainPull, ReturnFrame, Closed,
                Sessions
  <2>6. QED
    BY <1>1, <1>3, <2>4, <2>5 DEF SameOwner
<1>4. QED
  BY <1>2, <1>3

LEMMA PoseStep ==
  ASSUME TypeInv, PoseInv, [Next]_vars
  PROVE  PoseInv'
<1>1. /\ session \in Option(Sessions) /\ epoch \in 0 .. MaxEpoch /\ accepted \in 0 .. MaxPose
      /\ pose \in Option(Poses) /\ None \notin Sessions /\ None \notin Poses
  BY NoneAssumption DEF TypeInv
<1>2. ASSUME UNCHANGED <<mode, epoch, accepted, pose>>, SameOwner
      PROVE  PoseInv'
  BY <1>2 DEF PoseInv, PoseKept, SameOwner, Pull
<1>3. ASSUME ResetEngine, mode' = mode
      PROVE  PoseInv'
  <2>1. CASE Pull /\ epoch < MaxEpoch
    <3>1. epoch + 1 \in 0 .. MaxEpoch /\ 0 \in 0 .. MaxPose /\ epoch # MaxEpoch
      BY <1>1, <2>1, ConstantsAssumption
    <3>2. NewSession(epoch + 1, 0) # None
      BY <3>1, NewSessionType, NoneDiffers
    <3>3. /\ epoch' = epoch + 1 /\ accepted' = 0 /\ pose' = None
          /\ session' = IF session = None THEN None ELSE NewSession(epoch + 1, 0)
      BY <1>3, <2>1, <3>1 DEF ResetEngine
    <3>4. QED
      BY <1>3, <2>1, <3>2, <3>3 DEF PoseInv, PoseKept, NewSession, Pull
  <2>2. CASE Pull /\ ~(epoch < MaxEpoch)
    <3>1. /\ session' = IF session = None THEN None ELSE Closed(session)
          /\ UNCHANGED <<epoch, accepted, pose>>
      BY <1>3, <2>2 DEF ResetEngine, orientation
    <3>2. session # None => session \in Sessions /\ Closed(session) # None
      BY <1>1, ClosedType, NoneDiffers DEF Option
    <3>3. SameOwner
      BY <3>1, <3>2 DEF SameOwner, Closed, Sessions
    <3>4. QED
      BY <1>2, <1>3, <3>1, <3>3
  <2>3. CASE ~Pull
    <3>1. session' = None /\ UNCHANGED <<epoch, accepted, pose>>
      BY <1>3, <2>3 DEF ResetEngine, orientation
    <3>2. accepted = 0 /\ pose = None
      BY <2>3 DEF PoseInv, PoseKept
    <3>3. QED
      BY <1>3, <3>1, <3>2 DEF PoseInv, PoseKept, Pull
  <2>4. QED
    BY <2>1, <2>2, <2>3
<1>4. CASE Flush \/ \E m \in Bytes, n \in 1 .. MaxPacket, w \in Offsets, base \in TimeBases :
                      SendDiscontinuity(m, n, w, base)
  BY <1>3, <1>4 DEF Flush, SendDiscontinuity
<1>5. Target \in Sessions /\ Target.epoch = epoch /\ Target.accepted = accepted
  <2>1. CASE session = None
    <3>1. accepted # 0 => pose = [epoch |-> epoch, sequence |-> accepted] /\ pose \in Poses
      BY <1>1, <2>1 DEF PoseInv, PoseKept, Poses
    <3>2. PoseHanded = accepted
      BY <2>1, <3>1, NoneDiffers DEF PoseHanded, PoseInv, PoseKept
    <3>3. Target = NewSession(epoch, accepted)
      BY <2>1, <3>2 DEF Target
    <3>4. QED
      BY <3>3, TargetType DEF NewSession
  <2>2. CASE session # None
    BY <2>2, TargetType DEF PoseInv, PoseKept, Target
  <2>3. QED
    BY <2>1, <2>2
<1>6. ASSUME session' \in Sessions, session'.epoch = epoch, session'.accepted = accepted, PushCommon
      PROVE  PoseInv'
  <2>1. session' # None /\ UNCHANGED <<mode, epoch, accepted>> /\ pose' = None
    BY <1>6, NoneDiffers DEF PushCommon
  <2>2. QED
    BY <1>6, <2>1 DEF PoseInv, PoseKept, Pull
<1>7. CASE PushRefused
  <2>1. /\ Anchored(Target) \in Sessions
        /\ Anchored(Target).epoch = epoch /\ Anchored(Target).accepted = accepted
    BY <1>5, AnchoredType
  <2>2. [Anchored(Target) EXCEPT !.touched = TRUE] \in Sessions
    BY <2>1, SessionUpdates
  <2>3. session' \in Sessions /\ session'.epoch = epoch /\ session'.accepted = accepted
    BY <1>5, <1>7, <2>1, <2>2 DEF PushRefused, Sessions
  <2>4. QED
    BY <1>6, <1>7, <2>3 DEF PushRefused
<1>8. ASSUME Pushing, Decodes(Target)
      PROVE  /\ Taken(Target) \in Sessions
             /\ Taken(Target).epoch = epoch /\ Taken(Target).accepted = accepted
  <2>1. Unit \in Units /\ Target.next < MaxDecoded
    BY <1>8, CompleteType DEF Pushing, Decodes
  <2>2. QED
    BY <1>5, <2>1, TakenType
<1>9. CASE PushMissed \/ PushLate \/ PushUnit
  <2>1. /\ Taken(Target) \in Sessions
        /\ Taken(Target).epoch = epoch /\ Taken(Target).accepted = accepted
    BY <1>8, <1>9 DEF PushMissed, PushLate, PushUnit
  <2>2. PushCommon /\ Pushing
    BY <1>9 DEF PushMissed, PushLate, PushUnit
  <2>3. session'.epoch = epoch /\ session'.accepted = accepted
    BY <1>9, <2>1 DEF PushMissed, PushLate, PushUnit, Sessions
  <2>4. session' \in Sessions
    <3>1. TypeInv'
      BY <1>9, PushType
    <3>2. session' \in Option(Sessions) /\ Unit \in Units
      BY <2>2, <3>1, CompleteType DEF TypeInv, Pushing
    <3>3. [Taken(Target) EXCEPT !.behind = TRUE] \in Sessions
      BY <2>1, SessionUpdates
    <3>4. [Taken(Target) EXCEPT !.held = Unit] \in Sessions
      BY <2>1, <3>2, SessionUpdates DEF Option
    <3>5. CASE PushMissed \/ PushLate
      BY <3>3, <3>4, <3>5 DEF PushMissed, PushLate
    <3>6. CASE PushUnit
      <4> DEFINE q == IF Pull THEN FramesOf(Taken(Target).held) ELSE <<>>
      <4>1. FramesOf(Taken(Target).held) \in Seq(Frames)
        BY <2>1, FramesType DEF TypeInv, Sessions
      <4>2. q \in Seq(Frames)
        BY <4>1, EmptySeq
      <4>3. session' = [[Taken(Target) EXCEPT !.held = Unit] EXCEPT !.blocks = q]
        BY <3>6 DEF PushUnit
      <4> HIDE DEF q
      <4>4. QED
        BY <3>4, <4>2, <4>3, SessionUpdates
    <3>7. QED
      BY <1>9, <3>5, <3>6
  <2>5. QED
    BY <1>6, <2>2, <2>3, <2>4
<1>10. CASE PumpPending \/ FailDrain \/ DrainOwned \/ DrainPull \/ ReturnFrame
  BY <1>2, <1>10, SessionSteps
<1>11. ASSUME NEW e \in 0 .. MaxEpoch, NEW n \in 1 .. MaxPose, ApplyPose([epoch |-> e, sequence |-> n])
       PROVE  PoseInv'
  <2>1. /\ Pull /\ accepted' = n /\ n # 0 /\ UNCHANGED <<mode, epoch>> /\ e = epoch
        /\ n \in 0 .. MaxPose
    BY <1>11, ConstantsAssumption DEF ApplyPose, Current
  <2>2. CASE session = None
    BY <1>11, <2>1, <2>2 DEF ApplyPose, PoseInv, PoseKept, Pull
  <2>3. CASE session # None
    <3>1. session \in Sessions /\ session' = [session EXCEPT !.accepted = n] /\ pose' = pose
      BY <1>1, <1>11, <2>3 DEF ApplyPose, Option
    <3>2. session' \in Sessions /\ session'.epoch = session.epoch /\ session'.accepted = n
      BY <2>1, <3>1, SessionUpdates DEF Sessions
    <3>3. session' # None
      BY <3>2, NoneDiffers
    <3>4. QED
      BY <2>1, <2>3, <3>1, <3>2, <3>3 DEF PoseInv, PoseKept, Pull
  <2>4. QED
    BY <2>2, <2>3
<1>12. ASSUME UNCHANGED <<mode, epoch, accepted, pose, session>>  PROVE PoseInv'
  BY <1>12 DEF PoseInv, PoseKept, Pull
<1>13. CASE RefusePoisoned \/ RefuseSend \/ RefusePacket \/ Receive \/ Drain \/ ReceiveQueued
            \/ ReturnStatus \/ Panic \/ OuterPanic
  BY <1>12, <1>13 DEF RefusePoisoned, RefuseSend, RefusePacket, Receive, Drain, ReceiveQueued,
                      ReturnStatus, Panic, OuterPanic, orientation
<1>14. CASE NotJoc \/ NeedMore \/ RefuseBytes \/ RefuseStamp \/ LoseJoc \/ RouteAway \/ CreateFails
            \/ Idle \/ EndAgain
  BY <1>12, <1>14 DEF NotJoc, NeedMore, RefuseBytes, RefuseStamp, LoseJoc, RouteAway, CreateFails,
                      Idle, EndAgain, orientation
<1>15. CASE \E n \in 1 .. MaxPacket, w \in Offsets, base \in TimeBases : Send(n, w, base)
  BY <1>12, <1>15 DEF Send, orientation
<1>16. CASE UNCHANGED vars
  BY <1>12, <1>16 DEF vars, orientation
<1>17. QED
  BY <1>4, <1>7, <1>9, <1>10, <1>11, <1>13, <1>14, <1>15, <1>16 DEF Next, Pump, Return

-----------------------------------------------------------------------------
(* Bytes *)

\* The steps that neither reset, nor stage a packet, nor end the staging of bytes.
Aside ==
  /\ UNCHANGED <<at, start, pushed, segment, stamped>>
  /\ bridge'.staging = bridge.staging /\ bridge'.boundaries = bridge.boundaries
  /\ bridge'.classification = "other" <=> bridge.classification = "other"
  /\ failed => failed'
  /\ bridge'.timeline = bridge.timeline \/ failed'

LEMMA AsideSteps ==
  ASSUME TypeInv, [Next]_vars,
         ~Flush, ~RouteAway, ~PushUnit,
         \A n \in 1 .. MaxPacket, w \in Offsets, base \in TimeBases : ~Send(n, w, base),
         \A m \in Bytes, n \in 1 .. MaxPacket, w \in Offsets, base \in TimeBases :
           ~SendDiscontinuity(m, n, w, base)
  PROVE  Aside
<1>1. bridge \in Bridges
  BY DEF TypeInv, BridgeFits
<1>2. CASE RefusePoisoned \/ RefuseSend \/ RefusePacket \/ Receive \/ OuterPanic \/ Panic \/ ReturnStatus
  BY <1>2 DEF RefusePoisoned, RefuseSend, RefusePacket, Receive, OuterPanic, Panic, ReturnStatus,
              history, Aside
<1>3. CASE ReceiveQueued \/ Drain \/ PumpPending \/ ReturnFrame
  BY <1>1, <1>3 DEF ReceiveQueued, Drain, PumpPending, ReturnFrame, DeliversBlock, Fails, history,
                    Aside, Bridges
<1>4. CASE NotJoc \/ NeedMore \/ Idle \/ EndAgain \/ FailDrain
  BY <1>1, <1>4 DEF NotJoc, NeedMore, Idle, EndAgain, FailDrain, Fails, history, Aside, Bridges
<1>5. CASE RefuseBytes \/ LoseJoc
  BY <1>1, <1>5 DEF RefuseBytes, LoseJoc, Assembling, Fails, Aside, Bridges
<1>6. CASE RefuseStamp
  BY <1>1, <1>6 DEF RefuseStamp, Admitted, Assembling, Fails, Aside, Bridges
<1>7. CASE CreateFails \/ PushRefused \/ PushMissed \/ PushLate
  <2>1. /\ bridge' = Resolved /\ failed' = TRUE /\ bridge.classification # "other"
        /\ UNCHANGED <<at, start, pushed, segment, stamped>>
    BY <1>7 DEF CreateFails, PushRefused, PushMissed, PushLate, PushCommon, Pushing, Assembling, Fails
  <2>2. /\ Resolved.staging = bridge.staging /\ Resolved.boundaries = bridge.boundaries
        /\ Resolved.classification # "other"
    BY <1>1, <2>1 DEF Resolved, Admitted, Bridges
  <2>3. QED
    BY <2>1, <2>2 DEF Aside
<1>8. CASE DrainOwned \/ DrainPull
  <2>1. /\ bridge'.staging = bridge.staging /\ bridge'.boundaries = bridge.boundaries
        /\ bridge'.classification = bridge.classification /\ bridge'.timeline = bridge.timeline
    BY <1>1, <1>8 DEF DrainOwned, DrainPull, EofReached, Bridges
  <2>2. UNCHANGED <<at, start, pushed, segment, stamped, failed>>
    BY <1>8 DEF DrainOwned, DrainPull, history
  <2>3. QED
    BY <2>1, <2>2 DEF Aside
<1>9. ASSUME NEW e \in 0 .. MaxEpoch, NEW n \in 1 .. MaxPose, ApplyPose([epoch |-> e, sequence |-> n])
      PROVE  Aside
  BY <1>9 DEF ApplyPose, history, Aside
<1>10. CASE UNCHANGED vars
  BY <1>10 DEF vars, history, Aside
<1>11. QED
  BY <1>2, <1>3, <1>4, <1>5, <1>6, <1>7, <1>8, <1>9, <1>10 DEF Next, Pump, Return

\* The unit at the front of the staging, when it is whole.
LEMMA FrontUnit ==
  ASSUME TypeInv, BytesInv, Assembling, Complete
  PROVE  /\ First \in Nat /\ First % UnitBytes = 0
         /\ start % UnitBytes = 0
         /\ Unit = First \div UnitBytes /\ Unit = (start \div UnitBytes) + Len(pushed)
         /\ UnitBytes <= at - First /\ bridge.staging = Packet(First, at - First)
<1>1. /\ start \in Nat /\ at \in Nat /\ Len(pushed) \in Nat /\ UnitBytes \in Nat \ {0}
  BY LenProperties, Numbers DEF TypeInv
<1>2. UnitBytes * Len(pushed) \in Nat
  BY <1>1
<1>3. First \in Nat
  BY <1>1, <1>2 DEF First
<1>4. First <= at /\ bridge.staging = Packet(First, at - First) /\ bridge.staging # <<>>
  BY DEF Assembling, BytesInv
<1> DEFINE n == at - First
<1>5. n \in Nat /\ First \in Int
  BY <1>1, <1>3, <1>4
<1> HIDE DEF n
<1>6. /\ Packet(First, n) \in Seq(Int) /\ Len(Packet(First, n)) = n
      /\ \A i \in 1 .. n : Packet(First, n)[i] = First + i - 1
  BY <1>5, PacketProperties
<1>7. bridge.staging = Packet(First, n) /\ UnitBytes <= Len(bridge.staging) /\ Len(bridge.staging) = n
  BY <1>4, <1>6, CompleteType DEF n
<1>8. Head(bridge.staging) = First
  <2>1. 1 \in 1 .. n
    BY <1>1, <1>5, <1>7
  <2>2. bridge.staging[1] = First
    BY <1>3, <1>6, <1>7, <2>1
  <2>3. Head(bridge.staging) = bridge.staging[1]
    BY <1>4, <1>6, <1>7
  <2>4. QED
    BY <2>2, <2>3
<1>9. First % UnitBytes = 0 /\ Unit = First \div UnitBytes
  BY <1>8 DEF Complete, Aligned, Unit
<1>10. /\ First \div UnitBytes = (start \div UnitBytes) + Len(pushed)
       /\ First % UnitBytes = start % UnitBytes
  BY <1>1, UnitsFurther DEF First
<1>11. QED
  BY <1>3, <1>4, <1>7, <1>9, <1>10 DEF n

\* What the session takes leaves the staging, and the rest stays.
LEMMA PushEffect ==
  ASSUME TypeInv, BytesInv, PushUnit
  PROVE  /\ pushed \in Seq(Entries) /\ Len(pushed) \in Nat
         /\ Len(pushed') = Len(pushed) + 1
         /\ pushed'[Len(pushed) + 1] = [unit |-> Unit, pts |-> Pts]
         /\ \A i \in 1 .. Len(pushed) : pushed'[i] = pushed[i]
         /\ UNCHANGED <<at, start, segment, stamped, failed>>
         /\ First' = First + UnitBytes
         /\ bridge'.staging = SubSeq(bridge.staging, UnitBytes + 1, Len(bridge.staging))
         /\ bridge'.boundaries = Shifted(bridge.boundaries)
         /\ bridge'.timeline = NextTimeline
         /\ bridge.classification # "other" /\ bridge'.classification # "other"
         /\ bridge'.drainRequested = bridge.drainRequested
         /\ bridge'.sessionDrained = bridge.sessionDrained
<1>1. Assembling /\ Complete /\ StampAgrees /\ UNCHANGED <<at, start, segment, stamped, failed>>
  BY DEF PushUnit, Pushing, PushCommon
<1>2. Unit \in Units /\ UnitBytes <= Len(bridge.staging)
  BY <1>1, CompleteType
<1>3. pushed \in Seq(Entries) /\ Len(pushed) \in Nat
  BY LenProperties DEF TypeInv
<1>4. [unit |-> Unit, pts |-> Pts] \in Entries
  BY <1>2, PtsType DEF Entries
<1>5. pushed' = Append(pushed, [unit |-> Unit, pts |-> Pts])
  BY DEF PushUnit
<1>6. /\ Len(pushed') = Len(pushed) + 1
      /\ pushed'[Len(pushed) + 1] = [unit |-> Unit, pts |-> Pts]
      /\ \A i \in 1 .. Len(pushed) : pushed'[i] = pushed[i]
  BY <1>3, <1>4, <1>5, AppendProperties
<1>7. First' = First + UnitBytes
  <2>1. UnitBytes * (Len(pushed) + 1) = UnitBytes * Len(pushed) + UnitBytes
    BY <1>3, Numbers
  <2>2. UnitBytes * Len(pushed) \in Nat /\ start \in Nat /\ UnitBytes \in Nat
    BY <1>3, Numbers DEF TypeInv
  <2>3. First' = start + UnitBytes * (Len(pushed) + 1)
    BY <1>1, <1>6 DEF First
  <2>4. QED
    BY <2>1, <2>2, <2>3 DEF First
<1>8. bridge \in Bridges /\ bridge.classification # "other"
  BY <1>1 DEF TypeInv, BridgeFits, Assembling
<1>9. /\ Resolved \in Bridges /\ Resolved.staging = bridge.staging
      /\ Resolved.boundaries = bridge.boundaries /\ Resolved.timeline = NextTimeline
      /\ Resolved.classification # "other"
      /\ Resolved.drainRequested = bridge.drainRequested
      /\ Resolved.sessionDrained = bridge.sessionDrained
  <2>1. Resolved \in Bridges
    BY <1>1, ResolvedType DEF BridgeFits
  <2>2. QED
    BY <1>8, <2>1 DEF Resolved, Admitted, Bridges
<1> DEFINE b == Consumed(Resolved)
<1>10. /\ b \in Bridges /\ b.staging = SubSeq(bridge.staging, UnitBytes + 1, Len(bridge.staging))
       /\ b.boundaries = Shifted(bridge.boundaries) /\ b.timeline = NextTimeline
       /\ b.classification # "other"
       /\ b.drainRequested = bridge.drainRequested /\ b.sessionDrained = bridge.sessionDrained
  BY <1>2, <1>9, ConsumedType
<1>11. bridge' = b \/ \E q : bridge' = [b EXCEPT !.output = q]
  BY DEF PushUnit, TakeBytes
<1> HIDE DEF b
<1>12. /\ bridge'.staging = b.staging /\ bridge'.boundaries = b.boundaries
       /\ bridge'.timeline = b.timeline /\ bridge'.classification = b.classification
       /\ bridge'.drainRequested = b.drainRequested /\ bridge'.sessionDrained = b.sessionDrained
  BY <1>10, <1>11 DEF Bridges
<1>13. QED
  BY <1>1, <1>3, <1>6, <1>7, <1>8, <1>10, <1>12

LEMMA NoBytes ==
  ASSUME NEW m \in Int
  PROVE  Packet(m, 0) = <<>>
<1>1. Len(Packet(m, 0)) = 0 /\ Packet(m, 0) \in Seq(Int)
  BY PacketProperties
<1>2. QED
  BY <1>1, EmptySeq

\* A reset alone, and a reset with the packet that comes after it.
Cleared ==
  at' = start' /\ bridge' = Fresh /\ stamped' = {} /\ call' = call /\ outcome' = outcome

Restarted(n, w, base) ==
  /\ at' = start' + n
  /\ bridge'.staging = Packet(start', n)
  /\ bridge'.boundaries = {[offset |-> 0, stamp |-> PacketStamp(start', w, base)]}
  /\ stamped' = StampsAt(start', w)
  /\ ~poisoned' /\ call' = "send" /\ outcome' = outcome

LEMMA ResetEffect ==
  ASSUME TypeInv,
         Flush \/ \E m \in Bytes, n \in 1 .. MaxPacket, w \in Offsets, base \in TimeBases :
                    SendDiscontinuity(m, n, w, base)
  PROVE  /\ pushed' = <<>> /\ received' = <<>> /\ First' = start' /\ start' \in Nat /\ at' \in Nat
         /\ ResetEngine /\ mode' = mode
         /\ bridge'.output = <<>> /\ bridge'.classification = "unknown"
         /\ bridge'.drainRequested = FALSE /\ bridge'.sessionDrained = FALSE
         /\ \/ Cleared
            \/ \E n \in 1 .. MaxPacket, w \in Offsets, base \in TimeBases : Restarted(n, w, base)
<1>1. /\ pushed' = <<>> /\ received' = <<>> /\ ResetEngine /\ mode' = mode
  BY DEF Flush, SendDiscontinuity, NewSegment
<1>2. start' \in Nat /\ at' \in Nat
  <2>1. CASE Flush
    BY <2>1, Numbers DEF Flush, Bytes
  <2>2. ASSUME NEW m \in Bytes, NEW n \in 1 .. MaxPacket, NEW w \in Offsets, NEW base \in TimeBases,
               SendDiscontinuity(m, n, w, base)
        PROVE  start' \in Nat /\ at' \in Nat
    <3>1. m \in Nat
      BY Numbers DEF Bytes
    <3>2. start' = m /\ at' \in {m, m + n}
      BY <2>2 DEF SendDiscontinuity
    <3>3. QED
      BY <3>1, <3>2
  <2>3. QED
    BY <2>1, <2>2
<1>3. First' = start'
  <2>1. Len(pushed') = 0
    BY <1>1, EmptySeq
  <2>2. UnitBytes * 0 = 0
    BY Numbers
  <2>3. QED
    BY <1>2, <2>1, <2>2 DEF First
<1>4. Cleared => /\ bridge'.output = <<>> /\ bridge'.classification = "unknown"
                 /\ bridge'.drainRequested = FALSE /\ bridge'.sessionDrained = FALSE
  BY DEF Cleared, Fresh
<1>5. ASSUME NEW m \in Bytes, NEW n \in 1 .. MaxPacket, NEW w \in Offsets, NEW base \in TimeBases,
             bridge' = Staged(Fresh, Packet(m, n), PacketStamp(m, w, base))
      PROVE  /\ bridge'.staging = Packet(m, n)
             /\ bridge'.boundaries = {[offset |-> 0, stamp |-> PacketStamp(m, w, base)]}
             /\ bridge'.output = <<>> /\ bridge'.classification = "unknown"
             /\ bridge'.drainRequested = FALSE /\ bridge'.sessionDrained = FALSE
  <2>1. /\ bridge'.staging = Fresh.staging \o Packet(m, n)
        /\ bridge'.boundaries = Fresh.boundaries \cup
                                  {[offset |-> Len(Fresh.staging), stamp |-> PacketStamp(m, w, base)]}
        /\ bridge'.output = Fresh.output /\ bridge'.classification = Fresh.classification
        /\ bridge'.drainRequested = Fresh.drainRequested
        /\ bridge'.sessionDrained = Fresh.sessionDrained
    BY <1>5, FreshType, StagedFields
  <2>2. m \in Int /\ n \in Nat
    BY Numbers DEF Bytes
  <2>3. Packet(m, n) \in Seq(Int)
    BY <2>2, PacketProperties
  <2>4. <<>> \o Packet(m, n) = Packet(m, n)
    BY <2>3, ConcatEmptySeq
  <2>5. QED
    BY <2>1, <2>4 DEF Fresh
<1>6. Flush => Cleared
  BY DEF Flush, Flushed, calling, Cleared
<1>7. ASSUME NEW m \in Bytes, NEW n \in 1 .. MaxPacket, NEW w \in Offsets, NEW base \in TimeBases,
             SendDiscontinuity(m, n, w, base)
      PROVE  /\ start' = m
             /\ \/ Cleared
                \/ /\ at' = m + n
                   /\ bridge' = Staged(Fresh, Packet(m, n), PacketStamp(m, w, base))
                   /\ stamped' = StampsAt(m, w)
                   /\ ~poisoned' /\ call' = "send" /\ outcome' = outcome
  BY <1>7 DEF SendDiscontinuity, Cleared
<1> DEFINE Fields == /\ bridge'.output = <<>> /\ bridge'.classification = "unknown"
                     /\ bridge'.drainRequested = FALSE /\ bridge'.sessionDrained = FALSE
<1>8. ASSUME NEW m \in Bytes, NEW n \in 1 .. MaxPacket, NEW w \in Offsets, NEW base \in TimeBases,
             SendDiscontinuity(m, n, w, base), ~Cleared
      PROVE  Fields /\ Restarted(n, w, base)
  <2>1. /\ at' = m + n /\ start' = m
        /\ bridge' = Staged(Fresh, Packet(m, n), PacketStamp(m, w, base))
        /\ stamped' = StampsAt(m, w)
        /\ ~poisoned' /\ call' = "send" /\ outcome' = outcome
    BY <1>7, <1>8
  <2>2. QED
    BY <1>5, <2>1 DEF Restarted
<1> HIDE DEF Fields
<1>9. Fields /\ (Cleared \/ \E n \in 1 .. MaxPacket, w \in Offsets, base \in TimeBases :
                             Restarted(n, w, base))
  <2>1. CASE Cleared
    BY <1>4, <2>1 DEF Fields
  <2>2. CASE ~Cleared
    BY <1>6, <1>8, <2>2
  <2>3. QED
    BY <2>1, <2>2
<1>10. QED
  BY <1>1, <1>2, <1>3, <1>9 DEF Fields

\* A packet is appended to what is staged.
LEMMA SendEffect ==
  ASSUME TypeInv, BytesInv, NEW n \in 1 .. MaxPacket, NEW w \in Offsets, NEW base \in TimeBases,
         Send(n, w, base)
  PROVE  /\ UNCHANGED <<start, pushed, segment, failed, session, received, poisoned, mode>>
         /\ First \in Nat /\ First' = First
         /\ at' = at + n /\ stamped' = stamped \cup StampsAt(at, w)
         /\ First <= at /\ at \in Nat /\ Len(bridge.staging) = at - First
         /\ bridge.classification # "other" /\ bridge'.classification = bridge.classification
         /\ bridge'.staging = Packet(First, at' - First)
         /\ bridge'.boundaries = bridge.boundaries \cup
                                   {[offset |-> at - First, stamp |-> PacketStamp(at, w, base)]}
         /\ bridge'.output = bridge.output /\ bridge'.timeline = bridge.timeline
         /\ bridge'.drainRequested = bridge.drainRequested
         /\ bridge'.sessionDrained = bridge.sessionDrained
<1>1. /\ UNCHANGED <<start, pushed, segment, failed, session, received, poisoned, mode>>
      /\ at' = at + n /\ stamped' = stamped \cup StampsAt(at, w)
      /\ bridge' = Staged(bridge, Packet(at, n), PacketStamp(at, w, base))
      /\ bridge.classification # "other"
  BY DEF Send, MaySend
<1>2. start \in Nat /\ at \in Nat /\ bridge \in Bridges /\ Len(pushed) \in Nat
  BY LenProperties DEF TypeInv, BridgeFits
<1>3. First \in Nat
  <2>1. UnitBytes * Len(pushed) \in Nat
    BY <1>2, Numbers
  <2>2. QED
    BY <1>2, <2>1 DEF First
<1>4. First' = First
  BY <1>1 DEF First
<1> DEFINE k == at - First
<1>5. First <= at /\ bridge.staging = Packet(First, at - First)
  BY <1>1 DEF BytesInv
<1>6. k \in Nat /\ First + k = at /\ at' - First = k + n /\ n \in Nat /\ First \in Int
  BY <1>1, <1>2, <1>3, <1>5
<1>7. bridge.staging = Packet(First, k)
  BY <1>5
<1>8. at - First = k
  OBVIOUS
<1> HIDE DEF k
<1>9. Len(bridge.staging) = k
  BY <1>6, <1>7, PacketProperties
<1>10. bridge.staging \o Packet(at, n) = Packet(First, k + n)
  <2>1. Packet(First, k) \o Packet(First + k, n) = Packet(First, k + n)
    BY <1>6, PacketJoin
  <2>2. QED
    BY <1>6, <1>7, <2>1
<1>11. /\ bridge'.staging = bridge.staging \o Packet(at, n)
       /\ bridge'.boundaries = bridge.boundaries \cup
                       {[offset |-> Len(bridge.staging), stamp |-> PacketStamp(at, w, base)]}
       /\ bridge'.output = bridge.output /\ bridge'.classification = bridge.classification
       /\ bridge'.timeline = bridge.timeline
       /\ bridge'.drainRequested = bridge.drainRequested
       /\ bridge'.sessionDrained = bridge.sessionDrained
  <2>1. bridge \in Bridges /\ bridge' = Staged(bridge, Packet(at, n), PacketStamp(at, w, base))
    BY <1>1, <1>2
  <2>2. QED
    BY <2>1, StagedFields
<1>12. bridge'.boundaries = bridge.boundaries \cup
                               {[offset |-> at - First, stamp |-> PacketStamp(at, w, base)]}
  BY <1>8, <1>9, <1>11
<1>13. QED
  BY <1>1, <1>2, <1>3, <1>4, <1>5, <1>6, <1>8, <1>9, <1>10, <1>11, <1>12

\* The state in which nothing has been pushed since the reset.
LEMMA EmptyBytes ==
  ASSUME pushed = <<>>, start \in Nat, at \in Nat, NEW n \in Nat, at = start + n,
         bridge.staging = Packet(start, n)
  PROVE  First = start /\ BytesInv
<1>1. Len(pushed) = 0 /\ UnitBytes * 0 = 0
  BY Numbers, EmptySeq
<1>2. First = start
  BY <1>1 DEF First
<1>3. at - First = n /\ First <= at
  BY <1>2
<1>4. QED
  BY <1>1, <1>2, <1>3 DEF BytesInv

LEMMA InitBytes == Init => BytesInv
<1> SUFFICES ASSUME Init  PROVE BytesInv
  OBVIOUS
<1>1. pushed = <<>> /\ start \in Nat /\ at \in Nat /\ at = start + 0 /\ bridge.staging = <<>>
  BY DEF Init, Fresh
<1>2. bridge.staging = Packet(start, 0)
  BY <1>1, NoBytes
<1>3. QED
  BY <1>1, <1>2, EmptyBytes

LEMMA BytesStep ==
  ASSUME TypeInv, BytesInv, [Next]_vars
  PROVE  BytesInv'
<1>1. CASE Flush \/ \E m \in Bytes, n \in 1 .. MaxPacket, w \in Offsets, base \in TimeBases :
                      SendDiscontinuity(m, n, w, base)
  <2>1. pushed' = <<>> /\ First' = start'
    BY <1>1, ResetEffect
  <2>2. Len(pushed') = 0
    BY <2>1, EmptySeq
  <2> DEFINE m == start'
  <2>3. m \in Nat
    BY <1>1, ResetEffect
  <2>4. ASSUME start' <= at', bridge'.staging = Packet(start', at' - start')
        PROVE  BytesInv'
    BY <2>1, <2>2, <2>4 DEF BytesInv
  <2>5. CASE Cleared
    <3>1. at' = start' /\ bridge'.staging = <<>>
      BY <2>5 DEF Cleared, Fresh
    <3>2. Packet(start', 0) = <<>>
      BY <2>3, NoBytes
    <3>3. m - m = 0 /\ m <= m
      <4> HIDE DEF m
      <4>1. QED
        BY <2>3
    <3>4. QED
      BY <2>4, <3>1, <3>2, <3>3
  <2>6. ASSUME NEW n \in 1 .. MaxPacket, NEW w \in Offsets, NEW base \in TimeBases, Restarted(n, w, base)
        PROVE  BytesInv'
    <3>1. at' = start' + n /\ bridge'.staging = Packet(start', n)
      BY <2>6 DEF Restarted
    <3>2. (m + n) - m = n /\ m <= m + n
      <4> HIDE DEF m
      <4>1. QED
        BY <2>3
    <3>3. QED
      BY <2>4, <3>1, <3>2
  <2>7. \/ Cleared
        \/ \E n \in 1 .. MaxPacket, w \in Offsets, base \in TimeBases : Restarted(n, w, base)
    BY <1>1, ResetEffect
  <2>8. QED
    BY <2>5, <2>6, <2>7
<1>2. ASSUME NEW n \in 1 .. MaxPacket, NEW w \in Offsets, NEW base \in TimeBases, Send(n, w, base)
      PROVE  BytesInv'
  <2>1. /\ UNCHANGED <<start, pushed>> /\ First' = First /\ First \in Nat /\ at \in Nat
        /\ at' = at + n /\ First <= at
        /\ bridge'.staging = Packet(First, at' - First)
    BY <1>2, SendEffect
  <2>2. First' <= at' /\ bridge'.staging = Packet(First', at' - First')
    BY <2>1
  <2>3. QED
    BY <2>1, <2>2 DEF BytesInv
<1>3. CASE RouteAway
  <2>1. /\ bridge' = [bridge EXCEPT !.classification = "other", !.timeline = NextTimeline,
                                    !.staging = <<>>, !.boundaries = {}]
        /\ UNCHANGED <<start, pushed>>
    BY <1>3 DEF RouteAway, history
  <2>2. bridge \in Bridges
    BY DEF TypeInv, BridgeFits
  <2>3. bridge'.classification = "other"
    BY <2>1, <2>2 DEF Bridges
  <2>4. QED
    BY <2>1, <2>3 DEF BytesInv
<1>4. CASE PushUnit
  <2>1. /\ pushed \in Seq(Entries) /\ Len(pushed) \in Nat
        /\ Len(pushed') = Len(pushed) + 1
        /\ pushed'[Len(pushed) + 1] = [unit |-> Unit, pts |-> Pts]
        /\ \A i \in 1 .. Len(pushed) : pushed'[i] = pushed[i]
        /\ UNCHANGED <<at, start>>
        /\ First' = First + UnitBytes
        /\ bridge'.staging = SubSeq(bridge.staging, UnitBytes + 1, Len(bridge.staging))
    BY <1>4, PushEffect
  <2>2. /\ First \in Nat /\ start % UnitBytes = 0 /\ Unit = (start \div UnitBytes) + Len(pushed)
        /\ UnitBytes <= at - First /\ bridge.staging = Packet(First, at - First)
    <3>1. Assembling /\ Complete
      BY <1>4 DEF PushUnit, Pushing
    <3>2. QED
      BY <3>1, FrontUnit
  <2> DEFINE n == at - First
  <2>3. /\ at \in Nat /\ n \in Nat /\ UnitBytes \in 0 .. n
        /\ at' - First' = n - UnitBytes /\ First' <= at' /\ First \in Int
    <3> DEFINE f == First
    <3>1. at \in Nat /\ f \in Nat /\ UnitBytes \in Nat /\ UnitBytes <= at - f
      BY <2>2, Numbers DEF TypeInv
    <3>2. at' = at /\ First' = f + UnitBytes
      BY <2>1
    <3> HIDE DEF f
    <3>3. /\ at - f \in Nat /\ at - (f + UnitBytes) = (at - f) - UnitBytes /\ f + UnitBytes <= at
          /\ UnitBytes \in 0 .. at - f
      BY <3>1
    <3>4. QED
      BY <3>1, <3>2, <3>3 DEF f
  <2>4. bridge.staging = Packet(First, n)
    BY <2>2
  <2> HIDE DEF n
  <2>5. Len(bridge.staging) = n
    BY <2>3, <2>4, PacketProperties
  <2>6. SubSeq(Packet(First, n), UnitBytes + 1, n) = Packet(First + UnitBytes, n - UnitBytes)
    BY <2>3, PacketCut
  <2>7. bridge'.staging = Packet(First', at' - First')
    BY <2>1, <2>3, <2>4, <2>5, <2>6
  <2>8. \A i \in 1 .. Len(pushed') : pushed'[i].unit = (start' \div UnitBytes) + i - 1
    <3> SUFFICES ASSUME NEW i \in 1 .. Len(pushed')
                 PROVE  pushed'[i].unit = (start' \div UnitBytes) + i - 1
      OBVIOUS
    <3>1. CASE i = Len(pushed) + 1
      <4>1. pushed'[i].unit = Unit
        BY <2>1, <3>1
      <4>2. start \div UnitBytes \in Int
        BY Numbers DEF TypeInv
      <4>3. QED
        BY <2>1, <2>2, <3>1, <4>1, <4>2
    <3>2. CASE i # Len(pushed) + 1
      <4>1. i \in 1 .. Len(pushed)
        BY <2>1, <3>2
      <4>2. QED
        BY <2>1, <4>1 DEF BytesInv
    <3>3. QED
      BY <3>1, <3>2
  <2>9. QED
    BY <2>1, <2>2, <2>3, <2>7, <2>8 DEF BytesInv
<1>5. ASSUME Aside  PROVE BytesInv'
  <2>1. First' = First
    BY <1>5 DEF Aside, First
  <2>2. QED
    BY <1>5, <2>1 DEF Aside, BytesInv
<1>6. QED
  BY <1>1, <1>2, <1>3, <1>4, <1>5, AsideSteps

-----------------------------------------------------------------------------
(* Segments *)

LEMMA SegmentQueue ==
  ASSUME NEW n, NEW o \in Seq(Frames), OfSegment(o, n)
  PROVE  /\ OfSegment(<<>>, n)
         /\ o # <<>> => OfSegment(Tail(o), n) /\ Head(o).segment = n
         /\ \A f \in Frames : f.segment = n => OfSegment(Append(o, f), n)
<1>1. OfSegment(<<>>, n)
  BY EmptySeq DEF OfSegment
<1>2. Len(o) \in Nat
  BY LenProperties
<1>3. ASSUME o # <<>>  PROVE OfSegment(Tail(o), n) /\ Head(o).segment = n
  <2>1. /\ Tail(o) \in Seq(Frames) /\ Len(Tail(o)) = Len(o) - 1
        /\ \A i \in 1 .. Len(Tail(o)) : Tail(o)[i] = o[i + 1]
    BY <1>3, HeadTailProperties
  <2>2. Head(o) = o[1] /\ Len(o) # 0
    BY <1>3, EmptySeq
  <2>3. \A i \in 1 .. Len(Tail(o)) : i + 1 \in 1 .. Len(o)
    BY <1>2, <2>1
  <2>4. 1 \in 1 .. Len(o)
    BY <1>2, <2>2
  <2>5. QED
    BY <2>1, <2>2, <2>3, <2>4 DEF OfSegment
<1>4. ASSUME NEW f \in Frames, f.segment = n  PROVE OfSegment(Append(o, f), n)
  <2>1. /\ Len(Append(o, f)) = Len(o) + 1 /\ Append(o, f)[Len(o) + 1] = f
        /\ \A i \in 1 .. Len(o) : Append(o, f)[i] = o[i]
    BY AppendProperties
  <2>2. \A i \in 1 .. Len(o) + 1 : i \in 1 .. Len(o) \/ i = Len(o) + 1
    BY <1>2
  <2>3. QED
    BY <1>4, <2>1, <2>2 DEF OfSegment
<1>5. QED
  BY <1>1, <1>3, <1>4

LEMMA SegmentJoin ==
  ASSUME NEW n, NEW o \in Seq(Frames), NEW q \in Seq(Frames), OfSegment(o, n), OfSegment(q, n)
  PROVE  OfSegment(o \o q, n)
<1>1. /\ Len(o \o q) = Len(o) + Len(q)
      /\ \A i \in 1 .. Len(o) + Len(q) : (o \o q)[i] = IF i <= Len(o) THEN o[i] ELSE q[i - Len(o)]
  BY ConcatProperties
<1>2. Len(o) \in Nat /\ Len(q) \in Nat
  BY LenProperties
<1>3. ASSUME NEW i \in 1 .. Len(o) + Len(q)  PROVE (o \o q)[i].segment = n
  <2>1. CASE i <= Len(o)
    <3>1. i \in 1 .. Len(o)
      BY <1>2, <2>1
    <3>2. QED
      BY <1>1, <2>1, <3>1 DEF OfSegment
  <2>2. CASE i > Len(o)
    <3>1. i - Len(o) \in 1 .. Len(q) /\ ~(i <= Len(o))
      BY <1>2, <2>2
    <3>2. (o \o q)[i] = q[i - Len(o)]
      BY <1>1, <3>1
    <3>3. QED
      BY <3>1, <3>2 DEF OfSegment
  <2>3. i <= Len(o) \/ i > Len(o)
    BY <1>2
  <2>4. QED
    BY <2>1, <2>2, <2>3
<1>4. QED
  BY <1>1, <1>3 DEF OfSegment

LEMMA SegmentStep ==
  ASSUME TypeInv, SegmentInv, [Next]_vars
  PROVE  SegmentInv'
<1>1. /\ session \in Option(Sessions) /\ bridge \in Bridges /\ bridge.output \in Seq(Frames)
      /\ segment \in 0 .. MaxSegment
      /\ OfSegment(bridge.output, segment) /\ OfSegment(<<>>, segment) /\ OfSegment(<<>>, segment')
  BY EmptySeq DEF TypeInv, BridgeFits, Bridges, SegmentInv, OfSegment
<1>2. session # None => /\ session \in Sessions /\ session.blocks \in Seq(Frames)
                        /\ OfSegment(session.blocks, segment)
  BY <1>1 DEF Option, Sessions, SegmentInv
<1>3. session # None => Closed(session).blocks = <<>>
  BY <1>2 DEF Closed, Sessions
<1>4. CASE Flush \/ \E m \in Bytes, n \in 1 .. MaxPacket, w \in Offsets, base \in TimeBases :
                      SendDiscontinuity(m, n, w, base)
  <2>1. bridge'.output = <<>> /\ ResetEngine
    BY <1>4, ResetEffect
  <2>2. session' # None => session'.blocks = <<>>
    BY <1>3, <2>1 DEF ResetEngine, NewSession
  <2>3. QED
    BY <1>1, <2>1, <2>2 DEF SegmentInv
<1>5. ASSUME NEW n \in 1 .. MaxPacket, NEW w \in Offsets, NEW base \in TimeBases, Send(n, w, base)
      PROVE  SegmentInv'
  <2>1. bridge' = Staged(bridge, Packet(at, n), PacketStamp(at, w, base)) /\ UNCHANGED <<session, segment>>
    BY <1>5 DEF Send
  <2>2. bridge'.output = bridge.output
    BY <1>1, <2>1, StagedFields
  <2>3. QED
    BY <2>1, <2>2 DEF SegmentInv
<1>6. CASE ReceiveQueued \/ ReturnFrame
  <2>1. bridge.output # <<>> => OfSegment(Tail(bridge.output), segment)
    BY <1>1, SegmentQueue
  <2>2. session # None /\ session.blocks # <<>> => OfSegment(Tail(session.blocks), segment)
    BY <1>2, SegmentQueue
  <2>3. bridge.output # <<>> /\ bridge' = [bridge EXCEPT !.output = Tail(@)] =>
          bridge'.output = Tail(bridge.output)
    BY <1>1 DEF Bridges
  <2>4. session # None /\ session' = [session EXCEPT !.blocks = Tail(@), !.tail = TailPieces] =>
          session'.blocks = Tail(session.blocks)
    BY <1>2 DEF Sessions
  <2>5. CASE ReceiveQueued
    BY <2>1, <2>3, <2>5 DEF ReceiveQueued, SegmentInv
  <2>6. CASE ReturnFrame
    BY <1>1, <1>3, <2>1, <2>2, <2>3, <2>4, <2>6 DEF ReturnFrame, SegmentInv, PendingInput
  <2>7. QED
    BY <1>6, <2>5, <2>6
<1>7. CASE PumpPending
  <2>1. /\ session \in Sessions /\ session.blocks \in Seq(Frames) /\ session.blocks # <<>>
        /\ session # None /\ segment' = segment
    BY <1>2, <1>7 DEF PumpPending, PendingInput
  <2>2. CASE DeliversBlock
    <3>1. /\ Head(session.blocks).segment = segment /\ Head(session.blocks) \in Frames
          /\ OfSegment(Tail(session.blocks), segment)
      BY <1>2, <1>7, <2>1, SegmentQueue, QueueType DEF PumpPending, PendingInput
    <3>2. OfSegment(Append(bridge.output, Head(session.blocks)), segment)
      BY <1>1, <3>1, SegmentQueue
    <3>3. /\ bridge'.output = Append(bridge.output, Head(session.blocks))
          /\ session'.blocks = Tail(session.blocks)
      BY <1>1, <2>1, <2>2 DEF DeliversBlock, Bridges, Sessions
    <3>4. QED
      BY <2>1, <3>1, <3>2, <3>3 DEF SegmentInv
  <2>3. CASE session' = Closed(session) /\ bridge' = bridge
    <3>1. session'.blocks = <<>>
      BY <1>3, <2>1, <2>3
    <3>2. QED
      BY <1>1, <2>1, <2>3, <3>1 DEF SegmentInv
  <2>4. QED
    BY <1>7, <2>2, <2>3 DEF PumpPending
<1>8. /\ Target \in Sessions /\ Target.blocks \in Seq(Frames) /\ OfSegment(Target.blocks, segment)
  BY <1>1, <1>2, TargetType DEF Target, NewSession, Sessions
<1>9. Resolved.output = bridge.output
  BY <1>1 DEF Resolved, Admitted, Bridges
<1>10. CASE PushRefused
  <2>1. Anchored(Target) \in Sessions /\ Anchored(Target).blocks = Target.blocks
    BY <1>8, AnchoredType
  <2>2. session'.blocks = Target.blocks /\ bridge' = Resolved /\ segment' = segment
    BY <1>10, <2>1 DEF PushRefused, PushCommon, Sessions
  <2>3. QED
    BY <1>1, <1>8, <1>9, <2>2 DEF SegmentInv
<1>11. ASSUME Pushing, Decodes(Target)
       PROVE  Taken(Target) \in Sessions /\ Taken(Target).blocks = Target.blocks
  <2>1. Unit \in Units /\ Target.next < MaxDecoded
    BY <1>11, CompleteType DEF Pushing, Decodes
  <2>2. QED
    BY <1>8, <2>1, TakenType
<1>12. CASE PushMissed \/ PushLate
  <2>1. Taken(Target) \in Sessions /\ Taken(Target).blocks = Target.blocks
    BY <1>11, <1>12 DEF PushMissed, PushLate
  <2>2. session'.blocks = Target.blocks /\ bridge' = Resolved /\ segment' = segment
    BY <1>12, <2>1 DEF PushMissed, PushLate, PushCommon, Sessions
  <2>3. QED
    BY <1>1, <1>8, <1>9, <2>2 DEF SegmentInv
<1>13. ASSUME NEW u \in Option(Units)
       PROVE  FramesOf(u) \in Seq(Frames) /\ OfSegment(FramesOf(u), segment)
  <2> DEFINE q == FramesOf(u)
  <2>1. /\ q \in Seq(Frames)
        /\ \A i \in 1 .. Len(q) : q[i] = [segment |-> segment, unit |-> u, piece |-> i]
    BY <1>1, FramesType
  <2> HIDE DEF q
  <2>2. ASSUME NEW i \in 1 .. Len(q)  PROVE q[i].segment = segment
    <3>1. q[i] = [segment |-> segment, unit |-> u, piece |-> i]
      BY <2>1, Zenon
    <3>2. QED
      BY <3>1
  <2>3. q \in Seq(Frames) /\ OfSegment(q, segment)
    BY <2>1, <2>2 DEF OfSegment
  <2>4. QED
    BY <2>3 DEF q
<1>14. CASE PushUnit
  <2> DEFINE t == Taken(Target)
             frames == FramesOf(t.held)
             b == Consumed(Resolved)
  <2>1. t \in Sessions /\ t.held \in Option(Units)
    BY <1>11, <1>14 DEF PushUnit, Sessions
  <2>2. OfSegment(frames, segment) /\ frames \in Seq(Frames)
    BY <1>13, <2>1
  <2>3. b.output = bridge.output
    BY <1>9 DEF Consumed, Resolved, Admitted, Bridges
  <2>4. Resolved \in Bridges /\ UnitBytes <= Len(Resolved.staging)
    <3>1. StampAgrees /\ Assembling /\ Complete
      BY <1>14 DEF PushUnit, Pushing
    <3>2. Resolved \in Bridges
      BY <3>1, ResolvedType DEF BridgeFits
    <3>3. Resolved.staging = bridge.staging
      BY <1>1 DEF Resolved, Admitted, Bridges
    <3>4. QED
      BY <3>1, <3>2, <3>3, CompleteType
  <2>5. b \in Bridges
    BY <2>4, ConsumedType
  <2>6. /\ session' = [t EXCEPT !.held = Unit, !.blocks = IF Pull THEN frames ELSE <<>>]
        /\ bridge' = IF Pull THEN b ELSE [b EXCEPT !.output = @ \o frames]
        /\ segment' = segment
    BY <1>14 DEF PushUnit, PushCommon, TakeBytes
  <2> HIDE DEF t, frames, b
  <2>7. session'.blocks = IF Pull THEN frames ELSE <<>>
    BY <2>1, <2>6 DEF Sessions
  <2>8. bridge'.output = IF Pull THEN bridge.output ELSE bridge.output \o frames
    BY <2>3, <2>5, <2>6 DEF Bridges
  <2>9. OfSegment(bridge.output \o frames, segment)
    BY <1>1, <2>2, SegmentJoin
  <2>10. QED
    BY <1>1, <2>2, <2>6, <2>7, <2>8, <2>9 DEF SegmentInv
<1>15. CASE DrainOwned
  <2>1. session \in Sessions /\ session.held \in Option(Units) /\ segment' = segment
    BY <1>2, <1>15 DEF DrainOwned, MayDrain, Draining, Sessions, history
  <2> DEFINE tail == IF session.next > 0 /\ TailPieces > 0 THEN <<TailFrame(1)>> ELSE <<>>
  <2>2. tail \in Seq(Frames) /\ OfSegment(tail, segment)
    <3>1. TailFrame(1) \in Frames
      BY <1>1, Numbers, TailFrameType
    <3>2. <<TailFrame(1)>> \in Seq(Frames) /\ OfSegment(<<TailFrame(1)>>, segment)
      BY <3>1 DEF OfSegment, TailFrame
    <3>3. QED
      BY <1>1, <3>2, EmptySeq
  <2> DEFINE frames == FramesOf(session.held) \o tail
  <2>3. frames \in Seq(Frames) /\ OfSegment(frames, segment)
    BY <1>13, <2>1, <2>2, SegmentJoin, ConcatProperties
  <2>4. OfSegment(bridge.output \o frames, segment)
    BY <1>1, <2>3, SegmentJoin
  <2>5. /\ session' = [session EXCEPT !.drained = TRUE, !.held = None]
        /\ bridge' = [bridge EXCEPT !.output = @ \o frames, !.sessionDrained = TRUE]
    BY <1>15 DEF DrainOwned
  <2> HIDE DEF frames
  <2>6. session'.blocks = session.blocks /\ bridge'.output = bridge.output \o frames
    BY <1>1, <2>1, <2>5 DEF Sessions, Bridges
  <2>7. QED
    BY <1>2, <1>15, <2>1, <2>4, <2>6 DEF SegmentInv, DrainOwned, MayDrain, Draining
<1>16. CASE DrainPull
  <2>1. session \in Sessions /\ session.held \in Option(Units) /\ segment' = segment
        /\ session # None
    BY <1>2, <1>16 DEF DrainPull, MayDrain, Draining, Sessions, history
  <2> DEFINE blocks == FramesOf(session.held)
             s == [session EXCEPT !.drained = TRUE, !.held = None]
  <2>2. s \in Sessions /\ s.blocks = session.blocks /\ s.tail = session.tail
    BY <2>1 DEF Sessions, Option
  <2>3. blocks \in Seq(Frames) /\ OfSegment(blocks, segment)
    BY <1>13, <2>1
  <2> HIDE DEF blocks, s
  <2>4. CASE /\ blocks # <<>>
             /\ session' = [s EXCEPT !.blocks = Tail(blocks), !.tail = TailPieces]
             /\ bridge' = [bridge EXCEPT !.output = Append(@, Head(blocks))]
    <3>1. /\ Head(blocks).segment = segment /\ Head(blocks) \in Frames
          /\ OfSegment(Tail(blocks), segment)
      BY <2>3, <2>4, SegmentQueue, QueueType
    <3>2. OfSegment(Append(bridge.output, Head(blocks)), segment)
      BY <1>1, <3>1, SegmentQueue
    <3>3. session'.blocks = Tail(blocks) /\ bridge'.output = Append(bridge.output, Head(blocks))
      BY <1>1, <2>2, <2>4 DEF Bridges, Sessions
    <3>4. QED
      BY <2>1, <3>1, <3>2, <3>3 DEF SegmentInv
  <2>5. CASE /\ s.tail > 0
             /\ session' = [s EXCEPT !.tail = @ - 1]
             /\ bridge' = [bridge EXCEPT !.output = Append(@, TailFrame(Pieces + s.tail))]
    <3>1. s.tail \in 0 .. TailPieces
      BY <2>2 DEF Sessions
    <3>2. Pieces + s.tail \in 1 .. Pieces + TailPieces
      BY <2>5, <3>1, Numbers
    <3>3. TailFrame(Pieces + s.tail) \in Frames /\ TailFrame(Pieces + s.tail).segment = segment
      BY <1>1, <3>2, TailFrameType DEF TailFrame
    <3>4. OfSegment(Append(bridge.output, TailFrame(Pieces + s.tail)), segment)
      BY <1>1, <3>3, SegmentQueue
    <3>5. /\ session'.blocks = session.blocks
          /\ bridge'.output = Append(bridge.output, TailFrame(Pieces + s.tail))
      BY <1>1, <2>2, <2>5 DEF Bridges, Sessions
    <3>6. QED
      BY <1>2, <2>1, <3>4, <3>5 DEF SegmentInv
  <2>6. CASE session' = s /\ bridge' = EofReached(bridge)
    <3>1. bridge'.output = bridge.output
      BY <1>1, <2>6 DEF EofReached, Bridges
    <3>2. QED
      BY <1>1, <1>2, <2>1, <2>2, <2>6, <3>1 DEF SegmentInv
  <2>7. QED
    BY <1>16, <2>4, <2>5, <2>6 DEF DrainPull, s, blocks
<1>17. CASE FailDrain
  BY <1>1, <1>3, <1>17 DEF FailDrain, Draining, SegmentInv
<1>18. ASSUME bridge'.output = bridge.output, UNCHANGED <<session, segment>>
       PROVE  SegmentInv'
  BY <1>18 DEF SegmentInv
<1>19. CASE RefusePoisoned \/ RefuseSend \/ RefusePacket \/ Receive \/ OuterPanic \/ Panic \/ ReturnStatus
             \/ NotJoc \/ NeedMore \/ Idle \/ UNCHANGED vars
  BY <1>18, <1>19 DEF RefusePoisoned, RefuseSend, RefusePacket, Receive, OuterPanic, Panic, ReturnStatus,
                      NotJoc, NeedMore, Idle, vars, history
<1>20. CASE Drain \/ EndAgain
  BY <1>1, <1>18, <1>20 DEF Drain, EndAgain, history, Bridges
<1>21. CASE RefuseBytes \/ LoseJoc
  BY <1>1, <1>18, <1>21 DEF RefuseBytes, LoseJoc, Bridges
<1>22. CASE RefuseStamp
  BY <1>1, <1>18, <1>22 DEF RefuseStamp, Admitted, Bridges
<1>23. CASE RouteAway
  BY <1>1, <1>18, <1>23 DEF RouteAway, Bridges, history
<1>24. CASE CreateFails
  <2>1. bridge' = Resolved /\ UNCHANGED <<session, segment>>
    BY <1>24 DEF CreateFails
  <2>2. QED
    BY <1>9, <1>18, <2>1
<1>25. ASSUME NEW e \in 0 .. MaxEpoch, NEW n \in 1 .. MaxPose, ApplyPose([epoch |-> e, sequence |-> n])
       PROVE  SegmentInv'
  <2>1. /\ bridge' = bridge /\ segment' = segment
        /\ session' = session \/ (session # None /\ session' = [session EXCEPT !.accepted = n])
    BY <1>25 DEF ApplyPose, history
  <2>2. session # None /\ session' = [session EXCEPT !.accepted = n] => session'.blocks = session.blocks
    BY <1>2 DEF Sessions
  <2>3. QED
    BY <1>1, <1>2, <2>1, <2>2 DEF SegmentInv
<1>26. QED
  BY <1>4, <1>5, <1>6, <1>7, <1>10, <1>12, <1>14, <1>15, <1>16, <1>17, <1>19, <1>20, <1>21, <1>22, <1>23,
     <1>24, <1>25 DEF Next, Pump, Return

-----------------------------------------------------------------------------
(* Stamps *)

\* The bytes of a unit, and the units of later bytes.
LEMMA BytesOfUnit ==
  ASSUME NEW d \in Nat \ {0}, NEW f \in Nat, f % d = 0, NEW b \in Nat
  PROVE  /\ b \div d = f \div d => f <= b /\ b < f + d
         /\ f <= b => f \div d <= b \div d
<1> DEFINE q == f \div d
           v == b \div d
           w == b % d
<1>1. q \in Int /\ f = d * q
  <2>1. q \in Int /\ f = d * q + (f % d)
    BY DivisionWithRemainder
  <2>2. d * q \in Int
    BY <2>1
  <2>3. QED
    BY <2>1, <2>2
<1>2. v \in Int /\ w \in 0 .. d - 1 /\ b = d * v + w
  BY DivisionWithRemainder
<1>3. d * q \in Int /\ d * v \in Int
  BY <1>1, <1>2
<1> HIDE DEF q, v, w
<1>4. v = q => f <= b /\ b < f + d
  BY <1>1, <1>2, <1>3
<1>5. ASSUME v < q  PROVE b < f
  <2>1. d * v <= d * q - d
    BY <1>1, <1>2, <1>5, Z3
  <2>2. QED
    BY <1>1, <1>2, <1>3, <2>1
<1>6. f <= b => q <= v
  BY <1>1, <1>2, <1>5
<1>7. QED
  BY <1>4, <1>6 DEF q, v

\* A stamp is read back as the time it was written for.
LEMMA FineStamp ==
  ASSUME FineBases, NEW m \in Nat, NEW w \in Offsets, NEW base \in TimeBases, NEW p \in StampsAt(m, w)
  PROVE  p.byte = m /\ p.stamp = PacketStamp(m, w, base)
<1>1. w # None /\ p = [byte |-> m, stamp |-> TimeAt(m, w)]
  BY DEF StampsAt
<1>2. TimeAt(m, w) \in Int
  BY <1>1, StampType
<1>3. base \in Bases /\ base.num <= base.den
  BY ConstantsAssumption DEF Bases, FineBases
<1>4. PacketStamp(m, w, base) = TimeAt(m, w)
  BY <1>1, <1>2, <1>3, TimestampsSurvive DEF PacketStamp
<1>5. QED
  BY <1>1, <1>4

\* The time of the unit that is pushed is that of every stamped packet that began in it.
LEMMA StampsOfUnit ==
  ASSUME TypeInv, BytesInv, StampInv, Assembling, Complete, StampAgrees,
         NEW p \in stamped, p.byte \div UnitBytes = Unit
  PROVE  Pts = p.stamp
<1>1. First \in Nat /\ First % UnitBytes = 0 /\ Unit = First \div UnitBytes
  BY FrontUnit
<1>2. p \in Stamps /\ p.byte \in Nat /\ p.stamp \in Int /\ p.stamp # None
  <2>1. p \in Stamps
    BY DEF TypeInv
  <2>2. p.byte \in Nat /\ p.stamp \in Int
    BY <2>1 DEF Stamps
  <2>3. QED
    BY <2>1, <2>2, NoneDiffers
<1>3. First <= p.byte /\ p.byte < First + UnitBytes
  BY <1>1, <1>2, Numbers, BytesOfUnit
<1> DEFINE o == p.byte - First
<1>4. o \in Nat /\ o < UnitBytes
  BY <1>1, <1>2, <1>3, Numbers
<1> DEFINE c == [offset |-> o, stamp |-> p.stamp]
<1>5. c \in bridge.boundaries
  BY <1>3 DEF StampInv, Assembling
<1>6. c.offset = o /\ c.stamp = p.stamp
  OBVIOUS
<1> HIDE DEF c, o
<1>7. CASE o = 0
  <2> DEFINE front == {b \in bridge.boundaries : b.offset = 0}
  <2>1. c \in front
    BY <1>5, <1>6, <1>7
  <2>2. \A b \in front : b = c
    <3>1. \A b \in bridge.boundaries : b.offset = c.offset => b = c
      BY <1>5 DEF StampInv, Assembling
    <3>2. QED
      BY <1>6, <1>7, <3>1
  <2>3. Explicit = IF front = {} THEN None ELSE (CHOOSE b \in front : TRUE).stamp
    BY DEF Explicit
  <2> HIDE DEF front
  <2>4. (CHOOSE b \in front : TRUE) = c
    <3>1. (CHOOSE b \in front : TRUE) \in front
      BY <2>1
    <3>2. QED
      BY <2>2, <3>1
  <2>5. Explicit = p.stamp
    BY <1>6, <2>1, <2>3, <2>4
  <2>6. QED
    BY <1>2, <2>5 DEF Pts
<1>8. CASE 0 < o
  <2>1. MiddleAgrees
    BY DEF StampAgrees
  <2>2. c.stamp = Pts
    BY <1>2, <1>4, <1>5, <1>6, <1>8, <2>1 DEF MiddleAgrees
  <2>3. QED
    BY <1>6, <2>2
<1>9. QED
  BY <1>4, <1>7, <1>8

LEMMA InitStamps == Init => StampInv
<1> SUFFICES ASSUME Init  PROVE StampInv
  OBVIOUS
<1>1. stamped = {} /\ bridge.boundaries = {}
  BY DEF Init, Fresh
<1>2. QED
  BY <1>1 DEF StampInv

LEMMA StampStep ==
  ASSUME TypeInv, BytesInv, StampInv, FineBases, [Next]_vars
  PROVE  StampInv'
<1>1. CASE Flush \/ \E m \in Bytes, n \in 1 .. MaxPacket, w \in Offsets, base \in TimeBases :
                      SendDiscontinuity(m, n, w, base)
  <2>1. pushed' = <<>> /\ First' = start'
    BY <1>1, ResetEffect
  <2>2. start' \in Nat
    BY <1>1, ResetEffect
  <2>3. Len(pushed') = 0
    BY <2>1, EmptySeq
  <2>4. CASE Cleared
    <3>1. stamped' = {} /\ bridge'.boundaries = {}
      BY <2>4 DEF Cleared, Fresh
    <3>2. QED
      BY <3>1 DEF StampInv
  <2>5. ASSUME NEW n \in 1 .. MaxPacket, NEW w \in Offsets, NEW base \in TimeBases, Restarted(n, w, base)
        PROVE  StampInv'
    <3> DEFINE m == start'
               c == [offset |-> 0, stamp |-> PacketStamp(m, w, base)]
    <3>1. /\ bridge'.staging = Packet(m, n) /\ bridge'.boundaries = {c} /\ stamped' = StampsAt(m, w)
      BY <2>5 DEF Restarted
    <3>2. m \in Nat /\ First' = m
      BY <2>1, <2>2
    <3> HIDE DEF m
    <3>3. \A p \in stamped' : p.byte = m /\ p.stamp = PacketStamp(m, w, base)
      BY <3>1, <3>2, FineStamp
    <3>4. \A p \in stamped' : m <= p.byte /\ [offset |-> p.byte - m, stamp |-> p.stamp] = c
      <4> SUFFICES ASSUME NEW p \in stamped'
                   PROVE  m <= p.byte /\ [offset |-> p.byte - m, stamp |-> p.stamp] = c
        OBVIOUS
      <4>1. p.byte = m /\ p.stamp = PacketStamp(m, w, base)
        BY <3>3
      <4>2. m - m = 0 /\ m <= m
        BY <3>2
      <4>3. QED
        BY <4>1, <4>2
    <3>5. Len(bridge'.staging) = n /\ 0 < n
      <4>1. m \in Int /\ n \in Nat
        BY <3>2
      <4>2. QED
        BY <3>1, <4>1, PacketProperties
    <3>6. \A b \in bridge'.boundaries : b = c /\ b.offset < Len(bridge'.staging)
      BY <3>1, <3>5
    <3>7. \A b, d \in bridge'.boundaries : b.offset = d.offset => b = d
      BY <3>6
    <3> HIDE DEF c
    <3>8. c \in bridge'.boundaries
      BY <3>1
    <3>9. /\ \A p \in stamped' : m <= p.byte
          /\ \A p \in stamped' : [offset |-> p.byte - m, stamp |-> p.stamp] \in bridge'.boundaries
      BY <3>4, <3>8
    <3>10. QED
      BY <2>3, <3>2, <3>6, <3>7, <3>9 DEF StampInv, m
  <2>6. \/ Cleared
        \/ \E n \in 1 .. MaxPacket, w \in Offsets, base \in TimeBases : Restarted(n, w, base)
    BY <1>1, ResetEffect
  <2>7. QED
    BY <2>4, <2>5, <2>6
<1>2. ASSUME NEW n \in 1 .. MaxPacket, NEW w \in Offsets, NEW base \in TimeBases, Send(n, w, base)
      PROVE  StampInv'
  <2> DEFINE k == at - First
             c == [offset |-> k, stamp |-> PacketStamp(at, w, base)]
  <2>1. /\ UNCHANGED <<start, pushed>> /\ First' = First
        /\ bridge.classification # "other"
        /\ stamped' = stamped \cup StampsAt(at, w)
        /\ bridge'.boundaries = bridge.boundaries \cup {c}
        /\ Len(bridge.staging) = k
    BY <1>2, SendEffect
  <2>2. /\ First \in Nat /\ at \in Nat /\ First <= at /\ start \in Nat
        /\ at' - First = k + n /\ k \in Nat /\ n \in Nat /\ n > 0 /\ First \in Int
    <3>1. at' = at + n /\ First \in Nat /\ at \in Nat /\ First <= at
      BY <1>2, SendEffect
    <3>2. start \in Nat
      BY DEF TypeInv
    <3>3. QED
      BY <3>1, <3>2
  <2>3. bridge'.staging = Packet(First, k + n)
    <3>1. bridge'.staging = Packet(First, at' - First)
      BY <1>2, SendEffect
    <3>2. QED
      BY <2>2, <3>1
  <2>4. \A p \in StampsAt(at, w) : p.byte = at /\ p.stamp = PacketStamp(at, w, base)
    BY <2>2, FineStamp
  <2>5. bridge.boundaries \in SUBSET [offset : Nat, stamp : Option(Int)]
    BY DEF TypeInv, BridgeFits, Bridges
  <2>6. \A p \in StampsAt(at, w) : First <= p.byte /\ [offset |-> p.byte - First, stamp |-> p.stamp] = c
    BY <2>2, <2>4
  <2> HIDE DEF k
  <2>7. Len(bridge'.staging) = k + n
    <3>1. k + n \in Nat
      BY <2>2
    <3>2. QED
      BY <2>2, <2>3, <3>1, PacketProperties
  <2>8. c.offset = k
    OBVIOUS
  <2> HIDE DEF c
  <2>9. \A b \in bridge'.boundaries : b.offset < Len(bridge'.staging)
    <3>1. \A b \in bridge.boundaries : b.offset < k /\ b.offset \in Nat
      BY <2>1, <2>5 DEF StampInv
    <3>2. QED
      BY <2>1, <2>2, <2>7, <2>8, <3>1
  <2>10. \A b, d \in bridge'.boundaries : b.offset = d.offset => b = d
    <3>1. \A b \in bridge.boundaries : b.offset # k
      <4>1. \A b \in bridge.boundaries : b.offset < k /\ b.offset \in Nat
        BY <2>1, <2>5 DEF StampInv
      <4>2. QED
        BY <2>2, <4>1
    <3>2. \A b, d \in bridge.boundaries : b.offset = d.offset => b = d
      BY <2>1 DEF StampInv
    <3>3. QED
      BY <2>1, <2>8, <3>1, <3>2
  <2>11. start <= First
    <3>1. UnitBytes * Len(pushed) \in Nat
      BY LenProperties, Numbers DEF TypeInv
    <3>2. QED
      BY <2>2, <3>1 DEF First
  <2>12. \A p \in stamped' : start <= p.byte
    <3>1. \A p \in stamped : start <= p.byte
      BY DEF StampInv
    <3>2. \A p \in StampsAt(at, w) : start <= p.byte
      BY <2>2, <2>4, <2>11
    <3>3. QED
      BY <2>1, <3>1, <3>2
  <2>13. \A p \in stamped' : p.byte >= First =>
           [offset |-> p.byte - First, stamp |-> p.stamp] \in bridge'.boundaries
    <3>1. \A p \in stamped : p.byte >= First =>
            [offset |-> p.byte - First, stamp |-> p.stamp] \in bridge.boundaries
      BY <2>1 DEF StampInv
    <3>2. QED
      BY <2>1, <2>6, <3>1
  <2>14. \A p \in stamped', i \in 1 .. Len(pushed) :
           pushed[i].unit = p.byte \div UnitBytes => pushed[i].pts = p.stamp
    <3>1. \A p \in stamped, i \in 1 .. Len(pushed) :
            pushed[i].unit = p.byte \div UnitBytes => pushed[i].pts = p.stamp
      BY DEF StampInv
    <3>2. ASSUME NEW i \in 1 .. Len(pushed)  PROVE pushed[i].unit # at \div UnitBytes
      <4>1. start % UnitBytes = 0 /\ pushed[i].unit = (start \div UnitBytes) + i - 1
        BY EmptySeq DEF BytesInv
      <4>2. Len(pushed) \in Nat
        BY LenProperties DEF TypeInv
      <4>3. /\ First \div UnitBytes = (start \div UnitBytes) + Len(pushed)
            /\ First % UnitBytes = 0
        <5>1. start \in Nat /\ UnitBytes \in Nat \ {0}
          BY <2>2, Numbers
        <5>2. /\ (start + UnitBytes * Len(pushed)) \div UnitBytes = (start \div UnitBytes) + Len(pushed)
              /\ (start + UnitBytes * Len(pushed)) % UnitBytes = start % UnitBytes
          BY <4>2, <5>1, UnitsFurther
        <5>3. QED
          BY <4>1, <5>2, Zenon DEF First
      <4>4. First \div UnitBytes <= at \div UnitBytes
        BY <2>2, <4>3, Numbers, BytesOfUnit
      <4>5. start \div UnitBytes \in Int /\ at \div UnitBytes \in Int
        BY <2>2, Numbers
      <4>6. QED
        BY <4>1, <4>2, <4>3, <4>4, <4>5
    <3>3. QED
      BY <2>1, <2>4, <3>1, <3>2
  <2>15. QED
    BY <2>1, <2>9, <2>10, <2>12, <2>13, <2>14 DEF StampInv
<1>3. CASE RouteAway
  <2>1. /\ bridge' = [bridge EXCEPT !.classification = "other", !.timeline = NextTimeline,
                                    !.staging = <<>>, !.boundaries = {}]
        /\ UNCHANGED <<start, pushed, stamped>>
    BY <1>3 DEF RouteAway, history
  <2>2. bridge \in Bridges
    BY DEF TypeInv, BridgeFits
  <2>3. bridge'.classification = "other"
    BY <2>1, <2>2 DEF Bridges
  <2>4. QED
    BY <2>1, <2>3 DEF StampInv
<1>4. CASE PushUnit
  <2>1. Assembling /\ Complete /\ StampAgrees
    BY <1>4 DEF PushUnit, Pushing
  <2>2. /\ pushed \in Seq(Entries) /\ Len(pushed) \in Nat
        /\ Len(pushed') = Len(pushed) + 1
        /\ pushed'[Len(pushed) + 1] = [unit |-> Unit, pts |-> Pts]
        /\ \A i \in 1 .. Len(pushed) : pushed'[i] = pushed[i]
    BY <1>4, PushEffect
  <2>3. /\ UNCHANGED <<at, start, stamped>>
        /\ First' = First + UnitBytes
        /\ bridge'.boundaries = Shifted(bridge.boundaries)
        /\ bridge.classification # "other"
    BY <1>4, PushEffect
  <2>4. bridge'.staging = SubSeq(bridge.staging, UnitBytes + 1, Len(bridge.staging))
    BY <1>4, PushEffect
  <2>5. First \in Nat /\ UnitBytes \in Nat
    BY <2>1, FrontUnit, Numbers
  <2>6. \A p \in stamped : start <= p.byte /\ p.byte \in Nat
    BY DEF StampInv, TypeInv, Stamps
  <2>7. \A p \in stamped', i \in 1 .. Len(pushed') :
          pushed'[i].unit = p.byte \div UnitBytes => pushed'[i].pts = p.stamp
    <3> SUFFICES ASSUME NEW p \in stamped, NEW i \in 1 .. Len(pushed'),
                        pushed'[i].unit = p.byte \div UnitBytes
                 PROVE  pushed'[i].pts = p.stamp
      BY <2>3
    <3>1. CASE i = Len(pushed) + 1
      <4>1. pushed'[i].unit = Unit /\ pushed'[i].pts = Pts
        BY <2>2, <3>1
      <4>2. Pts = p.stamp
        BY <2>1, <4>1, StampsOfUnit
      <4>3. QED
        BY <4>1, <4>2
    <3>2. CASE i # Len(pushed) + 1
      <4>1. i \in 1 .. Len(pushed)
        BY <2>2, <3>2
      <4>2. QED
        BY <2>2, <4>1 DEF StampInv
    <3>3. QED
      BY <3>1, <3>2
  <2>8. /\ bridge.boundaries \in SUBSET [offset : Nat, stamp : Option(Int)]
        /\ bridge.staging \in Seq(Bytes)
    BY DEF TypeInv, BridgeFits, Bridges
  <2>9. ASSUME NEW b \in bridge'.boundaries
        PROVE  \E c \in bridge.boundaries :
                 /\ b = [offset |-> c.offset - UnitBytes, stamp |-> c.stamp]
                 /\ c.offset >= UnitBytes /\ c.offset \in Nat
    <3>1. PICK c \in bridge.boundaries : c.offset >= UnitBytes /\ b = [c EXCEPT !.offset = @ - UnitBytes]
      BY <2>3 DEF Shifted
    <3>2. c \in [offset : Nat, stamp : Option(Int)]
      BY <2>8
    <3>3. b = [offset |-> c.offset - UnitBytes, stamp |-> c.stamp] /\ c.offset \in Nat
      BY <3>1, <3>2
    <3>4. QED
      BY <3>1, <3>3
  <2>10. \A b \in bridge'.boundaries : b.offset < Len(bridge'.staging)
    <3> SUFFICES ASSUME NEW b \in bridge'.boundaries  PROVE b.offset < Len(bridge'.staging)
      OBVIOUS
    <3>1. PICK c \in bridge.boundaries :
            /\ b = [offset |-> c.offset - UnitBytes, stamp |-> c.stamp]
            /\ c.offset >= UnitBytes /\ c.offset \in Nat
      BY <2>9
    <3>2. c.offset < Len(bridge.staging) /\ b.offset = c.offset - UnitBytes
      BY <2>3, <3>1 DEF StampInv
    <3>3. Len(bridge'.staging) = Len(bridge.staging) - UnitBytes
      <4>1. Len(bridge.staging) \in Nat /\ UnitBytes <= Len(bridge.staging)
        BY <2>1, CompleteType
      <4>2. \A i \in UnitBytes + 1 .. Len(bridge.staging) : bridge.staging[i] \in Bytes
        BY <2>5, <2>8, <4>1, ElementOfSeq
      <4>3. Len(SubSeq(bridge.staging, UnitBytes + 1, Len(bridge.staging))) =
              IF UnitBytes + 1 <= Len(bridge.staging) THEN Len(bridge.staging) - (UnitBytes + 1) + 1 ELSE 0
        BY <2>5, <2>8, <4>1, <4>2, SubSeqProperties
      <4>4. QED
        BY <2>4, <2>5, <4>1, <4>3
    <3>4. Len(bridge.staging) \in Nat
      BY <2>8, LenProperties
    <3>5. QED
      BY <2>5, <3>1, <3>2, <3>3, <3>4
  <2>11. \A b, d \in bridge'.boundaries : b.offset = d.offset => b = d
    <3> SUFFICES ASSUME NEW b \in bridge'.boundaries, NEW d \in bridge'.boundaries, b.offset = d.offset
                 PROVE  b = d
      OBVIOUS
    <3>1. PICK c \in bridge.boundaries :
            b = [offset |-> c.offset - UnitBytes, stamp |-> c.stamp] /\ c.offset \in Nat
      BY <2>9
    <3>2. PICK e \in bridge.boundaries :
            d = [offset |-> e.offset - UnitBytes, stamp |-> e.stamp] /\ e.offset \in Nat
      BY <2>9
    <3>3. c.offset - UnitBytes = e.offset - UnitBytes
      BY <3>1, <3>2
    <3>4. c.offset = e.offset
      BY <2>5, <3>1, <3>2, <3>3
    <3>5. c = e
      BY <2>3, <3>4 DEF StampInv
    <3>6. QED
      BY <3>1, <3>2, <3>5
  <2>12. \A p \in stamped : p.byte >= First' =>
           [offset |-> p.byte - First', stamp |-> p.stamp] \in bridge'.boundaries
    <3> SUFFICES ASSUME NEW p \in stamped, p.byte >= First + UnitBytes
                 PROVE  [offset |-> p.byte - (First + UnitBytes), stamp |-> p.stamp] \in bridge'.boundaries
      BY <2>3
    <3> DEFINE c == [offset |-> p.byte - First, stamp |-> p.stamp]
    <3>1. /\ p.byte >= First /\ p.byte - First >= UnitBytes
          /\ (p.byte - First) - UnitBytes = p.byte - (First + UnitBytes)
      BY <2>5, <2>6
    <3>2. c \in bridge.boundaries
      BY <2>3, <3>1 DEF StampInv
    <3>3. c.offset >= UnitBytes
      BY <3>1
    <3>4. [c EXCEPT !.offset = @ - UnitBytes] = [offset |-> p.byte - (First + UnitBytes), stamp |-> p.stamp]
      BY <3>1
    <3> HIDE DEF c
    <3>5. [c EXCEPT !.offset = @ - UnitBytes] \in Shifted(bridge.boundaries)
      BY <3>2, <3>3 DEF Shifted
    <3>6. QED
      BY <2>3, <3>4, <3>5
  <2>13. QED
    BY <2>3, <2>6, <2>7, <2>10, <2>11, <2>12 DEF StampInv
<1>5. ASSUME Aside  PROVE StampInv'
  <2>1. First' = First
    BY <1>5 DEF Aside, First
  <2>2. QED
    BY <1>5, <2>1 DEF Aside, StampInv
<1>6. QED
  BY <1>1, <1>2, <1>3, <1>4, <1>5, AsideSteps

-----------------------------------------------------------------------------
(* Times *)

LEMMA InitRun == Init => RunInv
<1> SUFFICES ASSUME Init  PROVE RunInv
  OBVIOUS
<1>1. pushed = <<>> /\ Len(pushed) = 0
  BY EmptySeq DEF Init
<1>2. QED
  BY <1>1 DEF RunInv, UnitKeepsItsTime

\* The unit that is pushed continues the time of the last one.
LEMMA NextInTime ==
  ASSUME TypeInv, FollowsLast, StampAgrees, pushed[Len(pushed)].pts \in Option(Int)
  PROVE  /\ pushed[Len(pushed)].pts = None => Pts = None
         /\ pushed[Len(pushed)].pts # None => Pts = pushed[Len(pushed)].pts + 1 /\ Pts # None
<1> DEFINE last == pushed[Len(pushed)].pts
<1>1. bridge.timeline = IF last = None THEN [kind |-> "untimed", next |-> 0]
                                       ELSE [kind |-> "timed", next |-> last + 1]
  BY DEF FollowsLast
<1>2. last \in Option(Int)
  OBVIOUS
<1> HIDE DEF last
<1>3. CASE last = None
  <2>1. bridge.timeline.kind = "untimed"
    BY <1>1, <1>3
  <2>2. Explicit = None
    BY <2>1 DEF StampAgrees
  <2>3. QED
    BY <1>3, <2>1, <2>2 DEF Pts, last
<1>4. CASE last # None
  <2>1. bridge.timeline.kind = "timed" /\ bridge.timeline.next = last + 1
    BY <1>1, <1>4
  <2>2. Explicit # None => Explicit = bridge.timeline.next
    BY <2>1 DEF StampAgrees
  <2>3. Pts = last + 1
    BY <2>1, <2>2 DEF Pts
  <2>4. last + 1 \in Int
    BY <1>2, <1>4 DEF Option
  <2>5. QED
    BY <1>4, <2>3, <2>4, NoneDiffers DEF last
<1>5. QED
  BY <1>3, <1>4 DEF last

LEMMA RunStep ==
  ASSUME TypeInv, BytesInv, RunInv, [Next]_vars
  PROVE  RunInv'
<1>1. CASE Flush \/ \E m \in Bytes, n \in 1 .. MaxPacket, w \in Offsets, base \in TimeBases :
                      SendDiscontinuity(m, n, w, base)
  <2>1. pushed' = <<>>
    BY <1>1, ResetEffect
  <2>2. Len(pushed') = 0
    BY <2>1, EmptySeq
  <2>3. QED
    BY <2>1, <2>2 DEF RunInv, UnitKeepsItsTime
<1>2. ASSUME NEW n \in 1 .. MaxPacket, NEW w \in Offsets, NEW base \in TimeBases, Send(n, w, base)
      PROVE  RunInv'
  <2>1. /\ UNCHANGED <<pushed, failed>> /\ bridge'.timeline = bridge.timeline
        /\ bridge'.classification = bridge.classification
    BY <1>2, SendEffect
  <2>2. QED
    BY <2>1 DEF RunInv, UnitKeepsItsTime, FollowsLast
<1>3. CASE RouteAway
  <2>1. /\ bridge' = [bridge EXCEPT !.classification = "other", !.timeline = NextTimeline,
                                    !.staging = <<>>, !.boundaries = {}]
        /\ UNCHANGED <<pushed, failed>>
    BY <1>3 DEF RouteAway, history
  <2>2. bridge'.classification = "other"
    BY <2>1 DEF TypeInv, BridgeFits, Bridges
  <2>3. QED
    BY <2>1, <2>2 DEF RunInv, UnitKeepsItsTime
<1>4. CASE PushUnit
  <2> SUFFICES ASSUME ~failed'  PROVE RunInv'
    BY DEF RunInv
  <2> DEFINE L == Len(pushed)
  <2>1. /\ pushed \in Seq(Entries) /\ L \in Nat
        /\ Len(pushed') = L + 1
        /\ pushed'[L + 1] = [unit |-> Unit, pts |-> Pts]
        /\ \A i \in 1 .. L : pushed'[i] = pushed[i]
    BY <1>4, PushEffect
  <2>2. ~failed /\ bridge'.timeline = NextTimeline /\ bridge.classification # "other"
    BY <1>4, PushEffect
  <2>3. UnitKeepsItsTime /\ (pushed # <<>> => FollowsLast)
    BY <2>2 DEF RunInv
  <2>4. StampAgrees
    BY <1>4 DEF PushUnit, Pushing
  <2>5. Pts \in Option(Int)
    BY PtsType
  <2>6. pushed'[L + 1].pts = Pts
    BY <2>1
  <2>7. FollowsLast'
    BY <2>1, <2>2, <2>6 DEF FollowsLast, NextTimeline
  <2>8. \A i \in 1 .. L : pushed[i].pts \in Option(Int)
    <3> SUFFICES ASSUME NEW i \in 1 .. L  PROVE pushed[i].pts \in Option(Int)
      OBVIOUS
    <3>1. pushed[i] \in Entries
      BY <2>1, ElementOfSeq
    <3>2. QED
      BY <3>1 DEF Entries
  <2>9. \A i, j \in 1 .. L : IF pushed[i].pts = None THEN pushed[j].pts = None
                             ELSE pushed[j].pts # None /\ pushed[j].pts - pushed[i].pts = j - i
    BY <2>3 DEF UnitKeepsItsTime
  <2>10. L # 0 => /\ pushed[L].pts = None => Pts = None
                  /\ pushed[L].pts # None => Pts = pushed[L].pts + 1 /\ Pts # None
    <3> SUFFICES ASSUME L # 0  PROVE /\ pushed[L].pts = None => Pts = None
                                     /\ pushed[L].pts # None => Pts = pushed[L].pts + 1 /\ Pts # None
      OBVIOUS
    <3>1. pushed # <<>> /\ L \in 1 .. L
      BY <2>1, EmptySeq
    <3>2. QED
      BY <2>3, <2>4, <2>8, <3>1, NextInTime
  <2> HIDE DEF L
  <2>11. ASSUME NEW i \in 1 .. L
         PROVE  /\ pushed[i].pts = None <=> Pts = None
                /\ Pts # None => Pts - pushed[i].pts = L + 1 - i
    <3>1. L \in 1 .. L
      BY <2>1
    <3>2. L # 0
      BY <2>1
    <3>3. CASE pushed[i].pts = None
      <4>1. pushed[L].pts = None
        BY <2>9, <3>1, <3>3
      <4>2. QED
        BY <2>10, <3>2, <3>3, <4>1
    <3>4. CASE pushed[i].pts # None
      <4>1. pushed[L].pts # None /\ pushed[L].pts - pushed[i].pts = L - i
        BY <2>9, <3>1, <3>4
      <4>2. pushed[L].pts \in Int /\ pushed[i].pts \in Int
        BY <2>8, <3>1, <3>4, <4>1 DEF Option
      <4>3. Pts = pushed[L].pts + 1 /\ Pts # None
        BY <2>10, <3>2, <4>1
      <4> DEFINE a == pushed[L].pts
                 b == pushed[i].pts
      <4>4. a \in Int /\ b \in Int /\ a - b = L - i /\ L \in Int /\ i \in Int
        BY <2>1, <4>1, <4>2
      <4> HIDE DEF a, b
      <4>5. (a + 1) - b = L + 1 - i
        BY <4>4
      <4>6. QED
        BY <3>4, <4>3, <4>5 DEF a, b
    <3>5. QED
      BY <3>3, <3>4
  <2>12. UnitKeepsItsTime'
    <3> SUFFICES ASSUME NEW i \in 1 .. L + 1, NEW j \in 1 .. L + 1
                 PROVE  IF pushed'[i].pts = None THEN pushed'[j].pts = None
                        ELSE pushed'[j].pts # None /\ pushed'[j].pts - pushed'[i].pts = j - i
      BY <2>1 DEF UnitKeepsItsTime
    <3>1. i \in 1 .. L \/ i = L + 1
      BY <2>1
    <3>2. j \in 1 .. L \/ j = L + 1
      BY <2>1
    <3>3. CASE i \in 1 .. L /\ j \in 1 .. L
      BY <2>1, <2>9, <3>3
    <3>4. CASE i \in 1 .. L /\ j = L + 1
      <4>1. pushed'[i].pts = pushed[i].pts /\ pushed'[j].pts = Pts
        BY <2>1, <2>6, <3>4
      <4>2. CASE Pts = None
        BY <2>11, <3>4, <4>1, <4>2
      <4>3. CASE Pts # None
        <5>1. pushed[i].pts # None /\ Pts - pushed[i].pts = L + 1 - i
          BY <2>11, <3>4, <4>3
        <5> DEFINE b == pushed[i].pts
        <5> HIDE DEF b
        <5>2. b # None /\ Pts - b = j - i
          <6>1. j = L + 1 /\ i \in Int /\ L \in Int
            BY <2>1, <3>4
          <6>2. L + 1 - i = j - i
            BY <6>1
          <6>3. QED
            BY <5>1, <6>2, Zenon DEF b
        <5>3. pushed'[i].pts = b /\ pushed'[j].pts = Pts
          BY <4>1 DEF b
        <5>4. QED
          BY <4>3, <5>2, <5>3
      <4>4. QED
        BY <4>2, <4>3
    <3>5. CASE i = L + 1 /\ j \in 1 .. L
      <4>1. pushed'[i].pts = Pts /\ pushed'[j].pts = pushed[j].pts
        BY <2>1, <2>6, <3>5
      <4>2. CASE Pts = None
        BY <2>11, <3>5, <4>1, <4>2
      <4>3. CASE Pts # None
        <5>1. pushed[j].pts # None /\ Pts - pushed[j].pts = L + 1 - j
          BY <2>11, <3>5, <4>3
        <5>2. Pts \in Int /\ pushed[j].pts \in Int /\ L \in Int /\ j \in Int
          BY <2>1, <2>5, <2>8, <3>5, <4>3, <5>1 DEF Option, L
        <5> DEFINE a == Pts
                   b == pushed[j].pts
        <5>3. a \in Int /\ b \in Int /\ a - b = L + 1 - j
          BY <5>1, <5>2
        <5> HIDE DEF a, b
        <5>4. b - a = j - (L + 1)
          BY <5>2, <5>3
        <5>5. QED
          BY <3>5, <4>1, <4>3, <5>1, <5>4 DEF a, b
      <4>4. QED
        BY <4>2, <4>3
    <3>6. CASE i = L + 1 /\ j = L + 1
      <4>1. Pts # None => Pts - Pts = 0
        BY <2>5 DEF Option
      <4>2. (L + 1) - (L + 1) = 0
        BY <2>1
      <4>3. QED
        BY <2>6, <3>6, <4>1, <4>2
    <3>7. QED
      BY <3>1, <3>2, <3>3, <3>4, <3>5, <3>6
  <2>13. QED
    BY <2>7, <2>12 DEF RunInv
<1>5. ASSUME Aside  PROVE RunInv'
  <2> SUFFICES ASSUME ~failed'  PROVE RunInv'
    BY DEF RunInv
  <2>1. pushed' = pushed /\ (bridge'.classification = "other" <=> bridge.classification = "other")
    BY <1>5 DEF Aside
  <2>2. ~failed /\ bridge'.timeline = bridge.timeline
    BY <1>5 DEF Aside
  <2>3. UnitKeepsItsTime /\ (pushed # <<>> /\ bridge.classification # "other" => FollowsLast)
    BY <2>2 DEF RunInv
  <2>4. UnitKeepsItsTime' <=> UnitKeepsItsTime
    BY <2>1 DEF UnitKeepsItsTime
  <2>5. FollowsLast' <=> FollowsLast
    BY <2>1, <2>2 DEF FollowsLast
  <2>6. QED
    BY <2>1, <2>3, <2>4, <2>5 DEF RunInv
<1>6. QED
  BY <1>1, <1>2, <1>3, <1>4, <1>5, AsideSteps

-----------------------------------------------------------------------------
(* Queues *)

LEMMA InitQueue == Init => QueueInv
  BY DEF Init, Fresh, QueueInv

LEMMA QueueStep ==
  ASSUME TypeInv, BytesInv, QueueInv, [Next]_vars
  PROVE  QueueInv'
<1>1. /\ session \in Option(Sessions) /\ bridge \in Bridges /\ bridge.output \in Seq(Frames)
      /\ Target \in Sessions
  BY TargetType DEF TypeInv, BridgeFits, Bridges
<1>2. session # None => session \in Sessions /\ Closed(session).blocks = <<>>
  BY <1>1 DEF Option, Closed, Sessions
<1>3. ~Pull => Target.blocks = <<>>
  BY DEF QueueInv, Target, NewSession
<1>4. Pumping => call # None /\ ~poisoned /\ bridge.output = <<>>
  BY NoneDiffers DEF Pumping, QueueInv, Outcomes
<1>5. CASE Flush \/ \E m \in Bytes, n \in 1 .. MaxPacket, w \in Offsets, base \in TimeBases :
                      SendDiscontinuity(m, n, w, base)
  <2>1. /\ bridge'.output = <<>> /\ bridge'.sessionDrained = FALSE /\ ResetEngine /\ mode' = mode
    BY <1>5, ResetEffect
  <2>2. call = None /\ outcome = None
    BY <1>5 DEF Flush, SendDiscontinuity, MaySend, QueueInv
  <2>3. ~Pull => session' = None
    BY <2>1 DEF ResetEngine
  <2>4. CASE Cleared
    BY <2>1, <2>2, <2>3, <2>4 DEF Cleared, QueueInv, Pull
  <2>5. ASSUME NEW n \in 1 .. MaxPacket, NEW w \in Offsets, NEW base \in TimeBases, Restarted(n, w, base)
        PROVE  QueueInv'
    <3>1. ~poisoned' /\ call' # None
      <4>1. ~poisoned' /\ call' = "send" /\ "send" \in Calls
        BY <2>5 DEF Restarted, Calls
      <4>2. QED
        BY <4>1, NoneDiffers
    <3>2. QED
      BY <2>1, <2>3, <3>1 DEF QueueInv, Pull
  <2>6. \/ Cleared
        \/ \E n \in 1 .. MaxPacket, w \in Offsets, base \in TimeBases : Restarted(n, w, base)
    BY <1>5, ResetEffect
  <2>7. QED
    BY <2>4, <2>5, <2>6
<1>6. ASSUME NEW n \in 1 .. MaxPacket, NEW w \in Offsets, NEW base \in TimeBases, Send(n, w, base)
      PROVE  QueueInv'
  <2>1. bridge' = Staged(bridge, Packet(at, n), PacketStamp(at, w, base))
    BY <1>6 DEF Send
  <2>2. bridge'.output = bridge.output /\ bridge'.sessionDrained = bridge.sessionDrained
    BY <1>1, <2>1, StagedFields
  <2>3. /\ ~poisoned /\ bridge.output = <<>> /\ ~bridge.sessionDrained
        /\ UNCHANGED <<mode, session, poisoned, outcome>> /\ call = None
        /\ call' = "send" /\ "send" \in Calls
    BY <1>6 DEF Send, MaySend, QueueInv, Calls
  <2>4. call' # None
    BY <2>3, NoneDiffers
  <2>5. QED
    BY <2>2, <2>3, <2>4 DEF QueueInv, Pull
<1>7. CASE RefusePoisoned \/ RefuseSend \/ RefusePacket \/ OuterPanic \/ UNCHANGED vars
  BY <1>7 DEF RefusePoisoned, RefuseSend, RefusePacket, MaySend, OuterPanic, calling, vars, QueueInv, Pull
<1>8. CASE Receive
  BY <1>8 DEF Receive, QueueInv, Pull
<1>9. CASE Drain
  <2>1. /\ bridge'.output = bridge.output /\ bridge'.staging = bridge.staging
        /\ bridge'.drainRequested = TRUE /\ bridge'.sessionDrained = bridge.sessionDrained
    BY <1>1, <1>9 DEF Drain, Bridges
  <2>2. QED
    BY <1>9, <2>1 DEF Drain, QueueInv, Pull
<1>10. CASE ReceiveQueued
  <2>1. /\ bridge'.staging = bridge.staging
        /\ bridge'.drainRequested = bridge.drainRequested
        /\ bridge'.sessionDrained = bridge.sessionDrained
    BY <1>1, <1>10 DEF ReceiveQueued, Bridges
  <2>2. QED
    BY <1>10, <2>1 DEF ReceiveQueued, QueueInv, Pull
<1>11. CASE ReturnStatus \/ Panic
  BY <1>11 DEF ReturnStatus, Panic, Returns, QueueInv, Pull
<1>12. CASE ReturnFrame
  <2>1. /\ bridge'.staging = bridge.staging
        /\ bridge'.drainRequested = bridge.drainRequested
        /\ bridge'.sessionDrained = bridge.sessionDrained
    BY <1>1, <1>12 DEF ReturnFrame, Bridges
  <2>2. mode' = mode /\ call' = None /\ outcome' = None
    BY <1>12 DEF ReturnFrame, Returns
  <2>3. session' = session \/ Pull
    BY <1>12 DEF ReturnFrame, PendingInput
  <2>4. QED
    BY <2>1, <2>2, <2>3 DEF QueueInv, Pull
\* What is left is a step of pump, which neither poisons nor changes the mode.
<1>13. ASSUME Pumping, call' = call, UNCHANGED <<mode, poisoned>>,
              outcome' = "frame" \/ bridge'.output = <<>>,
              ~Pull /\ session' # None => session'.blocks = <<>>,
              bridge'.sessionDrained => bridge'.drainRequested /\ bridge'.staging = <<>>
       PROVE  QueueInv'
  BY <1>4, <1>13 DEF QueueInv, Pull
<1>14. ASSUME Pumping, call' = call, UNCHANGED <<mode, poisoned>>,
              bridge'.output = bridge.output, bridge'.staging = bridge.staging,
              bridge'.drainRequested = bridge.drainRequested,
              bridge'.sessionDrained = bridge.sessionDrained,
              ~Pull /\ session' # None => session'.blocks = <<>>
       PROVE  QueueInv'
  <2>1. bridge'.output = <<>>
    BY <1>4, <1>14
  <2>2. bridge'.sessionDrained => bridge'.drainRequested /\ bridge'.staging = <<>>
    BY <1>14 DEF QueueInv
  <2>3. QED
    BY <1>13, <1>14, <2>1, <2>2
<1>15. CASE NotJoc \/ NeedMore \/ Idle
  BY <1>14, <1>15 DEF NotJoc, NeedMore, Idle, Assembling, Emptied, Ends, QueueInv
<1>16. CASE RefuseBytes \/ LoseJoc
  BY <1>1, <1>14, <1>16 DEF RefuseBytes, LoseJoc, Assembling, Fails, Ends, QueueInv, Bridges
<1>17. CASE RefuseStamp
  BY <1>1, <1>14, <1>17 DEF RefuseStamp, Assembling, Fails, Ends, QueueInv, Admitted, Bridges
<1>18. CASE RouteAway
  <2>1. /\ bridge'.output = bridge.output /\ bridge'.staging = <<>>
        /\ bridge'.sessionDrained = bridge.sessionDrained
        /\ bridge'.drainRequested = bridge.drainRequested
    BY <1>1, <1>18 DEF RouteAway, Bridges
  <2>2. Pumping /\ call' = call /\ UNCHANGED <<mode, poisoned, session>>
    BY <1>18 DEF RouteAway, Assembling, Ends
  <2>3. ~Pull /\ session' # None => session'.blocks = <<>>
    BY <2>2 DEF QueueInv
  <2>4. bridge'.sessionDrained => bridge'.drainRequested
    BY <2>1 DEF QueueInv
  <2>5. QED
    BY <1>4, <1>13, <2>1, <2>2, <2>3, <2>4
<1>19. CASE PumpPending
  <2>1. /\ Pumping /\ Pull /\ call' = call /\ UNCHANGED <<mode, poisoned>>
        /\ outcome' = "frame" \/ bridge' = bridge
    BY <1>19 DEF PumpPending, PendingInput, Fails, Ends
  <2>2. /\ bridge'.staging = bridge.staging /\ bridge'.drainRequested = bridge.drainRequested
        /\ bridge'.sessionDrained = bridge.sessionDrained
    BY <1>1, <1>19 DEF PumpPending, DeliversBlock, Bridges
  <2>3. bridge'.sessionDrained => bridge'.drainRequested /\ bridge'.staging = <<>>
    BY <2>2 DEF QueueInv
  <2>4. QED
    BY <1>4, <1>13, <2>1, <2>3
<1>20. /\ Resolved.output = bridge.output /\ Resolved.staging = bridge.staging
       /\ Resolved.drainRequested = bridge.drainRequested
       /\ Resolved.sessionDrained = bridge.sessionDrained
  BY <1>1 DEF Resolved, Admitted, Bridges
<1>21. CASE CreateFails \/ PushRefused \/ PushMissed \/ PushLate
  <2>1. /\ bridge' = Resolved /\ Pumping /\ call' = call /\ UNCHANGED <<mode, poisoned>>
    BY <1>21 DEF CreateFails, PushRefused, PushMissed, PushLate, PushCommon, Pushing, Assembling, Fails, Ends
  <2>2. Anchored(Target) \in Sessions /\ Anchored(Target).blocks = Target.blocks
    BY <1>1, AnchoredType
  <2>3. Pushing /\ Decodes(Target) =>
          Taken(Target) \in Sessions /\ Taken(Target).blocks = Target.blocks
    <3> SUFFICES ASSUME Pushing, Decodes(Target)
                 PROVE  Taken(Target) \in Sessions /\ Taken(Target).blocks = Target.blocks
      OBVIOUS
    <3>1. Unit \in Units /\ Target.next < MaxDecoded
      BY CompleteType DEF Pushing, Decodes
    <3>2. QED
      BY <1>1, <3>1, TakenType
  <2>4. CASE CreateFails
    BY <1>14, <1>20, <2>1, <2>4 DEF CreateFails, QueueInv
  <2>5. CASE PushRefused
    <3>1. session'.blocks = Target.blocks
      BY <2>2, <2>5 DEF PushRefused, Sessions
    <3>2. QED
      BY <1>3, <1>14, <1>20, <2>1, <3>1
  <2>6. CASE PushMissed \/ PushLate
    <3>1. session'.blocks = Target.blocks
      BY <2>3, <2>6 DEF PushMissed, PushLate, Sessions
    <3>2. QED
      BY <1>3, <1>14, <1>20, <2>1, <3>1
  <2>7. QED
    BY <1>21, <2>4, <2>5, <2>6
<1>22. CASE PushUnit
  <2> DEFINE frames == FramesOf(Taken(Target).held)
             b == Consumed(Resolved)
  <2>1. Pumping /\ Pushing /\ Decodes(Target) /\ bridge.staging # <<>> /\ UNCHANGED <<mode, poisoned>>
    BY <1>22 DEF PushUnit, PushCommon, Pushing, Assembling
  <2>2. Taken(Target) \in Sessions
    <3>1. Unit \in Units /\ Target.next < MaxDecoded
      BY <2>1, CompleteType DEF Pushing, Decodes
    <3>2. QED
      BY <1>1, <3>1, TakenType
  <2>3. /\ session' = [Taken(Target) EXCEPT !.held = Unit, !.blocks = IF Pull THEN frames ELSE <<>>]
        /\ bridge' = IF Pull THEN b ELSE [b EXCEPT !.output = @ \o frames]
        /\ IF frames # <<>> THEN Ends("frame") ELSE UNCHANGED calling
    BY <1>22 DEF PushUnit, TakeBytes, AfterPush
  <2>4. bridge'.sessionDrained = bridge.sessionDrained
    BY <1>22, PushEffect
  <2>5. b.output = bridge.output /\ b \in Bridges
    <3>1. Resolved \in Bridges
      BY <2>1, ResolvedType DEF BridgeFits, Pushing
    <3>2. UnitBytes <= Len(Resolved.staging)
      BY <1>20, <2>1, CompleteType DEF Pushing
    <3>3. b.output = Resolved.output /\ b \in Bridges
      BY <3>1, <3>2, ConsumedType
    <3>4. QED
      BY <1>20, <3>3
  <2> HIDE DEF frames, b
  <2>6. ~bridge'.sessionDrained
    BY <2>1, <2>4 DEF QueueInv
  <2>7. ~Pull => session'.blocks = <<>>
    BY <2>2, <2>3 DEF Sessions
  <2>8. call' = call /\ (frames # <<>> => outcome' = "frame")
    BY <2>3 DEF Ends, calling
  <2>9. frames = <<>> => bridge'.output = <<>>
    <3>1. bridge.output = <<>> /\ <<>> \o <<>> = <<>>
      BY <1>4, <2>1
    <3>2. bridge'.output = IF Pull THEN b.output ELSE b.output \o frames
      BY <2>3, <2>5 DEF Bridges
    <3>3. QED
      BY <2>5, <3>1, <3>2
  <2>10. QED
    BY <1>13, <2>1, <2>6, <2>7, <2>8, <2>9
<1>23. CASE EndAgain
  <2>1. /\ bridge'.output = bridge.output /\ bridge'.staging = bridge.staging
        /\ bridge'.drainRequested = bridge.drainRequested
    BY <1>1, <1>23 DEF EndAgain, Bridges
  <2>2. Pumping /\ call' = call /\ UNCHANGED <<mode, poisoned, session>>
        /\ bridge.drainRequested /\ bridge.staging = <<>>
    BY <1>23 DEF EndAgain, Emptied, Ends
  <2>3. ~Pull /\ session' # None => session'.blocks = <<>>
    BY <2>2 DEF QueueInv
  <2>4. QED
    BY <1>4, <1>13, <2>1, <2>2, <2>3
<1>24. CASE FailDrain
  BY <1>2, <1>14, <1>24 DEF FailDrain, Draining, Emptied, Fails, Ends
<1>25. CASE DrainOwned
  <2> DEFINE frames == FramesOf(session.held) \o
                         (IF session.next > 0 /\ TailPieces > 0 THEN <<TailFrame(1)>> ELSE <<>>)
  <2>1. /\ session' = [session EXCEPT !.drained = TRUE, !.held = None]
        /\ bridge' = [bridge EXCEPT !.output = @ \o frames, !.sessionDrained = TRUE]
        /\ Ends(IF frames = <<>> THEN "eof" ELSE "frame")
    BY <1>25 DEF DrainOwned
  <2> HIDE DEF frames
  <2>2. /\ Pumping /\ session # None /\ bridge.drainRequested /\ bridge.staging = <<>> /\ ~Pull
        /\ UNCHANGED <<mode, poisoned>>
    BY <1>25 DEF DrainOwned, MayDrain, Draining, Emptied
  <2>3. /\ bridge'.output = bridge.output \o frames /\ bridge'.staging = bridge.staging
        /\ bridge'.drainRequested = bridge.drainRequested
    BY <1>1, <2>1 DEF Bridges
  <2>4. session'.blocks = <<>>
    BY <1>2, <2>1, <2>2 DEF Sessions, QueueInv
  <2>5. outcome' = "frame" \/ bridge'.output = <<>>
    <3>1. bridge.output = <<>> /\ <<>> \o <<>> = <<>>
      BY <1>4, <2>2
    <3>2. QED
      BY <2>1, <2>3, <3>1 DEF Ends
  <2>6. call' = call
    BY <2>1 DEF Ends
  <2>7. QED
    BY <1>13, <2>2, <2>3, <2>4, <2>5, <2>6
<1>26. CASE DrainPull
  <2>1. /\ Pumping /\ Pull /\ bridge.drainRequested /\ bridge.staging = <<>> /\ call' = call
        /\ UNCHANGED <<mode, poisoned>>
    BY <1>26 DEF DrainPull, MayDrain, Draining, Emptied, Ends
  <2>2. /\ bridge'.staging = bridge.staging /\ bridge'.drainRequested = bridge.drainRequested
        /\ outcome' = "frame" \/ bridge'.output = bridge.output
    BY <1>1, <1>26 DEF DrainPull, EofReached, Ends, Bridges
  <2>3. QED
    BY <1>4, <1>13, <2>1, <2>2
<1>27. ASSUME NEW e \in 0 .. MaxEpoch, NEW n \in 1 .. MaxPose, ApplyPose([epoch |-> e, sequence |-> n])
       PROVE  QueueInv'
  BY <1>27 DEF ApplyPose, QueueInv, Pull, calling
<1>28. QED
  BY <1>5, <1>6, <1>7, <1>8, <1>9, <1>10, <1>11, <1>12, <1>15, <1>16, <1>17, <1>18, <1>19, <1>21, <1>22,
     <1>23, <1>24, <1>25, <1>26, <1>27 DEF Next, Pump, Return

-----------------------------------------------------------------------------
(* The way of a unit through the session *)

\* A queue that is received from the front, and one that grows at the end.
LEMMA CarriesTail ==
  ASSUME NEW q \in Seq(Frames), q # <<>>
  PROVE  /\ CarriesNone(q) => ~IsLast(Head(q)) /\ CarriesNone(Tail(q))
         /\ \A u : Carries(q, u) /\ IsLast(Head(q)) => Head(q).unit = u /\ CarriesNone(Tail(q))
         /\ \A u : Carries(q, u) /\ ~IsLast(Head(q)) => Carries(Tail(q), u)
<1>1. Len(q) \in Nat /\ Len(q) # 0 /\ Head(q) = q[1]
  BY EmptySeq, LenProperties
<1>2. /\ Len(Tail(q)) = Len(q) - 1
      /\ \A i \in 1 .. Len(Tail(q)) : Tail(q)[i] = q[i + 1]
  BY HeadTailProperties
<1> DEFINE n == Len(q)
           h == Head(q)
           t == Tail(q)
<1>3. n \in Nat /\ n # 0 /\ h = q[1] /\ Len(t) = n - 1 /\ \A i \in 1 .. n - 1 : t[i] = q[i + 1]
  BY <1>1, <1>2
<1>4. /\ 1 \in 1 .. n /\ \A i \in 1 .. n - 1 : i + 1 \in 1 .. n /\ i + 1 # 1
      /\ \A k \in 1 .. n : k # 1 => k - 1 \in 1 .. n - 1 /\ (k - 1) + 1 = k
  BY <1>3
<1> HIDE DEF n, h, t
<1>5. CarriesNone(q) => ~IsLast(h) /\ CarriesNone(t)
  BY <1>3, <1>4 DEF CarriesNone, n
<1>6. ASSUME NEW u, NEW k \in 1 .. n, IsLast(q[k]), q[k].unit = u,
             \A i \in 1 .. n : IsLast(q[i]) => i = k
      PROVE  /\ IsLast(h) => h.unit = u /\ CarriesNone(t)
             /\ ~IsLast(h) => Carries(t, u)
  <2>1. CASE k = 1
    <3>1. h.unit = u /\ IsLast(h)
      BY <1>3, <1>6, <2>1
    <3>2. \A i \in 1 .. n - 1 : ~IsLast(t[i])
      BY <1>3, <1>4, <1>6, <2>1
    <3>3. QED
      BY <1>3, <3>1, <3>2 DEF CarriesNone
  <2>2. CASE k # 1
    <3>1. ~IsLast(h)
      BY <1>3, <1>4, <1>6, <2>2
    <3>2. k - 1 \in 1 .. n - 1 /\ t[k - 1] = q[k]
      BY <1>3, <1>4, <2>2
    <3>3. ASSUME NEW i \in 1 .. n - 1, IsLast(t[i])  PROVE i = k - 1
      <4>1. i + 1 = k
        BY <1>3, <1>4, <1>6, <3>3
      <4>2. QED
        BY <4>1
    <3>4. QED
      BY <1>3, <1>6, <3>1, <3>2, <3>3 DEF Carries
  <2>3. QED
    BY <2>1, <2>2
<1>7. \A u : Carries(q, u) => /\ IsLast(h) => h.unit = u /\ CarriesNone(t)
                              /\ ~IsLast(h) => Carries(t, u)
  BY <1>6 DEF Carries, n
<1>8. QED
  BY <1>5, <1>7 DEF h, t

\* A block that moves from the front of one queue to the end of an empty one.
LEMMA FrontAgain ==
  ASSUME NEW q \in Seq(Frames), q # <<>>
  PROVE  Append(<<>>, Head(q)) \o Tail(q) = q
<1> DEFINE h == Append(<<>>, Head(q))
           t == Tail(q)
           s == h \o t
<1>1. h \in Seq(Frames) /\ Len(h) = 1 /\ h[1] = Head(q)
  <2>1. Head(q) \in Frames /\ <<>> \in Seq(Frames) /\ Len(<<>>) = 0
    BY HeadTailProperties, EmptySeq
  <2>2. Len(h) = Len(<<>>) + 1 /\ h[Len(<<>>) + 1] = Head(q) /\ h \in Seq(Frames)
    BY <2>1, AppendProperties
  <2>3. QED
    BY <2>1, <2>2
<1>2. t \in Seq(Frames) /\ Len(t) = Len(q) - 1 /\ \A i \in 1 .. Len(t) : t[i] = q[i + 1]
  BY HeadTailProperties
<1>3. Head(q) = q[1] /\ Len(q) \in Nat /\ Len(q) # 0
  BY LenProperties, EmptySeq
<1> HIDE DEF h, t
<1>4. h \in Seq(Frames) /\ t \in Seq(Frames)
  BY <1>1, <1>2
<1>5. /\ s \in Seq(Frames) /\ Len(s) = Len(h) + Len(t)
      /\ \A i \in 1 .. Len(h) + Len(t) : s[i] = IF i <= Len(h) THEN h[i] ELSE t[i - Len(h)]
  BY <1>4, ConcatProperties
<1> HIDE DEF s
<1>6. Len(s) = Len(q) /\ \A i \in 1 .. Len(q) : s[i] = IF i <= 1 THEN h[i] ELSE t[i - 1]
  BY <1>1, <1>2, <1>3, <1>5
<1>7. ASSUME NEW i \in 1 .. Len(q)  PROVE s[i] = q[i]
  <2>1. CASE i = 1
    BY <1>1, <1>3, <1>6, <2>1
  <2>2. CASE i # 1
    <3>1. i - 1 \in 1 .. Len(t) /\ (i - 1) + 1 = i /\ ~(i <= 1)
      BY <1>2, <1>3, <2>2
    <3>2. QED
      BY <1>2, <1>6, <3>1
  <2>3. QED
    BY <2>1, <2>2
<1>8. s = q
  BY <1>5, <1>6, <1>7, SeqEqual
<1>9. QED
  BY <1>8 DEF s, h, t

\* The front of two queues in a row is the front of the first.
LEMMA FrontJoin ==
  ASSUME NEW q \in Seq(Frames), NEW r \in Seq(Frames), q # <<>>
  PROVE  q \o r # <<>> /\ Head(q \o r) = Head(q) /\ Tail(q \o r) = Tail(q) \o r
<1> DEFINE n == Len(q)
           m == Len(r)
           s == q \o r
           t == Tail(q)
           u == Tail(s)
           v == t \o r
<1>1. n \in Nat /\ n # 0 /\ m \in Nat /\ Head(q) = q[1]
  BY LenProperties, EmptySeq
<1>2. /\ s \in Seq(Frames) /\ Len(s) = n + m
      /\ \A i \in 1 .. n + m : s[i] = IF i <= n THEN q[i] ELSE r[i - n]
  BY ConcatProperties
<1>3. t \in Seq(Frames) /\ Len(t) = n - 1 /\ \A i \in 1 .. n - 1 : t[i] = q[i + 1]
  BY <1>1, HeadTailProperties
<1> HIDE DEF s, t
<1>4. s # <<>>
  BY <1>1, <1>2, EmptySeq
<1>5. /\ u \in Seq(Frames) /\ Len(u) = n + m - 1 /\ \A i \in 1 .. Len(u) : u[i] = s[i + 1]
      /\ Head(s) = s[1]
  <2>1. u \in Seq(Frames) /\ Len(u) = Len(s) - 1 /\ \A i \in 1 .. Len(u) : u[i] = s[i + 1]
    BY <1>2, <1>4, HeadTailProperties
  <2>2. Head(s) = s[1]
    BY <1>2, <1>4
  <2> HIDE DEF u
  <2>3. QED
    BY <1>1, <1>2, <2>1, <2>2
<1>6. /\ v \in Seq(Frames) /\ Len(v) = Len(t) + m
      /\ \A i \in 1 .. Len(t) + m : v[i] = IF i <= Len(t) THEN t[i] ELSE r[i - Len(t)]
  BY <1>3, ConcatProperties
<1> HIDE DEF n, m, u, v
<1>7. Len(u) = Len(v) /\ Len(u) = n + m - 1
  BY <1>1, <1>3, <1>5, <1>6
<1>8. ASSUME NEW i \in 1 .. Len(u)  PROVE u[i] = v[i]
  <2>1. i + 1 \in 1 .. n + m /\ i \in 1 .. Len(t) + m /\ u[i] = s[i + 1]
    BY <1>1, <1>3, <1>5, <1>7
  <2>2. CASE i <= n - 1
    <3>1. u[i] = q[i + 1]
      BY <1>1, <1>2, <2>1, <2>2
    <3>2. v[i] = q[i + 1]
      BY <1>1, <1>3, <1>6, <2>1, <2>2
    <3>3. QED
      BY <3>1, <3>2
  <2>3. CASE ~(i <= n - 1)
    <3>1. u[i] = r[i + 1 - n]
      <4>1. s[i + 1] = IF i + 1 <= n THEN q[i + 1] ELSE r[i + 1 - n]
        BY <1>1, <1>2, <2>1
      <4>2. ~(i + 1 <= n)
        BY <1>1, <1>3, <2>1, <2>3
      <4>3. QED
        BY <2>1, <4>1, <4>2
    <3>2. v[i] = r[i - (n - 1)]
      <4>1. v[i] = IF i <= Len(t) THEN t[i] ELSE r[i - Len(t)]
        BY <1>6, <2>1
      <4>2. QED
        BY <1>3, <2>3, <4>1
    <3>3. i + 1 - n = i - (n - 1)
      BY <1>1
    <3>4. QED
      BY <3>1, <3>2, <3>3
  <2>4. QED
    BY <2>2, <2>3
<1>9. u = v
  BY <1>5, <1>6, <1>7, <1>8, SeqEqual
<1>10. Head(s) = Head(q)
  BY <1>1, <1>2, <1>5
<1>11. QED
  BY <1>4, <1>9, <1>10 DEF s, t, u, v

\* The pieces of a unit: the last one is its only last one.
LEMMA FramesLast ==
  ASSUME segment \in 0 .. MaxSegment, NEW u \in Units, NEW r \in Seq(Frames), CarriesNone(r)
  PROVE  Carries(FramesOf(u) \o r, u) /\ Carries(FramesOf(u), u) /\ FramesOf(u) # <<>>
<1> DEFINE n == IF Pull THEN Pieces ELSE 1
           q == FramesOf(u)
<1>1. u # None /\ u \in Option(Units)
  BY NoneDiffers DEF Units, Option
<1>2. n \in Nat \ {0}
  BY Numbers
<1>3. /\ q \in Seq(Frames) /\ Len(q) = n
      /\ \A i \in 1 .. Len(q) : q[i] = [segment |-> segment, unit |-> u, piece |-> i]
  BY <1>1, FramesType
<1>4. ASSUME NEW i \in 1 .. n  PROVE q[i].unit = u /\ (IsLast(q[i]) <=> i = n)
  <2>1. q[i] = [segment |-> segment, unit |-> u, piece |-> i]
    BY <1>3, Zenon
  <2>2. q[i].unit = u /\ q[i].piece = i
    BY <2>1
  <2>3. QED
    BY <1>1, <2>2 DEF IsLast
<1> HIDE DEF n, q
<1>5. n \in 1 .. n
  BY <1>2
<1>6. Carries(q, u)
  BY <1>3, <1>4, <1>5 DEF Carries
<1>7. q # <<>>
  BY <1>2, <1>3, EmptySeq
<1>8. Carries(q \o r, u)
  <2> DEFINE m == Len(r)
             s == q \o r
  <2>1. /\ Len(s) = Len(q) + Len(r)
        /\ \A i \in 1 .. Len(q) + Len(r) : s[i] = IF i <= Len(q) THEN q[i] ELSE r[i - Len(q)]
    BY <1>3, ConcatProperties
  <2>2. m \in Nat
    BY LenProperties
  <2>3. Len(s) = n + m /\ \A i \in 1 .. n + m : s[i] = IF i <= n THEN q[i] ELSE r[i - n]
    BY <1>3, <2>1
  <2>4. \A i \in 1 .. m : ~IsLast(r[i])
    BY DEF CarriesNone
  <2> HIDE DEF s, m
  <2>5. n \in 1 .. n + m /\ s[n] = q[n]
    <3>1. n \in 1 .. n + m /\ n <= n
      BY <1>2, <2>2
    <3>2. QED
      BY <2>3, <3>1
  <2>6. ASSUME NEW i \in 1 .. n + m, IsLast(s[i])  PROVE i = n
    <3>1. CASE i <= n
      <4>1. i \in 1 .. n
        BY <1>2, <3>1
      <4>2. s[i] = q[i]
        BY <2>3, <3>1
      <4>3. QED
        BY <1>4, <2>6, <4>1, <4>2
    <3>2. CASE ~(i <= n)
      <4>1. i - n \in 1 .. m
        BY <1>2, <2>2, <3>2
      <4>2. s[i] = r[i - n]
        BY <2>3, <3>2
      <4>3. QED
        BY <2>4, <2>6, <4>1, <4>2
    <3>3. QED
      BY <3>1, <3>2
  <2>7. Carries(s, u)
    <3>1. IsLast(s[n]) /\ s[n].unit = u
      BY <1>4, <1>5, <2>5
    <3>2. n \in 1 .. Len(s) /\ \A i \in 1 .. Len(s) : IsLast(s[i]) => i = n
      BY <2>3, <2>5, <2>6
    <3>3. QED
      BY <3>1, <3>2 DEF Carries
  <2>8. QED
    BY <2>7 DEF s
<1>9. QED
  BY <1>6, <1>7, <1>8 DEF q

\* Where the mode stays, the same queues carry the same units.
LEMMA CarriesSame ==
  ASSUME mode' = mode, NEW q, Queued' = q
  PROVE  /\ (CarriesNone(Queued))' <=> CarriesNone(q)
         /\ \A u : pushed'[Len(received') + 1].unit = u =>
              ((Carries(Queued, pushed[Len(received) + 1].unit))' <=> Carries(q, u))
  BY DEF CarriesNone, Carries, IsLast, Pull

LEMMA QueuedType ==
  ASSUME TypeInv
  PROVE  /\ Blocks \in Seq(Frames) /\ bridge.output \in Seq(Frames) /\ Queued \in Seq(Frames)
         /\ pushed \in Seq(Entries) /\ Len(pushed) \in Nat
         /\ received \in Seq(Units) /\ Len(received) \in Nat
<1>1. bridge.output \in Seq(Frames) /\ session \in Option(Sessions)
  BY DEF TypeInv, BridgeFits, Bridges
<1>2. Blocks \in Seq(Frames)
  BY <1>1, EmptySeq DEF Blocks, Option, Sessions
<1>3. Queued \in Seq(Frames)
  BY <1>1, <1>2, ConcatProperties DEF Queued
<1>4. QED
  BY <1>1, <1>2, <1>3, LenProperties DEF TypeInv

LEMMA InitFlow == Init => FlowInv
<1> SUFFICES ASSUME Init  PROVE FlowInv
  OBVIOUS
<1>1. bridge.output = <<>> /\ session = None /\ pushed = <<>> /\ received = <<>>
  BY DEF Init, Fresh
<1>2. Queued = <<>> /\ Len(<<>>) = 0
  BY <1>1, EmptySeq, ConcatEmptySeq DEF Queued, Blocks
<1>3. HeldUnits = 0
  BY <1>1 DEF HeldUnits
<1>4. AllOut
  BY <1>1, <1>2, <1>3 DEF AllOut, CarriesNone
<1>5. QED
  BY <1>1, <1>2, <1>4 DEF FlowInv, HoldsLast

\* Steps that move no unit.
LEMMA FlowKept ==
  ASSUME FlowInv, UNCHANGED <<mode, pushed, received>>, Queued' = Queued,
         session' = None <=> session = None,
         session # None => session'.last = session.last /\ session'.held = session.held,
         session # None /\ bridge'.sessionDrained => session.held = None
  PROVE  FlowInv'
<1>1. (AllOut \/ OneOut)'
  <2>1. HeldUnits' = HeldUnits
    BY DEF HeldUnits
  <2>2. (CarriesNone(Queued))' <=> CarriesNone(Queued)
    BY CarriesSame
  <2>3. (Carries(Queued, pushed[Len(received) + 1].unit))' <=>
          Carries(Queued, pushed[Len(received) + 1].unit)
    BY CarriesSame
  <2>4. AllOut \/ OneOut
    BY DEF FlowInv
  <2>5. QED
    BY <2>1, <2>2, <2>3, <2>4 DEF AllOut, OneOut
<1>2. HoldsLast'
  BY DEF FlowInv, HoldsLast
<1>3. \A i \in 1 .. Len(received') : received'[i] = pushed'[i].unit
  BY DEF FlowInv
<1>4. QED
  BY <1>1, <1>2, <1>3 DEF FlowInv

\* A frame is received from the front of the queue.
LEMMA FlowReceived ==
  ASSUME TypeInv, FlowInv, UNCHANGED <<mode, pushed>>, Queued # <<>>, Queued' = Tail(Queued),
         Receives(Head(Queued)),
         session' = None <=> session = None,
         session # None => session'.last = session.last /\ session'.held = session.held,
         session # None /\ bridge'.sessionDrained => session.held = None
  PROVE  FlowInv'
<1> DEFINE h == Head(Queued)
           t == Tail(Queued)
           n == Len(received)
<1>1. /\ Queued \in Seq(Frames) /\ n \in Nat /\ received \in Seq(Units) /\ Len(pushed) \in Nat
  BY QueuedType
<1>2. HeldUnits' = HeldUnits /\ HeldUnits \in Nat
  BY DEF HeldUnits
<1>3. HoldsLast'
  BY DEF FlowInv, HoldsLast
<1>4. /\ CarriesNone(Queued) => ~IsLast(h) /\ CarriesNone(t)
      /\ \A u : Carries(Queued, u) /\ IsLast(h) => h.unit = u /\ CarriesNone(t)
      /\ \A u : Carries(Queued, u) /\ ~IsLast(h) => Carries(t, u)
  BY <1>1, CarriesTail
<1>5. (CarriesNone(Queued))' <=> CarriesNone(t)
  BY CarriesSame
<1>6. received' = IF IsLast(h) THEN Append(received, h.unit) ELSE received
  BY DEF Receives
<1>7. IsLast(h) => h.unit \in Units
  <2>1. h \in Frames
    BY <1>1, HeadTailProperties
  <2>2. QED
    BY <2>1 DEF IsLast, Frames, Option
<1>8. \A i \in 1 .. n : received[i] = pushed[i].unit
  BY DEF FlowInv
<1>9. AllOut \/ OneOut
  BY DEF FlowInv
<1> HIDE DEF h, t, n
<1>10. CASE ~IsLast(h)
  <2>1. received' = received
    BY <1>6, <1>10
  <2>2. (Carries(Queued, pushed[Len(received) + 1].unit))' <=> Carries(t, pushed[n + 1].unit)
    BY <2>1, CarriesSame DEF t, n
  <2>3. (AllOut \/ OneOut)'
    <3>1. CASE AllOut
      BY <1>2, <1>4, <1>5, <1>10, <2>1, <3>1 DEF AllOut
    <3>2. CASE OneOut
      BY <1>2, <1>4, <1>10, <2>1, <2>2, <3>2 DEF OneOut, n
    <3>3. QED
      BY <1>9, <3>1, <3>2
  <2>4. QED
    BY <1>3, <1>8, <2>1, <2>3 DEF FlowInv, n
<1>11. CASE IsLast(h)
  <2>1. /\ Len(received') = n + 1 /\ received'[n + 1] = h.unit
        /\ \A i \in 1 .. n : received'[i] = received[i]
    BY <1>1, <1>6, <1>7, <1>11, AppendProperties DEF n
  <2>2. OneOut
    BY <1>4, <1>9, <1>11 DEF AllOut
  <2>3. /\ Carries(Queued, pushed[n + 1].unit) /\ Len(pushed) = n + 1 + HeldUnits
    BY <2>2 DEF OneOut, n
  <2>4. h.unit = pushed[n + 1].unit /\ CarriesNone(t)
    BY <1>4, <1>11, <2>3
  <2>5. AllOut'
    BY <1>2, <1>5, <2>1, <2>3, <2>4 DEF AllOut
  <2>6. \A i \in 1 .. Len(received') : received'[i] = pushed'[i].unit
    <3>1. \A i \in 1 .. n + 1 : i \in 1 .. n \/ i = n + 1
      BY <1>1
    <3>2. QED
      BY <1>8, <2>1, <2>4, <3>1
  <2>7. QED
    BY <1>3, <2>5, <2>6 DEF FlowInv
<1>12. QED
  BY <1>10, <1>11

\* While pump assembles or drains, both queues are empty.
LEMMA EmptyQueue ==
  ASSUME TypeInv, QueueInv, Pumping, ~PendingInput
  PROVE  bridge.output = <<>> /\ Blocks = <<>> /\ Queued = <<>>
<1>1. bridge.output = <<>>
  BY NoneDiffers DEF Pumping, QueueInv, Outcomes
<1>2. Blocks = <<>>
  BY DEF Blocks, PendingInput, QueueInv
<1>3. QED
  BY <1>1, <1>2, EmptySeq, ConcatEmptySeq DEF Queued

LEMMA NothingOut ==
  ASSUME FlowInv, Queued = <<>>
  PROVE  CarriesNone(<<>>) /\ Len(pushed) = Len(received) + HeldUnits
<1>1. Len(<<>>) = 0
  BY EmptySeq
<1>2. \A u : ~Carries(Queued, u)
  BY <1>1 DEF Carries
<1>3. AllOut
  BY <1>2 DEF FlowInv, OneOut
<1>4. QED
  BY <1>1, <1>3 DEF AllOut, CarriesNone

LEMMA FlowPushed ==
  ASSUME TypeInv, BytesInv, QueueInv, FlowInv, PushUnit
  PROVE  FlowInv'
<1> DEFINE T == Taken(Target)
           frames == FramesOf(Target.held)
           n == Len(received)
           L == Len(pushed)
<1>1. Pushing /\ Decodes(Target) /\ Assembling /\ Complete /\ Pumping /\ ~PendingInput
      /\ UNCHANGED <<mode, received>> /\ bridge.staging # <<>>
  BY DEF PushUnit, Pushing, PushCommon, Assembling
<1>2. bridge.output = <<>> /\ Queued = <<>> /\ CarriesNone(<<>>) /\ Len(pushed) = Len(received) + HeldUnits
  BY <1>1, EmptyQueue, NothingOut
<1>3. /\ pushed \in Seq(Entries) /\ L \in Nat /\ n \in Nat
  BY QueuedType
<1>4. Unit \in Units /\ Unit \in Int /\ Unit # None /\ Unit = (start \div UnitBytes) + L
  BY <1>1, CompleteType, FrontUnit, NoneDiffers DEF Units
<1>5. HoldsLast
  BY DEF FlowInv
<1>6. /\ Target \in Sessions
      /\ session # None => Target = session
      /\ session = None => Target.last = None /\ Target.held = None
  BY TargetType DEF Target, NewSession
<1>7. Target.last = None \/ Unit = Target.last + 1
  <2>1. CASE pushed = <<>>
    BY <1>5, <1>6, <2>1 DEF HoldsLast
  <2>2. CASE pushed # <<>>
    <3>1. session # None /\ Target.last = pushed[L].unit
      BY <1>5, <1>6, <2>2 DEF HoldsLast
    <3>2. L \in 1 .. L
      BY <1>3, <2>2, EmptySeq
    <3>3. pushed[L].unit = (start \div UnitBytes) + L - 1
      BY <3>2 DEF BytesInv
    <3>4. start \div UnitBytes \in Int
      BY Numbers DEF TypeInv
    <3>5. QED
      BY <1>3, <1>4, <3>1, <3>3, <3>4
  <2>3. QED
    BY <2>1, <2>2
<1>8. T \in Sessions /\ T.held = Target.held /\ T.last = Unit
  <2>1. Target.next < MaxDecoded
    BY <1>1 DEF Decodes
  <2>2. QED
    BY <1>4, <1>6, <1>7, <2>1, TakenType
<1>9. Target.held \in Option(Units)
  BY <1>6 DEF Sessions
<1>10. frames \in Seq(Frames) /\ (Target.held = None => frames = <<>>)
  <2>1. segment \in 0 .. MaxSegment
    BY DEF TypeInv
  <2>2. QED
    BY <1>9, <2>1, FramesType
<1> DEFINE b == Consumed(Resolved)
<1>11. b \in Bridges /\ b.output = <<>>
  <2>1. bridge \in Bridges /\ Resolved \in Bridges
    BY <1>1, ResolvedType DEF BridgeFits, Pushing, TypeInv
  <2>2. Resolved.output = bridge.output /\ Resolved.staging = bridge.staging
    BY <2>1 DEF Resolved, Admitted, Bridges
  <2>3. UnitBytes <= Len(Resolved.staging)
    BY <1>1, <2>2, CompleteType
  <2>4. b.output = Resolved.output /\ b \in Bridges
    BY <2>1, <2>3, ConsumedType
  <2>5. QED
    BY <1>2, <2>2, <2>4
<1>12. /\ session' = [T EXCEPT !.held = Unit, !.blocks = IF Pull THEN frames ELSE <<>>]
       /\ bridge' = IF Pull THEN b ELSE [b EXCEPT !.output = @ \o frames]
  <2>1. FramesOf(T.held) = frames
    BY <1>8
  <2>2. /\ session' = [T EXCEPT !.held = Unit, !.blocks = IF Pull THEN FramesOf(T.held) ELSE <<>>]
        /\ bridge' = IF Pull THEN b ELSE [b EXCEPT !.output = @ \o FramesOf(T.held)]
    BY DEF PushUnit, TakeBytes
  <2>3. QED
    BY <2>1, <2>2
<1>13. /\ Len(pushed') = L + 1 /\ pushed'[L + 1] = [unit |-> Unit, pts |-> Pts]
       /\ \A i \in 1 .. L : pushed'[i] = pushed[i]
       /\ bridge'.sessionDrained = bridge.sessionDrained
  BY PushEffect
<1> HIDE DEF T, frames, n, L, b
<1> DEFINE q == IF Pull THEN frames ELSE <<>>
<1>14. /\ session'.last = Unit /\ session'.held = Unit /\ session'.blocks = q /\ session' # None
  <2>1. q \in Seq(Frames)
    BY <1>10, EmptySeq
  <2>2. session' = [[T EXCEPT !.held = Unit] EXCEPT !.blocks = q]
    BY <1>12
  <2> HIDE DEF q
  <2>3. [T EXCEPT !.held = Unit] \in Sessions
    BY <1>4, <1>8, SessionUpdates DEF Option
  <2>4. session' \in Sessions
    BY <2>1, <2>2, <2>3, SessionUpdates
  <2>5. session'.last = Unit /\ session'.held = Unit /\ session'.blocks = q
    BY <1>8, <2>2, <2>3 DEF Sessions
  <2>6. QED
    BY <2>4, <2>5, NoneDiffers
<1>15. Queued' = frames
  <2>1. <<>> \o frames = frames /\ frames \o <<>> = frames
    BY <1>10, ConcatEmptySeq
  <2>2. bridge'.output = IF Pull THEN <<>> ELSE <<>> \o frames
    BY <1>11, <1>12 DEF Bridges
  <2>3. Blocks' = q
    BY <1>14 DEF Blocks
  <2>4. QED
    BY <2>1, <2>2, <2>3 DEF Queued
<1>16. HeldUnits' = 1
  BY <1>4, <1>14 DEF HeldUnits
<1>17. (AllOut \/ OneOut)'
  <2>1. CASE Target.held = None
    <3>1. frames = <<>> /\ HeldUnits = 0
      BY <1>6, <1>10, <2>1 DEF HeldUnits
    <3>2. (CarriesNone(Queued))'
      BY <1>1, <1>2, <1>15, <3>1, CarriesSame
    <3>3. Len(pushed') = Len(received') + HeldUnits'
      BY <1>1, <1>2, <1>3, <1>13, <1>16, <3>1 DEF L, n
    <3>4. QED
      BY <3>2, <3>3 DEF AllOut
  <2>2. CASE Target.held # None
    <3>1. session # None /\ session.held = Target.held /\ HeldUnits = 1
      BY <1>6, <2>2 DEF HeldUnits
    <3>2. n + 1 = L /\ L \in 1 .. L
      BY <1>2, <1>3, <3>1 DEF n, L
    <3>3. pushed # <<>>
      BY <1>3, <3>2, EmptySeq DEF L
    <3>4. Target.held = pushed[L].unit
      BY <1>5, <2>2, <3>1, <3>3 DEF HoldsLast, L
    <3>5. Carries(frames, Target.held)
      <4>1. Target.held \in Units /\ segment \in 0 .. MaxSegment
        BY <1>9, <2>2 DEF Option, TypeInv
      <4>2. CarriesNone(<<>>) /\ <<>> \in Seq(Frames)
        BY <1>2, EmptySeq
      <4>3. QED
        BY <4>1, <4>2, FramesLast DEF frames
    <3>6. pushed'[Len(received') + 1].unit = Target.held
      BY <1>1, <1>13, <3>2, <3>4 DEF n
    <3>7. (Carries(Queued, pushed[Len(received) + 1].unit))'
      BY <1>1, <1>15, <3>5, <3>6, CarriesSame
    <3>8. Len(pushed') = Len(received') + 1 + HeldUnits'
      BY <1>1, <1>3, <1>13, <1>16, <3>2 DEF n
    <3>9. QED
      BY <3>7, <3>8 DEF OneOut
  <2>3. QED
    BY <2>1, <2>2
<1>18. HoldsLast'
  <2>1. ~bridge'.sessionDrained
    BY <1>1, <1>13 DEF QueueInv
  <2>2. pushed'[Len(pushed')].unit = Unit
    BY <1>13
  <2>3. pushed' # <<>>
    BY <1>3, <1>13, EmptySeq
  <2>4. QED
    BY <1>14, <2>1, <2>2, <2>3 DEF HoldsLast
<1>19. \A i \in 1 .. Len(received') : received'[i] = pushed'[i].unit
  <2>1. HeldUnits \in Nat
    BY DEF HeldUnits
  <2>2. \A i \in 1 .. n : i \in 1 .. L
    BY <1>2, <1>3, <2>1 DEF n, L
  <2>3. \A i \in 1 .. n : received[i] = pushed[i].unit
    BY DEF FlowInv, n
  <2>4. QED
    BY <1>1, <1>13, <2>2, <2>3 DEF n
<1>20. QED
  BY <1>17, <1>18, <1>19 DEF FlowInv

\* The session hands over the unit it held, with no last piece after it.
LEMMA FlowEmitted ==
  ASSUME TypeInv, FlowInv, Queued = <<>>, UNCHANGED <<mode, pushed, received>>,
         session # None, session' # None, session'.last = session.last, session'.held = None,
         NEW r \in Seq(Frames), CarriesNone(r), Queued' = FramesOf(session.held) \o r
  PROVE  FlowInv'
<1>1. CarriesNone(<<>>) /\ Len(pushed) = Len(received) + HeldUnits
  BY NothingOut
<1>2. HoldsLast /\ \A i \in 1 .. Len(received) : received[i] = pushed[i].unit
  BY DEF FlowInv
<1>3. HoldsLast' /\ HeldUnits' = 0
  BY <1>2 DEF HoldsLast, HeldUnits
<1>4. Len(pushed) \in Nat /\ Len(received) \in Nat /\ pushed \in Seq(Entries)
  BY QueuedType
<1>5. session.held \in Option(Units) /\ segment \in 0 .. MaxSegment
  BY DEF TypeInv, Option, Sessions
<1>6. (AllOut \/ OneOut)'
  <2>1. CASE session.held = None
    <3>1. FramesOf(session.held) = <<>> /\ HeldUnits = 0
      BY <1>5, <2>1, FramesType DEF HeldUnits
    <3>2. Queued' = r
      BY <3>1, ConcatEmptySeq
    <3>3. (CarriesNone(Queued))'
      BY <3>2, CarriesSame
    <3>4. QED
      BY <1>1, <1>3, <3>1, <3>3 DEF AllOut
  <2>2. CASE session.held # None
    <3>1. HeldUnits = 1
      BY <2>2 DEF HeldUnits
    <3>2. Len(pushed) = Len(received) + 1
      BY <1>1, <3>1
    <3>3. pushed # <<>>
      BY <1>4, <3>2, EmptySeq
    <3>4. session.held = pushed[Len(received) + 1].unit
      BY <1>2, <2>2, <3>2, <3>3 DEF HoldsLast
    <3>5. session.held \in Units
      BY <1>5, <2>2 DEF Option
    <3>6. Carries(FramesOf(session.held) \o r, session.held)
      BY <1>5, <3>5, FramesLast
    <3>7. (Carries(Queued, pushed[Len(received) + 1].unit))'
      BY <3>4, <3>6, CarriesSame
    <3>8. QED
      BY <1>3, <1>4, <3>2, <3>7 DEF OneOut
  <2>3. QED
    BY <2>1, <2>2
<1>7. QED
  BY <1>2, <1>3, <1>6 DEF FlowInv

LEMMA FlowDrained ==
  ASSUME TypeInv, QueueInv, FlowInv, DrainOwned \/ DrainPull
  PROVE  FlowInv'
<1>1. /\ Pumping /\ ~PendingInput /\ session # None /\ UNCHANGED <<mode, pushed, received>>
  BY DEF DrainOwned, DrainPull, MayDrain, Draining, Emptied, history
<1>2. bridge.output = <<>> /\ Blocks = <<>> /\ Queued = <<>> /\ CarriesNone(<<>>)
  BY <1>1, EmptyQueue, NothingOut
<1>3. session \in Sessions /\ session.held \in Option(Units) /\ bridge \in Bridges /\ session.blocks = <<>>
  BY <1>1, <1>2 DEF TypeInv, BridgeFits, Option, Sessions, Blocks
<1>4. segment \in 0 .. MaxSegment
  BY DEF TypeInv
<1> DEFINE frames == FramesOf(session.held)
<1>5. frames \in Seq(Frames) /\ (session.held = None => frames = <<>>)
  BY <1>3, <1>4, FramesType
<1>6. frames = <<>> => session.held = None
  <2> SUFFICES ASSUME session.held # None  PROVE frames # <<>>
    OBVIOUS
  <2>1. session.held \in Units
    BY <1>3 DEF Option
  <2>2. QED
    BY <1>2, <1>4, <2>1, EmptySeq, FramesLast
<1>7. ASSUME NEW i \in 1 .. Pieces + TailPieces
      PROVE  <<TailFrame(i)>> \in Seq(Frames) /\ CarriesNone(<<TailFrame(i)>>)
  <2>1. TailFrame(i) \in Frames
    BY <1>4, TailFrameType
  <2>2. QED
    BY <2>1 DEF CarriesNone, IsLast, TailFrame
<1> DEFINE d == [[session EXCEPT !.drained = TRUE] EXCEPT !.held = None]
<1>8. /\ d \in Sessions /\ d.last = session.last /\ d.held = None /\ d.blocks = <<>>
      /\ d.tail = session.tail
  <2>1. None \in Option(Units)
    BY DEF Option
  <2>2. [session EXCEPT !.drained = TRUE] \in Sessions
    BY <1>3, SessionUpdates
  <2>3. d \in Sessions
    BY <2>1, <2>2, SessionUpdates
  <2>4. QED
    BY <1>3, <2>3 DEF Sessions
<1>9. [session EXCEPT !.drained = TRUE, !.held = None] = d
  OBVIOUS
<1> HIDE DEF d
<1>10. ASSUME session' \in Sessions, session'.last = session.last, session'.held = None,
              NEW r \in Seq(Frames), CarriesNone(r), Queued' = frames \o r
       PROVE  FlowInv'
  <2>1. session' # None
    BY <1>10, NoneDiffers
  <2> HIDE DEF frames
  <2>2. QED
    BY <1>1, <1>2, <1>10, <2>1, FlowEmitted DEF frames
<1>11. CASE DrainOwned
  <2> DEFINE r == IF session.next > 0 /\ TailPieces > 0 THEN <<TailFrame(1)>> ELSE <<>>
  <2>1. r \in Seq(Frames) /\ CarriesNone(r)
    <3>1. 1 \in 1 .. Pieces + TailPieces
      BY Numbers
    <3>2. QED
      BY <1>2, <1>7, <3>1, EmptySeq
  <2>2. session' = d /\ bridge' = [bridge EXCEPT !.output = @ \o (frames \o r), !.sessionDrained = TRUE]
    BY <1>9, <1>11 DEF DrainOwned
  <2> HIDE DEF r, frames
  <2>3. frames \o r \in Seq(Frames)
    BY <1>5, <2>1, ConcatProperties
  <2>4. bridge'.output = frames \o r
    <3>1. bridge'.output = bridge.output \o (frames \o r)
      BY <1>3, <2>2 DEF Bridges
    <3>2. <<>> \o (frames \o r) = frames \o r
      BY <2>3, ConcatEmptySeq
    <3>3. QED
      BY <1>2, <3>1, <3>2
  <2>5. Blocks' = <<>>
    BY <1>8, <2>2 DEF Blocks
  <2>6. Queued' = frames \o r
    <3>1. (frames \o r) \o <<>> = frames \o r
      BY <2>3, ConcatEmptySeq
    <3>2. QED
      BY <2>4, <2>5, <3>1 DEF Queued
  <2>7. QED
    BY <1>8, <1>10, <2>1, <2>2, <2>6 DEF frames
<1>12. CASE DrainPull
  <2> HIDE DEF frames
  <2>1. CASE /\ frames # <<>>
             /\ session' = [d EXCEPT !.blocks = Tail(frames), !.tail = TailPieces]
             /\ bridge' = [bridge EXCEPT !.output = Append(@, Head(frames))]
    <3>1. bridge'.output = Append(<<>>, Head(frames))
      BY <1>2, <1>3, <2>1 DEF Bridges
    <3>2. Head(frames) \in Frames /\ Tail(frames) \in Seq(Frames)
      BY <1>5, <2>1, HeadTailProperties
    <3>3. session' \in Sessions /\ session'.blocks = Tail(frames) /\ session'.last = session.last
          /\ session'.held = None
      <4>1. [d EXCEPT !.blocks = Tail(frames)] \in Sessions
        BY <1>8, <3>2, SessionUpdates
      <4>2. TailPieces \in 0 .. TailPieces
        BY Numbers
      <4>3. [[d EXCEPT !.blocks = Tail(frames)] EXCEPT !.tail = TailPieces] \in Sessions
        BY <4>1, <4>2, SessionUpdates
      <4>4. session' = [[d EXCEPT !.blocks = Tail(frames)] EXCEPT !.tail = TailPieces]
        BY <2>1
      <4>5. QED
        BY <1>8, <4>3, <4>4 DEF Sessions
    <3>4. Blocks' = Tail(frames)
      <4>1. session' # None
        BY <3>3, NoneDiffers
      <4>2. QED
        BY <3>3, <4>1 DEF Blocks
    <3>5. Append(<<>>, Head(frames)) \o Tail(frames) = frames
      BY <1>5, <2>1, FrontAgain
    <3>6. frames \o <<>> = frames
      BY <1>5, ConcatEmptySeq
    <3>7. Queued' = frames \o <<>>
      BY <3>1, <3>4, <3>5, <3>6 DEF Queued
    <3>8. QED
      BY <1>2, <1>10, <3>3, <3>7, EmptySeq DEF frames
  <2>2. CASE /\ frames = <<>> /\ d.tail > 0
             /\ session' = [d EXCEPT !.tail = @ - 1]
             /\ bridge' = [bridge EXCEPT !.output = Append(@, TailFrame(Pieces + d.tail))]
    <3> DEFINE i == Pieces + d.tail
    <3>1. d.tail \in 0 .. TailPieces
      BY <1>8 DEF Sessions
    <3>2. i \in 1 .. Pieces + TailPieces /\ d.tail - 1 \in 0 .. TailPieces
      BY <2>2, <3>1, Numbers
    <3>3. bridge'.output = Append(<<>>, TailFrame(i))
      BY <1>2, <1>3, <2>2 DEF Bridges
    <3> HIDE DEF i
    <3>4. session' \in Sessions
      BY <1>8, <2>2, <3>2, SessionUpdates
    <3>5. session'.blocks = <<>> /\ session'.last = session.last /\ session'.held = None
      BY <1>8, <2>2 DEF Sessions
    <3>6. Blocks' = <<>>
      BY <3>5 DEF Blocks
    <3> DEFINE f == TailFrame(i)
    <3>7. <<f>> \in Seq(Frames) /\ CarriesNone(<<f>>)
      BY <1>7, <3>2
    <3> HIDE DEF f
    <3>8. Append(<<>>, f) = <<f>> /\ <<f>> \o <<>> = <<f>> /\ <<>> \o <<f>> = <<f>>
      BY <3>7, ConcatEmptySeq
    <3>9. Queued' = frames \o <<f>>
      BY <2>2, <3>3, <3>6, <3>8 DEF Queued, f
    <3>10. QED
      BY <1>10, <3>4, <3>5, <3>7, <3>9 DEF frames
  <2>3. CASE frames = <<>> /\ session' = d /\ bridge' = EofReached(bridge)
    <3>1. bridge'.output = <<>>
      BY <1>2, <1>3, <2>3 DEF EofReached, Bridges
    <3>2. Blocks' = <<>>
      BY <1>8, <2>3 DEF Blocks
    <3>3. <<>> \o <<>> = <<>> /\ <<>> \in Seq(Frames)
      BY EmptySeq, ConcatEmptySeq
    <3>4. Queued' = frames \o <<>>
      BY <2>3, <3>1, <3>2 DEF Queued
    <3>5. QED
      BY <1>2, <1>8, <1>10, <2>3, <3>3, <3>4 DEF frames
  <2>4. QED
    BY <1>9, <1>12, <2>1, <2>2, <2>3 DEF DrainPull, frames
<1>13. QED
  BY <1>11, <1>12

LEMMA FlowReset ==
  ASSUME TypeInv, ~poisoned',
         Flush \/ \E m \in Bytes, n \in 1 .. MaxPacket, w \in Offsets, base \in TimeBases :
                    SendDiscontinuity(m, n, w, base)
  PROVE  FlowInv'
<1>1. /\ pushed' = <<>> /\ received' = <<>> /\ ResetEngine /\ mode' = mode /\ bridge'.output = <<>>
  BY ResetEffect
<1>2. /\ session' # None => session'.last = None /\ session'.held = None /\ session'.blocks = <<>>
  <2>1. session' = None \/ session' = NewSession(epoch + 1, 0)
    BY <1>1 DEF ResetEngine
  <2>2. QED
    BY <2>1 DEF NewSession
<1>3. Blocks' = <<>> /\ HeldUnits' = 0
  BY <1>2 DEF Blocks, HeldUnits
<1>4. Queued' = <<>> /\ Len(<<>>) = 0
  BY <1>1, <1>3, EmptySeq, ConcatEmptySeq DEF Queued
<1>5. AllOut'
  BY <1>1, <1>3, <1>4 DEF AllOut, CarriesNone
<1>6. HoldsLast'
  BY <1>1, <1>2 DEF HoldsLast
<1>7. QED
  BY <1>1, <1>4, <1>5, <1>6 DEF FlowInv

LEMMA FlowAside ==
  ASSUME TypeInv, BytesInv, FlowInv,
         \/ RefuseSend \/ Receive \/ Drain \/ NotJoc \/ NeedMore \/ Idle \/ RouteAway \/ EndAgain
         \/ ReturnStatus
         \/ \E n \in 1 .. MaxPacket, w \in Offsets, base \in TimeBases : Send(n, w, base)
         \/ \E e \in 0 .. MaxEpoch, n \in 1 .. MaxPose : ApplyPose([epoch |-> e, sequence |-> n])
         \/ UNCHANGED vars
  PROVE  FlowInv'
<1>1. bridge \in Bridges /\ session \in Option(Sessions)
  BY DEF TypeInv, BridgeFits
<1>2. session # None /\ bridge.sessionDrained => session.held = None
  BY DEF FlowInv, HoldsLast
<1>3. ASSUME UNCHANGED <<mode, pushed, received, session>>, bridge'.output = bridge.output,
             session # None /\ bridge'.sessionDrained => bridge.sessionDrained
      PROVE  FlowInv'
  <2>1. Queued' = Queued
    BY <1>3 DEF Queued, Blocks
  <2>2. QED
    BY <1>2, <1>3, <2>1, FlowKept
<1>4. CASE RefuseSend \/ Receive \/ NotJoc \/ NeedMore \/ Idle \/ ReturnStatus \/ UNCHANGED vars
  BY <1>3, <1>4 DEF RefuseSend, Receive, NotJoc, NeedMore, Idle, ReturnStatus, vars, history
<1>5. CASE Drain
  <2>1. bridge' = [bridge EXCEPT !.drainRequested = TRUE] /\ UNCHANGED <<mode, pushed, received, session>>
    BY <1>5 DEF Drain, history
  <2>2. bridge'.output = bridge.output /\ bridge'.sessionDrained = bridge.sessionDrained
    BY <1>1, <2>1 DEF Bridges
  <2>3. QED
    BY <1>3, <2>1, <2>2
<1>6. CASE RouteAway
  <2>1. /\ bridge' = [bridge EXCEPT !.classification = "other", !.timeline = NextTimeline,
                                    !.staging = <<>>, !.boundaries = {}]
        /\ UNCHANGED <<mode, pushed, received, session>>
    BY <1>6 DEF RouteAway, history
  <2>2. bridge'.output = bridge.output /\ bridge'.sessionDrained = bridge.sessionDrained
    BY <1>1, <2>1 DEF Bridges
  <2>3. QED
    BY <1>3, <2>1, <2>2
<1>7. CASE EndAgain
  <2>1. /\ bridge' = [bridge EXCEPT !.sessionDrained = TRUE] /\ UNCHANGED <<mode, pushed, received, session>>
        /\ bridge.sessionDrained \/ session = None
    BY <1>7 DEF EndAgain, history
  <2>2. bridge'.output = bridge.output
    BY <1>1, <2>1 DEF Bridges
  <2>3. QED
    BY <1>3, <2>1, <2>2
<1>8. ASSUME NEW n \in 1 .. MaxPacket, NEW w \in Offsets, NEW base \in TimeBases, Send(n, w, base)
      PROVE  FlowInv'
  <2>1. /\ UNCHANGED <<mode, pushed, received, session>> /\ bridge'.output = bridge.output
        /\ bridge'.sessionDrained = bridge.sessionDrained
    BY <1>8, SendEffect
  <2>2. QED
    BY <1>3, <2>1
<1>9. ASSUME NEW e \in 0 .. MaxEpoch, NEW n \in 1 .. MaxPose, ApplyPose([epoch |-> e, sequence |-> n])
      PROVE  FlowInv'
  <2>1. UNCHANGED <<mode, bridge, pushed, received>>
    BY <1>9 DEF ApplyPose, history
  <2>2. CASE session = None
    <3>1. UNCHANGED session
      BY <1>9, <2>2 DEF ApplyPose
    <3>2. QED
      BY <1>3, <2>1, <3>1
  <2>3. CASE session # None
    <3>1. session \in Sessions /\ session' = [session EXCEPT !.accepted = n] /\ n \in 0 .. MaxPose
      BY <1>1, <1>9, <2>3, ConstantsAssumption DEF ApplyPose, Option
    <3>2. /\ session' \in Sessions /\ session'.last = session.last
          /\ session'.held = session.held /\ session'.blocks = session.blocks
      BY <3>1, SessionUpdates DEF Sessions
    <3>3. session' # None
      BY <3>2, NoneDiffers
    <3>4. Queued' = Queued
      BY <2>1, <2>3, <3>2, <3>3 DEF Queued, Blocks
    <3>5. QED
      BY <1>2, <2>1, <2>3, <3>2, <3>3, <3>4, FlowKept
  <2>4. QED
    BY <2>2, <2>3
<1>10. QED
  BY <1>4, <1>5, <1>6, <1>7, <1>8, <1>9

\* A block goes from the session to the output, or a frame to the host.
LEMMA FlowHandedOver ==
  ASSUME TypeInv, QueueInv, FlowInv, ReceiveQueued \/ PumpPending \/ ReturnFrame, ~failed'
  PROVE  FlowInv'
<1>1. /\ bridge \in Bridges /\ session \in Option(Sessions)
      /\ bridge.output \in Seq(Frames) /\ Blocks \in Seq(Frames)
  BY QueuedType DEF TypeInv, BridgeFits
<1>2. session # None /\ bridge.sessionDrained => session.held = None
  BY DEF FlowInv, HoldsLast
<1>3. UNCHANGED <<mode, pushed>>
  BY DEF ReceiveQueued, PumpPending, ReturnFrame
<1>4. ASSUME bridge.output # <<>>, Receives(Head(bridge.output)), UNCHANGED session,
             bridge' = [bridge EXCEPT !.output = Tail(@)]
      PROVE  FlowInv'
  <2>1. bridge'.output = Tail(bridge.output) /\ bridge'.sessionDrained = bridge.sessionDrained
    BY <1>1, <1>4 DEF Bridges
  <2>2. /\ Queued # <<>> /\ Head(Queued) = Head(bridge.output)
        /\ Tail(Queued) = Tail(bridge.output) \o Blocks
    BY <1>1, <1>4, FrontJoin DEF Queued
  <2>3. Queued' = Tail(Queued)
    BY <1>4, <2>1, <2>2 DEF Queued, Blocks
  <2>4. QED
    BY <1>2, <1>3, <1>4, <2>1, <2>2, <2>3, FlowReceived
<1>5. ASSUME PendingInput, session' = [session EXCEPT !.blocks = Tail(@), !.tail = TailPieces]
      PROVE  /\ session \in Sessions /\ session # None /\ session' # None
             /\ Blocks # <<>> /\ Blocks = session.blocks /\ Blocks' = Tail(Blocks)
             /\ session'.last = session.last /\ session'.held = session.held
  <2>1. session \in Sessions /\ session # None /\ session.blocks # <<>> /\ Blocks = session.blocks
    BY <1>1, <1>5 DEF PendingInput, Option, Blocks
  <2>2. Tail(session.blocks) \in Seq(Frames)
    BY <1>1, <2>1, HeadTailProperties
  <2>3. /\ session'.blocks = Tail(session.blocks)
        /\ session'.last = session.last /\ session'.held = session.held
    BY <1>5, <2>1 DEF Sessions
  <2>4. session' # None
    <3>1. [session EXCEPT !.blocks = Tail(session.blocks)] \in Sessions
      BY <2>1, <2>2, SessionUpdates
    <3>2. TailPieces \in 0 .. TailPieces
      BY Numbers
    <3>3. [[session EXCEPT !.blocks = Tail(session.blocks)] EXCEPT !.tail = TailPieces] \in Sessions
      BY <3>1, <3>2, SessionUpdates
    <3>4. session' = [[session EXCEPT !.blocks = Tail(session.blocks)] EXCEPT !.tail = TailPieces]
      BY <1>5
    <3>5. QED
      BY <3>3, <3>4, NoneDiffers
  <2>5. QED
    BY <2>1, <2>3, <2>4 DEF Blocks
<1>6. CASE ReceiveQueued
  BY <1>4, <1>6 DEF ReceiveQueued
<1>7. CASE PumpPending
  <2>1. PendingInput /\ DeliversBlock /\ UNCHANGED received
    BY <1>7 DEF PumpPending, Fails
  <2>2. bridge.output = <<>>
    BY <1>7, NoneDiffers DEF PumpPending, Pumping, QueueInv, Outcomes
  <2>3. /\ session # None /\ session' # None
        /\ Blocks # <<>> /\ Blocks = session.blocks /\ Blocks' = Tail(Blocks)
        /\ session'.last = session.last /\ session'.held = session.held
    BY <1>5, <2>1 DEF DeliversBlock
  <2>4. /\ bridge'.output = Append(<<>>, Head(Blocks))
        /\ bridge'.sessionDrained = bridge.sessionDrained
    BY <1>1, <2>1, <2>2, <2>3 DEF DeliversBlock, Bridges
  <2>5. Queued' = Queued
    <3>1. Append(<<>>, Head(Blocks)) \o Tail(Blocks) = Blocks
      BY <1>1, <2>3, FrontAgain
    <3>2. <<>> \o Blocks = Blocks
      BY <1>1, ConcatEmptySeq
    <3>3. QED
      BY <2>2, <2>3, <2>4, <3>1, <3>2 DEF Queued
  <2>6. QED
    BY <1>2, <1>3, <2>1, <2>3, <2>4, <2>5, FlowKept
<1>8. CASE ReturnFrame
  <2>1. CASE bridge.output # <<>>
    BY <1>4, <1>8, <2>1 DEF ReturnFrame
  <2>2. CASE bridge.output = <<>>
    <3>1. /\ PendingInput /\ Receives(Head(session.blocks)) /\ UNCHANGED bridge
          /\ session' = [session EXCEPT !.blocks = Tail(@), !.tail = TailPieces]
      BY <1>8, <2>2 DEF ReturnFrame
    <3>2. /\ session # None /\ session' # None
          /\ Blocks # <<>> /\ Blocks = session.blocks /\ Blocks' = Tail(Blocks)
          /\ session'.last = session.last /\ session'.held = session.held
      BY <1>5, <3>1
    <3>3. Queued = Blocks /\ Queued' = Tail(Blocks)
      <4>1. Tail(Blocks) \in Seq(Frames)
        BY <1>1, <3>2, HeadTailProperties
      <4>2. <<>> \o Blocks = Blocks /\ <<>> \o Tail(Blocks) = Tail(Blocks)
        BY <1>1, <4>1, ConcatEmptySeq
      <4>3. QED
        BY <2>2, <3>1, <3>2, <4>2 DEF Queued
    <3>4. Receives(Head(Queued)) /\ Queued # <<>> /\ Queued' = Tail(Queued)
      BY <3>1, <3>2, <3>3
    <3>5. QED
      BY <1>2, <1>3, <3>1, <3>2, <3>4, FlowReceived
  <2>3. QED
    BY <2>1, <2>2
<1>9. QED
  BY <1>6, <1>7, <1>8

\* Only a reset forgets a failure or lifts the poison.
LEMMA FailureStays ==
  ASSUME TypeInv, [Next]_vars, ~failed', ~poisoned',
         ~Flush,
         \A m \in Bytes, n \in 1 .. MaxPacket, w \in Offsets, base \in TimeBases :
           ~SendDiscontinuity(m, n, w, base)
  PROVE  /\ ~failed /\ ~poisoned
         /\ \/ RefuseSend \/ Receive \/ Drain \/ NotJoc \/ NeedMore \/ Idle \/ RouteAway \/ EndAgain
            \/ ReturnStatus
            \/ \E n \in 1 .. MaxPacket, w \in Offsets, base \in TimeBases : Send(n, w, base)
            \/ \E e \in 0 .. MaxEpoch, n \in 1 .. MaxPose : ApplyPose([epoch |-> e, sequence |-> n])
            \/ UNCHANGED vars
            \/ ReceiveQueued \/ PumpPending \/ ReturnFrame
            \/ PushUnit \/ DrainOwned \/ DrainPull
<1>1. CASE \/ RefusePoisoned \/ RefusePacket \/ RefuseBytes \/ RefuseStamp \/ LoseJoc
           \/ CreateFails \/ PushRefused \/ PushMissed \/ PushLate \/ FailDrain \/ Panic \/ OuterPanic
  BY <1>1 DEF RefusePoisoned, RefusePacket, RefuseBytes, RefuseStamp, LoseJoc, CreateFails,
              PushRefused, PushMissed, PushLate, FailDrain, Panic, OuterPanic, Fails
<1>2. CASE RefuseSend \/ Receive \/ Drain \/ ReceiveQueued \/ ReturnStatus
  BY <1>2 DEF RefuseSend, Receive, Drain, ReceiveQueued, ReturnStatus, history
<1>3. CASE NotJoc \/ NeedMore \/ Idle \/ RouteAway \/ EndAgain \/ DrainOwned \/ DrainPull
  BY <1>3 DEF NotJoc, NeedMore, Idle, RouteAway, EndAgain, DrainOwned, DrainPull, history
<1>4. CASE PumpPending \/ ReturnFrame
  BY <1>4 DEF PumpPending, ReturnFrame, Fails
<1>5. CASE PushUnit
  BY <1>5 DEF PushUnit, PushCommon
<1>6. ASSUME NEW n \in 1 .. MaxPacket, NEW w \in Offsets, NEW base \in TimeBases, Send(n, w, base)
      PROVE  ~failed /\ ~poisoned
  BY <1>6 DEF Send
<1>7. ASSUME NEW e \in 0 .. MaxEpoch, NEW n \in 1 .. MaxPose, ApplyPose([epoch |-> e, sequence |-> n])
      PROVE  ~failed /\ ~poisoned
  BY <1>7 DEF ApplyPose, history
<1>8. CASE UNCHANGED vars
  BY <1>8 DEF vars, history
<1>9. QED
  BY <1>1, <1>2, <1>3, <1>4, <1>5, <1>6, <1>7, <1>8 DEF Next, Pump, Return

LEMMA FlowStep ==
  ASSUME TypeInv, BytesInv, QueueInv, ~failed /\ ~poisoned => FlowInv, [Next]_vars,
         ~failed', ~poisoned'
  PROVE  FlowInv'
<1>1. CASE Flush \/ \E m \in Bytes, n \in 1 .. MaxPacket, w \in Offsets, base \in TimeBases :
                      SendDiscontinuity(m, n, w, base)
  BY <1>1, FlowReset
<1>2. CASE ~(Flush \/ \E m \in Bytes, n \in 1 .. MaxPacket, w \in Offsets, base \in TimeBases :
                        SendDiscontinuity(m, n, w, base))
  <2>1. FlowInv
    BY <1>2, FailureStays
  <2>2. CASE ReceiveQueued \/ PumpPending \/ ReturnFrame
    BY <2>1, <2>2, FlowHandedOver
  <2>3. CASE PushUnit
    BY <2>1, <2>3, FlowPushed
  <2>4. CASE DrainOwned \/ DrainPull
    BY <2>1, <2>4, FlowDrained
  <2>5. QED
    BY <1>2, <2>1, <2>2, <2>3, <2>4, FailureStays, FlowAside
<1>3. QED
  BY <1>1, <1>2

-----------------------------------------------------------------------------
(* The end of the stream *)

LEMMA AllKept ==
  ASSUME All, UNCHANGED <<bridge, at, start, pushed, received, failed>>
  PROVE  All'
BY DEF All

\* The pump reports the end only when every unit is out.
LEMMA EndReached ==
  ASSUME TypeInv, BytesInv, QueueInv, ~failed /\ ~poisoned => FlowInv,
         EndAgain \/ DrainOwned \/ DrainPull, outcome' = "eof"
  PROVE  All'
<1>1. /\ Pumping /\ ~PendingInput /\ bridge.staging = <<>> /\ bridge.classification # "other"
      /\ UNCHANGED <<at, start, pushed, received, failed>>
  BY DEF EndAgain, DrainOwned, DrainPull, MayDrain, Draining, Emptied, history
<1>2. bridge.output = <<>> /\ Queued = <<>> /\ ~poisoned
  BY <1>1, EmptyQueue DEF Pumping, QueueInv
<1>3. bridge \in Bridges /\ segment \in 0 .. MaxSegment /\ session \in Option(Sessions)
  BY DEF TypeInv, BridgeFits
<1>4. session # None => session.held \in Option(Units) /\ FramesOf(session.held) \in Seq(Frames)
  <2> SUFFICES ASSUME session # None
               PROVE  session.held \in Option(Units) /\ FramesOf(session.held) \in Seq(Frames)
    OBVIOUS
  <2>1. session.held \in Option(Units)
    BY <1>3 DEF Option, Sessions
  <2>2. QED
    BY <1>3, <2>1, FramesType
<1>5. session # None /\ FramesOf(session.held) = <<>> => session.held = None
  <2> SUFFICES ASSUME session # None, session.held # None  PROVE FramesOf(session.held) # <<>>
    OBVIOUS
  <2>1. session.held \in Units
    BY <1>4 DEF Option
  <2>2. CarriesNone(<<>>) /\ <<>> \in Seq(Frames)
    <3>1. Len(<<>>) = 0 /\ <<>> \in Seq(Frames)
      BY EmptySeq
    <3>2. QED
      BY <3>1 DEF CarriesNone
  <2>3. QED
    BY <1>3, <2>1, <2>2, FramesLast
<1>6. bridge'.staging = <<>> /\ bridge'.output = <<>> /\ (FlowInv => HeldUnits = 0)
  <2>1. CASE EndAgain
    <3>1. bridge'.staging = <<>> /\ bridge'.output = <<>>
      BY <1>1, <1>2, <1>3, <2>1 DEF EndAgain, Bridges
    <3>2. FlowInv => HeldUnits = 0
      BY <2>1 DEF EndAgain, FlowInv, HoldsLast, HeldUnits
    <3>3. QED
      BY <3>1, <3>2
  <2>2. CASE DrainOwned
    <3> DEFINE held == FramesOf(session.held)
               end == IF session.next > 0 /\ TailPieces > 0 THEN <<TailFrame(1)>> ELSE <<>>
               frames == held \o end
    <3>1. /\ session # None /\ bridge' = [bridge EXCEPT !.output = @ \o frames, !.sessionDrained = TRUE]
          /\ outcome' = IF frames = <<>> THEN "eof" ELSE "frame"
      BY <2>2 DEF DrainOwned, MayDrain, Draining, Ends
    <3>2. frames = <<>>
      BY <3>1
    <3>3. held \in Seq(Frames)
      BY <1>4, <3>1
    <3>4. end \in Seq(Frames)
      <4>1. 1 \in 1 .. Pieces + TailPieces
        BY Numbers
      <4>2. TailFrame(1) \in Frames
        BY <1>3, <4>1, TailFrameType
      <4> HIDE DEF held, frames
      <4>3. <<TailFrame(1)>> \in Seq(Frames) /\ <<>> \in Seq(Frames)
        BY <4>2, EmptySeq
      <4>4. QED
        BY <4>3
    <3> HIDE DEF held, end
    <3>5. held = <<>>
      BY <3>2, <3>3, <3>4, FrontJoin
    <3>6. bridge'.staging = <<>> /\ bridge'.output = bridge.output \o <<>>
      BY <1>1, <1>3, <3>1, <3>2 DEF Bridges
    <3>7. <<>> \o <<>> = <<>>
      BY EmptySeq, ConcatEmptySeq
    <3>8. QED
      BY <1>2, <1>5, <3>1, <3>5, <3>6, <3>7 DEF HeldUnits, held
  <2>3. CASE DrainPull
    <3>1. /\ session # None /\ FramesOf(session.held) = <<>> /\ bridge' = EofReached(bridge)
      BY <2>3 DEF DrainPull, MayDrain, Draining, Ends
    <3>2. bridge'.staging = <<>> /\ bridge'.output = <<>>
      BY <1>1, <1>2, <1>3, <3>1 DEF EofReached, Bridges
    <3>3. QED
      BY <1>5, <3>1, <3>2 DEF HeldUnits
  <2>4. QED
    BY <2>1, <2>2, <2>3
<1>7. /\ start \in Nat /\ at \in Nat /\ pushed \in Seq(Entries) /\ Len(pushed) \in Nat
      /\ received \in Seq(Units) /\ UnitBytes \in Nat
  BY QueuedType, Numbers DEF TypeInv
<1>8. at = First
  <2>1. UnitBytes * Len(pushed) \in Nat
    BY <1>7
  <2>2. First \in Nat
    BY <1>7, <2>1 DEF First
  <2>3. First <= at /\ bridge.staging = Packet(First, at - First)
    BY <1>1 DEF BytesInv
  <2> DEFINE n == at - First
  <2>4. n \in Nat
    BY <1>7, <2>2, <2>3
  <2>5. bridge.staging = Packet(First, n)
    BY <2>3
  <2> HIDE DEF n
  <2>6. n = Len(<<>>) /\ Len(<<>>) = 0
    BY <1>1, <2>2, <2>4, <2>5, PacketProperties, EmptySeq
  <2>7. QED
    BY <1>7, <2>2, <2>6 DEF n
<1>9. ~failed => received = [i \in 1 .. Len(pushed) |-> pushed[i].unit]
  <2> SUFFICES ASSUME ~failed  PROVE received = [i \in 1 .. Len(pushed) |-> pushed[i].unit]
    OBVIOUS
  <2>1. FlowInv
    BY <1>2
  <2>2. Len(pushed) = Len(received) + 0
    BY <1>2, <1>6, <2>1, NothingOut
  <2>3. Len(pushed) = Len(received)
    BY <1>7, <2>2, LenProperties
  <2>4. \A i \in 1 .. Len(pushed) : received[i] = pushed[i].unit
    BY <2>1, <2>3 DEF FlowInv
  <2>5. received = [i \in 1 .. Len(received) |-> received[i]]
    BY <1>7, LenProperties
  <2>6. QED
    BY <2>3, <2>4, <2>5
<1>10. QED
  BY <1>1, <1>6, <1>8, <1>9 DEF All, First

LEMMA EofReset ==
  ASSUME TypeInv, QueueInv,
         Flush \/ \E m \in Bytes, n \in 1 .. MaxPacket, w \in Offsets, base \in TimeBases :
                    SendDiscontinuity(m, n, w, base)
  PROVE  (call' # None /\ outcome' = "eof" => All') /\ (call' = None => All')
<1>1. call = None /\ outcome = None
  BY DEF Flush, SendDiscontinuity, MaySend, QueueInv
<1>2. CASE Cleared
  <2>1. /\ pushed' = <<>> /\ received' = <<>> /\ bridge' = Fresh /\ at' = start' /\ start' \in Nat
    BY <1>2, ResetEffect DEF Cleared
  <2>2. bridge'.staging = <<>> /\ bridge'.output = <<>>
    BY <2>1 DEF Fresh
  <2>3. Len(pushed') = 0
    BY <2>1, EmptySeq
  <2> DEFINE m == start'
  <2>4. m + UnitBytes * 0 = m
    <3>1. m \in Nat
      BY <2>1
    <3> HIDE DEF m
    <3>2. QED
      BY <3>1, Numbers
  <2>5. received' = [i \in 1 .. Len(pushed') |-> pushed'[i].unit]
    <3>1. 1 .. Len(pushed') = {}
      BY <2>3
    <3>2. QED
      BY <2>1, <3>1
  <2>6. QED
    BY <2>1, <2>2, <2>3, <2>4, <2>5 DEF All
<1>3. ASSUME NEW n \in 1 .. MaxPacket, NEW w \in Offsets, NEW base \in TimeBases, Restarted(n, w, base)
      PROVE  call' # None /\ outcome' # "eof"
  <2>1. call' \in Calls /\ outcome' = None /\ "eof" \in Outcomes
    BY <1>1, <1>3 DEF Restarted, Calls, Outcomes
  <2>2. QED
    BY <2>1, NoneDiffers
<1>4. \/ Cleared
      \/ \E n \in 1 .. MaxPacket, w \in Offsets, base \in TimeBases : Restarted(n, w, base)
  BY ResetEffect
<1>5. QED
  BY <1>2, <1>3, <1>4

LEMMA EofStep ==
  ASSUME TypeInv, BytesInv, QueueInv, EofInv, [Next]_vars
  PROVE  EofInv'
<1> DEFINE Ended == call # None /\ outcome = "eof" => All
           Told == call = None /\ result = "eof" => All
<1>1. Ended /\ Told /\ (~failed /\ ~poisoned => FlowInv)
  BY DEF EofInv
<1>2. ~failed' /\ ~poisoned' => FlowInv'
  BY <1>1, FlowStep
<1> SUFFICES Ended' /\ Told'
  BY <1>2 DEF EofInv
<1>3. "eof" # None
  <2>1. "eof" \in Outcomes
    BY DEF Outcomes
  <2>2. QED
    BY <2>1, NoneDiffers
<1>4. \A c \in Calls : c # None
  BY NoneDiffers
<1>5. call = None => outcome = None
  BY DEF QueueInv
<1>6. CASE Flush \/ \E m \in Bytes, n \in 1 .. MaxPacket, w \in Offsets, base \in TimeBases :
                      SendDiscontinuity(m, n, w, base)
  BY <1>6, EofReset
<1>7. CASE RefusePoisoned \/ RefuseSend \/ RefusePacket \/ ReceiveQueued
  BY <1>7 DEF RefusePoisoned, RefuseSend, RefusePacket, MaySend, ReceiveQueued
<1>8. CASE \/ Receive
           \/ \E n \in 1 .. MaxPacket, w \in Offsets, base \in TimeBases : Send(n, w, base)
  <2>1. call' # None /\ outcome' = None
    BY <1>4, <1>5, <1>8 DEF Receive, Send, MaySend, Calls
  <2>2. QED
    BY <1>3, <2>1
<1>9. CASE Drain
  <2>1. \/ call' # None /\ outcome' = None
        \/ call' = None /\ result' = "wouldblock"
    BY <1>4, <1>5, <1>9 DEF Drain, Calls
  <2>2. QED
    BY <1>3, <2>1
<1>10. CASE \/ PumpPending \/ NotJoc \/ NeedMore \/ RefuseBytes \/ RefuseStamp \/ RouteAway \/ LoseJoc
            \/ CreateFails \/ PushRefused \/ PushMissed \/ PushLate \/ Idle \/ FailDrain
  <2>1. Pumping /\ call' = call
    BY <1>10 DEF PumpPending, NotJoc, NeedMore, RefuseBytes, RefuseStamp, RouteAway, LoseJoc,
                 CreateFails, PushRefused, PushMissed, PushLate, Idle, FailDrain, Pushing,
                 Assembling, Draining, Emptied, Ends, Fails
  <2>2. outcome' # "eof"
    BY <1>10 DEF PumpPending, NotJoc, NeedMore, RefuseBytes, RefuseStamp, RouteAway, LoseJoc,
                 CreateFails, PushRefused, PushMissed, PushLate, Idle, FailDrain, Ends, Fails
  <2>3. QED
    BY <2>1, <2>2 DEF Pumping
<1>11. CASE PushUnit
  <2>1. Pumping /\ call' = call
    BY <1>11 DEF PushUnit, Pushing, Assembling, AfterPush, Ends, calling
  <2>2. outcome' \in {"frame", None}
    BY <1>11, <2>1 DEF PushUnit, AfterPush, Ends, calling, Pumping
  <2>3. QED
    BY <1>3, <2>1, <2>2 DEF Pumping
<1>12. CASE EndAgain \/ DrainOwned \/ DrainPull
  <2>1. Pumping /\ call' = call
    BY <1>12 DEF EndAgain, DrainOwned, DrainPull, MayDrain, Draining, Emptied, Ends
  <2>2. outcome' = "eof" => All'
    BY <1>1, <1>12, EndReached
  <2>3. QED
    BY <2>1, <2>2 DEF Pumping
<1>13. CASE ReturnStatus
  <2>1. /\ call # None /\ call' = None /\ (result' = "eof" => outcome = "eof")
        /\ UNCHANGED <<bridge, at, start, pushed, received, failed>>
    BY <1>13 DEF ReturnStatus, Returns, history
  <2>2. QED
    BY <1>1, <2>1, AllKept
<1>14. CASE ReturnFrame \/ Panic
  BY <1>14 DEF ReturnFrame, Panic, Returns
<1>15. ASSUME UNCHANGED <<bridge, at, start, pushed, received, failed, call, outcome, result>>
       PROVE  Ended' /\ Told'
  BY <1>1, <1>15, AllKept
<1>16. CASE \/ OuterPanic \/ UNCHANGED vars
            \/ \E e \in 0 .. MaxEpoch, n \in 1 .. MaxPose : ApplyPose([epoch |-> e, sequence |-> n])
  BY <1>15, <1>16 DEF OuterPanic, ApplyPose, vars, calling, history
<1>17. QED
  BY <1>6, <1>7, <1>8, <1>9, <1>10, <1>11, <1>12, <1>13, <1>14, <1>16 DEF Next, Pump, Return

LEMMA InitEof == Init => EofInv
<1> SUFFICES ASSUME Init  PROVE EofInv
  OBVIOUS
<1>1. call = None /\ result = None
  BY DEF Init
<1>2. "eof" \in Outcomes
  BY DEF Outcomes
<1>3. QED
  BY <1>1, <1>2, InitFlow, NoneDiffers DEF EofInv

-----------------------------------------------------------------------------
(* The theorems *)

LEMMA InitAll == Init => IInv
<1> SUFFICES ASSUME Init  PROVE IInv
  OBVIOUS
<1>1. bridge.output = <<>> /\ Len(<<>>) = 0 /\ session = None /\ accepted = 0 /\ pose = None
  BY EmptySeq DEF Init, Fresh
<1>2. SegmentInv
  BY <1>1 DEF SegmentInv, OfSegment
<1>3. PoseInv
  BY <1>1 DEF PoseInv, PoseKept
<1>4. QED
  BY <1>2, <1>3, InitType, InitBytes, InitStamps, InitRun, InitQueue, InitEof DEF IInv

LEMMA NextAll == IInv /\ [Next]_vars => IInv'
<1> SUFFICES ASSUME IInv, [Next]_vars  PROVE IInv'
  OBVIOUS
<1>1. TypeInv /\ BytesInv /\ SegmentInv /\ (FineBases => StampInv) /\ RunInv /\ PoseInv /\ QueueInv /\ EofInv
  BY DEF IInv
<1>2. TypeInv' /\ BytesInv'
  BY <1>1, TypeStep, BytesStep
<1>3. SegmentInv'
  BY <1>1, SegmentStep
<1>4. FineBases => StampInv'
  BY <1>1, StampStep
<1>5. RunInv' /\ PoseInv'
  BY <1>1, RunStep, PoseStep
<1>6. QueueInv' /\ EofInv'
  BY <1>1, QueueStep, EofStep
<1>7. (FineBases => StampInv)'
  BY <1>4 DEF FineBases
<1>8. QED
  BY <1>2, <1>3, <1>5, <1>6, <1>7 DEF IInv

\* Every reachable state of the bridge satisfies the invariant.
THEOREM Invariant == Spec => []IInv
BY InitAll, NextAll, PTL DEF Spec

\* Every variable keeps its type; the staging and the epochs stay within their
\* bounds, whatever a host sends (append_packet, reset_inner).
THEOREM TypeCorrect == Spec => []TypeOK
<1>1. IInv => TypeOK
  BY DEF IInv, TypeInv, BridgeFits, CallFits, TypeOK
<1>2. QED
  BY <1>1, Invariant, PTL

\* No unit is dropped, torn or taken twice, for packets of every size and every
\* sequence of refusals and resets, and no PCM of an earlier segment is handed
\* over: what is staged is what the session has not taken (pump).
THEOREM UnitsInOrderHolds == Spec => []UnitsInOrder
<1>1. IInv => UnitsInOrder
  BY DEF IInv, BytesInv, First, SegmentInv, OfSegment, UnitsInOrder
<1>2. QED
  BY <1>1, Invariant, PTL

\* The newest pose accepted in an epoch is with the session or waits for it, in
\* every order of poses, packets, resets and panics
\* (apply_prepared_listener_orientation, ensure_session).
THEOREM PoseKeptHolds == Spec => []PoseKept
<1>1. IInv => PoseKept
  BY DEF IInv, PoseInv
<1>2. QED
  BY <1>1, Invariant, PTL

\* A unit in which a stamped packet began is taken at the time the host meant, for
\* every time base whose ticks are no longer than the unit of time, and until a
\* call has failed the times of the units run on (resolve_timestamp).
THEOREM StampsHonouredHolds ==
  ASSUME FineBases
  PROVE  Spec => []StampsHonoured
<1>1. IInv => StampsHonoured
  BY DEF IInv, StampInv, RunInv, StampsHonoured
<1>2. QED
  BY <1>1, Invariant, PTL

\* The end of the stream is reported when nothing is staged or queued, and, when no
\* call has failed, when every unit sent has been taken and received whole
\* (drain, receive_frame).
THEOREM EofMeansAllHolds == Spec => []EofMeansAll
<1>1. IInv => EofMeansAll
  BY DEF IInv, EofInv, All, EofMeansAll
<1>2. QED
  BY <1>1, Invariant, PTL
=============================================================================
