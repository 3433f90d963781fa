--------------------------- MODULE DecodingProofs ---------------------------
(***************************************************************************)
(* Proofs about what the stages of decoding inherit, for every number of   *)
(* blocks, units and calls: the fields of an audio block, the delays of    *)
(* the substreams, the filters and the matrix of the objects, and the      *)
(* binding of the objects to metadata.                                     *)
(***************************************************************************)
EXTENDS MC_Decoding, SequenceTheorems, WellFoundedInduction, TLAPS

-----------------------------------------------------------------------------
(***************************************************************************)
(* PayloadDecoder                                                          *)
(***************************************************************************)
Returned ==
  [name : Nat \ {0}, sequence : 0 .. MaxSequence, channels : DownmixWidths, objects : ObjectCounts]

\* The state of the JOC decoder is that of the last frame returned.
Carried ==
  IF previousFrame = NoFrame THEN FreshJoc
  ELSE [sequence |-> previousFrame.sequence, channels |-> previousFrame.channels,
        matrices |-> [objects |-> previousFrame.objects, channels |-> previousFrame.channels,
                      value |-> sentLast],
        analysis |-> [channels |-> previousFrame.channels, from |-> previousFrame.name],
        synthesis |-> [objects |-> previousFrame.objects, from |-> previousFrame.name]]

\* What a running call has on its copy.
Decoded(f) ==
  [frame |-> f,
   starts |-> [analysis |-> Analysis(f), synthesis |-> Synthesis(f), value |-> Previous(f)],
   coefficients |-> Interpolated(f.object, Previous(f), f.slots),
   joc |-> [sequence |-> f.sequence, channels |-> f.channels,
            matrices |-> [objects |-> f.objects, channels |-> f.channels,
                          value |-> CarriedForward(f.object, Previous(f))],
            analysis |-> [channels |-> f.channels, from |-> calls],
            synthesis |-> [objects |-> f.objects, from |-> calls]]]

JocInv ==
  /\ calls \in Nat /\ sentLast \in Coefficients
  /\ previousFrame = NoFrame \/ previousFrame \in Returned
  /\ previousFrame = NoFrame => sentLast = 0
  /\ joc = Carried
  /\ Busy => /\ calls > 0 /\ flushed = NotFlushed
             /\ decoding.frame \in Inputs /\ decoding = Decoded(decoding.frame)
  /\ flushed # NotFlushed => flushed = LastReturned

\* The decoder's account of the binding and the scene's, with the frames returned.
BindingInv ==
  /\ previousFrame = NoFrame \/ previousFrame \in Returned
  /\ calls \in Nat /\ (Busy => decoding.frame \in Inputs /\ calls > 0)
  /\ IF previousFrame = NoFrame
     THEN scene = NoScene /\ binding = FreshBinding /\ candidates = {}
     ELSE /\ scene \in [objects : ObjectCounts, profile : Profiles \cup {Unbound},
                        admitted : {"yes", "no"}]
          /\ scene.admitted = IF binding.admitted THEN "yes" ELSE "no"
          /\ binding.admitted \in BOOLEAN /\ candidates # {}
          /\ binding.admitted => /\ candidates = {binding.profile} /\ binding.profile \in Profiles
                                 /\ scene.profile = binding.profile
          /\ ~binding.admitted => \A p \in Profiles : candidates # {p}

PayloadInv == JocInv /\ BindingInv

-----------------------------------------------------------------------------
(* The binding *)

LEMMA Positive ==
  ASSUME NEW S, S \subseteq Nat \ {0}, NEW x \in S  PROVE x \in Nat /\ x > 0
OBVIOUS

LEMMA PayloadFacts ==
  /\ MaxSequence \in Nat /\ MaxSequence > 0
  /\ \A f \in Inputs : /\ f.sequence \in 0 .. MaxSequence /\ f.channels \in Nat /\ f.channels > 0
                       /\ f.objects \in Nat /\ f.objects > 0 /\ f.slots \in Nat /\ f.slots > 0
                       /\ f.object \in Objects
                       /\ f.channels \in DownmixWidths /\ f.objects \in ObjectCounts
                       /\ f.slots \in Timeslots
  /\ 0 \in Coefficients /\ Coefficients \subseteq Int
  /\ Unbound \notin Profiles
  /\ 0 \notin ObjectCounts
<1>1. DownmixWidths \subseteq Nat \ {0} /\ ObjectCounts \subseteq Nat \ {0} /\ Timeslots \subseteq Nat \ {0}
  BY PayloadAssumption
<1>2. SequenceCounts \subseteq 0 .. MaxSequence
  BY PayloadAssumption
<1>3. ASSUME NEW f \in Inputs
      PROVE  /\ f.sequence \in 0 .. MaxSequence /\ f.channels \in Nat /\ f.channels > 0
             /\ f.objects \in Nat /\ f.objects > 0 /\ f.slots \in Nat /\ f.slots > 0
             /\ f.object \in Objects
             /\ f.channels \in DownmixWidths /\ f.objects \in ObjectCounts
             /\ f.slots \in Timeslots
  <2>1. f.channels \in DownmixWidths /\ f.objects \in ObjectCounts /\ f.slots \in Timeslots
        /\ f.sequence \in SequenceCounts /\ f.object \in Objects
    BY DEF Inputs
  <2>2. f.channels \in Nat /\ f.channels > 0
    BY <1>1, <2>1, Positive
  <2>3. f.objects \in Nat /\ f.objects > 0
    BY <1>1, <2>1, Positive
  <2>4. f.slots \in Nat /\ f.slots > 0
    BY <1>1, <2>1, Positive
  <2>5. f.sequence \in 0 .. MaxSequence
    BY <1>2, <2>1
  <2>6. QED
    BY <2>1, <2>2, <2>3, <2>4, <2>5
<1>4. MaxSequence \in Nat /\ MaxSequence > 0
  BY PayloadAssumption
<1>5. QED
  BY <1>1, <1>3, <1>4, PayloadAssumption

LEMMA ReturnedFrame ==
  ASSUME NEW f \in Inputs, NEW n \in Nat \ {0}
  PROVE  LET r == [name |-> n, sequence |-> f.sequence, channels |-> f.channels, objects |-> f.objects]
         IN  r \in Returned /\ r # NoFrame
<1> DEFINE r == [name |-> n, sequence |-> f.sequence, channels |-> f.channels, objects |-> f.objects]
<1>1. r \in Returned
  BY PayloadFacts DEF Returned
<1>2. r.name # NoFrame.name
  BY DEF NoFrame
<1>3. QED
  BY <1>1, <1>2

\* The account of the decoder after a frame, field by field.
LEMMA NextBindingIs ==
  ASSUME NEW candidate, binding.admitted \in BOOLEAN
  PROVE  LET next == NextBinding(candidate)
             fits == /\ binding.admitted /\ candidate # Unbound
                     /\ binding.profile \in {Unbound, candidate}
         IN  /\ next.admitted \in BOOLEAN /\ (next.admitted <=> fits)
             /\ next.profile = IF binding.profile = Unbound /\ fits THEN candidate ELSE binding.profile
  BY Zenon DEF NextBinding

LEMMA AppendBinding ==
  ASSUME BindingInv, Busy, NEW candidate \in Candidates(decoding.frame), AppendFrame(candidate)
  PROVE  BindingInv'
<1> DEFINE f == decoding.frame
<1>1. f \in Inputs /\ calls \in Nat \ {0} /\ f.objects \in ObjectCounts /\ calls' = calls
  BY PayloadFacts DEF BindingInv, AppendFrame
<1>2. candidate \in Profiles \cup {Unbound}
  BY DEF Candidates
<1>3. previousFrame' \in Returned /\ previousFrame' # NoFrame
  BY <1>1, ReturnedFrame DEF AppendFrame
<1>4. ~Busy'
  BY DEF AppendFrame, Busy
<1>5. scene' = Appended(Builder, candidate) /\ binding' = NextBinding(candidate)
      /\ candidates' = candidates \cup {candidate}
  BY DEF AppendFrame
<1>6. CASE previousFrame = NoFrame
  <2>1. scene = NoScene /\ binding = FreshBinding /\ candidates = {}
    BY <1>6 DEF BindingInv
  <2>2. Builder = [objects |-> f.objects, profile |-> Unbound, admitted |-> "unknown"]
    BY <2>1 DEF Builder, NewScene
  <2>3. Pinned(Builder, candidate) = [objects |-> f.objects, profile |-> candidate, admitted |-> "unknown"]
    BY <2>2 DEF Pinned
  <2>4. scene' = [objects |-> f.objects, profile |-> candidate,
                  admitted |-> IF candidate # Unbound THEN "yes" ELSE "no"]
    BY <1>5, <2>2, <2>3 DEF Appended
  <2>5. binding'.admitted \in BOOLEAN /\ (binding'.admitted <=> candidate # Unbound)
        /\ (candidate # Unbound => binding'.profile = candidate)
    <3>1. binding.profile = Unbound /\ binding.admitted = TRUE
      BY <2>1 DEF FreshBinding
    <3>2. binding.admitted \in BOOLEAN
      BY <3>1
    <3> DEFINE next == NextBinding(candidate)
               fits == /\ binding.admitted /\ candidate # Unbound
                       /\ binding.profile \in {Unbound, candidate}
    <3>3. /\ next.admitted \in BOOLEAN /\ (next.admitted <=> fits)
          /\ next.profile = IF binding.profile = Unbound /\ fits THEN candidate ELSE binding.profile
      BY <3>2, NextBindingIs
    <3>4. fits <=> candidate # Unbound
      BY <3>1
    <3>5. binding' = next
      BY <1>5
    <3> HIDE DEF next, fits
    <3>6. binding'.admitted \in BOOLEAN /\ (binding'.admitted <=> candidate # Unbound)
      BY <3>3, <3>4, <3>5, Zenon
    <3>7. candidate # Unbound => binding'.profile = candidate
      BY <3>1, <3>3, <3>4, <3>5
    <3>8. QED
      BY <3>6, <3>7
  <2>6. candidates' = {candidate}
    BY <1>5, <2>1
  <2>7. scene' \in [objects : ObjectCounts, profile : Profiles \cup {Unbound}, admitted : {"yes", "no"}]
    BY <1>1, <1>2, <2>4
  <2>8. CASE candidate = Unbound
    BY <1>1, <1>3, <1>4, <2>4, <2>5, <2>6, <2>7, <2>8, PayloadFacts DEF BindingInv
  <2>9. CASE candidate # Unbound
    BY <1>1, <1>2, <1>3, <1>4, <2>4, <2>5, <2>6, <2>7, <2>9, PayloadFacts DEF BindingInv
  <2>10. QED
    BY <2>8, <2>9
<1>7. CASE previousFrame # NoFrame
  <2>0. binding.admitted \in BOOLEAN
    BY <1>7 DEF BindingInv
  <2>1. scene \in [objects : ObjectCounts, profile : Profiles \cup {Unbound}, admitted : {"yes", "no"}]
        /\ scene.admitted = (IF binding.admitted THEN "yes" ELSE "no")
    BY <1>7 DEF BindingInv
  <2>2. Builder = scene /\ Pinned(Builder, candidate) = scene
    <3>1. scene.objects # NoScene.objects
      BY <2>1, PayloadFacts DEF NoScene
    <3>2. Builder = scene
      BY <3>1 DEF Builder
    <3>3. QED
      BY <2>1, <3>2 DEF Pinned
  <2> DEFINE fits == candidate # Unbound /\ scene.profile \in {Unbound, candidate}
  <2>3. scene' = [scene EXCEPT !.admitted = IF scene.admitted # "no" /\ fits THEN "yes" ELSE "no"]
    BY <1>5, <2>2 DEF Appended
  <2>4. scene' \in [objects : ObjectCounts, profile : Profiles \cup {Unbound}, admitted : {"yes", "no"}]
        /\ scene'.profile = scene.profile
        /\ scene'.admitted = (IF scene.admitted # "no" /\ fits THEN "yes" ELSE "no")
    BY <2>1, <2>3
  <2>5. CASE ~binding.admitted
    <3>1. ~binding'.admitted /\ binding'.admitted \in BOOLEAN /\ scene'.admitted = "no"
      BY <1>5, <2>0, <2>1, <2>4, <2>5, NextBindingIs
    <3>2. \A p \in Profiles : candidates' # {p}
      BY <1>5, <1>7, <2>5 DEF BindingInv
    <3>3. QED
      BY <1>1, <1>3, <1>4, <1>5, <2>4, <3>1, <3>2 DEF BindingInv
  <2>6. CASE binding.admitted
    <3>1. candidates = {binding.profile} /\ binding.profile \in Profiles /\ scene.profile = binding.profile
      BY <1>7, <2>6 DEF BindingInv
    <3>2. binding.profile # Unbound
      BY <3>1, PayloadFacts
    <3>3. CASE candidate = binding.profile
      <4>1. binding'.admitted /\ binding'.admitted \in BOOLEAN /\ binding'.profile = binding.profile
        BY <1>5, <2>0, <2>6, <3>2, <3>3, NextBindingIs
      <4>2. scene'.admitted = "yes"
        BY <2>1, <2>4, <2>6, <3>1, <3>2, <3>3
      <4>3. candidates' = {binding.profile}
        BY <1>5, <3>1, <3>3
      <4>4. QED
        BY <1>1, <1>3, <1>4, <2>4, <3>1, <4>1, <4>2, <4>3 DEF BindingInv
    <3>4. CASE candidate # binding.profile
      <4>1. ~binding'.admitted /\ binding'.admitted \in BOOLEAN
        BY <1>5, <2>0, <3>2, <3>4, NextBindingIs
      <4>2. scene'.admitted = "no"
        BY <2>4, <3>1, <3>2, <3>4
      <4>3. \A p \in Profiles : candidates' # {p}
        BY <1>5, <3>1, <3>4
      <4>4. QED
        BY <1>1, <1>3, <1>4, <1>5, <2>4, <4>1, <4>2, <4>3 DEF BindingInv
    <3>5. QED
      BY <3>3, <3>4
  <2>7. QED
    BY <2>0, <2>5, <2>6
<1>8. QED
  BY <1>6, <1>7

LEMMA BindingStep ==
  ASSUME BindingInv, [PayloadNext]_payloadVars  PROVE BindingInv'
<1>1. ASSUME NEW f \in Inputs, DecodeJoc(f)  PROVE BindingInv'
  <2>1. decoding'.frame = f
    BY <1>1 DEF DecodeJoc
  <2>2. calls' \in Nat /\ calls' > 0 /\ UNCHANGED <<scene, binding, previousFrame, candidates>>
    BY <1>1 DEF DecodeJoc, BindingInv
  <2>3. QED
    BY <1>1, <2>1, <2>2 DEF BindingInv
<1>2. ASSUME Busy, NEW candidate \in Candidates(decoding.frame), AppendFrame(candidate)  PROVE BindingInv'
  BY <1>2, AppendBinding
<1>3. ASSUME Busy, NEW candidate \in Candidates(decoding.frame), FailFrame(candidate)  PROVE BindingInv'
  <2>1. ~Busy' /\ UNCHANGED <<previousFrame, binding, candidates, calls>>
    BY <1>3 DEF FailFrame, Busy
  <2>2. scene' = scene
    <3>1. CASE previousFrame = NoFrame
      BY <1>3, <3>1 DEF BindingInv, FailFrame, LeftBehind
    <3>2. CASE previousFrame # NoFrame
      <4>1. scene.admitted # "unknown"
        BY <3>2 DEF BindingInv
      <4>2. QED
        BY <1>3, <4>1 DEF FailFrame, LeftBehind, Pinned
    <3>3. QED
      BY <3>1, <3>2
  <2>3. QED
    BY <2>1, <2>2 DEF BindingInv
<1>4. CASE FinishPayload
  BY <1>4 DEF FinishPayload, BindingInv, Busy
<1>5. CASE NewPayloadDecoder
  BY <1>5 DEF NewPayloadDecoder, BindingInv, Busy
<1>6. CASE UNCHANGED payloadVars
  BY <1>6 DEF payloadVars, BindingInv, Busy
<1>7. QED
  BY <1>1, <1>2, <1>3, <1>4, <1>5, <1>6 DEF PayloadNext

-----------------------------------------------------------------------------
(* The interpolation *)

\* Division with remainder by a positive number.
LEMMA DivisionWithRemainder ==
  ASSUME NEW n \in Int, NEW d \in Nat \ {0}
  PROVE  /\ n \div d \in Int /\ n % d \in 0 .. d - 1
         /\ n = d * (n \div d) + (n % d)
  BY SMT

\* The only multiple of d closer to 0 than d is 0.
LEMMA SmallMultiple ==
  ASSUME NEW a \in Int, NEW d \in Nat \ {0}, -d < a * d, a * d < d
  PROVE  a = 0
<1>1. CASE a >= 1
  <2>1. a * d >= d
    BY <1>1, Z3
  <2>2. QED
    BY <2>1
<1>2. CASE a <= -1
  <2>1. a * d <= -d
    BY <1>2, Z3
  <2>2. QED
    BY <2>1
<1>3. QED
  BY <1>1, <1>2

LEMMA ExactDivision ==
  ASSUME NEW k \in Int, NEW d \in Nat \ {0}
  PROVE  (d * k) \div d = k
<1> DEFINE n == d * k
           v == n \div d
           w == n % d
<1>1. n \in Int
  OBVIOUS
<1>2. v \in Int /\ w \in 0 .. d - 1 /\ n = d * v + w
  BY <1>1, DivisionWithRemainder
<1> HIDE DEF v, w
<1>3. (k - v) * d = w
  <2>1. (k - v) * d = d * k - d * v
    BY <1>2
  <2>2. d * k \in Int /\ d * v \in Int
    BY <1>2
  <2>3. QED
    BY <1>2, <2>1, <2>2
<1>4. k - v = 0
  BY <1>2, <1>3, SmallMultiple
<1>5. QED
  BY <1>2, <1>4 DEF v

\* Between values that differ by a multiple of the number of steps, the steps are equal.
LEMMA EqualSteps ==
  ASSUME NEW a \in Int, NEW b \in Int, NEW n \in Nat \ {0}, (b - a) % n = 0
  PROVE  \E k \in Int : b = a + n * k /\ \A t \in Nat : Towards(a, b, t, n) = a + t * k
<1> DEFINE k == (b - a) \div n
<1>1. k \in Int /\ b - a = n * k + ((b - a) % n)
  BY DivisionWithRemainder
<1> HIDE DEF k
<1>2. n * k \in Int /\ b - a = n * k
  BY <1>1
<1>3. ASSUME NEW t \in Nat  PROVE Towards(a, b, t, n) = a + t * k
  <2>1. t * k \in Int
    BY <1>1
  <2>2. t * (b - a) = n * (t * k)
    <3>1. t * (n * k) = n * (t * k)
      BY <1>1
    <3>2. QED
      BY <1>2, <3>1
  <2>3. (n * (t * k)) \div n = t * k
    BY <2>1, ExactDivision
  <2>4. QED
    BY <2>2, <2>3 DEF Towards
<1>4. b = a + n * k
  BY <1>2
<1>5. QED
  BY <1>1, <1>3, <1>4

\* What the frame is built from: EvenSteps for one data point and for two.
LEMMA EvenOne ==
  ASSUME NEW c, NEW before, NEW smooth, NEW slots \in Nat \ {0}, Len(smooth) = slots,
         smooth[slots] = c, NEW k,
         \A t \in 1 .. slots : smooth[t] - (IF t - 1 = 0 THEN before ELSE smooth[t - 1]) = k
  PROVE  EvenSteps(<<c>>, before, smooth)
<1> DEFINE At(t) == IF t = 0 THEN before ELSE smooth[t]
<1>1. \A t \in 0 + 1 .. slots : At(t) - At(t - 1) = k
  OBVIOUS
<1>2. Len(<<c>>) = 1 /\ <<c>>[1] = c
  OBVIOUS
<1>3. QED
  BY <1>1, <1>2 DEF EvenSteps

LEMMA EvenTwo ==
  ASSUME NEW c, NEW d, NEW before, NEW smooth, NEW slots \in Nat \ {0}, Len(smooth) = slots,
         slots \div 2 > 0 => smooth[slots \div 2] = c, smooth[slots] = d, NEW j, NEW k,
         \A t \in 1 .. slots \div 2 : smooth[t] - (IF t - 1 = 0 THEN before ELSE smooth[t - 1]) = j,
         slots = 1 \/ \A t \in (slots \div 2) + 1 .. slots :
                        smooth[t] - (IF t - 1 = 0 THEN before ELSE smooth[t - 1]) = k
  PROVE  EvenSteps(<<c, d>>, before, smooth)
<1> DEFINE At(t) == IF t = 0 THEN before ELSE smooth[t]
           middle == slots \div 2
           Even(first, last, point) ==
             last > first => /\ smooth[last] = point
                             /\ \A s, t \in first + 1 .. last : At(s) - At(s - 1) = At(t) - At(t - 1)
<1>1. middle \in Nat /\ (slots = 1 => middle = 0)
  OBVIOUS
<1>2. Even(0, middle, c)
  <2>1. \A t \in 0 + 1 .. middle : At(t) - At(t - 1) = j
    BY <1>1
  <2>2. middle > 0 => smooth[middle] = c
    OBVIOUS
  <2>3. QED
    BY <2>1, <2>2
<1>3. Even(middle, slots, d)
  <2>1. CASE slots = 1
    <3>1. \A s \in middle + 1 .. slots : s = 1
      BY <1>1, <2>1
    <3>2. QED
      BY <3>1
  <2>2. CASE slots # 1
    <3>1. \A t \in middle + 1 .. slots : At(t) - At(t - 1) = k
      BY <1>1, <2>2
    <3>2. QED
      BY <3>1
  <2>3. QED
    BY <2>1, <2>2
<1>4. Len(<<c, d>>) = 2 /\ 2 # 1 /\ <<c, d>>[1] = c /\ <<c, d>>[2] = d
  OBVIOUS
<1>5. QED
  BY <1>2, <1>3, <1>4, Zenon DEF EvenSteps

\* A smooth frame takes equal steps in each half and passes through its data points.
LEMMA SmoothSteps ==
  ASSUME NEW object \in Objects, object.slope = "smooth",
         NEW before \in Coefficients, NEW slots \in Timeslots
  PROVE  EvenSteps(object.points, before, Interpolated(object, before, slots))
<1> DEFINE middle == slots \div 2
           smooth == Interpolated(object, before, slots)
           At(t) == IF t = 0 THEN before ELSE smooth[t]
<1>1. slots \in Nat \ {0} /\ slots > 0 /\ Coefficients \subseteq Int /\ before \in Int
  BY PayloadFacts, PayloadAssumption, Positive
<1>2. middle \in Nat /\ middle < slots /\ slots - middle \in Nat \ {0}
  BY <1>1
<1>3. \/ \E c \in Coefficients : object.points = <<c>>
      \/ \E c, d \in Coefficients : object.points = <<c, d>>
  BY DEF Objects, Missing
<1>4. smooth = Smooth(object, before, slots)
  BY DEF Interpolated
<1>5. \A c, d \in Coefficients :
        /\ (d - c) % slots = 0 /\ (d - c) % (slots - middle) = 0
        /\ middle > 0 => (d - c) % middle = 0
  <2>1. slots \in {slots, slots - slots \div 2} \cup ({slots \div 2} \ {0})
        /\ slots - middle \in {slots, slots - slots \div 2} \cup ({slots \div 2} \ {0})
        /\ (middle > 0 => middle \in {slots, slots - slots \div 2} \cup ({slots \div 2} \ {0}))
    OBVIOUS
  <2>2. QED
    BY <2>1, PayloadAssumption, ZenonT(30)
<1> HIDE DEF middle, smooth
<1>6. ASSUME NEW c \in Coefficients, object.points = <<c>>
      PROVE  EvenSteps(<<c>>, before, smooth)
  <2>1. c \in Int /\ (c - before) % slots = 0
    BY <1>1, <1>5
  <2>2. PICK k \in Int : c = before + slots * k
                         /\ \A t \in Nat : Towards(before, c, t, slots) = before + t * k
    BY <1>1, <2>1, EqualSteps, ZenonT(30)
  <2>3. smooth = [t \in 1 .. slots |-> Towards(before, c, t, slots)]
    BY <1>4, <1>6 DEF Smooth
  <2>4. \A t \in 1 .. slots : smooth[t] = before + t * k
    BY <1>1, <2>2, <2>3
  <2>5. Len(smooth) = slots /\ smooth[slots] = c
    BY <1>1, <2>2, <2>3, <2>4
  <2>6. ASSUME NEW t \in 1 .. slots  PROVE smooth[t] - At(t - 1) = k
    <3>1. t * k \in Int /\ (t - 1) * k \in Int /\ (t - 1) * k = t * k - k /\ 0 * k = 0
      BY <1>1
    <3>2. smooth[t] = before + t * k
      BY <2>4
    <3>3. At(t - 1) = before + (t - 1) * k
      BY <1>1, <2>4, <3>1
    <3>4. QED
      BY <1>1, <3>1, <3>2, <3>3
  <2>7. QED
    BY <1>1, <2>5, <2>6, EvenOne
<1>7. ASSUME NEW c \in Coefficients, NEW d \in Coefficients, object.points = <<c, d>>
      PROVE  EvenSteps(<<c, d>>, before, smooth)
  <2>1. c \in Int /\ d \in Int /\ (d - c) % (slots - middle) = 0 /\ (middle > 0 => (c - before) % middle = 0)
    BY <1>1, <1>5
  <2>2. PICK k \in Int : d = c + (slots - middle) * k
                         /\ \A t \in Nat : Towards(c, d, t, slots - middle) = c + t * k
    BY <1>2, <2>1, EqualSteps, ZenonT(60)
  <2>3. smooth = [t \in 1 .. slots |-> IF t <= middle THEN Towards(before, c, t, middle)
                                      ELSE Towards(c, d, t - middle, slots - middle)]
    BY <1>4, <1>7 DEF Smooth, middle
  <2>4. Len(smooth) = slots
    BY <1>1, <2>3
  <2>5. \E j \in Int : /\ middle > 0 => smooth[middle] = c
                       /\ \A t \in 1 .. middle : smooth[t] - At(t - 1) = j
    <3>1. CASE middle = 0
      BY <3>1
    <3>2. CASE middle > 0
      <4>0. middle \in Nat \ {0} /\ (c - before) % middle = 0
        BY <1>2, <2>1, <3>2
      <4>1. PICK j \in Int : c = before + middle * j
                             /\ \A t \in Nat : Towards(before, c, t, middle) = before + t * j
        BY <1>1, <2>1, <4>0, EqualSteps, ZenonT(60)
      <4>2. \A t \in 1 .. middle : smooth[t] = before + t * j
        BY <1>1, <1>2, <2>3, <4>1
      <4>3. smooth[middle] = c
        BY <1>2, <3>2, <4>1, <4>2
      <4>4. ASSUME NEW t \in 1 .. middle  PROVE smooth[t] - At(t - 1) = j
        <5>1. t * j \in Int /\ (t - 1) * j \in Int /\ (t - 1) * j = t * j - j /\ 0 * j = 0
          BY <1>2
        <5>2. smooth[t] = before + t * j
          BY <4>2
        <5>3. At(t - 1) = before + (t - 1) * j
          BY <1>1, <1>2, <4>2, <5>1
        <5>4. QED
          BY <1>1, <5>1, <5>2, <5>3
      <4>5. QED
        BY <4>3, <4>4
    <3>3. QED
      BY <1>2, <3>1, <3>2
  <2>6. PICK j \in Int : /\ middle > 0 => smooth[middle] = c
                         /\ \A t \in 1 .. middle : smooth[t] - At(t - 1) = j
    BY <2>5
  <2>7. \A t \in middle + 1 .. slots : smooth[t] = c + (t - middle) * k
    <3>1. ASSUME NEW t \in middle + 1 .. slots  PROVE smooth[t] = c + (t - middle) * k
      <4>1. t \in 1 .. slots /\ ~(t <= middle) /\ t - middle \in Nat
        BY <1>1, <1>2
      <4>2. smooth[t] = Towards(c, d, t - middle, slots - middle)
        BY <2>3, <4>1
      <4>3. QED
        BY <2>2, <4>1, <4>2
    <3>2. QED
      BY <3>1
  <2>8. smooth[slots] = d
    <3>1. slots \in middle + 1 .. slots
      BY <1>1, <1>2
    <3>2. QED
      BY <2>2, <2>7, <3>1
  <2>9. slots = 1 \/ \A t \in middle + 1 .. slots : smooth[t] - At(t - 1) = k
    <3>1. CASE slots = 1
      BY <3>1
    <3>2. CASE slots # 1
      <4>1. middle > 0
        BY <1>1, <3>2 DEF middle
      <4>2. ASSUME NEW t \in middle + 1 .. slots  PROVE smooth[t] - At(t - 1) = k
        <5>1. smooth[t] = c + (t - middle) * k
          BY <2>7
        <5>2. /\ (t - middle) * k \in Int /\ (t - 1 - middle) * k \in Int
              /\ (t - 1 - middle) * k = (t - middle) * k - k /\ 0 * k = 0
          BY <1>2
        <5>3. At(t - 1) = c + (t - 1 - middle) * k
          <6>1. CASE t - 1 = middle
            <7>1. At(t - 1) = c
              BY <1>2, <2>6, <4>1, <6>1
            <7>2. t - 1 - middle = 0
              BY <1>2, <6>1
            <7>3. (t - 1 - middle) * k = 0
              BY <5>2, <7>2, Zenon
            <7>4. QED
              BY <2>1, <7>1, <7>3
          <6>2. CASE t - 1 # middle
            <7>1. t - 1 \in middle + 1 .. slots /\ t - 1 # 0
              BY <1>1, <1>2, <6>2
            <7>2. QED
              BY <2>7, <7>1
          <6>3. QED
            BY <6>1, <6>2
        <5>4. QED
          BY <2>1, <5>1, <5>2, <5>3
      <4>3. QED
        BY <4>2
    <3>3. QED
      BY <3>1, <3>2
  <2>10. QED
    BY <1>1, <2>4, <2>6, <2>8, <2>9, EvenTwo DEF middle
<1>8. QED
  BY <1>3, <1>6, <1>7 DEF smooth

-----------------------------------------------------------------------------
(* The carried state of the objects *)

\* What an object leaves behind is a coefficient.
LEMMA LastPoint ==
  ASSUME NEW object \in Objects, object # Missing
  PROVE  object.points[Len(object.points)] \in Coefficients
<1>1. \/ \E c \in Coefficients : object.points = <<c>>
      \/ \E c, d \in Coefficients : object.points = <<c, d>>
  BY DEF Objects
<1>2. QED
  BY <1>1, SMTT(30)

\* A frame follows the last one returned exactly when the decoder starts nothing anew.
LEMMA FollowsIsNoReset ==
  ASSUME JocInv, previousFrame # NoFrame, NEW f \in Inputs
  PROVE  Follows(f) <=> ~RequiresStateReset(f)
<1> DEFINE s == previousFrame.sequence
<1>1. /\ s \in 0 .. MaxSequence /\ joc.sequence = s
      /\ joc.channels = previousFrame.channels /\ joc.matrices.objects = previousFrame.objects
  BY DEF JocInv, Carried, Returned
<1>2. f.sequence \in 0 .. MaxSequence /\ MaxSequence \in Nat /\ MaxSequence > 0
  BY PayloadFacts
<1>3. s % MaxSequence = IF s = MaxSequence THEN 0 ELSE s
  BY <1>1, <1>2
<1> HIDE DEF s
<1>4. (f.sequence > 0 /\ f.sequence - 1 = s % MaxSequence) <=> ~(f.sequence = 0 \/ f.sequence # Expected)
  BY <1>1, <1>2, <1>3 DEF Expected
<1>5. joc.sequence # NoSequence
  BY <1>1, <1>2 DEF NoSequence
<1>6. QED
  BY <1>1, <1>4, <1>5 DEF Follows, RequiresStateReset, s

\* So all three memories are those of the last frame returned, or silence.
LEMMA StartsAre ==
  ASSUME JocInv, NEW f \in Inputs
  PROVE  /\ Analysis(f) = IF Follows(f) THEN previousFrame.name ELSE 0
         /\ Synthesis(f) = IF Follows(f) THEN previousFrame.name ELSE 0
         /\ Previous(f) = IF Follows(f) THEN sentLast ELSE 0
         /\ Previous(f) \in Coefficients
<1>1. CASE previousFrame = NoFrame
  <2>1. joc = FreshJoc /\ ~Follows(f) /\ sentLast = 0
    BY <1>1 DEF JocInv, Carried, Follows
  <2>2. QED
    BY <2>1, PayloadFacts DEF FreshJoc, Analysis, Synthesis, Previous
<1>2. CASE previousFrame # NoFrame
  <2>1. Follows(f) <=> ~RequiresStateReset(f)
    BY <1>2, FollowsIsNoReset
  <2>2. joc = Carried
    BY DEF JocInv
  <2>3. Follows(f) => f.channels = previousFrame.channels /\ f.objects = previousFrame.objects
    BY DEF Follows
  <2>4. /\ joc.analysis.channels = previousFrame.channels /\ joc.analysis.from = previousFrame.name
        /\ joc.synthesis.objects = previousFrame.objects /\ joc.synthesis.from = previousFrame.name
        /\ joc.matrices.objects = previousFrame.objects
        /\ joc.matrices.channels = previousFrame.channels /\ joc.matrices.value = sentLast
    BY <1>2, <2>2 DEF Carried
  <2>5. sentLast \in Coefficients /\ 0 \in Coefficients
    BY PayloadFacts DEF JocInv
  <2>6. Analysis(f) = IF Follows(f) THEN previousFrame.name ELSE 0
    BY <2>1, <2>3, <2>4 DEF Analysis
  <2>7. Synthesis(f) = IF Follows(f) THEN previousFrame.name ELSE 0
    BY <2>1, <2>3, <2>4 DEF Synthesis
  <2>8. Previous(f) = IF Follows(f) THEN sentLast ELSE 0
    BY <2>1, <2>3, <2>4 DEF Previous
  <2>9. QED
    BY <2>5, <2>6, <2>7, <2>8
<1>3. QED
  BY <1>1, <1>2

LEMMA JocAppend ==
  ASSUME JocInv, Busy, NEW candidate, AppendFrame(candidate)
  PROVE  JocInv'
<1> DEFINE f == decoding.frame
<1>1. /\ f \in Inputs /\ calls \in Nat \ {0} /\ calls' = calls
      /\ flushed = NotFlushed /\ flushed' = NotFlushed /\ decoding = Decoded(f)
  BY DEF JocInv, AppendFrame
<1>2. previousFrame' = [name |-> calls, sequence |-> f.sequence, channels |-> f.channels, objects |-> f.objects]
      /\ previousFrame' \in Returned /\ previousFrame' # NoFrame
  BY <1>1, ReturnedFrame DEF AppendFrame
<1>3. ~Busy'
  BY DEF AppendFrame, Busy
<1>4. sentLast' = CarriedForward(f.object, Previous(f))
  BY <1>1, StartsAre DEF AppendFrame, CarriedForward
<1>5. sentLast' \in Coefficients
  BY <1>1, <1>4, StartsAre, LastPoint, PayloadFacts DEF CarriedForward
<1>6. joc' = Decoded(f).joc
  BY <1>1 DEF AppendFrame
<1>7. joc' = [sequence |-> f.sequence, channels |-> f.channels,
              matrices |-> [objects |-> f.objects, channels |-> f.channels, value |-> sentLast'],
              analysis |-> [channels |-> f.channels, from |-> calls],
              synthesis |-> [objects |-> f.objects, from |-> calls]]
  BY <1>4, <1>6 DEF Decoded
<1>8. joc' = Carried'
  BY <1>2, <1>7 DEF Carried
<1>9. QED
  BY <1>1, <1>2, <1>3, <1>5, <1>8 DEF JocInv

LEMMA JocStep ==
  ASSUME JocInv, BindingInv, [PayloadNext]_payloadVars  PROVE JocInv'
<1>1. ASSUME NEW f \in Inputs, DecodeJoc(f)  PROVE JocInv'
  <2>1. /\ decoding'.frame = f /\ calls' = calls + 1 /\ calls' \in Nat /\ calls' > 0
        /\ flushed = NotFlushed
        /\ UNCHANGED <<joc, flushed, previousFrame, sentLast>>
    BY <1>1 DEF DecodeJoc, JocInv
  <2>2. /\ Analysis(f)' = Analysis(f) /\ Synthesis(f)' = Synthesis(f) /\ Previous(f)' = Previous(f)
    BY <2>1 DEF Analysis, Synthesis, Previous, RequiresStateReset, Expected
  <2>3. decoding' = Decoded(f)'
    BY <1>1, <2>1, <2>2 DEF DecodeJoc, Decoded
  <2>4. decoding' = Decoded(decoding.frame)'
    BY <2>1, <2>3
  <2>5. Carried' = Carried
    BY <2>1 DEF Carried
  <2>6. QED
    BY <1>1, <2>1, <2>4, <2>5 DEF JocInv
<1>2. ASSUME Busy, NEW candidate, AppendFrame(candidate)  PROVE JocInv'
  BY <1>2, JocAppend
<1>3. ASSUME NEW candidate, FailFrame(candidate)  PROVE JocInv'
  <2>1. ~Busy' /\ UNCHANGED <<joc, calls, flushed, previousFrame, sentLast>>
    BY <1>3 DEF FailFrame, Busy
  <2>2. Carried' = Carried /\ LastReturned' = LastReturned
    BY <2>1 DEF Carried, LastReturned
  <2>3. QED
    BY <2>1, <2>2 DEF JocInv
<1>4. CASE FinishPayload
  <2>1. ~Busy' /\ UNCHANGED <<joc, calls, previousFrame, sentLast>> /\ previousFrame # NoFrame
    BY <1>4 DEF FinishPayload, Busy, BindingInv
  <2>2. Carried' = Carried /\ LastReturned' = LastReturned /\ joc = Carried
    BY <2>1 DEF Carried, LastReturned, JocInv
  <2>3. flushed' = LastReturned
    BY <1>4, <2>1, <2>2 DEF FinishPayload, Carried, LastReturned
  <2>4. QED
    BY <2>1, <2>2, <2>3 DEF JocInv
<1>5. CASE NewPayloadDecoder
  <2>1. ~Busy' /\ joc' = Carried'
    BY <1>5 DEF NewPayloadDecoder, Busy, Carried
  <2>2. QED
    BY <1>5, <2>1, PayloadFacts DEF NewPayloadDecoder, JocInv
<1>6. CASE UNCHANGED payloadVars
  BY <1>6 DEF payloadVars, JocInv, Busy, Carried, LastReturned, Decoded, Analysis, Synthesis, Previous,
              RequiresStateReset, Expected
<1>7. QED
  BY <1>1, <1>2, <1>3, <1>4, <1>5, <1>6 DEF PayloadNext

LEMMA PayloadStart ==
  PayloadInit => PayloadInv
<1> SUFFICES ASSUME PayloadInit  PROVE PayloadInv
  OBVIOUS
<1>1. previousFrame = NoFrame /\ ~Busy /\ flushed = NotFlushed
  BY DEF PayloadInit, Busy
<1>2. joc = Carried
  BY <1>1 DEF PayloadInit, Carried
<1>3. QED
  BY <1>1, <1>2, PayloadFacts DEF PayloadInit, PayloadInv, JocInv, BindingInv

LEMMA PayloadStep ==
  PayloadInv /\ [PayloadNext]_payloadVars => PayloadInv'
BY JocStep, BindingStep DEF PayloadInv

LEMMA JocContinues ==
  PayloadInv => JocContinuous
<1> SUFFICES ASSUME PayloadInv  PROVE JocContinuous
  OBVIOUS
<1> DEFINE f == decoding.frame
<1>1. JocInv
  BY DEF PayloadInv
<1>2. flushed # NotFlushed => flushed = LastReturned
  BY <1>1 DEF JocInv
<1>3. ASSUME Busy
      PROVE  /\ decoding.starts = IF Follows(f) THEN LastReturned
                                  ELSE [analysis |-> 0, synthesis |-> 0, value |-> 0]
             /\ f.object.slope = "smooth" =>
                  EvenSteps(f.object.points, IF Follows(f) THEN sentLast ELSE 0, decoding.coefficients)
  <2>1. f \in Inputs /\ decoding = Decoded(f)
    BY <1>1, <1>3 DEF JocInv
  <2>2. decoding.starts = [analysis |-> Analysis(f), synthesis |-> Synthesis(f), value |-> Previous(f)]
        /\ decoding.coefficients = Interpolated(f.object, Previous(f), f.slots)
    BY <2>1 DEF Decoded
  <2>3. /\ Analysis(f) = IF Follows(f) THEN previousFrame.name ELSE 0
        /\ Synthesis(f) = IF Follows(f) THEN previousFrame.name ELSE 0
        /\ Previous(f) = IF Follows(f) THEN sentLast ELSE 0
        /\ Previous(f) \in Coefficients
    BY <1>1, <2>1, StartsAre
  <2>4. decoding.starts = IF Follows(f) THEN LastReturned
                          ELSE [analysis |-> 0, synthesis |-> 0, value |-> 0]
    BY <2>2, <2>3 DEF LastReturned
  <2>5. f.object \in Objects /\ f.slots \in Timeslots
    BY <2>1, PayloadFacts
  <2>6. f.object.slope = "smooth" =>
          EvenSteps(f.object.points, Previous(f), Interpolated(f.object, Previous(f), f.slots))
    BY <2>3, <2>5, SmoothSteps
  <2>7. QED
    BY <2>2, <2>3, <2>4, <2>6
<1>4. QED
  BY <1>2, <1>3 DEF JocContinuous

LEMMA BindingsAgree ==
  PayloadInv => BindingAgrees
<1> SUFFICES ASSUME BindingInv, scene # NoScene
             PROVE  /\ binding.admitted <=> \E p \in Profiles : candidates = {p}
                    /\ scene.admitted = IF binding.admitted THEN "yes" ELSE "no"
                    /\ binding.admitted => candidates = {binding.profile} /\ scene.profile = binding.profile
  BY DEF PayloadInv, BindingAgrees
<1>1. previousFrame # NoFrame
  BY DEF BindingInv
<1>2. QED
  BY <1>1 DEF BindingInv

\* However calls fail and frames are spliced, left out or cut in between, the filters and
\* the matrix of the objects go on from the last frame returned or from nothing, a smooth
\* frame moves evenly, and the tail is that of the last frame returned.
THEOREM JocContinuousHolds ==
  PayloadSpec => []JocContinuous
<1>1. PayloadSpec => []PayloadInv
  BY PayloadStart, PayloadStep, PTL DEF PayloadSpec
<1>2. QED
  BY <1>1, JocContinues, PTL

\* The decoder and its scene bind objects to metadata exactly as long as every frame
\* returned was admitted with one and the same profile.
THEOREM BindingAgreesHolds ==
  PayloadSpec => []BindingAgrees
<1>1. PayloadSpec => []PayloadInv
  BY PayloadStart, PayloadStep, PTL DEF PayloadSpec
<1>2. QED
  BY <1>1, BindingsAgree, PTL

-----------------------------------------------------------------------------
(***************************************************************************)
(* JocAccessUnitPcm                                                        *)
(***************************************************************************)
Froms == Nat \X Nat
Values == Dialnorms \cup {0}
Segments == Seq([start : Nat, state : Values])
Works ==
  [lengths : Groups, dependents : 0 .. MaxDependents, set : Nat, substream : Nat,
   synthesizers : [Substreams -> [from : Froms, shape : {0} \cup {Shape[c] : c \in Configurations}]],
   configured : [Substreams -> Configurations \cup {0}],
   group : [Substreams -> Configurations \cup {0}],
   dialnorm : Values, segments : Segments, samples : Nat, value : Values,
   overlaps : SUBSET [substream : Substreams, set : Nat, configuration : Configurations, carry : Froms],
   calibrated : Seq(Values)]

\* A substream the caller has has its delay, one he lacks has none.
Committed ==
  \A s \in Substreams :
    /\ continued[s].configuration = configured[s]
    /\ synthesizers[s] = IF configured[s] = 0 THEN Silent
                         ELSE [from |-> continued[s].from, shape |-> Shape[configured[s]]]

\* The last set of the unit in which a substream was decoded, 0 for none.
Reached(s) == IF s < work.substream THEN work.set ELSE work.set - 1

\* The copies are those of the caller until the first frame of the substream.
Copies ==
  \A s \in Substreams :
    IF s > work.dependents
      THEN work.group[s] = 0 /\ work.configured[s] = 0 /\ work.synthesizers[s] = Silent
    ELSE IF Reached(s) = 0
      THEN work.group[s] = 0 /\ work.configured[s] = configured[s] /\ work.synthesizers[s] = synthesizers[s]
    ELSE /\ work.configured[s] # 0 /\ work.group[s] = work.configured[s]
         /\ work.synthesizers[s] = [from |-> <<units, Reached(s)>>, shape |-> Shape[work.configured[s]]]

Within(q, n) == \A i \in DOMAIN q : q[i].start <= n

Calibrated ==
  /\ Len(work.calibrated) = work.samples
  /\ work.set = 1 => work.samples = 0 /\ work.segments = <<>>
  /\ Within(work.segments, work.samples)
  /\ \A block \in 0 .. work.samples - 1 : Calibration(block) = work.calibrated[block + 1]

UnitInv ==
  /\ units \in Nat /\ ~mismatched
  /\ continued \in [Substreams -> [from : Froms, configuration : Configurations \cup {0}]]
  /\ configured \in [Substreams -> Configurations \cup {0}]
  /\ synthesizers \in [Substreams -> [from : Froms, shape : {0} \cup {Shape[c] : c \in Configurations}]]
  /\ Committed
  /\ Running =>
       /\ work \in Works
       /\ work.set \in 1 .. Len(work.lengths) + 1 /\ work.substream <= work.dependents + 1
       /\ work.set > Len(work.lengths) => work.substream = 0
       /\ Copies /\ Calibrated
       /\ \A overlap \in work.overlaps : overlap.carry = Preceding(overlap)

LEMMA UnitFacts ==
  /\ MaxDependents \in Nat /\ Substreams = 0 .. MaxDependents
  /\ \A q \in Groups : q \in Seq(Nat) /\ q # <<>> /\ Len(q) \in Nat \ {0} /\ \A i \in 1 .. Len(q) : q[i] \in Nat
  /\ Silent \in [from : Froms, shape : {0} \cup {Shape[c] : c \in Configurations}]
  /\ Silent.from = <<0, 0>> /\ Silent.shape = 0
  /\ 0 \notin Configurations
<1>1. \A q \in Groups : q \in Seq(Nat) /\ q # <<>> /\ Len(q) \in Nat \ {0} /\ \A i \in 1 .. Len(q) : q[i] \in Nat
  <2>1. ASSUME NEW q \in Groups
        PROVE  q \in Seq(Nat) /\ q # <<>> /\ Len(q) \in Nat \ {0} /\ \A i \in 1 .. Len(q) : q[i] \in Nat
    <3>1. q \in Seq(Nat) /\ q # <<>>
      BY UnitAssumption
    <3>2. Len(q) \in Nat /\ Len(q) # 0
      BY <3>1, EmptySeq, LenProperties
    <3>3. QED
      BY <3>1, <3>2, ElementOfSeq
  <2>2. QED
    BY <2>1
<1>2. Silent \in [from : Froms, shape : {0} \cup {Shape[c] : c \in Configurations}]
  BY DEF Silent, Froms
<1>3. QED
  BY <1>1, <1>2, UnitAssumption DEF Substreams, Silent

LEMMA UnitStart ==
  UnitInit => UnitInv
BY UnitFacts DEF UnitInit, UnitInv, Committed, Running, NotThere, Silent, Froms

LEMMA UnitBegins ==
  ASSUME UnitInv, NEW lengths \in Groups, NEW dependents \in 0 .. MaxDependents,
         StartUnit(lengths, dependents)
  PROVE  UnitInv'
<1>1. /\ units' \in Nat /\ ~mismatched'
      /\ UNCHANGED <<synthesizers, configured, mismatched, continued>>
  BY DEF StartUnit, UnitInv
<1>2. work' = [lengths |-> lengths, dependents |-> dependents, set |-> 1, substream |-> 0,
               synthesizers |-> Staged(dependents),
               configured |-> [s \in Substreams |-> IF s > dependents THEN 0 ELSE configured[s]],
               group |-> [s \in Substreams |-> 0],
               dialnorm |-> 0, segments |-> <<>>, samples |-> 0,
               value |-> 0, overlaps |-> {}, calibrated |-> <<>>]
  BY DEF StartUnit
<1>3. Staged(dependents) \in [Substreams -> [from : Froms, shape : {0} \cup {Shape[c] : c \in Configurations}]]
  BY UnitFacts DEF Staged, UnitInv
<1>4. [s \in Substreams |-> IF s > dependents THEN 0 ELSE configured[s]] \in [Substreams -> Configurations \cup {0}]
      /\ [s \in Substreams |-> 0] \in [Substreams -> Configurations \cup {0}]
  BY DEF UnitInv
<1>5. <<>> \in Segments /\ <<>> \in Seq(Values) /\ 0 \in Values /\ Len(<<>>) = 0
      /\ DOMAIN <<>> = {}
  BY DEF Values, Segments
<1>6. work' \in Works
  BY <1>2, <1>3, <1>4, <1>5 DEF Works
<1>7. work'.set \in 1 .. Len(work'.lengths) + 1 /\ work'.substream <= work'.dependents + 1
      /\ ~(work'.set > Len(work'.lengths))
  BY <1>2, UnitFacts
<1>8. Copies'
  <2>1. ASSUME NEW s \in Substreams
        PROVE  IF s > dependents
                 THEN work'.group[s] = 0 /\ work'.configured[s] = 0 /\ work'.synthesizers[s] = Silent
               ELSE work'.group[s] = 0 /\ work'.configured[s] = configured[s] /\ work'.synthesizers[s] = synthesizers[s]
    BY <1>2 DEF Staged
  <2>2. \A s \in Substreams : Reached(s)' = 0
    BY <1>2, UnitFacts DEF Reached
  <2>3. work'.dependents = dependents
    BY <1>2
  <2>4. QED
    BY <1>1, <2>1, <2>2, <2>3 DEF Copies
<1>9. Calibrated'
  BY <1>2, <1>5 DEF Calibrated, Within
<1>10. work'.overlaps = {}
  BY <1>2
<1>11. QED
  BY <1>1, <1>6, <1>7, <1>8, <1>9, <1>10 DEF UnitInv, Committed

\* A decode that ends without its unit changes nothing the caller has.
LEMMA UnitFails ==
  ASSUME UnitInv, work' = Idle, ~mismatched', UNCHANGED <<synthesizers, configured, units, continued>>
  PROVE  UnitInv'
BY DEF UnitInv, Running, Committed

LEMMA UnitReturns ==
  ASSUME UnitInv, ReturnUnit  PROVE UnitInv'
<1> DEFINE n == Len(work.lengths)
<1>1. /\ work \in Works /\ work.set = n + 1 /\ work.substream = 0 /\ n \in Nat \ {0}
      /\ Copies /\ units \in Nat /\ work.dependents \in 0 .. MaxDependents
  BY UnitFacts, SMTT(30) DEF ReturnUnit, UnitInv, Works
<1>2. /\ synthesizers' = work.synthesizers /\ configured' = work.configured /\ ~Running'
      /\ units' = units /\ mismatched' = mismatched
      /\ continued' = [s \in Substreams |-> IF s > work.dependents THEN NotThere
                         ELSE [from |-> <<units, n>>, configuration |-> work.group[s]]]
  BY DEF ReturnUnit, Running
<1>3. configured' \in [Substreams -> Configurations \cup {0}]
      /\ synthesizers' \in [Substreams -> [from : Froms, shape : {0} \cup {Shape[c] : c \in Configurations}]]
      /\ work.group \in [Substreams -> Configurations \cup {0}]
  BY <1>1, <1>2 DEF Works
<1>4. ASSUME NEW s \in Substreams
      PROVE  /\ continued'[s] \in [from : Froms, configuration : Configurations \cup {0}]
             /\ continued'[s].configuration = configured'[s]
             /\ synthesizers'[s] = IF configured'[s] = 0 THEN Silent
                                   ELSE [from |-> continued'[s].from, shape |-> Shape[configured'[s]]]
  <2>1. CASE s > work.dependents
    <3>1. continued'[s] = NotThere /\ configured'[s] = 0 /\ synthesizers'[s] = Silent
      BY <1>1, <1>2, <2>1 DEF Copies
    <3>2. QED
      BY <3>1, UnitFacts DEF NotThere, Froms
  <2>2. CASE ~(s > work.dependents)
    <3>1. Reached(s) = n /\ n # 0
      BY <1>1, UnitFacts DEF Reached
    <3>2. /\ work.configured[s] # 0 /\ work.group[s] = work.configured[s]
          /\ work.synthesizers[s] = [from |-> <<units, n>>, shape |-> Shape[work.configured[s]]]
      BY <1>1, <2>2, <3>1 DEF Copies
    <3>3. continued'[s] = [from |-> <<units, n>>, configuration |-> work.group[s]]
      BY <1>2, <2>2
    <3>4. continued'[s].from = <<units, n>> /\ continued'[s].configuration = work.configured[s]
      BY <3>2, <3>3
    <3>5. <<units, n>> \in Froms /\ work.configured[s] \in Configurations \cup {0}
      BY <1>1, <1>2, <1>3 DEF Froms
    <3>6. continued'[s] \in [from : Froms, configuration : Configurations \cup {0}]
      BY <3>2, <3>3, <3>5
    <3>7. QED
      BY <1>2, <3>2, <3>4, <3>6
  <2>3. QED
    BY <2>1, <2>2
<1>5. continued' \in [Substreams -> [from : Froms, configuration : Configurations \cup {0}]]
  BY <1>2, <1>4
<1>6. QED
  BY <1>1, <1>2, <1>3, <1>4, <1>5 DEF UnitInv, Committed

LEMMA UnitResets ==
  ASSUME UnitInv, ResetDecoder  PROVE UnitInv'
BY UnitFacts DEF ResetDecoder, UnitInv, Running, Committed, NotThere, Froms, Silent

LEMMA GreatestNat ==
  ASSUME NEW m \in Nat, NEW S \in SUBSET (1 .. m), S # {}
  PROVE  \E i \in S : \A j \in S : j <= i
<1> DEFINE T == {n \in Nat : m - n \in S}
<1>1. T \in SUBSET Nat /\ T # {}
  <2>1. PICK i \in S : TRUE
    OBVIOUS
  <2>2. m - i \in Nat /\ m - (m - i) = i
    BY <2>1
  <2>3. QED
    BY <2>1, <2>2
<1>2. PICK n \in T : \A k \in Nat : k < n => k \notin T
  <2>1. \E x \in T : \A y \in T : ~(<<y, x>> \in OpToRel(<, Nat))
    BY <1>1, NatLessThanWellFounded, WFMin
  <2>2. QED
    BY <1>1, <2>1 DEF OpToRel
<1>3. ASSUME NEW j \in S  PROVE j <= m - n
  <2>1. j \in Nat /\ m - j \in Nat /\ m - (m - j) = j
    OBVIOUS
  <2>2. m - j \in T
    BY <2>1
  <2>3. ~(m - j < n)
    BY <1>2, <2>1, <2>2
  <2>4. QED
    BY <1>2, <2>1, <2>3
<1>4. QED
  BY <1>2, <1>3

LEMMA LastOf ==
  ASSUME NEW m \in Nat \ {0}
  PROVE  (CHOOSE i \in 1 .. m : \A j \in 1 .. m : j <= i) = m /\ 1 .. m # {}
<1>1. m \in 1 .. m /\ \A j \in 1 .. m : j <= m
  OBVIOUS
<1>2. \A i \in 1 .. m : (\A j \in 1 .. m : j <= i) => i = m
  OBVIOUS
<1>3. QED
  BY <1>1, <1>2

\* The value a list of changes gives a block, over a value to begin with.
InForce(segments, dialnorm, block) ==
  LET before == {i \in DOMAIN segments : segments[i].start <= block}
  IN IF before = {} THEN dialnorm
     ELSE segments[CHOOSE i \in before : \A j \in before : j <= i].state

\* A change is put down at n where the value then in force is not v.
WithChange(q, n, d, v) ==
  q \o (IF (IF q = <<>> THEN d ELSE q[Len(q)].state) = v THEN <<>> ELSE <<[start |-> n, state |-> v]>>)

\* Putting down a change where the value changes, and only there, is to put down the value.
LEMMA ChangePutDown ==
  ASSUME NEW q \in Segments, NEW n \in Nat, NEW d \in Values, NEW v \in Values, Within(q, n)
  PROVE  LET r == WithChange(q, n, d, v)
         IN  /\ r \in Segments /\ Within(r, n)
             /\ \A block \in 0 .. n - 1 : InForce(r, d, block) = InForce(q, d, block)
             /\ \A block \in Nat : block >= n => InForce(r, d, block) = v
<1> DEFINE last == IF q = <<>> THEN d ELSE q[Len(q)].state
           e == [start |-> n, state |-> v]
           r == WithChange(q, n, d, v)
           m == Len(q)
<1>0. r = q \o (IF last = v THEN <<>> ELSE <<e>>)
  BY DEF WithChange
<1>types. q \in Seq([start : Nat, state : Values]) /\ \A i \in DOMAIN q : q[i].start <= n
  BY DEF Segments, Within
<1>1. m \in Nat /\ DOMAIN q = 1 .. m /\ \A i \in 1 .. m : q[i] \in [start : Nat, state : Values]
  BY <1>types, LenProperties, ElementOfSeq
<1>2. q = <<>> <=> m = 0
  BY <1>types, EmptySeq
<1>3. e \in [start : Nat, state : Values] /\ e.start = n /\ e.state = v
  OBVIOUS
<1>4. CASE last = v
  <2>1. r = q
    BY <1>0, <1>4
  <2>2. ASSUME NEW block \in Nat, block >= n  PROVE InForce(q, d, block) = v
    <3>1. {i \in DOMAIN q : q[i].start <= block} = 1 .. m
      BY <1>types, <1>1, <2>2
    <3>2. CASE m = 0
      BY <1>2, <1>4, <3>1, <3>2 DEF InForce
    <3>3. CASE m # 0
      <4>1. (CHOOSE i \in 1 .. m : \A j \in 1 .. m : j <= i) = m
        BY <1>1, <3>3, LastOf
      <4>2. 1 .. m # {}
        BY <1>1, <3>3, LastOf
      <4>3. InForce(q, d, block) = q[m].state
        BY <3>1, <4>1, <4>2, Zenon DEF InForce
      <4>4. QED
        BY <1>2, <1>4, <3>3, <4>3
    <3>4. QED
      BY <3>2, <3>3
  <2>3. q \in Segments /\ Within(q, n)
    OBVIOUS
  <2>4. QED
    BY <2>1, <2>2, <2>3, Zenon
<1>5. CASE last # v
  <2>1. r = Append(q, e)
    BY <1>0, <1>1, <1>5
  <2> HIDE DEF r, e
  <2>2. /\ r \in Seq([start : Nat, state : Values]) /\ Len(r) = m + 1 /\ DOMAIN r = 1 .. m + 1
        /\ r[m + 1] = e /\ \A i \in 1 .. m : r[i] = q[i]
    <3>1. r \in Seq([start : Nat, state : Values])
      BY <1>types, <1>3, <2>1, AppendProperties
    <3>2. Len(r) = m + 1
      BY <1>types, <1>3, <2>1, AppendProperties
    <3>3. DOMAIN r = 1 .. m + 1
      BY <3>1, <3>2, LenProperties
    <3>4. r[m + 1] = e
      BY <1>types, <1>3, <2>1, AppendProperties
    <3>5. \A i \in 1 .. m : r[i] = q[i]
      BY <1>types, <1>3, <2>1, AppendProperties
    <3>6. QED
      BY <3>1, <3>2, <3>3, <3>4, <3>5
  <2> HIDE DEF m
  <2>3. \A i \in DOMAIN r : r[i].start <= n
    <3>1. ASSUME NEW i \in DOMAIN r  PROVE r[i].start <= n
      <4>1. i \in 1 .. m \/ i = m + 1
        BY <1>1, <2>2
      <4>2. QED
        BY <1>types, <1>1, <1>3, <2>2, <4>1
    <3>2. QED
      BY <3>1
  <2>4. ASSUME NEW block \in 0 .. n - 1  PROVE InForce(r, d, block) = InForce(q, d, block)
    <3> DEFINE before == {i \in DOMAIN q : q[i].start <= block}
    <3>1. {i \in DOMAIN r : r[i].start <= block} = before
      <4>1. ~(r[m + 1].start <= block)
        BY <1>3, <2>2
      <4>2. ASSUME NEW i \in DOMAIN r, r[i].start <= block  PROVE i \in before
        <5>1. i \in 1 .. m
          BY <1>1, <2>2, <4>1, <4>2
        <5>2. QED
          BY <1>1, <2>2, <4>2, <5>1
      <4>3. ASSUME NEW i \in before  PROVE i \in DOMAIN r /\ r[i].start <= block
        <5>1. i \in 1 .. m /\ i \in 1 .. m + 1
          BY <1>1, <4>3
        <5>2. QED
          BY <2>2, <4>3, <5>1
      <4>4. QED
        BY <4>2, <4>3
    <3>2. before \in SUBSET (1 .. m)
      BY <1>1
    <3> HIDE DEF before
    <3>3. CASE before = {}
      BY <3>1, <3>3, Zenon DEF InForce, before
    <3>4. CASE before # {}
      <4> DEFINE g == CHOOSE i \in before : \A j \in before : j <= i
      <4>1. \E i \in before : \A j \in before : j <= i
        BY <1>1, <3>2, <3>4, GreatestNat
      <4>2. g \in before
        BY <4>1, Zenon
      <4>3. InForce(r, d, block) = r[g].state
        BY <3>1, <3>4, Zenon DEF InForce
      <4>4. InForce(q, d, block) = q[g].state
        BY <3>4, Zenon DEF InForce, before
      <4> HIDE DEF g
      <4>5. r[g] = q[g]
        BY <2>2, <3>2, <4>2
      <4>6. QED
        BY <4>3, <4>4, <4>5
    <3>5. QED
      BY <3>3, <3>4
  <2>5. ASSUME NEW block \in Nat, block >= n  PROVE InForce(r, d, block) = v
    <3>1. {i \in DOMAIN r : r[i].start <= block} = 1 .. m + 1
      <4>1. ASSUME NEW i \in 1 .. m + 1  PROVE r[i].start <= block
        <5>1. r[i] \in [start : Nat, state : Values]
          BY <2>2, <4>1, ElementOfSeq
        <5>2. r[i].start \in Nat /\ r[i].start <= n
          BY <2>2, <2>3, <5>1
        <5>3. QED
          BY <2>5, <5>2
      <4>2. QED
        BY <2>2, <4>1
    <3>2. (CHOOSE i \in 1 .. m + 1 : \A j \in 1 .. m + 1 : j <= i) = m + 1 /\ 1 .. m + 1 # {}
      <4>1. m + 1 \in Nat \ {0}
        BY <1>1
      <4>2. QED
        BY <4>1, LastOf
    <3>3. InForce(r, d, block) = r[m + 1].state
      BY <3>1, <3>2, Zenon DEF InForce
    <3>4. QED
      BY <1>3, <2>2, <3>3
  <2>6. r \in Segments /\ Within(r, n)
    BY <2>2, <2>3 DEF Segments, Within
  <2>7. QED
    BY <2>4, <2>5, <2>6 DEF r
<1>6. QED
  BY <1>4, <1>5

LEMMA SetEnds ==
  ASSUME UnitInv, EndSet  PROVE UnitInv'
<1> DEFINE n == work.samples
           k == work.lengths[work.set]
           v == work.value
           w == work'
<1>1. /\ work \in Works /\ work.set \in 1 .. Len(work.lengths) /\ work.substream = work.dependents + 1
      /\ Copies /\ Calibrated /\ work.lengths \in Groups
      /\ \A overlap \in work.overlaps : overlap.carry = Preceding(overlap)
      /\ UNCHANGED <<synthesizers, configured, units, mismatched, continued>>
  BY UnitFacts DEF EndSet, UnitInv, Works
<1>2. n \in Nat /\ k \in Nat /\ v \in Values /\ Len(work.lengths) \in Nat /\ work.dependents \in 0 .. MaxDependents
      /\ work.set \in Nat /\ work.dialnorm \in Values /\ MaxDependents \in Nat
      /\ work.segments \in Segments /\ work.calibrated \in Seq(Values)
  BY <1>1, UnitFacts DEF Works
<1> DEFINE changed == WithChange(work.segments, n, work.dialnorm, v)
<1>becomes. changed = work.segments \o Change(work, v)
  BY DEF Change, WithChange
<1>3. w = [work EXCEPT !.set = @ + 1, !.substream = 0, !.samples = @ + k,
                       !.dialnorm = IF work.set = 1 THEN v ELSE @,
                       !.segments = IF work.set = 1 THEN @ ELSE changed,
                       !.calibrated = @ \o [i \in 1 .. k |-> v]]
  BY <1>becomes DEF EndSet
<1> HIDE DEF n, k, v, w, changed
<1>4. /\ w.set = work.set + 1 /\ w.substream = 0 /\ w.samples = work.samples + k
      /\ w.dialnorm = (IF work.set = 1 THEN v ELSE work.dialnorm)
      /\ w.segments = (IF work.set = 1 THEN work.segments ELSE changed)
      /\ w.calibrated = work.calibrated \o [i \in 1 .. k |-> v]
      /\ w.lengths = work.lengths /\ w.dependents = work.dependents
      /\ w.synthesizers = work.synthesizers /\ w.configured = work.configured /\ w.group = work.group
      /\ w.value = work.value /\ w.overlaps = work.overlaps
  BY <1>1, <1>3 DEF Works
<1>5. Within(work.segments, n)
  BY <1>1 DEF Calibrated, n
<1>types. /\ work.segments \in Segments /\ n \in Nat /\ work.dialnorm \in Values
       /\ v \in Values
  BY <1>2
<1>6. /\ changed \in Segments /\ Within(changed, n)
      /\ \A block \in 0 .. n - 1 : InForce(changed, work.dialnorm, block) = InForce(work.segments, work.dialnorm, block)
      /\ \A block \in Nat : block >= n => InForce(changed, work.dialnorm, block) = v
  BY <1>5, <1>types, ChangePutDown DEF changed
<1>7. [i \in 1 .. k |-> v] \in Seq(Values) /\ Len([i \in 1 .. k |-> v]) = k
  BY <1>2
<1>8. /\ w.calibrated \in Seq(Values) /\ Len(w.calibrated) = w.samples
      /\ \A i \in 1 .. n : w.calibrated[i] = work.calibrated[i]
      /\ \A i \in n + 1 .. n + k : w.calibrated[i] = v
  <2>1. Len(work.calibrated) = n
    BY <1>1 DEF Calibrated, n
  <2> DEFINE c == work.calibrated
             t == [i \in 1 .. k |-> v]
  <2>2. c \in Seq(Values) /\ t \in Seq(Values) /\ Len(c) = n /\ Len(t) = k /\ w.calibrated = c \o t
        /\ \A i \in 1 .. k : t[i] = v
    BY <1>2, <1>4, <1>7, <2>1
  <2> HIDE DEF c, t
  <2>3. c \o t \in Seq(Values) /\ Len(c \o t) = n + k
        /\ \A i \in 1 .. n + k : (c \o t)[i] = IF i <= n THEN c[i] ELSE t[i - n]
    BY <2>2, ConcatProperties
  <2>4. ASSUME NEW i \in n + 1 .. n + k  PROVE (c \o t)[i] = v
    <3>1. i \in 1 .. n + k /\ ~(i <= n) /\ i - n \in 1 .. k
      BY <1>2
    <3>2. QED
      BY <2>2, <2>3, <3>1
  <2>5. ASSUME NEW i \in 1 .. n  PROVE (c \o t)[i] = c[i]
    <3>1. i \in 1 .. n + k /\ i <= n
      BY <1>2
    <3>2. QED
      BY <2>3, <3>1
  <2>6. QED
    BY <1>4, <2>2, <2>3, <2>4, <2>5 DEF c, n
<1>9. w.samples = n + k /\ w.samples \in Nat /\ n <= w.samples
  BY <1>2, <1>4 DEF n
<1>10. w \in Works
  <2>1. w.segments \in Segments /\ w.dialnorm \in Values
    BY <1>2, <1>4, <1>6
  <2>2. w.set \in Nat /\ w.substream \in Nat
    BY <1>2, <1>4
  <2>3. w = [lengths |-> w.lengths, dependents |-> w.dependents, set |-> w.set, substream |-> w.substream,
             synthesizers |-> w.synthesizers, configured |-> w.configured, group |-> w.group,
             dialnorm |-> w.dialnorm, segments |-> w.segments, samples |-> w.samples, value |-> w.value,
             overlaps |-> w.overlaps, calibrated |-> w.calibrated]
    BY <1>1, <1>3 DEF Works
  <2>4. /\ w.lengths \in Groups /\ w.dependents \in 0 .. MaxDependents /\ w.value \in Values
        /\ w.synthesizers \in [Substreams -> [from : Froms, shape : {0} \cup {Shape[c] : c \in Configurations}]]
        /\ w.configured \in [Substreams -> Configurations \cup {0}]
        /\ w.group \in [Substreams -> Configurations \cup {0}]
        /\ w.overlaps \in SUBSET [substream : Substreams, set : Nat, configuration : Configurations, carry : Froms]
    BY <1>1, <1>4 DEF Works
  <2>5. QED
    BY <1>8, <1>9, <2>1, <2>2, <2>3, <2>4 DEF Works
<1>11. \A s \in Substreams : s <= work.dependents => Reached(s)' = Reached(s)
  BY <1>1, <1>2, <1>4, UnitFacts DEF Reached, w
<1>12. Copies'
  <2>1. ASSUME NEW s \in Substreams, s > work.dependents
        PROVE  w.group[s] = 0 /\ w.configured[s] = 0 /\ w.synthesizers[s] = Silent
    BY <1>1, <1>4, <2>1 DEF Copies
  <2>2. ASSUME NEW s \in Substreams, ~(s > work.dependents)
        PROVE  IF Reached(s)' = 0
               THEN w.group[s] = 0 /\ w.configured[s] = configured'[s] /\ w.synthesizers[s] = synthesizers'[s]
               ELSE /\ w.configured[s] # 0 /\ w.group[s] = w.configured[s]
                    /\ w.synthesizers[s] = [from |-> <<units', Reached(s)'>>, shape |-> Shape[w.configured[s]]]
    <3>1. Reached(s)' = Reached(s)
      BY <1>2, <1>11, <2>2, UnitFacts
    <3>2. QED
      BY <1>1, <1>4, <2>2, <3>1 DEF Copies
  <2>3. QED
    BY <1>4, <2>1, <2>2 DEF Copies, w
<1>13. ASSUME NEW block \in 0 .. w.samples - 1
       PROVE  InForce(w.segments, w.dialnorm, block) = w.calibrated[block + 1]
  <2>1. CASE work.set = 1
    <3>1. n = 0 /\ w.segments = <<>> /\ w.dialnorm = v
      BY <1>1, <1>4, <2>1 DEF Calibrated, n
    <3>2. InForce(w.segments, w.dialnorm, block) = v
      BY <3>1 DEF InForce
    <3>3. block + 1 \in n + 1 .. n + k
      BY <1>2, <1>9, <3>1
    <3>4. QED
      BY <1>8, <3>2, <3>3
  <2>2. CASE work.set # 1
    <3>1. w.segments = changed /\ w.dialnorm = work.dialnorm
      BY <1>4, <2>2
    <3>2. CASE block < n
      <4>1. InForce(w.segments, w.dialnorm, block) = Calibration(block)
        <5>1. block \in 0 .. n - 1
          BY <1>2, <3>2
        <5>2. InForce(work.segments, work.dialnorm, block) = Calibration(block)
          BY Zenon DEF InForce, Calibration
        <5>3. QED
          BY <1>6, <3>1, <5>1, <5>2
      <4>2. Calibration(block) = work.calibrated[block + 1]
        BY <1>1, <1>2, <3>2 DEF Calibrated, n
      <4>3. block + 1 \in 1 .. n
        BY <1>2, <3>2
      <4>4. QED
        BY <1>8, <4>1, <4>2, <4>3
    <3>3. CASE ~(block < n)
      <4>1. block \in Nat /\ block >= n /\ block + 1 \in n + 1 .. n + k
        BY <1>2, <1>9, <3>3
      <4>2. QED
        BY <1>6, <1>8, <3>1, <4>1
    <3>4. QED
      BY <3>2, <3>3
  <2>3. QED
    BY <2>1, <2>2
<1>14. Within(w.segments, w.samples)
  <2>1. CASE work.set = 1
    <3>1. w.segments = <<>>
      BY <1>1, <1>4, <2>1 DEF Calibrated
    <3>2. QED
      BY <3>1 DEF Within
  <2>2. CASE work.set # 1
    <3>1. w.segments = changed
      BY <1>4, <2>2
    <3>2. ASSUME NEW i \in DOMAIN changed  PROVE changed[i].start <= w.samples
      <4>1. changed[i] \in [start : Nat, state : Values]
        BY <1>6, LenProperties, ElementOfSeq DEF Segments
      <4>2. changed[i].start \in Nat /\ changed[i].start <= n
        BY <1>6, <4>1 DEF Within
      <4>3. QED
        BY <1>2, <1>9, <4>2
    <3>3. QED
      BY <3>1, <3>2 DEF Within
  <2>3. QED
    BY <2>1, <2>2
<1>15. Calibrated'
  <2>1. w.set # 1
    BY <1>1, <1>2, <1>4
  <2>2. \A block \in 0 .. w.samples - 1 : Calibration(block)' = w.calibrated[block + 1]
    BY <1>13 DEF Calibration, InForce, w
  <2>3. QED
    BY <1>8, <1>14, <2>1, <2>2 DEF Calibrated, w
<1>16. \A overlap \in w.overlaps : overlap.carry = Preceding(overlap)'
  BY <1>1, <1>4 DEF Preceding
<1>17. w.set \in 1 .. Len(w.lengths) + 1 /\ w.substream <= w.dependents + 1
  BY <1>1, <1>2, <1>4, SMTT(30)
<1>18. QED
  BY <1>1, <1>4, <1>10, <1>12, <1>15, <1>16, <1>17 DEF UnitInv, Committed, w

\* A frame is added to what precedes it, and it fits.
LEMMA FrameFits ==
  ASSUME UnitInv, Running, work.set <= Len(work.lengths), work.substream <= work.dependents,
         NEW c \in Configurations, NEW o,
         o = [substream |-> work.substream, set |-> work.set, configuration |-> c,
              carry |-> Before(work.substream, c).from]
  PROVE  /\ Fits(work.substream, c) /\ o.carry \in Froms
         /\ work.group[work.substream] \in {0, c} => o.carry = Preceding(o)
<1> DEFINE s == work.substream
           k == work.set
<1>1. /\ work \in Works /\ k \in Nat /\ k > 0 /\ s \in Substreams /\ ~(s > work.dependents)
      /\ Copies /\ Committed /\ c # 0 /\ units \in Nat
  BY UnitFacts, SMTT(30) DEF UnitInv, Works
<1>2. Reached(s) = k - 1
  BY <1>1, UnitFacts DEF Reached
<1>3. /\ o.substream = s /\ o.set = k /\ o.configuration = c /\ o.carry = Before(s, c).from
  OBVIOUS
<1>4. Silent.shape = 0 /\ Silent.from = <<0, 0>> /\ <<0, 0>> \in Froms
  BY UnitFacts DEF Froms
<1> HIDE DEF s, k
<1>5. CASE k = 1
  <2>1. work.group[s] = 0 /\ work.configured[s] = configured[s] /\ work.synthesizers[s] = synthesizers[s]
    <3>1. Reached(s) = 0
      BY <1>2, <1>5
    <3>2. QED
      BY <1>1, <3>1 DEF Copies
  <2>2. /\ continued[s].configuration = configured[s]
        /\ synthesizers[s] = IF configured[s] = 0 THEN Silent
                             ELSE [from |-> continued[s].from, shape |-> Shape[configured[s]]]
        /\ continued[s].from \in Froms
    BY <1>1 DEF Committed, UnitInv
  <2>3. Preceding(o) = IF configured[s] = c THEN continued[s].from ELSE <<0, 0>>
    BY <1>3, <1>5, <2>2 DEF Preceding
  <2>4. CASE configured[s] = c
    <3>1. Before(s, c) = [from |-> continued[s].from, shape |-> Shape[c]]
      BY <1>1, <2>1, <2>2, <2>4 DEF Before
    <3>2. Before(s, c).shape = Shape[c] /\ Before(s, c).from = continued[s].from
      BY <3>1
    <3>3. QED
      BY <1>3, <2>2, <2>3, <2>4, <3>2 DEF Fits, s
  <2>5. CASE configured[s] # c
    <3>1. Before(s, c) = Silent
      BY <2>1, <2>2, <2>5 DEF Before
    <3>2. QED
      BY <1>3, <1>4, <2>3, <2>5, <3>1 DEF Fits, s
  <2>6. QED
    BY <2>4, <2>5
<1>6. CASE k # 1
  <2>1. /\ work.configured[s] # 0 /\ work.group[s] = work.configured[s]
        /\ work.synthesizers[s] = [from |-> <<units, k - 1>>, shape |-> Shape[work.configured[s]]]
    BY <1>1, <1>2, <1>6 DEF Copies
  <2>2. Preceding(o) = <<units, k - 1>>
    BY <1>1, <1>3, <1>6 DEF Preceding
  <2>3. CASE work.configured[s] = c
    <3>1. Before(s, c) = [from |-> <<units, k - 1>>, shape |-> Shape[c]]
      BY <1>1, <2>1, <2>3 DEF Before
    <3>2. Before(s, c).shape = Shape[c] /\ Before(s, c).from = <<units, k - 1>>
      BY <3>1
    <3>3. <<units, k - 1>> \in Froms
      BY <1>1, <1>6 DEF Froms
    <3>4. QED
      BY <1>3, <2>2, <3>2, <3>3 DEF Fits, s
  <2>4. CASE work.configured[s] # c
    <3>1. Before(s, c) = Silent /\ work.group[s] \notin {0, c}
      BY <2>1, <2>4 DEF Before
    <3>2. QED
      BY <1>3, <1>4, <3>1 DEF Fits, s
  <2>5. QED
    BY <2>3, <2>4
<1>7. QED
  BY <1>5, <1>6

LEMMA FrameDecoded ==
  ASSUME UnitInv, NEW c \in Configurations, NEW dialnorm \in Dialnorms, DecodeFrame(c, dialnorm)
  PROVE  UnitInv'
<1> DEFINE s == work.substream
           k == work.set
           w == work'
           o == [substream |-> s, set |-> k, configuration |-> c, carry |-> Before(s, c).from]
<1>1. /\ Running /\ k <= Len(work.lengths) /\ s <= work.dependents
      /\ UNCHANGED <<synthesizers, configured, units, continued>>
      /\ work \in Works /\ k \in Nat /\ k > 0 /\ s \in Substreams /\ s \in Nat
      /\ Copies /\ Calibrated /\ c # 0 /\ units \in Nat /\ Len(work.lengths) \in Nat
      /\ work.dependents \in 0 .. MaxDependents /\ MaxDependents \in Nat /\ Substreams = 0 .. MaxDependents
      /\ \A overlap \in work.overlaps : overlap.carry = Preceding(overlap)
  BY UnitFacts, SMTT(30) DEF UnitInv, Works, DecodeFrame
<1>2. Fits(s, c) /\ o.carry \in Froms /\ (work.group[s] \in {0, c} => o.carry = Preceding(o))
  BY <1>1, FrameFits
<1>3. ~mismatched'
  BY <1>2 DEF DecodeFrame, UnitInv
<1>4. CASE work' = Idle
  BY <1>1, <1>3, <1>4, UnitFails
<1>5. CASE work' # Idle
  <2> DEFINE here == [from |-> <<units, k>>, shape |-> Shape[c]]
  <2>1. /\ work.group[s] \in {0, c}
        /\ w = [work EXCEPT !.substream = s + 1, !.synthesizers[s] = here, !.configured[s] = c,
                            !.group[s] = c, !.overlaps = @ \cup {o},
                            !.value = IF s = 0 THEN dialnorm ELSE @]
    BY <1>5 DEF DecodeFrame
  <2> HIDE DEF s, k, w, o, here
  <2>2. /\ w.substream = s + 1 /\ w.synthesizers = [work.synthesizers EXCEPT ![s] = here]
        /\ w.configured = [work.configured EXCEPT ![s] = c] /\ w.group = [work.group EXCEPT ![s] = c]
        /\ w.overlaps = work.overlaps \cup {o} /\ w.value = (IF s = 0 THEN dialnorm ELSE work.value)
        /\ w.set = k /\ w.lengths = work.lengths /\ w.dependents = work.dependents
        /\ w.dialnorm = work.dialnorm /\ w.segments = work.segments /\ w.samples = work.samples
        /\ w.calibrated = work.calibrated
    BY <1>1, <2>1 DEF Works, k
  <2>3. here \in [from : Froms, shape : {0} \cup {Shape[x] : x \in Configurations}]
        /\ here = [from |-> <<units, k>>, shape |-> Shape[c]]
    BY <1>1 DEF here, Froms
  <2>4. o \in [substream : Substreams, set : Nat, configuration : Configurations, carry : Froms]
    BY <1>1, <1>2 DEF o
  <2>5. /\ work.synthesizers \in [Substreams -> [from : Froms, shape : {0} \cup {Shape[x] : x \in Configurations}]]
        /\ work.configured \in [Substreams -> Configurations \cup {0}]
        /\ work.group \in [Substreams -> Configurations \cup {0}]
        /\ work.overlaps \in SUBSET [substream : Substreams, set : Nat, configuration : Configurations, carry : Froms]
        /\ work.lengths \in Groups /\ work.dialnorm \in Values /\ work.segments \in Segments
        /\ work.samples \in Nat /\ work.value \in Values /\ work.calibrated \in Seq(Values)
    BY <1>1 DEF Works
  <2>6. /\ w.synthesizers \in [Substreams -> [from : Froms, shape : {0} \cup {Shape[x] : x \in Configurations}]]
        /\ w.configured \in [Substreams -> Configurations \cup {0}]
        /\ w.group \in [Substreams -> Configurations \cup {0}]
    <3> DEFINE D == [from : Froms, shape : {0} \cup {Shape[x] : x \in Configurations}]
               C == Configurations \cup {0}
    <3>1. s \in Substreams /\ here \in D /\ c \in C
      BY <1>1, <2>3
    <3>2. /\ work.synthesizers \in [Substreams -> D] /\ work.configured \in [Substreams -> C]
          /\ work.group \in [Substreams -> C]
      BY <2>5
    <3> HIDE DEF D, C
    <3>3. w.synthesizers \in [Substreams -> D]
      BY <2>2, <3>1, <3>2
    <3>4. w.configured \in [Substreams -> C]
      BY <2>2, <3>1, <3>2
    <3>5. w.group \in [Substreams -> C]
      BY <2>2, <3>1, <3>2
    <3>6. QED
      BY <3>3, <3>4, <3>5 DEF D, C
  <2>7. w.overlaps \in SUBSET [substream : Substreams, set : Nat, configuration : Configurations, carry : Froms]
    BY <2>2, <2>4, <2>5
  <2>8. w.value \in Values
    BY <2>2, <2>5 DEF Values
  <2>9. w \in Works
    <3>1. w = [lengths |-> w.lengths, dependents |-> w.dependents, set |-> w.set, substream |-> w.substream,
               synthesizers |-> w.synthesizers, configured |-> w.configured, group |-> w.group,
               dialnorm |-> w.dialnorm, segments |-> w.segments, samples |-> w.samples, value |-> w.value,
               overlaps |-> w.overlaps, calibrated |-> w.calibrated]
      BY <1>1, <2>1 DEF Works
    <3>2. w.set \in Nat /\ w.substream \in Nat /\ w.dependents \in 0 .. MaxDependents
      BY <1>1, <2>2
    <3>3. QED
      BY <2>2, <2>5, <2>6, <2>7, <2>8, <3>1, <3>2 DEF Works
  <2>10. ASSUME NEW t \in Substreams
         PROVE  IF t > w.dependents
                  THEN w.group[t] = 0 /\ w.configured[t] = 0 /\ w.synthesizers[t] = Silent
                ELSE IF Reached(t)' = 0
                  THEN w.group[t] = 0 /\ w.configured[t] = configured'[t] /\ w.synthesizers[t] = synthesizers'[t]
                ELSE /\ w.configured[t] # 0 /\ w.group[t] = w.configured[t]
                     /\ w.synthesizers[t] = [from |-> <<units', Reached(t)'>>, shape |-> Shape[w.configured[t]]]
    <3>1. CASE t = s
      <4>1. Reached(t)' = k /\ k # 0 /\ ~(t > w.dependents)
        BY <1>1, <2>2, <3>1 DEF Reached, w
      <4>2. w.configured[t] = c /\ w.group[t] = c /\ w.synthesizers[t] = here
        BY <1>1, <2>2, <2>5, <3>1
      <4>3. QED
        BY <1>1, <2>3, <4>1, <4>2
    <3>2. CASE t # s
      <4>1. Reached(t)' = Reached(t)
        BY <1>1, <2>2, <3>2 DEF Reached, w, s, k
      <4>2. w.configured[t] = work.configured[t] /\ w.group[t] = work.group[t]
            /\ w.synthesizers[t] = work.synthesizers[t]
        BY <1>1, <2>2, <2>5, <3>2
      <4>3. QED
        BY <1>1, <2>2, <4>1, <4>2 DEF Copies
    <3>3. QED
      BY <3>1, <3>2
  <2>11. Copies'
    BY <2>10, Zenon DEF Copies, w
  <2>12. Calibrated'
    <3>1. ASSUME NEW block  PROVE Calibration(block)' = Calibration(block)
      <4>1. Calibration(block) = InForce(work.segments, work.dialnorm, block)
        BY Zenon DEF InForce, Calibration
      <4>2. Calibration(block)' = InForce(w.segments, w.dialnorm, block)
        BY Zenon DEF InForce, Calibration, w
      <4>3. QED
        BY <2>2, <4>1, <4>2
    <3>2. QED
      BY <1>1, <2>2, <3>1 DEF Calibrated, w, k
  <2>13. \A overlap \in w.overlaps : overlap.carry = Preceding(overlap)'
    <3>1. \A overlap \in w.overlaps : overlap.carry = Preceding(overlap)
      BY <1>1, <1>2, <2>1, <2>2
    <3>2. QED
      BY <1>1, <3>1 DEF Preceding
  <2>14. w.set \in 1 .. Len(w.lengths) + 1 /\ w.substream <= w.dependents + 1 /\ ~(w.set > Len(w.lengths))
    BY <1>1, <2>2
  <2>15. QED
    BY <1>1, <1>3, <2>9, <2>11, <2>12, <2>13, <2>14 DEF UnitInv, Committed, w
<1>6. QED
  BY <1>4, <1>5

LEMMA UnitStep ==
  UnitInv /\ [UnitNext]_unitVars => UnitInv'
<1> SUFFICES ASSUME UnitInv, [UnitNext]_unitVars  PROVE UnitInv'
  OBVIOUS
<1>1. ASSUME NEW lengths \in Groups, NEW dependents \in 0 .. MaxDependents, StartUnit(lengths, dependents)
      PROVE  UnitInv'
  BY <1>1, UnitBegins
<1>2. ASSUME NEW configuration \in Configurations, NEW dialnorm \in Dialnorms,
             DecodeFrame(configuration, dialnorm)
      PROVE  UnitInv'
  BY <1>2, FrameDecoded
<1>3. CASE EndSet
  BY <1>3, SetEnds
<1>4. CASE ReturnUnit
  BY <1>4, UnitReturns
<1>5. CASE FailUnit
  BY <1>5, UnitFails DEF FailUnit, UnitInv
<1>6. CASE ResetDecoder
  BY <1>6, UnitResets
<1>7. CASE UNCHANGED unitVars
  <2>1. UNCHANGED <<synthesizers, configured, work, units, mismatched, continued>>
    BY <1>7 DEF unitVars
  <2>2. Committed' = Committed /\ Running' = Running
    BY <2>1 DEF Committed, Running
  <2>3. Copies' = Copies
    BY <2>1 DEF Copies, Reached
  <2>4. \A block : Calibration(block)' = Calibration(block)
    <3>1. \A block : Calibration(block) = InForce(work.segments, work.dialnorm, block)
      BY Zenon DEF InForce, Calibration
    <3>2. \A block : Calibration(block)' = InForce(work'.segments, work'.dialnorm, block)
      BY Zenon DEF InForce, Calibration
    <3>3. QED
      BY <2>1, <3>1, <3>2
  <2>5. Calibrated' = Calibrated
    BY <2>1, <2>4 DEF Calibrated
  <2>6. \A overlap : Preceding(overlap)' = Preceding(overlap)
    BY <2>1 DEF Preceding
  <2>7. CASE ~Running
    BY <2>1, <2>2, <2>7 DEF UnitInv
  <2>8. CASE Running
    <3>1. Copies' /\ Calibrated'
      BY <2>3, <2>5, <2>8 DEF UnitInv
    <3>2. \A overlap \in work'.overlaps : overlap.carry = Preceding(overlap)'
      BY <2>1, <2>6, <2>8 DEF UnitInv
    <3>3. QED
      BY <2>1, <2>2, <2>8, <3>1, <3>2 DEF UnitInv
  <2>9. QED
    BY <2>7, <2>8
<1>8. QED
  BY <1>1, <1>2, <1>3, <1>4, <1>5, <1>6, <1>7 DEF UnitNext

LEMMA TdacContinues ==
  UnitInv => TdacContinuous
BY DEF UnitInv, Calibrated, TdacContinuous

\* Every frame overlaps the frame of its substream that precedes it in what the caller has,
\* whatever failed, dropped out, came back or was configured anew; every block of a unit
\* is calibrated with the value of its own set.
THEOREM TdacContinuousHolds ==
  UnitSpec => []TdacContinuous
<1>1. UnitSpec => []UnitInv
  BY UnitStart, UnitStep, PTL DEF UnitSpec
<1>2. QED
  BY <1>1, TdacContinues, PTL

\* What a frame or unit inherits from the ones before it is that of the last one the caller
\* was given, in every stage.
THEOREM HistoriesContinueHold ==
  DecodingSpec => []HistoriesContinue
<1>1. DecodingInit => UnitInv /\ PayloadInv
  BY UnitStart, PayloadStart DEF DecodingInit
<1>2. UnitInv /\ PayloadInv /\ [DecodingNext]_<<stage, audioVars, unitVars, payloadVars, vars>>
      => (UnitInv /\ PayloadInv)'
  <2> SUFFICES ASSUME UnitInv, PayloadInv, [DecodingNext]_<<stage, audioVars, unitVars, payloadVars, vars>>
               PROVE  UnitInv' /\ PayloadInv'
    OBVIOUS
  <2>1. [UnitNext]_unitVars /\ [PayloadNext]_payloadVars
    BY Zenon DEF DecodingNext
  <2>2. QED
    BY <2>1, UnitStep, PayloadStep
<1>3. UnitInv /\ PayloadInv => HistoriesContinue
  BY TdacContinues, JocContinues, BindingsAgree DEF HistoriesContinue
<1>4. QED
  BY <1>1, <1>2, <1>3, PTL DEF DecodingSpec

-----------------------------------------------------------------------------
(***************************************************************************)
(* AudioBlocks                                                             *)
(***************************************************************************)
\* What was last sent for a subband in a standard region, else the default.
SentLast(b) ==
  LET sendings == {i \in DOMAIN structures : b \in structures[i].inner}
  IN IF sendings = {} THEN b \in StandardDefault
     ELSE b \in structures[CHOOSE i \in sendings : \A j \in sendings : j <= i].merged

\* A channel without a coordinate of its own is one the next block must send.
SpxInherits ==
  spx # Absent =>
    /\ spx.code \in SpxCodes /\ spx.use \subseteq Channels /\ firstSpx = Channels \ spx.use
    /\ \A c \in spx.use :
         /\ spx.coordinates[c].block = latest[<<"spx", c>>]
         /\ spx.coordinates[c].size = SpxEnd - SpxBegin(spx.code) - Cardinality(spx.merged)

\* AC-3 forgets the coordinates of a channel that leaves, E-AC-3 wants them sent.
CouplingInherits ==
  coupling # Absent =>
    /\ coupling = [kind |-> coupling.kind, code |-> coupling.code, end |-> coupling.end,
                   merged |-> coupling.merged, use |-> coupling.use, phased |-> coupling.phased,
                   coordinates |-> coupling.coordinates, phase |-> coupling.phase]
    /\ coupling.use \subseteq Channels
    /\ codec = "E-AC-3" => firstCoupling = Channels \ coupling.use
    /\ codec # "E-AC-3" => \A c \in Channels \ coupling.use : coupling.coordinates[c] = Absent
    /\ \A c \in coupling.use :
         /\ coupling.coordinates[c].block = latest[<<"coupling", c>>]
         /\ coupling.coordinates[c].size = Bands(coupling)

\* The boundaries are what was last sent, and a region has those inside of it.
StructureInherits ==
  /\ structures \in Seq([inner : SUBSET Int, merged : SUBSET Int])
  /\ \A b \in Int : b \in boundaries <=> SentLast(b)
  /\ coupling # Absent /\ codec = "E-AC-3" /\ coupling.kind = "standard" =>
       /\ coupling.merged = CouplingInner(coupling) \cap boundaries
       /\ CouplingInner(coupling) \subseteq Int

CarrierInherits ==
  /\ leak = latest[Leak]
  /\ IF coupling = Absent THEN couplingExponents = Absent
     ELSE couplingExponents.block = latest[CouplingExponents]

AudioInv ==
  /\ codec \in {"AC-3", "E-AC-3"}
  /\ SpxInherits /\ CouplingInherits /\ StructureInherits /\ CarrierInherits

\* What the history of a block says of each item.
LEMMA LatestIs ==
  ASSUME NEW sent,
         latest' = [i \in Followed |-> IF ~InUse(i) THEN Absent
                                       ELSE IF i \in sent THEN index ELSE latest[i]]
  PROVE  /\ \A c \in Channels : spx' # Absent /\ c \in spx'.use =>
              latest'[<<"spx", c>>] = IF <<"spx", c>> \in sent THEN index ELSE latest[<<"spx", c>>]
         /\ \A c \in Channels : coupling' # Absent /\ c \in coupling'.use =>
              latest'[<<"coupling", c>>] = IF <<"coupling", c>> \in sent THEN index ELSE latest[<<"coupling", c>>]
         /\ \A i \in {Leak, CouplingExponents} :
              latest'[i] = IF coupling' = Absent THEN Absent ELSE IF i \in sent THEN index ELSE latest[i]
<1>1. ASSUME NEW c \in Channels, spx' # Absent, c \in spx'.use
      PROVE  latest'[<<"spx", c>>] = IF <<"spx", c>> \in sent THEN index ELSE latest[<<"spx", c>>]
  <2>1. <<"spx", c>> \in Followed /\ <<"spx", c>>[1] = "spx" /\ <<"spx", c>>[2] = c
    BY DEF Followed, PerChannel
  <2>2. InUse(<<"spx", c>>)
    BY <1>1, <2>1 DEF InUse
  <2>3. QED
    BY <2>1, <2>2
<1>2. ASSUME NEW c \in Channels, coupling' # Absent, c \in coupling'.use
      PROVE  latest'[<<"coupling", c>>] = IF <<"coupling", c>> \in sent THEN index ELSE latest[<<"coupling", c>>]
  <2>1. <<"coupling", c>> \in Followed /\ <<"coupling", c>>[1] = "coupling" /\ <<"coupling", c>>[2] = c
    BY DEF Followed, PerChannel
  <2>2. InUse(<<"coupling", c>>)
    BY <1>2, <2>1 DEF InUse, Coupled
  <2>3. QED
    BY <2>1, <2>2
<1>3. ASSUME NEW i \in {Leak, CouplingExponents}
      PROVE  latest'[i] = IF coupling' = Absent THEN Absent ELSE IF i \in sent THEN index ELSE latest[i]
  <2>1. i \in Followed /\ i[1] # "spx" /\ i[1] # "coupling"
    BY DEF Followed, Leak, CouplingExponents
  <2>2. InUse(i) <=> coupling' # Absent
    BY <2>1 DEF InUse
  <2>3. QED
    BY <2>1, <2>2
<1>4. QED
  BY <1>1, <1>2, <1>3

LEMMA SpxStep ==
  ASSUME SpxInherits, NEW sent, ReadSpx(sent),
         \A c \in Channels : spx' # Absent /\ c \in spx'.use =>
           latest'[<<"spx", c>>] = IF <<"spx", c>> \in sent THEN index ELSE latest[<<"spx", c>>]
  PROVE  SpxInherits'
<1>1. CASE PerChannel("spx") \cap sent = {} /\ UNCHANGED <<spx, firstSpx>>
  <2>1. \A c \in Channels : <<"spx", c>> \notin sent
    BY <1>1 DEF PerChannel
  <2>2. QED
    BY <1>1, <2>1 DEF SpxInherits
<1>2. CASE spx' = Absent
  BY <1>2 DEF SpxInherits
<1>3. ASSUME NEW code \in SpxCodes, NEW use, use \subseteq Channels, NEW merged, NewSpx(code, merged, use, sent)
      PROVE  SpxInherits'
  <2> DEFINE bands == SpxEnd - SpxBegin(code) - Cardinality(merged)
             Old(c) == IF spx = Absent THEN Absent ELSE spx.coordinates[c]
             Got(c) == IF c \notin use THEN Absent
                       ELSE IF <<"spx", c>> \in sent THEN [block |-> index, size |-> bands] ELSE Old(c)
  <2>1. /\ \A c \in use : c \in firstSpx => <<"spx", c>> \in sent
        /\ \A c \in use : Got(c) # Absent /\ Got(c).size = bands
        /\ spx' = [code |-> code, merged |-> merged, use |-> use,
                   coordinates |-> [c \in Channels |-> Got(c)]]
        /\ firstSpx' = Channels \ use
    BY <1>3, Zenon DEF NewSpx
  <2> HIDE DEF bands
  <2>2. /\ spx'.code = code /\ spx'.merged = merged /\ spx'.use = use
        /\ \A c \in use : spx'.coordinates[c] = Got(c)
    BY <1>3, <2>1
  <2>3. ASSUME spx' # Absent, NEW c \in use
        PROVE  Got(c).block = latest'[<<"spx", c>>]
    <3>1. CASE <<"spx", c>> \in sent
      BY <1>3, <2>2, <2>3, <3>1
    <3>2. CASE <<"spx", c>> \notin sent
      <4>1. c \notin firstSpx /\ Got(c) = Old(c) /\ Old(c) # Absent
        BY <2>1, <3>2
      <4>2. spx # Absent /\ Got(c) = spx.coordinates[c]
        BY <4>1
      <4>3. c \in spx.use
        BY <1>3, <4>1, <4>2 DEF SpxInherits
      <4>4. Got(c).block = latest[<<"spx", c>>]
        BY <4>2, <4>3 DEF SpxInherits
      <4>5. QED
        BY <1>3, <2>2, <2>3, <3>2, <4>4
    <3>3. QED
      BY <3>1, <3>2
  <2>4. QED
    BY <1>3, <2>1, <2>2, <2>3 DEF SpxInherits, bands
<1>4. QED
  <2>1. \A use \in IF varied = "spx" THEN SUBSET Channels ELSE {Channels} : use \subseteq Channels
    OBVIOUS
  <2>2. QED
    BY <1>1, <1>2, <1>3, <2>1 DEF ReadSpx

\* What is not sent is taken over from a region that was in use.
LEMMA CoordinatesStep ==
  ASSUME CouplingInherits, codec \in {"AC-3", "E-AC-3"}, codec' = codec, NEW sent, NEW base, ReadCoordinates(base, sent),
         base = [kind |-> base.kind, code |-> base.code, end |-> base.end, merged |-> base.merged,
                 use |-> base.use, phased |-> base.phased, coordinates |-> base.coordinates,
                 phase |-> base.phase],
         base.use \subseteq Channels,
         \A c \in Channels : base.coordinates[c] # Absent =>
           coupling # Absent /\ base.coordinates[c] = coupling.coordinates[c],
         \A c \in Channels : coupling' # Absent /\ c \in coupling'.use =>
           latest'[<<"coupling", c>>] = IF <<"coupling", c>> \in sent THEN index ELSE latest[<<"coupling", c>>]
  PROVE  /\ CouplingInherits'
         /\ coupling'.kind = base.kind /\ coupling'.code = base.code /\ coupling'.end = base.end
         /\ coupling'.merged = base.merged
<1> DEFINE given == {c \in base.use : <<"coupling", c>> \in sent}
           Got(c) == IF c \in given THEN [block |-> index, size |-> Bands(base)]
                     ELSE IF c \notin base.use /\ codec = "AC-3" THEN Absent ELSE base.coordinates[c]
           phase == IF base.phased /\ given # {} THEN Bands(base) ELSE base.phase
<1>1. /\ codec = "E-AC-3" => base.use \cap firstCoupling \subseteq given
      /\ \A c \in base.use : Got(c) # Absent /\ Got(c).size = Bands(base)
      /\ coupling' = [base EXCEPT !.coordinates = [c \in Channels |-> Got(c)], !.phase = phase]
      /\ codec = "E-AC-3" => firstCoupling' = Channels \ base.use
  BY Zenon DEF ReadCoordinates
<1> HIDE DEF phase
<1>2. /\ coupling'.kind = base.kind /\ coupling'.code = base.code /\ coupling'.end = base.end
      /\ coupling'.merged = base.merged /\ coupling'.use = base.use /\ coupling'.phased = base.phased
      /\ coupling'.coordinates = [c \in Channels |-> Got(c)] /\ coupling'.phase = phase
      /\ coupling' = [kind |-> base.kind, code |-> base.code, end |-> base.end, merged |-> base.merged,
                      use |-> base.use, phased |-> base.phased,
                      coordinates |-> [c \in Channels |-> Got(c)], phase |-> phase]
  BY <1>1
<1>3. Bands(coupling)' = Bands(base)
  BY <1>2 DEF Bands
<1>4. ASSUME coupling' # Absent, NEW c \in base.use
      PROVE  Got(c).block = latest'[<<"coupling", c>>]
  <2>1. CASE c \in given
    BY <1>2, <1>4, <2>1
  <2>2. CASE c \notin given
    <3>1. Got(c) = base.coordinates[c] /\ base.coordinates[c] # Absent /\ c \in Channels
      BY <1>1, <1>4, <2>2
    <3>2. coupling # Absent /\ Got(c) = coupling.coordinates[c] /\ coupling.coordinates[c] # Absent
      BY <3>1
    <3>3. c \in coupling.use
      BY <1>1, <1>4, <2>2, <3>1, <3>2 DEF CouplingInherits
    <3>4. Got(c).block = latest[<<"coupling", c>>]
      BY <3>2, <3>3 DEF CouplingInherits
    <3>5. QED
      BY <1>2, <1>4, <2>2, <3>1, <3>4
  <2>3. QED
    BY <2>1, <2>2
<1>5. codec' # "E-AC-3" => \A c \in Channels \ coupling'.use : coupling'.coordinates[c] = Absent
  BY <1>2
<1>6. ASSUME coupling' # Absent, NEW c \in coupling'.use
      PROVE  /\ coupling'.coordinates[c].block = latest'[<<"coupling", c>>]
             /\ coupling'.coordinates[c].size = Bands(coupling)'
  <2>1. c \in base.use /\ coupling'.coordinates[c] = Got(c)
    BY <1>2, <1>6
  <2>2. QED
    BY <1>1, <1>3, <1>4, <1>6, <2>1
<1>7. coupling' = [kind |-> coupling'.kind, code |-> coupling'.code, end |-> coupling'.end,
                   merged |-> coupling'.merged, use |-> coupling'.use, phased |-> coupling'.phased,
                   coordinates |-> coupling'.coordinates, phase |-> coupling'.phase]
  BY <1>2
<1>8. coupling'.use \subseteq Channels /\ (codec' = "E-AC-3" => firstCoupling' = Channels \ coupling'.use)
  BY <1>1, <1>2
<1> HIDE DEF given, Got
<1>9. QED
  BY <1>2, <1>5, <1>6, <1>7, <1>8 DEF CouplingInherits

\* A structure that is sent counts for the subbands inside of its region, and only there.
LEMMA SentAppends ==
  ASSUME structures \in Seq([inner : SUBSET Int, merged : SUBSET Int]),
         NEW inner \in SUBSET Int, NEW news \in SUBSET Int,
         structures' = Append(structures, [inner |-> inner, merged |-> news])
  PROVE  /\ structures' \in Seq([inner : SUBSET Int, merged : SUBSET Int])
         /\ \A b \in inner : SentLast(b)' <=> b \in news
         /\ \A b : b \notin inner => (SentLast(b)' <=> SentLast(b))
<1> DEFINE S == [inner : SUBSET Int, merged : SUBSET Int]
           e == [inner |-> inner, merged |-> news]
           q == structures
           r == structures'
           m == Len(q)
<1>1. e \in S /\ e.inner = inner /\ e.merged = news /\ q \in Seq(S) /\ r = Append(q, e)
  OBVIOUS
<1> HIDE DEF e, q, r, S
<1>2. /\ m \in Nat /\ DOMAIN q = 1 .. m
  BY <1>1, LenProperties
<1>3. r \in Seq(S) /\ Len(r) = m + 1
  BY <1>1, AppendProperties
<1>4. DOMAIN r = 1 .. m + 1
  BY <1>3, LenProperties
<1>5. r[m + 1] = e /\ \A i \in 1 .. m : r[i] = q[i]
  BY <1>1, AppendProperties
<1> HIDE DEF m
<1>6. ASSUME NEW b \in inner  PROVE SentLast(b)' <=> b \in news
  <2> DEFINE now == {i \in DOMAIN r : b \in r[i].inner}
             g == CHOOSE i \in now : \A j \in now : j <= i
  <2>1. m + 1 \in now /\ \A j \in now : j <= m + 1
    BY <1>1, <1>2, <1>4, <1>5
  <2>2. \A i \in now : i \in 1 .. m + 1
    BY <1>4
  <2> HIDE DEF now
  <2>3. g = m + 1
    <3>1. \A i \in now : (\A j \in now : j <= i) => i = m + 1
      BY <1>2, <2>1, <2>2
    <3>2. QED
      BY <2>1, <3>1
  <2>4. SentLast(b)' <=> b \in r[g].merged
    BY <2>1, Zenon DEF SentLast, now, r
  <2>5. r[g].merged = news
    BY <1>1, <1>5, <2>3
  <2>6. QED
    BY <2>4, <2>5, Zenon
<1>7. ASSUME NEW b, b \notin inner  PROVE SentLast(b)' <=> SentLast(b)
  <2> DEFINE before == {i \in DOMAIN q : b \in q[i].inner}
             g == CHOOSE i \in before : \A j \in before : j <= i
  <2>1. {i \in DOMAIN r : b \in r[i].inner} = before
    <3>1. b \notin r[m + 1].inner
      BY <1>1, <1>5, <1>7
    <3>2. ASSUME NEW i \in DOMAIN r, b \in r[i].inner  PROVE i \in before
      <4>1. i \in 1 .. m
        BY <1>2, <1>4, <3>1, <3>2
      <4>2. QED
        BY <1>2, <1>5, <3>2, <4>1
    <3>3. ASSUME NEW i \in before  PROVE i \in DOMAIN r /\ b \in r[i].inner
      <4>1. i \in 1 .. m /\ i \in 1 .. m + 1
        BY <1>2, <3>3
      <4>2. QED
        BY <1>4, <1>5, <3>3, <4>1
    <3>4. QED
      BY <3>2, <3>3
  <2>2. before \in SUBSET (1 .. m)
    BY <1>2
  <2> HIDE DEF before
  <2>3. CASE before = {}
    <3>1. SentLast(b)' <=> b \in StandardDefault
      BY <2>1, <2>3, Zenon DEF SentLast, r
    <3>2. SentLast(b) <=> b \in StandardDefault
      BY <2>3, Zenon DEF SentLast, before, q
    <3>3. QED
      BY <3>1, <3>2, Zenon
  <2>4. CASE before # {}
    <3>1. \E i \in before : \A j \in before : j <= i
      BY <1>2, <2>2, <2>4, GreatestNat
    <3>2. g \in before
      BY <3>1, Zenon
    <3>3. SentLast(b)' <=> b \in r[g].merged
      BY <2>1, <2>4, Zenon DEF SentLast, r
    <3>4. SentLast(b) <=> b \in q[g].merged
      BY <2>4, Zenon DEF SentLast, before, q
    <3> HIDE DEF g
    <3>5. r[g] = q[g]
      BY <1>5, <2>2, <3>2
    <3>6. QED
      BY <3>3, <3>4, <3>5, Zenon
  <2>5. QED
    BY <2>3, <2>4
<1>8. QED
  BY <1>3, <1>6, <1>7 DEF r, S

LEMMA RegionStep ==
  ASSUME AudioInv, codec' = codec, NEW sent, ReadCoupling(sent), spx' # Absent => spx'.code \in SpxCodes,
         \A c \in Channels : coupling' # Absent /\ c \in coupling'.use =>
           latest'[<<"coupling", c>>] = IF <<"coupling", c>> \in sent THEN index ELSE latest[<<"coupling", c>>]
  PROVE  CouplingInherits' /\ StructureInherits'
<1>1. CouplingInherits /\ StructureInherits /\ codec \in {"AC-3", "E-AC-3"}
  BY DEF AudioInv
<1>2. ASSUME UNCHANGED <<boundaries, structures>>
      PROVE  /\ structures' \in Seq([inner : SUBSET Int, merged : SUBSET Int])
             /\ \A b \in Int : b \in boundaries' <=> SentLast(b)'
  <2>1. \A b : SentLast(b)' <=> SentLast(b)
    BY <1>2, Zenon DEF SentLast
  <2>2. QED
    BY <1>1, <1>2, <2>1 DEF StructureInherits
<1>3. CASE coupling' = Absent /\ UNCHANGED <<boundaries, structures>>
  BY <1>2, <1>3 DEF CouplingInherits, StructureInherits
<1>4. ASSUME coupling # Absent, ReadCoordinates(coupling, sent), UNCHANGED <<boundaries, structures>>
      PROVE  CouplingInherits' /\ StructureInherits'
  <2>1. PICK base : base = coupling
    OBVIOUS
  <2>2. /\ ReadCoordinates(base, sent) /\ base.use \subseteq Channels
        /\ base = [kind |-> base.kind, code |-> base.code, end |-> base.end, merged |-> base.merged,
                   use |-> base.use, phased |-> base.phased, coordinates |-> base.coordinates,
                   phase |-> base.phase]
    BY <1>1, <1>4, <2>1 DEF CouplingInherits
  <2>3. \A c \in Channels : base.coordinates[c] # Absent =>
          coupling # Absent /\ base.coordinates[c] = coupling.coordinates[c]
    BY <1>4, <2>1
  <2>4. /\ CouplingInherits'
        /\ coupling'.kind = base.kind /\ coupling'.code = base.code /\ coupling'.end = base.end
        /\ coupling'.merged = base.merged
    BY <1>1, <2>2, <2>3, CoordinatesStep
  <2>5. CouplingInner(coupling)' = CouplingInner(coupling)
    BY <2>1, <2>4 DEF CouplingInner
  <2>6. QED
    BY <1>1, <1>2, <1>4, <2>1, <2>4, <2>5 DEF StructureInherits
<1>5. ASSUME NEW shape \in Shapes, NEW use \in Uses(shape.kind), NEW phased,
             NEW news \in Sent(shape.kind, Inner(Begin(shape.kind, shape.code), shape.end)),
             ReadCoordinates(Strategy(shape, news, use, phased), sent),
             KeepBoundaries(Strategy(shape, news, use, phased), news)
      PROVE  CouplingInherits' /\ StructureInherits'
  <2> DEFINE inner == Inner(Begin(shape.kind, shape.code), shape.end)
             merged == IF news # Absent THEN news
                       ELSE inner \cap IF shape.kind = "standard" THEN boundaries ELSE EnhancedDefault
             s == [kind |-> shape.kind, code |-> shape.code, end |-> shape.end, merged |-> merged]
  <2>1. PICK base : base = Strategy(shape, news, use, phased)
    OBVIOUS
  <2>2. base = [kind |-> shape.kind, code |-> shape.code, end |-> shape.end, merged |-> merged, use |-> use,
                phased |-> phased,
                coordinates |-> IF Reusable(s) THEN coupling.coordinates ELSE Nothing,
                phase |-> IF Reusable(s) THEN coupling.phase ELSE Absent]
    BY <2>1 DEF Strategy
  <2> HIDE DEF merged, s
  <2>3. use \subseteq Channels
    BY <1>5 DEF Uses
  <2>4. \A c \in Channels : base.coordinates[c] # Absent =>
          coupling # Absent /\ base.coordinates[c] = coupling.coordinates[c]
    <3>1. CASE Reusable(s)
      BY <2>2, <3>1 DEF Reusable
    <3>2. CASE ~Reusable(s)
      BY <2>2, <3>2 DEF Nothing
    <3>3. QED
      BY <3>1, <3>2
  <2>5. /\ CouplingInherits'
        /\ coupling'.kind = shape.kind /\ coupling'.code = shape.code /\ coupling'.end = shape.end
        /\ coupling'.merged = merged
    <3>1. ReadCoordinates(base, sent)
      BY <1>5, <2>1
    <3>2. /\ base.kind = shape.kind /\ base.code = shape.code /\ base.end = shape.end
          /\ base.merged = merged /\ base.use = use
          /\ base = [kind |-> base.kind, code |-> base.code, end |-> base.end, merged |-> base.merged,
                     use |-> base.use, phased |-> base.phased, coordinates |-> base.coordinates,
                     phase |-> base.phase]
      BY <2>2
    <3>3. QED
      BY <1>1, <2>3, <2>4, <3>1, <3>2, CoordinatesStep
  <2>6. CouplingInner(coupling)' = inner /\ CouplingInner(base) = inner
    BY <2>2, <2>5 DEF CouplingInner
  <2>7. inner \subseteq Int
    <3>1. shape.code \in Nat
      BY CodeAssumption DEF Shapes
    <3>2. shape.end \in Int
      BY CodeAssumption DEF Shapes, EndSubband
    <3>3. Begin(shape.kind, shape.code) \in Int
      BY <3>1 DEF Begin
    <3> HIDE DEF inner
    <3>4. QED
      BY <3>2, <3>3 DEF inner, Inner
  <2> HIDE DEF inner
  <2>8. CASE codec = "E-AC-3" /\ base.kind = "standard" /\ news # Absent
    <3>1. /\ boundaries' = (boundaries \ inner) \cup news
          /\ structures' = Append(structures, [inner |-> inner, merged |-> news])
      BY <1>5, <2>1, <2>6, <2>8 DEF KeepBoundaries, Overwritten
    <3>2. news = {} \/ news = inner
      BY <1>5, <2>2, <2>8 DEF Sent, inner
    <3>3. inner \in SUBSET Int /\ news \in SUBSET Int /\ news \subseteq inner
      BY <2>7, <3>2
    <3>4. structures \in Seq([inner : SUBSET Int, merged : SUBSET Int])
          /\ \A b \in Int : b \in boundaries <=> SentLast(b)
      BY <1>1 DEF StructureInherits
    <3>5. /\ structures' \in Seq([inner : SUBSET Int, merged : SUBSET Int])
          /\ \A b \in inner : SentLast(b)' <=> b \in news
          /\ \A b : b \notin inner => (SentLast(b)' <=> SentLast(b))
      BY <3>1, <3>3, <3>4, SentAppends
    <3>6. \A b \in Int : b \in boundaries' <=> SentLast(b)'
      BY <3>1, <3>3, <3>4, <3>5
    <3>7. merged = news /\ news = inner \cap boundaries'
      BY <2>8, <3>1, <3>3 DEF merged
    <3>8. QED
      BY <2>5, <2>6, <2>7, <3>5, <3>6, <3>7 DEF StructureInherits
  <2>9. CASE ~(codec = "E-AC-3" /\ base.kind = "standard" /\ news # Absent)
    <3>1. UNCHANGED <<boundaries, structures>>
      BY <1>5, <2>1, <2>9 DEF KeepBoundaries
    <3>2. codec = "E-AC-3" /\ shape.kind = "standard" => merged = inner \cap boundaries
      BY <2>2, <2>9 DEF merged
    <3>3. QED
      BY <1>2, <2>5, <2>6, <2>7, <3>1, <3>2 DEF StructureInherits
  <2>10. QED
    BY <2>8, <2>9
<1>6. QED
  BY <1>3, <1>4, <1>5, Zenon DEF ReadCoupling

LEMMA CarrierStep ==
  ASSUME CarrierInherits, NEW sent, ReadExponents(sent), ReadAllocation(sent),
         \A i \in {Leak, CouplingExponents} :
           latest'[i] = IF coupling' = Absent THEN Absent ELSE IF i \in sent THEN index ELSE latest[i]
  PROVE  CarrierInherits'
<1>1. leak' = latest'[Leak]
  BY DEF CarrierInherits, ReadAllocation
<1>2. CASE coupling' = Absent
  <2>1. couplingExponents' = Absent
    BY <1>2 DEF ReadExponents
  <2>2. QED
    BY <1>1, <1>2, <2>1 DEF CarrierInherits
<1>3. CASE coupling' # Absent
  <2>1. couplingExponents' # Absent
        /\ couplingExponents' = IF CouplingExponents \in sent THEN [block |-> index, size |-> Size(coupling')]
                                ELSE couplingExponents
    BY <1>3 DEF ReadExponents
  <2>2. couplingExponents'.block = latest'[CouplingExponents]
    BY <1>3, <2>1 DEF CarrierInherits
  <2>3. QED
    BY <1>1, <1>3, <2>2 DEF CarrierInherits
<1>4. QED
  BY <1>2, <1>3

LEMMA AudioStart ==
  AudioInit => AudioInv
<1> SUFFICES ASSUME AudioInit  PROVE AudioInv
  OBVIOUS
<1>1. structures = <<>> /\ boundaries = StandardDefault /\ DOMAIN <<>> = {}
      /\ spx = Absent /\ coupling = Absent /\ couplingExponents = Absent
  BY DEF AudioInit
<1>2. \A b : SentLast(b) <=> b \in StandardDefault
  BY <1>1 DEF SentLast
<1>3. leak = latest[Leak]
  BY DEF AudioInit, Followed
<1>4. codec \in {"AC-3", "E-AC-3"}
  BY DEF AudioInit
<1>5. QED
  BY <1>1, <1>2, <1>3, <1>4 DEF AudioInv, SpxInherits, CouplingInherits, StructureInherits, CarrierInherits

LEMMA AudioStep ==
  AudioInv /\ [AudioNext]_audioVars => AudioInv'
<1> SUFFICES ASSUME AudioInv, [AudioNext]_audioVars  PROVE AudioInv'
  OBVIOUS
<1>1. CASE AudioBlock
  <2>1. PICK sent : /\ ReadSpx(sent) /\ ReadCoupling(sent) /\ ReadExponents(sent) /\ ReadAllocation(sent)
                    /\ latest' = [i \in Followed |-> IF ~InUse(i) THEN Absent
                                                     ELSE IF i \in sent THEN index ELSE latest[i]]
    BY <1>1, Zenon DEF AudioBlock
  <2>2. codec' = codec
    BY <1>1, Zenon DEF AudioBlock
  <2>3. /\ \A c \in Channels : spx' # Absent /\ c \in spx'.use =>
             latest'[<<"spx", c>>] = IF <<"spx", c>> \in sent THEN index ELSE latest[<<"spx", c>>]
        /\ \A c \in Channels : coupling' # Absent /\ c \in coupling'.use =>
             latest'[<<"coupling", c>>] = IF <<"coupling", c>> \in sent THEN index ELSE latest[<<"coupling", c>>]
        /\ \A i \in {Leak, CouplingExponents} :
             latest'[i] = IF coupling' = Absent THEN Absent ELSE IF i \in sent THEN index ELSE latest[i]
    BY <2>1, LatestIs, Zenon
  <2>4. SpxInherits'
    BY <2>1, <2>3, SpxStep DEF AudioInv
  <2>5. spx' # Absent => spx'.code \in SpxCodes
    BY <2>4 DEF SpxInherits
  <2>6. CouplingInherits' /\ StructureInherits'
    BY <2>1, <2>2, <2>3, <2>5, RegionStep
  <2>7. CarrierInherits'
    BY <2>1, <2>3, CarrierStep DEF AudioInv
  <2>8. QED
    BY <2>2, <2>4, <2>6, <2>7 DEF AudioInv
<1>2. CASE UNCHANGED <<codec, spx, coupling, boundaries, firstSpx, firstCoupling, couplingExponents, leak,
                       latest, structures>>
  <2>1. SpxInherits' /\ CouplingInherits' /\ CarrierInherits'
    BY <1>2 DEF AudioInv, SpxInherits, CouplingInherits, CarrierInherits, Bands
  <2>2. \A b : SentLast(b)' <=> SentLast(b)
    BY <1>2, Zenon DEF SentLast
  <2>3. StructureInherits'
    BY <1>2, <2>2 DEF AudioInv, StructureInherits, CouplingInner
  <2>4. QED
    BY <1>2, <2>1, <2>3 DEF AudioInv
<1>3. QED
  BY <1>1, <1>2, Zenon DEF AudioNext, RefuseBlock, audioVars

LEMMA AudioInherits ==
  AudioInv => InheritsLatest
<1> SUFFICES ASSUME AudioInv  PROVE InheritsLatest
  OBVIOUS
<1>1. ASSUME coupling # Absent, codec = "E-AC-3", coupling.kind = "standard"
      PROVE  coupling.merged = LastStructure(coupling)
  <2>1. LastStructure(coupling) = {b \in CouplingInner(coupling) : SentLast(b)}
    BY Zenon DEF LastStructure, SentLast
  <2>2. \A b \in CouplingInner(coupling) : SentLast(b) <=> b \in boundaries
    BY <1>1 DEF AudioInv, StructureInherits
  <2>3. coupling.merged = CouplingInner(coupling) \cap boundaries
    BY <1>1 DEF AudioInv, StructureInherits
  <2>4. QED
    BY <2>1, <2>2, <2>3
<1>2. QED
  BY <1>1 DEF AudioInv, SpxInherits, CouplingInherits, CarrierInherits, InheritsLatest

\* However a tool is switched off, given to other channels or moved to another region in
\* between, whatever a block leaves out is what was sent last in this frame while the tool
\* was in use.
THEOREM InheritsLatestHolds ==
  DecodingSpec => []InheritsLatest
<1>1. DecodingInit => AudioInv
  BY AudioStart DEF DecodingInit
<1>2. AudioInv /\ [DecodingNext]_<<stage, audioVars, unitVars, payloadVars, vars>> => AudioInv'
  <2> SUFFICES ASSUME AudioInv, [DecodingNext]_<<stage, audioVars, unitVars, payloadVars, vars>>
               PROVE  AudioInv'
    OBVIOUS
  <2>1. [AudioNext]_audioVars
    BY Zenon DEF DecodingNext
  <2>2. QED
    BY <2>1, AudioStep
<1>3. QED
  BY <1>1, <1>2, AudioInherits, PTL DEF DecodingSpec
=============================================================================
