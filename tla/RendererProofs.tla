--------------------------- MODULE RendererProofs ---------------------------
(***************************************************************************)
(* Proofs about the two renderers of a programme.                          *)
(*                                                                         *)
(* The loudspeaker renderer, for every binding of the coordinates, every   *)
(* set of places, scalars and event times, every size of an access unit    *)
(* and any number of blocks and resets: the two copies of the object       *)
(* control agree between blocks, what is put out is the programme, one     *)
(* block late behind a linked gain, and every gain ramp ends in its        *)
(* quantum at the gain that the metadata ask for.                          *)
(*                                                                         *)
(* The binaural filters, for any number of sources, any lengths of the     *)
(* filters, sizes of blocks, chunks and partitions, any scene and any      *)
(* number of resets: each engine puts out the exact convolution.           *)
(***************************************************************************)
EXTENDS SpeakerRenderer, BinauralFilters, SequenceTheorems, WellFoundedInduction, TLAPS

ControlRecords == [Ordinals -> Records]

-----------------------------------------------------------------------------
(* The invariant *)

StateInv ==
  /\ stereo \in BOOLEAN /\ linked \in BOOLEAN
  /\ assembler \in [epoch : 0 .. 1, records : Option(ControlRecords)]
  /\ assembler.records = None <=> assembler.epoch = 0
  /\ binding \in Option([epoch : {1}, records : ControlRecords])
  /\ gain \in Option(LinkedGains)
  /\ expected \in Nat /\ clock \in Nat /\ expected <= clock /\ finished \in BOOLEAN
  /\ call \in Option(Calls)

\* The records of a first frame are those of its topology.
StartRecords == IF call.initial # None THEN call.initial ELSE binding.records

\* H[q]: the records with which quantum q of the frame begins.  An event takes them
\* from one quantum to the next; the last are those of the assembler.
Course(H) ==
  /\ H[FrameQuanta] = assembler.records
  /\ \A q \in Quantums :
       LET e == call.events[q] IN
       IF e = None THEN H[q] = H[q + 1] ELSE e.before = H[q] /\ e.after = H[q + 1]
  /\ IF call.at = None \/ call.at = 0
     THEN (call.initial = None => binding # None) /\ H[0] = StartRecords
     ELSE binding # None /\ binding.records = H[call.at]

\* What the binding will be when the frame ends is what the assembler is now.
ControlInv ==
  IF call = None
  THEN InOrder /\ assembler.records # None => binding = assembler
  ELSE /\ InOrder /\ ~finished /\ assembler.records # None
       /\ \E H \in [Nat -> ControlRecords] : Course(H)

\* The blocks rendered end where the next is expected; the linked gain holds the last.
OutputInv ==
  /\ fed \in Seq(Nat) /\ heard \in Seq(Nat \cup {Silence}) /\ cuts \subseteq 1 .. Len(fed)
  /\ \A i \in 1 .. Len(fed) : fed[i] = expected - Len(fed) + i - 1
  /\ ~linked => heard = fed /\ gain = None
  /\ linked =>
       /\ gain = None => fed = <<>>
       /\ gain # None /\ InOrder /\ ~finished =>
            gain.held = (IF fed = <<>> THEN Silence ELSE fed[Len(fed)])
       /\ Len(heard) = Len(fed) + (IF finished /\ InOrder /\ gain # None THEN 1 ELSE 0)
       /\ \A i \in 1 .. Len(heard) :
            heard[i] = IF i = 1 \/ i \in cuts THEN Silence ELSE fed[i - 1]

IInv == StateInv /\ ControlInv /\ OutputInv

-----------------------------------------------------------------------------
(* Numbers *)

\* Every set of natural numbers with an element has a least one.
LEMMA LeastNat ==
  ASSUME NEW T, T \subseteq Nat, T # {}
  PROVE  \E n \in T : \A m \in T : n <= m
<1> DEFINE R == OpToRel(<, Nat)
<1> HIDE DEF R
<1>1. IsWellFoundedOn(R, Nat)
  BY NatLessThanWellFounded DEF R
<1>2. PICK x \in T : \A y \in T : ~ (<<y, x>> \in R)
  BY <1>1, WFMin
<1>3. \A y \in T : y < x => <<y, x>> \in R
  BY DEF OpToRel, R
<1>4. \A m \in T : x <= m
  <2> SUFFICES ASSUME NEW m \in T  PROVE x <= m
    OBVIOUS
  <2>1. ~ (m < x)
    BY <1>2, <1>3
  <2>2. m \in Nat /\ x \in Nat
    OBVIOUS
  <2>3. QED
    BY <2>1, <2>2
<1>5. QED
  BY <1>4

\* A function that does not change from one number to the next is the same at both ends.
LEMMA Constant ==
  ASSUME NEW S, NEW p \in Nat, NEW q \in Nat, p <= q, NEW H \in [Nat -> S],
         \A r \in p .. q - 1 : H[r] = H[r + 1]
  PROVE  H[p] = H[q]
<1> DEFINE T == {r \in p .. q : H[r] # H[p]}
<1> SUFFICES ASSUME T # {}  PROVE FALSE
  BY DEF T
<1>1. T \subseteq Nat
  OBVIOUS
<1>2. PICK n \in T : \A m \in T : n <= m
  BY <1>1, LeastNat
<1>3. n # p /\ n \in p .. q /\ H[n] # H[p]
  OBVIOUS
<1>4. n - 1 \in p .. q - 1 /\ n - 1 \notin T /\ (n - 1) + 1 = n
  BY <1>2, <1>3
<1>5. H[n - 1] = H[p]
  BY <1>4
<1>6. QED
  BY <1>3, <1>4, <1>5

-----------------------------------------------------------------------------
(* Operators of the control path *)

\* Applying a patch to the record it was made from gives the record it was made for.
LEMMA PatchRestores ==
  ASSUME NEW previous \in Records, NEW next \in Records
  PROVE  Patched(previous, Patch(previous, next)) = next
<1>1. next.active # None /\ next.scalar # None /\ next.place # None
  BY ConstantsAssumption DEF Records
<1>2. CASE previous.place = next.place
  <2>1. Patched(previous, Patch(previous, next))
          = [active |-> next.active, scalar |-> next.scalar, place |-> next.place]
    BY <1>1, <1>2 DEF Patched, Patch, Records
  <2>2. QED
    BY <2>1 DEF Records
<1>3. CASE previous.place # next.place
  <2>1. Patched(previous, Patch(previous, next))
          = [active |-> next.active, scalar |-> next.scalar, place |-> next.place]
    BY <1>1, <1>3 DEF Patched, Patch, Records
  <2>2. QED
    BY <2>1 DEF Records
<1>4. QED
  BY <1>2, <1>3

LEMMA AppliedType ==
  ASSUME stereo \in BOOLEAN, assembler.records \in ControlRecords, NEW us \in BlockUpdates
  PROVE  Applied(us) \in ControlRecords
<1>1. ASSUME NEW c \in Ordinals
      PROVE  (IF Coordinates[c].object = None \/ c \notin Accepted(us) THEN assembler.records[c]
              ELSE Updated(c, assembler.records[c], us[Coordinates[c].object])) \in Records
  <2>1. assembler.records[c] \in Records
    BY DEF ControlRecords
  <2>2. CASE Coordinates[c].object = None \/ c \notin Accepted(us)
    BY <2>1, <2>2
  <2>3. CASE Coordinates[c].object # None /\ c \in Accepted(us)
    <3>1. Coordinates[c].object \in Objects
      <4>1. Coordinates \in Seq([family : {"base", "dynamic"}, object : Objects \cup {None}])
        BY ConstantsAssumption
      <4>2. Coordinates[c] \in [family : {"base", "dynamic"}, object : Objects \cup {None}]
        BY <4>1, ElementOfSeq DEF Ordinals
      <4>3. QED
        BY <2>3, <4>2
    <3>2. us[Coordinates[c].object] \in Updates
      BY <3>1 DEF BlockUpdates
    <3>3. Updated(c, assembler.records[c], us[Coordinates[c].object]) \in Records
      BY <2>1, <3>2 DEF Updated, Records, Updates
    <3>4. QED
      BY <2>3, <3>3
  <2>4. QED
    BY <2>2, <2>3
<1>2. QED
  BY <1>1 DEF Applied, ControlRecords

\* The end of a window is later than its start, and no event lies in between.
LEMMA WindowEndIs ==
  ASSUME call \in Calls, Rendering
  PROVE  /\ WindowEnd \in Nat /\ call.at < WindowEnd /\ WindowEnd <= FrameQuanta
         /\ \A r \in Quantums : call.at < r /\ r < WindowEnd => call.events[r] = None
<1> DEFINE later == {q \in Quantums : q > call.at /\ call.events[q] # None} \cup {FrameQuanta}
<1>1. FrameQuanta \in Nat /\ call.at \in Nat /\ call.at < FrameQuanta
  BY ConstantsAssumption DEF Rendering, Calls, Option
<1>2. later \subseteq Nat /\ later # {}
  BY <1>1 DEF Quantums
<1>3. \E q \in later : \A r \in later : q <= r
  BY <1>2, LeastNat
<1>4. WindowEnd \in later /\ \A r \in later : WindowEnd <= r
  BY <1>3 DEF WindowEnd
<1>5. call.at < WindowEnd /\ WindowEnd <= FrameQuanta /\ WindowEnd \in Nat
  BY <1>1, <1>2, <1>4
<1>6. ASSUME NEW r \in Quantums, call.at < r, r < WindowEnd  PROVE call.events[r] = None
  <2>1. r \notin later
    BY <1>1, <1>4, <1>5, <1>6 DEF Quantums
  <2>2. QED
    BY <1>1, <1>6, <2>1 DEF Quantums
<1>7. QED
  BY <1>5, <1>6

\* A window leaves the binding with the records of the quantum after its first.
LEMMA BoundIs ==
  ASSUME StateInv, call # None, Rendering,
         NEW H \in [Nat -> ControlRecords], Course(H)
  PROVE  Bound = [epoch |-> 1, records |-> H[call.at + 1]]
<1> DEFINE topology == IF call.at = 0 THEN call.initial ELSE None
           start == IF topology = None THEN binding ELSE [epoch |-> 1, records |-> topology]
           updates == IF HasEvent THEN EventUpdates(call.events[call.at]) ELSE <<>>
           result == [c \in Ordinals |-> IF c \in DOMAIN updates
                                         THEN Patched(start.records[c], updates[c])
                                         ELSE start.records[c]]
<1>1. call \in Calls /\ call.at \in Quantums /\ call.at \in Nat
  BY ConstantsAssumption DEF StateInv, Option, Rendering, Calls, Quantums
<1>2. H[call.at] \in ControlRecords /\ H[call.at + 1] \in ControlRecords
  BY <1>1
<1>3. start.records = H[call.at] /\ start = [epoch |-> 1, records |-> H[call.at]]
  <2>1. CASE call.at = 0 /\ call.initial # None
    BY <2>1 DEF Course, StartRecords
  <2>2. CASE call.at = 0 /\ call.initial = None
    <3>1. binding \in [epoch : {1}, records : ControlRecords] /\ binding.records = H[call.at]
      BY <2>2 DEF Course, StartRecords, StateInv, Option
    <3>2. QED
      BY <2>2, <3>1
  <2>3. CASE call.at # 0
    <3>1. call.at # None
      BY DEF Rendering
    <3>2. binding \in [epoch : {1}, records : ControlRecords] /\ binding.records = H[call.at]
      BY <2>3, <3>1 DEF Course, StateInv, Option
    <3>3. QED
      BY <2>3, <3>2
  <2>4. QED
    BY <2>1, <2>2, <2>3
<1>4. result = H[call.at + 1]
  <2>1. CASE ~HasEvent
    <3>1. H[call.at + 1] = H[call.at]
      BY <1>1, <2>1 DEF Course, HasEvent
    <3>2. DOMAIN updates = {}
      BY <2>1
    <3>3. result = [c \in Ordinals |-> H[call.at][c]]
      BY <1>3, <3>2
    <3>4. QED
      BY <1>2, <3>1, <3>3 DEF ControlRecords
  <2>2. CASE HasEvent
    <3> DEFINE e == call.events[call.at]
    <3>1. e # None /\ e.before = H[call.at] /\ e.after = H[call.at + 1]
      BY <1>1, <2>2 DEF Course, HasEvent
    <3>2. DOMAIN updates = Diff(H[call.at], H[call.at + 1])
      BY <2>2, <3>1 DEF EventUpdates
    <3>3. \A c \in Diff(H[call.at], H[call.at + 1]) : updates[c] = Patch(H[call.at][c], H[call.at + 1][c])
      BY <2>2, <3>1 DEF EventUpdates
    <3> HIDE DEF updates, start, e
    <3>4. ASSUME NEW c \in Ordinals
          PROVE  (IF c \in DOMAIN updates THEN Patched(start.records[c], updates[c]) ELSE start.records[c])
                   = H[call.at + 1][c]
      <4>1. H[call.at][c] \in Records /\ H[call.at + 1][c] \in Records
        BY <1>2 DEF ControlRecords
      <4>2. CASE c \in Diff(H[call.at], H[call.at + 1])
        BY <1>3, <3>2, <3>3, <4>1, <4>2, PatchRestores
      <4>3. CASE c \notin Diff(H[call.at], H[call.at + 1])
        BY <1>3, <3>2, <4>3 DEF Diff
      <4>4. QED
        BY <4>2, <4>3
    <3>5. result = [c \in Ordinals |-> H[call.at + 1][c]]
      BY <3>4
    <3>6. QED
      BY <1>2, <3>5 DEF ControlRecords
  <2>3. QED
    BY <2>1, <2>2
<1>5. Bound = [start EXCEPT !.records = result]
  BY DEF Bound
<1> HIDE DEF start, result
<1>6. QED
  BY <1>3, <1>4, <1>5

-----------------------------------------------------------------------------
(* Types *)

LEMMA ConstantFacts ==
  /\ FrameQuanta \in Nat /\ FrameQuanta > 0
  /\ None \notin Int /\ Silence \notin Nat
  /\ None \notin ControlRecords /\ None \notin LinkedGains /\ None \notin Calls
  /\ None \notin Event
  /\ None \notin [epoch : {1}, records : ControlRecords]
<1>1. [epoch : {1}, records : ControlRecords] \subseteq Controls
  BY DEF Controls, ControlRecords
<1>2. QED
  BY <1>1, ConstantsAssumption, NoneAssumption DEF ControlRecords

LEMMA DefaultType == ASSUME stereo \in BOOLEAN  PROVE DefaultRecords \in ControlRecords
  BY ConstantsAssumption DEF DefaultRecords, ControlRecords, Records

\* The quantum of an event is a natural number.
LEMMA EventQuantumType == ASSUME NEW start \in Starts  PROVE EventQuantum(start) \in Nat
<1> DEFINE half == Quantum \div 2
           late == IF start > half THEN start - half ELSE 0
<1>1. start \in Nat /\ half \in Nat
  BY ConstantsAssumption, SchedulerAssumption
<1>2. late \in Nat
  BY <1>1
<1>3. EventQuantum(start) = (late + Quantum - 1) \div Quantum
  BY DEF EventQuantum
<1> HIDE DEF late
<1>4. late + Quantum - 1 \in Nat
  BY <1>2, SchedulerAssumption
<1> DEFINE total == late + Quantum - 1
<1> HIDE DEF total
<1>5. total \div Quantum \in Nat
  BY <1>4, SchedulerAssumption DEF total
<1>6. QED
  BY <1>3, <1>5 DEF total

LEMMA EventType ==
  ASSUME call \in Calls, assembler.records \in ControlRecords, assembler'.records \in ControlRecords,
         NEW start \in Starts, NEW ramp \in Ramps, EventQuantum(start) \in Quantums
  PROVE  WithEvent(start, ramp) \in [Quantums -> Option(Event)]
<1> DEFINE q == EventQuantum(start)
           first == IF call.events[q] = None THEN assembler.records ELSE call.events[q].before
<1>1. call.events \in [Quantums -> Option(Event)] /\ q \in Quantums
  BY DEF Calls
<1>2. first \in ControlRecords
  <2>1. call.events[q] # None => call.events[q] \in Event
    BY <1>1 DEF Option
  <2>2. QED
    BY <2>1 DEF Event, ControlRecords
<1>3. [start |-> start, ramp |-> ramp, before |-> first, after |-> assembler'.records] \in Event
  BY <1>2 DEF Event, ControlRecords
<1>4. WithEvent(start, ramp) = [call.events EXCEPT ![q] =
         [start |-> start, ramp |-> ramp, before |-> first, after |-> assembler'.records]]
  BY DEF WithEvent
<1> HIDE DEF q, first
<1>5. QED
  BY <1>1, <1>3, <1>4 DEF Option

LEMMA UnboundType ==
  /\ Unbound \in [epoch : 0 .. 1, records : Option(ControlRecords)]
  /\ Unbound.records = None /\ Unbound.epoch = 0
  BY DEF Unbound, Option

LEMMA ConfiguredType ==
  ASSUME gain \in Option(LinkedGains), NEW lfe \in BOOLEAN
  PROVE  Configured(lfe) \in LinkedGains
  BY DEF Configured, Option, LinkedGains

\* A call in progress has records that end in those of the assembler.
LEMMA BoundType ==
  ASSUME StateInv, ControlInv, call # None, Rendering
  PROVE  Bound \in [epoch : {1}, records : ControlRecords]
<1>1. PICK H \in [Nat -> ControlRecords] : Course(H)
  BY DEF ControlInv
<1>2. call.at \in Nat
  BY ConstantFacts DEF StateInv, Option, Calls, Rendering
<1>3. QED
  BY <1>1, <1>2, BoundIs

LEMMA BeginCall ==
  ASSUME StateInv, NEW lfe \in BOOLEAN, NEW payload \in BOOLEAN, BeginBlock(lfe, payload)
  PROVE  call' \in Calls
<1>1. NoEvents \in [Quantums -> Option(Event)]
  BY DEF NoEvents, Option
<1>2. (IF assembler.records = None THEN DefaultRecords ELSE None) \in Option([Ordinals -> Records])
  BY DefaultType DEF Option, ControlRecords, StateInv
<1>3. QED
  BY <1>1, <1>2 DEF BeginBlock, Calls, Option

LEMMA FailState ==
  ASSUME StateInv, Fail,
         assembler' \in [epoch : 0 .. 1, records : Option(ControlRecords)],
         assembler'.records = None <=> assembler'.epoch = 0,
         binding' \in Option([epoch : {1}, records : ControlRecords]),
         gain' \in Option(LinkedGains)
  PROVE  StateInv'
<1>1. clock' \in Nat /\ expected' \in Nat /\ expected' <= clock'
  BY ConstantFacts DEF StateInv, Fail
<1>2. stereo' \in BOOLEAN /\ linked' \in BOOLEAN /\ finished' \in BOOLEAN /\ call' \in Option(Calls)
  BY DEF StateInv, Fail, config, Option
<1>3. QED
  BY <1>1, <1>2 DEF StateInv

LEMMA StateStep ==
  ASSUME StateInv, ControlInv, [Next]_vars
  PROVE  StateInv'
<1> USE DEF StateInv
<1>1. CASE Reset
  <2>1. gain' \in Option(LinkedGains)
    BY <1>1 DEF Reset, ClearGain, Option, LinkedGains
  <2>2. assembler' = Unbound /\ binding' = None /\ call' = call /\ UNCHANGED config
    BY <1>1 DEF Reset, ClearControl
  <2>3. stereo' \in BOOLEAN /\ linked' \in BOOLEAN /\ call' \in Option(Calls)
    BY <2>2 DEF config
  <2>4. binding' \in Option([epoch : {1}, records : ControlRecords])
    BY <2>2 DEF Option
  <2>5. assembler' \in [epoch : 0 .. 1, records : Option(ControlRecords)]
        /\ assembler'.records = None /\ assembler'.epoch = 0
    BY <2>2, UnboundType
  <2>6. expected' \in Nat /\ clock' \in Nat /\ expected' <= clock'
    BY <1>1 DEF Reset
  <2>7. finished' \in BOOLEAN
    BY <1>1 DEF Reset
  <2>8. QED
    BY <2>1, <2>3, <2>4, <2>5, <2>6, <2>7
<1>2. ASSUME NEW n \in 0 .. 1, StateReset(n)  PROVE StateInv'
  <2>1. gain' \in Option(LinkedGains)
    BY <1>2 DEF StateReset, ClearGain, Option, LinkedGains
  <2>2. clock' \in Nat /\ expected' = clock'
    <3>1. n = 0 \/ n = 1
      BY <1>2
    <3>2. clock' = clock \/ clock' = clock + FrameQuanta
      BY <1>2, <3>1, ConstantFacts DEF StateReset
    <3>3. QED
      BY <1>2, <3>2, ConstantFacts DEF StateReset
  <2>3. assembler' = Unbound /\ binding' = None /\ call' = call /\ finished' = finished
        /\ UNCHANGED config
    BY <1>2 DEF StateReset, ClearControl
  <2>4. QED
    BY <2>1, <2>2, <2>3 DEF Unbound, config, Option
<1>3. ASSUME NEW lfe \in BOOLEAN, NEW payload \in BOOLEAN, BeginBlock(lfe, payload)  PROVE StateInv'
  <2>1. assembler' \in [epoch : 0 .. 1, records : Option(ControlRecords)]
        /\ (assembler'.records = None <=> assembler'.epoch = 0)
    BY <1>3, DefaultType, ConstantFacts DEF BeginBlock, Option
  <2>2. call' \in Calls
    BY <1>3, BeginCall
  <2>3. QED
    BY <1>3, <2>1, <2>2 DEF BeginBlock, config, Option
<1>4. CASE RefuseBlock
  BY <1>4, FailState DEF RefuseBlock
<1>5. CASE RefuseTiming
  BY <1>5, FailState DEF RefuseTiming
<1>6. ASSUME NEW start \in Starts, NEW ramp \in Ramps, NEW us \in BlockUpdates,
             ApplyBlock(start, ramp, us)
      PROVE  StateInv'
  <2>1. call # None /\ call \in Calls /\ assembler.records \in ControlRecords
    BY <1>6 DEF ApplyBlock, Assembling, ControlInv, Option
  <2>2. Applied(us) \in ControlRecords
    BY <2>1, AppliedType
  <2>3. assembler' \in [epoch : 0 .. 1, records : Option(ControlRecords)]
        /\ assembler'.records = Applied(us) /\ assembler'.epoch = assembler.epoch
    BY <1>6, <2>2 DEF ApplyBlock, Option
  <2>4. assembler'.records = None <=> assembler'.epoch = 0
    BY <2>1, <2>2, <2>3, ConstantFacts
  <2>5. EventQuantum(start) \in Quantums
    <3>1. EventQuantum(start) \in Nat
      BY EventQuantumType
    <3>2. QED
      BY <1>6, <3>1, ConstantFacts DEF ApplyBlock, Quantums
  <2>6. WithEvent(start, ramp) \in [Quantums -> Option(Event)]
    BY <2>1, <2>2, <2>3, <2>5, EventType
  <2>7. call' \in Calls
    BY <1>6, <2>1, <2>6 DEF ApplyBlock, Calls
  <2>8. QED
    BY <1>6, <2>3, <2>4, <2>7 DEF ApplyBlock, config, Option
<1>7. ASSUME NEW us \in BlockUpdates, RefuseUpdate(us)  PROVE StateInv'
  <2>1. call # None /\ assembler.records \in ControlRecords
    BY <1>7 DEF RefuseUpdate, Assembling, ControlInv, Option
  <2>2. Applied(us) \in ControlRecords
    BY <2>1, AppliedType
  <2>3. assembler' \in [epoch : 0 .. 1, records : Option(ControlRecords)]
        /\ assembler'.records = Applied(us) /\ assembler'.epoch = assembler.epoch
    BY <1>7, <2>2 DEF RefuseUpdate, Option
  <2>4. assembler'.records = None <=> assembler'.epoch = 0
    BY <2>1, <2>2, <2>3, ConstantFacts
  <2>5. QED
    BY <1>7, <2>3, <2>4, FailState DEF RefuseUpdate
<1>8. CASE Assembled
  <2>1. call \in Calls
    BY <1>8 DEF Assembled, Assembling, Option
  <2>2. [q \in Quantums |-> IF Changes(call.events[q]) THEN call.events[q] ELSE None]
          \in [Quantums -> Option(Event)]
    BY <2>1 DEF Calls, Option
  <2>3. 0 \in Option(0 .. FrameQuanta)
    BY ConstantFacts DEF Option
  <2>4. call' \in Calls
    BY <1>8, <2>1, <2>2, <2>3 DEF Assembled, Calls
  <2>5. QED
    BY <1>8, <2>4 DEF Assembled, config, Option
<1>9. CASE RenderWindow
  <2>1. call \in Calls /\ Rendering /\ call # None
    BY <1>9 DEF RenderWindow, Rendering, Option
  <2>2. binding' \in [epoch : {1}, records : ControlRecords]
    BY <1>9, <2>1, BoundType DEF RenderWindow
  <2>3. WindowEnd \in Option(0 .. FrameQuanta)
    BY <2>1, WindowEndIs, ConstantFacts DEF Option
  <2>4. call' \in Calls
    BY <1>9, <2>1, <2>3 DEF RenderWindow, Calls
  <2>5. QED
    BY <1>9, <2>2, <2>4 DEF RenderWindow, config, Option
<1>10. CASE FailProjection
  <2>1. binding' \in [epoch : {1}, records : ControlRecords]
    BY <1>10, BoundType DEF FailProjection, Rendering
  <2>2. QED
    BY <1>10, <2>1, FailState DEF FailProjection, Option
<1>11. ASSUME NEW n \in 0 .. FrameSamples, FailSample(n)  PROVE StateInv'
  <2>1. binding' \in [epoch : {1}, records : ControlRecords]
    BY <1>11, BoundType DEF FailSample, Rendering
  <2>2. QED
    BY <1>11, <2>1, FailState DEF FailSample, Option
<1>12. CASE EndBlock
  <2>1. call \in Calls /\ call.lfe \in BOOLEAN
    BY <1>12 DEF EndBlock, Rendered, Option, Calls
  <2>2. BlockQuanta[FrameQuanta] \in Nat
    BY ConstantFacts DEF BlockQuanta
  <2>3. gain' \in Option(LinkedGains)
    BY <1>12, <2>1, <2>2 DEF EndBlock, Option, LinkedGains
  <2>4. clock' \in Nat /\ expected' \in Nat /\ expected' <= clock'
    BY <1>12, ConstantFacts DEF EndBlock
  <2>5. QED
    BY <1>12, <2>3, <2>4 DEF EndBlock, config, Option
<1>13. CASE FailGain
  <2>1. call.lfe \in BOOLEAN
    BY <1>13 DEF FailGain, Rendered, Option, Calls
  <2>2. gain' \in Option(LinkedGains)
    BY <1>13, <2>1, ConfiguredType DEF FailGain, Option
  <2>3. QED
    BY <1>13, <2>2, FailState DEF FailGain
<1>14. CASE Finish
  <2>1. gain' \in Option(LinkedGains)
    BY <1>14 DEF Finish, Option, LinkedGains
  <2>2. QED
    BY <1>14, <2>1 DEF Finish, config
<1>15. CASE UNCHANGED vars
  BY <1>15 DEF vars, config
<1>16. QED
  BY <1>1, <1>2, <1>3, <1>4, <1>5, <1>6, <1>7, <1>8, <1>9, <1>10, <1>11, <1>12, <1>13, <1>14, <1>15
     DEF Next

-----------------------------------------------------------------------------
(* The two copies of the control *)

\* After a failure no frame is taken until a reset.
LEMMA FailControl ==
  ASSUME StateInv, Fail  PROVE ControlInv'
<1>1. call' = None /\ clock' > expected' /\ clock' \in Nat /\ expected' \in Nat
  BY ConstantFacts DEF StateInv, Fail
<1>2. QED
  BY <1>1 DEF ControlInv, InOrder

LEMMA ApplyCourse ==
  ASSUME StateInv, ControlInv,
         NEW start \in Starts, NEW ramp \in Ramps, NEW us \in BlockUpdates,
         ApplyBlock(start, ramp, us)
  PROVE  \E H \in [Nat -> ControlRecords] : Course(H)'
<1> DEFINE q == EventQuantum(start)
<1>1. call # None /\ call \in Calls /\ call.at = None /\ assembler.records \in ControlRecords
      /\ call.events \in [Quantums -> Option(Event)]
  BY DEF ApplyBlock, Assembling, ControlInv, StateInv, Option, Calls
<1>2. PICK H \in [Nat -> ControlRecords] : Course(H)
  BY <1>1 DEF ControlInv
<1>3. assembler'.records = Applied(us) /\ Applied(us) \in ControlRecords
  BY <1>1, AppliedType DEF ApplyBlock, StateInv, Option
<1>4. q \in Quantums /\ q \in Nat /\ q < FrameQuanta /\ q + 1 \in Nat
  BY EventQuantumType, ConstantFacts DEF ApplyBlock, Quantums
<1>5. \A r \in Quantums : r > q => call.events[r] = None
  BY <1>4, ConstantFacts DEF ApplyBlock, Quantums
<1> DEFINE first == IF call.events[q] = None THEN assembler.records ELSE call.events[q].before
           event == [start |-> start, ramp |-> ramp, before |-> first, after |-> assembler'.records]
<1> HIDE DEF q
<1>6. first = H[q]
  <2>1. CASE call.events[q] # None
    BY <1>2, <1>4, <2>1 DEF Course
  <2>2. CASE call.events[q] = None
    <3>1. \A r \in q .. FrameQuanta - 1 : H[r] = H[r + 1]
      <4>1. ASSUME NEW r \in q .. FrameQuanta - 1  PROVE H[r] = H[r + 1]
        <5>1. r \in Quantums /\ call.events[r] = None
          BY <1>4, <1>5, <2>2, ConstantFacts DEF Quantums
        <5>2. QED
          BY <1>2, <5>1 DEF Course
      <4>2. QED
        BY <4>1
    <3>2. q \in Nat /\ FrameQuanta \in Nat /\ q <= FrameQuanta
      BY <1>4, ConstantFacts
    <3>3. H[q] = H[FrameQuanta]
      BY <3>1, <3>2, Constant
    <3>4. QED
      BY <1>2, <2>2, <3>3 DEF Course
  <2>3. QED
    BY <2>1, <2>2
<1>7. call'.events = [call.events EXCEPT ![q] = event]
  BY <1>1 DEF ApplyBlock, WithEvent, Calls, q
<1>8. call'.at = None /\ call'.initial = call.initial /\ binding' = binding
  BY <1>1 DEF ApplyBlock, Calls
<1> DEFINE G == [i \in Nat |-> IF i <= q THEN H[i] ELSE assembler'.records]
<1>9. G \in [Nat -> ControlRecords]
  BY <1>3
<1>10. G[FrameQuanta] = assembler'.records
  BY <1>4, ConstantFacts
<1>11. G[0] = H[0]
  BY <1>4
<1>12. event # None /\ event.before = first /\ event.after = assembler'.records
  <2>1. call.events[q] # None => call.events[q] \in Event
    BY <1>1, <1>4 DEF Option
  <2>2. first \in ControlRecords
    BY <1>1, <2>1 DEF Event, ControlRecords
  <2>3. event \in Event
    BY <1>3, <2>2 DEF Event, ControlRecords
  <2>4. QED
    BY <2>3, ConstantFacts
<1> HIDE DEF event, first
<1>13. ASSUME NEW r \in Quantums
       PROVE  IF call'.events[r] = None THEN G[r] = G[r + 1]
              ELSE call'.events[r].before = G[r] /\ call'.events[r].after = G[r + 1]
  <2>1. r \in Nat /\ r + 1 \in Nat
    BY ConstantFacts DEF Quantums
  <2>2. CASE r < q
    <3>1. call'.events[r] = call.events[r]
      BY <1>1, <1>7, <2>2, <1>4, <2>1
    <3>2. G[r] = H[r] /\ G[r + 1] = H[r + 1]
      BY <1>4, <2>1, <2>2
    <3>3. QED
      BY <1>2, <3>1, <3>2 DEF Course
  <2>3. CASE r = q
    <3>1. call'.events[r] = event
      BY <1>1, <1>4, <1>7, <2>3
    <3>2. G[r] = H[q] /\ G[r + 1] = assembler'.records
      BY <1>4, <2>3
    <3>3. QED
      BY <1>6, <1>12, <3>1, <3>2
  <2>4. CASE r > q
    <3>1. call'.events[r] = None
      BY <1>1, <1>4, <1>5, <1>7, <2>1, <2>4
    <3>2. G[r] = assembler'.records /\ G[r + 1] = assembler'.records
      BY <1>4, <2>1, <2>4
    <3>3. QED
      BY <3>1, <3>2
  <2>5. QED
    BY <1>4, <2>1, <2>2, <2>3, <2>4
<1>14. PICK K \in [Nat -> ControlRecords] : K = G
  BY <1>9
<1> HIDE DEF G
<1>15. (call'.initial = None => binding' # None) /\ K[0] = StartRecords'
  BY <1>1, <1>2, <1>8, <1>11, <1>14 DEF Course, StartRecords
<1>16. Course(K)'
  BY <1>8, <1>10, <1>13, <1>14, <1>15 DEF Course
<1>17. QED
  BY <1>16

\* The events that change nothing are dropped.
LEMMA AssembledControl ==
  ASSUME StateInv, ControlInv, Assembled  PROVE ControlInv'
<1>1. call \in Calls /\ call # None /\ call.at = None /\ call.events \in [Quantums -> Option(Event)]
  BY DEF Assembled, Assembling, StateInv, Option, Calls
<1>2. PICK H \in [Nat -> ControlRecords] : Course(H)
  BY <1>1 DEF ControlInv
<1>3. call'.at = 0 /\ call'.initial = call.initial
      /\ call'.events = [q \in Quantums |-> IF Changes(call.events[q]) THEN call.events[q] ELSE None]
  BY <1>1 DEF Assembled, Calls
<1>4. ASSUME NEW q \in Quantums, call.events[q] # None, ~Changes(call.events[q])
      PROVE  H[q] = H[q + 1]
  <2>1. call.events[q].before = H[q] /\ call.events[q].after = H[q + 1]
    BY <1>2, <1>4 DEF Course
  <2>2. Diff(H[q], H[q + 1]) = {}
    BY <1>4, <2>1 DEF Changes
  <2>3. q \in Nat /\ q + 1 \in Nat
    BY ConstantFacts DEF Quantums
  <2>4. H[q] \in ControlRecords /\ H[q + 1] \in ControlRecords
    BY <2>3
  <2>5. \A c \in Ordinals : H[q][c] = H[q + 1][c]
    BY <2>2 DEF Diff
  <2>6. QED
    BY <2>4, <2>5 DEF ControlRecords
<1>5. ASSUME NEW q \in Quantums
      PROVE  IF call'.events[q] = None THEN H[q] = H[q + 1]
             ELSE call'.events[q].before = H[q] /\ call'.events[q].after = H[q + 1]
  <2>1. CASE call.events[q] = None
    <3>1. call'.events[q] = None
      BY <1>3, <2>1
    <3>2. QED
      BY <1>2, <2>1, <3>1 DEF Course
  <2>2. CASE call.events[q] # None /\ Changes(call.events[q])
    <3>1. call'.events[q] = call.events[q]
      BY <1>3, <2>2
    <3>2. QED
      BY <1>2, <2>2, <3>1 DEF Course
  <2>3. CASE call.events[q] # None /\ ~Changes(call.events[q])
    <3>1. call'.events[q] = None
      BY <1>3, <2>3
    <3>2. QED
      BY <1>4, <2>3, <3>1
  <2>4. QED
    BY <2>1, <2>2, <2>3
<1>6. UNCHANGED <<assembler, binding, expected, clock, finished>>
  BY DEF Assembled
<1>7. Course(H)'
  <2>1. H[FrameQuanta] = assembler'.records
    BY <1>2, <1>6 DEF Course
  <2>2. (call'.initial = None => binding' # None) /\ H[0] = StartRecords'
    BY <1>1, <1>2, <1>3, <1>6 DEF Course, StartRecords
  <2>3. QED
    BY <1>3, <1>5, <2>1, <2>2 DEF Course
<1>8. call' # None
  <2>1. call' = [call EXCEPT !.at = 0,
          !.events = [q \in Quantums |-> IF Changes(call.events[q]) THEN call.events[q] ELSE None]]
    BY DEF Assembled
  <2>2. [q \in Quantums |-> IF Changes(call.events[q]) THEN call.events[q] ELSE None]
          \in [Quantums -> Option(Event)]
    BY <1>1 DEF Option
  <2>3. 0 \in Option(0 .. FrameQuanta)
    BY ConstantFacts DEF Option
  <2>4. call' \in Calls
    BY <1>1, <2>1, <2>2, <2>3 DEF Calls
  <2>5. QED
    BY <2>4, ConstantFacts
<1>9. QED
  BY <1>1, <1>6, <1>7, <1>8 DEF ControlInv, InOrder

\* From one window to the next, or to the end of the frame, the records stay.
LEMMA WindowControl ==
  ASSUME StateInv, ControlInv, RenderWindow  PROVE ControlInv'
<1>1. call \in Calls /\ call # None /\ Rendering
  BY DEF RenderWindow, Rendering, StateInv, Option
<1>2. call.at \in Nat /\ call.at \in Quantums /\ call.at < FrameQuanta
  BY <1>1, ConstantFacts DEF Rendering, Calls, Option, Quantums
<1>3. PICK H \in [Nat -> ControlRecords] : Course(H)
  BY <1>1 DEF ControlInv
<1>4. PICK w \in Nat : w = WindowEnd
  BY <1>1, WindowEndIs
<1>5. call.at < w /\ w <= FrameQuanta
      /\ \A r \in Quantums : call.at < r /\ r < w => call.events[r] = None
  BY <1>1, <1>4, WindowEndIs
<1>6. binding' = [epoch |-> 1, records |-> H[call.at + 1]]
  BY <1>1, <1>3, BoundIs DEF RenderWindow
<1>7. H[call.at + 1] = H[w]
  <2>1. ASSUME NEW r \in call.at + 1 .. w - 1  PROVE H[r] = H[r + 1]
    <3>1. r \in Quantums /\ call.at < r /\ r < w
      BY <1>2, <1>5, ConstantFacts DEF Quantums
    <3>2. QED
      BY <1>3, <1>5, <3>1 DEF Course
  <2>2. call.at + 1 \in Nat /\ call.at + 1 <= w
    BY <1>2, <1>5
  <2>3. QED
    BY <2>1, <2>2, Constant
<1>8. call'.at = w /\ call'.initial = call.initial /\ call'.events = call.events
  BY <1>1, <1>4 DEF RenderWindow, Calls
<1>9. binding' # None /\ binding'.records = H[w]
  <2>1. H[call.at + 1] \in ControlRecords
    BY <1>2
  <2>2. binding' \in [epoch : {1}, records : ControlRecords]
    BY <1>6, <2>1
  <2>3. QED
    BY <1>6, <1>7, <2>2, ConstantFacts
<1>10. UNCHANGED <<assembler, expected, clock, finished>>
  BY DEF RenderWindow
<1>11. w # None /\ w # 0
  BY <1>2, <1>5, ConstantFacts
<1>12. Course(H)'
  BY <1>3, <1>8, <1>9, <1>10, <1>11 DEF Course
<1>13. call' # None
  <2>1. w \in Option(0 .. FrameQuanta)
    BY <1>5 DEF Option
  <2>2. call' \in Calls
    BY <1>1, <1>4, <2>1 DEF RenderWindow, Calls
  <2>3. QED
    BY <2>2, ConstantFacts
<1>14. QED
  BY <1>1, <1>10, <1>12, <1>13 DEF ControlInv, InOrder

LEMMA ControlStep ==
  ASSUME StateInv, ControlInv, [Next]_vars
  PROVE  ControlInv'
<1>1. CASE Reset
  BY <1>1 DEF Reset, ClearControl, Unbound, ControlInv
<1>2. ASSUME NEW n \in 0 .. 1, StateReset(n)  PROVE ControlInv'
  BY <1>2 DEF StateReset, ClearControl, Unbound, ControlInv
<1>3. ASSUME NEW lfe \in BOOLEAN, NEW payload \in BOOLEAN, BeginBlock(lfe, payload)  PROVE ControlInv'
  <2>1. call' # None /\ call'.at = None /\ call'.events = NoEvents
        /\ call'.initial = (IF assembler.records = None THEN DefaultRecords ELSE None)
    <3>1. call' \in Calls
      BY <1>3, BeginCall
    <3>2. QED
      BY <1>3, <3>1, ConstantFacts DEF BeginBlock
  <2>2. assembler'.records \in ControlRecords /\ assembler'.records # None
        /\ assembler'.records = (IF assembler.records = None THEN DefaultRecords ELSE assembler.records)
    BY <1>3, DefaultType, ConstantFacts DEF BeginBlock, StateInv, Option
  <2>3. binding' = binding /\ InOrder' /\ ~finished'
    BY <1>3 DEF BeginBlock, InOrder
  <2>4. assembler.records # None => binding = assembler /\ binding # None
    BY <1>3, ConstantFacts DEF BeginBlock, ControlInv, StateInv, Option, Controls, ControlRecords
  <2>5. PICK H \in [Nat -> ControlRecords] : H = [i \in Nat |-> assembler'.records]
    BY <2>2
  <2>6. Course(H)'
    <3>1. H[0] = assembler'.records /\ H[FrameQuanta] = assembler'.records
      BY <2>5, ConstantFacts
    <3>2. ASSUME NEW r \in Quantums  PROVE call'.events[r] = None /\ H[r] = H[r + 1]
      <4>1. r \in Nat /\ r + 1 \in Nat
        BY ConstantFacts DEF Quantums
      <4>2. QED
        BY <2>1, <2>5, <4>1 DEF NoEvents
    <3>3. (call'.initial = None => binding' # None) /\ H[0] = StartRecords'
      <4>1. CASE assembler.records = None
        BY <2>1, <2>2, <3>1, <4>1, DefaultType, ConstantFacts DEF StartRecords, StateInv
      <4>2. CASE assembler.records # None
        BY <2>1, <2>2, <2>3, <2>4, <3>1, <4>2 DEF StartRecords
      <4>3. QED
        BY <4>1, <4>2
    <3>4. QED
      BY <2>1, <3>1, <3>2, <3>3 DEF Course
  <2>7. QED
    BY <2>1, <2>2, <2>3, <2>6 DEF ControlInv
<1>4. CASE RefuseBlock
  BY <1>4, FailControl DEF RefuseBlock
<1>5. CASE RefuseTiming
  BY <1>5, FailControl DEF RefuseTiming
<1>6. ASSUME NEW start \in Starts, NEW ramp \in Ramps, NEW us \in BlockUpdates,
             ApplyBlock(start, ramp, us)
      PROVE  ControlInv'
  <2>1. \E H \in [Nat -> ControlRecords] : Course(H)'
    BY <1>6, ApplyCourse
  <2>2. call # None /\ assembler.records \in ControlRecords
    BY <1>6 DEF ApplyBlock, Assembling, ControlInv, StateInv, Option
  <2>3. InOrder' /\ ~finished'
    BY <1>6, <2>2 DEF ApplyBlock, InOrder, ControlInv
  <2>4. call' # None /\ assembler'.records # None
    <3>1. call \in Calls
      BY <2>2 DEF StateInv, Option
    <3>2. Applied(us) \in ControlRecords
      BY <2>2, AppliedType DEF StateInv
    <3>3. assembler'.records = Applied(us)
      BY <1>6 DEF ApplyBlock, StateInv
    <3>4. EventQuantum(start) \in Quantums
      BY <1>6, EventQuantumType, ConstantFacts DEF ApplyBlock, Quantums
    <3>5. WithEvent(start, ramp) \in [Quantums -> Option(Event)]
      BY <2>2, <3>1, <3>2, <3>3, <3>4, EventType
    <3>6. call' \in Calls
      BY <1>6, <3>1, <3>5 DEF ApplyBlock, Calls
    <3>7. QED
      BY <3>2, <3>3, <3>6, ConstantFacts
  <2>5. QED
    BY <2>1, <2>3, <2>4 DEF ControlInv
<1>7. ASSUME NEW us \in BlockUpdates, RefuseUpdate(us)  PROVE ControlInv'
  BY <1>7, FailControl DEF RefuseUpdate
<1>8. CASE Assembled
  BY <1>8, AssembledControl
<1>9. CASE RenderWindow
  BY <1>9, WindowControl
<1>10. CASE FailProjection
  BY <1>10, FailControl DEF FailProjection
<1>11. ASSUME NEW n \in 0 .. FrameSamples, FailSample(n)  PROVE ControlInv'
  BY <1>11, FailControl DEF FailSample
<1>12. CASE EndBlock
  <2>1. PICK H \in [Nat -> ControlRecords] : Course(H)
    BY <1>12 DEF EndBlock, Rendered, ControlInv
  <2>2. binding # None /\ binding.records = H[FrameQuanta] /\ assembler.records = H[FrameQuanta]
    BY <1>12, <2>1, ConstantFacts DEF EndBlock, Rendered, Course
  <2>3. binding \in [epoch : {1}, records : ControlRecords] /\ assembler.records # None
    BY <1>12, <2>2 DEF StateInv, Option, ControlInv, EndBlock, Rendered
  <2>4. binding = assembler
    <3>1. assembler.epoch = 1 /\ binding.epoch = 1
      BY <2>3 DEF StateInv
    <3>2. binding = [epoch |-> 1, records |-> binding.records]
          /\ assembler = [epoch |-> 1, records |-> assembler.records]
      BY <2>3, <3>1 DEF StateInv
    <3>3. QED
      BY <2>2, <3>2
  <2>5. QED
    BY <1>12, <2>4 DEF EndBlock, ControlInv
<1>13. CASE FailGain
  BY <1>13, FailControl DEF FailGain
<1>14. CASE Finish
  BY <1>14 DEF Finish, ControlInv, InOrder
<1>15. CASE UNCHANGED vars
  <2>1. UNCHANGED <<assembler, binding, expected, clock, finished, call>>
    BY <1>15 DEF vars, config
  <2>2. QED
    BY <2>1 DEF ControlInv, InOrder, Course, StartRecords
<1>16. QED
  BY <1>1, <1>2, <1>3, <1>4, <1>5, <1>6, <1>7, <1>8, <1>9, <1>10, <1>11, <1>12, <1>13, <1>14, <1>15
     DEF Next

-----------------------------------------------------------------------------
(* What is put out *)

\* A step that leaves the output alone, and either the order of the frames or the
\* linked gain with it.
LEMMA KeepOutput ==
  ASSUME OutputInv, UNCHANGED <<config, history>>, expected' = expected, finished' = finished,
         gain' # None <=> gain # None,
         ~linked => gain' = None,
         InOrder' => gain' = gain /\ InOrder,
         finished => UNCHANGED <<gain, clock>>
  PROVE  OutputInv'
<1>1. UNCHANGED <<linked, fed, cuts, heard, expected, finished>>
  BY DEF config, history
<1>2. CASE finished
  BY <1>1, <1>2 DEF OutputInv, InOrder
<1>3. CASE ~finished
  BY <1>1, <1>3 DEF OutputInv
<1>4. QED
  BY <1>2, <1>3

LEMMA SameOutput ==
  ASSUME OutputInv, UNCHANGED <<config, history, gain, expected, clock, finished>>
  PROVE  OutputInv'
<1>1. UNCHANGED <<linked, fed, cuts, heard, gain, expected, clock, finished>>
  BY DEF config, history
<1>2. QED
  BY <1>1 DEF OutputInv, InOrder

LEMMA FailOutput ==
  ASSUME StateInv, OutputInv, ~finished, Fail, UNCHANGED history,
         gain' # None <=> gain # None,
         ~linked => gain' = None
  PROVE  OutputInv'
<1>1. ~InOrder'
  BY ConstantFacts DEF StateInv, Fail, InOrder
<1>2. UNCHANGED <<config, expected, finished>>
  BY DEF Fail
<1>3. QED
  BY <1>1, <1>2, KeepOutput

LEMMA ResetOutput ==
  ASSUME StateInv, OutputInv, ClearGain, UNCHANGED config, ~finished'
  PROVE  OutputInv'
<1>1. fed' = <<>> /\ heard' = <<>> /\ cuts' = {} /\ linked' = linked
  BY DEF ClearGain, config
<1>2. Len(fed') = 0 /\ Len(heard') = 0 /\ fed' \in Seq(Nat) /\ heard' \in Seq(Nat \cup {Silence})
  BY <1>1, EmptySeq
<1>3. ~linked => gain' = None
  BY DEF ClearGain, OutputInv
<1>4. gain' # None => gain'.held = Silence
  BY DEF ClearGain, StateInv, Option, LinkedGains
<1>5. QED
  BY <1>1, <1>2, <1>3, <1>4 DEF OutputInv

\* The block rendered follows those before it, and the linked gain puts out what it held
\* and then the block but for its last quantum.
LEMMA EndOutput ==
  ASSUME StateInv, ControlInv, OutputInv, EndBlock  PROVE OutputInv'
<1>1. call # None /\ call \in Calls /\ call.lfe \in BOOLEAN /\ InOrder /\ ~finished
  BY DEF EndBlock, Rendered, StateInv, Option, Calls, ControlInv
<1> DEFINE n == Len(fed)
           B == BlockQuanta
           out == fed \o B
<1>2. n \in Nat /\ clock \in Nat /\ expected = clock /\ FrameQuanta \in Nat /\ FrameQuanta > 0
  BY <1>1, ConstantFacts DEF OutputInv, StateInv, InOrder
<1>3. B \in Seq(Nat) /\ Len(B) = FrameQuanta /\ \A i \in 1 .. FrameQuanta : B[i] = clock + i - 1
  <2>1. \A i \in 1 .. FrameQuanta : clock + i - 1 \in Nat
    BY <1>2
  <2>2. QED
    BY <1>2, <2>1, IsASeq DEF BlockQuanta
<1>4. out \in Seq(Nat) /\ Len(out) = n + FrameQuanta
      /\ \A i \in 1 .. n + FrameQuanta : out[i] = IF i <= n THEN fed[i] ELSE B[i - n]
  <2>1. fed \in Seq(Nat)
    BY DEF OutputInv
  <2> HIDE DEF B
  <2>2. Len(out) = Len(fed) + Len(B) /\ out \in Seq(Nat)
        /\ \A i \in 1 .. Len(fed) + Len(B) : out[i] = IF i <= Len(fed) THEN fed[i] ELSE B[i - Len(fed)]
    BY <1>3, <2>1, ConcatProperties
  <2>3. QED
    BY <1>3, <2>2
<1>5. fed' = out /\ expected' = expected + FrameQuanta /\ finished' = finished /\ linked' = linked
  BY DEF EndBlock, config
<1> HIDE DEF n, B, out
<1>6. Len(fed') = n + FrameQuanta
  BY <1>4, <1>5
<1>7. ASSUME NEW i \in 1 .. Len(fed')  PROVE fed'[i] = expected' - Len(fed') + i - 1
  <2>1. i \in 1 .. n + FrameQuanta
    BY <1>6
  <2>2. CASE i <= n
    <3>1. fed[i] = expected - n + i - 1
      BY <2>1, <2>2, <1>2 DEF OutputInv, n
    <3>2. QED
      BY <1>2, <1>4, <1>5, <1>6, <2>1, <2>2, <3>1
  <2>3. CASE i > n
    <3>1. i - n \in 1 .. FrameQuanta
      BY <1>2, <2>1, <2>3
    <3>2. B[i - n] = clock + (i - n) - 1
      BY <1>3, <3>1
    <3>3. out[i] = B[i - n]
      BY <1>2, <1>4, <2>1, <2>3
    <3>4. QED
      BY <1>2, <1>5, <1>6, <2>1, <3>2, <3>3
  <2>4. QED
    BY <1>2, <2>1, <2>2, <2>3
<1>8. CASE ~linked
  <2>1. heard' = fed' /\ gain' = None /\ cuts' = cuts
    BY <1>8 DEF EndBlock, OutputInv
  <2>2. cuts' \subseteq 1 .. Len(fed')
    BY <1>2, <1>6, <2>1 DEF OutputInv, n
  <2>3. fed' \in Seq(Nat) /\ heard' \in Seq(Nat \cup {Silence})
    <3>1. heard \in Seq(Nat \cup {Silence}) /\ B \in Seq(Nat \cup {Silence})
      BY <1>3 DEF OutputInv
    <3>2. heard' = heard \o B
      BY <1>8 DEF EndBlock, B
    <3>3. QED
      BY <1>4, <1>5, <3>1, <3>2, ConcatProperties
  <2>4. QED
    BY <1>5, <1>7, <1>8, <2>1, <2>2, <2>3 DEF OutputInv
<1>9. CASE linked
  <2> DEFINE held == Configured(call.lfe).held
             D == Delayed(held)
             later == heard \o D
  <2>1. held \in Nat \cup {Silence}
    BY <1>1, ConfiguredType DEF StateInv, LinkedGains
  <2>2. held = IF fed = <<>> \/ (gain # None /\ gain.lfe # call.lfe) THEN Silence ELSE fed[n]
    <3>1. gain = None => fed = <<>>
      BY <1>9 DEF OutputInv
    <3>2. gain # None => gain.held = IF fed = <<>> THEN Silence ELSE fed[n]
      BY <1>1, <1>9 DEF OutputInv, n
    <3>3. QED
      BY <3>1, <3>2 DEF Configured
  <2> HIDE DEF held
  <2>3. D \in Seq(Nat \cup {Silence}) /\ Len(D) = FrameQuanta
        /\ \A i \in 1 .. FrameQuanta : D[i] = IF i = 1 THEN held ELSE B[i - 1]
    <3>1. \A i \in 1 .. FrameQuanta : (IF i = 1 THEN held ELSE B[i - 1]) \in Nat \cup {Silence}
      <4>1. ASSUME NEW i \in 1 .. FrameQuanta  PROVE (IF i = 1 THEN held ELSE B[i - 1]) \in Nat \cup {Silence}
        <5>1. CASE i = 1
          BY <2>1, <5>1
        <5>2. CASE i # 1
          <6>1. i - 1 \in 1 .. FrameQuanta
            BY <1>2, <5>2
          <6>2. QED
            BY <1>2, <1>3, <5>2, <6>1
        <5>3. QED
          BY <5>1, <5>2
      <4>2. QED
        BY <4>1
    <3>2. D = [i \in 1 .. FrameQuanta |-> IF i = 1 THEN held ELSE B[i - 1]]
      BY DEF Delayed, B
    <3>3. QED
      BY <1>2, <3>1, <3>2, IsASeq
  <2> HIDE DEF D
  <2>4. heard \in Seq(Nat \cup {Silence}) /\ Len(heard) = n
    BY <1>1, <1>2, <1>9 DEF OutputInv, n
  <2>5. later \in Seq(Nat \cup {Silence}) /\ Len(later) = n + FrameQuanta
        /\ \A i \in 1 .. n + FrameQuanta : later[i] = IF i <= n THEN heard[i] ELSE D[i - n]
    BY <1>2, <2>3, <2>4, ConcatProperties
  <2>6. heard' = later
    BY <1>9 DEF EndBlock, D, held
  <2> HIDE DEF later
  <2>7. gain' = [lfe |-> call.lfe, held |-> B[FrameQuanta]]
    BY <1>9 DEF EndBlock, B
  <2>8. cuts \subseteq 1 .. n
    BY DEF OutputInv, n
  <2>9. cuts' = IF gain # None /\ gain.lfe # call.lfe THEN cuts \cup {n + 1} ELSE cuts
    BY <1>9 DEF EndBlock, n
  <2>10. cuts' \subseteq 1 .. n + FrameQuanta /\ cuts' \subseteq 1 .. n + 1
    BY <1>2, <2>8, <2>9
  <2>11. gain' # None /\ gain'.held = fed'[Len(fed')] /\ fed' # <<>>
    <3>1. gain' \in LinkedGains
      BY <1>1, <1>2, <1>3, <2>7 DEF LinkedGains
    <3>2. fed'[n + FrameQuanta] = B[FrameQuanta]
      BY <1>2, <1>4, <1>5
    <3>3. Len(fed') > 0
      BY <1>2, <1>6
    <3>4. fed' # <<>>
      BY <3>3, EmptySeq
    <3>5. QED
      BY <1>6, <2>7, <3>1, <3>2, <3>4, ConstantFacts
  <2>12. ASSUME NEW i \in 1 .. n + FrameQuanta
         PROVE  later[i] = IF i = 1 \/ i \in cuts' THEN Silence ELSE fed'[i - 1]
    <3>1. CASE i <= n
      <4>1. heard[i] = IF i = 1 \/ i \in cuts THEN Silence ELSE fed[i - 1]
        BY <1>2, <1>9, <2>4, <3>1 DEF OutputInv
      <4>2. i \in cuts' <=> i \in cuts
        BY <1>2, <2>9, <3>1
      <4>3. i # 1 => out[i - 1] = fed[i - 1]
        BY <1>2, <1>4, <3>1
      <4>4. QED
        BY <1>5, <1>2, <2>5, <3>1, <4>1, <4>2, <4>3
    <3>2. CASE i = n + 1
      <4>1. later[i] = held
        BY <1>2, <2>3, <2>5, <3>2
      <4>2. i \in cuts' <=> gain # None /\ gain.lfe # call.lfe
        BY <1>2, <2>8, <2>9, <3>2
      <4>3. fed = <<>> <=> i = 1
        BY <1>2, <3>2, EmptySeq DEF n, OutputInv
      <4>4. i # 1 => out[i - 1] = fed[n]
        BY <1>2, <1>4, <3>2
      <4>5. QED
        BY <1>5, <2>2, <4>1, <4>2, <4>3, <4>4
    <3>3. CASE i > n + 1
      <4>1. later[i] = D[i - n] /\ i - n \in 1 .. FrameQuanta /\ i - n # 1
        BY <1>2, <2>5, <3>3
      <4>2. D[i - n] = B[i - n - 1]
        BY <2>3, <4>1
      <4>3. out[i - 1] = B[i - 1 - n]
        BY <1>2, <1>4, <3>3
      <4>4. i # 1 /\ i \notin cuts' /\ i - 1 - n = i - n - 1
        BY <1>2, <2>10, <3>3
      <4>5. QED
        BY <1>5, <4>1, <4>2, <4>3, <4>4
    <3>4. QED
      BY <1>2, <3>1, <3>2, <3>3
  <2>13. Len(heard') = Len(fed')
    BY <1>6, <2>5, <2>6
  <2>14. Len(heard') = Len(fed') + (IF finished' /\ InOrder' /\ gain' # None THEN 1 ELSE 0)
    BY <1>1, <1>2, <1>5, <1>6, <2>13
  <2>15. \A i \in 1 .. Len(heard') : heard'[i] = IF i = 1 \/ i \in cuts' THEN Silence ELSE fed'[i - 1]
    BY <1>6, <2>6, <2>12, <2>13
  <2>16. fed' \in Seq(Nat) /\ heard' \in Seq(Nat \cup {Silence}) /\ cuts' \subseteq 1 .. Len(fed')
    BY <1>4, <1>5, <1>6, <2>5, <2>6, <2>10
  <2>17. QED
    BY <1>5, <1>7, <1>9, <2>11, <2>14, <2>15, <2>16 DEF OutputInv
<1>10. QED
  BY <1>8, <1>9

\* The drain puts out the block that the linked gain holds.
LEMMA FinishedOutput ==
  ASSUME StateInv, OutputInv, Finish  PROVE OutputInv'
<1>1. UNCHANGED <<linked, fed, cuts, expected, clock>> /\ finished' /\ ~finished
  BY DEF Finish, config
<1>2. InOrder' <=> InOrder
  BY <1>1 DEF InOrder
<1>3. CASE ~(InOrder /\ linked /\ gain # None)
  <2>1. heard' = heard /\ gain' = gain
    BY <1>3 DEF Finish
  <2>2. linked => ~(InOrder' /\ gain' # None)
    BY <1>2, <1>3, <2>1
  <2>3. linked => Len(heard') = Len(fed') + (IF finished' /\ InOrder' /\ gain' # None THEN 1 ELSE 0)
    BY <1>1, <2>1, <2>2 DEF OutputInv
  <2>4. QED
    BY <1>1, <2>1, <2>3 DEF OutputInv
<1>4. CASE InOrder /\ linked /\ gain # None
  <2> DEFINE n == Len(fed)
  <2>1. heard' = Append(heard, gain.held) /\ gain' = [gain EXCEPT !.held = Silence]
    BY <1>4 DEF Finish
  <2>2. gain \in LinkedGains /\ gain.held \in Nat \cup {Silence}
    BY <1>4 DEF StateInv, Option, LinkedGains
  <2>3. gain' # None
    <3>1. gain' \in LinkedGains
      BY <2>1, <2>2 DEF LinkedGains
    <3>2. QED
      BY <3>1, ConstantFacts
  <2>4. gain.held = (IF fed = <<>> THEN Silence ELSE fed[n])
    BY <1>1, <1>4 DEF OutputInv
  <2>5. n \in Nat /\ heard \in Seq(Nat \cup {Silence}) /\ Len(heard) = n
    BY <1>1, <1>4 DEF OutputInv
  <2>6. fed = <<>> <=> n = 0
    BY EmptySeq DEF OutputInv
  <2>7. cuts \subseteq 1 .. n
    BY DEF OutputInv
  <2>8. \A i \in 1 .. n : heard[i] = IF i = 1 \/ i \in cuts THEN Silence ELSE fed[i - 1]
    BY <1>4, <2>5 DEF OutputInv
  <2>9. heard' \in Seq(Nat \cup {Silence}) /\ Len(heard') = n + 1
        /\ \A i \in 1 .. n + 1 : heard'[i] = IF i <= n THEN heard[i] ELSE gain.held
    BY <2>1, <2>2, <2>5, AppendProperties
  <2> HIDE DEF n
  <2>10. ASSUME NEW i \in 1 .. n + 1
         PROVE  heard'[i] = IF i = 1 \/ i \in cuts THEN Silence ELSE fed[i - 1]
    <3>1. CASE i <= n
      BY <2>5, <2>8, <2>9, <3>1
    <3>2. CASE i = n + 1
      <4>1. i \notin cuts /\ i - 1 = n /\ heard'[i] = gain.held
        BY <2>5, <2>7, <2>9, <3>2
      <4>2. i = 1 <=> fed = <<>>
        BY <2>5, <2>6, <3>2
      <4>3. QED
        BY <2>4, <4>1, <4>2
    <3>3. QED
      BY <2>5, <3>1, <3>2
  <2>11. Len(heard') = Len(fed') + (IF finished' /\ InOrder' /\ gain' # None THEN 1 ELSE 0)
    BY <1>1, <1>2, <1>4, <2>3, <2>9 DEF n
  <2>12. QED
    BY <1>1, <1>4, <2>3, <2>6, <2>9, <2>10, <2>11 DEF OutputInv, n
<1>5. QED
  BY <1>3, <1>4

LEMMA OutputStep ==
  ASSUME StateInv, ControlInv, OutputInv, [Next]_vars
  PROVE  OutputInv'
<1>1. CASE Reset
  BY <1>1, ResetOutput DEF Reset
<1>2. ASSUME NEW n \in 0 .. 1, StateReset(n)  PROVE OutputInv'
  BY <1>2, ResetOutput DEF StateReset
<1>3. ASSUME NEW lfe \in BOOLEAN, NEW payload \in BOOLEAN, BeginBlock(lfe, payload)  PROVE OutputInv'
  <2>1. UNCHANGED <<config, history, gain, expected, clock, finished>>
    BY <1>3 DEF BeginBlock
  <2>2. QED
    BY <2>1, SameOutput
<1>4. CASE RefuseBlock
  <2>1. ~finished /\ Fail /\ UNCHANGED <<history, gain>>
    BY <1>4 DEF RefuseBlock
  <2>2. QED
    BY <2>1, FailOutput DEF OutputInv
<1>5. CASE RefuseTiming
  <2>1. ~finished /\ Fail /\ UNCHANGED <<history, gain>>
    BY <1>5 DEF RefuseTiming, Assembling, ControlInv
  <2>2. QED
    BY <2>1, FailOutput DEF OutputInv
<1>6. ASSUME NEW start \in Starts, NEW ramp \in Ramps, NEW us \in BlockUpdates,
             ApplyBlock(start, ramp, us)
      PROVE  OutputInv'
  <2>1. UNCHANGED <<config, history, gain, expected, clock, finished>>
    BY <1>6 DEF ApplyBlock
  <2>2. QED
    BY <2>1, SameOutput
<1>7. ASSUME NEW us \in BlockUpdates, RefuseUpdate(us)  PROVE OutputInv'
  <2>1. ~finished /\ Fail /\ UNCHANGED <<history, gain>>
    BY <1>7 DEF RefuseUpdate, Assembling, ControlInv
  <2>2. QED
    BY <2>1, FailOutput DEF OutputInv
<1>8. CASE Assembled
  <2>1. UNCHANGED <<config, history, gain, expected, clock, finished>>
    BY <1>8 DEF Assembled
  <2>2. QED
    BY <2>1, SameOutput
<1>9. CASE RenderWindow
  <2>1. UNCHANGED <<config, history, gain, expected, clock, finished>>
    BY <1>9 DEF RenderWindow
  <2>2. QED
    BY <2>1, SameOutput
<1>10. CASE FailProjection
  <2>1. ~finished /\ Fail /\ UNCHANGED <<history, gain>>
    BY <1>10 DEF FailProjection, Rendering, ControlInv
  <2>2. QED
    BY <2>1, FailOutput DEF OutputInv
<1>11. ASSUME NEW n \in 0 .. FrameSamples, FailSample(n)  PROVE OutputInv'
  <2>1. ~finished /\ Fail /\ UNCHANGED <<history, gain>>
    BY <1>11 DEF FailSample, Rendering, ControlInv
  <2>2. QED
    BY <2>1, FailOutput DEF OutputInv
<1>12. CASE EndBlock
  BY <1>12, EndOutput
<1>13. CASE FailGain
  <2>1. ~finished /\ Fail /\ UNCHANGED history /\ linked /\ linked' = linked
    BY <1>13 DEF FailGain, Rendered, ControlInv, Fail, config
  <2>2. call.lfe \in BOOLEAN
    BY <1>13 DEF FailGain, Rendered, StateInv, Option, Calls
  <2>3. Configured(call.lfe) # None
    BY <2>2, ConfiguredType, ConstantFacts DEF StateInv
  <2>4. ~InOrder'
    BY <2>1, ConstantFacts DEF StateInv, Fail, InOrder
  <2>5. UNCHANGED <<fed, cuts, heard, finished, linked, expected>> /\ gain' \in {gain, Configured(call.lfe)}
    BY <1>13, <2>1 DEF FailGain, Fail, history
  <2>6. gain' = None => gain = None
    BY <2>3, <2>5
  <2>7. QED
    BY <2>1, <2>4, <2>5, <2>6 DEF OutputInv
<1>14. CASE Finish
  BY <1>14, FinishedOutput
<1>15. CASE UNCHANGED vars
  <2>1. UNCHANGED <<config, history, gain, expected, clock, finished>>
    BY <1>15 DEF vars
  <2>2. QED
    BY <2>1, SameOutput
<1>16. QED
  BY <1>1, <1>2, <1>3, <1>4, <1>5, <1>6, <1>7, <1>8, <1>9, <1>10, <1>11, <1>12, <1>13, <1>14, <1>15
     DEF Next

-----------------------------------------------------------------------------
(* The theorems *)

LEMMA InitInv == Init => IInv
<1> SUFFICES ASSUME Init  PROVE IInv
  OBVIOUS
<1>1. stereo \in BOOLEAN /\ linked \in BOOLEAN
  <2>1. PICK s \in Setups : stereo = s[1] /\ linked = s[2]
    BY DEF Init
  <2>2. QED
    BY <2>1, ConstantsAssumption
<1>2. StateInv
  <2>1. assembler \in [epoch : 0 .. 1, records : Option(ControlRecords)]
        /\ assembler.records = None /\ assembler.epoch = 0
    BY UnboundType DEF Init
  <2>2. binding \in Option([epoch : {1}, records : ControlRecords]) /\ gain \in Option(LinkedGains)
        /\ call \in Option(Calls)
    BY DEF Init, Option
  <2>3. expected \in Nat /\ clock \in Nat /\ expected <= clock
    BY DEF Init
  <2>4. finished \in BOOLEAN
    BY DEF Init
  <2>5. QED
    BY <1>1, <2>1, <2>2, <2>3, <2>4 DEF StateInv
<1>3. ControlInv
  BY UnboundType DEF Init, ControlInv
<1>4. OutputInv
  <2>1. fed \in Seq(Nat) /\ heard \in Seq(Nat \cup {Silence}) /\ Len(fed) = 0 /\ Len(heard) = 0
    BY EmptySeq DEF Init
  <2>2. QED
    BY <2>1 DEF Init, OutputInv
<1>5. QED
  BY <1>2, <1>3, <1>4 DEF IInv

\* Every reachable state satisfies the invariant.
THEOREM Invariant == Spec => []IInv
<1>1. Init => IInv
  BY InitInv
<1>2. IInv /\ [Next]_vars => IInv'
  BY StateStep, ControlStep, OutputStep DEF IInv
<1>3. QED
  BY <1>1, <1>2, PTL DEF Spec

\* As long as the renderer takes blocks, the records of the assembler and the binding of
\* the bridge are the same between two blocks, whatever the metadata of a frame were and
\* whichever call failed before (BridgeControlAssembler::assemble_frame,
\* SpatialBindingState::apply).
THEOREM ControlAgreesHolds == Spec => []ControlAgrees
<1>1. IInv => ControlAgrees
  BY ConstantFacts DEF IInv, ControlInv, StateInv, ControlAgrees, Option, Controls, ControlRecords
<1>2. QED
  BY <1>1, Invariant, PTL

\* What is put out is the programme rendered since the last reset, without a hole: behind
\* a linked gain each block once and one block late, silence only at the start and where
\* the LFE comes or goes (apply_final_linked_gain, finish_with_reconstruction_tail).
THEOREM OneBlockLateHolds == Spec => []OneBlockLate
<1>1. ASSUME IInv  PROVE OneBlockLate
  <2>1. ASSUME NEW i \in 1 .. Len(fed) - 1  PROVE fed[i + 1] = fed[i] + 1
    <3>1. Len(fed) \in Nat /\ expected \in Nat
      BY <1>1 DEF IInv, OutputInv, StateInv
    <3>2. i \in 1 .. Len(fed) /\ i + 1 \in 1 .. Len(fed)
      BY <3>1
    <3>3. QED
      BY <1>1, <3>1, <3>2 DEF IInv, OutputInv
  <2>2. QED
    BY <1>1, <2>1 DEF IInv, OutputInv, OneBlockLate
<1>2. QED
  BY <1>1, Invariant, PTL

-----------------------------------------------------------------------------
(* The gain of a route *)

\* A number is divided in one way.
LEMMA Divided ==
  ASSUME NEW d \in Int, NEW u \in Nat \ {0}, NEW r \in 0 .. u - 1
  PROVE  (d * u + r) \div u = d /\ (d * u + r) % u = r
<1> DEFINE k == d * u + r
           q == k \div u
           m == k % u
           a == d - q
<1>1. d * u \in Int /\ k \in Int
  OBVIOUS
<1>2. q \in Int /\ m \in 0 .. u - 1 /\ k = u * q + m
  BY <1>1
<1>3. a \in Int /\ a * u = d * u - u * q /\ u * q \in Int
  BY <1>2
<1> HIDE DEF q, m, a
<1>4. a * u = m - r
  BY <1>1, <1>2, <1>3
<1>5. CASE a >= 1
  <2>1. a * u >= u
    BY <1>3, <1>5, Z3
  <2>2. QED
    BY <1>2, <1>4, <2>1
<1>6. CASE a <= -1
  <2>1. a * u <= -u
    BY <1>3, <1>6, Z3
  <2>2. QED
    BY <1>2, <1>4, <2>1
<1>7. CASE a = 0
  <2>1. q = d
    BY <1>2, <1>7 DEF a
  <2>2. m = r
    BY <1>2, <1>3, <1>4, <1>7
  <2>3. QED
    BY <2>1, <2>2 DEF q, m
<1>8. QED
  BY <1>3, <1>5, <1>6, <1>7

LEMMA HalfQuantum ==
  \E h \in Nat \ {0} : Quantum = 2 * h /\ Quantum \div 2 = h
<1>1. Quantum \in Nat \ {0} /\ Quantum % 2 = 0
  BY SchedulerAssumption
<1> DEFINE h == Quantum \div 2
<1>2. h \in Nat /\ Quantum = 2 * h
  BY <1>1
<1>3. h # 0
  BY <1>1, <1>2
<1>4. QED
  BY <1>2, <1>3

\* Halves go down: the quanta of a ramp, and of the place of an event.
LEMMA QuantaAre ==
  ASSUME NEW a \in Nat, NEW h \in Nat \ {0}, Quantum = 2 * h, Quantum \div 2 = h,
         NEW r \in 0 .. Quantum - 1, NEW n, n = a * Quantum + r
  PROVE  /\ Quanta(n) = IF r <= h THEN a ELSE a + 1
         /\ EventQuantum(n) = Quanta(n)
<1>1. a * Quantum \in Nat /\ (a + 1) * Quantum = a * Quantum + Quantum /\ Quantum \in Nat \ {0}
  BY SchedulerAssumption
<1> DEFINE x == a * Quantum
<1>2. Quanta(n) = (x + (r + h - 1)) \div Quantum
  BY <1>1 DEF Quanta
<1>3. ASSUME r <= h  PROVE Quanta(n) = a
  <2>1. r + h - 1 \in 0 .. Quantum - 1
    BY <1>1, <1>3
  <2>2. (a * Quantum + (r + h - 1)) \div Quantum = a
    BY <1>1, <2>1, Divided
  <2>3. QED
    BY <1>2, <2>2
<1>4. ASSUME r > h  PROVE Quanta(n) = a + 1
  <2>1. r - h - 1 \in 0 .. Quantum - 1
    BY <1>1, <1>4
  <2>2. x + (r + h - 1) = (a + 1) * Quantum + (r - h - 1)
    BY <1>1, <1>4
  <2>3. (x + (r + h - 1)) \div Quantum = a + 1
    BY <1>1, <2>1, <2>2, Divided
  <2>4. QED
    BY <1>2, <2>3
<1>5. EventQuantum(n) = Quanta(n)
  <2>1. CASE n > h
    <3>1. (n - h) + Quantum - 1 = n + h - 1
      BY <1>1
    <3>2. QED
      BY <2>1, <3>1 DEF EventQuantum, Quanta
  <2>2. CASE n <= h
    <3>1. a = 0
      <4>1. CASE a >= 1
        <5>1. a * Quantum >= Quantum
          BY <1>1, <4>1, Z3
        <5>2. QED
          BY <1>1, <2>2, <5>1
      <4>2. QED
        BY <4>1
    <3>2. r <= h /\ Quanta(n) = 0
      BY <1>1, <1>2, <1>3, <2>2, <3>1
    <3>3. EventQuantum(n) = (0 * Quantum + (Quantum - 1)) \div Quantum
      BY <1>1, <2>2 DEF EventQuantum
    <3>4. Quantum - 1 \in 0 .. Quantum - 1
      BY <1>1
    <3>5. (0 * Quantum + (Quantum - 1)) \div Quantum = 0
      BY <1>1, <3>4, Divided
    <3>6. QED
      BY <3>2, <3>3, <3>5
  <2>3. QED
    BY <1>1, <2>1, <2>2
<1>6. r <= h \/ r > h
  BY <1>1
<1>7. QED
  BY <1>1, <1>3, <1>4, <1>5, <1>6

\* The rounding of the code finds the nearest quantum, the smaller one of two.
LEMMA NearestIs ==
  ASSUME NEW n \in Nat
  PROVE  Quanta(n) \in Nat /\ Nearest(n) = Quanta(n) /\ EventQuantum(n) = Quanta(n)
<1>1. PICK h \in Nat \ {0} : Quantum = 2 * h /\ Quantum \div 2 = h
  BY HalfQuantum
<1>2. Quantum \in Nat \ {0}
  BY SchedulerAssumption
<1> DEFINE a == n \div Quantum
           r == n % Quantum
           q == Quanta(n)
           D(m) == Distance(m * Quantum, n)
<1>3. a \in Nat /\ r \in 0 .. Quantum - 1 /\ n = a * Quantum + r
  BY <1>2
<1> HIDE DEF a, r
<1>4. q = (IF r <= h THEN a ELSE a + 1) /\ EventQuantum(n) = q
  <2>1. \A d \in Nat, e \in 0 .. Quantum - 1 : n = d * Quantum + e =>
          Quanta(n) = (IF e <= h THEN d ELSE d + 1) /\ EventQuantum(n) = Quanta(n)
    BY <1>1, QuantaAre
  <2>2. QED
    BY <1>3, <2>1
<1> HIDE DEF q
<1>5. a * Quantum \in Nat /\ (a + 1) * Quantum = a * Quantum + Quantum
  BY <1>2, <1>3
<1>6. a <= a * Quantum
  BY <1>2, <1>3, Z3
<1>7. q \in 0 .. n
  BY <1>1, <1>3, <1>4, <1>5, <1>6
<1>8. D(q) = (IF r <= h THEN r ELSE Quantum - r)
  <2>1. CASE r <= h
    BY <1>2, <1>3, <1>4, <1>5, <2>1 DEF Distance
  <2>2. CASE r > h
    <3>1. q = a + 1 /\ q * Quantum = a * Quantum + Quantum
      BY <1>1, <1>3, <1>4, <1>5, <2>2
    <3>2. QED
      BY <1>1, <1>2, <1>3, <1>5, <2>2, <3>1 DEF Distance
  <2>3. QED
    BY <1>1, <1>3, <2>1, <2>2
<1>9. ASSUME NEW m \in 0 .. n, m < a  PROVE D(m) >= Quantum + r
  <2>1. (m + 1) * Quantum <= a * Quantum /\ m * Quantum \in Nat /\ (m + 1) * Quantum = m * Quantum + Quantum
    BY <1>2, <1>3, <1>9, Z3
  <2>2. QED
    BY <1>2, <1>3, <1>5, <2>1 DEF Distance
<1>10. D(a) = r
  BY <1>2, <1>3, <1>5 DEF Distance
<1>11. ASSUME NEW m \in 0 .. n, m > a  PROVE D(m) >= Quantum - r
  <2>1. m * Quantum >= (a + 1) * Quantum /\ m * Quantum \in Nat
    BY <1>2, <1>3, <1>11, Z3
  <2>2. QED
    BY <1>2, <1>3, <1>5, <2>1 DEF Distance
<1>12. ASSUME NEW m \in 0 .. n  PROVE D(m) \in Nat
  <2>1. m * Quantum \in Nat
    BY <1>2
  <2>2. QED
    BY <2>1 DEF Distance
<1> HIDE DEF D
<1>13. \A m \in 0 .. n : D(q) <= D(m)
  <2> SUFFICES ASSUME NEW m \in 0 .. n  PROVE D(q) <= D(m)
    OBVIOUS
  <2>1. CASE m < a
    BY <1>1, <1>2, <1>3, <1>8, <1>9, <1>12, <2>1
  <2>2. CASE m = a
    BY <1>1, <1>2, <1>3, <1>8, <1>10, <2>2
  <2>3. CASE m > a
    BY <1>1, <1>2, <1>3, <1>8, <1>11, <1>12, <2>3
  <2>4. QED
    BY <1>3, <2>1, <2>2, <2>3
<1>14. ASSUME NEW m \in 0 .. q - 1  PROVE D(q) < D(m)
  <2>1. m \in 0 .. n
    BY <1>7
  <2>2. CASE r <= h
    <3>1. m < a /\ D(q) = r
      BY <1>3, <1>4, <1>8, <2>2
    <3>2. D(m) >= Quantum + r /\ D(m) \in Nat
      BY <1>9, <1>12, <2>1, <3>1
    <3>3. QED
      BY <1>2, <1>3, <3>1, <3>2
  <2>3. CASE r > h
    <3>1. (m < a \/ m = a) /\ D(q) = Quantum - r
      BY <1>1, <1>3, <1>4, <1>8, <2>3
    <3>2. D(m) \in Nat /\ D(m) >= r
      BY <1>2, <1>3, <1>9, <1>10, <1>12, <2>1, <3>1
    <3>3. QED
      BY <1>1, <1>2, <1>3, <2>3, <3>1, <3>2
  <2>4. QED
    BY <1>1, <1>3, <2>2, <2>3
<1> DEFINE Closest(m) == /\ \A k \in 0 .. n : D(m) <= D(k)
                         /\ \A k \in 0 .. m - 1 : D(m) < D(k)
<1>15. Closest(q)
  BY <1>13, <1>14
<1>16. ASSUME NEW m \in 0 .. n, Closest(m)  PROVE m = q
  <2>1. CASE m < q
    <3>1. m \in 0 .. q - 1
      BY <1>7, <2>1
    <3>2. D(q) < D(m) /\ D(m) <= D(q)
      BY <1>7, <1>14, <1>16, <3>1
    <3>3. QED
      BY <1>7, <1>12, <3>2
  <2>2. CASE m > q
    <3>1. q \in 0 .. m - 1
      BY <1>7, <2>2
    <3>2. D(m) < D(q) /\ D(q) <= D(m)
      BY <1>13, <1>16, <3>1
    <3>3. QED
      BY <1>7, <1>12, <3>2
  <2>3. QED
    BY <1>7, <2>1, <2>2
<1>17. Nearest(n) = CHOOSE m \in 0 .. n : Closest(m)
  BY DEF Nearest, D
<1> HIDE DEF Closest
<1>18. Nearest(n) = q
  BY <1>7, <1>15, <1>16, <1>17
<1>19. QED
  BY <1>4, <1>7, <1>18 DEF q

\* A ramp from the start of a quantum: after k quanta and j samples more, and past its end.
Ramp == [current : Int, target : Int, delta : Int, remaining : Nat, phase : {0}]

Walked(s, k, j) ==
  [current |-> s.current + k * s.delta, target |-> s.target, delta |-> s.delta,
   remaining |-> s.remaining - k, phase |-> j]

Ended(s) ==
  [current |-> s.target, target |-> s.target, delta |-> s.delta, remaining |-> 0, phase |-> 0]

After(s, i) ==
  IF i > s.remaining * Quantum THEN Ended(s) ELSE Walked(s, i \div Quantum, i % Quantum)

Schedulings == [current : Int, target : Int, delta : Int, remaining : Int, phase : Int]

LEMMA SchedulingEqual ==
  ASSUME NEW v \in Schedulings, NEW w \in Schedulings, v.current = w.current,
         v.target = w.target, v.delta = w.delta, v.remaining = w.remaining, v.phase = w.phase
  PROVE  v = w
BY DEF Schedulings

LEMMA SchedulingSet ==
  ASSUME NEW w \in Schedulings, NEW m \in Int, NEW n \in Int
  PROVE  [w EXCEPT !.current = m, !.remaining = n, !.phase = 0]
           = [current |-> m, target |-> w.target, delta |-> w.delta, remaining |-> n, phase |-> 0]
<1> DEFINE v == [w EXCEPT !.current = m, !.remaining = n, !.phase = 0]
           u == [current |-> m, target |-> w.target, delta |-> w.delta, remaining |-> n, phase |-> 0]
<1>1. 0 \in Int
  OBVIOUS
<1>2. v \in Schedulings
  BY <1>1, Zenon DEF Schedulings
<1>3. u \in Schedulings
  BY DEF Schedulings
<1>4. v.current = m /\ v.remaining = n /\ v.phase = 0 /\ v.target = w.target /\ v.delta = w.delta
  BY DEF Schedulings
<1>5. u.current = m /\ u.remaining = n /\ u.phase = 0 /\ u.target = w.target /\ u.delta = w.delta
  OBVIOUS
<1> HIDE DEF u, v
<1>6. v = u
  BY <1>2, <1>3, <1>4, <1>5, SchedulingEqual
<1>7. QED
  BY <1>6 DEF u, v

\* One sample takes a ramp from one of these to the next.
LEMMA AfterNext ==
  ASSUME NEW s \in Ramp, NEW i \in Nat
  PROVE  After(s, i + 1) = NextSample(After(s, i))
<1> DEFINE k == i \div Quantum
           j == i % Quantum
           R == s.remaining
<1>1. Quantum \in Nat \ {0} /\ R \in Nat /\ s.current \in Int /\ s.delta \in Int
  BY SchedulerAssumption DEF Ramp
<1>2. k \in Nat /\ j \in 0 .. Quantum - 1 /\ i = k * Quantum + j
  BY <1>1
<1>3. R * Quantum \in Nat /\ k * Quantum \in Nat
  BY <1>1, <1>2
<1> HIDE DEF k, j
<1>4. CASE i > R * Quantum
  <2>1. After(s, i) = Ended(s) /\ After(s, i + 1) = Ended(s)
    BY <1>3, <1>4 DEF After
  <2>2. NextSample(Ended(s)) = Ended(s)
    BY DEF NextSample, Ended
  <2>3. QED
    BY <2>1, <2>2
<1>5. CASE i = R * Quantum
  <2>1. k = R /\ j = 0
    <3>1. 0 \in 0 .. Quantum - 1 /\ i = R * Quantum + 0
      BY <1>1, <1>3, <1>5
    <3>2. i \div Quantum = R /\ i % Quantum = 0
      <4>1. R \in Int
        BY <1>1
      <4>2. (R * Quantum + 0) \div Quantum = R /\ (R * Quantum + 0) % Quantum = 0
        BY <1>1, <3>1, <4>1, Divided
      <4>3. QED
        BY <3>1, <4>2
    <3>3. QED
      BY <3>2 DEF k, j
  <2>2. After(s, i) = Walked(s, R, 0)
    BY <1>3, <1>5, <2>1 DEF After, k, j
  <2>3. After(s, i + 1) = Ended(s)
    BY <1>3, <1>5 DEF After
  <2>4. NextSample(Walked(s, R, 0)) = Ended(s)
    BY <1>1 DEF NextSample, Walked, Ended
  <2>5. QED
    BY <2>2, <2>3, <2>4
<1>6. CASE i < R * Quantum
  <2>1. k < R
    <3>1. SUFFICES ASSUME k >= R  PROVE FALSE
      BY <1>1, <1>2
    <3>2. k * Quantum >= R * Quantum
      BY <1>1, <1>2, <3>1, Z3
    <3>3. QED
      BY <1>2, <1>3, <1>6, <3>2
  <2>2. After(s, i) = Walked(s, k, j)
    BY <1>3, <1>6 DEF After, k, j
  <2>3. i + 1 <= R * Quantum
    BY <1>3, <1>6
  <2>4. CASE j + 1 = Quantum
    <3>1. (k + 1) * Quantum = k * Quantum + Quantum /\ (k + 1) * s.delta = k * s.delta + s.delta
          /\ k * s.delta \in Int
      BY <1>1, <1>2
    <3>2. 0 \in 0 .. Quantum - 1 /\ i + 1 = (k + 1) * Quantum + 0 /\ k + 1 \in Nat
      BY <1>1, <1>2, <1>3, <2>4, <3>1
    <3>3. (i + 1) \div Quantum = k + 1 /\ (i + 1) % Quantum = 0
      <4> DEFINE d == k + 1
      <4>1. d \in Int
        BY <3>2
      <4> HIDE DEF d
      <4>2. (d * Quantum + 0) \div Quantum = d /\ (d * Quantum + 0) % Quantum = 0
        BY <1>1, <3>2, <4>1, Divided
      <4>3. i + 1 = d * Quantum + 0
        BY <3>2 DEF d
      <4>4. QED
        BY <4>2, <4>3 DEF d
    <3>4. After(s, i + 1) = Walked(s, k + 1, 0)
      BY <1>1, <1>3, <2>3, <3>3 DEF After
    <3>5. NextSample(Walked(s, k, j)) = [Walked(s, k, j) EXCEPT !.current = @ + s.delta,
                                          !.remaining = @ - 1, !.phase = 0]
      BY <1>1, <1>2, <2>1, <2>4 DEF NextSample, Walked
    <3>6. s.current + (k + 1) * s.delta = (s.current + k * s.delta) + s.delta
          /\ R - (k + 1) = (R - k) - 1
      <4> DEFINE p == k * s.delta
      <4>1. p \in Int /\ (k + 1) * s.delta = p + s.delta
        BY <3>1
      <4> HIDE DEF p
      <4>2. s.current + (p + s.delta) = (s.current + p) + s.delta
        BY <1>1, <4>1
      <4>3. s.current + (k + 1) * s.delta = (s.current + p) + s.delta
        BY <4>1, <4>2
      <4>4. R - (k + 1) = (R - k) - 1
        BY <1>1, <1>2
      <4>5. QED
        BY <4>3, <4>4 DEF p
    <3>7. [Walked(s, k, j) EXCEPT !.current = @ + s.delta, !.remaining = @ - 1, !.phase = 0]
            = Walked(s, k + 1, 0)
      <4> DEFINE w == Walked(s, k, j)
                 x == s.current + k * s.delta
      <4>1. w \in Schedulings /\ w.current = x /\ w.remaining = R - k
            /\ w.target = s.target /\ w.delta = s.delta /\ x \in Int
        BY <1>1, <1>2, <3>1 DEF Walked, Schedulings, Ramp
      <4>2. Walked(s, k + 1, 0) = [current |-> x + s.delta, target |-> s.target,
              delta |-> s.delta, remaining |-> (R - k) - 1, phase |-> 0]
        BY <3>6 DEF Walked
      <4> HIDE DEF w, x
      <4>3. [w EXCEPT !.current = @ + s.delta, !.remaining = @ - 1, !.phase = 0]
              = [w EXCEPT !.current = x + s.delta, !.remaining = (R - k) - 1, !.phase = 0]
        BY <4>1
      <4>4. x + s.delta \in Int /\ (R - k) - 1 \in Int
        BY <1>1, <1>2, <4>1
      <4>5. [w EXCEPT !.current = x + s.delta, !.remaining = (R - k) - 1, !.phase = 0]
              = Walked(s, k + 1, 0)
        <5> DEFINE m == x + s.delta
                   n == (R - k) - 1
        <5> HIDE DEF m, n
        <5>1. m \in Int /\ n \in Int
          BY <4>4 DEF m, n
        <5>2. [w EXCEPT !.current = m, !.remaining = n, !.phase = 0]
                = [current |-> m, target |-> w.target, delta |-> w.delta, remaining |-> n, phase |-> 0]
          BY <4>1, <5>1, SchedulingSet, Zenon
        <5>3. QED
          BY <4>1, <4>2, <5>2, Zenon DEF m, n
      <4>6. QED
        BY <4>3, <4>5 DEF w
    <3>8. QED
      BY <2>2, <3>4, <3>5, <3>7
  <2>5. CASE j + 1 # Quantum
    <3>1. j + 1 \in 0 .. Quantum - 1 /\ i + 1 = k * Quantum + (j + 1)
      BY <1>1, <1>2, <1>3, <2>5
    <3>2. (i + 1) \div Quantum = k /\ (i + 1) % Quantum = j + 1
      <4> DEFINE e == j + 1
      <4>1. e \in 0 .. Quantum - 1 /\ i + 1 = k * Quantum + e
        BY <3>1
      <4> HIDE DEF e
      <4>2. (k * Quantum + e) \div Quantum = k /\ (k * Quantum + e) % Quantum = e
        BY <1>1, <1>2, <4>1, Divided
      <4>3. QED
        BY <4>1, <4>2 DEF e
    <3>3. After(s, i + 1) = Walked(s, k, j + 1)
      BY <1>1, <1>3, <2>3, <3>2 DEF After
    <3>4. NextSample(Walked(s, k, j)) = [Walked(s, k, j) EXCEPT !.phase = @ + 1]
      BY <1>1, <1>2, <2>1, <2>5 DEF NextSample, Walked
    <3>5. QED
      BY <2>2, <3>3, <3>4 DEF Walked
  <2>6. QED
    BY <2>4, <2>5
<1>7. QED
  BY <1>1, <1>3, <1>4, <1>5, <1>6

\* A function of the numbers up to n that begins with s and goes on by NextSample is the
\* one that Advance chooses.
LEMMA AdvanceIs ==
  ASSUME NEW s \in Ramp, NEW n \in Nat
  PROVE  Advance(s, n) = After(s, n)
<1> DEFINE Goes(f) == f = [i \in 0 .. n |-> IF i = 0 THEN s ELSE NextSample(f[i - 1])]
           form == [i \in 0 .. n |-> After(s, i)]
           after == CHOOSE f : Goes(f)
<1>1. After(s, 0) = s
  <2>1. Quantum \in Nat \ {0} /\ s.remaining \in Nat /\ s.current \in Int /\ s.delta \in Int
    BY SchedulerAssumption DEF Ramp
  <2>2. s.remaining * Quantum \in Nat
    BY <2>1
  <2>3. 0 \div Quantum = 0 /\ 0 % Quantum = 0
    <3>1. 0 \in 0 .. Quantum - 1 /\ 0 * Quantum + 0 = 0
      BY <2>1
    <3>2. QED
      BY <2>1, <3>1, Divided
  <2>4. After(s, 0) = Walked(s, 0, 0)
    BY <2>2, <2>3 DEF After
  <2>5. s.current + 0 * s.delta = s.current /\ s.remaining - 0 = s.remaining /\ s.phase = 0
    BY <2>1 DEF Ramp
  <2>6. QED
    BY <2>4, <2>5 DEF Walked, Ramp
<1>2. ASSUME NEW i \in 0 .. n, i # 0
      PROVE  i - 1 \in 0 .. n /\ After(s, i) = NextSample(After(s, i - 1))
  <2>1. i - 1 \in Nat /\ (i - 1) + 1 = i /\ i - 1 \in 0 .. n
    BY <1>2
  <2>2. After(s, (i - 1) + 1) = NextSample(After(s, i - 1))
    BY <2>1, AfterNext
  <2>3. QED
    BY <2>1, <2>2
<1>3. Goes(form)
  <2>1. ASSUME NEW i \in 0 .. n
        PROVE  After(s, i) = IF i = 0 THEN s ELSE NextSample(form[i - 1])
    BY <1>1, <1>2
  <2>2. QED
    BY <2>1
<1>4. Goes(after)
  BY <1>3
<1> HIDE DEF after
<1>5. \A i \in 0 .. n : after[i] = IF i = 0 THEN s ELSE NextSample(after[i - 1])
  BY <1>4
<1>6. after[n] = After(s, n)
  <2> DEFINE T == {i \in 0 .. n : after[i] # After(s, i)}
  <2> SUFFICES ASSUME T # {}  PROVE FALSE
    OBVIOUS
  <2>6. T \subseteq Nat
    OBVIOUS
  <2>1. PICK i \in T : \A m \in T : i <= m
    BY <2>6, LeastNat
  <2>2. i # 0 /\ i \in 0 .. n
    BY <1>1, <1>5
  <2>3. i - 1 \in 0 .. n /\ after[i - 1] = After(s, i - 1)
    BY <2>1, <2>2
  <2>4. after[i] = After(s, i)
    BY <1>2, <1>5, <2>2, <2>3
  <2>5. QED
    BY <2>4
<1>7. Advance(s, n) = after[n]
  BY DEF Advance, after
<1>8. QED
  BY <1>6, <1>7

\* Whole quanta: the ramp so far, or its end.
LEMMA AdvanceQuanta ==
  ASSUME NEW s \in Ramp, NEW k \in Nat
  PROVE  Advance(s, k * Quantum) = IF k <= s.remaining THEN Walked(s, k, 0) ELSE Ended(s)
<1>1. Quantum \in Nat \ {0} /\ s.remaining \in Nat /\ k * Quantum \in Nat
  BY SchedulerAssumption DEF Ramp
<1>2. s.remaining * Quantum \in Nat
  BY <1>1
<1>3. (k * Quantum) \div Quantum = k /\ (k * Quantum) % Quantum = 0
  <2>1. 0 \in 0 .. Quantum - 1 /\ k * Quantum + 0 = k * Quantum
    BY <1>1
  <2>2. QED
    BY <1>1, <2>1, Divided
<1>4. CASE k <= s.remaining
  <2>1. k * Quantum <= s.remaining * Quantum
    BY <1>1, <1>4, Z3
  <2>2. After(s, k * Quantum) = Walked(s, k, 0)
    <3>1. ~(k * Quantum > s.remaining * Quantum)
      BY <1>1, <1>2, <2>1
    <3>2. QED
      BY <1>3, <3>1, Zenon DEF After
  <2>3. QED
    BY <1>1, <1>4, <2>2, AdvanceIs
<1>5. CASE k > s.remaining
  <2>1. (s.remaining + 1) * Quantum <= k * Quantum
    BY <1>1, <1>5, Z3
  <2>2. (s.remaining + 1) * Quantum = s.remaining * Quantum + Quantum
    BY <1>1
  <2>3. k * Quantum > s.remaining * Quantum
    BY <1>1, <1>2, <2>1, <2>2
  <2>4. QED
    BY <1>1, <1>2, <1>5, <2>3, AdvanceIs DEF After
<1>6. QED
  BY <1>1, <1>4, <1>5

\* A ramp on its way: it ends at sample `end`, counted from quantum `place`, and its steps
\* take it to the target but for their rounding.
OnCourse(s, place, end, target) ==
  /\ s \in Ramp
  /\ s.target = target
  /\ s.remaining > 0 => (place + s.remaining) * Quantum = end
  /\ Distance(s.current + s.remaining * s.delta, target) < MaxQuanta

LEMMA NoRamp == Quanta(0) = 0
<1>1. PICK h \in Nat \ {0} : Quantum = 2 * h /\ Quantum \div 2 = h
  BY HalfQuantum
<1>2. Quantum \in Nat \ {0} /\ 0 \in 0 .. Quantum - 1 /\ 0 = 0 * Quantum + 0
  BY SchedulerAssumption
<1>3. Quanta(0) = IF 0 <= h THEN 0 ELSE 0 + 1
  BY <1>1, <1>2, QuantaAre
<1>4. QED
  BY <1>3

LEMMA Division ==
  ASSUME NEW m \in Int, NEW n \in Nat \ {0}, NEW a, a = m \div n, NEW r, r = m % n
  PROVE  a \in Int /\ r \in 0 .. n - 1 /\ m = a * n + r
<1>1. a \in Int /\ r \in 0 .. n - 1
  OBVIOUS
<1>2. m = a * n + r
  OBVIOUS
<1>3. QED
  BY <1>1, <1>2

\* A target sets a route on its course.
LEMMA Steered ==
  ASSUME NEW s, s.current \in Int, NEW target \in Nat, NEW d \in Nat, Quanta(d) <= MaxQuanta,
         0 < MaxQuanta, NEW place, NEW end,
         Quanta(d) = 0 \/ end = (place + Quanta(d)) * Quantum
  PROVE  OnCourse(SetTarget(s, target, d), place, end, target)
<1> DEFINE n == Quanta(d)
           gap == target - s.current
           step == gap \div n
           ramp == [current |-> s.current, target |-> target, delta |-> step, remaining |-> n, phase |-> 0]
           jump == [current |-> target, target |-> target, delta |-> 0, remaining |-> 0, phase |-> 0]
<1>1. n \in Nat /\ MaxQuanta \in Nat /\ gap \in Int
  <2>1. n \in Nat
    BY NearestIs
  <2>2. MaxQuanta \in Nat
    BY ConstantsAssumption
  <2>3. QED
    BY <2>1, <2>2
<1>2. OnCourse(jump, place, end, target)
  <2>1. jump \in Ramp /\ jump.target = target /\ jump.remaining = 0 /\ jump.current = target /\ jump.delta = 0
    BY DEF Ramp
  <2>2. Distance(target + 0 * 0, target) = 0
    BY DEF Distance
  <2> HIDE DEF jump
  <2>3. QED
    BY <2>1, <2>2 DEF OnCourse
<1>3. ASSUME n > 0  PROVE OnCourse(ramp, place, end, target)
  <2> HIDE DEF gap, n
  <2> DEFINE r == gap % n
  <2>1. step \in Int /\ r \in 0 .. n - 1 /\ gap = step * n + r
    <3>1. n \in Nat \ {0} /\ gap \in Int
      BY <1>1, <1>3
    <3>2. \A a, b : a = gap \div n /\ b = gap % n => a \in Int /\ b \in 0 .. n - 1 /\ gap = a * n + b
      BY <3>1, Division
    <3>3. QED
      BY <3>2
  <2> HIDE DEF step, r
  <2>2. gap = step * n + r /\ r \in 0 .. n - 1
    BY <2>1
  <2> DEFINE p == n * step
  <2>3. p \in Int /\ p = step * n
    BY <1>1, <2>1
  <2>4. ramp \in Ramp /\ ramp.target = target /\ ramp.remaining = n /\ ramp.current = s.current
        /\ ramp.delta = step
    BY <1>1, <2>1 DEF Ramp
  <2>5. target - s.current = p + r
    BY <2>2, <2>3 DEF gap
  <2> HIDE DEF p, ramp
  <2>6. Distance(s.current + p, target) = r
    BY <1>1, <2>2, <2>3, <2>5 DEF Distance
  <2>7. Distance(s.current + p, target) < MaxQuanta
    BY <1>1, <2>2, <2>6 DEF n
  <2>8. (place + n) * Quantum = end
    BY <1>3 DEF n
  <2>9. QED
    BY <2>4, <2>7, <2>8 DEF OnCourse, p
<1>4. (SetTarget(s, target, d) = ramp /\ n > 0) \/ SetTarget(s, target, d) = jump
  BY DEF SetTarget
<1> HIDE DEF ramp, jump
<1>5. QED
  BY <1>2, <1>3, <1>4

\* It stays on it from one quantum to another.
LEMMA Walks ==
  ASSUME NEW s, NEW place \in Int, NEW end, NEW target \in Int, OnCourse(s, place, end, target),
         0 < MaxQuanta, NEW k \in Nat
  PROVE  OnCourse(Advance(s, k * Quantum), place + k, end, target)
<1>1. s \in Ramp /\ s.current \in Int /\ s.delta \in Int /\ s.remaining \in Nat /\ s.target = target
  BY DEF OnCourse, Ramp
<1>2. CASE k <= s.remaining
  <2>1. Advance(s, k * Quantum) = Walked(s, k, 0)
    BY <1>1, <1>2, AdvanceQuanta
  <2>2. Walked(s, k, 0) \in Ramp
    <3>1. s.current + k * s.delta \in Int /\ s.remaining - k \in Nat /\ s.target \in Int
      BY <1>1, <1>2
    <3>2. QED
      BY <1>1, <3>1 DEF Walked, Ramp
  <2>3. s.current + k * s.delta + (s.remaining - k) * s.delta = s.current + s.remaining * s.delta
    BY <1>1
  <2>4. s.remaining - k > 0 => (place + k + (s.remaining - k)) * Quantum = end
    <3>1. place + k + (s.remaining - k) = place + s.remaining
      BY <1>1
    <3>2. QED
      BY <1>1, <3>1 DEF OnCourse
  <2>5. OnCourse(Walked(s, k, 0), place + k, end, target)
    BY <1>1, <2>2, <2>3, <2>4 DEF OnCourse, Walked
  <2>6. QED
    BY <2>1, <2>5
<1>3. CASE k > s.remaining
  <2>1. Advance(s, k * Quantum) = Ended(s)
    BY <1>1, <1>3, AdvanceQuanta
  <2>2. Ended(s) \in Ramp
    BY <1>1 DEF Ended, Ramp
  <2>3. s.target + 0 * s.delta = target /\ Distance(target, target) = 0
    BY <1>1 DEF Distance
  <2>4. OnCourse(Ended(s), place + k, end, target)
    BY <1>1, <2>2, <2>3 DEF OnCourse, Ended
  <2>5. QED
    BY <2>1, <2>4
<1>4. QED
  BY <1>1, <1>2, <1>3

\* The quantum the call has reached.
Place == IF call = None \/ call.at = None THEN clock ELSE clock + call.at

\* An event lies at the quantum nearest to its start.
EventsInv ==
  call # None =>
    /\ clock < MaxQuanta
    /\ \A q \in Quantums : call.events[q] # None => EventQuantum(call.events[q].start) = q

\* Every route is on its course to what the binding asks for.
RoutesInv ==
  InOrder /\ routes # <<>> =>
    /\ binding # None
    /\ routes = [c \in Ordinals |-> routes[c]]
    /\ \A c \in Ordinals : OnCourse(routes[c], Place, due, Target(binding.records[c]))

LEMMA EventsStep ==
  ASSUME StateInv, EventsInv, [Next]_vars
  PROVE  EventsInv'
<1>1. CASE Reset
  BY <1>1 DEF Reset, EventsInv
<1>2. ASSUME NEW n \in 0 .. 1, StateReset(n)  PROVE EventsInv'
  BY <1>2 DEF StateReset, EventsInv
<1>3. ASSUME NEW lfe \in BOOLEAN, NEW payload \in BOOLEAN, BeginBlock(lfe, payload)  PROVE EventsInv'
  <2>1. call'.events = NoEvents /\ clock' = clock /\ clock < MaxQuanta
    BY <1>3 DEF BeginBlock
  <2>2. QED
    BY <2>1 DEF EventsInv, NoEvents
<1>4. CASE Fail
  BY <1>4 DEF Fail, EventsInv
<1>5. ASSUME NEW start \in Starts, NEW ramp \in Ramps, NEW us \in BlockUpdates,
             ApplyBlock(start, ramp, us)
      PROVE  EventsInv'
  <2> DEFINE q == EventQuantum(start)
             first == IF call.events[q] = None THEN assembler.records ELSE call.events[q].before
             event == [start |-> start, ramp |-> ramp, before |-> first, after |-> assembler'.records]
  <2>1. call # None /\ call \in Calls /\ call.events \in [Quantums -> Option(Event)]
    BY <1>5 DEF ApplyBlock, Assembling, StateInv, Option, Calls
  <2>2. clock' = clock /\ call'.events = [call.events EXCEPT ![q] = event] /\ event.start = start
    BY <1>5, <2>1 DEF ApplyBlock, WithEvent, Calls
  <2> HIDE DEF event
  <2>3. \A r \in Quantums : call'.events[r] # None => EventQuantum(call'.events[r].start) = r
    BY <2>1, <2>2 DEF EventsInv
  <2>4. QED
    BY <2>1, <2>2, <2>3 DEF EventsInv
<1>6. CASE Assembled
  <2>1. call # None /\ call \in Calls
    BY <1>6 DEF Assembled, Assembling, StateInv, Option
  <2>2. clock' = clock
        /\ call'.events = [q \in Quantums |-> IF Changes(call.events[q]) THEN call.events[q] ELSE None]
    BY <1>6, <2>1 DEF Assembled, Calls
  <2>3. QED
    BY <2>1, <2>2 DEF EventsInv
<1>7. CASE RenderWindow
  <2>1. call # None /\ call \in Calls
    BY <1>7 DEF RenderWindow, Rendering, StateInv, Option
  <2>2. clock' = clock /\ call'.events = call.events
    BY <1>7, <2>1 DEF RenderWindow, Calls
  <2>3. QED
    BY <2>1, <2>2 DEF EventsInv
<1>8. CASE EndBlock
  BY <1>8 DEF EndBlock, EventsInv
<1>9. CASE Finish
  BY <1>9 DEF Finish, EventsInv
<1>10. CASE UNCHANGED vars
  BY <1>10 DEF vars, config, EventsInv
<1>11. QED
  BY <1>1, <1>2, <1>3, <1>4, <1>5, <1>6, <1>7, <1>8, <1>9, <1>10
     DEF Next, RefuseBlock, RefuseTiming, RefuseUpdate, FailProjection, FailSample, FailGain

LEMMA KeepRoutes ==
  ASSUME RoutesInv, UNCHANGED <<binding, routes, due>>, InOrder' => InOrder, Place' = Place
  PROVE  RoutesInv'
BY DEF RoutesInv

LEMMA TargetType ==
  ASSUME NEW record \in Records  PROVE Target(record) \in Nat
<1>1. record.scalar \in Nat /\ Level[record.place] \in Nat
  <2>1. Level \in [Places -> Nat] /\ Scalars \subseteq Nat
    BY ConstantsAssumption
  <2>2. record.scalar \in Scalars \cup {0, 1}
    BY DEF Records
  <2>3. record.place \in Places
    BY DEF Records
  <2>4. record.scalar \in Nat
    <3>1. Scalars \cup {0, 1} \subseteq Nat
      BY <2>1
    <3>2. QED
      BY <2>2, <3>1, Zenon
  <2>5. Level[record.place] \in Nat
    BY <2>1, <2>3
  <2>6. QED
    BY <2>4, <2>5
<1>2. ASSUME NEW m \in Nat, NEW n \in Nat  PROVE m * n \in Nat
  OBVIOUS
<1>3. record.scalar * Level[record.place] \in Nat
  BY <1>1, <1>2, Zenon
<1>4. QED
  BY <1>3, Zenon DEF Target

\* Where no target is refreshed, the binding asks for what it asked for.
LEMMA SameRecords ==
  ASSUME StateInv, ControlInv, Rendering, ~HasEvent, ~(call.at = 0 /\ call.initial # None)
  PROVE  binding # None /\ Bound.records = binding.records
<1>1. call # None /\ call \in Calls /\ call.at \in Quantums /\ call.at \in Nat /\ call.at # None
  BY ConstantFacts DEF StateInv, Option, Rendering, Calls, Quantums
<1>2. PICK H \in [Nat -> ControlRecords] : Course(H)
  BY <1>1 DEF ControlInv
<1>3. Bound = [epoch |-> 1, records |-> H[call.at + 1]]
  BY <1>1, <1>2, BoundIs
<1>4. H[call.at] = H[call.at + 1]
  BY <1>1, <1>2 DEF Course, HasEvent
<1>5. binding # None /\ binding.records = H[call.at]
  BY <1>1, <1>2 DEF Course, StartRecords
<1>6. QED
  BY <1>3, <1>4, <1>5

\* After the refresh at its start a window finds the routes on their course.
LEMMA RefreshedIs ==
  ASSUME StateInv, ControlInv, EventsInv, RoutesInv, Rendering
  PROVE  /\ Bound \in [epoch : {1}, records : ControlRecords]
         /\ \A c \in Ordinals :
              OnCourse(Refreshed[c], clock + call.at, Due, Target(Bound.records[c]))
<1> DEFINE place == clock + call.at
           initial == call.at = 0 /\ call.initial # None
           event == call.events[call.at]
           start == IF initial \/ routes = <<>> THEN [c \in Ordinals |-> Silent] ELSE routes
<1>1. call # None /\ call \in Calls /\ call.at \in Quantums /\ call.at \in Nat /\ call.at # None
  BY ConstantFacts DEF StateInv, Option, Rendering, Calls, Quantums
<1>2. InOrder /\ clock \in Nat /\ clock < MaxQuanta /\ MaxQuanta \in Nat
  <2>1. MaxQuanta \in Nat
    BY ConstantsAssumption
  <2>2. QED
    BY <1>1, <2>1 DEF ControlInv, StateInv, EventsInv
<1>3. Place = place
  BY <1>1 DEF Place
<1>4. Bound \in [epoch : {1}, records : ControlRecords]
  BY <1>1, BoundType
<1>5. ASSUME NEW c \in Ordinals  PROVE Target(Bound.records[c]) \in Nat
  BY <1>4, TargetType DEF ControlRecords
<1>6. CASE initial \/ routes = <<>> \/ HasEvent
  <2>1. RampSamples \in Nat /\ Quanta(RampSamples) <= MaxQuanta
        /\ (Quanta(RampSamples) = 0 \/ Due = (place + Quanta(RampSamples)) * Quantum)
    <3>1. CASE HasEvent
      <4>1. event \in Event /\ event # None
        BY <1>1, <3>1 DEF HasEvent, Calls, Option
      <4>2. event.start \in Nat /\ event.ramp \in Nat /\ event.ramp \in Ramps
        BY <4>1, ConstantsAssumption DEF Event
      <4>3. RampSamples = event.ramp
        BY <3>1 DEF RampSamples
      <4>4. Nearest(event.start) = call.at /\ Nearest(event.ramp) = Quanta(event.ramp)
        <5>1. EventQuantum(event.start) = call.at
          BY <1>1, <4>1 DEF EventsInv
        <5>2. QED
          BY <4>2, <5>1, NearestIs
      <4>5. Due = (clock + Nearest(event.start) + Nearest(event.ramp)) * Quantum
        BY <3>1 DEF Due
      <4>6. Quanta(event.ramp) <= MaxQuanta
        BY <4>2, RampsAssumption
      <4> HIDE DEF event
      <4>7. QED
        BY <4>2, <4>3, <4>4, <4>5, <4>6
    <3>2. CASE ~HasEvent
      <4>1. RampSamples = 0
        BY <3>2 DEF RampSamples
      <4>2. QED
        BY <1>2, <4>1, NoRamp
    <3>3. QED
      BY <3>1, <3>2
  <2>2. ASSUME NEW c \in Ordinals  PROVE start[c].current \in Int
    <3>1. CASE initial \/ routes = <<>>
      BY <3>1 DEF Silent
    <3>2. CASE ~(initial \/ routes = <<>>)
      <4>1. routes[c] \in Ramp
        BY <1>2, <3>2 DEF RoutesInv, OnCourse
      <4>2. QED
        BY <3>2, <4>1 DEF Ramp
    <3>3. QED
      BY <3>1, <3>2
  <2>3. ASSUME NEW c \in Ordinals
        PROVE  OnCourse(Refreshed[c], place, Due, Target(Bound.records[c]))
    <3>1. Refreshed[c] = SetTarget(start[c], Target(Bound.records[c]), RampSamples)
      BY <1>6 DEF Refreshed
    <3>2. 0 < MaxQuanta
      BY <1>2
    <3> HIDE DEF start, place
    <3>3. OnCourse(SetTarget(start[c], Target(Bound.records[c]), RampSamples), place, Due,
                   Target(Bound.records[c]))
      BY <1>5, <2>1, <2>2, <2>3, <3>2, Steered
    <3>4. QED
      BY <3>1, <3>3
  <2>4. QED
    BY <1>4, <2>3
<1>7. CASE ~(initial \/ routes = <<>> \/ HasEvent)
  <2>1. Refreshed = routes /\ Due = due
    BY <1>7 DEF Refreshed, Due
  <2>2. Bound.records = binding.records
    BY <1>7, SameRecords
  <2>3. QED
    BY <1>2, <1>3, <1>4, <1>7, <2>1, <2>2 DEF RoutesInv
<1>8. QED
  BY <1>6, <1>7

LEMMA WindowRoutes ==
  ASSUME StateInv, ControlInv, EventsInv, RoutesInv, RenderWindow
  PROVE  RoutesInv'
<1> DEFINE k == WindowEnd - call.at
<1>1. call # None /\ call \in Calls /\ Rendering /\ call.at \in Nat
  BY ConstantFacts DEF RenderWindow, Rendering, StateInv, Option, Calls
<1>2. WindowEnd \in Nat /\ call.at < WindowEnd /\ clock \in Nat
  BY <1>1, WindowEndIs DEF StateInv
<1>3. k \in Nat /\ clock + call.at \in Int /\ clock + call.at + k = clock + WindowEnd
  BY <1>1, <1>2
<1>4. 0 < MaxQuanta
  <2>1. MaxQuanta \in Nat /\ clock < MaxQuanta
    BY <1>1, ConstantsAssumption DEF EventsInv
  <2>2. QED
    BY <1>2, <2>1
<1>5. Bound \in [epoch : {1}, records : ControlRecords]
  BY <1>1, RefreshedIs
<1>6. binding' = Bound /\ binding' # None
  BY <1>5, ConstantFacts DEF RenderWindow
<1>7. Place' = clock + WindowEnd
  <2>1. call' # None /\ call'.at = WindowEnd
    <3>1. WindowEnd \in Option(0 .. FrameQuanta)
      BY <1>1, <1>2, WindowEndIs, ConstantFacts DEF Option
    <3>2. call' = [call EXCEPT !.at = WindowEnd]
      BY DEF RenderWindow
    <3>3. call' \in Calls /\ call'.at = WindowEnd
      BY <1>1, <3>1, <3>2 DEF Calls
    <3>4. QED
      BY <3>3, ConstantFacts
  <2>2. WindowEnd # None /\ clock' = clock
    BY <1>2, ConstantFacts DEF RenderWindow
  <2>3. QED
    BY <2>1, <2>2 DEF Place
<1>8. routes' = [c \in Ordinals |-> Advance(Refreshed[c], k * Quantum)] /\ due' = Due
  BY DEF RenderWindow
<1> HIDE DEF k
<1>9. ASSUME NEW c \in Ordinals
      PROVE  OnCourse(routes'[c], Place', due', Target(binding'.records[c]))
  <2>1. OnCourse(Refreshed[c], clock + call.at, Due, Target(Bound.records[c]))
    BY <1>1, RefreshedIs
  <2>2. Target(Bound.records[c]) \in Int
    BY <1>5, TargetType DEF ControlRecords
  <2>3. OnCourse(Advance(Refreshed[c], k * Quantum), clock + call.at + k, Due, Target(Bound.records[c]))
    BY <1>3, <1>4, <2>1, <2>2, Walks
  <2>4. routes'[c] = Advance(Refreshed[c], k * Quantum)
    BY <1>8
  <2>5. QED
    BY <1>3, <1>6, <1>7, <1>8, <2>3, <2>4
<1>10. routes' = [c \in Ordinals |-> routes'[c]]
  BY <1>8
<1>11. QED
  BY <1>6, <1>9, <1>10 DEF RoutesInv, Target

LEMMA FailRoutes ==
  ASSUME StateInv, Fail  PROVE RoutesInv'
<1>1. clock' # expected'
  BY ConstantFacts DEF StateInv, Fail
<1>2. QED
  BY <1>1 DEF RoutesInv, InOrder

LEMMA RoutesStep ==
  ASSUME StateInv, ControlInv, EventsInv, RoutesInv, [Next]_vars
  PROVE  RoutesInv'
<1>1. CASE Reset
  BY <1>1 DEF Reset, ClearControl, RoutesInv
<1>2. ASSUME NEW n \in 0 .. 1, StateReset(n)  PROVE RoutesInv'
  BY <1>2 DEF StateReset, ClearControl, RoutesInv
<1>3. ASSUME NEW lfe \in BOOLEAN, NEW payload \in BOOLEAN, BeginBlock(lfe, payload)  PROVE RoutesInv'
  <2>1. call = None /\ call'.at = None /\ clock' = clock /\ expected' = expected
    BY <1>3 DEF BeginBlock
  <2>2. Place' = Place /\ (InOrder' => InOrder) /\ UNCHANGED <<binding, routes, due>>
    BY <1>3, <2>1 DEF BeginBlock, Place, InOrder
  <2>3. QED
    BY <2>2, KeepRoutes
<1>4. CASE Fail
  BY <1>4, FailRoutes
<1>5. ASSUME NEW start \in Starts, NEW ramp \in Ramps, NEW us \in BlockUpdates,
             ApplyBlock(start, ramp, us)
      PROVE  RoutesInv'
  <2>1. call # None /\ call \in Calls /\ call.at = None
    BY <1>5 DEF ApplyBlock, Assembling, StateInv, Option
  <2>2. call'.at = None /\ clock' = clock /\ expected' = expected /\ UNCHANGED <<binding, routes, due>>
    BY <1>5, <2>1 DEF ApplyBlock, Calls
  <2>3. Place' = Place /\ (InOrder' => InOrder)
    BY <2>1, <2>2 DEF Place, InOrder
  <2>4. QED
    BY <2>2, <2>3, KeepRoutes
<1>6. CASE Assembled
  <2>1. call # None /\ call \in Calls /\ call.at = None
    BY <1>6 DEF Assembled, Assembling, StateInv, Option
  <2>2. call'.at = 0 /\ clock' = clock /\ expected' = expected /\ UNCHANGED <<binding, routes, due>>
    BY <1>6, <2>1 DEF Assembled, Calls
  <2>3. clock + 0 = clock
    BY DEF StateInv
  <2>4. Place' = Place /\ (InOrder' => InOrder)
    BY <2>1, <2>2, <2>3 DEF Place, InOrder
  <2>5. QED
    BY <2>2, <2>4, KeepRoutes
<1>7. CASE RenderWindow
  BY <1>7, WindowRoutes
<1>8. CASE EndBlock
  <2>1. call # None /\ call.at = FrameQuanta /\ call' = None /\ clock' = clock + FrameQuanta
        /\ expected' = expected + FrameQuanta /\ UNCHANGED <<binding, routes, due>>
    BY <1>8 DEF EndBlock, Rendered
  <2>2. InOrder' => InOrder
    BY <2>1, ConstantFacts DEF InOrder, StateInv
  <2>3. Place' = Place
    BY <2>1, ConstantFacts DEF Place
  <2>4. QED
    BY <2>1, <2>2, <2>3, KeepRoutes
<1>9. CASE Finish
  <2>1. UNCHANGED <<binding, routes, due, call, clock, expected>>
    BY <1>9 DEF Finish
  <2>2. QED
    BY <2>1, KeepRoutes DEF Place, InOrder
<1>10. CASE UNCHANGED vars
  <2>1. UNCHANGED <<binding, routes, due, call, clock, expected>>
    BY <1>10 DEF vars
  <2>2. QED
    BY <2>1, KeepRoutes DEF Place, InOrder
<1>11. QED
  BY <1>1, <1>2, <1>3, <1>4, <1>5, <1>6, <1>7, <1>8, <1>9, <1>10
     DEF Next, RefuseBlock, RefuseTiming, RefuseUpdate, FailProjection, FailSample, FailGain

\* The routes are on their course in every reachable state.
THEOREM RoutesInvariant == Spec => [](EventsInv /\ RoutesInv)
<1>1. Init => EventsInv /\ RoutesInv
  BY DEF Init, EventsInv, RoutesInv
<1>2. IInv /\ EventsInv /\ RoutesInv /\ [Next]_vars => (EventsInv /\ RoutesInv)'
  BY EventsStep, RoutesStep DEF IInv
<1>3. QED
  BY <1>1, <1>2, Invariant, PTL DEF Spec

\* A gain ramp ends on the quantum nearest to its duration after its event, at the gain the
\* metadata ask for, and no window begins within a quantum, for all times of events and
\* durations (quantum_for_event, GainScheduler::set_target, next_sample).
THEOREM RampsEndOnTimeHolds == Spec => []RampsEndOnTime
<1>1. ASSUME IInv, EventsInv, RoutesInv  PROVE RampsEndOnTime
  <2> SUFFICES ASSUME (IF call = None THEN InOrder ELSE Rendering), routes # <<>>
               PROVE  \A c \in Ordinals :
                 LET s == routes[c]
                     now == IF call = None THEN clock * Quantum ELSE Here
                 IN  /\ s.target = Target(binding.records[c])
                     /\ s.phase = 0
                     /\ s.remaining > 0 => now + s.remaining * Quantum = due
                     /\ s.remaining = 0 /\ now <= due => Distance(s.current, s.target) < Eps + MaxQuanta
                     /\ Distance(s.current + s.remaining * s.delta, s.target) < MaxQuanta
    BY DEF RampsEndOnTime
  <2> DEFINE now == IF call = None THEN clock * Quantum ELSE Here
  <2>1. InOrder
    BY <1>1 DEF IInv, ControlInv
  <2>2. Place \in Nat /\ now = Place * Quantum /\ Quantum \in Nat /\ Eps \in Nat /\ MaxQuanta \in Nat
    <3>1. Quantum \in Nat /\ Eps \in Nat /\ MaxQuanta \in Nat
      BY SchedulerAssumption, ConstantsAssumption
    <3>2. CASE call = None
      BY <1>1, <3>1, <3>2 DEF Place, IInv, StateInv
    <3>3. CASE call # None
      <4>1. call.at \in Nat /\ call.at # None
        BY <1>1, <3>3, ConstantFacts DEF IInv, StateInv, Option, Calls, Rendering
      <4>2. QED
        BY <1>1, <3>1, <3>3, <4>1 DEF Place, Here, IInv, StateInv
    <3>4. QED
      BY <3>2, <3>3
  <2> HIDE DEF now
  <2>3. ASSUME NEW c \in Ordinals
        PROVE  LET s == routes[c] IN
               /\ s.target = Target(binding.records[c])
               /\ s.phase = 0
               /\ s.remaining > 0 => now + s.remaining * Quantum = due
               /\ s.remaining = 0 /\ now <= due => Distance(s.current, s.target) < Eps + MaxQuanta
               /\ Distance(s.current + s.remaining * s.delta, s.target) < MaxQuanta
    <3> DEFINE s == routes[c]
    <3>1. OnCourse(s, Place, due, Target(binding.records[c]))
      BY <1>1, <2>1, <2>3 DEF RoutesInv
    <3>2. s.current \in Int /\ s.target \in Int /\ s.delta \in Int /\ s.remaining \in Nat /\ s.phase = 0
          /\ s.target = Target(binding.records[c])
          /\ Distance(s.current + s.remaining * s.delta, s.target) < MaxQuanta
          /\ (s.remaining > 0 => (Place + s.remaining) * Quantum = due)
      BY <3>1 DEF OnCourse, Ramp
    <3> HIDE DEF s
    <3>3. (Place + s.remaining) * Quantum = now + s.remaining * Quantum
      BY <2>2, <3>2
    <3>4. s.remaining = 0 => Distance(s.current, s.target) < Eps + MaxQuanta
      <4>1. s.remaining = 0 => s.current + s.remaining * s.delta = s.current
        BY <3>2
      <4>2. Distance(s.current, s.target) \in Nat
        BY <3>2 DEF Distance
      <4>3. QED
        BY <2>2, <3>2, <4>1, <4>2
    <3>5. QED
      BY <3>2, <3>3, <3>4 DEF s
  <2>4. QED
    BY <2>3 DEF now
<1>2. QED
  BY <1>1, Invariant, RoutesInvariant, PTL

-----------------------------------------------------------------------------
(***************************************************************************)
(* The binaural filters.                                                   *)
(*                                                                         *)
(* A sample is the list of its terms, so that "every tap once" says which  *)
(* set a list enumerates without repetition.  The invariant gives, for n   *)
(* samples taken and m put out, what each engine and the delay remember:   *)
(* the direct engine the last inputs of every source before position m,    *)
(* the partitioned engine the part that the first n inputs have in every   *)
(* later sample of the output.  An action takes or puts out c samples and  *)
(* leads from (m, n) to (m + c, n + c) or (m + c, n).                      *)
(***************************************************************************)

-----------------------------------------------------------------------------
(* Sums of terms *)

\* The sequence x lists the elements of S, each once.
Lists(x, S) == x \in Seq(S) /\ IsInjective(x) /\ Range(x) = S

\* Nothing, one term, and two lists one after the other.
LEMMA ListsNone == Lists(<<>>, {})
BY DEF Lists, IsInjective, Range

\* One term.
LEMMA ListsOne == ASSUME NEW a  PROVE Lists(<<a>>, {a})
<1>1. <<a>> \in Seq({a}) /\ DOMAIN <<a>> = {1} /\ <<a>>[1] = a
  OBVIOUS
<1>2. QED
  BY <1>1 DEF Lists, IsInjective, Range

\* Lists of sets that share nothing, one after the other, list their union.
LEMMA ListsBoth ==
  ASSUME NEW S, NEW T, S \cap T = {}, NEW x, NEW y, Lists(x, S), Lists(y, T)
  PROVE  Lists(x \o y, S \cup T)
<1> DEFINE m == Len(x)
           n == Len(y)
           z == x \o y
<1>1. x \in Seq(S) /\ y \in Seq(T) /\ m \in Nat /\ n \in Nat /\ DOMAIN x = 1 .. m /\ DOMAIN y = 1 .. n
  BY DEF Lists
<1>2. x \in Seq(S \cup T) /\ y \in Seq(S \cup T)
  <2>1. S \subseteq S \cup T /\ T \subseteq S \cup T
    OBVIOUS
  <2>2. \A U, V : U \subseteq V => Seq(U) \subseteq Seq(V)
    OBVIOUS
  <2>3. QED
    BY <1>1, <2>1, <2>2
<1>3. z \in Seq(S \cup T) /\ Len(z) = m + n /\ DOMAIN z = 1 .. m + n
  BY <1>2, ConcatProperties
<1>4. \A i \in 1 .. m + n : z[i] = IF i <= m THEN x[i] ELSE y[i - m]
  BY <1>2, ConcatProperties
<1> HIDE DEF m, n, z
<1>5. \A i \in 1 .. m : x[i] \in S
  BY <1>1
<1>6. \A i \in 1 .. n : y[i] \in T
  BY <1>1
<1>7. \A i \in 1 .. m + n : i > m => i - m \in 1 .. n
  BY <1>1
<1>8. \A i, j \in 1 .. m + n : z[i] = z[j] => i = j
  <2> SUFFICES ASSUME NEW i \in 1 .. m + n, NEW j \in 1 .. m + n, z[i] = z[j]  PROVE i = j
    OBVIOUS
  <2>1. \A a, b \in 1 .. m : x[a] = x[b] => a = b
    BY <1>1 DEF Lists, IsInjective
  <2>2. \A a, b \in 1 .. n : y[a] = y[b] => a = b
    BY <1>1 DEF Lists, IsInjective
  <2>3. CASE i <= m /\ j <= m
    <3>1. i \in 1 .. m /\ j \in 1 .. m /\ z[i] = x[i] /\ z[j] = x[j]
      BY <1>1, <1>4, <2>3
    <3>2. QED
      BY <2>1, <3>1
  <2>4. CASE i > m /\ j > m
    <3>1. i - m \in 1 .. n /\ j - m \in 1 .. n /\ z[i] = y[i - m] /\ z[j] = y[j - m]
      BY <1>1, <1>4, <2>4
    <3>2. i - m = j - m
      BY <2>2, <3>1
    <3>3. QED
      BY <1>1, <3>2
  <2>5. CASE i <= m /\ j > m
    <3>1. i \in 1 .. m /\ j - m \in 1 .. n /\ z[i] = x[i] /\ z[j] = y[j - m]
      BY <1>1, <1>4, <2>5
    <3>2. QED
      BY <1>5, <1>6, <3>1
  <2>6. CASE i > m /\ j <= m
    <3>1. i - m \in 1 .. n /\ j \in 1 .. m /\ z[i] = y[i - m] /\ z[j] = x[j]
      BY <1>1, <1>4, <2>6
    <3>2. QED
      BY <1>5, <1>6, <3>1
  <2>7. QED
    BY <1>1, <2>3, <2>4, <2>5, <2>6
<1>9. \A a \in S \cup T : \E i \in 1 .. m + n : z[i] = a
  <2>1. ASSUME NEW a \in S  PROVE \E i \in 1 .. m + n : z[i] = a
    <3>1. PICK i \in 1 .. m : x[i] = a
      BY <1>1 DEF Lists, Range
    <3>2. i \in 1 .. m + n /\ i <= m
      BY <1>1
    <3>3. QED
      BY <1>4, <3>1, <3>2
  <2>2. ASSUME NEW a \in T  PROVE \E i \in 1 .. m + n : z[i] = a
    <3>1. PICK i \in 1 .. n : y[i] = a
      BY <1>1 DEF Lists, Range
    <3>2. i + m \in 1 .. m + n /\ ~(i + m <= m) /\ (i + m) - m = i
      BY <1>1
    <3>3. QED
      BY <1>4, <3>1, <3>2
  <2>3. QED
    BY <2>1, <2>2
<1>10. Range(z) = S \cup T
  BY <1>3, <1>9 DEF Range
<1>11. QED
  BY <1>3, <1>8, <1>10 DEF Lists, IsInjective, z

\* What FlattenSeq chooses: the sums of the first parts.
FlattensTo(f, parts, m) == f = [i \in 1 .. m |-> IF i = 1 THEN parts[1] ELSE f[i - 1] \o parts[i]]

\* The recursive function by which FlattenSeq is defined exists, and gives the sum of
\* the parts from the left.
LEMMA FlattenExists ==
  ASSUME NEW parts, NEW n \in Nat \ {0}
  PROVE  \E f : FlattensTo(f, parts, n)
<1> DEFINE T == {m \in Nat \ {0} : ~ \E f : FlattensTo(f, parts, m)}
<1> SUFFICES ASSUME T # {}  PROVE FALSE
  OBVIOUS
<1>1. T \subseteq Nat
  OBVIOUS
<1>2. PICK m \in T : \A k \in T : m <= k
  BY <1>1, LeastNat
<1>3. m \in Nat \ {0} /\ ~ \E f : FlattensTo(f, parts, m)
  OBVIOUS
<1>4. CASE m = 1
  <2> DEFINE f == [i \in 1 .. 1 |-> parts[1]]
  <2>1. \A i \in 1 .. 1 : i = 1
    OBVIOUS
  <2>2. f = [i \in 1 .. 1 |-> IF i = 1 THEN parts[1] ELSE f[i - 1] \o parts[i]]
    BY <2>1
  <2> HIDE DEF f
  <2>3. FlattensTo(f, parts, 1)
    BY <2>2 DEF FlattensTo
  <2>4. QED
    BY <1>3, <1>4, <2>3
<1>5. CASE m # 1
  <2>1. m - 1 \in Nat \ {0} /\ m - 1 \notin T
    BY <1>2, <1>3, <1>5
  <2>2. PICK g : FlattensTo(g, parts, m - 1)
    BY <2>1
  <2>3. \A i \in 1 .. m - 1 : g[i] = IF i = 1 THEN parts[1] ELSE g[i - 1] \o parts[i]
    BY <2>2 DEF FlattensTo
  <2> DEFINE f == [i \in 1 .. m |-> IF i < m THEN g[i] ELSE g[m - 1] \o parts[m]]
  <2>4. ASSUME NEW i \in 1 .. m
        PROVE  (IF i < m THEN g[i] ELSE g[m - 1] \o parts[m])
                 = IF i = 1 THEN parts[1] ELSE f[i - 1] \o parts[i]
    <3>1. CASE i = 1
      <4>1. 1 < m /\ 1 \in 1 .. m - 1
        BY <1>3, <1>5
      <4>2. QED
        BY <2>3, <3>1, <4>1
    <3>2. CASE i # 1
      <4>1. i - 1 \in 1 .. m /\ i - 1 < m
        BY <1>3, <3>2
      <4>2. f[i - 1] = g[i - 1]
        BY <4>1
      <4> HIDE DEF f
      <4>3. i < m => i \in 1 .. m - 1
        BY <1>3
      <4>4. ~(i < m) => i = m
        BY <1>3
      <4>5. QED
        BY <2>3, <3>2, <4>2, <4>3, <4>4
    <3>3. QED
      BY <3>1, <3>2
  <2>5. f = [i \in 1 .. m |-> IF i = 1 THEN parts[1] ELSE f[i - 1] \o parts[i]]
    BY <2>4
  <2> HIDE DEF f
  <2>6. FlattensTo(f, parts, m)
    BY <2>5 DEF FlattensTo
  <2>7. QED
    BY <1>3, <2>6
<1>6. QED
  BY <1>4, <1>5

Partial(f, parts, n) == f[1] = parts[1] /\ \A i \in 2 .. n : f[i] = f[i - 1] \o parts[i]

LEMMA FlattenIs ==
  ASSUME NEW parts, NEW n \in Nat \ {0}, Len(parts) = n
  PROVE  \E f : Partial(f, parts, n) /\ FlattenSeq(parts) = f[n]
<1> DEFINE g == CHOOSE f : f = [i \in 1 .. n |-> IF i = 1 THEN parts[i] ELSE f[i - 1] \o parts[i]]
<1>1. g = [i \in 1 .. n |-> IF i = 1 THEN parts[i] ELSE g[i - 1] \o parts[i]]
  <2>1. PICK f : FlattensTo(f, parts, n)
    BY FlattenExists
  <2>2. f = [i \in 1 .. n |-> IF i = 1 THEN parts[i] ELSE f[i - 1] \o parts[i]]
    BY <2>1 DEF FlattensTo
  <2>3. QED
    BY <2>2
<1>2. FlattenSeq(parts) = g[n]
  BY DEF FlattenSeq
<1> HIDE DEF g
<1>3. Partial(g, parts, n)
  <2>1. \A i \in 1 .. n : g[i] = IF i = 1 THEN parts[i] ELSE g[i - 1] \o parts[i]
    BY <1>1
  <2>2. 1 \in 1 .. n /\ \A i \in 2 .. n : i \in 1 .. n /\ i # 1
    OBVIOUS
  <2>3. QED
    BY <2>1, <2>2 DEF Partial
<1>4. QED
  BY <1>2, <1>3

\* The sum of parts that list different terms lists all of them.
LEMMA ListsSum ==
  ASSUME NEW n \in Nat, NEW parts, Len(parts) = n, n = 0 => parts = <<>>,
         NEW terms,
         \A i \in 1 .. n : Lists(parts[i], terms[i]),
         \A i, j \in 1 .. n : i # j => terms[i] \cap terms[j] = {}
  PROVE  Lists(FlattenSeq(parts), UNION {terms[i] : i \in 1 .. n})
<1>1. CASE n = 0
  <2>1. FlattenSeq(parts) = <<>>
    <3>1. Len(parts) = 0 /\ parts = <<>>
      BY <1>1
    <3>2. QED
      BY <3>1, Zenon DEF FlattenSeq
  <2>2. {terms[i] : i \in 1 .. n} = {}
    BY <1>1
  <2>3. QED
    BY <2>1, <2>2, ListsNone
<1>2. CASE n # 0
  <2>8. n \in Nat \ {0}
    BY <1>2
  <2>9. PICK f : Partial(f, parts, n) /\ FlattenSeq(parts) = f[n]
    BY <2>8, FlattenIs
  <2>1. f[1] = parts[1] /\ \A i \in 2 .. n : f[i] = f[i - 1] \o parts[i]
    BY <2>9 DEF Partial
  <2> DEFINE All(m) == UNION {terms[i] : i \in 1 .. m}
             T == {m \in 1 .. n : ~ Lists(f[m], All(m))}
  <2>2. ASSUME T # {}  PROVE FALSE
    <3>1. T \subseteq Nat
      OBVIOUS
    <3>2. PICK m \in T : \A k \in T : m <= k
      BY <2>2, <3>1, LeastNat
    <3>3. m \in 1 .. n /\ ~ Lists(f[m], All(m))
      OBVIOUS
    <3>4. CASE m = 1
      <4>1. All(1) = terms[1]
        OBVIOUS
      <4>2. QED
        <5>1. Lists(parts[1], terms[1])
          <6>1. 1 \in 1 .. n
            BY <2>8
          <6>2. QED
            BY <6>1
        <5> HIDE DEF All, T
        <5>2. QED
          BY <2>1, <3>3, <3>4, <4>1, <5>1
    <3>5. CASE m # 1
      <4>1. m - 1 \in 1 .. n /\ m - 1 \notin T /\ m \in 2 .. n
        <5> HIDE DEF All, T
        <5>1. m - 1 \in 1 .. n /\ m \in 2 .. n /\ ~(m <= m - 1)
          BY <3>3, <3>5
        <5>2. QED
          BY <3>2, <5>1
      <4>2. Lists(f[m - 1], All(m - 1))
        BY <4>1
      <4>3. All(m - 1) \cap terms[m] = {}
        <5>1. ASSUME NEW i \in 1 .. m - 1  PROVE terms[i] \cap terms[m] = {}
          <6>1. i \in 1 .. n /\ i # m
            BY <3>3, <4>1
          <6>2. QED
            BY <3>3, <6>1
        <5>2. QED
          BY <5>1
      <4>4. All(m) = All(m - 1) \cup terms[m]
        <5>1. 1 .. m = (1 .. m - 1) \cup {m}
          BY <3>3
        <5>2. QED
          BY <5>1
      <4> HIDE DEF All, T
      <4>5. Lists(f[m - 1] \o parts[m], All(m - 1) \cup terms[m])
        BY <3>3, <4>2, <4>3, ListsBoth
      <4>6. QED
        BY <2>1, <3>3, <4>1, <4>4, <4>5
    <3>6. QED
      BY <3>4, <3>5
  <2>3. n \in 1 .. n
    BY <1>2
  <2>4. Lists(f[n], All(n))
    BY <2>2, <2>3
  <2>5. QED
    BY <2>4, <2>9
<1>3. QED
  BY <1>1, <1>2

-----------------------------------------------------------------------------
(* What the samples are to be *)

\* The samples that the engine has taken, and those of the tail that it has put out.
Sent == taken - Len(staged)
Rest == Len(mixed) - Sent

\* The input of source s at position q when n samples were taken.
In(s, q, n) == IF q < n THEN Sample(s, q) ELSE <<>>

\* Its term with tap t, if there is one; the terms of sample k of the output.
Weighted(s, q, t, n) ==
  IF q < n /\ q - scene[s].start \in 0 .. scene[s].length - 1
  THEN {<<s, q - scene[s].start, stream, t>>} ELSE {}

SourceTerms(s, k, n) == UNION {Weighted(s, k - t, t - 1, n) : t \in 1 .. Taps[s]}

FilterTerms(k, n) == UNION {SourceTerms(s, k, n) : s \in Sources}

\* Sources have at least one tap.
LEMMA TapsAre == Len(Taps) \in Nat \ {0} /\ \A s \in Sources : Taps[s] \in Nat \ {0}
<1>1. Taps \in Seq(Nat \ {0}) /\ Taps # <<>>
  BY FilterAssumption
<1>2. Len(Taps) \in Nat /\ Len(Taps) # 0
  BY <1>1, EmptySeq
<1>3. QED
  BY <1>1, <1>2 DEF Sources

\* Weighting a term with a tap.
LEMMA AppendTriple ==
  ASSUME NEW a, NEW b, NEW c, NEW d
  PROVE  Append(<<a, b, c>>, d) = <<a, b, c, d>>
<1> DEFINE S == {a, b, c, d}
           x == <<a, b, c>>
           y == <<a, b, c, d>>
<1>1. x \in Seq(S) /\ Len(x) = 3 /\ x[1] = a /\ x[2] = b /\ x[3] = c /\ d \in S
  OBVIOUS
<1>2. y \in Seq(S) /\ Len(y) = 4 /\ y[1] = a /\ y[2] = b /\ y[3] = c /\ y[4] = d
  OBVIOUS
<1> HIDE DEF S, x, y
<1>3. Append(x, d) \in Seq(S) /\ Len(Append(x, d)) = 4 /\ Append(x, d)[4] = d
      /\ \A i \in 1 .. 3 : Append(x, d)[i] = x[i]
  <2>1. Append(x, d) \in Seq(S) /\ Len(Append(x, d)) = Len(x) + 1 /\ Append(x, d)[Len(x) + 1] = d
        /\ \A i \in 1 .. Len(x) : Append(x, d)[i] = x[i]
    <3>1. x \in Seq(S) /\ d \in S
      BY <1>1
    <3>2. QED
      BY <3>1, AppendProperties
  <2>2. QED
    BY <1>1, <2>1
<1>4. \A i \in 1 .. 4 : Append(x, d)[i] = y[i]
  BY <1>1, <1>2, <1>3
<1>5. Append(x, d) = y
  BY <1>2, <1>3, <1>4, SeqEqual
<1>6. QED
  BY <1>5 DEF x, y

\* An input times a tap is its one term with that tap, or nothing.
LEMMA TimesIs ==
  ASSUME NEW s, NEW q, NEW n, NEW t
  PROVE  Lists(Times(In(s, q, n), t), Weighted(s, q, t, n))
<1> DEFINE p == q - scene[s].start
<1>1. CASE q < n /\ p \in 0 .. scene[s].length - 1
  <2> DEFINE a == <<s, p, stream>>
  <2>1. In(s, q, n) = <<a>>
    BY <1>1 DEF In, Sample
  <2>2. Append(a, t) = <<s, p, stream, t>>
    BY AppendTriple
  <2>3. Times(<<a>>, t) = <<<<s, p, stream, t>>>>
    <3>1. Len(<<a>>) = 1 /\ <<a>>[1] = a
      OBVIOUS
    <3>2. Times(<<a>>, t) = [i \in 1 .. 1 |-> Append(<<a>>[i], t)]
      BY <3>1 DEF Times
    <3>3. \A i \in 1 .. 1 : <<a>>[i] = a
      OBVIOUS
    <3> HIDE DEF a
    <3>4. Times(<<a>>, t) = [i \in 1 .. 1 |-> <<s, p, stream, t>>]
      BY <2>2, <3>2, <3>3
    <3>5. QED
      BY <3>4
  <2>4. Weighted(s, q, t, n) = {<<s, p, stream, t>>}
    BY <1>1 DEF Weighted
  <2>5. QED
    BY <2>1, <2>3, <2>4, ListsOne
<1>2. CASE ~(q < n /\ p \in 0 .. scene[s].length - 1)
  <2>1. In(s, q, n) = <<>> /\ Weighted(s, q, t, n) = {}
    BY <1>2 DEF In, Sample, Weighted
  <2>2. Times(<<>>, t) = <<>>
    BY DEF Times
  <2>3. QED
    BY <2>1, <2>2, ListsNone
<1>3. QED
  BY <1>1, <1>2

\* Terms of another source or another tap are others.
LEMMA WeightedApart ==
  ASSUME NEW s, NEW q, NEW t, NEW n, NEW r, NEW p, NEW u, NEW m, s # r \/ t # u
  PROVE  Weighted(s, q, t, n) \cap Weighted(r, p, u, m) = {}
<1>1. \A a \in Weighted(s, q, t, n) : a[1] = s /\ a[4] = t
  BY DEF Weighted
<1>2. \A a \in Weighted(r, p, u, m) : a[1] = r /\ a[4] = u
  BY DEF Weighted
<1>3. QED
  BY <1>1, <1>2

\* The sum over all taps, where the line holds the inputs from position m - Taps[s] + 1 on.
LEMMA FilteredIs ==
  ASSUME NEW s \in Sources, NEW m \in Int, NEW n \in Int, NEW i \in Int, NEW line,
         \A j \in i .. i + Taps[s] - 1 : line[j] = In(s, m - Taps[s] + j, n)
  PROVE  Lists(Filtered(line, i, s), SourceTerms(s, m + i, n))
<1> DEFINE last == Taps[s]
           parts == [t \in 1 .. last |-> Times(line[i + last - t], t - 1)]
           terms == [t \in 1 .. last |-> Weighted(s, (m + i) - t, t - 1, n)]
<1>1. last \in Nat \ {0}
  BY TapsAre
<1>2. Filtered(line, i, s) = FlattenSeq(parts)
  BY DEF Filtered, SumOver
<1>3. Len(parts) = last
  BY <1>1
<1> HIDE DEF last
<1>4. ASSUME NEW t \in 1 .. last  PROVE Lists(parts[t], terms[t])
  <2>1. i + last - t \in i .. i + last - 1 /\ m - last + (i + last - t) = (m + i) - t
    BY <1>1
  <2>2. line[i + last - t] = In(s, (m + i) - t, n)
    BY <2>1 DEF last
  <2>3. parts[t] = Times(In(s, (m + i) - t, n), t - 1) /\ terms[t] = Weighted(s, (m + i) - t, t - 1, n)
    BY <2>2
  <2>4. QED
    BY <2>3, TimesIs
<1>5. \A t, u \in 1 .. last : t # u => terms[t] \cap terms[u] = {}
  <2> SUFFICES ASSUME NEW t \in 1 .. last, NEW u \in 1 .. last, t # u
               PROVE  terms[t] \cap terms[u] = {}
    OBVIOUS
  <2>1. t - 1 # u - 1
    BY <1>1
  <2>2. QED
    BY <2>1, WeightedApart
<1>7. {terms[t] : t \in 1 .. last} = {Weighted(s, (m + i) - t, t - 1, n) : t \in 1 .. last}
  OBVIOUS
<1> HIDE DEF parts, terms
<1>9. last \in Nat /\ (last = 0 => parts = <<>>)
  BY <1>1
<1>6. Lists(FlattenSeq(parts), UNION {terms[t] : t \in 1 .. last})
  BY <1>3, <1>4, <1>5, <1>9, ListsSum
<1>8. QED
  BY <1>2, <1>6, <1>7 DEF SourceTerms, last

\* So sources share no term of a sample.
LEMMA SourcesApart ==
  ASSUME NEW s, NEW r, s # r, NEW k, NEW n
  PROVE  SourceTerms(s, k, n) \cap SourceTerms(r, k, n) = {}
<1>1. \A a \in SourceTerms(s, k, n) : a[1] = s
  BY DEF SourceTerms, Weighted
<1>2. \A a \in SourceTerms(r, k, n) : a[1] = r
  BY DEF SourceTerms, Weighted
<1>3. QED
  BY <1>1, <1>2

\* The sum over all sources.
LEMMA SourcesSum ==
  ASSUME NEW k, NEW n, NEW parts, parts = [s \in 1 .. Len(Taps) |-> parts[s]],
         \A s \in Sources : Lists(parts[s], SourceTerms(s, k, n))
  PROVE  Lists(FlattenSeq(parts), FilterTerms(k, n))
<1> DEFINE terms == [s \in 1 .. Len(Taps) |-> SourceTerms(s, k, n)]
<1>1. Len(Taps) \in Nat \ {0} /\ Len(parts) = Len(Taps)
  BY TapsAre
<1>2. \A s \in 1 .. Len(Taps) : Lists(parts[s], terms[s])
  BY DEF Sources
<1>3. \A s, r \in 1 .. Len(Taps) : s # r => terms[s] \cap terms[r] = {}
  BY SourcesApart
<1>5. {terms[s] : s \in 1 .. Len(Taps)} = {SourceTerms(s, k, n) : s \in Sources}
  BY DEF Sources
<1> HIDE DEF terms
<1>7. Len(Taps) \in Nat /\ (Len(Taps) = 0 => parts = <<>>)
  BY <1>1
<1>4. Lists(FlattenSeq(parts), UNION {terms[s] : s \in 1 .. Len(Taps)})
  BY <1>1, <1>2, <1>3, <1>7, ListsSum
<1>6. QED
  BY <1>4, <1>5 DEF FilterTerms

-----------------------------------------------------------------------------
(* Numbers *)

\* Of finitely many numbers one is the largest.
LEMMA LargestOf ==
  ASSUME NEW n \in Nat \ {0}, NEW f, \A i \in 1 .. n : f[i] \in Nat
  PROVE  \E i \in 1 .. n : \A j \in 1 .. n : f[i] >= f[j]
<1> DEFINE Has(m) == \E i \in 1 .. m : \A j \in 1 .. m : f[i] >= f[j]
           T == {m \in 1 .. n : ~ Has(m)}
<1>1. ASSUME T # {}  PROVE FALSE
  <2>1. T \subseteq Nat
    OBVIOUS
  <2>2. PICK m \in T : \A k \in T : m <= k
    BY <1>1, <2>1, LeastNat
  <2>3. m \in 1 .. n /\ ~ Has(m)
    OBVIOUS
  <2>4. CASE m = 1
    <3>1. 1 \in 1 .. 1 /\ \A j \in 1 .. 1 : j = 1
      OBVIOUS
    <3>2. f[1] \in Nat /\ f[1] >= f[1]
      BY <2>3, <2>4
    <3>3. \A j \in 1 .. 1 : f[1] >= f[j]
      BY <3>1, <3>2
    <3>4. Has(1)
      BY <3>1, <3>3
    <3>5. QED
      BY <2>3, <2>4, <3>4
  <2>5. CASE m # 1
    <3>1. m - 1 \in 1 .. n /\ ~(m <= m - 1)
      BY <2>3, <2>5
    <3>2. Has(m - 1)
      BY <2>2, <3>1
    <3>3. PICK i \in 1 .. m - 1 : \A j \in 1 .. m - 1 : f[i] >= f[j]
      BY <3>2
    <3>4. i \in 1 .. m /\ m \in 1 .. m /\ f[i] \in Nat /\ f[m] \in Nat
      BY <2>3, <3>1
    <3>5. \A j \in 1 .. m : (j \in 1 .. m - 1 \/ j = m) /\ f[j] \in Nat
      BY <2>3, <3>1
    <3>6. CASE f[i] >= f[m]
      <4>1. \A j \in 1 .. m : f[i] >= f[j]
        BY <3>3, <3>5, <3>6
      <4>2. QED
        BY <2>3, <3>4, <4>1
    <3>7. CASE f[m] > f[i]
      <4>1. \A j \in 1 .. m : f[m] >= f[j]
        BY <3>3, <3>4, <3>5, <3>7
      <4>2. QED
        BY <2>3, <3>4, <4>1
    <3>8. QED
      BY <3>4, <3>6, <3>7
  <2>6. QED
    BY <2>4, <2>5
<1>2. n \in 1 .. n
  OBVIOUS
<1>3. QED
  BY <1>1, <1>2

\* Max over the sources is a number of theirs, and the largest.
LEMMA MaxOf ==
  ASSUME NEW f, \A s \in Sources : f[s] \in Nat
  PROVE  /\ Max({f[s] : s \in Sources}) \in Nat
         /\ \E s \in Sources : Max({f[r] : r \in Sources}) = f[s]
         /\ \A s \in Sources : Max({f[r] : r \in Sources}) >= f[s]
<1> DEFINE S == {f[s] : s \in Sources}
<1>1. PICK s \in Sources : \A r \in Sources : f[s] >= f[r]
  BY TapsAre, LargestOf DEF Sources
<1>2. \E x \in S : \A y \in S : x >= y
  BY <1>1
<1>3. Max(S) \in S /\ \A y \in S : Max(S) >= y
  BY <1>2 DEF Max
<1> HIDE DEF S
<1>4. \A r \in Sources : f[r] \in S
  BY DEF S
<1>5. \E r \in Sources : Max(S) = f[r]
  BY <1>3 DEF S
<1>6. QED
  BY <1>3, <1>4, <1>5 DEF S

\* Max and Min of two numbers.
LEMMA MaxOfTwo ==
  ASSUME NEW m \in Int, NEW n \in Int
  PROVE  Max({m, n}) = (IF m >= n THEN m ELSE n) /\ Min({m, n}) = (IF m <= n THEN m ELSE n)
<1>1. \E x \in {m, n} : \A y \in {m, n} : x >= y
  OBVIOUS
<1>2. \E x \in {m, n} : \A y \in {m, n} : x =< y
  OBVIOUS
<1>3. Max({m, n}) \in {m, n} /\ \A y \in {m, n} : Max({m, n}) >= y
  BY <1>1 DEF Max
<1>4. Min({m, n}) \in {m, n} /\ \A y \in {m, n} : Min({m, n}) =< y
  BY <1>2 DEF Min
<1>5. QED
  BY <1>3, <1>4

\* MaxTaps is the longest filter.
LEMMA MaxTapsIs ==
  /\ MaxTaps \in Nat \ {0}
  /\ \A s \in Sources : Taps[s] <= MaxTaps
  /\ \E s \in Sources : MaxTaps = Taps[s]
<1>1. \A s \in Sources : Taps[s] \in Nat
  BY TapsAre
<1>2. MaxTaps \in Nat /\ (\A s \in Sources : MaxTaps >= Taps[s]) /\ \E s \in Sources : MaxTaps = Taps[s]
  BY <1>1, MaxOf DEF MaxTaps
<1>3. QED
  BY <1>2, TapsAre

\* A number is divided in one way.
-----------------------------------------------------------------------------
(* Sequences that are given by their elements *)

\* x is a sequence of n values.
HasLength(x, n) == x = [i \in 1 .. n |-> x[i]]

\* A sequence that is written out by its length has it.
LEMMA LengthIs ==
  ASSUME NEW n \in Nat, NEW x, HasLength(x, n)
  PROVE  Len(x) = n /\ x \in Seq({x[i] : i \in 1 .. n})
<1>1. x = [i \in 1 .. n |-> x[i]]
  BY DEF HasLength
<1>2. QED
  BY <1>1

\* A part of a sequence, position by position.
LEMMA PartIs ==
  ASSUME NEW x, NEW a \in Int, NEW c \in Int
  PROVE  SubSeq(x, a + 1, a + c) = [i \in 1 .. c |-> x[a + i]]
<1> DEFINE u == a + 1
           v == a + c
<1>1. u \in Int /\ v \in Int /\ 1 + v - u = c /\ \A i \in 1 .. c : i + u - 1 = a + i
  OBVIOUS
<1> HIDE DEF u, v
<1>2. SubSeq(x, u, v) = [i \in 1 .. 1 + v - u |-> x[i + u - 1]]
  BY <1>1
<1>3. SubSeq(x, u, v) = [i \in 1 .. c |-> x[a + i]]
  BY <1>1, <1>2
<1>4. QED
  BY <1>3 DEF u, v

\* The sequence z is x and then y.
Joined(z, x, y, m, n) ==
  /\ HasLength(z, m + n)
  /\ \A i \in 1 .. m : z[i] = x[i]
  /\ \A i \in 1 .. n : z[m + i] = y[i]

\* Two sequences one after the other, position by position.
LEMMA BothAre ==
  ASSUME NEW m \in Nat, NEW n \in Nat, NEW x, NEW y, HasLength(x, m), HasLength(y, n)
  PROVE  Joined(x \o y, x, y, m, n)
<1> DEFINE S == {x[i] : i \in 1 .. m} \cup {y[i] : i \in 1 .. n}
           z == x \o y
<1>0. x = [i \in 1 .. m |-> x[i]] /\ y = [i \in 1 .. n |-> y[i]]
  BY DEF HasLength
<1>1. x \in Seq(S) /\ Len(x) = m
  BY <1>0
<1>2. y \in Seq(S) /\ Len(y) = n
  BY <1>0
<1> HIDE DEF S
<1>3. /\ z \in Seq(S) /\ Len(z) = m + n
      /\ \A i \in 1 .. m + n : z[i] = IF i <= m THEN x[i] ELSE y[i - m]
  BY <1>1, <1>2, ConcatProperties
<1> HIDE DEF z
<1>4. z = [i \in 1 .. m + n |-> z[i]]
  BY <1>3
<1>5. \A i \in 1 .. m : i \in 1 .. m + n /\ i <= m
  OBVIOUS
<1>6. \A i \in 1 .. n : m + i \in 1 .. m + n /\ ~(m + i <= m) /\ (m + i) - m = i
  OBVIOUS
<1>7. /\ \A i \in 1 .. m : z[i] = x[i]
      /\ \A i \in 1 .. n : z[m + i] = y[i]
  BY <1>3, <1>5, <1>6
<1>8. QED
  BY <1>4, <1>7 DEF z, HasLength, Joined

\* The samples f[m + 1], f[m + 2] and so on, c of them.
From(f, m, c) == [j \in 1 .. c |-> f[m + j]]

\* The line z of l samples and then c samples.
Moved(z, f, m, l, c) ==
  /\ \A j \in 1 .. l + c : z[j] = f[m + j]
  /\ LastOf(z, l) = From(f, m + c, l)
  /\ SubSeq(z, 1, c) = From(f, m, c)

\* A line of l samples, moved on by the c samples that come after them.
LEMMA LineMoves ==
  ASSUME NEW l \in Nat, NEW c \in Nat, NEW m \in Int, NEW f,
         NEW h, h = From(f, m, l), NEW x, x = From(f, m + l, c)
  PROVE  Moved(h \o x, f, m, l, c)
<1> DEFINE z == h \o x
<1>1. HasLength(h, l) /\ HasLength(x, c)
  BY DEF HasLength, From
<1>10. Joined(z, h, x, l, c)
  BY <1>1, BothAre
<1> HIDE DEF z
<1>2. /\ HasLength(z, l + c)
      /\ \A i \in 1 .. l : z[i] = h[i]
      /\ \A i \in 1 .. c : z[l + i] = x[i]
  BY <1>10 DEF Joined
<1>11. l + c \in Nat
  OBVIOUS
<1>9. Len(z) = l + c
  BY <1>2, <1>11, LengthIs
<1>3. ASSUME NEW j \in 1 .. l + c  PROVE z[j] = f[m + j]
  <2>1. CASE j <= l
    <3>1. j \in 1 .. l
      BY <2>1
    <3>2. z[j] = h[j] /\ h[j] = f[m + j]
      BY <1>2, <3>1 DEF From
    <3>3. QED
      BY <3>2
  <2>2. CASE j > l
    <3>1. j - l \in 1 .. c /\ l + (j - l) = j /\ m + l + (j - l) = m + j
      BY <2>2
    <3>2. z[l + (j - l)] = x[j - l] /\ x[j - l] = f[m + l + (j - l)]
      BY <1>2, <3>1 DEF From
    <3>3. QED
      BY <3>1, <3>2
  <2>3. QED
    BY <2>1, <2>2
<1>4. LastOf(z, l) = [j \in 1 .. l |-> z[c + j]]
  <2>1. Len(z) - l + 1 = c + 1 /\ Len(z) = c + l /\ c + l <= l + c /\ l + c \in Nat
    BY <1>9
  <2>2. SubSeq(z, c + 1, c + l) = [j \in 1 .. l |-> z[c + j]]
    BY <1>2, <2>1, PartIs
  <2>3. QED
    BY <2>1, <2>2 DEF LastOf
<1>5. \A j \in 1 .. l : z[c + j] = f[m + c + j]
  <2>1. ASSUME NEW j \in 1 .. l  PROVE c + j \in 1 .. l + c /\ m + (c + j) = m + c + j
    OBVIOUS
  <2>2. QED
    BY <1>3, <2>1
<1>6. LastOf(z, l) = From(f, m + c, l)
  BY <1>4, <1>5 DEF From
<1>7. SubSeq(z, 1, c) = From(f, m, c)
  <2>0. l + c \in Nat /\ 0 + c <= l + c
    OBVIOUS
  <2>1. SubSeq(z, 0 + 1, 0 + c) = [j \in 1 .. c |-> z[0 + j]]
    BY <1>2, <2>0, PartIs
  <2>2. 0 + 1 = 1 /\ 0 + c = c /\ \A j \in 1 .. c : 0 + j = j /\ j \in 1 .. l + c
    OBVIOUS
  <2>3. SubSeq(z, 1, c) = [j \in 1 .. c |-> z[j]]
    BY <2>1, <2>2
  <2>4. QED
    BY <1>3, <2>2, <2>3 DEF From
<1>8. QED
  BY <1>3, <1>6, <1>7 DEF z, Moved

-----------------------------------------------------------------------------
(* The direct engine *)

InLine(s, n) == [q \in Int |-> In(s, q, n)]

\* What the engine remembers when m samples were put out and n taken in.
History(m, n) == [s \in Sources |-> From(InLine(s, n), m - Taps[s], Taps[s] - 1)]

\* The next c samples of the sources.
Inputs(x, c, m, n) == \A s \in Sources : x[s] = From(InLine(s, n), m - 1, c)

\* These c samples come after m samples of the output.
Filters(y, c, m, n) == HasLength(y, c) /\ \A i \in 1 .. c : Lists(y[i], FilterTerms(m + i, n))

\* What a source puts out for a block, and what it remembers after it.
LEMMA SourceMoves ==
  ASSUME NEW s \in Sources, NEW m \in Int, NEW n \in Int, NEW c \in Nat,
         NEW h, h = From(InLine(s, n), m - Taps[s], Taps[s] - 1),
         NEW x, x = From(InLine(s, n), m - 1, c)
  PROVE  /\ \A i \in 1 .. c : Lists(Filtered(h \o x, i, s), SourceTerms(s, m + i, n))
         /\ LastOf(h \o x, Taps[s] - 1) = From(InLine(s, n), (m + c) - Taps[s], Taps[s] - 1)
<1> DEFINE f == InLine(s, n)
           l == Taps[s] - 1
           b == m - Taps[s]
<1>1. Taps[s] \in Nat \ {0}
  BY TapsAre
<1>2. l \in Nat /\ b \in Int /\ b + l = m - 1 /\ b + c = (m + c) - Taps[s] /\ Taps[s] = l + 1
  BY <1>1
<1> HIDE DEF f, l, b
<1>3. h = From(f, b, l) /\ x = From(f, b + l, c)
  BY <1>2 DEF f, l, b
<1>8. Moved(h \o x, f, b, l, c)
  BY <1>2, <1>3, LineMoves
<1>4. /\ \A j \in 1 .. l + c : (h \o x)[j] = f[b + j]
      /\ LastOf(h \o x, l) = From(f, b + c, l)
  BY <1>8 DEF Moved
<1>5. ASSUME NEW i \in 1 .. c  PROVE Lists(Filtered(h \o x, i, s), SourceTerms(s, m + i, n))
  <2>1. ASSUME NEW j \in i .. i + Taps[s] - 1
        PROVE  (h \o x)[j] = In(s, m - Taps[s] + j, n)
    <3>1. j \in 1 .. l + c /\ b + j \in Int
      BY <1>2
    <3>2. f[b + j] = In(s, b + j, n)
      BY <3>1 DEF f, InLine
    <3>3. QED
      BY <1>4, <3>1, <3>2 DEF b
  <2>2. i \in Int
    OBVIOUS
  <2>3. QED
    BY <2>1, <2>2, FilteredIs
<1>6. LastOf(h \o x, Taps[s] - 1) = From(InLine(s, n), (m + c) - Taps[s], Taps[s] - 1)
  BY <1>2, <1>4 DEF f, l
<1>7. QED
  BY <1>5, <1>6

\* All sources: the block of the direct engine.
LEMMA DirectOutputIs ==
  ASSUME NEW m \in Int, NEW n \in Int, NEW c \in Nat, NEW x, Inputs(x, c, m, n),
         NEW e, e.history = History(m, n)
  PROVE  Filters(DirectOutput(e, x, c), c, m, n)
<1> DEFINE y == DirectOutput(e, x, c)
           sum(i) == SumOver(Len(Taps), LAMBDA s : Filtered(e.history[s] \o x[s], i, s))
<1>4. y = [i \in 1 .. c |-> sum(i)]
  BY DEF DirectOutput
<1>1. HasLength(y, c)
  <2> HIDE DEF y, sum
  <2>1. y = [i \in 1 .. c |-> y[i]]
    BY <1>4
  <2>2. QED
    BY <2>1 DEF HasLength
<1>2. ASSUME NEW i \in 1 .. c  PROVE Lists(y[i], FilterTerms(m + i, n))
  <2> DEFINE parts == [s \in 1 .. Len(Taps) |-> Filtered(e.history[s] \o x[s], i, s)]
  <2>1. y[i] = FlattenSeq(parts)
    BY DEF DirectOutput, SumOver
  <2>2. ASSUME NEW s \in Sources  PROVE Lists(parts[s], SourceTerms(s, m + i, n))
    <3>1. e.history[s] = From(InLine(s, n), m - Taps[s], Taps[s] - 1)
      BY DEF History
    <3>2. x[s] = From(InLine(s, n), m - 1, c)
      BY DEF Inputs
    <3>3. Lists(Filtered(e.history[s] \o x[s], i, s), SourceTerms(s, m + i, n))
      BY <3>1, <3>2, SourceMoves
    <3>4. QED
      BY <3>3 DEF Sources
  <2>3. parts = [s \in 1 .. Len(Taps) |-> parts[s]]
    OBVIOUS
  <2> HIDE DEF parts, y
  <2>4. Lists(FlattenSeq(parts), FilterTerms(m + i, n))
    BY <2>2, <2>3, SourcesSum
  <2>5. QED
    BY <2>1, <2>4
<1>3. QED
  BY <1>1, <1>2 DEF Filters

\* What all sources remember after a block.
LEMMA HistoryMoves ==
  ASSUME NEW m \in Int, NEW n \in Int, NEW c \in Nat, NEW x, Inputs(x, c, m, n),
         NEW h, h = History(m, n)
  PROVE  [s \in Sources |-> LastOf(h[s] \o x[s], Taps[s] - 1)] = History(m + c, n)
<1>1. ASSUME NEW s \in Sources
      PROVE  LastOf(h[s] \o x[s], Taps[s] - 1) = From(InLine(s, n), (m + c) - Taps[s], Taps[s] - 1)
  <2>1. h[s] = From(InLine(s, n), m - Taps[s], Taps[s] - 1)
    BY DEF History
  <2>2. x[s] = From(InLine(s, n), m - 1, c)
    BY DEF Inputs
  <2>3. QED
    BY <2>1, <2>2, SourceMoves
<1>2. QED
  BY <1>1 DEF History

\* What is left of c samples of a tail after r of them; without input there is no tail.
Left(c, r, n) == IF n > 0 /\ c > r THEN c - r ELSE 0

SceneTyped == scene \in [Sources -> [start : Nat, length : Nat]]

\* Without input there are no terms.
LEMMA NothingTaken ==
  ASSUME SceneTyped, NEW s \in Sources, NEW q \in Int, NEW t
  PROVE  Weighted(s, q, t, 0) = {} /\ In(s, q, 0) = <<>>
<1>1. scene[s].start \in Nat /\ scene[s].length \in Nat
  BY DEF SceneTyped
<1>2. ASSUME q < 0, q - scene[s].start \in 0 .. scene[s].length - 1  PROVE FALSE
  <2> DEFINE a == scene[s].start
             p == q - a
  <2>1. p \in Int /\ p >= 0 /\ a \in Nat
    BY <1>1, <1>2
  <2>2. QED
    BY <1>2, <2>1
<1>3. QED
  BY <1>2 DEF Weighted, In, Sample

\* No term comes to a sample that lies a filter or more behind the input.
LEMMA NoTerms ==
  ASSUME NEW s \in Sources, NEW k \in Int, NEW n \in Nat,
         (n = 0 /\ SceneTyped) \/ k - Taps[s] >= n
  PROVE  SourceTerms(s, k, n) = {}
<1>1. Taps[s] \in Nat \ {0}
  BY TapsAre
<1>2. ASSUME NEW t \in 1 .. Taps[s]  PROVE Weighted(s, k - t, t - 1, n) = {}
  <2>1. CASE n = 0 /\ SceneTyped
    <3>1. k - t \in Int
      OBVIOUS
    <3>2. QED
      BY <2>1, <3>1, NothingTaken
  <2>2. CASE k - Taps[s] >= n
    <3>1. ~(k - t < n)
      BY <1>1, <2>2
    <3>2. QED
      BY <3>1 DEF Weighted
  <2>3. QED
    BY <2>1, <2>2
<1>3. QED
  BY <1>2 DEF SourceTerms

LEMMA NoFilterTerms ==
  ASSUME NEW k \in Int, NEW n \in Nat, (n = 0 /\ SceneTyped) \/ k - MaxTaps >= n
  PROVE  FilterTerms(k, n) = {}
<1>1. ASSUME NEW s \in Sources  PROVE SourceTerms(s, k, n) = {}
  <2>1. Taps[s] \in Nat /\ MaxTaps \in Nat /\ Taps[s] <= MaxTaps
    BY TapsAre, MaxTapsIs
  <2>2. k - MaxTaps >= n => k - Taps[s] >= n
    BY <2>1
  <2>3. QED
    BY <2>2, NoTerms
<1>2. QED
  BY <1>1 DEF FilterTerms

\* Silence is the input after what was taken.
LEMMA ZerosAre ==
  ASSUME NEW m \in Int, NEW n \in Int, m >= n, NEW c \in Nat, NEW s
  PROVE  Zeros(c) = From(InLine(s, n), m - 1, c)
<1>1. ASSUME NEW i \in 1 .. c  PROVE InLine(s, n)[m - 1 + i] = <<>>
  <2>1. m - 1 + i \in Int /\ ~(m - 1 + i < n)
    OBVIOUS
  <2>2. QED
    BY <2>1 DEF InLine, In
<1>2. QED
  BY <1>1 DEF Zeros, From

\* A block of the tail of the direct engine: a source that has ended adds nothing.
LEMMA DirectTailIs ==
  ASSUME SceneTyped, NEW m \in Int, NEW n \in Nat, m >= n, NEW c \in Nat, NEW e,
         e.history = History(m, n), e.tail = [s \in Sources |-> Left(Taps[s] - 1, m - n, n)]
  PROVE  Filters(DirectTailOutput(e, c), c, m, n)
<1> DEFINE y == DirectTailOutput(e, c)
           sum(i) == SumOver(Len(Taps), LAMBDA s :
                       IF i > e.tail[s] THEN <<>> ELSE Filtered(e.history[s] \o Zeros(c), i, s))
<1>4. y = [i \in 1 .. c |-> sum(i)]
  BY DEF DirectTailOutput
<1>1. HasLength(y, c)
  <2> HIDE DEF y, sum
  <2>1. y = [i \in 1 .. c |-> y[i]]
    BY <1>4
  <2>2. QED
    BY <2>1 DEF HasLength
<1>2. ASSUME NEW i \in 1 .. c  PROVE Lists(y[i], FilterTerms(m + i, n))
  <2> DEFINE parts == [s \in 1 .. Len(Taps) |->
                         IF i > e.tail[s] THEN <<>> ELSE Filtered(e.history[s] \o Zeros(c), i, s)]
  <2>1. y[i] = FlattenSeq(parts)
    BY DEF DirectTailOutput, SumOver
  <2>2. ASSUME NEW s \in Sources  PROVE Lists(parts[s], SourceTerms(s, m + i, n))
    <3>1. e.history[s] = From(InLine(s, n), m - Taps[s], Taps[s] - 1)
      BY DEF History
    <3>2. Zeros(c) = From(InLine(s, n), m - 1, c)
      BY ZerosAre
    <3>3. Lists(Filtered(e.history[s] \o Zeros(c), i, s), SourceTerms(s, m + i, n))
      <4> DEFINE h == e.history[s]
                 x == Zeros(c)
      <4>1. h = From(InLine(s, n), m - Taps[s], Taps[s] - 1) /\ x = From(InLine(s, n), m - 1, c)
            /\ m \in Int /\ n \in Int /\ c \in Nat /\ s \in Sources
        BY <3>1, <3>2
      <4> HIDE DEF h, x
      <4>2. \A j \in 1 .. c : Lists(Filtered(h \o x, j, s), SourceTerms(s, m + j, n))
        BY <4>1, SourceMoves
      <4>3. QED
        BY <4>2 DEF h, x
    <3>4. e.tail[s] = Left(Taps[s] - 1, m - n, n)
      OBVIOUS
    <3>5. CASE i > e.tail[s]
      <4>1. Taps[s] \in Nat \ {0} /\ m + i \in Int
        BY TapsAre
      <4>2. n = 0 \/ m + i - Taps[s] >= n
        BY <3>4, <3>5, <4>1 DEF Left
      <4>3. SourceTerms(s, m + i, n) = {}
        BY <4>1, <4>2, NoTerms
      <4>4. parts[s] = <<>>
        BY <3>5 DEF Sources
      <4>5. QED
        BY <4>3, <4>4, ListsNone
    <3>6. CASE ~(i > e.tail[s])
      <4>1. parts[s] = Filtered(e.history[s] \o Zeros(c), i, s)
        BY <3>6 DEF Sources
      <4>2. QED
        BY <3>3, <4>1
    <3>7. QED
      BY <3>5, <3>6
  <2>3. parts = [s \in 1 .. Len(Taps) |-> parts[s]]
    OBVIOUS
  <2> HIDE DEF parts, y
  <2>4. Lists(FlattenSeq(parts), FilterTerms(m + i, n))
    BY <2>2, <2>3, SourcesSum
  <2>5. QED
    BY <2>1, <2>4
<1>3. QED
  BY <1>1, <1>2 DEF Filters

\* The engine when m samples were put out and n taken in.
DirectIs(e, m, n) ==
  e = [history |-> History(m, n), tail |-> [s \in Sources |-> Left(Taps[s] - 1, m - n, n)],
       failed |-> FALSE]

\* What is remembered up to a position does not depend on what is taken after it.
LEMMA HistoryGrows ==
  ASSUME NEW m \in Int, NEW n \in Int, NEW k \in Int, m <= n, m <= k
  PROVE  History(m, n) = History(m, k)
<1>1. ASSUME NEW s \in Sources
      PROVE  From(InLine(s, n), m - Taps[s], Taps[s] - 1) = From(InLine(s, k), m - Taps[s], Taps[s] - 1)
  <2>1. Taps[s] \in Nat
    BY TapsAre
  <2>2. ASSUME NEW j \in 1 .. Taps[s] - 1
        PROVE  InLine(s, n)[m - Taps[s] + j] = InLine(s, k)[m - Taps[s] + j]
    <3>1. m - Taps[s] + j \in Int /\ m - Taps[s] + j < n /\ m - Taps[s] + j < k
      BY <2>1
    <3>2. QED
      BY <3>1 DEF InLine, In
  <2>3. QED
    BY <2>2 DEF From
<1>2. QED
  BY <1>1 DEF History

\* A direct engine without input.
LEMMA DirectStarts == ASSUME SceneTyped  PROVE DirectIs(DirectNew, 0, 0)
<1>1. ASSUME NEW s \in Sources
      PROVE  Zeros(Taps[s] - 1) = From(InLine(s, 0), 0 - Taps[s], Taps[s] - 1)
  <2>1. Taps[s] \in Nat
    BY TapsAre
  <2>2. ASSUME NEW j \in 1 .. Taps[s] - 1  PROVE InLine(s, 0)[0 - Taps[s] + j] = <<>>
    <3>1. 0 - Taps[s] + j \in Int
      BY <2>1
    <3>2. QED
      BY <3>1, NothingTaken DEF InLine
  <2>3. QED
    BY <2>2 DEF From, Zeros
<1>2. [s \in Sources |-> Zeros(Taps[s] - 1)] = History(0, 0)
  BY <1>1 DEF History
<1>3. [s \in Sources |-> 0] = [s \in Sources |-> Left(Taps[s] - 1, 0 - 0, 0)]
  BY DEF Left
<1>4. QED
  BY <1>2, <1>3 DEF DirectNew, DirectIs

\* A block through the direct engine: c samples taken and c put out.
LEMMA DirectTakes ==
  ASSUME NEW n \in Nat, NEW c \in Nat \ {0}, NEW x, Inputs(x, c, n, n + c),
         NEW e, DirectIs(e, n, n)
  PROVE  /\ Filters(DirectOutput(e, x, c), c, n, n + c)
         /\ DirectIs(DirectBlock(e, x), n + c, n + c)
<1>1. n + c \in Int /\ n <= n + c /\ n \in Int /\ c \in Nat
  OBVIOUS
<1>2. History(n, n) = History(n, n + c)
  BY <1>1, HistoryGrows
<1> DEFINE tail == [s \in Sources |-> Left(Taps[s] - 1, n - n, n)]
<1>3. e = [history |-> History(n, n + c), tail |-> tail, failed |-> FALSE]
  BY <1>2 DEF DirectIs
<1> HIDE DEF tail
<1>4. e.history = History(n, n + c)
  BY <1>3
<1>5. Filters(DirectOutput(e, x, c), c, n, n + c)
  BY <1>1, <1>4, DirectOutputIs
<1>6. [s \in Sources |-> LastOf(e.history[s] \o x[s], Taps[s] - 1)] = History(n + c, n + c)
  BY <1>1, <1>4, HistoryMoves
<1>7. [s \in Sources |-> Taps[s] - 1] = [s \in Sources |-> Left(Taps[s] - 1, (n + c) - (n + c), n + c)]
  <2>1. ASSUME NEW s \in Sources  PROVE Taps[s] - 1 = Left(Taps[s] - 1, (n + c) - (n + c), n + c)
    <3>1. Taps[s] \in Nat \ {0} /\ n + c > 0 /\ (n + c) - (n + c) = 0
      BY TapsAre
    <3>2. QED
      BY <3>1 DEF Left
  <2>2. QED
    BY <2>1
<1>8. DirectBlock(e, x) = [history |-> [s \in Sources |-> LastOf(e.history[s] \o x[s], Taps[s] - 1)],
                           tail |-> [s \in Sources |-> Taps[s] - 1], failed |-> FALSE]
  <2> DEFINE new == [s \in Sources |-> LastOf(e.history[s] \o x[s], Taps[s] - 1)]
             rest == [s \in Sources |-> Taps[s] - 1]
  <2>1. DirectBlock(e, x) = [e EXCEPT !.history = new, !.tail = rest]
    BY DEF DirectBlock
  <2> HIDE DEF new, rest
  <2>2. DirectBlock(e, x) = [history |-> new, tail |-> rest, failed |-> FALSE]
    BY <1>3, <2>1
  <2>3. QED
    BY <2>2 DEF new, rest
<1>9. QED
  BY <1>5, <1>6, <1>7, <1>8 DEF DirectIs

\* What is left of a tail after c samples of it.
LeftMoved(c, t, r, n) ==
  /\ Left(t, r, n) - Min({c, Left(t, r, n)}) = Left(t, r + c, n)
  /\ c <= Left(t, r, n) => Left(t, r, n) - c = Left(t, r + c, n)
  /\ Left(t, r, n) \in Nat

\* So much is left, whether the block is shorter than the tail or not.
LEMMA LeftMoves ==
  ASSUME NEW c \in Nat, NEW t \in Int, NEW r \in Nat, NEW n \in Nat
  PROVE  LeftMoved(c, t, r, n)
<1>1. Left(t, r, n) \in Nat
  BY DEF Left
<1>2. Min({c, Left(t, r, n)}) = IF c <= Left(t, r, n) THEN c ELSE Left(t, r, n)
  BY <1>1, MaxOfTwo
<1>3. QED
  BY <1>1, <1>2 DEF Left, LeftMoved
\* A block of the tail of the direct engine: c samples put out.
LEMMA DirectDrains ==
  ASSUME SceneTyped, NEW m \in Int, NEW n \in Nat, m >= n, NEW c \in Nat, NEW e, DirectIs(e, m, n)
  PROVE  /\ Filters(DirectTailOutput(e, c), c, m, n)
         /\ DirectIs(DirectTail(e, c), m + c, n)
<1> DEFINE tail == [s \in Sources |-> Left(Taps[s] - 1, m - n, n)]
<1>1. e = [history |-> History(m, n), tail |-> tail, failed |-> FALSE]
  BY DEF DirectIs
<1>2. e.history = History(m, n) /\ e.tail = tail
  BY <1>1
<1>3. Filters(DirectTailOutput(e, c), c, m, n)
  BY <1>2, DirectTailIs
<1> DEFINE x == [s \in Sources |-> Zeros(c)]
<1>4. Inputs(x, c, m, n)
  BY ZerosAre DEF Inputs
<1>5. [s \in Sources |-> LastOf(e.history[s] \o Zeros(c), Taps[s] - 1)] = History(m + c, n)
  <2>1. [s \in Sources |-> LastOf(e.history[s] \o x[s], Taps[s] - 1)] = History(m + c, n)
    <3> HIDE DEF x
    <3>1. n \in Int
      OBVIOUS
    <3>2. QED
      BY <1>2, <1>4, <3>1, HistoryMoves
  <2>2. QED
    BY <2>1
<1>6. ASSUME NEW s \in Sources
      PROVE  e.tail[s] - Min({c, e.tail[s]}) = Left(Taps[s] - 1, (m + c) - n, n)
  <2>1. Taps[s] - 1 \in Int /\ m - n \in Nat /\ (m - n) + c = (m + c) - n
    BY TapsAre
  <2>2. e.tail[s] = Left(Taps[s] - 1, m - n, n)
    BY <1>2
  <2> DEFINE t == Taps[s] - 1
             r == m - n
  <2> HIDE DEF t, r
  <2>4. t \in Int /\ r \in Nat
    BY <2>1 DEF t, r
  <2>5. Left(t, r, n) - Min({c, Left(t, r, n)}) = Left(t, r + c, n)
    <3>1. LeftMoved(c, t, r, n)
      BY <2>4, LeftMoves
    <3>2. QED
      BY <3>1 DEF LeftMoved
  <2>3. QED
    BY <2>1, <2>2, <2>5 DEF t, r
<1>7. DirectTail(e, c) = [history |-> [s \in Sources |-> LastOf(e.history[s] \o Zeros(c), Taps[s] - 1)],
                          tail |-> [s \in Sources |-> e.tail[s] - Min({c, e.tail[s]})], failed |-> FALSE]
  <2> DEFINE new == [s \in Sources |-> LastOf(e.history[s] \o Zeros(c), Taps[s] - 1)]
             rest == [s \in Sources |-> e.tail[s] - Min({c, e.tail[s]})]
  <2>1. DirectTail(e, c) = [e EXCEPT !.history = new, !.tail = rest]
    BY DEF DirectTail
  <2> HIDE DEF new, rest, tail
  <2>2. DirectTail(e, c) = [history |-> new, tail |-> rest, failed |-> FALSE]
    BY <1>1, <2>1
  <2>3. QED
    BY <2>2 DEF new, rest
<1>8. [s \in Sources |-> e.tail[s] - Min({c, e.tail[s]})]
        = [s \in Sources |-> Left(Taps[s] - 1, (m + c) - n, n)]
  BY <1>6
<1>9. QED
  BY <1>3, <1>5, <1>7, <1>8 DEF DirectIs

-----------------------------------------------------------------------------
(* The partitioned engine *)

\* The terms of sample n + k that come from sample a of a block of c samples after n;
\* those with a tap of the partition that begins at tap b.
TapTerms(s, k, n, c, a) ==
  IF k - a \in 0 .. Taps[s] - 1 THEN Weighted(s, n + a - 1, k - a, n + c) ELSE {}

BlockTerms(s, k, n, c) == UNION {TapTerms(s, k, n, c, a) : a \in 1 .. c}

PartTap(s, b, k, n, c, a) ==
  IF k - a - b \in 0 .. Partition - 1 THEN TapTerms(s, k, n, c, a) ELSE {}

PartTerms(s, b, k, n, c) == UNION {PartTap(s, b, k, n, c, a) : a \in 1 .. c}

\* Every number is a quotient times the divisor plus a remainder.
LEMMA DivisionOf ==
  ASSUME NEW v \in Nat, NEW u \in Nat \ {0}
  PROVE  \E d \in Nat, r \in 0 .. u - 1 : v = d * u + r
<1> DEFINE d == v \div u
           r == v % u
<1>1. d = v \div u /\ r = v % u
  OBVIOUS
<1> HIDE DEF d, r
<1>2. d \in Nat /\ r \in 0 .. u - 1
  BY <1>1
<1>3. v = d * u + r
  BY <1>1
<1>4. QED
  BY <1>2, <1>3

\* A partition has a sample.
LEMMA PartitionIs == Partition \in Nat \ {0}
BY FilterAssumption

\* The cyclic convolution of FftSize samples wraps exactly the samples before a.
LEMMA Cyclic ==
  ASSUME NEW i \in 1 .. FftSize, NEW a \in 1 .. Partition
  PROVE  (i - a) % FftSize = IF i >= a THEN i - a ELSE i - a + FftSize
<1>1. FftSize \in Nat \ {0} /\ FftSize = 2 * Partition /\ Partition \in Nat
  BY PartitionIs DEF FftSize
<1>2. CASE i >= a
  <2> DEFINE r == i - a
  <2>1. r \in 0 .. FftSize - 1 /\ 0 * FftSize + r = r
    BY <1>1, <1>2
  <2> HIDE DEF r
  <2>2. (0 * FftSize + r) % FftSize = r
    <3>1. 0 \in Int
      OBVIOUS
    <3>2. QED
      BY <1>1, <2>1, <3>1, Divided
  <2>3. QED
    BY <1>2, <2>1, <2>2 DEF r
<1>3. CASE i < a
  <2> DEFINE r == i - a + FftSize
  <2>1. r \in 0 .. FftSize - 1 /\ (-1) * FftSize + r = i - a
    BY <1>1, <1>3
  <2> HIDE DEF r
  <2>2. ((-1) * FftSize + r) % FftSize = r
    <3>1. -1 \in Int
      OBVIOUS
    <3>2. QED
      BY <1>1, <2>1, <3>1, Divided
  <2>3. QED
    BY <1>3, <2>1, <2>2 DEF r
<1>4. QED
  BY <1>1, <1>2, <1>3

\* A tap lies in one partition.
LEMMA OnePartition ==
  ASSUME NEW v \in Int, NEW p \in Int, NEW q \in Int,
         v - (p - 1) * Partition \in 0 .. Partition - 1,
         v - (q - 1) * Partition \in 0 .. Partition - 1
  PROVE  p = q
<1>1. ASSUME NEW o \in Int, v - (o - 1) * Partition \in 0 .. Partition - 1  PROVE v \div Partition = o - 1
  <2> DEFINE d == o - 1
             b == d * Partition
             r == v - b
  <2>1. d \in Int /\ b \in Int /\ r \in 0 .. Partition - 1 /\ b + r = v
    BY <1>1, PartitionIs
  <2>2. (d * Partition + r) \div Partition = d
    <3> HIDE DEF d, r
    <3>1. QED
      BY <2>1, PartitionIs, Divided
  <2>3. QED
    BY <2>1, <2>2
<1>2. v \div Partition = p - 1 /\ v \div Partition = q - 1
  BY <1>1
<1>3. QED
  BY <1>2

\* Every tap lies in a partition of its source.
LEMMA SomePartition ==
  ASSUME NEW s \in Sources, NEW v \in 0 .. Taps[s] - 1
  PROVE  \E p \in 1 .. PartitionsOf(s) : v - (p - 1) * Partition \in 0 .. Partition - 1
<1>1. Taps[s] \in Nat \ {0} /\ Partition \in Nat \ {0}
  BY TapsAre, PartitionIs
<1> DEFINE w == Taps[s] - 1
<1>2. w \in Nat /\ v \in Nat /\ v <= w /\ w = Taps[s] - 1
  BY <1>1
<1> HIDE DEF w
<1>3. PICK d \in Nat, r \in 0 .. Partition - 1 : w = d * Partition + r
  BY <1>1, <1>2, DivisionOf
<1>4. PICK e \in Nat, f \in 0 .. Partition - 1 : v = e * Partition + f
  BY <1>1, <1>2, DivisionOf
<1> DEFINE b == d * Partition
           g == e * Partition
<1>5. b \in Nat /\ g \in Nat /\ w = b + r /\ v = g + f
  BY <1>1, <1>3, <1>4
<1>6. PartitionsOf(s) = d + 1
  <2>1. (d + 1) * Partition + r = Taps[s] + Partition - 1
    <3>1. (d + 1) * Partition = b + Partition
      BY <1>1, <1>3
    <3>2. b \in Nat /\ w = b + r
      BY <1>5
    <3> DEFINE k == (d + 1) * Partition
    <3>3. k = b + Partition
      BY <3>1
    <3> HIDE DEF b, k
    <3>6. b \in Int /\ r \in Int /\ Partition \in Int /\ Taps[s] \in Int
      BY <1>1, <3>2
    <3>7. Taps[s] = b + r + 1
      BY <1>2, <3>2, <3>6
    <3>4. k + r = Taps[s] + Partition - 1
      BY <3>3, <3>6, <3>7
    <3>5. QED
      BY <3>4 DEF k
  <2>2. ((d + 1) * Partition + r) \div Partition = d + 1
    <3>1. d + 1 \in Int
      BY <1>3
    <3>2. QED
      BY <1>1, <1>3, <3>1, Divided
  <2>3. QED
    BY <2>1, <2>2 DEF PartitionsOf
<1>7. e <= d
  <2> SUFFICES ASSUME e >= d + 1  PROVE FALSE
    BY <1>3, <1>4
  <2>1. g >= (d + 1) * Partition
    BY <1>1, <1>3, <1>4, Z3
  <2>2. (d + 1) * Partition = b + Partition
    BY <1>1, <1>3
  <2> HIDE DEF b, g
  <2>3. QED
    BY <1>1, <1>2, <1>3, <1>4, <1>5, <2>1, <2>2
<1>8. e + 1 \in 1 .. PartitionsOf(s) /\ (e + 1) - 1 = e
  BY <1>3, <1>4, <1>6, <1>7
<1>9. v - e * Partition \in 0 .. Partition - 1
  <2> HIDE DEF g
  <2>2. v - g = f
    BY <1>5
  <2>3. QED
    BY <1>4, <2>2 DEF g
<1>10. QED
  BY <1>8, <1>9

\* A sample of the block and a partition that begins at tap b: if the product of the
\* spectra does not wrap around, it is the term of the tap that they meet at.
LEMMA ProductTap ==
  ASSUME NEW s \in Sources, NEW b \in Nat, NEW k \in Int, NEW n \in Nat,
         NEW c \in 1 .. Partition, NEW a \in 1 .. c, k - b \in 1 .. FftSize,
         NEW y, y = In(s, n + a - 1, n + c)
  PROVE  Lists(LET d == (k - b - a) % FftSize
                   t == b + d
               IN IF d < Partition /\ t < Taps[s] THEN Times(y, t) ELSE <<>>,
               PartTap(s, b, k, n, c, a))
<1> DEFINE i == k - b
           d == (i - a) % FftSize
           t == b + d
<1>1. Partition \in Nat /\ Taps[s] \in Nat /\ FftSize = 2 * Partition /\ a \in 1 .. Partition /\ c \in Int
  BY PartitionIs, TapsAre DEF FftSize
<1>2. d = IF i >= a THEN i - a ELSE i - a + FftSize
  BY <1>1, Cyclic
<1>3. i \in Int /\ k = i + b
  OBVIOUS
<1> DEFINE good == d < Partition /\ t < Taps[s]
<1> HIDE DEF i, d
<1>4. i \in 1 .. FftSize
  BY DEF i
<1>5. good <=> (k - a - b \in 0 .. Partition - 1 /\ k - a \in 0 .. Taps[s] - 1)
  BY <1>1, <1>2, <1>3, <1>4
<1>6. good => t = k - a
  BY <1>1, <1>2, <1>3, <1>4
<1>7. CASE good
  <2>1. PartTap(s, b, k, n, c, a) = Weighted(s, n + a - 1, k - a, n + c)
    BY <1>5, <1>7 DEF PartTap, TapTerms
  <2>2. Lists(Times(y, k - a), Weighted(s, n + a - 1, k - a, n + c))
    BY TimesIs
  <2>3. Lists(IF good THEN Times(y, t) ELSE <<>>, PartTap(s, b, k, n, c, a))
    BY <1>6, <1>7, <2>1, <2>2
  <2>4. QED
    BY <2>3 DEF d, i
<1>8. CASE ~good
  <2>1. PartTap(s, b, k, n, c, a) = {}
    BY <1>5, <1>8 DEF PartTap, TapTerms
  <2>3. Lists(IF good THEN Times(y, t) ELSE <<>>, PartTap(s, b, k, n, c, a))
    BY <1>8, <2>1, ListsNone
  <2>4. QED
    BY <2>3 DEF d, i
<1>9. QED
  BY <1>7, <1>8

\* Inputs of a block have no term in common.
LEMMA TapsApart ==
  ASSUME NEW s, NEW k \in Int, NEW n \in Nat, NEW c, NEW a \in Int, NEW d \in Int, a # d
  PROVE  TapTerms(s, k, n, c, a) \cap TapTerms(s, k, n, c, d) = {}
<1>1. k - a # k - d
  OBVIOUS
<1>2. Weighted(s, n + a - 1, k - a, n + c) \cap Weighted(s, n + d - 1, k - d, n + c) = {}
  BY <1>1, WeightedApart
<1>3. QED
  BY <1>2 DEF TapTerms

\* A product of spectra: the block with the taps of one partition.
LEMMA ProductIs ==
  ASSUME NEW s \in Sources, NEW p \in Nat \ {0}, NEW k \in Int, NEW n \in Nat,
         NEW c \in 1 .. Partition, NEW x, x = From(InLine(s, n + c), n - 1, c)
  PROVE  LET i == k - (p - 1) * Partition IN
         Lists(IF i \in 1 .. FftSize THEN Product(x, s, p, i) ELSE <<>>,
               PartTerms(s, (p - 1) * Partition, k, n, c))
<1> DEFINE b == (p - 1) * Partition
           i == k - b
           part(a) == LET d == (i - a) % FftSize
                          t == b + d
                      IN IF d < Partition /\ t < Taps[s] THEN Times(x[a], t) ELSE <<>>
           parts == [a \in 1 .. c |-> part(a)]
           terms == [a \in 1 .. c |-> PartTap(s, b, k, n, c, a)]
<1>1. Partition \in Nat \ {0} /\ c \in Nat
  BY PartitionIs
<1>2. b \in Nat
  <2>1. p - 1 \in Nat /\ Partition \in Nat
    BY <1>1
  <2>2. QED
    BY <2>1
<1>3. Len(x) = c
  BY <1>1 DEF From
<1>4. Product(x, s, p, i) = FlattenSeq(parts)
  BY <1>3 DEF Product, SumOver
<1> HIDE DEF b
<1>5. CASE i \in 1 .. FftSize
  <2>1. ASSUME NEW a \in 1 .. c  PROVE Lists(parts[a], terms[a])
    <3>1. x[a] = In(s, n + a - 1, n + c)
      <4>1. n - 1 + a = n + a - 1 /\ n + a - 1 \in Int
        BY <1>1
      <4>2. QED
        BY <4>1 DEF From, InLine
    <3>2. Lists(part(a), PartTap(s, b, k, n, c, a))
      BY <1>2, <1>5, <3>1, ProductTap
    <3>3. QED
      BY <3>2
  <2>2. ASSUME NEW a \in 1 .. c, NEW d \in 1 .. c, a # d  PROVE terms[a] \cap terms[d] = {}
    <3>1. TapTerms(s, k, n, c, a) \cap TapTerms(s, k, n, c, d) = {}
      BY <1>1, <2>2, TapsApart
    <3>2. QED
      BY <3>1 DEF PartTap
  <2>3. Len(parts) = c /\ (c = 0 => parts = <<>>)
    BY <1>1
  <2>4. {terms[a] : a \in 1 .. c} = {PartTap(s, b, k, n, c, a) : a \in 1 .. c}
    OBVIOUS
  <2> HIDE DEF parts, terms
  <2>7. /\ \A a \in 1 .. c : Lists(parts[a], terms[a])
        /\ \A a, d \in 1 .. c : a # d => terms[a] \cap terms[d] = {}
    BY <2>1, <2>2
  <2>5. Lists(FlattenSeq(parts), UNION {terms[a] : a \in 1 .. c})
    BY <1>1, <2>3, <2>7, ListsSum
  <2>6. Lists(Product(x, s, p, i), PartTerms(s, b, k, n, c))
    BY <1>4, <2>4, <2>5 DEF PartTerms
  <2>8. QED
    BY <1>5, <2>6 DEF b
<1>6. CASE i \notin 1 .. FftSize
  <2>1. ASSUME NEW a \in 1 .. c  PROVE PartTap(s, b, k, n, c, a) = {}
    <3>1. ~(k - a - b \in 0 .. Partition - 1)
      BY <1>1, <1>2, <1>6 DEF FftSize
    <3>2. QED
      BY <3>1 DEF PartTap
  <2>2. PartTerms(s, b, k, n, c) = {}
    BY <2>1 DEF PartTerms
  <2>3. QED
    BY <1>6, <2>2, ListsNone DEF b
<1>7. QED
  BY <1>5, <1>6

\* What the block x of source s adds to sample k of the queue.
ProductSum(x, s, k) ==
  SumOver(PartitionsOf(s), LAMBDA p :
    LET i == k - (p - 1) * Partition IN
    IF i \in 1 .. FftSize THEN Product(x, s, p, i) ELSE <<>>)

\* All partitions of a source: the block with every tap of it.
LEMMA SourceBlock ==
  ASSUME NEW s \in Sources, NEW k \in Int, NEW n \in Nat,
         NEW c \in 1 .. Partition, NEW x, x = From(InLine(s, n + c), n - 1, c)
  PROVE  Lists(ProductSum(x, s, k), BlockTerms(s, k, n, c))
<1> DEFINE m == PartitionsOf(s)
           part(p) == LET i == k - (p - 1) * Partition IN
                      IF i \in 1 .. FftSize THEN Product(x, s, p, i) ELSE <<>>
           parts == [p \in 1 .. m |-> part(p)]
           terms == [p \in 1 .. m |-> PartTerms(s, (p - 1) * Partition, k, n, c)]
<1>1. Taps[s] \in Nat \ {0} /\ Partition \in Nat \ {0}
  BY TapsAre, PartitionIs
<1>2. m \in Nat
  <2>1. Taps[s] + Partition - 1 \in Nat
    BY <1>1
  <2>2. QED
    BY <1>1, <2>1 DEF PartitionsOf
<1>3. SumOver(m, LAMBDA p : part(p)) = FlattenSeq(parts)
  BY DEF SumOver
<1>4. ASSUME NEW p \in 1 .. m  PROVE Lists(parts[p], terms[p])
  <2>1. p \in Nat \ {0}
    BY <1>2
  <2>2. Lists(part(p), PartTerms(s, (p - 1) * Partition, k, n, c))
    <3> HIDE DEF m
    <3>1. QED
      BY <2>1, ProductIs
  <2> HIDE DEF part
  <2>3. QED
    BY <2>2
<1>5. ASSUME NEW p \in 1 .. m, NEW q \in 1 .. m, p # q  PROVE terms[p] \cap terms[q] = {}
  <2> SUFFICES ASSUME NEW z \in PartTerms(s, (p - 1) * Partition, k, n, c),
                      z \in PartTerms(s, (q - 1) * Partition, k, n, c)
               PROVE  FALSE
    OBVIOUS
  <2>1. PICK a \in 1 .. c : z \in PartTap(s, (p - 1) * Partition, k, n, c, a)
    BY DEF PartTerms
  <2>2. PICK d \in 1 .. c : z \in PartTap(s, (q - 1) * Partition, k, n, c, d)
    BY DEF PartTerms
  <2>3. k - a - (p - 1) * Partition \in 0 .. Partition - 1 /\ z \in TapTerms(s, k, n, c, a)
    BY <2>1 DEF PartTap
  <2>4. k - d - (q - 1) * Partition \in 0 .. Partition - 1 /\ z \in TapTerms(s, k, n, c, d)
    BY <2>2 DEF PartTap
  <2>5. a \in Int /\ d \in Int /\ p \in Int /\ q \in Int /\ k - a \in Int /\ k - d \in Int
    BY <1>1, <1>2
  <2>6. a = d
    BY <2>3, <2>4, <2>5, TapsApart
  <2>7. p = q
    BY <2>3, <2>4, <2>5, <2>6, OnePartition
  <2>8. QED
    BY <1>5, <2>7
<1>6. UNION {terms[p] : p \in 1 .. m} = BlockTerms(s, k, n, c)
  <2>1. ASSUME NEW p \in 1 .. m  PROVE terms[p] \subseteq BlockTerms(s, k, n, c)
    <3>1. \A a \in 1 .. c : PartTap(s, (p - 1) * Partition, k, n, c, a) \subseteq TapTerms(s, k, n, c, a)
      BY DEF PartTap
    <3>2. QED
      BY <3>1 DEF PartTerms, BlockTerms
  <2>2. ASSUME NEW a \in 1 .. c, NEW z \in TapTerms(s, k, n, c, a)
        PROVE  \E p \in 1 .. m : z \in terms[p]
    <3>1. k - a \in 0 .. Taps[s] - 1
      BY DEF TapTerms
    <3>2. PICK p \in 1 .. m : k - a - (p - 1) * Partition \in 0 .. Partition - 1
      BY <3>1, SomePartition
    <3>3. z \in PartTap(s, (p - 1) * Partition, k, n, c, a)
      BY <3>2 DEF PartTap
    <3>4. z \in PartTerms(s, (p - 1) * Partition, k, n, c)
      BY <3>3 DEF PartTerms
    <3>5. QED
      BY <3>4
  <2> HIDE DEF terms, m
  <2>3. QED
    BY <2>1, <2>2 DEF BlockTerms
<1> HIDE DEF parts, terms
<1>7. /\ \A p \in 1 .. m : Lists(parts[p], terms[p])
      /\ \A p, q \in 1 .. m : p # q => terms[p] \cap terms[q] = {}
  BY <1>4, <1>5
<1>8. Len(parts) = m /\ (m = 0 => parts = <<>>)
  <2> HIDE DEF m, part
  <2>1. QED
    BY <1>2 DEF parts
<1> HIDE DEF m
<1>9. Lists(FlattenSeq(parts), UNION {terms[p] : p \in 1 .. m})
  BY <1>2, <1>7, <1>8, ListsSum
<1>10. Lists(SumOver(m, LAMBDA p : part(p)), BlockTerms(s, k, n, c))
  <2> HIDE DEF part
  <2>1. QED
    BY <1>3, <1>6, <1>9
<1>11. QED
  BY <1>10, Zenon DEF m, ProductSum

\* A block adds its terms to those of the samples before it.
LEMMA BlockAdds ==
  ASSUME NEW s \in Sources, NEW k \in Int, NEW n \in Nat, NEW c \in Nat
  PROVE  /\ SourceTerms(s, n + k, n + c) = SourceTerms(s, n + k, n) \cup BlockTerms(s, k, n, c)
         /\ SourceTerms(s, n + k, n) \cap BlockTerms(s, k, n, c) = {}
<1>1. Taps[s] \in Nat \ {0}
  BY TapsAre
<1>2. ASSUME NEW t \in 1 .. Taps[s]
      PROVE  /\ n + k - t \in Int
             /\ n + k - t < n => Weighted(s, n + k - t, t - 1, n + c) = Weighted(s, n + k - t, t - 1, n)
             /\ ~(n + k - t < n) => Weighted(s, n + k - t, t - 1, n) = {}
             /\ ~(n + k - t < n + c) => Weighted(s, n + k - t, t - 1, n + c) = {}
             /\ n + k - t < n => n + k - t < n + c
  BY <1>1 DEF Weighted
<1>3. ASSUME NEW z \in SourceTerms(s, n + k, n + c), z \notin SourceTerms(s, n + k, n)
      PROVE  z \in BlockTerms(s, k, n, c)
  <2>1. PICK t \in 1 .. Taps[s] : z \in Weighted(s, n + k - t, t - 1, n + c)
    BY <1>3 DEF SourceTerms
  <2>2. z \notin Weighted(s, n + k - t, t - 1, n)
    BY <1>3 DEF SourceTerms
  <2>3. ~(n + k - t < n) /\ n + k - t < n + c
    BY <1>2, <2>1, <2>2
  <2> DEFINE a == k - t + 1
  <2>4. a \in 1 .. c /\ k - a \in 0 .. Taps[s] - 1 /\ k - a = t - 1 /\ n + a - 1 = n + k - t
    BY <1>1, <2>3
  <2> HIDE DEF a
  <2>5. z \in TapTerms(s, k, n, c, a)
    BY <2>1, <2>4 DEF TapTerms
  <2>6. QED
    BY <2>4, <2>5 DEF BlockTerms
<1>4. SourceTerms(s, n + k, n) \subseteq SourceTerms(s, n + k, n + c)
  <2>1. ASSUME NEW t \in 1 .. Taps[s]
        PROVE  Weighted(s, n + k - t, t - 1, n) \subseteq Weighted(s, n + k - t, t - 1, n + c)
    BY <1>2
  <2>2. QED
    BY <2>1 DEF SourceTerms
<1>5. ASSUME NEW z \in BlockTerms(s, k, n, c)
      PROVE  z \in SourceTerms(s, n + k, n + c) /\ z \notin SourceTerms(s, n + k, n)
  <2>1. PICK a \in 1 .. c : z \in TapTerms(s, k, n, c, a)
    BY DEF BlockTerms
  <2>2. k - a \in 0 .. Taps[s] - 1 /\ z \in Weighted(s, n + a - 1, k - a, n + c)
    BY <2>1 DEF TapTerms
  <2> DEFINE t == k - a + 1
  <2>3. t \in 1 .. Taps[s] /\ t - 1 = k - a /\ n + k - t = n + a - 1 /\ ~(n + k - t < n)
    BY <1>1, <2>2
  <2> HIDE DEF t
  <2>4. z \in Weighted(s, n + k - t, t - 1, n + c)
    BY <2>2, <2>3
  <2>5. z \in SourceTerms(s, n + k, n + c)
    BY <2>3, <2>4 DEF SourceTerms
  <2>6. ASSUME NEW u \in 1 .. Taps[s]  PROVE z \notin Weighted(s, n + k - u, u - 1, n)
    <3>1. CASE u = t
      BY <1>2, <2>3, <3>1
    <3>2. CASE u # t
      <4>1. u - 1 # t - 1
        BY <1>1, <2>3, <3>2
      <4>2. Weighted(s, n + k - t, t - 1, n + c) \cap Weighted(s, n + k - u, u - 1, n) = {}
        BY <4>1, WeightedApart
      <4>3. QED
        BY <2>4, <4>2
    <3>3. QED
      BY <3>1, <3>2
  <2>7. QED
    BY <2>5, <2>6 DEF SourceTerms
<1>6. QED
  BY <1>3, <1>4, <1>5

\* The same over all sources: what a block adds to a sample is new to it.
LEMMA BlocksAdd ==
  ASSUME NEW k \in Int, NEW n \in Nat, NEW c \in Nat
  PROVE  LET new == UNION {BlockTerms(s, k, n, c) : s \in Sources} IN
         /\ FilterTerms(n + k, n + c) = FilterTerms(n + k, n) \cup new
         /\ FilterTerms(n + k, n) \cap new = {}
<1>1. \A s \in Sources :
        /\ SourceTerms(s, n + k, n + c) = SourceTerms(s, n + k, n) \cup BlockTerms(s, k, n, c)
        /\ SourceTerms(s, n + k, n) \cap BlockTerms(s, k, n, c) = {}
  BY BlockAdds
<1>2. FilterTerms(n + k, n + c) = FilterTerms(n + k, n) \cup UNION {BlockTerms(s, k, n, c) : s \in Sources}
  BY <1>1 DEF FilterTerms
<1>3. ASSUME NEW s \in Sources, NEW r \in Sources,
             NEW z \in SourceTerms(s, n + k, n), z \in BlockTerms(r, k, n, c)
      PROVE  FALSE
  <2>1. z[1] = s
    BY DEF SourceTerms, Weighted
  <2>2. z[1] = r
    BY <1>3 DEF BlockTerms, TapTerms, Weighted
  <2>3. QED
    BY <1>1, <1>3, <2>1, <2>2
<1>4. FilterTerms(n + k, n) \cap UNION {BlockTerms(s, k, n, c) : s \in Sources} = {}
  BY <1>3 DEF FilterTerms
<1>5. QED
  BY <1>2, <1>4

\* The queue holds a block and the longest filter after it.
LEMMA QueueLengthIs == QueueLength \in Nat /\ QueueLength >= MaxTaps + Partition
<1>1. Partition \in Nat \ {0} /\ MaxTaps \in Nat \ {0}
  BY PartitionIs, MaxTapsIs
<1>2. PICK d \in Nat, r \in 0 .. Partition - 1 : MaxTaps + Partition - 1 = d * Partition + r
  <2>1. MaxTaps + Partition - 1 \in Nat
    BY <1>1
  <2>2. QED
    BY <1>1, <2>1, DivisionOf
<1>3. (MaxTaps + Partition - 1) \div Partition = d
  <2>1. d \in Int
    OBVIOUS
  <2>2. (d * Partition + r) \div Partition = d
    BY <1>1, <2>1, Divided
  <2>3. QED
    BY <1>2, <2>2
<1> DEFINE b == d * Partition
<1>4. b \in Nat /\ (d + 1) * Partition = b + Partition
  BY <1>1
<1>5. QueueLength = b + Partition
  BY <1>3, <1>4 DEF QueueLength
<1>6. MaxTaps + Partition - 1 = b + r
  BY <1>2
<1> HIDE DEF b
<1>7. MaxTaps <= b
  <2>1. b \in Int /\ r \in Int /\ Partition \in Int /\ MaxTaps \in Int /\ r <= Partition - 1
    BY <1>1, <1>4
  <2>2. QED
    BY <1>6, <2>1
<1>8. QED
  BY <1>1, <1>4, <1>5, <1>7

\* All products, added to the queue: the queue when the block was taken.
LEMMA CandidateIs ==
  ASSUME NEW n \in Nat, NEW c \in 1 .. Partition, NEW x, Inputs(x, c, n, n + c),
         NEW e, Filters(e.pending, QueueLength, n, n)
  PROVE  Filters(Candidate(e, x), QueueLength, n, n + c)
<1> DEFINE y == Candidate(e, x)
           block(k, s) == ProductSum(x[s], s, k)
           sum(k) == e.pending[k] \o SumOver(Len(Taps), LAMBDA s : block(k, s))
<1>1. y = [k \in 1 .. QueueLength |-> sum(k)]
  BY Zenon DEF Candidate, ProductSum
<1>2. HasLength(y, QueueLength)
  <2> HIDE DEF y, sum
  <2>1. y = [k \in 1 .. QueueLength |-> y[k]]
    BY <1>1
  <2>2. QED
    BY <2>1 DEF HasLength
<1>3. ASSUME NEW k \in 1 .. QueueLength  PROVE Lists(y[k], FilterTerms(n + k, n + c))
  <2> DEFINE parts == [s \in 1 .. Len(Taps) |-> block(k, s)]
             terms == [s \in 1 .. Len(Taps) |-> BlockTerms(s, k, n, c)]
  <2>1. k \in Int /\ c \in Nat /\ Len(Taps) \in Nat /\ Len(Taps) # 0
    BY QueueLengthIs, PartitionIs, TapsAre
  <2>2. ASSUME NEW s \in 1 .. Len(Taps)  PROVE Lists(parts[s], terms[s])
    <3>1. s \in Sources
      BY DEF Sources
    <3>2. x[s] = From(InLine(s, n + c), n - 1, c)
      BY <3>1 DEF Inputs
    <3>3. Lists(block(k, s), BlockTerms(s, k, n, c))
      BY <2>1, <3>1, <3>2, SourceBlock
    <3> HIDE DEF block
    <3>4. QED
      BY <3>3
  <2>3. ASSUME NEW s \in 1 .. Len(Taps), NEW r \in 1 .. Len(Taps), s # r
        PROVE  terms[s] \cap terms[r] = {}
    <3>1. \A z \in BlockTerms(s, k, n, c) : z[1] = s
      BY DEF BlockTerms, TapTerms, Weighted
    <3>2. \A z \in BlockTerms(r, k, n, c) : z[1] = r
      BY DEF BlockTerms, TapTerms, Weighted
    <3>3. QED
      BY <2>3, <3>1, <3>2
  <2>4. SumOver(Len(Taps), LAMBDA s : block(k, s)) = FlattenSeq(parts)
    BY DEF SumOver
  <2>5. Len(parts) = Len(Taps) /\ (Len(Taps) = 0 => parts = <<>>)
    <3> HIDE DEF block
    <3>1. QED
      BY <2>1
  <2>6. UNION {terms[s] : s \in 1 .. Len(Taps)} = UNION {BlockTerms(s, k, n, c) : s \in Sources}
    BY DEF Sources
  <2>7. y[k] = sum(k)
    <3> HIDE DEF y, sum
    <3>1. QED
      BY <1>1
  <2> HIDE DEF y, block, parts, terms
  <2>8. /\ \A s \in 1 .. Len(Taps) : Lists(parts[s], terms[s])
        /\ \A s, r \in 1 .. Len(Taps) : s # r => terms[s] \cap terms[r] = {}
    BY <2>2, <2>3
  <2>9. Lists(FlattenSeq(parts), UNION {terms[s] : s \in 1 .. Len(Taps)})
    <3> DEFINE l == Len(Taps)
    <3>1. l \in Nat /\ Len(parts) = l /\ (l = 0 => parts = <<>>)
      BY <2>1, <2>5
    <3>2. /\ \A s \in 1 .. l : Lists(parts[s], terms[s])
          /\ \A s, r \in 1 .. l : s # r => terms[s] \cap terms[r] = {}
      BY <2>8
    <3> HIDE DEF l
    <3>3. Lists(FlattenSeq(parts), UNION {terms[s] : s \in 1 .. l})
      BY <3>1, <3>2, ListsSum, SMTT(30)
    <3>4. QED
      BY <3>3 DEF l
  <2> DEFINE new == UNION {BlockTerms(s, k, n, c) : s \in Sources}
  <2>10. Lists(SumOver(Len(Taps), LAMBDA s : block(k, s)), new)
    BY <2>4, <2>6, <2>9
  <2>11. Lists(e.pending[k], FilterTerms(n + k, n))
    BY DEF Filters
  <2>12. FilterTerms(n + k, n + c) = FilterTerms(n + k, n) \cup new
         /\ FilterTerms(n + k, n) \cap new = {}
    BY <2>1, BlocksAdd
  <2> HIDE DEF new
  <2>13. Lists(sum(k), FilterTerms(n + k, n) \cup new)
    BY <2>10, <2>11, <2>12, ListsBoth
  <2>14. QED
    BY <2>7, <2>12, <2>13
<1>4. QED
  BY <1>2, <1>3 DEF Filters

\* The engine when m samples were put out and n taken in: its queue begins at samples
\* before the next one.
Begun(hasInput, n) == (n > 0 => hasInput = TRUE) /\ (n = 0 => hasInput = FALSE)

PartitionedIs(e, at, left, m, n) ==
  \E pending, hasInput :
    /\ Filters(pending, QueueLength, m - at, n)
    /\ Begun(hasInput, n)
    /\ e = [pending |-> pending, hasInput |-> hasInput, at |-> at, left |-> left, failed |-> FALSE]

\* A part of the queue is a part of the output.
LEMMA QueuePart ==
  ASSUME NEW p, NEW q \in Nat, NEW m \in Int, NEW n, Filters(p, q, m, n),
         NEW a \in Nat, NEW c \in Nat, a + c <= q
  PROVE  Filters(SubSeq(p, a + 1, a + c), c, m + a, n)
<1> DEFINE y == SubSeq(p, a + 1, a + c)
<1>1. y = [i \in 1 .. c |-> p[a + i]]
  BY PartIs
<1> HIDE DEF y
<1>2. HasLength(y, c)
  <2>1. y = [i \in 1 .. c |-> y[i]]
    BY <1>1
  <2>2. QED
    BY <2>1 DEF HasLength
<1>3. ASSUME NEW i \in 1 .. c  PROVE Lists(y[i], FilterTerms((m + a) + i, n))
  <2>1. a + i \in 1 .. q /\ m + (a + i) = (m + a) + i
    OBVIOUS
  <2>2. Lists(p[a + i], FilterTerms(m + (a + i), n))
    BY <2>1 DEF Filters
  <2>3. y[i] = p[a + i]
    BY <1>1
  <2>4. QED
    BY <2>1, <2>2, <2>3
<1>4. Filters(y, c, m + a, n)
  BY <1>2, <1>3 DEF Filters
<1>5. QED
  BY <1>4 DEF y

\* Behind the queue the output has no term yet.
LEMMA QueueMoves ==
  ASSUME NEW p, NEW n \in Nat, Filters(p, QueueLength, n, n + Partition)
  PROVE  Filters(SubSeq(p, Partition + 1, QueueLength) \o Zeros(Partition), QueueLength,
                 n + Partition, n + Partition)
<1> DEFINE q == QueueLength - Partition
           x == SubSeq(p, Partition + 1, QueueLength)
           z == Zeros(Partition)
           y == x \o z
           m == n + Partition
<1>1. Partition \in Nat /\ MaxTaps \in Nat /\ QueueLength \in Nat /\ q \in Nat /\ q >= MaxTaps
      /\ q + Partition = QueueLength /\ Partition + q = QueueLength /\ m \in Nat /\ n \in Int
  BY PartitionIs, MaxTapsIs, QueueLengthIs
<1>2. Filters(x, q, m, m)
  <2> HIDE DEF q
  <2>1. Partition + q <= QueueLength
    BY <1>1
  <2>2. Filters(SubSeq(p, Partition + 1, Partition + q), q, n + Partition, n + Partition)
    BY <1>1, <2>1, QueuePart
  <2>3. QED
    BY <1>1, <2>2
<1>3. HasLength(z, Partition) /\ \A i \in 1 .. Partition : z[i] = <<>>
  BY DEF HasLength, Zeros
<1>4. HasLength(x, q) /\ \A i \in 1 .. q : Lists(x[i], FilterTerms(m + i, m))
  BY <1>2 DEF Filters
<1> HIDE DEF q, x, z
<1>5. Joined(y, x, z, q, Partition)
  BY <1>1, <1>3, <1>4, BothAre
<1> HIDE DEF y, m
<1>6. /\ HasLength(y, QueueLength)
      /\ \A i \in 1 .. q : y[i] = x[i]
      /\ \A i \in 1 .. Partition : y[q + i] = z[i]
  BY <1>1, <1>5 DEF Joined
<1>7. ASSUME NEW i \in 1 .. QueueLength  PROVE Lists(y[i], FilterTerms(m + i, m))
  <2>1. CASE i <= q
    <3>1. i \in 1 .. q
      BY <1>1, <2>1
    <3>2. QED
      BY <1>4, <1>6, <3>1
  <2>2. CASE i > q
    <3>1. i - q \in 1 .. Partition /\ q + (i - q) = i /\ m + i \in Int /\ m + i - MaxTaps >= m
      BY <1>1, <2>2
    <3>2. y[i] = <<>>
      BY <1>3, <1>6, <3>1
    <3>3. FilterTerms(m + i, m) = {}
      BY <1>1, <3>1, NoFilterTerms
    <3>4. QED
      BY <3>2, <3>3, ListsNone
  <2>3. QED
    BY <1>1, <2>1, <2>2
<1>8. Filters(y, QueueLength, m, m)
  BY <1>6, <1>7 DEF Filters
<1>9. QED
  BY <1>8 DEF y, x, z, m

\* A partitioned engine without input.
LEMMA PartitionedStarts == ASSUME SceneTyped  PROVE PartitionedIs(PartitionedNew, 0, 0, 0, 0)
<1> DEFINE p == Zeros(QueueLength)
<1>1. HasLength(p, QueueLength) /\ \A i \in 1 .. QueueLength : p[i] = <<>>
  BY DEF HasLength, Zeros
<1>2. \A i \in 1 .. QueueLength : FilterTerms((0 - 0) + i, 0) = {}
  <2> SUFFICES ASSUME NEW i \in 1 .. QueueLength  PROVE FilterTerms((0 - 0) + i, 0) = {}
    OBVIOUS
  <2>1. (0 - 0) + i \in Int
    BY QueueLengthIs
  <2>2. QED
    BY <2>1, NoFilterTerms
<1> HIDE DEF p
<1>3. Filters(p, QueueLength, 0 - 0, 0)
  BY <1>1, <1>2, ListsNone DEF Filters
<1>4. PartitionedNew = [pending |-> p, hasInput |-> FALSE, at |-> 0, left |-> 0, failed |-> FALSE]
  BY DEF PartitionedNew, p
<1>5. Begun(FALSE, 0)
  BY DEF Begun
<1>6. QED
  BY <1>3, <1>4, <1>5, Zenon DEF PartitionedIs

\* The fields that a block changes, and those that the end of the input changes.
LEMMA QueueChanges ==
  ASSUME NEW p, NEW h, NEW a, NEW l, NEW q, NEW i, NEW e, NEW f,
         e = [pending |-> p, hasInput |-> h, at |-> a, left |-> l, failed |-> FALSE],
         f = [e EXCEPT !.pending = q, !.hasInput = i]
  PROVE  f = [pending |-> q, hasInput |-> i, at |-> a, left |-> l, failed |-> FALSE]
OBVIOUS

LEMMA TailChanges ==
  ASSUME NEW p, NEW h, NEW a, NEW l, NEW b, NEW r, NEW e, NEW f,
         e = [pending |-> p, hasInput |-> h, at |-> a, left |-> l, failed |-> FALSE],
         f = [e EXCEPT !.at = b, !.left = r]
  PROVE  f = [pending |-> p, hasInput |-> h, at |-> b, left |-> r, failed |-> FALSE]
OBVIOUS

\* A block through the partitioned engine: a partition taken and put out.
LEMMA PartitionedTakes ==
  ASSUME NEW n \in Nat, NEW x, Inputs(x, Partition, n, n + Partition),
         NEW e, PartitionedIs(e, 0, 0, n, n)
  PROVE  /\ Filters(PartitionOutput(e, x), Partition, n, n + Partition)
         /\ PartitionedIs(PartitionBlock(e, x), 0, 0, n + Partition, n + Partition)
<1> DEFINE y == Candidate(e, x)
<1>1. Partition \in Nat \ {0} /\ MaxTaps \in Nat /\ QueueLength \in Nat /\ QueueLength >= Partition
      /\ Partition \in 1 .. Partition
  BY PartitionIs, MaxTapsIs, QueueLengthIs
<1>2. PICK p, h : /\ Filters(p, QueueLength, n - 0, n)
                  /\ e = [pending |-> p, hasInput |-> h, at |-> 0, left |-> 0, failed |-> FALSE]
  BY DEF PartitionedIs
<1>3. e.pending = p /\ n - 0 = n
  BY <1>2
<1>4. Filters(y, QueueLength, n, n + Partition)
  BY <1>1, <1>2, <1>3, CandidateIs
<1> HIDE DEF y
<1>5. Filters(SubSeq(y, 1, Partition), Partition, n, n + Partition)
  <2>1. 0 + Partition <= QueueLength /\ 0 + 1 = 1 /\ 0 + Partition = Partition /\ n + 0 = n
        /\ Partition \in Nat /\ n \in Int
    BY <1>1
  <2>2. Filters(SubSeq(y, 0 + 1, 0 + Partition), Partition, n + 0, n + Partition)
    BY <1>1, <1>4, <2>1, QueuePart
  <2>3. QED
    BY <2>1, <2>2
<1> DEFINE q == SubSeq(y, Partition + 1, QueueLength) \o Zeros(Partition)
<1>6. Filters(q, QueueLength, n + Partition, n + Partition)
  BY <1>4, QueueMoves
<1>7. PartitionBlock(e, x) = [e EXCEPT !.pending = q, !.hasInput = TRUE]
  BY DEF PartitionBlock, y
<1> HIDE DEF q
<1>8. PartitionBlock(e, x) = [pending |-> q, hasInput |-> TRUE, at |-> 0, left |-> 0, failed |-> FALSE]
  BY <1>2, <1>7
<1>9. (n + Partition) - 0 = n + Partition /\ Begun(TRUE, n + Partition)
  BY <1>1 DEF Begun
<1>10. PartitionedIs(PartitionBlock(e, x), 0, 0, n + Partition, n + Partition)
  <2>1. Filters(q, QueueLength, (n + Partition) - 0, n + Partition)
    BY <1>6, <1>9
  <2>2. QED
    BY <1>8, <1>9, <2>1, Zenon DEF PartitionedIs
<1>11. QED
  BY <1>5, <1>10 DEF PartitionOutput, y

\* The last block: its c samples taken and put out, and the tail begins behind them.
LEMMA PartitionedFinishes ==
  ASSUME NEW n \in Nat, NEW c \in 0 .. Partition - 1, NEW x, Inputs(x, c, n, n + c),
         NEW e, PartitionedIs(e, 0, 0, n, n)
  PROVE  /\ Filters(FinishOutput(e, x, c), c, n, n + c)
         /\ PartitionedIs(FinishInput(e, x, c), c, Left(MaxTaps - 1, 0, n + c), n + c, n + c)
<1> DEFINE y == Candidate(e, x)
<1>1. Partition \in Nat \ {0} /\ MaxTaps \in Nat \ {0} /\ QueueLength \in Nat /\ QueueLength >= Partition
      /\ c \in Nat
  BY PartitionIs, MaxTapsIs, QueueLengthIs
<1>2. PICK p, h : /\ Filters(p, QueueLength, n - 0, n)
                  /\ Begun(h, n)
                  /\ e = [pending |-> p, hasInput |-> h, at |-> 0, left |-> 0, failed |-> FALSE]
  BY DEF PartitionedIs
<1>3. e.pending = p /\ n - 0 = n /\ e.hasInput = h
  BY <1>2
<1>4. (n + c) - c = n
  BY <1>1
<1>5. CASE c = 0
  <2>1. FinishOutput(e, x, c) = <<>>
    BY <1>5 DEF FinishOutput
  <2>2. Filters(FinishOutput(e, x, c), c, n, n + c)
    <3>1. <<>> = [i \in 1 .. 0 |-> <<>>[i]]
      OBVIOUS
    <3>2. 1 .. c = {}
      BY <1>5
    <3>3. QED
      BY <1>5, <2>1, <3>1, <3>2 DEF Filters, HasLength
  <2>3. n + c = n /\ n - 0 = n
    BY <1>5
  <2>4. CASE n = 0
    <3>1. h = FALSE
      BY <1>2, <2>4 DEF Begun
    <3>2. FinishInput(e, x, c) = e
      BY <1>3, <1>5, <3>1 DEF FinishInput
    <3>3. Left(MaxTaps - 1, 0, n + c) = 0
      BY <2>3, <2>4 DEF Left
    <3>4. PartitionedIs(e, c, Left(MaxTaps - 1, 0, n + c), n + c, n + c)
      BY <1>5, <2>3, <3>3
    <3>5. QED
      BY <2>2, <3>2, <3>4
  <2>5. CASE n # 0
    <3>1. h = TRUE
      <4>1. n > 0
        BY <2>5
      <4>2. QED
        BY <1>2, <4>1 DEF Begun
    <3>2. FinishInput(e, x, c) = BeginTail(e, 0)
      BY <1>3, <1>5, <3>1 DEF FinishInput
    <3>3. BeginTail(e, 0) = [pending |-> p, hasInput |-> h, at |-> 0, left |-> MaxTaps - 1, failed |-> FALSE]
      <4> DEFINE r == MaxTaps - 1
                 g == BeginTail(e, 0)
      <4>1. g = [e EXCEPT !.at = 0, !.left = r]
        BY DEF BeginTail
      <4> HIDE DEF r, g
      <4>2. g = [pending |-> p, hasInput |-> h, at |-> 0, left |-> r, failed |-> FALSE]
        BY <1>2, <4>1, TailChanges, Zenon
      <4>3. QED
        BY <4>2 DEF r, g
    <3>4. Left(MaxTaps - 1, 0, n + c) = MaxTaps - 1
      BY <1>1, <2>3, <2>5 DEF Left
    <3>5. FinishInput(e, x, c) = [pending |-> p, hasInput |-> h, at |-> c,
                                  left |-> Left(MaxTaps - 1, 0, n + c), failed |-> FALSE]
      BY <1>5, <3>2, <3>3, <3>4
    <3>6. Filters(p, QueueLength, (n + c) - c, n + c)
      BY <1>2, <1>3, <1>4, <2>3
    <3>7. Begun(h, n + c)
      BY <1>2, <2>3
    <3>8. QED
      BY <2>2, <3>5, <3>6, <3>7, Zenon DEF PartitionedIs
  <2>6. QED
    BY <2>4, <2>5
<1>6. CASE c # 0
  <2>1. c \in 1 .. Partition
    BY <1>1, <1>6
  <2>2. Filters(y, QueueLength, n, n + c)
    BY <1>2, <1>3, <2>1, CandidateIs
  <2>3. FinishOutput(e, x, c) = SubSeq(y, 1, c)
    BY <1>6 DEF FinishOutput
  <2> DEFINE f == [e EXCEPT !.pending = y, !.hasInput = TRUE]
  <2>4. FinishInput(e, x, c) = BeginTail(f, c)
    BY <1>6 DEF FinishInput
  <2> HIDE DEF y
  <2>5. Filters(SubSeq(y, 1, c), c, n, n + c)
    <3>1. 0 + c <= QueueLength /\ 0 + 1 = 1 /\ 0 + c = c /\ n + 0 = n /\ n \in Int
      BY <1>1
    <3>2. Filters(SubSeq(y, 0 + 1, 0 + c), c, n + 0, n + c)
      BY <1>1, <2>2, <3>1, QueuePart
    <3>3. QED
      BY <3>1, <3>2
  <2>6. f = [pending |-> y, hasInput |-> TRUE, at |-> 0, left |-> 0, failed |-> FALSE]
    <3>1. f = [e EXCEPT !.pending = y, !.hasInput = TRUE]
      OBVIOUS
    <3> HIDE DEF f
    <3>2. QED
      BY <1>2, <3>1, QueueChanges, Zenon
  <2>7. BeginTail(f, c) = [pending |-> y, hasInput |-> TRUE, at |-> c, left |-> MaxTaps - 1, failed |-> FALSE]
    <3> DEFINE r == MaxTaps - 1
               g == BeginTail(f, c)
    <3> HIDE DEF f
    <3>1. g = [f EXCEPT !.at = c, !.left = r]
      BY DEF BeginTail
    <3> HIDE DEF r, g
    <3>2. g = [pending |-> y, hasInput |-> TRUE, at |-> c, left |-> r, failed |-> FALSE]
      BY <2>6, <3>1, TailChanges, Zenon
    <3>3. QED
      BY <3>2 DEF r, g
  <2>8. Left(MaxTaps - 1, 0, n + c) = MaxTaps - 1
    BY <1>1, <1>6 DEF Left
  <2>9. Begun(TRUE, n + c)
    BY <1>1, <1>6 DEF Begun
  <2>10. FinishInput(e, x, c) = [pending |-> y, hasInput |-> TRUE, at |-> c,
                                 left |-> Left(MaxTaps - 1, 0, n + c), failed |-> FALSE]
    BY <2>4, <2>7, <2>8
  <2>11. Filters(y, QueueLength, (n + c) - c, n + c)
    BY <1>4, <2>2
  <2>12. PartitionedIs(FinishInput(e, x, c), c, Left(MaxTaps - 1, 0, n + c), n + c, n + c)
    BY <2>9, <2>10, <2>11, Zenon DEF PartitionedIs
  <2>13. QED
    BY <2>3, <2>5, <2>12
<1>7. QED
  BY <1>5, <1>6

\* A block of the tail of the partitioned engine: its queue is long enough.
LEMMA PartitionedDrains ==
  ASSUME NEW m \in Int, NEW n \in Nat, m >= n, NEW at \in Int, at - (m - n) \in 0 .. Partition - 1,
         NEW c \in Nat \ {0}, c <= Left(MaxTaps - 1, m - n, n),
         NEW e, PartitionedIs(e, at, Left(MaxTaps - 1, m - n, n), m, n)
  PROVE  /\ Filters(SubSeq(e.pending, e.at + 1, e.at + c), c, m, n)
         /\ PartitionedIs(PartitionedTail(e, c), at + c, Left(MaxTaps - 1, (m + c) - n, n), m + c, n)
<1> DEFINE left == Left(MaxTaps - 1, m - n, n)
<1>1. Partition \in Nat \ {0} /\ MaxTaps \in Nat \ {0} /\ QueueLength \in Nat
      /\ QueueLength >= MaxTaps + Partition
  BY PartitionIs, MaxTapsIs, QueueLengthIs
<1>2. PICK p, h : /\ Filters(p, QueueLength, m - at, n)
                  /\ Begun(h, n)
                  /\ e = [pending |-> p, hasInput |-> h, at |-> at, left |-> left, failed |-> FALSE]
  BY DEF PartitionedIs
<1>3. e.pending = p /\ e.at = at
  BY <1>2
<1>4. m - n \in Nat /\ MaxTaps - 1 \in Int /\ (m - n) + c = (m + c) - n
  BY <1>1
<1>5. left - c = Left(MaxTaps - 1, (m + c) - n, n) /\ left \in Nat
  <2> DEFINE t == MaxTaps - 1
             r == m - n
  <2>1. t \in Int /\ r \in Nat /\ c <= Left(t, r, n)
    BY <1>4
  <2> HIDE DEF t, r
  <2>2. Left(t, r, n) - c = Left(t, r + c, n) /\ Left(t, r, n) \in Nat
    <3>1. LeftMoved(c, t, r, n)
      BY <2>1, LeftMoves
    <3>2. QED
      BY <2>1, <3>1 DEF LeftMoved
  <2>3. QED
    BY <1>4, <2>2 DEF t, r
<1>6. at \in Nat /\ at + c <= QueueLength
  <2>1. c <= MaxTaps - 1 - (m - n)
    BY <1>1, <1>4 DEF Left
  <2>2. QED
    BY <1>1, <1>4, <2>1
<1> HIDE DEF left
<1>7. Filters(SubSeq(p, at + 1, at + c), c, (m - at) + at, n)
  <2>1. m - at \in Int
    OBVIOUS
  <2>2. QED
    BY <1>1, <1>2, <1>6, <2>1, QueuePart
<1>8. (m - at) + at = m /\ (m + c) - (at + c) = m - at
  OBVIOUS
<1>9. PartitionedTail(e, c) = [pending |-> p, hasInput |-> h, at |-> at + c, left |-> left - c, failed |-> FALSE]
  <2>1. PartitionedTail(e, c) = [e EXCEPT !.at = @ + c, !.left = @ - c]
    BY <1>1, <1>3, <1>6 DEF PartitionedTail
  <2>2. QED
    BY <1>2, <2>1
<1>10. PartitionedIs(PartitionedTail(e, c), at + c, left - c, m + c, n)
  <2>1. Filters(p, QueueLength, (m + c) - (at + c), n)
    BY <1>2, <1>8
  <2>2. QED
    BY <1>2, <1>9, <2>1, Zenon DEF PartitionedIs
<1>11. QED
  BY <1>3, <1>5, <1>7, <1>8, <1>10

-----------------------------------------------------------------------------
(* The LFE *)

\* The LFE at position q when n samples were taken; its terms in sample k of the output
\* when it is d samples late.
LfeIn(q, n) == IF withLfe /\ 0 <= q /\ q < n THEN <<<<0, q, stream>>>> ELSE <<>>

LfeTerms(k, d, n) == IF withLfe /\ 0 <= k - 1 - d /\ k - 1 - d < n THEN {<<0, k - 1 - d, stream>>} ELSE {}

LfeLine(n) == [q \in Int |-> LfeIn(q, n)]

\* A delay of d samples when m samples were put out and n taken in.
DelayIs(e, d, m, n) ==
  e = [line |-> From(LfeLine(n), m - d - 1, d),
       remaining |-> IF withLfe THEN Left(d, m - n, n) ELSE 0]

\* These c samples come after m samples of the output.
Bass(y, c, d, m, n) == HasLength(y, c) /\ \A i \in 1 .. c : y[i] = LfeIn(m + i - d - 1, n)

\* A sample of the LFE is its one term, or nothing.
LEMMA LfeIs ==
  ASSUME NEW k, NEW d, NEW n
  PROVE  Lists(LfeIn(k - 1 - d, n), LfeTerms(k, d, n))
<1> DEFINE a == <<0, k - 1 - d, stream>>
<1>1. CASE withLfe /\ 0 <= k - 1 - d /\ k - 1 - d < n
  <2>1. LfeIn(k - 1 - d, n) = <<a>> /\ LfeTerms(k, d, n) = {a}
    BY <1>1 DEF LfeIn, LfeTerms
  <2> HIDE DEF a
  <2>2. QED
    BY <2>1, ListsOne
<1>2. CASE ~(withLfe /\ 0 <= k - 1 - d /\ k - 1 - d < n)
  <2>1. LfeIn(k - 1 - d, n) = <<>> /\ LfeTerms(k, d, n) = {}
    BY <1>2 DEF LfeIn, LfeTerms
  <2>2. QED
    BY <2>1, ListsNone
<1>3. QED
  BY <1>1, <1>2

\* A delay without input.
LEMMA DelayStarts ==
  ASSUME NEW d \in Nat
  PROVE  DelayIs(NewDelay(d), d, 0, 0)
<1>1. Zeros(d) = From(LfeLine(0), 0 - d - 1, d)
  <2>1. ASSUME NEW j \in 1 .. d  PROVE LfeLine(0)[0 - d - 1 + j] = <<>>
    <3>1. 0 - d - 1 + j \in Int /\ 0 - d - 1 + j < 0
      OBVIOUS
    <3>2. QED
      BY <3>1 DEF LfeLine, LfeIn
  <2>2. QED
    BY <2>1 DEF Zeros, From
<1>2. Left(d, 0 - 0, 0) = 0
  BY DEF Left
<1>3. QED
  BY <1>1, <1>2 DEF DelayIs, NewDelay

\* What the delay holds up to a position does not depend on what is taken after it.
LEMMA LfeGrows ==
  ASSUME NEW m \in Int, NEW n \in Int, NEW k \in Int, m <= n, m <= k, NEW d \in Nat
  PROVE  From(LfeLine(n), m - d - 1, d) = From(LfeLine(k), m - d - 1, d)
<1>1. ASSUME NEW j \in 1 .. d  PROVE LfeLine(n)[m - d - 1 + j] = LfeLine(k)[m - d - 1 + j]
  <2>1. m - d - 1 + j \in Int /\ m - d - 1 + j < n /\ m - d - 1 + j < k
    OBVIOUS
  <2>2. QED
    BY <2>1 DEF LfeLine, LfeIn
<1>2. QED
  BY <1>1 DEF From

\* The line z of the delay and then the next c samples of the LFE.
LfeMoved(z, c, d, m, n) ==
  /\ LastOf(z, d) = From(LfeLine(n), (m + c) - d - 1, d)
  /\ Bass(SubSeq(z, 1, c), c, d, m, n)

\* The line of the delay, moved on by c samples.
LEMMA LfeMoves ==
  ASSUME NEW m \in Int, NEW n \in Int, NEW d \in Nat, NEW c \in Nat,
         NEW l, l = From(LfeLine(n), m - d - 1, d), NEW x, x = From(LfeLine(n), m - 1, c)
  PROVE  LfeMoved(l \o x, c, d, m, n)
<1> DEFINE f == LfeLine(n)
           b == m - d - 1
           z == l \o x
<1>1. b \in Int /\ b + d = m - 1 /\ b + c = (m + c) - d - 1
  OBVIOUS
<1> HIDE DEF f, b, z
<1>2. l = From(f, b, d) /\ x = From(f, b + d, c)
  BY <1>1 DEF f, b
<1>7. Moved(z, f, b, d, c)
  BY <1>1, <1>2, LineMoves, Zenon DEF z
<1>3. LastOf(z, d) = From(f, b + c, d) /\ SubSeq(z, 1, c) = From(f, b, c)
  BY <1>7 DEF Moved
<1>4. ASSUME NEW i \in 1 .. c  PROVE f[b + i] = LfeIn(m + i - d - 1, n)
  <2>1. b + i \in Int /\ b + i = m + i - d - 1
    BY <1>1 DEF b
  <2>2. QED
    BY <2>1 DEF f, LfeLine
<1>5. Bass(From(f, b, c), c, d, m, n)
  BY <1>4 DEF Bass, HasLength, From
<1>6. QED
  BY <1>1, <1>3, <1>5 DEF f, z, LfeMoved
\* The LFE of c samples that the engine takes, the LFE mixed in or not.
LEMMA DelayTakes ==
  ASSUME withLfe, NEW n \in Nat, NEW c \in Nat \ {0}, NEW d \in Nat,
         NEW x, x = From(LfeLine(n + c), n - 1, c), NEW e, DelayIs(e, d, n, n)
  PROVE  /\ Bass(DelayOutput(e, x), c, d, n, n + c)
         /\ DelayIs(DelayLine(e, x), d, n + c, n + c)
<1> DEFINE l == From(LfeLine(n + c), n - d - 1, d)
<1>1. n \in Int /\ n + c \in Int /\ n <= n + c /\ c \in Nat
  OBVIOUS
<1>2. From(LfeLine(n), n - d - 1, d) = l
  BY <1>1, LfeGrows
<1>3. e.line = l
  BY <1>2 DEF DelayIs
<1> HIDE DEF l
<1>4. l = From(LfeLine(n + c), n - d - 1, d)
  BY DEF l
<1>11. LfeMoved(l \o x, c, d, n, n + c)
  BY <1>1, <1>4, LfeMoves
<1>5. /\ LastOf(l \o x, d) = From(LfeLine(n + c), (n + c) - d - 1, d)
      /\ Bass(SubSeq(l \o x, 1, c), c, d, n, n + c)
  BY <1>11 DEF LfeMoved
<1>6. Len(x) = c /\ x # <<>> /\ Len(l) = d
  <2>1. HasLength(x, c) /\ HasLength(l, d)
    BY <1>4 DEF HasLength, From
  <2>2. Len(x) = c /\ Len(l) = d
    BY <1>1, <2>1, LengthIs
  <2>3. Len(<<>>) = 0
    OBVIOUS
  <2>4. QED
    BY <2>2, <2>3
<1>7. Bass(DelayOutput(e, x), c, d, n, n + c)
  BY <1>3, <1>5, <1>6 DEF DelayOutput
<1>8. DelayLine(e, x) = [line |-> LastOf(l \o x, d), remaining |-> d]
  BY <1>3, <1>6 DEF DelayLine
<1>9. Left(d, (n + c) - (n + c), n + c) = d
  BY <1>1 DEF Left
<1>10. QED
  BY <1>5, <1>7, <1>8, <1>9 DEF DelayIs

\* Without an LFE the delay remains as it is.
LEMMA DelayRests ==
  ASSUME ~withLfe, NEW m, NEW n, NEW k, NEW j, NEW d \in Nat,
         m \in Int, k \in Int, NEW e, DelayIs(e, d, m, n)
  PROVE  DelayIs(e, d, k, j)
<1>1. LfeLine(n) = LfeLine(j) /\ \A q \in Int : LfeLine(j)[q] = <<>>
  BY DEF LfeLine, LfeIn
<1>2. From(LfeLine(n), m - d - 1, d) = From(LfeLine(j), k - d - 1, d)
  <2>1. ASSUME NEW i \in 1 .. d
        PROVE  LfeLine(n)[m - d - 1 + i] = LfeLine(j)[k - d - 1 + i]
    <3>1. m - d - 1 + i \in Int /\ k - d - 1 + i \in Int
      OBVIOUS
    <3>2. QED
      BY <1>1, <3>1
  <2>2. QED
    BY <2>1 DEF From
<1>3. QED
  BY <1>2 DEF DelayIs

\* A block of c samples of the tail: what is left of the LFE, and silence after it.
LEMMA DelayDrains ==
  ASSUME withLfe \in BOOLEAN, NEW m \in Int, NEW n \in Nat, m >= n, NEW c \in Nat, NEW d \in Nat,
         NEW e, DelayIs(e, d, m, n)
  PROVE  LET b == Min({c, e.remaining}) IN
         /\ b \in Nat /\ b <= c
         /\ Bass(DelayTail(e, b), b, d, m, n)
         /\ \A i \in 1 .. c : i > b => LfeIn(m + i - d - 1, n) = <<>>
         /\ DelayIs(DelayDrained(e, b), d, m + c, n)
<1> DEFINE l == From(LfeLine(n), m - d - 1, d)
           r == IF withLfe THEN Left(d, m - n, n) ELSE 0
           b == Min({c, r})
<1>1. e = [line |-> l, remaining |-> r]
  BY DEF DelayIs
<1>2. e.line = l /\ e.remaining = r
  BY <1>1
<1>3. m - n \in Nat /\ d \in Int
  OBVIOUS
<1>4. r \in Nat /\ r <= d
  BY <1>3 DEF Left
<1>5. b = IF c <= r THEN c ELSE r
  <2>1. c \in Int /\ r \in Int
    BY <1>4
  <2> HIDE DEF r
  <2>2. QED
    BY <2>1, MaxOfTwo, Zenon
<1>6. b \in Nat /\ b <= c /\ b <= d
  <2> HIDE DEF r, b
  <2>1. QED
    BY <1>4, <1>5
<1>7. ASSUME NEW i \in Int, i > b, c > b \/ r = 0
      PROVE  LfeIn(m + i - d - 1, n) = <<>>
  <2>1. CASE ~withLfe
    BY <2>1 DEF LfeIn
  <2>2. CASE withLfe
    <3>1. b = Left(d, m - n, n)
      BY <1>4, <1>5, <1>7, <2>2
    <3>2. ~(0 <= m + i - d - 1 /\ m + i - d - 1 < n)
      <4> HIDE DEF b
      <4>1. QED
        BY <1>7, <3>1 DEF Left
    <3>3. QED
      BY <3>2 DEF LfeIn
  <2>3. QED
    BY <2>1, <2>2
<1> HIDE DEF b
<1> DEFINE z == Zeros(b)
<1>8. z = From(LfeLine(n), m - 1, b)
  <2>1. ASSUME NEW i \in 1 .. b  PROVE LfeLine(n)[m - 1 + i] = <<>>
    <3>1. m - 1 + i \in Int /\ ~(m - 1 + i < n)
      BY <1>6
    <3>2. QED
      BY <3>1 DEF LfeLine, LfeIn
  <2>2. QED
    BY <2>1 DEF From, Zeros
<1> HIDE DEF l, z
<1>9. l = From(LfeLine(n), m - d - 1, d)
  BY DEF l
<1>10. n \in Int
  OBVIOUS
<1>13. LfeMoved(l \o z, b, d, m, n)
  BY <1>6, <1>8, <1>9, <1>10, LfeMoves
<1>11. LastOf(l \o z, d) = From(LfeLine(n), (m + b) - d - 1, d)
  BY <1>13 DEF LfeMoved
<1>14. Bass(SubSeq(l, 1, b), b, d, m, n)
  <2>1. 0 \in Int /\ b \in Int /\ 0 + 1 = 1 /\ 0 + b = b
    BY <1>6
  <2>2. SubSeq(l, 0 + 1, 0 + b) = [i \in 1 .. b |-> l[0 + i]]
    BY <2>1, PartIs
  <2>3. ASSUME NEW i \in 1 .. b  PROVE l[0 + i] = LfeIn(m + i - d - 1, n)
    <3>1. 0 + i = i /\ i \in 1 .. d /\ m - d - 1 + i \in Int /\ m - d - 1 + i = m + i - d - 1
      BY <1>6
    <3>2. QED
      BY <1>9, <3>1 DEF From, LfeLine
  <2>4. SubSeq(l, 1, b) = [i \in 1 .. b |-> LfeIn(m + i - d - 1, n)]
    BY <2>1, <2>2, <2>3
  <2>5. QED
    BY <2>4 DEF Bass, HasLength
<1>15. From(LfeLine(n), (m + b) - d - 1, d) = From(LfeLine(n), (m + c) - d - 1, d)
  <2>1. CASE b = c
    BY <2>1
  <2>2. CASE b # c
    <3>1. c > b
      BY <1>6, <2>2
    <3>2. ASSUME NEW j \in 1 .. d
          PROVE  LfeLine(n)[(m + b) - d - 1 + j] = LfeLine(n)[(m + c) - d - 1 + j]
      <4>1. b + j \in Int /\ c + j \in Int /\ b + j > b /\ c + j > b
        BY <1>6, <3>1
      <4>2. LfeIn(m + (b + j) - d - 1, n) = <<>> /\ LfeIn(m + (c + j) - d - 1, n) = <<>>
        BY <1>7, <3>1, <4>1
      <4>3. /\ (m + b) - d - 1 + j \in Int /\ (m + b) - d - 1 + j = m + (b + j) - d - 1
            /\ (m + c) - d - 1 + j \in Int /\ (m + c) - d - 1 + j = m + (c + j) - d - 1
        BY <1>6
      <4>4. QED
        BY <4>2, <4>3 DEF LfeLine
    <3>3. QED
      BY <3>2 DEF From
  <2>3. QED
    BY <2>1, <2>2
<1>16. r - b = IF withLfe THEN Left(d, (m + c) - n, n) ELSE 0
  <2>1. CASE withLfe
    <3> DEFINE q == m - n
    <3>1. q \in Nat /\ q + c = (m + c) - n /\ d \in Int
      BY <1>3
    <3>2. r = Left(d, q, n) /\ b = Min({c, Left(d, q, n)})
      BY <2>1 DEF b
    <3> HIDE DEF q
    <3>3. Left(d, q, n) - Min({c, Left(d, q, n)}) = Left(d, q + c, n)
      <4>1. LeftMoved(c, d, q, n)
        BY <3>1, LeftMoves
      <4>2. QED
        BY <4>1 DEF LeftMoved
    <3>4. r - b = Left(d, q + c, n)
      BY <3>2, <3>3, Zenon
    <3>5. QED
      BY <2>1, <3>1, <3>4
  <2>2. CASE ~withLfe
    BY <1>4, <1>5, <2>2
  <2>3. QED
    BY <2>1, <2>2
<1>17. Len(l) = d
  <2>1. HasLength(l, d)
    BY <1>9 DEF HasLength, From
  <2>2. QED
    BY <2>1, LengthIs
<1>18. DelayDrained(e, b) = [line |-> LastOf(l \o z, d), remaining |-> r - b]
  <2> HIDE DEF r
  <2>1. QED
    BY <1>2, <1>17 DEF DelayDrained, z
<1>19. DelayIs(DelayDrained(e, b), d, m + c, n)
  <2> HIDE DEF r
  <2>1. QED
    BY <1>11, <1>15, <1>16, <1>18 DEF DelayIs
<1>20. DelayTail(e, b) = SubSeq(l, 1, b)
  <2> HIDE DEF r
  <2>1. QED
    BY <1>2 DEF DelayTail
<1>21. ASSUME NEW i \in 1 .. c, i > b  PROVE LfeIn(m + i - d - 1, n) = <<>>
  <2>1. i \in Int /\ c > b
    BY <1>6, <1>21
  <2>2. QED
    BY <1>7, <1>21, <2>1
<1>22. Min({c, e.remaining}) = b
  BY <1>2 DEF b
<1>23. /\ b \in Nat /\ b <= c
       /\ Bass(DelayTail(e, b), b, d, m, n)
       /\ \A i \in 1 .. c : i > b => LfeIn(m + i - d - 1, n) = <<>>
       /\ DelayIs(DelayDrained(e, b), d, m + c, n)
  BY <1>6, <1>14, <1>19, <1>20, <1>21
<1>24. QED
  BY <1>22, <1>23

-----------------------------------------------------------------------------
(* The output *)

Terms(k, d, n) == FilterTerms(k, n) \cup LfeTerms(k, d, n)

Sampled(y, c, d, m, n) == HasLength(y, c) /\ \A i \in 1 .. c : Lists(y[i], Terms(m + i, d, n))

\* The filters and the LFE share no term of a sample.
LEMMA TermsAdd ==
  ASSUME NEW k, NEW d, NEW n, NEW a, Lists(a, FilterTerms(k, n))
  PROVE  Lists(a \o LfeIn(k - 1 - d, n), Terms(k, d, n))
<1>1. \A z \in FilterTerms(k, n) : z[1] \in Sources
  BY DEF FilterTerms, SourceTerms, Weighted
<1>2. \A z \in LfeTerms(k, d, n) : z[1] = 0
  BY DEF LfeTerms
<1>3. 0 \notin Sources
  BY TapsAre DEF Sources
<1>4. FilterTerms(k, n) \cap LfeTerms(k, d, n) = {}
  BY <1>1, <1>2, <1>3
<1>5. QED
  BY <1>4, LfeIs, ListsBoth DEF Terms

\* Without a sample of the LFE the filters are all.
LEMMA TermsSame ==
  ASSUME NEW k, NEW d, NEW n, NEW a, Lists(a, FilterTerms(k, n)), LfeIn(k - 1 - d, n) = <<>>
  PROVE  Lists(a, Terms(k, d, n))
<1>1. LfeTerms(k, d, n) = {}
  BY LfeIs DEF Lists, Range
<1>2. QED
  BY <1>1 DEF Terms

\* The LFE mixed into a block of the filters.
LEMMA WithLfeIs ==
  ASSUME withLfe \in BOOLEAN, NEW c \in Nat, NEW d \in Int, NEW m \in Int, NEW n, NEW y, Filters(y, c, m, n),
         NEW x, withLfe => Bass(DelayOutput(lfeDelay, x), c, d, m, n)
  PROVE  Sampled(WithLfe(y, x), c, d, m, n)
<1>1. HasLength(y, c) /\ \A i \in 1 .. c : Lists(y[i], FilterTerms(m + i, n))
  BY DEF Filters
<1>2. CASE withLfe
  <2> DEFINE b == DelayOutput(lfeDelay, x)
             z == Mixed(y, b)
  <2>1. HasLength(b, c) /\ \A i \in 1 .. c : b[i] = LfeIn(m + i - d - 1, n)
    BY <1>2 DEF Bass
  <2> HIDE DEF b
  <2>2. Len(y) = c /\ Len(b) = c
    BY <1>1, <2>1, LengthIs
  <2>3. z = [i \in 1 .. c |-> y[i] \o b[i]]
    BY <2>2 DEF Mixed
  <2> HIDE DEF z
  <2>4. HasLength(z, c)
    <3>1. z = [i \in 1 .. c |-> z[i]]
      BY <2>3
    <3>2. QED
      BY <3>1 DEF HasLength
  <2>5. ASSUME NEW i \in 1 .. c  PROVE Lists(z[i], Terms(m + i, d, n))
    <3>1. (m + i) - 1 - d = m + i - d - 1
      OBVIOUS
    <3>2. z[i] = y[i] \o LfeIn((m + i) - 1 - d, n)
      BY <2>1, <2>3, <3>1
    <3>3. Lists(y[i], FilterTerms(m + i, n))
      BY <1>1
    <3>4. QED
      BY <3>2, <3>3, TermsAdd
  <2>6. WithLfe(y, x) = z
    BY <1>2 DEF WithLfe, z, b
  <2>7. QED
    BY <2>4, <2>5, <2>6 DEF Sampled
<1>3. CASE ~withLfe
  <2>1. WithLfe(y, x) = y
    BY <1>3 DEF WithLfe
  <2>2. ASSUME NEW i \in 1 .. c  PROVE Lists(y[i], Terms(m + i, d, n))
    <3>1. LfeIn((m + i) - 1 - d, n) = <<>>
      BY <1>3 DEF LfeIn
    <3>2. Lists(y[i], FilterTerms(m + i, n))
      BY <1>1
    <3>3. QED
      BY <3>1, <3>2, TermsSame
  <2>3. QED
    BY <1>1, <2>1, <2>2 DEF Sampled
<1>4. QED
  BY <1>2, <1>3

\* The LFE mixed into a block of the tail, which may be longer than what the delay holds.
LEMMA TailMixed ==
  ASSUME NEW c \in Nat, NEW d \in Int, NEW m \in Int, NEW n, NEW y, Filters(y, c, m, n),
         NEW b \in Nat, b <= c, NEW z, Bass(z, b, d, m, n),
         \A i \in 1 .. c : i > b => LfeIn(m + i - d - 1, n) = <<>>
  PROVE  Sampled(Mixed(Mixed(Zeros(c), y), z), c, d, m, n)
<1>1. HasLength(y, c) /\ \A i \in 1 .. c : Lists(y[i], FilterTerms(m + i, n))
  BY DEF Filters
<1>2. HasLength(z, b) /\ \A i \in 1 .. b : z[i] = LfeIn(m + i - d - 1, n)
  BY DEF Bass
<1> DEFINE v == Mixed(Zeros(c), y)
           w == Mixed(v, z)
<1>3. Len(y) = c /\ Len(z) = b /\ Len(Zeros(c)) = c /\ \A i \in 1 .. c : Zeros(c)[i] = <<>>
  <2>1. HasLength(Zeros(c), c) /\ \A i \in 1 .. c : Zeros(c)[i] = <<>>
    BY DEF HasLength, Zeros
  <2>2. QED
    BY <1>1, <1>2, <2>1, LengthIs
<1>4. \A i \in 1 .. c : <<>> \o y[i] = y[i]
  <2> SUFFICES ASSUME NEW i \in 1 .. c  PROVE <<>> \o y[i] = y[i]
    OBVIOUS
  <2>1. y[i] \in Seq(FilterTerms(m + i, n))
    BY <1>1 DEF Lists
  <2>2. QED
    BY <2>1
<1>5. v = [i \in 1 .. c |-> y[i]]
  <2>1. v = [i \in 1 .. c |-> Zeros(c)[i] \o y[i]]
    BY <1>3 DEF Mixed
  <2> HIDE DEF v
  <2>2. QED
    BY <1>3, <1>4, <2>1
<1>6. v = y
  BY <1>1, <1>5 DEF HasLength
<1> HIDE DEF v
<1>7. w = [i \in 1 .. c |-> IF i <= b THEN y[i] \o z[i] ELSE y[i]]
  BY <1>3, <1>6 DEF Mixed
<1> HIDE DEF w
<1>8. HasLength(w, c)
  <2>1. w = [i \in 1 .. c |-> w[i]]
    BY <1>7
  <2>2. QED
    BY <2>1 DEF HasLength
<1>9. ASSUME NEW i \in 1 .. c  PROVE Lists(w[i], Terms(m + i, d, n))
  <2>1. (m + i) - 1 - d = m + i - d - 1
    OBVIOUS
  <2>2. Lists(y[i], FilterTerms(m + i, n))
    BY <1>1
  <2>3. CASE i <= b
    <3>1. i \in 1 .. b
      BY <2>3
    <3>2. w[i] = y[i] \o LfeIn((m + i) - 1 - d, n)
      BY <1>2, <1>7, <2>1, <2>3, <3>1
    <3>3. QED
      BY <2>2, <3>2, TermsAdd
  <2>4. CASE i > b
    <3>1. w[i] = y[i] /\ LfeIn((m + i) - 1 - d, n) = <<>>
      BY <1>7, <2>1, <2>4
    <3>2. QED
      BY <2>2, <3>1, TermsSame
  <2>5. QED
    BY <2>3, <2>4
<1>10. QED
  BY <1>8, <1>9 DEF Sampled, v, w

\* What was put out when n samples were taken.
OutputIs(x, d, n) == Sampled(x, Len(x), d, 0, n) /\ Len(x) \in Nat

\* No output is exact.
LEMMA OutputStarts == ASSUME NEW d, NEW n  PROVE OutputIs(<<>>, d, n)
<1>1. Len(<<>>) = 0 /\ 1 .. 0 = {} /\ <<>> = [i \in 1 .. 0 |-> <<>>[i]]
  OBVIOUS
<1>2. QED
  BY <1>1 DEF OutputIs, Sampled, HasLength

\* Exact output and then exact samples are exact output.
LEMMA OutputMoves ==
  ASSUME NEW x, NEW d, NEW n, OutputIs(x, d, n), NEW c \in Nat, NEW y, Sampled(y, c, d, Len(x), n)
  PROVE  OutputIs(x \o y, d, n) /\ Len(x \o y) = Len(x) + c
<1> DEFINE m == Len(x)
           z == x \o y
<1>1. m \in Nat /\ HasLength(x, m) /\ \A k \in 1 .. m : Lists(x[k], Terms(0 + k, d, n))
  BY DEF OutputIs, Sampled
<1>2. HasLength(y, c) /\ \A i \in 1 .. c : Lists(y[i], Terms(m + i, d, n))
  BY DEF Sampled
<1> HIDE DEF m
<1>3. Joined(z, x, y, m, c)
  BY <1>1, <1>2, BothAre
<1> HIDE DEF z
<1>4. /\ HasLength(z, m + c)
      /\ \A i \in 1 .. m : z[i] = x[i]
      /\ \A i \in 1 .. c : z[m + i] = y[i]
  BY <1>3 DEF Joined
<1>5. m + c \in Nat
  BY <1>1
<1>6. Len(z) = m + c
  BY <1>4, <1>5, LengthIs
<1>7. ASSUME NEW k \in 1 .. m + c  PROVE Lists(z[k], Terms(0 + k, d, n))
  <2>1. CASE k <= m
    <3>1. k \in 1 .. m
      BY <1>1, <2>1
    <3>2. QED
      BY <1>1, <1>4, <3>1
  <2>2. CASE k > m
    <3>1. k - m \in 1 .. c /\ m + (k - m) = 0 + k
      BY <1>1, <2>2
    <3>2. z[m + (k - m)] = y[k - m] /\ m + (k - m) = k
      BY <1>1, <1>4, <3>1
    <3>3. QED
      BY <1>2, <3>1, <3>2
  <2>3. QED
    BY <1>1, <2>1, <2>2
<1>8. OutputIs(z, d, n)
  BY <1>4, <1>5, <1>6, <1>7 DEF OutputIs, Sampled
<1>9. QED
  BY <1>6, <1>8 DEF z, m

\* Samples put out do not depend on what is taken after them.
LEMMA TermsGrow ==
  ASSUME NEW k \in Int, NEW d \in Nat, NEW n \in Int, NEW j \in Int, k <= n, k <= j
  PROVE  Terms(k, d, n) = Terms(k, d, j)
<1>1. ASSUME NEW s \in Sources  PROVE SourceTerms(s, k, n) = SourceTerms(s, k, j)
  <2>1. ASSUME NEW t \in 1 .. Taps[s]  PROVE Weighted(s, k - t, t - 1, n) = Weighted(s, k - t, t - 1, j)
    <3>1. k - t < n /\ k - t < j
      BY TapsAre
    <3>2. QED
      BY <3>1 DEF Weighted
  <2>2. QED
    BY <2>1 DEF SourceTerms
<1>2. FilterTerms(k, n) = FilterTerms(k, j)
  BY <1>1 DEF FilterTerms
<1>3. k - 1 - d < n /\ k - 1 - d < j
  OBVIOUS
<1>4. LfeTerms(k, d, n) = LfeTerms(k, d, j)
  BY <1>3 DEF LfeTerms
<1>5. QED
  BY <1>2, <1>4 DEF Terms

LEMMA OutputGrows ==
  ASSUME NEW x, NEW d \in Nat, NEW n \in Int, OutputIs(x, d, n), Len(x) <= n, NEW j \in Int, Len(x) <= j
  PROVE  OutputIs(x, d, j)
<1>1. Len(x) \in Nat /\ HasLength(x, Len(x)) /\ \A k \in 1 .. Len(x) : Lists(x[k], Terms(0 + k, d, n))
  BY DEF OutputIs, Sampled
<1>2. ASSUME NEW k \in 1 .. Len(x)  PROVE Lists(x[k], Terms(0 + k, d, j))
  <2>1. 0 + k \in Int /\ 0 + k <= n /\ 0 + k <= j
    BY <1>1
  <2>2. Terms(0 + k, d, n) = Terms(0 + k, d, j)
    BY <2>1, TermsGrow
  <2>3. QED
    BY <1>1, <2>2
<1>3. QED
  BY <1>1, <1>2 DEF OutputIs, Sampled

\* The convolution that EveryTapOnce asks for, by the terms of the samples.
LEMMA ConvolutionIs ==
  ASSUME NEW k \in Int, taken \in Nat, Len(lfeDelay.line) \in Nat
  PROVE  Convolution(k) = Terms(k, Len(lfeDelay.line), taken)
<1> DEFINE d == Len(lfeDelay.line)
           pairs == {w \in Sources \X (0 .. MaxTaps - 1) :
                       /\ w[2] < Taps[w[1]]
                       /\ k - 1 - w[2] < taken
                       /\ k - 1 - w[2] - scene[w[1]].start \in 0 .. scene[w[1]].length - 1}
           term(w) == <<w[1], k - 1 - w[2] - scene[w[1]].start, stream, w[2]>>
           bass == {<<0, p, stream>> : p \in {k - 1 - d} \cap (IF withLfe THEN 0 .. taken - 1 ELSE {})}
<1>1. MaxTaps \in Nat /\ \A s \in Sources : Taps[s] \in Nat /\ Taps[s] <= MaxTaps
  BY TapsAre, MaxTapsIs
<1>2. bass = LfeTerms(k, d, taken)
  <2> DEFINE p == k - 1 - d
  <2>1. p \in Int
    OBVIOUS
  <2>2. LfeTerms(k, d, taken) = IF withLfe /\ 0 <= p /\ p < taken THEN {<<0, p, stream>>} ELSE {}
    BY DEF LfeTerms
  <2>3. bass = {<<0, q, stream>> : q \in {p} \cap (IF withLfe THEN 0 .. taken - 1 ELSE {})}
    OBVIOUS
  <2> HIDE DEF d, p
  <2>4. p \in 0 .. taken - 1 <=> (0 <= p /\ p < taken)
    BY <2>1
  <2>5. CASE withLfe /\ 0 <= p /\ p < taken
    BY <2>2, <2>3, <2>4, <2>5
  <2>6. CASE ~(withLfe /\ 0 <= p /\ p < taken)
    BY <2>2, <2>3, <2>4, <2>6
  <2>7. QED
    BY <2>5, <2>6
<1>3. ASSUME NEW w \in pairs  PROVE term(w) \in FilterTerms(k, taken)
  <2> DEFINE s == w[1]
             t == w[2] + 1
  <2>1. s \in Sources /\ t \in 1 .. Taps[s] /\ w[2] = t - 1 /\ k - 1 - w[2] = k - t
    BY <1>1
  <2>2. k - t < taken /\ k - t - scene[s].start \in 0 .. scene[s].length - 1
    BY <2>1
  <2>3. term(w) = <<s, k - t - scene[s].start, stream, t - 1>>
    BY <2>1
  <2> HIDE DEF s, t, term
  <2>4. term(w) \in Weighted(s, k - t, t - 1, taken)
    BY <2>2, <2>3 DEF Weighted
  <2>5. term(w) \in SourceTerms(s, k, taken)
    BY <2>1, <2>4 DEF SourceTerms
  <2>6. QED
    BY <2>1, <2>5 DEF FilterTerms
<1>4. ASSUME NEW z \in FilterTerms(k, taken)  PROVE \E w \in pairs : z = term(w)
  <2>1. PICK s \in Sources : z \in SourceTerms(s, k, taken)
    BY DEF FilterTerms
  <2>2. PICK t \in 1 .. Taps[s] : z \in Weighted(s, k - t, t - 1, taken)
    BY <2>1 DEF SourceTerms
  <2>3. /\ k - t < taken /\ k - t - scene[s].start \in 0 .. scene[s].length - 1
        /\ z = <<s, k - t - scene[s].start, stream, t - 1>>
    BY <2>2 DEF Weighted
  <2> DEFINE w == <<s, t - 1>>
  <2>4. w \in Sources \X (0 .. MaxTaps - 1) /\ t - 1 < Taps[s] /\ k - 1 - (t - 1) = k - t
    BY <1>1
  <2>5. w[1] = s /\ w[2] = t - 1
    OBVIOUS
  <2> HIDE DEF w
  <2>6. w \in pairs /\ z = term(w)
    BY <2>3, <2>4, <2>5
  <2>7. QED
    BY <2>6
<1>5. {term(w) : w \in pairs} = FilterTerms(k, taken)
  <2> HIDE DEF pairs, term
  <2>1. QED
    BY <1>3, <1>4
<1>6. Convolution(k) = {term(w) : w \in pairs} \cup bass
  BY Zenon DEF Convolution
<1> HIDE DEF pairs, term, bass
<1>7. QED
  BY <1>2, <1>5, <1>6 DEF Terms

\* A step keeps the scene, the stream and whether the LFE is mixed in.
KeptInputs == scene' = scene /\ stream' = stream /\ withLfe' = withLfe

\* A step that keeps the scene, the stream and the LFE keeps what the terms are.
LEMMA KeptIn ==
  ASSUME KeptInputs
  PROVE  /\ \A s, q, n : In(s, q, n)' = In(s, q, n)
         /\ \A s, q, t, n : Weighted(s, q, t, n)' = Weighted(s, q, t, n)
         /\ \A q, n : LfeIn(q, n)' = LfeIn(q, n)
         /\ \A k, d, n : LfeTerms(k, d, n)' = LfeTerms(k, d, n)
<1>1. \A s, q, n : In(s, q, n)' = In(s, q, n)
  BY DEF KeptInputs, In, Sample
<1>2. \A s, q, t, n : Weighted(s, q, t, n)' = Weighted(s, q, t, n)
  BY DEF KeptInputs, Weighted
<1>3. \A q, n : LfeIn(q, n)' = LfeIn(q, n)
  BY DEF KeptInputs, LfeIn
<1>4. \A k, d, n : LfeTerms(k, d, n)' = LfeTerms(k, d, n)
  BY DEF KeptInputs, LfeTerms
<1>5. QED
  BY <1>1, <1>2, <1>3, <1>4

LEMMA KeptTerms ==
  ASSUME KeptInputs
  PROVE  \A k, n : FilterTerms(k, n)' = FilterTerms(k, n)
<1>1. \A s, k, n : SourceTerms(s, k, n)' = SourceTerms(s, k, n)
  <2>1. TAKE s, k, n
  <2>2. \A t : Weighted(s, k - t, t - 1, n)' = Weighted(s, k - t, t - 1, n)
    BY KeptIn
  <2>3. QED
    BY <2>2 DEF SourceTerms
<1>2. TAKE k, n
<1>3. \A s \in Sources : SourceTerms(s, k, n)' = SourceTerms(s, k, n)
  BY <1>1
<1>4. QED
  BY <1>3 DEF FilterTerms, Sources

LEMMA KeptLines ==
  ASSUME KeptInputs
  PROVE  /\ \A m, n : History(m, n)' = History(m, n)
         /\ \A n : LfeLine(n)' = LfeLine(n)
<1>1. \A s, n : InLine(s, n)' = InLine(s, n)
  <2>1. TAKE s, n
  <2>2. \A q : In(s, q, n)' = In(s, q, n)
    BY KeptIn
  <2>3. QED
    BY <2>2 DEF InLine
<1>2. \A m, n : History(m, n)' = History(m, n)
  <2>1. TAKE m, n
  <2>2. \A s \in Sources : InLine(s, n)' = InLine(s, n)
    BY <1>1
  <2>3. QED
    BY <2>2 DEF History, Sources, From
<1>3. \A n : LfeLine(n)' = LfeLine(n)
  <2>1. TAKE n
  <2>2. \A q : LfeIn(q, n)' = LfeIn(q, n)
    BY KeptIn
  <2>3. QED
    BY <2>2 DEF LfeLine
<1>4. QED
  BY <1>2, <1>3

\* A block of positions is the next input of every source, and of the LFE.
LEMMA BlockIs ==
  ASSUME NEW n \in Nat, NEW c \in Nat
  PROVE  /\ Len(Positions(n, c)) = c
         /\ Inputs(Block(Positions(n, c)), c, n, n + c)
         /\ withLfe => LfeBlock(Positions(n, c)) = From(LfeLine(n + c), n - 1, c)
         /\ c = 0 => Positions(n, c) = <<>> /\ LfeBlock(Positions(n, c)) = <<>>
<1> DEFINE ps == Positions(n, c)
<1>1. Len(ps) = c /\ \A i \in 1 .. c : ps[i] = n + i - 1
  BY DEF Positions
<1>2. c = 0 => ps = <<>>
  BY DEF Positions
<1> HIDE DEF ps
<1>3. ASSUME NEW s \in Sources  PROVE Block(ps)[s] = From(InLine(s, n + c), n - 1, c)
  <2>1. Block(ps)[s] = [i \in 1 .. c |-> Sample(s, ps[i])]
    BY <1>1 DEF Block
  <2>2. ASSUME NEW i \in 1 .. c  PROVE Sample(s, ps[i]) = InLine(s, n + c)[(n - 1) + i]
    <3>1. (n - 1) + i \in Int /\ (n - 1) + i < n + c /\ ps[i] = (n - 1) + i
      BY <1>1
    <3>2. QED
      BY <3>1 DEF InLine, In
  <2>3. QED
    BY <2>1, <2>2 DEF From
<1>4. ASSUME withLfe  PROVE LfeBlock(ps) = From(LfeLine(n + c), n - 1, c)
  <2>1. ASSUME NEW i \in 1 .. c  PROVE <<<<0, ps[i], stream>>>> = LfeLine(n + c)[(n - 1) + i]
    <3>1. (n - 1) + i \in Int /\ 0 <= (n - 1) + i /\ (n - 1) + i < n + c /\ ps[i] = (n - 1) + i
      BY <1>1
    <3>2. QED
      BY <1>4, <3>1 DEF LfeLine, LfeIn
  <2>2. LfeBlock(ps) = [i \in 1 .. c |-> <<<<0, ps[i], stream>>>>]
    BY <1>1 DEF LfeBlock
  <2>3. QED
    BY <2>1, <2>2 DEF From
<1>5. c = 0 => LfeBlock(ps) = <<>>
  BY <1>1 DEF LfeBlock
<1>6. Inputs(Block(ps), c, n, n + c)
  BY <1>3 DEF Inputs
<1>7. QED
  BY <1>1, <1>2, <1>4, <1>5, <1>6 DEF ps

\* The output and the delay after a block went through.
Emitted(y, x, c, d, n) ==
  /\ OutputIs(mixed \o WithLfe(y, x), d, n + c)
  /\ Len(mixed \o WithLfe(y, x)) = n + c
  /\ DelayIs(AfterLfe(x), d, n + c, n + c)

\* A block that the filters put out exactly, with the LFE mixed in.
LEMMA BlockEmitted ==
  ASSUME withLfe \in BOOLEAN, NEW n \in Nat, NEW c \in Nat, NEW d \in Nat,
         OutputIs(mixed, d, n), Len(mixed) = n, DelayIs(lfeDelay, d, n, n),
         NEW y, Filters(y, c, n, n + c)
  PROVE  Emitted(y, LfeBlock(Positions(n, c)), c, d, n)
<1> DEFINE x == LfeBlock(Positions(n, c))
<1>1. withLfe => x = From(LfeLine(n + c), n - 1, c)
  BY BlockIs
<1>2. c = 0 => x = <<>>
  BY BlockIs
<1> HIDE DEF x
<1>3. withLfe => Bass(DelayOutput(lfeDelay, x), c, d, n, n + c) /\ DelayIs(DelayLine(lfeDelay, x), d, n + c, n + c)
  <2>1. CASE c = 0
    <3>1. DelayLine(lfeDelay, x) = lfeDelay
      BY <1>2, <2>1 DEF DelayLine
    <3>2. DelayOutput(lfeDelay, x) = [i \in 1 .. 0 |-> (lfeDelay.line \o x)[i]]
      BY <1>2, <2>1 DEF DelayOutput
    <3>3. Bass(DelayOutput(lfeDelay, x), c, d, n, n + c)
      BY <2>1, <3>2 DEF Bass, HasLength
    <3>4. n + c = n
      BY <2>1
    <3>5. QED
      BY <3>1, <3>3, <3>4
  <2>2. CASE c # 0 /\ withLfe
    <3>1. c \in Nat \ {0} /\ x = From(LfeLine(n + c), n - 1, c)
      BY <1>1, <2>2
    <3>2. QED
      BY <2>2, <3>1, DelayTakes
  <2>3. QED
    BY <2>1, <2>2
<1>4. Sampled(WithLfe(y, x), c, d, n, n + c)
  BY <1>3, WithLfeIs
<1>5. OutputIs(mixed, d, n + c)
  <2>1. n \in Int /\ n + c \in Int /\ Len(mixed) <= n /\ Len(mixed) <= n + c
    OBVIOUS
  <2>2. QED
    BY <2>1, OutputGrows
<1>6. OutputIs(mixed \o WithLfe(y, x), d, n + c) /\ Len(mixed \o WithLfe(y, x)) = n + c
  <2> DEFINE z == WithLfe(y, x)
  <2>1. Sampled(z, c, d, Len(mixed), n + c)
    BY <1>4
  <2> HIDE DEF z
  <2>2. OutputIs(mixed \o z, d, n + c) /\ Len(mixed \o z) = Len(mixed) + c
    BY <1>5, <2>1, OutputMoves
  <2>3. QED
    BY <2>2 DEF z
<1>7. DelayIs(AfterLfe(x), d, n + c, n + c)
  <2>1. CASE withLfe
    BY <1>3, <2>1 DEF AfterLfe
  <2>2. CASE ~withLfe
    <3>1. n \in Int /\ n + c \in Int
      OBVIOUS
    <3>2. DelayIs(lfeDelay, d, n + c, n + c)
      BY <2>2, <3>1, DelayRests
    <3>3. QED
      BY <2>2, <3>2 DEF AfterLfe
  <2>3. QED
    BY <2>1, <2>2
<1>8. Emitted(y, x, c, d, n)
  BY <1>6, <1>7 DEF Emitted
<1>9. QED
  BY <1>8 DEF x

\* The line of a delay of d samples.
LEMMA DelayLength ==
  ASSUME NEW e, NEW d \in Nat, NEW m, NEW n, DelayIs(e, d, m, n)
  PROVE  Len(e.line) = d
<1>1. e.line = From(LfeLine(n), m - d - 1, d)
  BY DEF DelayIs
<1>2. QED
  BY <1>1 DEF From

\* An engine when m samples were put out and n taken; ending: it knows that no more come.
\* The partitioned one reads its queue at at, which is less than a partition ahead of the
\* samples of the tail.
EngineIs(e, ending, m, n) ==
  IF backend = "direct" THEN DirectIs(e, m, n)
  ELSE IF ending
       THEN \E at \in Int : /\ at - (m - n) \in 0 .. Partition - 1
                            /\ PartitionedIs(e, at, Left(MaxTaps - 1, m - n, n), m, n)
       ELSE PartitionedIs(e, 0, 0, m, n)

\* After n samples x was put out, and the engine and the delay hold what is due.
Owed(e, l, x, n, ending) ==
  /\ n \in Nat /\ Len(x) - n \in 0 .. MaxTaps - 1
  /\ \E d \in Nat : d < MaxTaps /\ OutputIs(x, d, n) /\ DelayIs(l, d, Len(x), n)
  /\ ~e.failed => EngineIs(e, ending, Len(x), n)

\* A block through the direct engine to the output.
LEMMA DirectRendered ==
  ASSUME withLfe \in BOOLEAN, backend = "direct", NEW n \in Nat, NEW c \in Nat \ {0}, NEW b, NEW j,
         Owed(fir, lfeDelay, mixed, n, b), Len(mixed) = n, ~fir.failed,
         RenderedDirect(Positions(n, c))
  PROVE  Owed(fir', lfeDelay', mixed', n + c, j) /\ Len(mixed') = n + c
<1> DEFINE ps == Positions(n, c)
           x == LfeBlock(ps)
           y == DirectOutput(fir, Block(ps), c)
<1>1. Len(ps) = c /\ Inputs(Block(ps), c, n, n + c)
  BY BlockIs
<1>2. PICK d \in Nat : d < MaxTaps /\ OutputIs(mixed, d, n) /\ DelayIs(lfeDelay, d, n, n)
  BY DEF Owed
<1>3. DirectIs(fir, n, n)
  BY DEF Owed, EngineIs
<1>4. fir' = DirectBlock(fir, Block(ps)) /\ mixed' = mixed \o WithLfe(y, x) /\ lfeDelay' = AfterLfe(x)
  BY <1>1 DEF RenderedDirect
<1>5. Filters(y, c, n, n + c) /\ DirectIs(DirectBlock(fir, Block(ps)), n + c, n + c)
  BY <1>1, <1>3, DirectTakes
<1> HIDE DEF y
<1>6. Emitted(y, x, c, d, n)
  BY <1>2, <1>5, BlockEmitted
<1> HIDE DEF x
<1>7. OutputIs(mixed', d, n + c) /\ Len(mixed') = n + c /\ DelayIs(lfeDelay', d, n + c, n + c)
  BY <1>4, <1>6 DEF Emitted
<1>8. DirectIs(fir', n + c, n + c)
  BY <1>4, <1>5
<1>9. n + c \in Nat /\ Len(mixed') - (n + c) \in 0 .. MaxTaps - 1
  BY <1>7, MaxTapsIs
<1>10. EngineIs(fir', j, Len(mixed'), n + c)
  BY <1>7, <1>8 DEF EngineIs
<1>11. QED
  BY <1>2, <1>7, <1>9, <1>10 DEF Owed

\* A whole block through the partitioned engine to the output.
LEMMA PartitionRendered ==
  ASSUME withLfe \in BOOLEAN, backend = "partitioned", NEW n \in Nat,
         Owed(fir, lfeDelay, mixed, n, FALSE), Len(mixed) = n, ~fir.failed,
         RenderedPartition(Positions(n, Partition))
  PROVE  Owed(fir', lfeDelay', mixed', n + Partition, FALSE) /\ Len(mixed') = n + Partition
<1> DEFINE c == Partition
           ps == Positions(n, c)
           x == LfeBlock(ps)
           y == PartitionOutput(fir, Block(ps))
<1>0. c \in Nat
  BY PartitionIs
<1>1. Inputs(Block(ps), c, n, n + c)
  BY <1>0, BlockIs
<1>2. PICK d \in Nat : d < MaxTaps /\ OutputIs(mixed, d, n) /\ DelayIs(lfeDelay, d, n, n)
  BY DEF Owed
<1>3. PartitionedIs(fir, 0, 0, n, n)
  BY DEF Owed, EngineIs
<1>4. fir' = PartitionBlock(fir, Block(ps)) /\ mixed' = mixed \o WithLfe(y, x) /\ lfeDelay' = AfterLfe(x)
  BY DEF RenderedPartition
<1>5. Filters(y, c, n, n + c) /\ PartitionedIs(PartitionBlock(fir, Block(ps)), 0, 0, n + c, n + c)
  BY <1>1, <1>3, PartitionedTakes
<1> HIDE DEF y
<1>6. Emitted(y, x, c, d, n)
  BY <1>0, <1>2, <1>5, BlockEmitted
<1> HIDE DEF x
<1>7. OutputIs(mixed', d, n + c) /\ Len(mixed') = n + c /\ DelayIs(lfeDelay', d, n + c, n + c)
  BY <1>4, <1>6 DEF Emitted
<1>8. PartitionedIs(fir', 0, 0, n + c, n + c)
  BY <1>4, <1>5
<1>9. n + c \in Nat /\ Len(mixed') - (n + c) \in 0 .. MaxTaps - 1
  BY <1>0, <1>7, MaxTapsIs
<1>10. EngineIs(fir', FALSE, Len(mixed'), n + c)
  BY <1>7, <1>8 DEF EngineIs
<1>11. QED
  BY <1>2, <1>7, <1>9, <1>10 DEF Owed

\* The last block of the partitioned engine to the output, even without a sample.
LEMMA LastRendered ==
  ASSUME withLfe \in BOOLEAN, backend = "partitioned", NEW n \in Nat, NEW c \in 0 .. Partition - 1,
         Owed(fir, lfeDelay, mixed, n, FALSE), Len(mixed) = n, ~fir.failed,
         RenderedLast(Positions(n, c))
  PROVE  Owed(fir', lfeDelay', mixed', n + c, TRUE) /\ Len(mixed') = n + c
<1> DEFINE ps == Positions(n, c)
           x == LfeBlock(ps)
           y == FinishOutput(fir, Block(ps), c)
<1>0. c \in Nat
  BY PartitionIs
<1>1. Len(ps) = c /\ Inputs(Block(ps), c, n, n + c)
  BY <1>0, BlockIs
<1>2. PICK d \in Nat : d < MaxTaps /\ OutputIs(mixed, d, n) /\ DelayIs(lfeDelay, d, n, n)
  BY DEF Owed
<1>3. PartitionedIs(fir, 0, 0, n, n)
  BY DEF Owed, EngineIs
<1>4. fir' = FinishInput(fir, Block(ps), c) /\ mixed' = mixed \o WithLfe(y, x) /\ lfeDelay' = AfterLfe(x)
  BY <1>1 DEF RenderedLast
<1>5. /\ Filters(y, c, n, n + c)
      /\ PartitionedIs(FinishInput(fir, Block(ps), c), c, Left(MaxTaps - 1, 0, n + c), n + c, n + c)
  BY <1>1, <1>3, PartitionedFinishes
<1> HIDE DEF y
<1>6. Emitted(y, x, c, d, n)
  BY <1>0, <1>2, <1>5, BlockEmitted
<1> HIDE DEF x
<1>7. OutputIs(mixed', d, n + c) /\ Len(mixed') = n + c /\ DelayIs(lfeDelay', d, n + c, n + c)
  BY <1>4, <1>6 DEF Emitted
<1>8. PartitionedIs(fir', c, Left(MaxTaps - 1, 0, n + c), n + c, n + c)
  BY <1>4, <1>5
<1>9. n + c \in Nat /\ Len(mixed') - (n + c) = 0 /\ 0 \in 0 .. MaxTaps - 1
  BY <1>0, <1>7, MaxTapsIs
<1>10. EngineIs(fir', TRUE, Len(mixed'), n + c)
  <2>1. c \in Int /\ c - 0 \in 0 .. Partition - 1
    BY <1>0
  <2>2. PartitionedIs(fir', c, Left(MaxTaps - 1, Len(mixed') - (n + c), n + c), Len(mixed'), n + c)
    BY <1>7, <1>8, <1>9
  <2>3. c - (Len(mixed') - (n + c)) \in 0 .. Partition - 1
    BY <1>9, <2>1
  <2>4. \E at \in Int : /\ at - (Len(mixed') - (n + c)) \in 0 .. Partition - 1
                        /\ PartitionedIs(fir', at, Left(MaxTaps - 1, Len(mixed') - (n + c), n + c), Len(mixed'), n + c)
    BY <2>1, <2>2, <2>3
  <2>5. QED
    BY <2>4 DEF EngineIs
<1>11. QED
  BY <1>2, <1>7, <1>9, <1>10 DEF Owed

\* Of a longer filter at least as much is left.
LEMMA LeftOrder ==
  ASSUME NEW a \in Int, NEW b \in Int, a <= b, NEW r \in Nat, NEW n \in Nat
  PROVE  Left(a, r, n) \in Nat /\ Left(b, r, n) \in Nat /\ Left(a, r, n) <= Left(b, r, n)
BY DEF Left

\* What is left of the tail is what is left of the longest filter.
LEMMA TailLeftIs ==
  ASSUME NEW m \in Nat, NEW n \in Nat, m >= n, EngineIs(fir, TRUE, m, n)
  PROVE  TailLeft = Left(MaxTaps - 1, m - n, n)
<1> DEFINE r == m - n
           f == fir.tail
<1>1. r \in Nat
  OBVIOUS
<1>2. CASE backend = "direct"
  <2>1. f = [s \in Sources |-> Left(Taps[s] - 1, r, n)]
    BY <1>2 DEF EngineIs, DirectIs
  <2>2. TailLeft = Max({f[s] : s \in Sources})
    BY <1>2 DEF TailLeft
  <2> HIDE DEF r, f
  <2>3. \A s \in Sources : f[s] = Left(Taps[s] - 1, r, n) /\ f[s] \in Nat /\ f[s] <= Left(MaxTaps - 1, r, n)
    <3>1. TAKE s \in Sources
    <3>2. Taps[s] - 1 \in Int /\ MaxTaps - 1 \in Int /\ Taps[s] - 1 <= MaxTaps - 1
      BY TapsAre, MaxTapsIs
    <3>3. QED
      BY <1>1, <2>1, <3>2, LeftOrder
  <2>4. /\ TailLeft \in Nat
        /\ \E s \in Sources : TailLeft = f[s]
        /\ \A s \in Sources : TailLeft >= f[s]
    BY <2>2, <2>3, MaxOf
  <2>5. \E s \in Sources : f[s] = Left(MaxTaps - 1, r, n)
    BY <2>3, MaxTapsIs
  <2>6. TailLeft <= Left(MaxTaps - 1, r, n) /\ TailLeft >= Left(MaxTaps - 1, r, n)
    BY <2>3, <2>4, <2>5
  <2>7. Left(MaxTaps - 1, r, n) \in Nat
    BY <2>3, <2>5
  <2>8. TailLeft = Left(MaxTaps - 1, r, n)
    BY <2>4, <2>6, <2>7
  <2>9. QED
    BY <2>8 DEF r
<1>3. CASE backend # "direct"
  BY <1>3 DEF EngineIs, PartitionedIs, TailLeft
<1>4. QED
  BY <1>2, <1>3

\* What the delay still holds is less than what the filters hold.
LEMMA TailLengthIs ==
  ASSUME withLfe \in BOOLEAN, chunk \in Nat \ {0}, NEW n \in Nat,
         Owed(fir, lfeDelay, mixed, n, TRUE), ~fir.failed
  PROVE  /\ TailLeft = Left(MaxTaps - 1, Len(mixed) - n, n)
         /\ TailLength \in Nat /\ TailLength <= TailLeft
         /\ TailLength = 0 => TailLeft = 0
<1> DEFINE m == Len(mixed)
           t == Left(MaxTaps - 1, m - n, n)
           left == lfeDelay.remaining
<1>1. PICK d \in Nat : d < MaxTaps /\ DelayIs(lfeDelay, d, m, n)
  BY DEF Owed
<1>2. m - n \in 0 .. MaxTaps - 1 /\ EngineIs(fir, TRUE, m, n)
  BY DEF Owed
<1>3. m \in Nat /\ m >= n
  BY <1>2 DEF Owed, OutputIs
<1> HIDE DEF m
<1>4. TailLeft = t
  BY <1>2, <1>3, TailLeftIs
<1>5. left \in Nat /\ t \in Nat /\ left <= t
  <2>1. MaxTaps - 1 \in Int /\ d \in Int /\ d <= MaxTaps - 1
    BY <1>1, MaxTapsIs
  <2>2. m - n \in Nat
    BY <1>3
  <2>3. Left(d, m - n, n) \in Nat /\ t \in Nat /\ Left(d, m - n, n) <= t
    BY <2>1, <2>2, LeftOrder
  <2>4. left = IF withLfe THEN Left(d, m - n, n) ELSE 0
    BY <1>1 DEF DelayIs
  <2>5. QED
    BY <2>3, <2>4
<1> HIDE DEF t, left
<1>6. Max({t, left}) = t
  BY <1>5, MaxOfTwo
<1>7. Min({chunk, t}) = (IF chunk <= t THEN chunk ELSE t)
  <2>1. chunk \in Int /\ t \in Int
    BY <1>5
  <2>2. QED
    BY <2>1, MaxOfTwo
<1>8. TailLength = CASE driver = "session" -> Min({chunk, Max({t, left})})
                     [] driver # "session" /\ t > 0 -> Min({chunk, t})
                     [] OTHER -> left
  BY <1>4 DEF TailLength, left
<1>9. TailLength \in Nat /\ TailLength <= t /\ (TailLength = 0 => t = 0)
  <2>1. CASE driver = "session"
    BY <1>5, <1>6, <1>7, <1>8, <2>1
  <2>2. CASE driver # "session" /\ t > 0
    BY <1>5, <1>7, <1>8, <2>2
  <2>3. CASE driver # "session" /\ ~(t > 0)
    BY <1>5, <1>8, <2>3
  <2>4. QED
    BY <2>1, <2>2, <2>3
<1>10. QED
  BY <1>4, <1>9 DEF t, m

\* A block of the tail, from either engine.
LEMMA TailBlock ==
  ASSUME SceneTyped, backend \in {"direct", "partitioned"}, NEW m \in Nat, NEW n \in Nat, m >= n,
         EngineIs(fir, TRUE, m, n), NEW c \in Nat \ {0}, c <= Left(MaxTaps - 1, m - n, n)
  PROVE  Filters(TailOutput(c), c, m, n) /\ EngineIs(AfterTail(c), TRUE, m + c, n)
<1>1. CASE backend = "direct"
  <2>1. DirectIs(fir, m, n)
    BY <1>1 DEF EngineIs
  <2>2. Filters(DirectTailOutput(fir, c), c, m, n) /\ DirectIs(DirectTail(fir, c), m + c, n)
    BY <2>1, DirectDrains
  <2>3. TailOutput(c) = DirectTailOutput(fir, c) /\ AfterTail(c) = DirectTail(fir, c)
    BY <1>1 DEF TailOutput, AfterTail
  <2>4. QED
    BY <1>1, <2>2, <2>3 DEF EngineIs
<1>2. CASE backend # "direct"
  <2>1. PICK at \in Int : /\ at - (m - n) \in 0 .. Partition - 1
                          /\ PartitionedIs(fir, at, Left(MaxTaps - 1, m - n, n), m, n)
    BY <1>2 DEF EngineIs
  <2>2. /\ Filters(SubSeq(fir.pending, fir.at + 1, fir.at + c), c, m, n)
        /\ PartitionedIs(PartitionedTail(fir, c), at + c, Left(MaxTaps - 1, (m + c) - n, n), m + c, n)
    BY <2>1, PartitionedDrains
  <2>3. TailOutput(c) = SubSeq(fir.pending, fir.at + 1, fir.at + c) /\ AfterTail(c) = PartitionedTail(fir, c)
    BY <1>2 DEF TailOutput, AfterTail
  <2>4. at + c \in Int /\ (at + c) - ((m + c) - n) \in 0 .. Partition - 1
    BY <2>1, PartitionIs
  <2>5. QED
    BY <1>2, <2>2, <2>3, <2>4 DEF EngineIs
<1>3. QED
  BY <1>1, <1>2

\* A block of the tail to the output.
LEMMA Drained ==
  ASSUME SceneTyped, backend \in {"direct", "partitioned"}, withLfe \in BOOLEAN, chunk \in Nat \ {0},
         NEW n \in Nat, Owed(fir, lfeDelay, mixed, n, TRUE), DrainTail
  PROVE  Owed(fir', lfeDelay', mixed', n, TRUE)
<1> DEFINE m == Len(mixed)
           c == TailLength
           bass == Min({c, lfeDelay.remaining})
           x == TailOutput(c)
           y == Mixed(Mixed(Zeros(c), x), DelayTail(lfeDelay, bass))
<1>1. ~fir.failed /\ c > 0
  BY DEF DrainTail, Draining
<1>2. TailLeft = Left(MaxTaps - 1, m - n, n) /\ c \in Nat /\ c <= TailLeft
  BY <1>1, TailLengthIs
<1>3. PICK d \in Nat : d < MaxTaps /\ OutputIs(mixed, d, n) /\ DelayIs(lfeDelay, d, m, n)
  BY DEF Owed
<1>4. m \in Nat /\ m >= n /\ m - n \in 0 .. MaxTaps - 1 /\ EngineIs(fir, TRUE, m, n)
  <2>1. m - n \in 0 .. MaxTaps - 1 /\ EngineIs(fir, TRUE, m, n)
    BY <1>1 DEF Owed
  <2>2. m \in Nat
    BY <1>3 DEF OutputIs
  <2> HIDE DEF m
  <2>3. m >= n
    BY <2>1, <2>2, MaxTapsIs
  <2>4. QED
    BY <2>1, <2>2, <2>3
<1>5. Min({c, TailLeft}) = c
  <2>1. m - n \in Nat /\ MaxTaps - 1 \in Int
    BY <1>4, MaxTapsIs
  <2>2. TailLeft \in Int
    BY <1>2, <2>1 DEF Left
  <2>3. c \in Int /\ c <= TailLeft
    BY <1>2
  <2> HIDE DEF c
  <2>4. QED
    BY <2>2, <2>3, MaxOfTwo
<1>6. fir' = AfterTail(c) /\ lfeDelay' = DelayDrained(lfeDelay, bass) /\ mixed' = mixed \o y
  BY <1>5 DEF DrainTail
<1>a. Sampled(y, c, d, Len(mixed), n) => OutputIs(mixed \o y, d, n) /\ Len(mixed \o y) = m + c
  <2> HIDE DEF c, y
  <2>1. QED
    BY <1>2, <1>3, OutputMoves
<1> HIDE DEF c
<1> HIDE DEF m
<1>7. Filters(x, c, m, n) /\ EngineIs(AfterTail(c), TRUE, m + c, n)
  <2>1. c \in Nat \ {0} /\ c <= Left(MaxTaps - 1, m - n, n)
    BY <1>1, <1>2
  <2>2. QED
    BY <1>4, <2>1, TailBlock
<1>8. /\ bass \in Nat /\ bass <= c
      /\ Bass(DelayTail(lfeDelay, bass), bass, d, m, n)
      /\ \A i \in 1 .. c : i > bass => LfeIn(m + i - d - 1, n) = <<>>
      /\ DelayIs(DelayDrained(lfeDelay, bass), d, m + c, n)
  <2>1. withLfe \in BOOLEAN /\ m \in Int /\ m >= n /\ c \in Nat /\ DelayIs(lfeDelay, d, m, n)
    BY <1>2, <1>3, <1>4
  <2>2. QED
    BY <2>1, DelayDrains
<1> DEFINE z == DelayTail(lfeDelay, bass)
<1> HIDE DEF x, bass, z
<1>9. Sampled(Mixed(Mixed(Zeros(c), x), z), c, d, m, n)
  <2>1. d \in Int /\ m \in Int /\ c \in Nat /\ bass \in Nat /\ bass <= c /\ Bass(z, bass, d, m, n)
    BY <1>2, <1>4, <1>8 DEF z
  <2>2. QED
    BY <1>7, <1>8, <2>1, TailMixed
<1>10. y = Mixed(Mixed(Zeros(c), x), z)
  BY DEF z
<1> HIDE DEF y
<1>11. OutputIs(mixed \o y, d, n) /\ Len(mixed \o y) = m + c
  BY <1>9, <1>10, <1>a DEF m
<1>12. Len(mixed') - n \in 0 .. MaxTaps - 1
  <2>1. Left(MaxTaps - 1, m - n, n) = (MaxTaps - 1) - (m - n)
    BY <1>1, <1>2, <1>4, MaxTapsIs DEF Left
  <2>2. QED
    BY <1>1, <1>2, <1>4, <1>6, <1>11, <2>1, MaxTapsIs
<1>13. EngineIs(fir', TRUE, Len(mixed'), n) /\ OutputIs(mixed', d, n) /\ DelayIs(lfeDelay', d, Len(mixed'), n)
  BY <1>6, <1>7, <1>8, <1>11
<1>14. QED
  BY <1>3, <1>12, <1>13 DEF Owed

LEMMA KeptDue ==
  ASSUME KeptInputs, backend' = backend
  PROVE  \A e, l, x, n, b : Owed(e, l, x, n, b)' <=> Owed(e, l, x, n, b)
<1>1. \A m, n : History(m, n)' = History(m, n)
  BY KeptLines
<1>2. \A k, n : FilterTerms(k, n)' = FilterTerms(k, n)
  BY KeptTerms
<1>3. \A k, d, n : LfeTerms(k, d, n)' = LfeTerms(k, d, n)
  BY KeptIn
<1>4. \A n : LfeLine(n)' = LfeLine(n)
  BY KeptLines
<1>5. \A x, d, n : OutputIs(x, d, n)' <=> OutputIs(x, d, n)
  <2>1. TAKE x, d, n
  <2>2. \A k : Terms(k, d, n)' = Terms(k, d, n)
    BY <1>2, <1>3 DEF Terms
  <2>3. QED
    BY <2>2 DEF OutputIs, Sampled
<1>6. \A e, d, m, n : DelayIs(e, d, m, n)' <=> DelayIs(e, d, m, n)
  <2>1. TAKE e, d, m, n
  <2>2. withLfe' = withLfe
    BY DEF KeptInputs
  <2>3. QED
    BY <1>4, <2>2 DEF DelayIs
<1>7. \A e, m, n : DirectIs(e, m, n)' <=> DirectIs(e, m, n)
  BY <1>1 DEF DirectIs, Sources
<1>8. \A e, at, left, m, n : PartitionedIs(e, at, left, m, n)' <=> PartitionedIs(e, at, left, m, n)
  <2>1. TAKE e, at, left, m, n
  <2>2. \A y, c, k : Filters(y, c, k, n)' <=> Filters(y, c, k, n)
    BY <1>2 DEF Filters
  <2>3. QED
    BY <2>2 DEF PartitionedIs
<1>9. \A e, b, m, n : EngineIs(e, b, m, n)' <=> EngineIs(e, b, m, n)
  BY <1>7, <1>8 DEF EngineIs
<1>10. QED
  BY <1>5, <1>6, <1>9 DEF Owed

\* The engine was told that the input ends: by the last block of a scene, or by EndInput.
Ending == phase # "input" \/ (driver = "scene" /\ taken = SceneEnd /\ SceneEnd % chunk # 0)

\* The three parts of the invariant.  The configuration; how far the input is; and what
\* was put out and is held.
FilterConfigured ==
  /\ driver \in {"session", "cli", "scene"} /\ backend \in {"direct", "partitioned"}
  /\ withLfe \in BOOLEAN /\ SceneTyped /\ chunk \in Nat \ {0}
  /\ backend = "partitioned" => chunk = Partition

InputInOrder ==
  /\ taken \in Nat /\ todo \in Nat /\ phase \in {"input", "tail", "done"}
  /\ Len(staged) \in 0 .. Partition - 1 /\ staged = Positions(Sent, Len(staged))
  /\ Len(staged) > 0 \/ todo > 0 => driver = "cli" /\ backend = "partitioned" /\ phase = "input"
  /\ driver = "scene" =>
       taken <= SceneEnd /\ (taken # SceneEnd => taken % chunk = 0 /\ phase = "input")

OutputDue ==
  \E e, l, x, n, b :
    /\ e = fir /\ l = lfeDelay /\ x = mixed /\ n = Sent /\ b \in BOOLEAN /\ (b <=> Ending)
    /\ Owed(e, l, x, n, b)
    /\ phase = "input" => Len(x) = n
    /\ phase = "done" /\ n > 0 => Len(x) - n = MaxTaps - 1

FilterInv == FilterConfigured /\ InputInOrder /\ OutputDue

\* A scene ends.
LEMMA SceneEndIs == SceneTyped => SceneEnd \in Nat
<1> SUFFICES ASSUME SceneTyped  PROVE SceneEnd \in Nat
  OBVIOUS
<1> DEFINE f == [s \in Sources |-> scene[s].start + scene[s].length]
<1>1. \A s \in Sources : f[s] \in Nat
  BY DEF SceneTyped
<1>2. SceneEnd = Max({f[s] : s \in Sources})
  <2>1. {f[s] : s \in Sources} = {scene[s].start + scene[s].length : s \in Sources}
    BY DEF f
  <2>2. QED
    BY <2>1 DEF SceneEnd
<1> HIDE DEF f
<1>3. QED
  BY <1>1, <1>2, MaxOf

\* Whole blocks stay whole, and what comes after them is what remains.
LEMMA WholeBlocks ==
  ASSUME NEW m \in Nat, NEW c \in Nat \ {0}, m % c = 0
  PROVE  /\ (m + c) % c = 0
         /\ \A n \in 1 .. c - 1 : (m + n) % c = n
<1>1. PICK d \in Nat, r \in 0 .. c - 1 : m = d * c + r
  BY DivisionOf
<1>2. r = 0
  BY <1>1, Divided
<1> DEFINE b == d * c
<1>3. b \in Nat /\ m = b /\ (d + 1) * c = b + c
  BY <1>1, <1>2
<1>4. (m + c) % c = 0
  <2>1. d + 1 \in Int /\ 0 \in 0 .. c - 1
    OBVIOUS
  <2>2. ((d + 1) * c + 0) % c = 0
    BY <2>1, Divided
  <2> HIDE DEF b
  <2>3. m + c = (d + 1) * c + 0
    BY <1>3
  <2>4. QED
    BY <2>2, <2>3
<1>5. ASSUME NEW n \in 1 .. c - 1  PROVE (m + n) % c = n
  <2>1. d \in Int /\ n \in 0 .. c - 1
    OBVIOUS
  <2>2. (d * c + n) % c = n
    BY <2>1, Divided
  <2>3. QED
    BY <1>1, <1>2, <2>2
<1>6. QED
  BY <1>4, <1>5

\* A stream of which nothing was taken.
Started ==
  /\ FilterConfigured
  /\ fir = NewEngine /\ \E d \in Nat : d < MaxTaps /\ lfeDelay = NewDelay(d)
  /\ staged = <<>> /\ todo = 0 /\ phase = "input" /\ mixed = <<>> /\ taken = 0

\* The invariant holds at the start of a stream: of the first, and after a reset.
LEMMA StartedHolds == Started => FilterInv
<1> SUFFICES ASSUME Started  PROVE FilterInv
  OBVIOUS
<1>1. PICK d \in Nat : d < MaxTaps /\ lfeDelay = NewDelay(d)
  BY DEF Started
<1>2. Sent = 0 /\ Len(mixed) = 0 /\ Len(staged) = 0 /\ staged = Positions(Sent, Len(staged))
  <2>1. staged = <<>> /\ mixed = <<>> /\ taken = 0
    BY DEF Started
  <2>2. Sent = 0
    <3> DEFINE l == Len(staged)
    <3>1. l = 0 /\ taken = 0
      BY <2>1
    <3>2. Sent = taken - l
      BY DEF Sent
    <3> HIDE DEF l
    <3>3. QED
      BY <3>1, <3>2
  <2>3. Positions(0, 0) = <<>>
    BY DEF Positions
  <2>4. QED
    BY <2>1, <2>2, <2>3
<1>3. chunk \in Nat \ {0} /\ 0 % chunk = 0
  <2>1. chunk \in Nat \ {0}
    BY DEF Started, FilterConfigured
  <2>2. 0 = 0 * chunk + 0 /\ 0 \in 0 .. chunk - 1 /\ 0 \in Int
    BY <2>1
  <2>3. 0 % chunk = 0
    BY <2>1, <2>2, Divided
  <2>4. QED
    BY <2>1, <2>3
<1>4. SceneEnd \in Nat
  BY SceneEndIs DEF Started, FilterConfigured
<1>5. InputInOrder
  BY <1>2, <1>3, <1>4, PartitionIs DEF Started, InputInOrder
<1>6. ~Ending
  BY <1>3 DEF Ending, Started
<1>7. OutputIs(mixed, d, 0) /\ DelayIs(lfeDelay, d, 0, 0)
  BY <1>1, OutputStarts, DelayStarts DEF Started
<1>8. EngineIs(fir, FALSE, 0, 0)
  <2>1. SceneTyped
    BY DEF Started, FilterConfigured
  <2>2. DirectIs(DirectNew, 0, 0) /\ PartitionedIs(PartitionedNew, 0, 0, 0, 0)
    BY <2>1, DirectStarts, PartitionedStarts
  <2>3. QED
    BY <2>2 DEF EngineIs, Started, NewEngine
<1>9. Owed(fir, lfeDelay, mixed, 0, FALSE)
  <2>1. Len(mixed) = 0 /\ 0 \in Nat /\ 0 - 0 = 0 /\ 0 \in 0 .. MaxTaps - 1
    BY <1>2, MaxTapsIs
  <2>2. OutputIs(mixed, d, 0) /\ DelayIs(lfeDelay, d, Len(mixed), 0) /\ EngineIs(fir, FALSE, Len(mixed), 0)
    BY <1>7, <1>8, <2>1
  <2>3. Len(mixed) - 0 \in 0 .. MaxTaps - 1
    BY <2>1
  <2>4. QED
    BY <1>1, <2>1, <2>2, <2>3 DEF Owed
<1>10. OutputDue
  BY <1>2, <1>6, <1>9 DEF OutputDue, Started
<1>11. QED
  BY <1>5, <1>10 DEF FilterInv, Started

LEMMA FilterStarts == FilterInit => FilterInv
<1> SUFFICES ASSUME FilterInit  PROVE Started
  BY StartedHolds
<1>1. PICK d \in Delays : lfeDelay = NewDelay(d)
  BY DEF FilterInit
<1>2. d \in Nat /\ \E s \in Sources : d < Taps[s]
  BY FilterAssumption DEF Sources
<1>3. d < MaxTaps
  BY <1>2, TapsAre, MaxTapsIs
<1>4. scene \in [Sources -> [start : Nat, length : Nat]]
  <2>1. DOMAIN Taps = Sources
    BY FilterAssumption DEF Sources
  <2>2. CASE driver = "scene"
    BY <2>1, <2>2, FilterAssumption DEF FilterInit
  <2>3. CASE driver # "scene"
    BY <2>3, FilterAssumption DEF FilterInit
  <2>4. QED
    BY <2>2, <2>3
<1>5. chunk \in Nat \ {0} /\ (backend = "partitioned" => chunk = Partition)
  BY MaxTapsIs, FilterAssumption DEF FilterInit
<1>6. FilterConfigured
  BY <1>4, <1>5 DEF FilterInit, FilterConfigured, SceneTyped
<1>7. QED
  BY <1>1, <1>2, <1>3, <1>6 DEF FilterInit, Started

\* What a step has to show.
LEMMA StepKeeps ==
  ASSUME FilterConfigured, UNCHANGED <<filterConfig, stream>>, InputInOrder',
         NEW n, NEW b \in BOOLEAN, n = Sent', b <=> Ending',
         Owed(fir', lfeDelay', mixed', n, b),
         phase' = "input" => Len(mixed') = n,
         phase' = "done" /\ n > 0 => Len(mixed') - n = MaxTaps - 1
  PROVE  FilterInv'
<1>1. KeptInputs /\ backend' = backend
  BY DEF KeptInputs, filterConfig
<1>2. FilterConfigured'
  BY DEF FilterConfigured, filterConfig, SceneTyped, Sources
<1>3. \A e, l, x : Owed(e, l, x, n, b)' <=> Owed(e, l, x, n, b)
  BY <1>1, KeptDue
<1>4. \E e, l, x : e = fir' /\ l = lfeDelay' /\ x = mixed' /\ Owed(e, l, x, n, b)'
  BY <1>3
<1>5. OutputDue'
  BY <1>4 DEF OutputDue
<1>6. QED
  BY <1>2, <1>5 DEF FilterInv

\* With nothing staged all that was taken was sent.
LEMMA NothingStaged ==
  ASSUME InputInOrder, Len(staged) = 0
  PROVE  staged = <<>> /\ Sent = taken /\ taken \in Nat
<1>1. staged = Positions(Sent, 0)
  BY DEF InputInOrder
<1>2. staged = <<>>
  BY <1>1 DEF Positions
<1>3. QED
  BY <1>2 DEF InputInOrder, Sent

\* The steps, one by one: a block through the direct engine;
LEMMA RenderDirectKeeps ==
  ASSUME FilterInv, NEW c \in BlockSizes, RenderDirect(c)
  PROVE  FilterInv'
<1>1. FilterConfigured /\ InputInOrder /\ c \in Nat \ {0}
  BY FilterAssumption DEF FilterInv
<1>2. /\ phase = "input" /\ ~fir.failed /\ driver # "scene" /\ backend = "direct"
      /\ RenderedDirect(Positions(taken, c)) /\ taken' = taken + c
      /\ UNCHANGED <<filterConfig, staged, todo, phase, stream>>
  BY DEF RenderDirect, Taking
<1>3. Len(staged) = 0 /\ todo = 0
  BY <1>1, <1>2 DEF InputInOrder
<1>4. staged = <<>> /\ Sent = taken /\ taken \in Nat
  BY <1>1, <1>3, NothingStaged
<1>5. PICK b : Owed(fir, lfeDelay, mixed, taken, b) /\ Len(mixed) = taken
  BY <1>2, <1>4 DEF FilterInv, OutputDue
<1>6. withLfe \in BOOLEAN
  BY <1>1 DEF FilterConfigured
<1>7. Owed(fir', lfeDelay', mixed', taken + c, FALSE) /\ Len(mixed') = taken + c
  BY <1>1, <1>2, <1>4, <1>5, <1>6, DirectRendered
<1>8. driver' = driver
  BY <1>2 DEF filterConfig
<1>9. Sent' = taken + c /\ ~Ending'
  BY <1>1, <1>2, <1>3, <1>4, <1>8 DEF Sent, Ending
<1>10. InputInOrder'
  <2>1. taken + c \in Nat /\ staged' = <<>> /\ Len(staged') = 0 /\ Positions(Sent', 0) = <<>>
    BY <1>1, <1>2, <1>3, <1>4 DEF Positions
  <2>2. staged' = Positions(Sent, Len(staged))'
    BY <2>1 DEF Positions
  <2>3. QED
    BY <1>1, <1>2, <1>3, <1>8, <2>1, <2>2, PartitionIs DEF InputInOrder
<1>11. UNCHANGED <<filterConfig, stream>> /\ phase' # "done"
  BY <1>2
<1>12. QED
  BY <1>1, <1>7, <1>9, <1>10, <1>11, StepKeeps

\* a block that is yet to be staged;
LEMMA TakeBlockKeeps ==
  ASSUME FilterInv, NEW c \in BlockSizes, TakeBlock(c)
  PROVE  FilterInv'
<1>1. FilterConfigured /\ InputInOrder /\ c \in Nat \ {0}
  BY FilterAssumption DEF FilterInv
<1>2. /\ phase = "input" /\ driver = "cli" /\ backend = "partitioned" /\ todo' = c
      /\ UNCHANGED <<filterConfig, fir, lfeDelay, staged, phase, mixed, taken, stream>>
  BY DEF TakeBlock, Taking
<1>3. PICK n, b : /\ n = Sent /\ b \in BOOLEAN /\ (b <=> Ending)
                  /\ Owed(fir, lfeDelay, mixed, n, b) /\ Len(mixed) = n
  BY <1>2 DEF FilterInv, OutputDue
<1>4. driver' = driver /\ backend' = backend /\ scene' = scene /\ chunk' = chunk
  BY <1>2 DEF filterConfig
<1>5. n = Sent' /\ (b <=> Ending')
  BY <1>2, <1>3, <1>4 DEF Sent, Ending
<1>6. InputInOrder'
  BY <1>1, <1>2, <1>4 DEF InputInOrder, Positions, Sent
<1>7. Owed(fir', lfeDelay', mixed', n, b) /\ Len(mixed') = n /\ UNCHANGED <<filterConfig, stream>> /\ phase' # "done"
  BY <1>2, <1>3
<1>8. QED
  BY <1>1, <1>3, <1>5, <1>6, <1>7, StepKeeps

\* Positions one after the other.
LEMMA StagedOn ==
  ASSUME NEW m \in Int, NEW l \in Nat, NEW c \in Nat
  PROVE  /\ Positions(m, l) \o Positions(m + l, c) = Positions(m, l + c)
         /\ Len(Positions(m, l + c)) = l + c
<1> DEFINE x == Positions(m, l)
           y == Positions(m + l, c)
<1>1. HasLength(x, l) /\ HasLength(y, c)
  BY DEF HasLength, Positions
<1>2. (\A i \in 1 .. l : x[i] = m + i - 1) /\ (\A i \in 1 .. c : y[i] = m + l + i - 1)
  BY DEF Positions
<1> HIDE DEF x, y
<1> DEFINE z == x \o y
<1>3. Joined(z, x, y, l, c)
  BY <1>1, BothAre
<1> HIDE DEF z
<1>4. ASSUME NEW i \in 1 .. l + c  PROVE z[i] = m + i - 1
  <2>1. CASE i <= l
    <3>1. i \in 1 .. l
      BY <2>1
    <3>2. z[i] = x[i] /\ x[i] = m + i - 1
      BY <1>2, <1>3, <3>1 DEF Joined
    <3>3. QED
      BY <3>2
  <2>2. CASE i > l
    <3> DEFINE j == i - l
    <3>1. j \in 1 .. c /\ l + j = i
      BY <2>2
    <3> HIDE DEF j
    <3>2. z[l + j] = y[j] /\ y[j] = m + l + j - 1
      BY <1>2, <1>3, <3>1 DEF Joined
    <3>3. m + l + j - 1 = m + i - 1
      BY <3>1
    <3>4. QED
      BY <3>1, <3>2, <3>3
  <2>3. i <= l \/ i > l
    OBVIOUS
  <2>4. QED
    BY <2>1, <2>2, <2>3
<1>5. z = [i \in 1 .. l + c |-> m + i - 1]
  BY <1>3, <1>4 DEF Joined, HasLength
<1>6. QED
  BY <1>5 DEF x, y, z, Positions

\* samples staged, and a partition flushed when it is full;
LEMMA StageSamplesKeeps ==
  ASSUME FilterInv, StageSamples
  PROVE  FilterInv'
<1> DEFINE l == Len(staged)
           c == Min({Partition - l, todo})
           filled == staged \o Positions(taken, c)
<1>1. FilterConfigured /\ InputInOrder
  BY DEF FilterInv
<1>2. phase = "input" /\ ~fir.failed /\ todo > 0 /\ UNCHANGED <<filterConfig, phase, stream>>
  BY DEF StageSamples, Taking
<1>3. /\ todo' = todo - c /\ taken' = taken + c
      /\ IF Len(filled) = Partition
         THEN RenderedPartition(filled) /\ staged' = <<>>
         ELSE staged' = filled /\ UNCHANGED <<fir, lfeDelay, mixed>>
  BY DEF StageSamples
<1>4. driver = "cli" /\ backend = "partitioned" /\ withLfe \in BOOLEAN
  BY <1>1, <1>2 DEF InputInOrder, FilterConfigured
<1>5. l \in Nat /\ l < Partition /\ taken \in Nat /\ todo \in Nat /\ Partition \in Nat /\ staged = Positions(Sent, l)
  BY <1>1, PartitionIs DEF InputInOrder
<1>6. Sent \in Int /\ Sent + l = taken
  BY <1>5 DEF Sent
<1> HIDE DEF l
<1>7. c \in Nat /\ c > 0 /\ c <= todo /\ l + c <= Partition
  <2>1. Partition - l \in Int /\ todo \in Int
    BY <1>5
  <2>2. c = IF Partition - l <= todo THEN Partition - l ELSE todo
    BY <2>1, MaxOfTwo
  <2> HIDE DEF c
  <2>3. QED
    BY <1>2, <1>5, <2>2
<1> HIDE DEF c
<1>8. filled = Positions(Sent, l + c) /\ Len(filled) = l + c
  <2> DEFINE m == Sent
  <2>1. m \in Int /\ m + l = taken /\ filled = Positions(m, l) \o Positions(m + l, c)
    BY <1>5, <1>6
  <2> HIDE DEF m, filled
  <2>2. Positions(m, l) \o Positions(m + l, c) = Positions(m, l + c) /\ Len(Positions(m, l + c)) = l + c
    BY <1>5, <1>7, <2>1, StagedOn
  <2>3. QED
    BY <2>1, <2>2 DEF m
<1> HIDE DEF filled
<1>9. PICK n, b : /\ n = Sent /\ b \in BOOLEAN /\ (b <=> Ending)
                  /\ Owed(fir, lfeDelay, mixed, n, b) /\ Len(mixed) = n
  BY <1>2 DEF FilterInv, OutputDue
<1>10. driver' = driver /\ backend' = backend /\ ~Ending /\ ~Ending'
  BY <1>2, <1>4 DEF filterConfig, Ending
<1>11. Owed(fir, lfeDelay, mixed, n, FALSE) /\ n \in Nat
  BY <1>9, <1>10 DEF Owed
<1>12. CASE l + c = Partition
  <2>1. RenderedPartition(Positions(n, Partition)) /\ staged' = <<>>
    BY <1>3, <1>8, <1>9, <1>12
  <2>2. Owed(fir', lfeDelay', mixed', n + Partition, FALSE) /\ Len(mixed') = n + Partition
    BY <1>2, <1>4, <1>9, <1>11, <2>1, PartitionRendered
  <2>3. Len(staged') = 0 /\ Positions(Sent', 0) = <<>>
    BY <2>1 DEF Positions
  <2>4. Sent' = n + Partition
    BY <1>3, <1>5, <1>6, <1>7, <1>9, <1>12, <2>3 DEF Sent
  <2>5. InputInOrder'
    <3>1. staged' = Positions(Sent, Len(staged))'
      BY <2>1, <2>3 DEF Positions
    <3>2. taken' \in Nat /\ todo' \in Nat
      BY <1>3, <1>5, <1>7
    <3>3. QED
      BY <1>2, <1>4, <1>10, <2>3, <3>1, <3>2, PartitionIs DEF InputInOrder
  <2>6. UNCHANGED <<filterConfig, stream>> /\ phase' # "done"
    BY <1>2
  <2>7. QED
    BY <1>1, <1>10, <2>2, <2>4, <2>5, <2>6, StepKeeps
<1>13. CASE l + c # Partition
  <2>1. staged' = filled /\ UNCHANGED <<fir, lfeDelay, mixed>> /\ Len(staged') = l + c
    BY <1>3, <1>8, <1>13
  <2>2. Sent' = Sent
    <3>1. taken' - Len(staged') = (taken + c) - (l + c)
      BY <1>3, <2>1
    <3>2. QED
      BY <1>5, <1>6, <1>7, <3>1 DEF Sent, l
  <2>3. InputInOrder'
    <3>1. staged' = Positions(Sent, Len(staged))'
      <4>1. staged' = Positions(Sent', Len(staged'))
        BY <1>8, <2>1, <2>2
      <4>2. QED
        BY <4>1 DEF Positions
    <3>2. taken' \in Nat /\ todo' \in Nat /\ Len(staged') \in 0 .. Partition - 1
      BY <1>3, <1>5, <1>7, <1>13, <2>1
    <3>3. QED
      BY <1>2, <1>4, <1>10, <3>1, <3>2 DEF InputInOrder
  <2>4. Owed(fir', lfeDelay', mixed', n, FALSE) /\ Len(mixed') = n /\ n = Sent'
    BY <1>9, <1>11, <2>1, <2>2
  <2>5. UNCHANGED <<filterConfig, stream>> /\ phase' # "done"
    BY <1>2
  <2>6. QED
    BY <1>1, <1>10, <2>3, <2>4, <2>5, StepKeeps
<1>14. QED
  BY <1>12, <1>13

\* a block of a scene, which may be its last and shorter;
LEMMA RenderSceneKeeps ==
  ASSUME FilterInv, RenderScene
  PROVE  FilterInv'
<1> DEFINE left == SceneEnd - taken
           c == Min({chunk, left})
           ps == Positions(taken, c)
<1>1. FilterConfigured /\ InputInOrder
  BY DEF FilterInv
<1>2. /\ phase = "input" /\ ~fir.failed /\ driver = "scene" /\ taken < SceneEnd
      /\ taken' = taken + c
      /\ UNCHANGED <<filterConfig, staged, todo, phase, stream>>
  BY DEF RenderScene, Taking
<1>3. /\ backend = "direct" => RenderedDirect(ps)
      /\ backend = "partitioned" /\ c = chunk => RenderedPartition(ps)
      /\ backend = "partitioned" /\ c # chunk => RenderedLast(ps)
  BY DEF RenderScene
<1>4. /\ backend \in {"direct", "partitioned"} /\ withLfe \in BOOLEAN /\ chunk \in Nat \ {0}
      /\ (backend = "partitioned" => chunk = Partition) /\ SceneEnd \in Nat
  BY <1>1, SceneEndIs DEF FilterConfigured
<1>5. Len(staged) = 0
  BY <1>1, <1>2 DEF InputInOrder
<1>6. staged = <<>> /\ Sent = taken /\ taken \in Nat
  BY <1>1, <1>5, NothingStaged
<1>7. taken % chunk = 0
  BY <1>1, <1>2, <1>4, <1>6 DEF InputInOrder
<1>8. left \in Nat /\ left > 0 /\ taken + left = SceneEnd
  BY <1>2, <1>4, <1>6
<1> HIDE DEF left
<1>9. c \in Nat \ {0} /\ c <= left /\ c <= chunk /\ (c = left \/ c = chunk)
  <2>1. chunk \in Int /\ left \in Int
    BY <1>4, <1>8
  <2>2. c = IF chunk <= left THEN chunk ELSE left
    BY <2>1, MaxOfTwo
  <2> HIDE DEF c
  <2>3. QED
    BY <1>4, <1>8, <2>2
<1> HIDE DEF c
<1>10. PICK n, b : /\ n = Sent /\ b \in BOOLEAN /\ (b <=> Ending)
                   /\ Owed(fir, lfeDelay, mixed, n, b) /\ Len(mixed) = n
  BY <1>2 DEF FilterInv, OutputDue
<1>11. ~Ending
  BY <1>2, <1>4, <1>6 DEF Ending
<1>12. Owed(fir, lfeDelay, mixed, taken, FALSE) /\ Len(mixed) = taken
  BY <1>6, <1>10, <1>11
<1>13. UNCHANGED <<driver, backend, scene, chunk>> /\ SceneEnd' = SceneEnd
  BY <1>2 DEF filterConfig, SceneEnd, Sources
<1>14. Sent' = taken + c /\ (Ending' <=> taken + c = SceneEnd /\ SceneEnd % chunk # 0)
  BY <1>2, <1>5, <1>6, <1>9, <1>13 DEF Sent, Ending
<1>15. /\ c = chunk => (taken + c) % chunk = 0
       /\ c # chunk => taken + c = SceneEnd /\ SceneEnd % chunk # 0
  <2>1. /\ (taken + chunk) % chunk = 0
        /\ \A j \in 1 .. chunk - 1 : (taken + j) % chunk = j
    BY <1>4, <1>6, <1>7, WholeBlocks
  <2>2. CASE c = chunk
    BY <2>1, <2>2
  <2>3. CASE c # chunk
    <3>1. c \in 1 .. chunk - 1 /\ taken + c = SceneEnd
      BY <1>4, <1>8, <1>9, <2>3
    <3>2. (taken + c) % chunk = c
      BY <2>1, <3>1
    <3>3. SceneEnd % chunk = c /\ c # 0
      BY <1>9, <3>1, <3>2
    <3>4. QED
      BY <2>3, <3>1, <3>3
  <2>4. QED
    BY <2>2, <2>3
<1>16. InputInOrder'
  <2>1. taken + c \in Nat /\ taken + c <= SceneEnd
    BY <1>6, <1>8, <1>9
  <2>2. Len(staged') = 0 /\ staged' = Positions(Sent, Len(staged))'
    BY <1>2, <1>5, <1>6 DEF Positions
  <2>3. taken + c # SceneEnd => (taken + c) % chunk = 0
    BY <1>15
  <2>4. QED
    BY <1>1, <1>2, <1>13, <2>1, <2>2, <2>3, PartitionIs DEF InputInOrder
<1>17. \E j \in BOOLEAN : (j <=> Ending') /\ Owed(fir', lfeDelay', mixed', taken + c, j) /\ Len(mixed') = taken + c
  <2>1. CASE backend = "direct"
    <3>1. RenderedDirect(ps)
      BY <1>3, <2>1
    <3>2. PICK j \in BOOLEAN : j <=> Ending'
      OBVIOUS
    <3>3. Owed(fir', lfeDelay', mixed', taken + c, j) /\ Len(mixed') = taken + c
      BY <1>2, <1>4, <1>6, <1>9, <1>12, <2>1, <3>1, DirectRendered
    <3>4. QED
      BY <3>2, <3>3
  <2>2. CASE backend = "partitioned" /\ c = chunk
    <3>1. RenderedPartition(Positions(taken, Partition)) /\ c = Partition
      BY <1>3, <1>4, <2>2
    <3>2. Owed(fir', lfeDelay', mixed', taken + c, FALSE) /\ Len(mixed') = taken + c
      BY <1>2, <1>4, <1>6, <1>12, <2>2, <3>1, PartitionRendered
    <3>3. ~Ending'
      <4>1. (taken + c) % chunk = 0
        BY <1>15, <2>2
      <4>2. QED
        BY <1>14, <4>1
    <3>4. QED
      BY <3>2, <3>3
  <2>3. CASE backend = "partitioned" /\ c # chunk
    <3>1. RenderedLast(Positions(taken, c)) /\ c \in 0 .. Partition - 1
      BY <1>3, <1>4, <1>9, <2>3
    <3>2. Owed(fir', lfeDelay', mixed', taken + c, TRUE) /\ Len(mixed') = taken + c
      BY <1>2, <1>4, <1>6, <1>12, <2>3, <3>1, LastRendered
    <3>3. Ending'
      BY <1>14, <1>15, <2>3
    <3>4. QED
      BY <3>2, <3>3
  <2>4. QED
    BY <1>4, <2>1, <2>2, <2>3
<1>18. UNCHANGED <<filterConfig, stream>> /\ phase' # "done"
  BY <1>2
<1>19. QED
  BY <1>1, <1>14, <1>16, <1>17, <1>18, StepKeeps

\* the end of the input, with what is staged;
LEMMA EndInputKeeps ==
  ASSUME FilterInv, EndInput
  PROVE  FilterInv'
<1>1. FilterConfigured /\ InputInOrder
  BY DEF FilterInv
<1>2. /\ phase = "input" /\ ~fir.failed /\ todo = 0 /\ (driver = "scene" => taken = SceneEnd)
      /\ phase' = "tail" /\ staged' = <<>>
      /\ UNCHANGED <<filterConfig, todo, taken, stream>>
  BY DEF EndInput, Taking
<1>3. IF backend = "partitioned" /\ (driver = "scene" => SceneEnd % chunk = 0)
      THEN RenderedLast(staged)
      ELSE UNCHANGED <<fir, mixed, lfeDelay>>
  BY DEF EndInput
<1>4. backend \in {"direct", "partitioned"} /\ withLfe \in BOOLEAN
  BY <1>1 DEF FilterConfigured
<1>5. PICK n, b : /\ n = Sent /\ b \in BOOLEAN /\ (b <=> Ending)
                  /\ Owed(fir, lfeDelay, mixed, n, b) /\ Len(mixed) = n
  BY <1>2 DEF FilterInv, OutputDue
<1>6. UNCHANGED <<driver, backend, scene, chunk>> /\ SceneEnd' = SceneEnd
  BY <1>2 DEF filterConfig, SceneEnd, Sources
<1>7. Len(staged') = 0 /\ staged' = Positions(Sent, Len(staged))'
  BY <1>2 DEF Positions
<1>8. Ending'
  BY <1>2 DEF Ending
<1>9. taken \in Nat /\ Sent' = taken
  BY <1>1, <1>2, <1>7 DEF InputInOrder, Sent
<1>10. InputInOrder'
  <2>1. driver = "scene" => taken <= SceneEnd
    BY <1>1 DEF InputInOrder
  <2>2. todo' = 0 /\ taken' \in Nat
    BY <1>2, <1>9
  <2>3. QED
    BY <1>2, <1>6, <1>7, <2>1, <2>2, PartitionIs DEF InputInOrder
<1>11. Owed(fir', lfeDelay', mixed', taken, TRUE)
  <2>1. CASE backend = "partitioned" /\ (driver = "scene" => SceneEnd % chunk = 0)
    <3> DEFINE l == Len(staged)
    <3>1. l \in 0 .. Partition - 1 /\ staged = Positions(n, l)
      BY <1>1, <1>5 DEF InputInOrder
    <3>2. RenderedLast(Positions(n, l))
      BY <1>3, <2>1, <3>1
    <3>3. ~Ending
      BY <1>2, <2>1 DEF Ending
    <3>4. Owed(fir, lfeDelay, mixed, n, FALSE) /\ n \in Nat
      BY <1>5, <3>3 DEF Owed
    <3>5. n + l = taken
      <4>1. l \in Int /\ n = taken - l
        BY <1>5, <3>1, PartitionIs DEF Sent
      <4> HIDE DEF l
      <4>2. QED
        BY <1>9, <4>1
    <3> HIDE DEF l
    <3>6. Owed(fir', lfeDelay', mixed', n + l, TRUE)
      BY <1>2, <1>4, <1>5, <2>1, <3>1, <3>2, <3>4, LastRendered
    <3>7. QED
      BY <3>5, <3>6
  <2>2. CASE ~(backend = "partitioned" /\ (driver = "scene" => SceneEnd % chunk = 0))
    <3>1. UNCHANGED <<fir, mixed, lfeDelay>>
      BY <1>3, <2>2
    <3>2. Len(staged) = 0
      <4>1. backend = "direct" \/ driver = "scene"
        BY <1>4, <2>2
      <4>2. QED
        BY <1>1, <4>1 DEF InputInOrder
    <3>3. n = taken
      BY <1>1, <1>5, <3>2, NothingStaged
    <3>4. Owed(fir, lfeDelay, mixed, taken, TRUE)
      <4>1. CASE backend = "direct"
        <5>1. EngineIs(fir, b, Len(mixed), n) <=> EngineIs(fir, TRUE, Len(mixed), n)
          BY <4>1 DEF EngineIs
        <5>2. QED
          BY <1>5, <3>3, <5>1 DEF Owed
      <4>2. CASE backend # "direct"
        <5>1. Ending
          BY <1>2, <1>4, <2>2, <4>2 DEF Ending
        <5>2. b = TRUE
          BY <1>5, <5>1
        <5>3. QED
          BY <1>5, <3>3, <5>2
      <4>3. QED
        BY <4>1, <4>2
    <3>5. QED
      BY <3>1, <3>4
  <2>3. QED
    BY <2>1, <2>2
<1>12. /\ UNCHANGED <<filterConfig, stream>>
       /\ phase' = "tail"
  BY <1>2
<1>13. QED
  BY <1>1, <1>8, <1>9, <1>10, <1>11, <1>12, StepKeeps

\* Between blocks of the tail nothing is taken.
TailKeeps ==
  UNCHANGED <<filterConfig, staged, todo, taken, stream>>

\* In the tail all was taken, and the engine knows.
LEMMA TailInOrder ==
  ASSUME FilterInv, phase = "tail", TailKeeps, phase' \in {"tail", "done"}
  PROVE  /\ InputInOrder' /\ Ending' /\ Sent' = Sent
         /\ FilterConfigured /\ UNCHANGED <<filterConfig, stream>>
         /\ Owed(fir, lfeDelay, mixed, Sent, TRUE)
<1>1. FilterConfigured /\ InputInOrder
  BY DEF FilterInv
<1>2. UNCHANGED <<driver, backend, scene, chunk>> /\ SceneEnd' = SceneEnd
  BY DEF TailKeeps, filterConfig, SceneEnd, Sources
<1>3. Sent' = Sent /\ Ending /\ Ending'
  BY DEF TailKeeps, Sent, Ending
<1>4. Len(staged) = 0 /\ todo = 0
  BY <1>1 DEF InputInOrder
<1>5. driver = "scene" => taken <= SceneEnd /\ taken = SceneEnd
  BY <1>1 DEF InputInOrder
<1>6. staged' = Positions(Sent, Len(staged))'
  <2>1. staged = Positions(Sent, Len(staged)) /\ staged' = staged /\ taken' = taken
    BY <1>1 DEF InputInOrder, TailKeeps
  <2>2. QED
    BY <2>1 DEF Positions, Sent
<1>7. InputInOrder'
  BY <1>1, <1>2, <1>4, <1>5, <1>6 DEF InputInOrder, TailKeeps
<1>8. PICK n, b : n = Sent /\ b \in BOOLEAN /\ (b <=> Ending) /\ Owed(fir, lfeDelay, mixed, n, b)
  BY DEF FilterInv, OutputDue
<1>9. Owed(fir, lfeDelay, mixed, Sent, TRUE)
  <2>1. b = TRUE
    BY <1>3, <1>8
  <2>2. QED
    BY <1>8, <2>1
<1>10. QED
  BY <1>1, <1>3, <1>7, <1>9 DEF TailKeeps

\* a block of the tail;
LEMMA DrainTailKeeps ==
  ASSUME FilterInv, DrainTail
  PROVE  FilterInv'
<1>1. /\ phase = "tail" /\ phase' = "tail"
      /\ TailKeeps
  BY DEF DrainTail, Draining, TailKeeps
<1>2. /\ InputInOrder' /\ Ending' /\ Sent' = Sent
      /\ FilterConfigured /\ UNCHANGED <<filterConfig, stream>>
      /\ Owed(fir, lfeDelay, mixed, Sent, TRUE)
  BY <1>1, TailInOrder
<1>3. Sent \in Nat
  BY <1>2 DEF Owed
<1>4. Owed(fir', lfeDelay', mixed', Sent, TRUE)
  <2>1. SceneTyped /\ backend \in {"direct", "partitioned"} /\ withLfe \in BOOLEAN /\ chunk \in Nat \ {0}
    BY <1>2 DEF FilterConfigured
  <2>2. QED
    BY <1>2, <1>3, <2>1, Drained
<1>5. PICK n : n = Sent
  OBVIOUS
<1>6. Owed(fir', lfeDelay', mixed', n, TRUE) /\ n = Sent'
  BY <1>2, <1>4, <1>5
<1>7. QED
  BY <1>1, <1>2, <1>6, StepKeeps

\* the end of the tail, which is as long as the longest filter requires;
LEMMA TailDoneKeeps ==
  ASSUME FilterInv, TailDone
  PROVE  FilterInv'
<1>1. /\ phase = "tail" /\ ~fir.failed /\ TailLength = 0 /\ phase' = "done"
      /\ TailKeeps
      /\ UNCHANGED <<fir, lfeDelay, mixed>>
  BY DEF TailDone, Draining, TailKeeps
<1>2. /\ InputInOrder' /\ Ending' /\ Sent' = Sent
      /\ FilterConfigured /\ UNCHANGED <<filterConfig, stream>>
      /\ Owed(fir, lfeDelay, mixed, Sent, TRUE)
  BY <1>1, TailInOrder
<1>3. PICK n : n = Sent
  OBVIOUS
<1>4. Owed(fir, lfeDelay, mixed, n, TRUE) /\ n \in Nat /\ Len(mixed) - n \in 0 .. MaxTaps - 1
  BY <1>2, <1>3 DEF Owed
<1>5. Left(MaxTaps - 1, Len(mixed) - n, n) = 0
  <2>1. withLfe \in BOOLEAN /\ chunk \in Nat \ {0}
    BY <1>2 DEF FilterConfigured
  <2>2. TailLeft = Left(MaxTaps - 1, Len(mixed) - n, n) /\ TailLeft = 0
    BY <1>1, <1>4, <2>1, TailLengthIs
  <2>3. QED
    BY <2>2
<1>6. n > 0 => Len(mixed) - n = MaxTaps - 1
  <2> DEFINE r == Len(mixed) - n
  <2>1. r \in 0 .. MaxTaps - 1 /\ Left(MaxTaps - 1, r, n) = 0
    BY <1>4, <1>5
  <2> HIDE DEF r
  <2>2. n > 0 => r = MaxTaps - 1
    BY <1>4, <2>1, MaxTapsIs DEF Left
  <2>3. QED
    BY <2>2 DEF r
<1>7. Owed(fir', lfeDelay', mixed', n, TRUE) /\ n = Sent' /\ (n > 0 => Len(mixed') - n = MaxTaps - 1)
  BY <1>1, <1>2, <1>3, <1>4, <1>6
<1>8. QED
  BY <1>1, <1>2, <1>7, StepKeeps

\* a failure, after which nothing is put out.
LEMMA FailFilterKeeps ==
  ASSUME FilterInv, FailFilter
  PROVE  FilterInv'
<1>1. FilterConfigured /\ InputInOrder
  BY DEF FilterInv
<1>2. /\ phase # "done" /\ ~fir.failed /\ fir' = [fir EXCEPT !.failed = TRUE] /\ todo' = 0
      /\ UNCHANGED <<filterConfig, lfeDelay, staged, phase, mixed, taken, stream>>
  BY DEF FailFilter, Taking, Draining
<1>3. PICK n, b : /\ n = Sent /\ b \in BOOLEAN /\ (b <=> Ending)
                  /\ Owed(fir, lfeDelay, mixed, n, b) /\ (phase = "input" => Len(mixed) = n)
  BY DEF FilterInv, OutputDue
<1>4. UNCHANGED <<driver, backend, scene, chunk>> /\ SceneEnd' = SceneEnd
  BY <1>2 DEF filterConfig, SceneEnd, Sources
<1>5. Sent' = Sent /\ (Ending' <=> Ending)
  BY <1>2, <1>4 DEF Sent, Ending
<1>6. InputInOrder'
  <2>1. staged' = Positions(Sent, Len(staged))'
    <3>1. staged' = Positions(Sent', Len(staged'))
      BY <1>1, <1>2, <1>5 DEF InputInOrder
    <3>2. QED
      BY <3>1 DEF Positions
  <2>2. QED
    BY <1>1, <1>2, <1>4, <2>1 DEF InputInOrder
<1>7. fir'.failed
  <2>1. EngineIs(fir, b, Len(mixed), n)
    BY <1>2, <1>3 DEF Owed
  <2>2. DirectIs(fir, Len(mixed), n) \/ \E at, left : PartitionedIs(fir, at, left, Len(mixed), n)
    BY <2>1 DEF EngineIs
  <2>3. "failed" \in DOMAIN fir
    BY <2>2 DEF DirectIs, PartitionedIs
  <2>4. QED
    BY <1>2, <2>3
<1>8. Owed(fir', lfeDelay', mixed', n, b)
  BY <1>2, <1>3, <1>7 DEF Owed
<1>9. /\ n = Sent' /\ (b <=> Ending') /\ phase' # "done"
      /\ UNCHANGED <<filterConfig, stream>>
      /\ (phase' = "input" => Len(mixed') = n)
  BY <1>2, <1>3, <1>5
<1>10. QED
  BY <1>1, <1>3, <1>6, <1>8, <1>9, StepKeeps

\* A reset starts a stream.
LEMMA ResetFiltersStarts ==
  ASSUME FilterInv, ResetFilters
  PROVE  Started'
<1>1. FilterConfigured
  BY DEF FilterInv
<1>2. /\ todo = 0 /\ fir' = NewEngine /\ lfeDelay' = NewDelay(Len(lfeDelay.line))
      /\ staged' = <<>> /\ phase' = "input" /\ mixed' = <<>> /\ taken' = 0
      /\ UNCHANGED <<filterConfig, todo>>
  BY DEF ResetFilters
<1>3. FilterConfigured'
  BY <1>1, <1>2 DEF FilterConfigured, filterConfig, SceneTyped, Sources
<1>4. NewEngine' = NewEngine
  BY <1>2 DEF filterConfig, NewEngine, DirectNew, PartitionedNew
<1>5. PICK m, n, d \in Nat : d < MaxTaps /\ DelayIs(lfeDelay, d, m, n)
  BY DEF FilterInv, OutputDue, Owed
<1>6. Len(lfeDelay.line) = d
  BY <1>5, DelayLength
<1>7. \E k \in Nat : k < MaxTaps /\ lfeDelay' = NewDelay(k)
  BY <1>2, <1>5, <1>6
<1>8. \E k \in Nat : k < MaxTaps /\ lfeDelay' = NewDelay(k)'
  BY <1>7 DEF NewDelay, Zeros
<1>9. QED
  BY <1>2, <1>3, <1>4, <1>8 DEF Started

\* Every step but a reset keeps the invariant.
LEMMA FilterKeeps ==
  ASSUME FilterInv, [FilterNext]_filterVars, ~ResetFilters
  PROVE  FilterInv'
<1>1. ASSUME NEW c \in BlockSizes, RenderDirect(c)  PROVE FilterInv'
  BY <1>1, RenderDirectKeeps
<1>2. ASSUME NEW c \in BlockSizes, TakeBlock(c)  PROVE FilterInv'
  BY <1>2, TakeBlockKeeps
<1>3. CASE StageSamples
  BY <1>3, StageSamplesKeeps
<1>4. CASE RenderScene
  BY <1>4, RenderSceneKeeps
<1>5. CASE EndInput
  BY <1>5, EndInputKeeps
<1>6. CASE DrainTail
  BY <1>6, DrainTailKeeps
<1>7. CASE TailDone
  BY <1>7, TailDoneKeeps
<1>8. CASE FailFilter
  BY <1>8, FailFilterKeeps
<1>9. CASE UNCHANGED filterVars
  <2>1. /\ UNCHANGED <<filterConfig, fir, lfeDelay, staged, todo, phase, mixed, taken, stream>>
        /\ FilterConfigured /\ InputInOrder
    BY <1>9 DEF filterVars, FilterInv
  <2>2. PICK n, b : /\ n = Sent /\ b \in BOOLEAN /\ (b <=> Ending)
                    /\ Owed(fir, lfeDelay, mixed, n, b) /\ (phase = "input" => Len(mixed) = n)
                    /\ (phase = "done" /\ n > 0 => Len(mixed) - n = MaxTaps - 1)
    BY DEF FilterInv, OutputDue
  <2>3. UNCHANGED <<driver, backend, scene, chunk>> /\ SceneEnd' = SceneEnd
    BY <2>1 DEF filterConfig, SceneEnd, Sources
  <2>4. Sent' = Sent /\ (Ending' <=> Ending)
    BY <2>1, <2>3 DEF Sent, Ending
  <2>5. InputInOrder'
    <3>1. staged' = Positions(Sent', Len(staged'))
      BY <2>1, <2>4 DEF InputInOrder
    <3>2. staged' = Positions(Sent, Len(staged))'
      BY <3>1 DEF Positions
    <3>3. QED
      BY <2>1, <2>3, <3>2 DEF InputInOrder
  <2>6. /\ n = Sent' /\ (b <=> Ending') /\ Owed(fir', lfeDelay', mixed', n, b)
        /\ (phase' = "input" => Len(mixed') = n)
        /\ (phase' = "done" /\ n > 0 => Len(mixed') - n = MaxTaps - 1)
        /\ UNCHANGED <<filterConfig, stream>>
    BY <2>1, <2>2, <2>4
  <2>7. QED
    BY <2>1, <2>2, <2>5, <2>6, StepKeeps
<1>10. QED
  BY <1>1, <1>2, <1>3, <1>4, <1>5, <1>6, <1>7, <1>8, <1>9 DEF FilterNext

\* The inductive invariant of the binaural filters: at every moment the engine, the delay
\* of the LFE and what is staged hold exactly what the samples still to be put out need of
\* the input so far (update_binaural_history, process_candidate, SampleDelay).
THEOREM FilterInvariant == FilterSpec => []FilterInv
<1>1. FilterInit => FilterInv
  BY FilterStarts
<1>2. FilterInv /\ [FilterNext]_filterVars /\ ~ResetFilters => FilterInv'
  BY FilterKeeps
<1>3. FilterInv /\ ResetFilters => Started'
  BY ResetFiltersStarts
<1>4. Started => FilterInv
  BY StartedHolds
<1>5. FilterInv /\ [FilterNext]_filterVars => FilterInv'
  BY <1>2, <1>3, <1>4, PTL
<1>6. QED
  BY <1>1, <1>5, PTL DEF FilterSpec

\* The invariant says that the output is exact.  What is staged adds to no sample yet.
LEMMA ExactlyOnce ==
  ASSUME FilterInv
  PROVE  EveryTapOnce
<1>1. FilterConfigured /\ InputInOrder
  BY DEF FilterInv
<1>2. PICK n, b : /\ n = Sent /\ Owed(fir, lfeDelay, mixed, n, b)
                  /\ (phase = "input" => Len(mixed) = n)
                  /\ (phase = "done" /\ n > 0 => Len(mixed) - n = MaxTaps - 1)
  BY DEF FilterInv, OutputDue
<1>3. n \in Nat /\ Len(mixed) - n \in 0 .. MaxTaps - 1
  BY <1>2 DEF Owed
<1>4. PICK d \in Nat : d < MaxTaps /\ OutputIs(mixed, d, n) /\ DelayIs(lfeDelay, d, Len(mixed), n)
  BY <1>2 DEF Owed
<1>5. Len(lfeDelay.line) = d
  BY <1>4, DelayLength
<1>6. taken \in Nat /\ Len(staged) \in 0 .. Partition - 1 /\ withLfe \in BOOLEAN
  BY <1>1 DEF InputInOrder, FilterConfigured
<1> DEFINE l == Len(staged)
           m == Len(mixed)
<1>7. m \in Nat /\ l \in Nat /\ n = taken - l
  BY <1>2, <1>4, <1>6, PartitionIs DEF OutputIs, Sent
<1>8. OutputIs(mixed, d, taken)
  <2>1. CASE l = 0
    <3>1. n = taken
      BY <1>6, <1>7, <2>1
    <3>2. QED
      BY <1>4, <3>1
  <2>2. CASE l # 0
    <3>1. phase = "input"
      BY <1>1, <1>7, <2>2 DEF InputInOrder
    <3>2. Len(mixed) = n
      BY <1>2, <3>1
    <3>3. n \in Int /\ taken \in Int /\ Len(mixed) <= n /\ Len(mixed) <= taken
      <4>1. n <= taken
        BY <1>3, <1>6, <1>7
      <4>2. QED
        BY <1>3, <1>6, <3>2, <4>1
    <3>4. QED
      BY <1>4, <3>3, OutputGrows
  <2>3. QED
    BY <2>1, <2>2
<1>9. ASSUME NEW k \in 1 .. Len(mixed)  PROVE IsInjective(mixed[k]) /\ Range(mixed[k]) = Convolution(k)
  <2>1. k \in Int /\ 0 + k = k
    BY <1>7
  <2>2. Lists(mixed[k], Terms(0 + k, d, taken))
    BY <1>8 DEF OutputIs, Sampled
  <2>3. Convolution(k) = Terms(k, d, taken)
    BY <1>5, <1>6, <2>1, ConvolutionIs
  <2>4. QED
    BY <2>1, <2>2, <2>3 DEF Lists
<1>10. Len(mixed) >= taken - Len(staged)
  <2> HIDE DEF l, m
  <2>1. m >= n
    BY <1>3, <1>7, MaxTapsIs DEF m
  <2>2. QED
    BY <1>7, <2>1 DEF l, m
<1>11. ASSUME phase = "done", taken > 0
       PROVE  Len(mixed) = taken + Max({MaxTaps - 1, IF withLfe THEN Len(lfeDelay.line) ELSE 0})
  <2>1. l = 0
    BY <1>1, <1>7, <1>11 DEF InputInOrder
  <2>2. n = taken
    BY <1>6, <1>7, <2>1
  <2>3. m - taken = MaxTaps - 1
    BY <1>2, <1>11, <2>2
  <2> DEFINE bass == IF withLfe THEN Len(lfeDelay.line) ELSE 0
  <2>4. bass \in Int /\ MaxTaps - 1 \in Int /\ MaxTaps - 1 >= bass
    BY <1>4, <1>5, <1>6, MaxTapsIs
  <2> HIDE DEF bass
  <2>5. Max({MaxTaps - 1, bass}) = MaxTaps - 1
    BY <2>4, MaxOfTwo
  <2> HIDE DEF m
  <2>6. m = taken + (MaxTaps - 1)
    BY <1>6, <1>7, <2>3, <2>4
  <2>7. QED
    BY <2>5, <2>6 DEF bass, m
<1>12. QED
  BY <1>9, <1>10, <1>11 DEF EveryTapOnce

\* Whatever the sizes of blocks, chunks, partitions and filters, either engine puts out
\* the exact convolution of this stream, each tap of each source once and on its own
\* sample, with the LFE in step, and a tail exactly as long as the longest filter requires
\* (render_range, render_partitioned_block, render_to_staging, drain_tail_block, reset).
THEOREM EveryTapOnceHolds == FilterSpec => []EveryTapOnce
<1>1. FilterInv => EveryTapOnce
  BY ExactlyOnce
<1>2. QED
  BY <1>1, FilterInvariant, PTL
=============================================================================
