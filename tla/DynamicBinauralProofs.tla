------------------------ MODULE DynamicBinauralProofs ------------------------
(***************************************************************************)
(* Proofs about DynamicBinaural, for every set of poses, every tap count,  *)
(* fade and block length, and every bound on indices, sequences, epochs.   *)
(***************************************************************************)
EXTENDS DynamicBinaural, TLAPS

(***************************************************************************)
(* The part of the inductive invariant that is about the slots alone, for  *)
(* a stream epoch e and a latest accepted sequence n.                      *)
(***************************************************************************)
SlotsInv(s, e, n) ==
  /\ s \in Slots
  /\ s.current.epoch = e
  /\ Fading(s) => s.targetSeq # None /\ s.targetSeq = s.currentSeq
  /\ ~Fading(s) => s.current.seq = s.currentSeq
  /\ s.targetSeq # None =>
       s.target # None /\ s.target.seq = s.targetSeq /\ s.target.epoch = e
  /\ s.pendingSeq # None =>
       s.pending # None /\ s.pending.seq = s.pendingSeq /\ s.pending.epoch = e
  /\ s.pendingSeq # None => Fading(s)
  /\ IF Waiting(s) = None THEN s.currentSeq = n
                          ELSE Waiting(s) = n /\ s.currentSeq < n

\* The slots that hold one initial kernel set, of sequence 0, satisfy it.
LEMMA InitialSlotsInv ==
  ASSUME NEW e \in 0 .. MaxEpoch
  PROVE  SlotsInv(InitialSlots(e), e, 0)
BY ConstantsAssumption
   DEF SlotsInv, InitialSlots, Slots, Option, KernelSets, SequenceNumbers, KernelSet, Fading, Waiting

\* Queueing a newer kernel set of the same epoch makes it the one waiting.
LEMMA QueueInv ==
  ASSUME NEW e \in Nat, NEW n \in SequenceNumbers, NEW s, SlotsInv(s, e, n),
         NEW k \in KernelSets, k.epoch = e, k.seq > n
  PROVE  SlotsInv(Queue(s, k), e, k.seq)
<1> USE DEF Option, SequenceNumbers
<1>1. /\ s \in Slots
      /\ k # None /\ k.seq \in SequenceNumbers /\ k.seq # None
  BY ConstantsAssumption DEF SlotsInv, KernelSets
<1>2. CASE Fading(s)
  <2>1. Queue(s, k) = [s EXCEPT !.pending = k, !.pendingSeq = k.seq]
    BY <1>2 DEF Queue
  <2>2. Queue(s, k) \in Slots
    BY <1>1, <2>1 DEF Slots
  <2>3. s.currentSeq < k.seq
    BY <1>1, <1>2, ConstantsAssumption DEF SlotsInv, Waiting, Slots
  <2>4. QED
    BY <1>1, <1>2, <2>1, <2>2, <2>3 DEF SlotsInv, Fading, Waiting, Slots
<1>3. CASE ~Fading(s)
  <2>1. Queue(s, k) = [s EXCEPT !.target = k, !.targetSeq = k.seq]
    BY <1>3 DEF Queue
  <2>2. Queue(s, k) \in Slots
    BY <1>1, <2>1 DEF Slots
  <2>3. s.currentSeq < k.seq
    BY <1>1, <1>3, ConstantsAssumption DEF SlotsInv, Waiting, Slots
  <2>4. QED
    BY <1>1, <1>3, <2>1, <2>2, <2>3 DEF SlotsInv, Fading, Waiting, Slots
<1>4. QED
  BY <1>2, <1>3

\* Starting the target keeps it: what waited is now what is heard.
LEMMA BeginTargetInv ==
  ASSUME NEW e \in Nat, NEW n \in SequenceNumbers, NEW s, SlotsInv(s, e, n)
  PROVE  SlotsInv(BeginTarget(s), e, n)
<1> USE DEF Option, SequenceNumbers
<1>1. CASE Fading(s) \/ s.targetSeq = None
  BY <1>1 DEF BeginTarget
<1>2. CASE ~(Fading(s) \/ s.targetSeq = None)
  <2>1. /\ s \in Slots
        /\ s.target \in KernelSets /\ s.targetSeq \in SequenceNumbers
        /\ s.targetSeq = n /\ s.pendingSeq = None /\ s.progress = None
        /\ n # None /\ 0 # None
    BY <1>2, ConstantsAssumption DEF SlotsInv, Slots, Fading, Waiting
  <2>2. CASE s.current.pose = s.target.pose
    <3>1. BeginTarget(s) = [s EXCEPT !.current = s.target, !.target = s.current,
                                     !.currentSeq = s.targetSeq, !.targetSeq = None]
      BY <1>2, <2>2 DEF BeginTarget
    <3>2. BeginTarget(s) \in Slots
      BY <2>1, <3>1 DEF Slots
    <3>3. QED
      BY <1>2, <2>1, <3>1, <3>2 DEF SlotsInv, Fading, Waiting, Slots
  <2>3. CASE s.current.pose # s.target.pose
    <3>1. BeginTarget(s) = [s EXCEPT !.currentSeq = s.targetSeq, !.progress = 0]
      BY <1>2, <2>3 DEF BeginTarget
    <3>2. 0 \in 0 .. TransitionSamples - 1
      BY ConstantsAssumption
    <3>3. BeginTarget(s) \in Slots
      BY <2>1, <3>1, <3>2 DEF Slots
    <3>4. QED
      BY <1>2, <2>1, <3>1, <3>3 DEF SlotsInv, Fading, Waiting, Slots
  <2>4. QED
    BY <2>2, <2>3
<1>3. QED
  BY <1>1, <1>2

\* So does one sample of a fade, the last one included.
LEMMA AdvanceInv ==
  ASSUME NEW e \in Nat, NEW n \in SequenceNumbers, NEW s, SlotsInv(s, e, n)
  PROVE  SlotsInv(AdvanceTransition(s), e, n)
<1> USE DEF Option, SequenceNumbers
<1>1. CASE ~Fading(s)
  BY <1>1 DEF AdvanceTransition
<1>2. CASE Fading(s)
  <2>1. /\ s \in Slots
        /\ s.progress \in 0 .. TransitionSamples - 1
        /\ s.target \in KernelSets /\ s.targetSeq \in SequenceNumbers
        /\ s.targetSeq = s.currentSeq
        /\ n # None
    BY <1>2, ConstantsAssumption DEF SlotsInv, Slots, Fading
  <2>2. CASE s.progress + 1 < TransitionSamples
    <3>1. AdvanceTransition(s) = [s EXCEPT !.progress = s.progress + 1]
      BY <1>2, <2>1, <2>2, ConstantsAssumption DEF AdvanceTransition
    <3>2. s.progress + 1 \in 0 .. TransitionSamples - 1 /\ s.progress + 1 # None
      BY <2>1, <2>2, ConstantsAssumption
    <3>3. AdvanceTransition(s) \in Slots
      BY <2>1, <3>1, <3>2 DEF Slots
    <3>4. QED
      BY <1>2, <2>1, <3>1, <3>2, <3>3 DEF SlotsInv, Fading, Waiting, Slots
  <2>3. CASE s.progress + 1 >= TransitionSamples
    <3>1. AdvanceTransition(s) = FinishTransition(s)
      BY <1>2, <2>3 DEF AdvanceTransition
    <3>2. CASE s.pendingSeq # None
      <4>1. FinishTransition(s) = [s EXCEPT !.current = s.target, !.progress = None,
                                            !.target = s.pending, !.targetSeq = s.pendingSeq,
                                            !.pending = s.current, !.pendingSeq = None]
        BY <3>2 DEF FinishTransition
      <4>2. FinishTransition(s) \in Slots
        BY <2>1, <4>1 DEF Slots
      <4>3. QED
        BY <1>2, <2>1, <3>1, <3>2, <4>1, <4>2 DEF SlotsInv, Fading, Waiting, Slots
    <3>3. CASE s.pendingSeq = None
      <4>1. FinishTransition(s) = [s EXCEPT !.current = s.target, !.progress = None,
                                            !.target = s.current, !.targetSeq = None]
        BY <3>3 DEF FinishTransition
      <4>2. FinishTransition(s) \in Slots
        BY <2>1, <4>1 DEF Slots
      <4>3. QED
        BY <1>2, <2>1, <3>1, <3>3, <4>1, <4>2 DEF SlotsInv, Fading, Waiting, Slots
    <3>4. QED
      BY <3>2, <3>3
  <2>4. QED
    BY <2>1, <2>2, <2>3, ConstantsAssumption
<1>3. QED
  BY <1>1, <1>2

-----------------------------------------------------------------------------
(***************************************************************************)
(* The inductive invariant.  TypeOK is not inductive by itself: that the   *)
(* target and the waiting kernel set exist when they are swapped in is     *)
(* SlotsInv, that the sample count stays in range is CallFits, and what a  *)
(* receipt says of the slots is ReceiptInv.                                *)
(***************************************************************************)
CallFits == call # None => call.offset <= call.length /\ count + call.length <= MaxIndex

ReceiptInv ==
  IF lastApplied = None THEN slots.currentSeq = 0 ELSE lastApplied.seq = slots.currentSeq

IInv ==
  /\ TypeOK
  /\ SlotsInv(slots, epoch, lastAccepted)
  /\ CallFits
  /\ ReceiptInv

LEMMA InitInv == Init => IInv
<1> SUFFICES ASSUME Init PROVE IInv
  OBVIOUS
<1>1. SlotsInv(slots, epoch, lastAccepted)
  BY InitialSlotsInv, ConstantsAssumption DEF Init
<1>2. TypeOK
  BY <1>1, ConstantsAssumption
     DEF Init, TypeOK, SlotsInv, Lifecycles, Option, SequenceNumbers
<1>3. CallFits /\ ReceiptInv
  BY DEF Init, CallFits, ReceiptInv, InitialSlots
<1>4. QED
  BY <1>1, <1>2, <1>3 DEF IInv

\* The length of the tail that is left to drain is a number.
LEMMA TailType ==
  ASSUME NEW e, NEW n, NEW s, SlotsInv(s, e, n)
  PROVE  AudibleTail(s) \in Nat
<1>1. /\ s.current \in KernelSets
      /\ Fading(s) => s.target \in KernelSets
  BY DEF SlotsInv, Slots, Option
<1>2. ASSUME NEW k \in KernelSets PROVE TailOf(k) \in Nat
  <2>1. Taps[k.pose] \in Nat \ {0}
    BY ConstantsAssumption DEF KernelSets
  <2>2. QED
    BY <2>1 DEF TailOf
<1>3. QED
  BY <1>1, <1>2 DEF AudibleTail, Larger

\* An accepted update, including one that supersedes another.
LEMMA ApplyInv ==
  ASSUME IInv, NEW e \in 0 .. MaxEpoch, NEW s \in SequenceNumbers, NEW p \in Poses, Apply(e, s, p)
  PROVE  IInv'
<1> DEFINE k == KernelSet(e, s, p)
<1>1. k \in KernelSets /\ k.epoch = epoch /\ k.seq = s /\ s > lastAccepted
  BY DEF Apply, CanApply, KernelSet, KernelSets
<1>2. epoch \in Nat /\ lastAccepted \in SequenceNumbers
  BY ConstantsAssumption DEF IInv, TypeOK
<1>3. SlotsInv(slots, epoch, lastAccepted)'
  BY <1>1, <1>2, QueueInv DEF IInv, Apply
<1>4. slots'.currentSeq = slots.currentSeq
  BY DEF Apply, Queue, IInv, SlotsInv, Slots
<1>5. Waiting(slots) \in Option(SequenceNumbers)
  BY DEF IInv, SlotsInv, Slots, Waiting
<1>6. Displaced(slots) \subseteq KernelSets
  BY DEF IInv, SlotsInv, Slots, Displaced, Option
<1>7. TypeOK'
  BY <1>3, <1>5, <1>6 DEF IInv, TypeOK, Apply, SlotsInv, Option
<1>8. CallFits' /\ ReceiptInv'
  BY <1>4 DEF IInv, CallFits, ReceiptInv, Apply
<1>9. QED
  BY <1>3, <1>7, <1>8 DEF IInv

\* Entering a rendering call, and the calls that only move the lifecycle.
LEMMA LifecycleInv ==
  ASSUME IInv,
         \/ \E n \in 1 .. MaxBlock : StartBlock(n) \/ StartReconstruction(n) \/ StartDrain(n)
         \/ DrainNothing \/ BeginDrain \/ ExhaustEpochs
  PROVE  IInv'
<1>1. CASE DrainNothing \/ BeginDrain \/ ExhaustEpochs
  BY <1>1 DEF IInv, TypeOK, CallFits, ReceiptInv, Lifecycles, history,
              DrainNothing, BeginDrain, ExhaustEpochs
<1>2. ASSUME NEW n \in 1 .. MaxBlock, StartBlock(n) \/ StartReconstruction(n) \/ StartDrain(n)
      PROVE  IInv'
  <2>1. \E kind \in {"block", "reconstruction", "drain"} :
           BeginCall(kind, n) /\ lifecycle' \in {lifecycle, "Draining"}
    BY <1>2 DEF StartBlock, StartReconstruction, StartDrain
  <2>2. UNCHANGED <<epoch, slots, lastAccepted, lastApplied, count, tail, history>>
    BY <1>2 DEF StartBlock, StartReconstruction, StartDrain
  <2>3. call' \in Calls /\ CallFits'
    BY <2>1, <2>2, ConstantsAssumption DEF IInv, TypeOK, BeginCall, Calls, CallFits
  <2>4. QED
    BY <2>1, <2>2, <2>3 DEF IInv, TypeOK, Option, ReceiptInv, Lifecycles, history
<1>3. QED
  BY <1>1, <1>2

(***************************************************************************)
(* One sample, up to the point where its output is checked: the target may *)
(* have started, and the receipt says so.                                  *)
(***************************************************************************)
LEMMA ConsideredInv ==
  ASSUME IInv, call # None, call.offset < call.length
  PROVE  /\ SlotsInv(Considered, epoch, lastAccepted)
         /\ Receipt \in Receipts \/ Receipt = lastApplied
         /\ Receipt \in Option(Receipts)
         /\ IF Receipt = None THEN Considered.currentSeq = 0
                              ELSE Receipt.seq = Considered.currentSeq
<1>1. epoch \in Nat /\ lastAccepted \in SequenceNumbers
  BY ConstantsAssumption DEF IInv, TypeOK
<1>2. SlotsInv(Considered, epoch, lastAccepted)
  BY <1>1, BeginTargetInv DEF IInv, Considered
<1>3. count + call.offset \in 0 .. MaxIndex
  BY ConstantsAssumption DEF IInv, TypeOK, CallFits, Option, Calls
<1>4. slots \in Slots /\ lastApplied \in Option(Receipts)
  BY DEF IInv, TypeOK
<1>5. CASE call.kind = "block" /\ TargetBegins(slots)
  <2>1. Receipt = [seq |-> slots.targetSeq, start |-> count + call.offset]
    BY <1>5 DEF Receipt
  <2>2. slots.targetSeq \in SequenceNumbers
    BY <1>4, <1>5 DEF Slots, Option, TargetBegins
  <2>3. Receipt \in Receipts /\ Receipt # None
    BY <2>1, <2>2, <1>3, ConstantsAssumption DEF Receipts
  <2>4. Considered.currentSeq = slots.targetSeq
    BY <1>4, <1>5 DEF Considered, BeginTarget, TargetBegins, Slots
  <2>5. QED
    BY <1>2, <2>1, <2>3, <2>4 DEF Option
<1>6. CASE ~(call.kind = "block" /\ TargetBegins(slots))
  <2>1. Considered = slots
    BY <1>6 DEF Considered, BeginTarget, TargetBegins
  <2>2. CASE Receipt = lastApplied
    BY <1>2, <1>4, <2>1, <2>2 DEF IInv, ReceiptInv
  <2>3. CASE Receipt # lastApplied
    <3>1. Receipt = [seq |-> slots.currentSeq, start |-> count + call.offset]
      BY <1>6, <2>3 DEF Receipt
    <3>2. Receipt \in Receipts /\ Receipt # None
      BY <1>3, <1>4, <3>1, ConstantsAssumption DEF Receipts, Slots
    <3>3. QED
      BY <1>2, <2>1, <3>1, <3>2 DEF Option
  <2>4. QED
    BY <2>2, <2>3
<1>7. QED
  BY <1>5, <1>6

\* One iteration of the loop, its output finite or not.
LEMMA SampleInv ==
  ASSUME IInv, RenderSample \/ FailSample
  PROVE  IInv'
<1>1. call # None /\ call.offset < call.length
  BY DEF RenderSample, FailSample
<1>2. /\ SlotsInv(Considered, epoch, lastAccepted)
      /\ Receipt \in Receipts \/ Receipt = lastApplied
      /\ Receipt \in Option(Receipts)
      /\ IF Receipt = None THEN Considered.currentSeq = 0
                           ELSE Receipt.seq = Considered.currentSeq
  BY <1>1, ConsideredInv
<1>3. epoch \in Nat /\ lastAccepted \in SequenceNumbers
  BY ConstantsAssumption DEF IInv, TypeOK
<1>4. SlotsInv(AdvanceTransition(Considered), epoch, lastAccepted)
  BY <1>2, <1>3, AdvanceInv
<1>5. AdvanceTransition(Considered).currentSeq = Considered.currentSeq
  <2>1. Considered \in Slots
    BY <1>2 DEF SlotsInv
  <2>2. QED
    BY <2>1 DEF AdvanceTransition, FinishTransition, Slots
<1>6. slots' \in {Considered, AdvanceTransition(Considered)} /\ lastApplied' = Receipt
  BY DEF RenderSample, FailSample, Heard
<1>7. SlotsInv(slots, epoch, lastAccepted)' /\ ReceiptInv'
  BY <1>2, <1>4, <1>5, <1>6 DEF RenderSample, FailSample, ReceiptInv
<1>8. call' \in Option(Calls) /\ CallFits'
  <2>1. call \in Calls /\ call.offset + 1 \in 0 .. MaxBlock /\ call.offset + 1 <= call.length
    BY <1>1, ConstantsAssumption DEF IInv, TypeOK, Option, Calls
  <2>2. CASE RenderSample
    BY <2>1, <2>2, <1>1 DEF RenderSample, IInv, CallFits, Calls, Option
  <2>3. CASE FailSample
    BY <2>3 DEF FailSample, CallFits, Option
  <2>4. QED
    BY <2>2, <2>3
<1>9. applied' \subseteq SequenceNumbers
  <2>1. applied \subseteq SequenceNumbers /\ lastApplied \in Option(Receipts)
    BY DEF IInv, TypeOK
  <2>2. applied' = IF Receipt = lastApplied THEN applied ELSE applied \cup {Receipt.seq}
    BY DEF RenderSample, FailSample, Heard
  <2>3. QED
    BY <1>2, <2>1, <2>2 DEF Receipts
<1>10. TypeOK'
  BY <1>2, <1>6, <1>7, <1>8, <1>9
     DEF IInv, TypeOK, RenderSample, FailSample, Lifecycles, SlotsInv
<1>11. QED
  BY <1>7, <1>8, <1>10 DEF IInv

\* The end of a rendering call.
LEMMA EndCallInv ==
  ASSUME IInv, EndCall
  PROVE  IInv'
<1>1. call \in Calls /\ count + call.length <= MaxIndex
  BY DEF IInv, TypeOK, CallFits, EndCall, Option
<1>2. call.length \in 1 .. MaxBlock /\ count \in 0 .. MaxIndex /\ tail \in Nat /\ drained \in Nat
  BY <1>1 DEF IInv, TypeOK, Calls
<1>3. count' \in 0 .. MaxIndex
  BY <1>1, <1>2, ConstantsAssumption DEF EndCall
<1>4. /\ Minus(tail, call.length) \in Nat
      /\ drained + call.length \in Nat
  BY <1>2, ConstantsAssumption DEF Minus
<1>5. tail' \in Nat /\ drained' \in Nat /\ lifecycle' \in Lifecycles
  BY <1>4, TailType DEF EndCall, IInv, TypeOK, Lifecycles
<1>6. TypeOK'
  BY <1>3, <1>5 DEF IInv, TypeOK, EndCall, Option
<1>7. QED
  BY <1>6 DEF IInv, EndCall, CallFits, ReceiptInv

\* The next epoch starts from its identity pose.
LEMMA ResetInv ==
  ASSUME IInv, Reset
  PROVE  IInv'
<1>1. epoch' \in 0 .. MaxEpoch
  BY ConstantsAssumption DEF IInv, TypeOK, Reset
<1>2. SlotsInv(slots, epoch, lastAccepted)'
  BY <1>1, InitialSlotsInv DEF Reset
<1>3. retired' \subseteq KernelSets
  BY DEF IInv, TypeOK, Slots, Option, Reset
<1>4. TypeOK'
  BY <1>1, <1>2, <1>3, ConstantsAssumption
     DEF IInv, TypeOK, Reset, SlotsInv, Lifecycles, Option, SequenceNumbers
<1>5. QED
  BY <1>2, <1>4 DEF IInv, Reset, CallFits, ReceiptInv, InitialSlots

LEMMA NextInv == IInv /\ [Next]_vars => IInv'
<1> SUFFICES ASSUME IInv, [Next]_vars PROVE IInv'
  OBVIOUS
<1>1. CASE \E e \in 0 .. MaxEpoch, s \in SequenceNumbers, p \in Poses : Apply(e, s, p)
  BY <1>1, ApplyInv
<1>2. CASE \E n \in 1 .. MaxBlock : StartBlock(n) \/ StartReconstruction(n) \/ StartDrain(n)
  BY <1>2, LifecycleInv
<1>3. CASE DrainNothing \/ BeginDrain \/ ExhaustEpochs
  BY <1>3, LifecycleInv
<1>4. CASE RenderSample \/ FailSample
  BY <1>4, SampleInv
<1>5. CASE EndCall
  BY <1>5, EndCallInv
<1>6. CASE Reset
  BY <1>6, ResetInv
<1>7. CASE UNCHANGED vars
  BY <1>7 DEF vars, history, IInv, TypeOK, CallFits, ReceiptInv
<1>8. QED
  BY <1>1, <1>2, <1>3, <1>4, <1>5, <1>6, <1>7 DEF Next

\* The invariant holds in every reachable state.
THEOREM Invariant == Spec => []IInv
  BY InitInv, NextInv, PTL DEF Spec

\* Every variable keeps its type, the sample index included: no block is
\* ever rendered past the largest sample index.
THEOREM TypeCorrect == Spec => []TypeOK
<1>1. IInv => TypeOK
  BY DEF IInv
<1>2. QED
  BY <1>1, Invariant, PTL

\* The sequence numbers a host reads name the kernel sets being heard.
THEOREM AudibleIdentityHolds == Spec => []AudibleIdentity
<1>1. IInv => AudibleIdentity
  <2> SUFFICES ASSUME IInv PROVE AudibleIdentity
    OBVIOUS
  <2>1. slots.current # None
    BY ConstantsAssumption DEF IInv, SlotsInv, Slots
  <2>2. QED
    BY <2>1 DEF IInv, SlotsInv, ReceiptInv, AudibleIdentity
<1>2. QED
  BY <1>1, Invariant, PTL

\* The newest accepted pose is waiting or heard, in every reachable state.
THEOREM LatestWinsHolds == Spec => []LatestWins
<1>1. IInv => LatestWins
  BY DEF IInv, SlotsInv, LatestWins
<1>2. QED
  BY <1>1, Invariant, PTL

-----------------------------------------------------------------------------
(***************************************************************************)
(* What one sample does to the slots, for the proofs that compare a state  *)
(* with the next one.                                                      *)
(***************************************************************************)
FadeStep(s, t) ==
  Fading(s) =>
    IF Fading(t)
      THEN t.current = s.current /\ t.target = s.target /\ t.progress \in {s.progress, s.progress + 1}
      ELSE s.progress = TransitionSamples - 1 /\ t.current = s.target

LEMMA SlotsStep ==
  ASSUME IInv, [Next]_vars, epoch' = epoch
  PROVE  FadeStep(slots, slots')
<1> USE DEF FadeStep
<1>1. slots \in Slots /\ epoch \in 0 .. MaxEpoch
  BY DEF IInv, TypeOK
<1>2. CASE slots' = slots
  BY <1>1, <1>2 DEF Fading
<1>3. ASSUME NEW e, NEW s, NEW p, Apply(e, s, p)
      PROVE  FadeStep(slots, slots')
  <2>1. slots' = Queue(slots, KernelSet(e, s, p))
    BY <1>3 DEF Apply
  <2>2. Fading(slots) => /\ slots'.current = slots.current /\ slots'.target = slots.target
                         /\ slots'.progress = slots.progress
    BY <1>1, <2>1 DEF Queue, Slots
  <2>3. QED
    BY <1>1, <2>2 DEF Fading
<1>4. CASE RenderSample \/ FailSample
  <2> SUFFICES ASSUME Fading(slots) PROVE FadeStep(slots, slots')
    OBVIOUS
  <2>1. slots' \in {slots, AdvanceTransition(slots)}
    BY <1>4 DEF RenderSample, FailSample, Considered, BeginTarget
  <2>2. slots.progress \in 0 .. TransitionSamples - 1
    BY <1>1 DEF Slots, Option, Fading
  <2>3. CASE slots.progress + 1 >= TransitionSamples
    <3>1. AdvanceTransition(slots) = FinishTransition(slots)
      BY <2>3 DEF AdvanceTransition
    <3>2. FinishTransition(slots).current = slots.target /\ ~Fading(FinishTransition(slots))
      BY <1>1 DEF FinishTransition, Fading, Slots
    <3>3. slots.progress = TransitionSamples - 1
      BY <2>2, <2>3, ConstantsAssumption
    <3>4. QED
      BY <2>1, <3>1, <3>2, <3>3
  <2>4. CASE ~(slots.progress + 1 >= TransitionSamples)
    <3>1. AdvanceTransition(slots) = [slots EXCEPT !.progress = slots.progress + 1]
      BY <2>4 DEF AdvanceTransition
    <3>2. slots.progress + 1 # None
      BY <2>2, ConstantsAssumption
    <3>3. QED
      BY <1>1, <2>1, <3>1, <3>2 DEF Slots, Fading
  <2>5. QED
    BY <2>3, <2>4
<1>5. CASE Reset
  BY <1>1, <1>5 DEF Reset
<1>6. QED
  BY <1>2, <1>3, <1>4, <1>5
     DEF Next, vars, StartBlock, StartReconstruction, StartDrain, DrainNothing, EndCall,
         BeginDrain, ExhaustEpochs

\* No fade is cut short or redirected, by whatever is applied or rendered meanwhile.
THEOREM FadeIsContinuousHolds == Spec => FadeIsContinuous
<1>1. IInv /\ [Next]_vars =>
        [(Fading(slots) /\ epoch' = epoch) =>
           IF Fading(slots')
             THEN /\ slots'.current = slots.current /\ slots'.target = slots.target
                  /\ slots'.progress \in {slots.progress, slots.progress + 1}
             ELSE /\ slots.progress = TransitionSamples - 1
                  /\ slots'.current = slots.target]_vars
  BY SlotsStep DEF FadeStep
<1>2. QED
  BY <1>1, Invariant, PTL DEF Spec, FadeIsContinuous

-----------------------------------------------------------------------------
(***************************************************************************)
(* What the helpers on slots keep: a rendering call moves kernel sets      *)
(* between the slots, but neither gains, loses nor doubles one.            *)
(***************************************************************************)
Held(s) == {s.current, s.target, s.pending} \ {None}
Distinct(s) ==
  /\ s.current \notin {s.target, s.pending}
  /\ s.target # None => s.target # s.pending

\* Starting a target empties the waiting place; anything else leaves the slots alone.
LEMMA BeginTargetKeeps ==
  ASSUME NEW e, NEW n, NEW s, SlotsInv(s, e, n)
  PROVE  /\ Held(BeginTarget(s)) = Held(s)
         /\ Distinct(s) => Distinct(BeginTarget(s))
         /\ TargetBegins(s) => /\ Waiting(BeginTarget(s)) = None
                               /\ BeginTarget(s).currentSeq = Waiting(s)
         /\ ~TargetBegins(s) => BeginTarget(s) = s
<1>1. s \in Slots /\ s.current # None
  BY ConstantsAssumption DEF SlotsInv, Slots
<1>2. CASE ~TargetBegins(s)
  BY <1>2 DEF BeginTarget, TargetBegins
<1>3. CASE TargetBegins(s)
  <2>1. s.target # None /\ s.pendingSeq = None /\ s.targetSeq # None /\ ~Fading(s)
    BY <1>3 DEF TargetBegins, SlotsInv
  <2>2. CASE s.current.pose = s.target.pose
    <3>1. BeginTarget(s) = [s EXCEPT !.current = s.target, !.target = s.current,
                                     !.currentSeq = s.targetSeq, !.targetSeq = None]
      BY <2>1, <2>2 DEF BeginTarget
    <3>2. QED
      BY <1>1, <1>3, <2>1, <3>1 DEF Slots, Held, Distinct, Waiting, Fading
  <2>3. CASE s.current.pose # s.target.pose
    <3>1. BeginTarget(s) = [s EXCEPT !.currentSeq = s.targetSeq, !.progress = 0]
      BY <2>1, <2>3 DEF BeginTarget
    <3>2. 0 # None
      BY ConstantsAssumption
    <3>3. QED
      BY <1>1, <1>3, <2>1, <3>1, <3>2 DEF Slots, Held, Distinct, Waiting, Fading
  <2>4. QED
    BY <2>2, <2>3
<1>4. QED
  BY <1>2, <1>3

\* A sample of a fade leaves what waits waiting, and never lengthens the tail.
LEMMA AdvanceKeeps ==
  ASSUME NEW e, NEW n, NEW s, SlotsInv(s, e, n)
  PROVE  /\ Held(AdvanceTransition(s)) = Held(s)
         /\ Distinct(s) => Distinct(AdvanceTransition(s))
         /\ Waiting(AdvanceTransition(s)) = Waiting(s)
         /\ AudibleTail(AdvanceTransition(s)) <= AudibleTail(s)
<1>1. s \in Slots /\ s.current \in KernelSets
  BY DEF SlotsInv, Slots
<1>2. ASSUME NEW k \in KernelSets PROVE TailOf(k) \in Nat
  <2>1. Taps[k.pose] \in Nat \ {0}
    BY ConstantsAssumption DEF KernelSets
  <2>2. QED
    BY <2>1 DEF TailOf
<1>3. CASE ~Fading(s)
  BY <1>1, <1>2, <1>3 DEF AdvanceTransition, AudibleTail
<1>4. CASE Fading(s)
  <2>1. /\ s.target \in KernelSets /\ s.targetSeq # None
        /\ s.progress \in 0 .. TransitionSamples - 1
    BY <1>1, <1>4 DEF SlotsInv, Slots, Option, Fading
  <2>2. TailOf(s.current) \in Nat /\ TailOf(s.target) \in Nat
    BY <1>1, <1>2, <2>1
  <2>3. CASE s.progress + 1 >= TransitionSamples
    <3>1. AdvanceTransition(s) = FinishTransition(s)
      BY <1>4, <2>3 DEF AdvanceTransition
    <3>2. /\ FinishTransition(s).current = s.target
          /\ ~Fading(FinishTransition(s))
          /\ Held(FinishTransition(s)) = Held(s)
          /\ Distinct(s) => Distinct(FinishTransition(s))
      BY <1>1, <2>1, ConstantsAssumption DEF FinishTransition, Slots, Held, Distinct, Fading
    <3>3. Waiting(FinishTransition(s)) = Waiting(s)
      BY <1>1, <1>4, <3>2 DEF FinishTransition, Slots, Waiting
    <3>4. QED
      BY <1>4, <2>2, <3>1, <3>2, <3>3 DEF AudibleTail, Larger
  <2>4. CASE ~(s.progress + 1 >= TransitionSamples)
    <3>1. AdvanceTransition(s) = [s EXCEPT !.progress = s.progress + 1]
      BY <1>4, <2>4 DEF AdvanceTransition
    <3>2. s.progress + 1 # None
      BY <2>1, ConstantsAssumption
    <3>3. Fading(AdvanceTransition(s))
      BY <1>1, <3>1, <3>2 DEF Slots, Fading
    <3>4. AudibleTail(AdvanceTransition(s)) = AudibleTail(s)
      BY <1>1, <1>4, <3>1, <3>3 DEF Slots, AudibleTail
    <3>5. AudibleTail(s) \in Nat
      BY <1>4, <2>2 DEF AudibleTail, Larger
    <3>6. QED
      BY <1>1, <1>4, <3>1, <3>3, <3>4, <3>5 DEF Slots, Held, Distinct, Waiting
  <2>5. QED
    BY <2>3, <2>4
<1>5. QED
  BY <1>3, <1>4

-----------------------------------------------------------------------------
(***************************************************************************)
(* Which lifecycle a rendering call runs in.  Nothing else happens during  *)
(* the call, so it stays true to its end.                                  *)
(***************************************************************************)
ModeInv ==
  call # None =>
    lifecycle = (IF call.kind = "block" THEN "Active"
                 ELSE IF call.kind = "reconstruction" THEN "ReconstructionTail" ELSE "Draining")

LEMMA ModeStep ==
  ASSUME IInv, ModeInv, [Next]_vars
  PROVE  ModeInv'
<1> USE DEF ModeInv
<1>1. CASE \E e \in 0 .. MaxEpoch, s \in SequenceNumbers, p \in Poses : Apply(e, s, p)
  BY <1>1 DEF Apply
<1>2. ASSUME NEW n \in 1 .. MaxBlock, StartBlock(n) \/ StartReconstruction(n) \/ StartDrain(n)
      PROVE  ModeInv'
  BY <1>2 DEF StartBlock, StartReconstruction, StartDrain, BeginCall
<1>3. CASE DrainNothing \/ BeginDrain \/ ExhaustEpochs \/ Reset
  BY <1>3 DEF DrainNothing, BeginDrain, ExhaustEpochs, Reset
<1>4. CASE RenderSample
  BY <1>4 DEF RenderSample, IInv, TypeOK, Calls, Option
<1>5. CASE FailSample \/ EndCall
  BY <1>5 DEF FailSample, EndCall
<1>6. CASE UNCHANGED vars
  BY <1>6 DEF vars
<1>7. QED
  BY <1>1, <1>2, <1>3, <1>4, <1>5, <1>6 DEF Next

(***************************************************************************)
(* The tail: before the first block there is none, and a draining call     *)
(* takes no more than is left, so what is left and what was drained always *)
(* add up to what was announced.                                           *)
(***************************************************************************)
TailInv ==
  /\ TailCoversFilters
  /\ count = 0 => tail = 0
  /\ call # None => (call.kind = "drain" => call.length <= tail)

LEMMA TailStep ==
  ASSUME IInv, IInv', ModeInv, TailInv, [Next]_vars
  PROVE  TailInv'
<1> USE DEF TailInv, TailCoversFilters
<1>1. CASE \E e \in 0 .. MaxEpoch, s \in SequenceNumbers, p \in Poses : Apply(e, s, p)
  <2>1. PICK e \in 0 .. MaxEpoch, s \in SequenceNumbers, p \in Poses : Apply(e, s, p)
    BY <1>1
  <2>2. slots \in Slots
    BY DEF IInv, TypeOK
  <2>3. AudibleTail(slots') = AudibleTail(slots)
    <3> DEFINE k == KernelSet(e, s, p)
    <3>1. slots' = Queue(slots, k)
      BY <2>1 DEF Apply
    <3> HIDE DEF k
    <3>2. QED
      BY <2>2, <3>1 DEF Queue, AudibleTail, Fading, Slots
  <2>4. QED
    BY <2>1, <2>3 DEF Apply
<1>2. ASSUME NEW n \in 1 .. MaxBlock, StartBlock(n) \/ StartReconstruction(n) \/ StartDrain(n)
      PROVE  TailInv'
  BY <1>2 DEF StartBlock, StartReconstruction, StartDrain, BeginCall, history, Drainable
<1>3. CASE DrainNothing \/ BeginDrain \/ ExhaustEpochs
  BY <1>3 DEF DrainNothing, BeginDrain, ExhaustEpochs, history, Drainable
<1>4. CASE RenderSample
  <2>1. call \in Calls /\ call' = [call EXCEPT !.offset = call.offset + 1]
    BY <1>4 DEF RenderSample, IInv, TypeOK, Option
  <2>2. call'.kind = call.kind /\ call'.length = call.length /\ call # None
    BY <1>4, <2>1 DEF Calls, RenderSample
  <2>3. UNCHANGED <<lifecycle, count, tail, drained>>
    BY <1>4 DEF RenderSample
  <2>4. CASE call.kind = "drain"
    <3>1. slots' = AdvanceTransition(slots)
      BY <1>4, <2>4 DEF RenderSample, Considered
    <3>2. AudibleTail(slots') <= AudibleTail(slots)
      BY <3>1, AdvanceKeeps DEF IInv
    <3>3. AudibleTail(slots) \in Nat /\ AudibleTail(slots') \in Nat
      BY TailType DEF IInv
    <3>4. tail \in Nat /\ drained \in Nat
      BY DEF IInv, TypeOK
    <3>5. QED
      BY <2>2, <2>3, <2>4, <3>2, <3>3, <3>4
  <2>5. CASE call.kind # "drain"
    <3>1. call' # None
      <4>1. call.offset < call.length
        BY <1>4 DEF RenderSample
      <4>2. call' \in Calls
        BY <2>1, <4>1, ConstantsAssumption DEF Calls
      <4>3. QED
        BY <4>2, ConstantsAssumption
    <3>2. QED
      BY <2>2, <2>3, <2>5, <3>1
  <2>6. QED
    BY <2>4, <2>5
<1>5. CASE FailSample
  BY <1>5 DEF FailSample
<1>6. CASE EndCall
  <2>1. /\ call \in Calls /\ call # None
        /\ call.length \in Nat \ {0}
        /\ count \in Nat /\ tail \in Nat /\ drained \in Nat
    BY <1>6, ConstantsAssumption DEF EndCall, IInv, TypeOK, Option, Calls
  <2>2. count' # 0 /\ call' = None /\ slots' = slots
    BY <1>6, <2>1 DEF EndCall
  <2>3. AudibleTail(slots) \in Nat
    BY TailType DEF IInv
  <2>4. CASE call.kind = "drain"
    <3>1. call.length <= tail /\ count > 0 /\ lifecycle = "Draining"
      BY <2>1, <2>4 DEF ModeInv
    <3>2. tail + drained >= AudibleTail(slots)
      BY <2>4, <3>1
    <3>3. tail' = tail - call.length /\ drained' = drained + call.length
      BY <1>6, <2>1, <2>4, <3>1 DEF EndCall, Minus
    <3>4. QED
      BY <2>1, <2>2, <2>3, <3>2, <3>3
  <2>5. CASE call.kind # "drain"
    BY <1>6, <2>2, <2>3, <2>5 DEF EndCall
  <2>6. QED
    BY <2>4, <2>5
<1>7. CASE Reset
  BY <1>7 DEF Reset
<1>8. CASE UNCHANGED vars
  BY <1>8 DEF vars, history
<1>9. QED
  BY <1>1, <1>2, <1>3, <1>4, <1>5, <1>6, <1>7, <1>8 DEF Next

(***************************************************************************)
(* How long a pose waits: while updates are accepted, a pose waiting       *)
(* behind a fade has waited for fewer samples than the fade has done, and  *)
(* the waiting place is empty again when the fade's successor starts.      *)
(***************************************************************************)
WaitInv ==
  /\ waited < TransitionSamples
  /\ lifecycle = "Active" =>
       /\ Fading(slots) => waited < slots.progress
       /\ Waiting(slots) = None => waited = 0

LEMMA WaitStep ==
  ASSUME IInv, ModeInv, WaitInv, [Next]_vars
  PROVE  WaitInv'
<1> USE DEF WaitInv
<1>1. slots \in Slots /\ waited \in Nat /\ SlotsInv(slots, epoch, lastAccepted)
  BY DEF IInv, TypeOK
<1>2. CASE \E e \in 0 .. MaxEpoch, s \in SequenceNumbers, p \in Poses : Apply(e, s, p)
  <2>1. PICK e \in 0 .. MaxEpoch, s \in SequenceNumbers, p \in Poses : Apply(e, s, p)
    BY <1>2
  <2> DEFINE k == KernelSet(e, s, p)
  <2>2. slots' = Queue(slots, k) /\ k.seq # None
    BY <2>1, ConstantsAssumption DEF Apply, KernelSet, SequenceNumbers
  <2> HIDE DEF k
  <2>3. /\ slots'.progress = slots.progress
        /\ Waiting(slots') # None
    BY <1>1, <2>2 DEF Queue, Fading, Slots, Waiting
  <2>4. QED
    BY <2>1, <2>3 DEF Apply, Fading
<1>3. ASSUME NEW n \in 1 .. MaxBlock, StartBlock(n) \/ StartReconstruction(n) \/ StartDrain(n)
      PROVE  WaitInv'
  BY <1>3 DEF StartBlock, StartReconstruction, StartDrain, history
<1>4. CASE DrainNothing \/ BeginDrain \/ ExhaustEpochs
  BY <1>4 DEF DrainNothing, BeginDrain, ExhaustEpochs, history
<1>5. CASE RenderSample
  <2>1. lifecycle' = lifecycle /\ call # None /\ slots' = AdvanceTransition(Considered)
    BY <1>5 DEF RenderSample
  <2>2. CASE call.kind # "block"
    <3>1. lifecycle' # "Active" /\ waited' = 0
      BY <1>5, <2>1, <2>2 DEF ModeInv, RenderSample
    <3>2. QED
      BY <3>1, ConstantsAssumption
  <2>3. CASE call.kind = "block" /\ TargetBegins(slots)
    <3>1. Considered = BeginTarget(slots) /\ Waiting(Considered) = None
      BY <1>1, <2>3, BeginTargetKeeps DEF Considered
    <3>2. SlotsInv(Considered, epoch, lastAccepted)
      BY <1>1, <3>1, BeginTargetInv, ConstantsAssumption DEF IInv, TypeOK
    <3>3. Waiting(slots') = None
      BY <2>1, <3>1, <3>2, AdvanceKeeps
    <3>4. waited' = 0
      BY <1>5, <3>3 DEF RenderSample
    <3>5. Fading(slots') => slots'.progress > 0
      <4>1. ~Fading(Considered) \/ Considered.progress = 0
        BY <1>1, <3>1, <2>3 DEF BeginTarget, TargetBegins, Fading, Slots
      <4>2. QED
        BY <2>1, <3>2, <4>1, ConstantsAssumption
           DEF AdvanceTransition, FinishTransition, SlotsInv, Slots, Fading
    <3>6. QED
      BY <3>4, <3>5, ConstantsAssumption
  <2>4. CASE call.kind = "block" /\ ~TargetBegins(slots)
    <3>1. Considered = slots /\ lifecycle = "Active"
      BY <1>1, <2>1, <2>4, BeginTargetKeeps DEF Considered, ModeInv
    <3>2. Waiting(slots') = Waiting(slots)
      BY <1>1, <2>1, <3>1, AdvanceKeeps
    <3>3. waited' = IF Waiting(slots) = None THEN 0 ELSE waited + 1
      BY <1>5, <2>4, <3>2 DEF RenderSample
    <3>4. CASE ~Fading(slots)
      <4>1. slots' = slots /\ Waiting(slots) = None
        BY <2>1, <2>4, <3>1, <3>4 DEF AdvanceTransition, TargetBegins, Waiting
      <4>2. QED
        BY <3>3, <3>4, <4>1, ConstantsAssumption
    <3>5. CASE Fading(slots)
      <4>1. slots.progress \in 0 .. TransitionSamples - 1 /\ waited < slots.progress
        BY <1>1, <3>1, <3>5 DEF Slots, Option, Fading
      <4>2. waited' < slots.progress + 1
        BY <1>1, <3>3, <4>1
      <4>3. CASE slots.progress + 1 >= TransitionSamples
        <5>1. ~Fading(slots')
          BY <1>1, <2>1, <3>1, <3>5, <4>3 DEF AdvanceTransition, FinishTransition, Slots, Fading
        <5>2. waited' < TransitionSamples
          BY <1>1, <3>3, <4>1, <4>2, ConstantsAssumption
        <5>3. QED
          BY <3>2, <3>3, <5>1, <5>2
      <4>4. CASE ~(slots.progress + 1 >= TransitionSamples)
        <5>1. slots'.progress = slots.progress + 1
          BY <1>1, <2>1, <3>1, <3>5, <4>4 DEF AdvanceTransition, Slots
        <5>2. waited' < TransitionSamples
          BY <1>1, <3>3, <4>1, <4>2, <4>4, ConstantsAssumption
        <5>3. QED
          BY <3>2, <3>3, <4>2, <5>1, <5>2
      <4>5. QED
        BY <4>3, <4>4
    <3>6. QED
      BY <3>4, <3>5
  <2>5. QED
    BY <2>2, <2>3, <2>4
<1>6. CASE FailSample
  BY <1>6 DEF FailSample
<1>7. CASE EndCall
  BY <1>7 DEF EndCall
<1>8. CASE Reset
  BY <1>8, ConstantsAssumption DEF Reset, InitialSlots, Fading
<1>9. CASE UNCHANGED vars
  BY <1>9 DEF vars, history
<1>10. QED
  BY <1>2, <1>3, <1>4, <1>5, <1>6, <1>7, <1>8, <1>9 DEF Next

-----------------------------------------------------------------------------
(***************************************************************************)
(* The fate of every accepted sequence, and the place of every kernel set. *)
(* Both need to know that a sequence is never accepted twice, which is     *)
(* what the bounds by lastAccepted say.                                    *)
(***************************************************************************)
Waits(s) == {Waiting(s)} \ {None}
Begun == applied \ {0}

SequencesInv ==
  /\ accepted = Begun \cup superseded \cup Waits(slots)
  /\ Begun \cap superseded = {}
  /\ Begun \cap Waits(slots) = {}
  /\ superseded \cap Waits(slots) = {}
  /\ \A s \in accepted : s # 0 /\ s <= lastAccepted

KernelsInv ==
  /\ Distinct(slots)
  /\ Held(slots) \cap retired = {}
  /\ \A k \in Held(slots) : k.epoch = epoch /\ k.seq <= lastAccepted
  /\ \A k \in retired : k.epoch <= epoch /\ (k.epoch = epoch => k.seq <= lastAccepted)
  /\ \A s \in accepted \cup {0} :
       \E k \in Held(slots) \cup retired : k.epoch = epoch /\ k.seq = s

FateInv == SequencesInv /\ KernelsInv

LEMMA FateInvImpliesOneFate == FateInv => OneFate
BY DEF FateInv, SequencesInv, KernelsInv, OneFate, Held, Distinct, Waits, Begun

\* An accepted update takes the waiting place, and the set it displaces goes back.
LEMMA ApplyFate ==
  ASSUME IInv, FateInv, NEW e \in 0 .. MaxEpoch, NEW s \in SequenceNumbers, NEW p \in Poses,
         Apply(e, s, p)
  PROVE  FateInv'
<1> DEFINE k == KernelSet(e, s, p)
<1>1. k \in KernelSets /\ k.epoch = epoch /\ k.seq = s /\ k # None
  BY ConstantsAssumption DEF Apply, CanApply, KernelSet, KernelSets
<1>2. /\ slots' = Queue(slots, k) /\ retired' = retired \cup Displaced(slots)
      /\ superseded' = superseded \cup Waits(slots) /\ accepted' = accepted \cup {s}
      /\ lastAccepted' = s /\ UNCHANGED <<epoch, applied>>
  BY DEF Apply, Waits
<1>3. /\ s \in Nat /\ lastAccepted \in Nat /\ s > lastAccepted /\ s # None
      /\ accepted \subseteq Nat
  BY ConstantsAssumption DEF Apply, CanApply, IInv, TypeOK, SequenceNumbers
<1>4. slots \in Slots /\ slots.current # None
  BY ConstantsAssumption DEF IInv, TypeOK, Slots
<1> HIDE DEF k
<1>5. Waits(slots') = {s}
  BY <1>1, <1>2, <1>3, <1>4 DEF Queue, Waits, Waiting, Fading, Slots
<1>6. s \notin accepted
  BY <1>3 DEF FateInv, SequencesInv
<1>7. SequencesInv'
  <2>1. \A a \in accepted' : a # 0 /\ a <= lastAccepted'
    BY <1>2, <1>3 DEF FateInv, SequencesInv
  <2>2. /\ accepted' = Begun' \cup superseded' \cup Waits(slots')
        /\ Begun' \cap superseded' = {}
        /\ Begun' \cap Waits(slots') = {}
        /\ superseded' \cap Waits(slots') = {}
    BY <1>2, <1>5, <1>6 DEF FateInv, SequencesInv, Begun
  <2>3. QED
    BY <2>1, <2>2 DEF SequencesInv
<1>8. KernelsInv'
  <2>1. /\ Held(slots') = (Held(slots) \ Displaced(slots)) \cup {k}
        /\ Displaced(slots) \subseteq Held(slots)
        /\ k \notin Held(slots) /\ k \notin retired
    <3>1. k \notin Held(slots) /\ k \notin retired
      BY <1>1, <1>3 DEF FateInv, KernelsInv
    <3>2. CASE Fading(slots)
      BY <1>1, <1>2, <1>4, <3>1, <3>2
         DEF Queue, Held, Displaced, Slots, FateInv, KernelsInv, Distinct
    <3>3. CASE ~Fading(slots)
      BY <1>1, <1>2, <1>4, <3>1, <3>3
         DEF Queue, Held, Displaced, Slots, FateInv, KernelsInv, Distinct
    <3>4. QED
      BY <3>1, <3>2, <3>3
  <2>2. Distinct(slots')
    BY <1>1, <1>2, <1>4, <2>1 DEF Queue, Held, Slots, FateInv, KernelsInv, Distinct
  <2>3. Held(slots') \cap retired' = {}
    BY <1>2, <2>1 DEF FateInv, KernelsInv
  <2>4. \A h \in Held(slots') : h.epoch = epoch' /\ h.seq <= lastAccepted'
    <3>1. \A h \in Held(slots) : h.epoch = epoch /\ h.seq <= s
      <4>1. \A h \in Held(slots) : h.seq \in Nat
        BY <1>4 DEF Held, Slots, Option, KernelSets, SequenceNumbers
      <4>2. QED
        BY <1>3, <4>1 DEF FateInv, KernelsInv
    <3>2. QED
      BY <1>1, <1>2, <1>3, <2>1, <3>1
  <2>5. \A h \in retired' : h.epoch <= epoch' /\ (h.epoch = epoch' => h.seq <= lastAccepted')
    <3>1. \A h \in retired : h.epoch <= epoch /\ (h.epoch = epoch => h.seq <= s)
      <4>1. \A h \in retired : h.seq \in Nat
        BY DEF IInv, TypeOK, KernelSets, SequenceNumbers
      <4>2. QED
        BY <1>3, <4>1 DEF FateInv, KernelsInv
    <3>2. \A h \in Held(slots) : h.epoch <= epoch /\ h.seq <= s
      <4>1. \A h \in Held(slots) : h.seq \in Nat
        BY <1>4 DEF Held, Slots, Option, KernelSets, SequenceNumbers
      <4>2. epoch \in Nat
        BY ConstantsAssumption DEF IInv, TypeOK
      <4>3. QED
        BY <1>3, <4>1, <4>2 DEF FateInv, KernelsInv
    <3>3. QED
      BY <1>2, <2>1, <3>1, <3>2
  <2>6. \A a \in accepted' \cup {0} :
          \E h \in Held(slots') \cup retired' : h.epoch = epoch' /\ h.seq = a
    <3>1. Held(slots) \cup retired \subseteq Held(slots') \cup retired'
      BY <1>2, <2>1
    <3>2. k \in Held(slots')
      BY <2>1
    <3>3. QED
      BY <1>1, <1>2, <3>1, <3>2 DEF FateInv, KernelsInv
  <2>7. QED
    BY <2>2, <2>3, <2>4, <2>5, <2>6 DEF KernelsInv
<1>9. QED
  BY <1>7, <1>8 DEF FateInv

\* One sample: the waiting update may begin, and its sequence is then in the receipt.
LEMMA SampleFate ==
  ASSUME IInv, FateInv, RenderSample \/ FailSample
  PROVE  FateInv'
<1>1. /\ SlotsInv(slots, epoch, lastAccepted)
      /\ slots' \in {Considered, AdvanceTransition(Considered)}
      /\ applied' = IF Receipt = lastApplied THEN applied ELSE applied \cup {Receipt.seq}
      /\ call # None /\ call.offset < call.length
      /\ UNCHANGED <<epoch, lastAccepted, accepted, superseded, retired>>
  BY DEF IInv, RenderSample, FailSample, Heard
<1>2. SlotsInv(Considered, epoch, lastAccepted)
  BY <1>1, ConsideredInv
<1>3. /\ Held(slots') = Held(Considered)
      /\ Distinct(Considered) => Distinct(slots')
      /\ Waiting(slots') = Waiting(Considered)
  BY <1>1, <1>2, AdvanceKeeps
<1>4. Held(Considered) = Held(slots) /\ (Distinct(slots) => Distinct(Considered))
  BY <1>1, BeginTargetKeeps DEF Considered
<1>5. KernelsInv'
  BY <1>1, <1>3, <1>4 DEF FateInv, KernelsInv
<1>6. CASE call.kind = "block" /\ TargetBegins(slots)
  <2>1. Waiting(slots') = None
    BY <1>1, <1>3, <1>6, BeginTargetKeeps DEF Considered
  <2>2. Receipt.seq = Waiting(slots) /\ Waiting(slots) # None
    BY <1>6 DEF Receipt, Waiting, TargetBegins
  <2>3. Receipt # lastApplied
    <3>1. Receipt # None
      <4>1. count + call.offset \in 0 .. MaxIndex
        BY <1>1, ConstantsAssumption DEF IInv, TypeOK, CallFits, Option, Calls
      <4>2. slots.targetSeq \in SequenceNumbers
        BY <1>6 DEF IInv, TypeOK, Slots, Option, TargetBegins
      <4>3. Receipt \in Receipts
        BY <1>6, <4>1, <4>2 DEF Receipt, Receipts
      <4>4. QED
        BY <4>3, ConstantsAssumption
    <3>2. Waiting(slots) # slots.currentSeq
      <4>1. slots.currentSeq < Waiting(slots) /\ Waiting(slots) = lastAccepted
        BY <2>2 DEF IInv, SlotsInv
      <4>2. slots.currentSeq \in Nat /\ lastAccepted \in Nat
        BY DEF IInv, TypeOK, Slots, SequenceNumbers
      <4>3. QED
        BY <4>1, <4>2
    <3>3. QED
      BY <2>2, <3>1, <3>2 DEF IInv, ReceiptInv
  <2>4. applied' = applied \cup {Waiting(slots)} /\ Waits(slots') = {}
    BY <1>1, <2>1, <2>2, <2>3 DEF Waits
  <2>5. Waits(slots) = {Waiting(slots)}
    BY <2>2 DEF Waits
  <2>6. SequencesInv'
    BY <1>1, <2>4, <2>5 DEF FateInv, SequencesInv, Begun
  <2>7. QED
    BY <1>5, <2>6 DEF FateInv
<1>7. CASE ~(call.kind = "block" /\ TargetBegins(slots))
  <2>1. Waits(slots') = Waits(slots)
    BY <1>1, <1>3, <1>7, BeginTargetKeeps DEF Considered, Waits
  <2>2. Begun' = Begun
    <3>1. Receipt # lastApplied => Receipt.seq = 0
      BY <1>7 DEF Receipt, IInv, ReceiptInv
    <3>2. QED
      BY <1>1, <3>1 DEF Begun
  <2>3. SequencesInv'
    BY <1>1, <2>1, <2>2 DEF FateInv, SequencesInv
  <2>4. QED
    BY <1>5, <2>3 DEF FateInv
<1>8. QED
  BY <1>6, <1>7

\* A new epoch: every set of the old one is back with the host.
LEMMA ResetFate ==
  ASSUME IInv, FateInv, Reset
  PROVE  FateInv'
<1>1. /\ slots' = InitialSlots(epoch') /\ epoch' = epoch + 1 /\ epoch \in Nat /\ epoch' \in Nat
      /\ lastAccepted' = 0 /\ accepted' = {} /\ superseded' = {} /\ applied' = {}
      /\ retired' = retired \cup Held(slots)
  BY ConstantsAssumption DEF Reset, IInv, TypeOK, Held
<1>2. /\ Held(slots') = {KernelSet(epoch', 0, Identity)}
      /\ Waits(slots') = {} /\ Distinct(slots')
  <2>1. KernelSet(epoch', 0, Identity) # None
    <3>1. epoch' \in 0 .. MaxEpoch
      BY ResetInv DEF IInv, TypeOK
    <3>2. KernelSet(epoch', 0, Identity) \in KernelSets
      BY <3>1, ConstantsAssumption DEF KernelSet, KernelSets, SequenceNumbers
    <3>3. QED
      BY <3>2, ConstantsAssumption
  <2>2. QED
    BY <1>1, <2>1 DEF InitialSlots, Held, Waits, Waiting, Fading, Distinct
<1>3. SequencesInv'
  BY <1>1, <1>2 DEF SequencesInv, Begun
<1>4. \A k \in retired' : k.epoch <= epoch /\ k.epoch \in Nat
  <2>1. \A k \in Held(slots) \cup retired : k.epoch \in Nat
    BY DEF IInv, TypeOK, Held, Slots, Option, KernelSets
  <2>2. QED
    BY <1>1, <2>1 DEF FateInv, KernelsInv
<1>5. KernelsInv'
  <2>1. \A k \in retired' : k.epoch <= epoch' /\ k.epoch # epoch'
    BY <1>1, <1>4
  <2>2. \A k \in Held(slots') : k.epoch = epoch' /\ k.seq = 0
    BY <1>2 DEF KernelSet
  <2>3. KernelSet(epoch', 0, Identity) \in Held(slots')
    BY <1>2
  <2>4. QED
    BY <1>1, <1>2, <2>1, <2>2, <2>3 DEF KernelsInv
<1>6. QED
  BY <1>3, <1>5 DEF FateInv

LEMMA FateStep ==
  ASSUME IInv, FateInv, [Next]_vars
  PROVE  FateInv'
<1>1. CASE UNCHANGED <<epoch, slots, lastAccepted, accepted, superseded, applied, retired>>
  BY <1>1 DEF FateInv, SequencesInv, KernelsInv, Begun
<1>2. CASE \E e \in 0 .. MaxEpoch, s \in SequenceNumbers, p \in Poses : Apply(e, s, p)
  BY <1>2, ApplyFate
<1>3. CASE RenderSample \/ FailSample
  BY <1>3, SampleFate
<1>4. CASE Reset
  BY <1>4, ResetFate
<1>5. QED
  BY <1>1, <1>2, <1>3, <1>4
     DEF Next, vars, history, StartBlock, StartReconstruction, StartDrain, DrainNothing,
         EndCall, BeginDrain, ExhaustEpochs

-----------------------------------------------------------------------------
\* Everything the histories satisfy, on top of IInv.
HInv == ModeInv /\ TailInv /\ WaitInv /\ FateInv

LEMMA HInitInv == Init => HInv
<1> SUFFICES ASSUME Init PROVE HInv
  OBVIOUS
<1>1. KernelSet(0, 0, Identity) \in KernelSets
  BY ConstantsAssumption DEF KernelSet, KernelSets, SequenceNumbers
<1>2. /\ Held(slots) = {KernelSet(0, 0, Identity)}
      /\ Waits(slots) = {} /\ Waiting(slots) = None /\ ~Fading(slots) /\ Distinct(slots)
  BY <1>1, ConstantsAssumption DEF Init, InitialSlots, Held, Waits, Waiting, Fading, Distinct
<1>3. SequencesInv
  BY <1>2 DEF Init, SequencesInv, Begun
<1>4. KernelsInv
  <2>1. \A k \in Held(slots) : k.epoch = 0 /\ k.seq = 0
    BY <1>2 DEF KernelSet
  <2>2. \E k \in Held(slots) : k.epoch = 0 /\ k.seq = 0
    BY <1>2, <2>1
  <2>3. epoch = 0 /\ lastAccepted = 0 /\ accepted = {} /\ retired = {}
    BY DEF Init
  <2>4. QED
    BY <1>2, <2>1, <2>2, <2>3 DEF KernelsInv
<1>5. ModeInv /\ TailInv /\ WaitInv
  BY <1>2, ConstantsAssumption DEF Init, ModeInv, TailInv, TailCoversFilters, WaitInv
<1>6. QED
  BY <1>3, <1>4, <1>5 DEF HInv, FateInv

THEOREM HistoryInvariant == Spec => []HInv
<1>1. IInv /\ IInv' /\ HInv /\ [Next]_vars => HInv'
  BY ModeStep, TailStep, WaitStep, FateStep DEF HInv
<1>2. QED
  BY <1>1, HInitInv, Invariant, PTL DEF Spec

\* Every accepted update begins, is superseded or waits, never two of them,
\* and every kernel set is in exactly one slot or back with the host.
THEOREM OneFateHolds == Spec => []OneFate
<1>1. HInv => OneFate
  BY FateInvImpliesOneFate DEF HInv
<1>2. QED
  BY <1>1, HistoryInvariant, PTL

\* The announced tail covers both filters of a fade, for any tap counts.
THEOREM TailCoversFiltersHolds == Spec => []TailCoversFilters
<1>1. HInv => TailCoversFilters
  BY DEF HInv, TailInv
<1>2. QED
  BY <1>1, HistoryInvariant, PTL

\* No stream of updates keeps the newest pose from being heard within one
\* fade's length, whatever that length is.
THEOREM PoseStartsInTimeHolds == Spec => []PoseStartsInTime
<1>1. HInv => PoseStartsInTime
  BY DEF HInv, WaitInv, PoseStartsInTime
<1>2. QED
  BY <1>1, HistoryInvariant, PTL

-----------------------------------------------------------------------------
(***************************************************************************)
(* The renderer implements the mailbox: which step of the mailbox every    *)
(* step of the renderer is, or that the mailbox does not see it.           *)
(***************************************************************************)
LEMMA MailboxInit ==
  ASSUME Init
  PROVE  Mailbox!Init
BY DEF Init, Mailbox!Init, InitialSlots, Fading, Waiting

\* The first sample of a block in which an update begins is the mailbox's
\* Start; the last sample of a fade is its EndFade, whether or not the set that
\* waited becomes the next target; a failed sample closes the mailbox.
LEMMA MailboxSample ==
  ASSUME IInv, ModeInv, RenderSample \/ FailSample
  PROVE  [Mailbox!Next]_(Mailbox!vars)
<1>1. /\ SlotsInv(slots, epoch, lastAccepted)
      /\ call # None /\ call.offset < call.length
      /\ epoch' = epoch /\ lastAccepted' = lastAccepted
      /\ \/ slots' = Considered /\ lifecycle' = "NumericFailure"
         \/ slots' = AdvanceTransition(Considered) /\ lifecycle' = lifecycle
  BY DEF IInv, RenderSample, FailSample
<1>2. SlotsInv(Considered, epoch, lastAccepted)
  BY <1>1, ConsideredInv
<1>3. /\ Waiting(slots') = Waiting(Considered)
      /\ slots'.currentSeq = Considered.currentSeq
  <2>1. Considered \in Slots
    BY <1>2 DEF SlotsInv
  <2>2. AdvanceTransition(Considered).currentSeq = Considered.currentSeq
    BY <2>1 DEF AdvanceTransition, FinishTransition, Slots
  <2>3. QED
    BY <1>1, <1>2, <2>2, AdvanceKeeps
<1>4. CASE call.kind = "block" /\ TargetBegins(slots)
  <2>1. /\ Considered.currentSeq = Waiting(slots) /\ Waiting(Considered) = None
        /\ Waiting(slots) # None /\ ~Fading(slots)
    BY <1>1, <1>4, BeginTargetKeeps DEF Considered, TargetBegins, Waiting
  <2>2. lifecycle = "Active"
    BY <1>1, <1>4 DEF ModeInv
  <2>3. Fading(slots') \in BOOLEAN
    BY DEF Fading
  <2>4. Mailbox!Start
    BY <1>1, <1>3, <2>1, <2>2, <2>3 DEF Mailbox!Start
  <2>5. QED
    BY <2>4 DEF Mailbox!Next
<1>5. CASE ~(call.kind = "block" /\ TargetBegins(slots))
  <2>1. Considered = slots
    BY <1>1, <1>5, BeginTargetKeeps DEF Considered
  <2>2. CASE slots' = slots
    BY <1>1, <2>2 DEF Mailbox!Next, Mailbox!Close, Mailbox!vars
  <2>3. CASE slots' = AdvanceTransition(slots) /\ lifecycle' = lifecycle
    <3>1. CASE Fading(slots') = Fading(slots)
      BY <1>1, <1>3, <2>1, <2>3, <3>1 DEF Mailbox!vars
    <3>2. CASE Fading(slots') # Fading(slots)
      <4>1. Fading(slots) /\ ~Fading(slots')
        BY <2>3, <3>2 DEF AdvanceTransition, Fading
      <4>2. Mailbox!EndFade
        BY <1>1, <1>3, <2>1, <2>3, <4>1 DEF Mailbox!EndFade
      <4>3. QED
        BY <4>2 DEF Mailbox!Next
    <3>3. QED
      BY <3>1, <3>2
  <2>4. QED
    BY <1>1, <2>1, <2>2, <2>3
<1>6. QED
  BY <1>4, <1>5

LEMMA MailboxStep ==
  ASSUME IInv, ModeInv, [Next]_vars
  PROVE  [Mailbox!Next]_(Mailbox!vars)
<1>1. CASE \E e \in 0 .. MaxEpoch, s \in SequenceNumbers, p \in Poses : Apply(e, s, p)
  <2>1. PICK e \in 0 .. MaxEpoch, s \in SequenceNumbers, p \in Poses : Apply(e, s, p)
    BY <1>1
  <2> DEFINE k == KernelSet(e, s, p)
  <2>2. slots' = Queue(slots, k) /\ k.seq = s
    BY <2>1 DEF Apply, KernelSet
  <2> HIDE DEF k
  <2>3. slots \in Slots
    BY DEF IInv, TypeOK
  <2>4. /\ slots'.currentSeq = slots.currentSeq
        /\ Fading(slots') = Fading(slots) /\ Waiting(slots') = s
    BY <2>2, <2>3 DEF Queue, Slots, Fading, Waiting
  <2>5. Mailbox!Offer(s)
    BY <2>1, <2>4 DEF Mailbox!Offer, Apply, CanApply
  <2>6. QED
    BY <2>5 DEF Mailbox!Next, SequenceNumbers
<1>2. CASE RenderSample \/ FailSample
  BY <1>2, MailboxSample
<1>3. CASE Reset
  <2>1. Mailbox!NextEpoch
    BY <1>3 DEF Reset, Mailbox!NextEpoch, InitialSlots, Fading, Waiting
  <2>2. QED
    BY <2>1 DEF Mailbox!Next
<1>4. CASE EndCall
  <2>1. UNCHANGED <<epoch, slots, lastAccepted>>
    BY <1>4 DEF EndCall
  <2>2. (lifecycle' = "Active") = (lifecycle = "Active")
    BY <1>4 DEF EndCall, ModeInv
  <2>3. QED
    BY <2>1, <2>2 DEF Mailbox!vars
<1>5. ASSUME UNCHANGED <<epoch, slots, lastAccepted>>,
             lifecycle' = "Active" => lifecycle = "Active"
      PROVE  [Mailbox!Next]_(Mailbox!vars)
  BY <1>5 DEF Mailbox!Next, Mailbox!Close, Mailbox!vars
<1>6. ASSUME NEW n \in 1 .. MaxBlock, StartBlock(n) \/ StartReconstruction(n) \/ StartDrain(n)
      PROVE  [Mailbox!Next]_(Mailbox!vars)
  BY <1>5, <1>6 DEF StartBlock, StartReconstruction, StartDrain
<1>7. CASE DrainNothing \/ BeginDrain \/ ExhaustEpochs
  BY <1>5, <1>7 DEF DrainNothing, BeginDrain, ExhaustEpochs
<1>8. CASE UNCHANGED vars
  BY <1>5, <1>8 DEF vars
<1>9. QED
  BY <1>1, <1>2, <1>3, <1>4, <1>6, <1>7, <1>8 DEF Next

\* Seen through sequences alone, the renderer is a mailbox of one waiting pose.
THEOREM RendererImplementsMailbox == Spec => ImplementsMailbox
<1>1. Init => Mailbox!Init
  BY MailboxInit
<1>2. IInv /\ HInv /\ [Next]_vars => [Mailbox!Next]_(Mailbox!vars)
  BY MailboxStep DEF HInv
<1>3. QED
  BY <1>1, <1>2, Invariant, HistoryInvariant, PTL DEF Spec, ImplementsMailbox, Mailbox!Spec

=============================================================================
