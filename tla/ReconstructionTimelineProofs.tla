-------------------- MODULE ReconstructionTimelineProofs --------------------
(***************************************************************************)
(* Proofs about ReconstructionTimeline, for every latency, every length of *)
(* a frame and every length of a stream, up to the end of the clock.       *)
(***************************************************************************)
EXTENDS ReconstructionTimeline, SequenceTheorems, TLAPS

(***************************************************************************)
(* The inductive invariant.                                                *)
(***************************************************************************)

\* The frames held follow one another and end where the next one is expected.
PendingInv ==
  /\ \A i \in 1 .. Len(pending) :
       pending[i].start <= pending[i].end /\ pending[i].end <= nextSample
  /\ \A i \in 1 .. Len(pending) - 1 : pending[i + 1].start = pending[i].end
  /\ \A i, j \in 1 .. Len(pending) : i <= j => pending[i].end <= pending[j].end
  /\ pending # <<>> => pending[Len(pending)].end = nextSample

\* Which variables are set together, and where the row of outputs begins and ends:
\* at the input clock, then the latency later once the tail is flushed.
ClockInv ==
  /\ rate = None <=> rowStart = None
  /\ rowStart = None => topology = None
  /\ topology = None => row = <<>> /\ pending = <<>>
  /\ tailStart # None <=> finished \/ call = "finish"
  /\ call # None => ~finished
  /\ rowStart # None /\ tailStart = None =>
       rowStart + Len(row) = rowEnd /\ rowEnd = nextSample
  /\ topology # None /\ tailStart # None =>
       /\ rowStart + Len(row) = tailStart + Latency
       /\ rowEnd = Plus(tailStart, Latency) /\ tailStart = nextSample
  /\ pending # <<>> => rowStart <= pending[1].start + Latency

\* The row holds consecutive outputs of this segment, those past the tail flagged.
RowInv ==
  \A j \in 1 .. Len(row) :
    /\ row[j].epoch = epoch
    /\ row[j].at = rowStart + j - 1
    /\ row[j].tail <=> tailStart # None /\ row[j].at >= tailStart

\* The frames taken are those returned and those held.
TakenInv ==
  /\ Len(taken) = Len(returned) + Len(pending)
  /\ \A i \in 1 .. Len(returned) : taken[i] = returned[i].frame
  /\ \A i \in 1 .. Len(pending) : taken[Len(returned) + i] = pending[i]

\* An output of segment e whose row is the frame's own.
Own(out, e) ==
  /\ out.epoch = e
  /\ Len(out.row) = Length(out.frame)
  /\ \A j \in 1 .. Len(out.row) :
       /\ out.row[j].epoch = out.epoch
       /\ out.row[j].at = out.frame.start + Latency + j - 1
  /\ Length(out.frame) > 0 =>
       (out.tailFlush <=> \E j \in 1 .. Len(out.row) : out.row[j].tail)

ReturnedInv == \A i \in 1 .. Len(returned) : Own(returned[i], epoch)

\* Once a frame is out, the row begins with the outputs of the front frame.
HeldInv ==
  /\ call = None /\ ~finished /\ pending # <<>> =>
       nextSample - pending[1].end < Latency \/ pending[1].end + Latency > MaxSample
  /\ tailStart = None /\ returned # <<>> =>
       pending # <<>> /\ rowStart = pending[1].start + Latency
  /\ finished => \A f \in Held : f.end + Latency > MaxSample

IInv == TypeOK /\ PendingInv /\ ClockInv /\ RowInv /\ TakenInv /\ ReturnedInv /\ HeldInv

-----------------------------------------------------------------------------
(***************************************************************************)
(* The helpers.                                                            *)
(***************************************************************************)

\* A saturating sum is a position, and exact unless it passes the end of the clock.
LEMMA PlusProperties ==
  ASSUME NEW m \in Nat, NEW n \in Nat
  PROVE  /\ Plus(m, n) \in Positions
         /\ Plus(m, n) <= m + n
         /\ m + n <= MaxSample => Plus(m, n) = m + n
BY ConstantsAssumption DEF Plus, Positions

\* A run of n outputs of segment e, from position m.
OutputRun(e, m, n, b) == [i \in 1 .. n |-> [epoch |-> e, at |-> m + i - 1, tail |-> b]]

LEMMA OutputRunProperties ==
  ASSUME NEW e \in 0 .. MaxEpoch, NEW m \in Nat, NEW n \in Nat, NEW b \in BOOLEAN,
         m + n <= MaxSample + Latency
  PROVE  /\ OutputRun(e, m, n, b) \in Seq(Samples)
         /\ Len(OutputRun(e, m, n, b)) = n
         /\ \A i \in 1 .. n : /\ OutputRun(e, m, n, b)[i].epoch = e
                              /\ OutputRun(e, m, n, b)[i].at = m + i - 1
                              /\ OutputRun(e, m, n, b)[i].tail <=> b
<1> DEFINE out == OutputRun(e, m, n, b)
<1>1. \A i \in 1 .. n : out[i] = [epoch |-> e, at |-> m + i - 1, tail |-> b]
  BY DEF OutputRun
<1>2. \A i \in 1 .. n : m + i - 1 \in 0 .. MaxSample + Latency
  BY ConstantsAssumption
<1>3. ASSUME NEW i \in 1 .. n PROVE out[i] \in Samples
  <2>1. m + i - 1 \in 0 .. MaxSample + Latency
    BY <1>2
  <2>2. [epoch |-> e, at |-> m + i - 1, tail |-> b] \in Samples
    BY <2>1 DEF Samples
  <2>3. QED
    BY <1>1, <2>2
<1>4. out \in [1 .. n -> Samples]
  BY <1>3 DEF OutputRun
<1>5. out \in Seq(Samples) /\ Len(out) = n
  BY <1>4, SeqDef
<1>6. QED
  BY <1>1, <1>5

\* What a decoder can hand over.
LEMMA NewFrameProperties ==
  ASSUME TypeOK, NEW f \in NewFrames
  PROVE  f \in Frames /\ f.start <= f.end /\ f.index + 1 \in 0 .. MaxFrame
<1>1. PICK i \in 0 .. MaxFrame - 1, m \in Starts \cup {nextSample}, n \in FrameLengths :
        f = [index |-> i, start |-> m, end |-> m + n]
  BY DEF NewFrames
<1>2. f \in Frames
  BY DEF NewFrames
<1>3. m \in Nat /\ n \in Nat /\ i + 1 \in 0 .. MaxFrame
  BY <1>1, ConstantsAssumption DEF TypeOK, Positions
<1>4. QED
  BY <1>1, <1>2, <1>3

LEMMA InitInv == Init => IInv
<1> SUFFICES ASSUME Init PROVE IInv
  OBVIOUS
<1>1. TypeOK
  <2>1. row \in Seq(Samples) /\ pending \in Seq(Frames) /\ taken \in Seq(Frames)
        /\ returned \in Seq(Outputs)
    BY EmptySeq DEF Init
  <2>2. /\ 0 \in Positions /\ 0 \in 0 .. MaxFrame /\ 0 \in 0 .. MaxEpoch
    BY ConstantsAssumption DEF Positions
  <2>3. QED
    BY <2>1, <2>2 DEF Init, TypeOK, Option
<1>2. Held = {}
  BY DEF Init, Held
<1>3. QED
  BY <1>1, <1>2, ConstantsAssumption
     DEF Init, IInv, PendingInv, ClockInv, RowInv, TakenInv, ReturnedInv, HeldInv

-----------------------------------------------------------------------------
(***************************************************************************)
(* push_frame: a frame joins the end of the row and of the frames held.    *)
(***************************************************************************)
LEMMA PushInv ==
  ASSUME IInv, NEW f \in NewFrames, NEW r \in Rates, NEW t \in Topologies, PushFrame(f, r, t)
  PROVE  IInv'
<1> DEFINE n == f.end - f.start
           out == QmfOutput(f.start, n, FALSE)
<1>1. /\ f \in Frames /\ f.start \in Positions /\ f.end \in Positions /\ f.start <= f.end
      /\ f.index + 1 \in 0 .. MaxFrame /\ n \in Nat /\ f.start \in Nat /\ f.end \in Nat
  BY NewFrameProperties, ConstantsAssumption DEF IInv, Frames, Positions
<1>2. /\ tailStart = None /\ ~finished /\ call = None /\ call' = "push"
      /\ tailStart' = None /\ finished' = FALSE /\ r # None /\ t # None /\ "push" # None
  BY ConstantsAssumption DEF IInv, ClockInv, PushFrame, Accept, TypeOK
<1>3. /\ rate' = r /\ topology' = t /\ nextSample' = f.end /\ nextFrame' = f.index + 1
      /\ pending' = Append(pending, f) /\ taken' = Append(taken, f)
      /\ row' = row \o out
      /\ UNCHANGED <<epoch, returned>>
  BY DEF PushFrame, Accept
<1>n. f.start + n = f.end
  BY <1>1
<1> HIDE DEF n
<1>4. /\ rowStart' \in Nat /\ rowStart' <= f.start
      /\ rowStart' = (IF rowStart = None THEN f.start ELSE rowStart)
      /\ rowStart' + Len(row) = f.start
      /\ rowEnd' = f.end
  <2>1. Plus(f.start, n) = f.end
    <3>1. f.end <= MaxSample
      BY <1>1, ConstantsAssumption DEF Positions
    <3>2. QED
      BY <1>1, <1>n, <3>1, PlusProperties
  <2>2. CASE rowStart = None
    <3>1. rowStart' = f.start /\ rowEnd' = Plus(f.start, n)
      BY <2>2 DEF PushFrame, n
    <3>2. Len(row) = 0
      BY <2>2 DEF IInv, ClockInv
    <3>3. QED
      BY <1>1, <2>1, <2>2, <3>1, <3>2
  <2>3. CASE rowStart # None
    <3>1. rowStart' = rowStart /\ rowEnd' = Plus(rowEnd, n)
      BY <2>3 DEF PushFrame, n
    <3>2. f.start = nextSample
      BY <2>3 DEF PushFrame, Continues, IInv, ClockInv
    <3>3. rowStart + Len(row) = rowEnd /\ rowEnd = nextSample
      BY <1>2, <2>3 DEF IInv, ClockInv
    <3>4. rowStart \in Nat /\ Len(row) \in Nat
      BY <2>3 DEF IInv, TypeOK, Option, Positions
    <3>5. QED
      BY <2>1, <2>3, <3>1, <3>2, <3>3, <3>4
  <2>4. QED
    BY <2>2, <2>3
<1>5. pending = <<>> \/ f.start = nextSample
  BY DEF PushFrame, Continues, IInv, ClockInv
<1>6. /\ out \in Seq(Samples) /\ Len(out) = n
      /\ \A i \in 1 .. n : out[i].epoch = epoch /\ out[i].at = f.start + i - 1 /\ ~out[i].tail
  <2>1. epoch \in 0 .. MaxEpoch /\ f.start + n <= MaxSample + Latency
    BY <1>1, <1>n, ConstantsAssumption DEF IInv, TypeOK, Positions
  <2>2. out = OutputRun(epoch, f.start, n, FALSE)
    BY DEF QmfOutput, OutputRun
  <2>3. QED
    <3>1. /\ OutputRun(epoch, f.start, n, FALSE) \in Seq(Samples)
          /\ Len(OutputRun(epoch, f.start, n, FALSE)) = n
          /\ \A i \in 1 .. n : /\ OutputRun(epoch, f.start, n, FALSE)[i].epoch = epoch
                               /\ OutputRun(epoch, f.start, n, FALSE)[i].at = f.start + i - 1
                               /\ OutputRun(epoch, f.start, n, FALSE)[i].tail <=> FALSE
      BY <1>1, <2>1, OutputRunProperties
    <3>2. QED
      BY <2>2, <3>1
<1> HIDE DEF out
<1>7. /\ row \in Seq(Samples) /\ row' \in Seq(Samples)
      /\ Len(row') = Len(row) + n /\ Len(row) \in Nat
      /\ \A j \in 1 .. Len(row) : row'[j] = row[j]
      /\ \A j \in Len(row) + 1 .. Len(row) + n : row'[j] = out[j - Len(row)]
  <2>1. row \in Seq(Samples) /\ Len(row) \in Nat
    BY DEF IInv, TypeOK
  <2>2. /\ row' \in Seq(Samples) /\ Len(row') = Len(row) + n
        /\ \A j \in 1 .. Len(row) + n :
             row'[j] = IF j <= Len(row) THEN row[j] ELSE out[j - Len(row)]
    BY <1>1, <1>3, <1>6, <2>1, ConcatProperties
  <2>3. QED
    BY <1>1, <2>1, <2>2
<1>8. /\ pending \in Seq(Frames) /\ pending' \in Seq(Frames) /\ pending' # <<>>
      /\ Len(pending') = Len(pending) + 1 /\ Len(pending) \in Nat
      /\ \A i \in 1 .. Len(pending) : pending'[i] = pending[i]
      /\ pending'[Len(pending) + 1] = f
  <2>1. pending \in Seq(Frames)
    BY DEF IInv, TypeOK
  <2>2. QED
    BY <1>1, <1>3, <2>1, AppendProperties
<1>9. /\ taken' \in Seq(Frames)
      /\ Len(taken') = Len(taken) + 1 /\ Len(taken) \in Nat
      /\ \A i \in 1 .. Len(taken) : taken'[i] = taken[i]
      /\ taken'[Len(taken) + 1] = f
  <2>1. taken \in Seq(Frames)
    BY DEF IInv, TypeOK
  <2>2. QED
    BY <1>1, <1>3, <2>1, AppendProperties
<1>10. TypeOK'
  <2>1. rowStart' \in Positions
    BY <1>1, <1>4, ConstantsAssumption DEF Positions
  <2>2. QED
    BY <1>1, <1>2, <1>3, <1>4, <1>7, <1>8, <1>9, <2>1 DEF IInv, TypeOK, Option, PushFrame
<1>11. PendingInv'
  <2>1. \A i \in 1 .. Len(pending) : pending[i].end \in Nat /\ pending[i].start \in Nat
    <3>1. \A i \in 1 .. Len(pending) : pending[i] \in Frames
      BY <1>8
    <3>2. QED
      BY <3>1, ConstantsAssumption DEF Frames, Positions
  <2>2. \A i \in 1 .. Len(pending) : pending[i].end <= f.start
    BY <1>5, <1>8 DEF IInv, PendingInv
  <2>3. \A i \in 1 .. Len(pending') :
          pending'[i].start <= pending'[i].end /\ pending'[i].end <= nextSample'
    <3>1. \A i \in 1 .. Len(pending) : pending[i].start <= pending[i].end
      BY DEF IInv, PendingInv
    <3>2. QED
      BY <1>1, <1>3, <1>8, <2>1, <2>2, <3>1
  <2>4. \A i \in 1 .. Len(pending') - 1 : pending'[i + 1].start = pending'[i].end
    <3> SUFFICES ASSUME NEW i \in 1 .. Len(pending)
                 PROVE  pending'[i + 1].start = pending'[i].end
      BY <1>8
    <3>1. CASE i = Len(pending)
      BY <1>5, <1>8, <3>1 DEF IInv, PendingInv
    <3>2. CASE i < Len(pending)
      BY <1>8, <3>2 DEF IInv, PendingInv
    <3>3. QED
      BY <1>8, <3>1, <3>2
  <2>5. \A i, j \in 1 .. Len(pending') : i <= j => pending'[i].end <= pending'[j].end
    <3> SUFFICES ASSUME NEW i \in 1 .. Len(pending) + 1, NEW j \in 1 .. Len(pending) + 1, i <= j
                 PROVE  pending'[i].end <= pending'[j].end
      BY <1>8
    <3>1. CASE j <= Len(pending)
      BY <1>8, <3>1 DEF IInv, PendingInv
    <3>2. CASE j = Len(pending) + 1 /\ i <= Len(pending)
      <4>1. pending'[i] = pending[i] /\ pending'[j] = f /\ pending[i].end <= f.start
        BY <1>8, <2>2, <3>2
      <4>2. pending[i].end \in Nat
        BY <2>1, <3>2
      <4>3. QED
        BY <1>1, <4>1, <4>2
    <3>3. CASE j = Len(pending) + 1 /\ i = Len(pending) + 1
      BY <1>1, <1>8, <3>3
    <3>4. QED
      BY <1>8, <3>1, <3>2, <3>3
  <2>6. pending'[Len(pending')].end = nextSample'
    BY <1>3, <1>8
  <2>7. QED
    BY <2>3, <2>4, <2>5, <2>6 DEF PendingInv
<1>12. ClockInv'
  <2>1. rowStart' # None /\ rate' # None /\ topology' # None
    BY <1>2, <1>3, <1>4, ConstantsAssumption
  <2>2. rowStart' + Len(row') = rowEnd' /\ rowEnd' = nextSample'
    BY <1>1, <1>n, <1>3, <1>4, <1>7
  <2>3. rowStart' <= pending'[1].start + Latency
    <3>1. CASE pending = <<>>
      BY <1>1, <1>4, <1>8, <3>1, ConstantsAssumption
    <3>2. CASE pending # <<>>
      <4>1. pending'[1] = pending[1]
        BY <1>8, <3>2, EmptySeq
      <4>2. rowStart # None
        BY <3>2 DEF IInv, ClockInv
      <4>3. QED
        BY <1>4, <3>2, <4>1, <4>2 DEF IInv, ClockInv
    <3>3. QED
      BY <3>1, <3>2
  <2>4. QED
    BY <1>2, <2>1, <2>2, <2>3 DEF ClockInv
<1>13. RowInv'
  <2> SUFFICES ASSUME NEW j \in 1 .. Len(row) + n
               PROVE  /\ row'[j].epoch = epoch
                      /\ row'[j].at = rowStart' + j - 1
                      /\ ~row'[j].tail
    BY <1>2, <1>3, <1>7 DEF RowInv
  <2>1. CASE j <= Len(row)
    <3>1. rowStart # None
      BY <1>7, <2>1 DEF IInv, ClockInv
    <3>2. row'[j] = row[j] /\ rowStart' = rowStart
      BY <1>4, <1>7, <2>1, <3>1
    <3>3. row[j].epoch = epoch /\ row[j].at = rowStart + j - 1 /\ ~row[j].tail
      BY <1>2, <2>1 DEF IInv, RowInv
    <3>4. QED
      BY <3>2, <3>3
  <2>2. CASE j > Len(row)
    <3>1. j - Len(row) \in 1 .. n /\ row'[j] = out[j - Len(row)]
      BY <1>1, <1>7, <2>2
    <3>2. /\ out[j - Len(row)].epoch = epoch /\ ~out[j - Len(row)].tail
          /\ out[j - Len(row)].at = f.start + (j - Len(row)) - 1
      BY <1>6, <3>1
    <3>3. f.start + (j - Len(row)) - 1 = rowStart' + j - 1
      BY <1>1, <1>4, <1>7
    <3>4. QED
      BY <3>1, <3>2, <3>3
  <2>3. QED
    BY <1>7, <2>1, <2>2
<1>14. TakenInv'
  <2>1. Len(returned) \in Nat
    BY DEF IInv, TypeOK
  <2>2. Len(taken') = Len(returned') + Len(pending')
    BY <1>3, <1>8, <1>9, <2>1 DEF IInv, TakenInv
  <2>3. \A i \in 1 .. Len(returned') : taken'[i] = returned'[i].frame
    <3>1. Len(returned) <= Len(taken)
      BY <1>8, <2>1 DEF IInv, TakenInv
    <3>2. QED
      BY <1>3, <1>9, <2>1, <3>1 DEF IInv, TakenInv
  <2>4. \A i \in 1 .. Len(pending') : taken'[Len(returned') + i] = pending'[i]
    <3> SUFFICES ASSUME NEW i \in 1 .. Len(pending) + 1
                 PROVE  taken'[Len(returned) + i] = pending'[i]
      BY <1>3, <1>8
    <3>1. Len(taken) = Len(returned) + Len(pending)
      BY DEF IInv, TakenInv
    <3>2. CASE i = Len(pending) + 1
      BY <1>8, <1>9, <2>1, <3>1, <3>2
    <3>3. CASE i <= Len(pending)
      <4>1. Len(returned) + i \in 1 .. Len(taken) /\ i \in 1 .. Len(pending)
        BY <1>8, <2>1, <3>1, <3>3
      <4>2. QED
        BY <1>8, <1>9, <4>1 DEF IInv, TakenInv
    <3>4. QED
      BY <1>8, <3>2, <3>3
  <2>5. QED
    BY <2>2, <2>3, <2>4 DEF TakenInv
<1>15. ReturnedInv'
  BY <1>3 DEF IInv, ReturnedInv
<1>16. HeldInv'
  <2>1. returned # <<>> => /\ pending # <<>> /\ rowStart # None
                           /\ rowStart = pending[1].start + Latency
    BY <1>2 DEF IInv, HeldInv, ClockInv
  <2>2. pending # <<>> => pending'[1] = pending[1]
    BY <1>8, EmptySeq
  <2>3. QED
    BY <1>2, <1>3, <1>4, <1>8, <2>1, <2>2 DEF HeldInv
<1>17. QED
  BY <1>10, <1>11, <1>12, <1>13, <1>14, <1>15, <1>16 DEF IInv

\* The same across a discontinuity: the segment begins with this frame.
LEMMA DiscontinuityInv ==
  ASSUME IInv, NEW f \in NewFrames, NEW r \in Rates, NEW t \in Topologies,
         PushDiscontinuity(f, r, t)
  PROVE  IInv'
<1> DEFINE n == f.end - f.start
<1>1. /\ f \in Frames /\ f.start \in Positions /\ f.end \in Positions /\ f.start <= f.end
      /\ f.index + 1 \in 0 .. MaxFrame /\ n \in Nat /\ f.start \in Nat /\ f.end \in Nat
      /\ f.start + n = f.end /\ f.end <= MaxSample
  BY NewFrameProperties, ConstantsAssumption DEF IInv, Frames, Positions
<1>2. /\ ~finished /\ call' = "push" /\ tailStart' = None /\ finished' = FALSE
      /\ r # None /\ t # None /\ "push" # None /\ "push" # "finish"
  BY ConstantsAssumption DEF PushDiscontinuity, Accept, IInv, TypeOK
<1>3. /\ rate' = r /\ topology' = t /\ nextSample' = f.end /\ nextFrame' = f.index + 1
      /\ pending' = <<f>> /\ taken' = <<f>> /\ returned' = <<>>
      /\ epoch' = epoch + 1 /\ epoch' \in 0 .. MaxEpoch
      /\ rowStart' = f.start /\ rowEnd' = Plus(f.start, n)
      /\ row' = OutputRun(epoch', f.start, n, FALSE)
  BY ConstantsAssumption DEF PushDiscontinuity, Accept, OutputRun, IInv, TypeOK
<1> HIDE DEF n
<1>4. rowEnd' = f.end
  BY <1>1, <1>3, PlusProperties
<1>5. /\ row' \in Seq(Samples) /\ Len(row') = n
      /\ \A i \in 1 .. n : /\ row'[i].epoch = epoch' /\ row'[i].at = f.start + i - 1
                           /\ row'[i].tail <=> FALSE
  <2>1. f.start + n <= MaxSample + Latency
    BY <1>1, ConstantsAssumption
  <2>2. /\ OutputRun(epoch', f.start, n, FALSE) \in Seq(Samples)
        /\ Len(OutputRun(epoch', f.start, n, FALSE)) = n
        /\ \A i \in 1 .. n : /\ OutputRun(epoch', f.start, n, FALSE)[i].epoch = epoch'
                             /\ OutputRun(epoch', f.start, n, FALSE)[i].at = f.start + i - 1
                             /\ OutputRun(epoch', f.start, n, FALSE)[i].tail <=> FALSE
    <3>1. epoch' \in 0 .. MaxEpoch
      BY <1>3
    <3>2. QED
      BY <1>1, <2>1, <3>1, OutputRunProperties
  <2>3. QED
    BY <1>3, <2>2
<1>6. /\ pending' \in Seq(Frames) /\ Len(pending') = 1 /\ pending'[1] = f
      /\ taken' \in Seq(Frames) /\ Len(taken') = 1 /\ taken'[1] = f
      /\ returned' \in Seq(Outputs) /\ Len(returned') = 0
  BY <1>1, <1>3
<1>7. TypeOK'
  BY <1>1, <1>2, <1>3, <1>4, <1>5, <1>6 DEF TypeOK, Option
<1>8. PendingInv'
  BY <1>1, <1>3, <1>6 DEF PendingInv
<1>9. ClockInv'
  <2>1. rowStart' # None /\ rate' # None /\ topology' # None
    BY <1>1, <1>2, <1>3, ConstantsAssumption
  <2>2. rowStart' + Len(row') = rowEnd' /\ rowEnd' = nextSample'
    BY <1>1, <1>3, <1>4, <1>5
  <2>3. rowStart' <= pending'[1].start + Latency
    BY <1>1, <1>3, <1>6, ConstantsAssumption
  <2>4. QED
    BY <1>2, <2>1, <2>2, <2>3 DEF ClockInv
<1>10. RowInv'
  BY <1>2, <1>3, <1>5 DEF RowInv
<1>11. TakenInv' /\ ReturnedInv'
  BY <1>6 DEF TakenInv, ReturnedInv
<1>12. HeldInv'
  BY <1>2, <1>3 DEF HeldInv
<1>13. QED
  BY <1>7, <1>8, <1>9, <1>10, <1>11, <1>12 DEF IInv

\* A segment that is refused, and a reset, leave nothing behind.
LEMMA EmptyInv ==
  ASSUME IInv,
         Reset \/ \E f \in NewFrames, r \in Rates : RefuseDiscontinuity(f, r)
  PROVE  IInv'
<1>1. /\ row' = <<>> /\ pending' = <<>> /\ taken' = <<>> /\ returned' = <<>>
      /\ topology' = None /\ tailStart' = None /\ finished' = FALSE /\ call' = None
      /\ epoch' \in 0 .. MaxEpoch /\ nextFrame' \in 0 .. MaxFrame
      /\ nextSample' \in Positions /\ rowEnd' = nextSample'
      /\ \/ rowStart' = None /\ rate' = None
         \/ rowStart' = nextSample' /\ rowStart' # None /\ rate' # None /\ rate' = rate
  <2>1. CASE Reset
    BY <2>1, ConstantsAssumption DEF Reset, IInv, TypeOK, Positions
  <2>2. CASE \E f \in NewFrames, r \in Rates : RefuseDiscontinuity(f, r)
    <3>1. PICK f \in NewFrames, r \in Rates : RefuseDiscontinuity(f, r)
      BY <2>2
    <3>2. f.index \in 0 .. MaxFrame /\ f.start \in Positions /\ f.start # None
      BY NewFrameProperties, ConstantsAssumption DEF IInv, Frames, Positions
    <3>3. rate' = rate /\ rate' # None /\ epoch' \in 0 .. MaxEpoch
      BY <3>1, ConstantsAssumption DEF RefuseDiscontinuity, IInv, TypeOK
    <3>4. finished' = FALSE /\ call' = None
      BY <3>1 DEF RefuseDiscontinuity, IInv, TypeOK
    <3>5. QED
      BY <3>1, <3>2, <3>3, <3>4 DEF RefuseDiscontinuity
  <2>3. QED
    BY <2>1, <2>2
<1>2. /\ row' \in Seq(Samples) /\ pending' \in Seq(Frames) /\ taken' \in Seq(Frames)
      /\ returned' \in Seq(Outputs)
      /\ Len(row') = 0 /\ Len(pending') = 0 /\ Len(taken') = 0 /\ Len(returned') = 0
  BY <1>1, EmptySeq
<1>3. TypeOK'
  BY <1>1, <1>2 DEF IInv, TypeOK, Option
<1>4. ClockInv'
  <2>1. rowStart' # None => rowStart' + Len(row') = rowEnd'
    BY <1>1, <1>2, ConstantsAssumption DEF Positions
  <2>2. "finish" # None
    BY ConstantsAssumption
  <2>3. QED
    BY <1>1, <2>1, <2>2 DEF ClockInv
<1>5. PendingInv' /\ RowInv' /\ TakenInv' /\ ReturnedInv'
  BY <1>1, <1>2 DEF PendingInv, RowInv, TakenInv, ReturnedInv
<1>6. HeldInv'
  BY <1>1 DEF HeldInv
<1>7. QED
  BY <1>3, <1>4, <1>5, <1>6 DEF IInv

-----------------------------------------------------------------------------
(***************************************************************************)
(* finish: the flushed outputs join the row, one latency's worth.          *)
(***************************************************************************)
LEMMA FinishInv ==
  ASSUME IInv, NEW t \in Topologies, Finish(t)
  PROVE  IInv'
<1>1. /\ tailStart = None /\ ~finished /\ call = None /\ rowEnd \in Positions /\ rowEnd \in Nat
      /\ rowEnd # None /\ "finish" # None
  BY ConstantsAssumption DEF IInv, TypeOK, ClockInv, Finish, Positions
<1>2. /\ tailStart' = rowEnd /\ rowEnd' = Plus(rowEnd, Latency) /\ call' = "finish"
      /\ UNCHANGED <<rate, topology, nextFrame, nextSample, rowStart, pending, epoch,
                     finished, taken, returned>>
  BY DEF Finish, FlushedEnd, format, clock
<1>3. rowEnd' \in Positions
  BY <1>1, <1>2, PlusProperties, ConstantsAssumption
<1>4. /\ Flush \in Seq(Samples) /\ Len(Flush) = Latency
      /\ \A i \in 1 .. Latency : /\ Flush[i].epoch = epoch /\ Flush[i].at = rowEnd + i - 1
                                 /\ Flush[i].tail <=> TRUE
  <2>1. Flush = OutputRun(epoch, rowEnd, Latency, TRUE)
    BY DEF Flush, QmfOutput, OutputRun
  <2>2. rowEnd + Latency <= MaxSample + Latency /\ epoch \in 0 .. MaxEpoch /\ Latency \in Nat
    BY <1>1, ConstantsAssumption DEF Positions, IInv, TypeOK
  <2>3. /\ OutputRun(epoch, rowEnd, Latency, TRUE) \in Seq(Samples)
        /\ Len(OutputRun(epoch, rowEnd, Latency, TRUE)) = Latency
        /\ \A i \in 1 .. Latency : /\ OutputRun(epoch, rowEnd, Latency, TRUE)[i].epoch = epoch
                                   /\ OutputRun(epoch, rowEnd, Latency, TRUE)[i].at = rowEnd + i - 1
                                   /\ OutputRun(epoch, rowEnd, Latency, TRUE)[i].tail <=> TRUE
    BY <1>1, <2>2, OutputRunProperties
  <2>4. QED
    BY <2>1, <2>3
<1>5. row \in Seq(Samples) /\ Len(row) \in Nat
  BY DEF IInv, TypeOK
<1>6. CASE topology = None
  <2>1. row' = row /\ row = <<>> /\ pending = <<>>
    BY <1>6 DEF Finish, IInv, ClockInv
  <2>2. TypeOK'
    BY <1>1, <1>2, <1>3, <1>5, <2>1 DEF IInv, TypeOK, Option
  <2>3. ClockInv'
    BY <1>1, <1>2, <1>6, <2>1 DEF IInv, ClockInv
  <2>4. RowInv'
    BY <2>1 DEF RowInv
  <2>5. HeldInv'
    BY <1>1, <1>2 DEF HeldInv
  <2>6. QED
    BY <1>2, <2>2, <2>3, <2>4, <2>5 DEF IInv, PendingInv, TakenInv, ReturnedInv
<1>7. CASE topology # None
  <2>1. /\ row' = row \o Flush /\ rowStart # None /\ rowStart \in Nat
        /\ rowStart + Len(row) = rowEnd /\ rowEnd = nextSample
    BY <1>1, <1>7, ConstantsAssumption DEF Finish, IInv, ClockInv, TypeOK, Option, Positions
  <2>2. /\ row' \in Seq(Samples) /\ Len(row') = Len(row) + Latency
        /\ \A j \in 1 .. Len(row) + Latency :
             row'[j] = IF j <= Len(row) THEN row[j] ELSE Flush[j - Len(row)]
    BY <1>4, <1>5, <2>1, ConcatProperties
  <2>3. TypeOK'
    BY <1>1, <1>2, <1>3, <2>2 DEF IInv, TypeOK, Option
  <2>4. ClockInv'
    <3>1. rowStart' + Len(row') = tailStart' + Latency
      BY <1>1, <1>2, <1>5, <2>1, <2>2, ConstantsAssumption
    <3>2. QED
      BY <1>1, <1>2, <1>7, <2>1, <3>1 DEF IInv, ClockInv
  <2>5. RowInv'
    <3> SUFFICES ASSUME NEW j \in 1 .. Len(row) + Latency
                 PROVE  /\ row'[j].epoch = epoch
                        /\ row'[j].at = rowStart + j - 1
                        /\ row'[j].tail <=> row'[j].at >= rowEnd
      BY <1>1, <1>2, <2>2 DEF RowInv
    <3>1. CASE j <= Len(row)
      <4>1. row'[j] = row[j] /\ j \in 1 .. Len(row)
        BY <1>5, <2>2, <3>1
      <4>2. row[j].epoch = epoch /\ row[j].at = rowStart + j - 1 /\ ~row[j].tail
        BY <1>1, <4>1 DEF IInv, RowInv
      <4>3. rowStart + j - 1 < rowEnd
        BY <1>1, <1>5, <2>1, <4>1
      <4>4. ~(rowStart + j - 1 >= rowEnd)
        BY <1>1, <2>1, <4>3
      <4>5. QED
        BY <4>1, <4>2, <4>4
    <3>2. CASE j > Len(row)
      <4>1. j - Len(row) \in 1 .. Latency /\ row'[j] = Flush[j - Len(row)]
        BY <1>5, <2>2, <3>2, ConstantsAssumption
      <4>2. /\ row'[j].epoch = epoch /\ row'[j].tail
            /\ row'[j].at = rowEnd + (j - Len(row)) - 1
        BY <1>4, <4>1
      <4>3. /\ rowEnd + (j - Len(row)) - 1 = rowStart + j - 1
            /\ rowStart + j - 1 >= rowEnd
        <5>1. rowStart + Len(row) = rowEnd /\ rowStart \in Nat /\ j \in Nat
          BY <1>5, <2>1, ConstantsAssumption
        <5>2. QED
          BY <1>1, <1>5, <3>2, <5>1
      <4>4. row'[j].at = rowStart + j - 1 /\ row'[j].at >= rowEnd
        BY <4>2, <4>3
      <4>5. QED
        BY <4>2, <4>4
    <3>3. QED
      BY <1>5, <3>1, <3>2, ConstantsAssumption
  <2>6. HeldInv'
    BY <1>1, <1>2 DEF HeldInv
  <2>7. QED
    BY <1>2, <2>3, <2>4, <2>5, <2>6 DEF IInv, PendingInv, TakenInv, ReturnedInv
<1>8. QED
  BY <1>6, <1>7

-----------------------------------------------------------------------------
(***************************************************************************)
(* drain_ready: where the front frame's outputs lie in the row, and how    *)
(* much of the row goes with it.                                           *)
(***************************************************************************)
LEMMA FrontFrame ==
  ASSUME IInv, SomeReady
  PROVE  /\ pending[1] = Head(pending) /\ pending[1] \in Frames
         /\ pending[1].start \in Nat /\ pending[1].end \in Nat
         /\ pending[1].start <= pending[1].end
         /\ pending[1].end + Latency <= MaxSample /\ pending[1].end + Latency <= rowEnd
         /\ Len(pending) \in Nat \ {0} /\ rowStart # None /\ topology # None
         /\ rowStart \in Nat /\ rowEnd \in Nat /\ Len(row) \in Nat
         /\ rowStart <= pending[1].start + Latency
         /\ rowEnd <= rowStart + Len(row)
<1>1. pending \in Seq(Frames) /\ pending # <<>> /\ rowStart # None
  BY DEF SomeReady, IInv, TypeOK
<1>2. Len(pending) \in Nat \ {0} /\ pending[1] = Head(pending) /\ pending[1] \in Frames
  BY <1>1, EmptySeq
<1>3. /\ rowStart \in Nat /\ rowEnd \in Nat /\ Len(row) \in Nat /\ topology # None
  BY <1>1, ConstantsAssumption DEF IInv, TypeOK, Option, Positions, ClockInv
<1>4. pending[1].start \in Nat /\ pending[1].end \in Nat
  BY <1>2, ConstantsAssumption DEF Frames, Positions
<1>5. pending[1].start <= pending[1].end
  BY <1>2 DEF IInv, PendingInv
<1>6. pending[1].end + Latency <= MaxSample /\ pending[1].end + Latency <= rowEnd
  BY <1>2 DEF SomeReady, Ready
<1>7. rowStart <= pending[1].start + Latency
  BY <1>1 DEF IInv, ClockInv
<1>8. rowEnd <= rowStart + Len(row)
  <2>1. CASE tailStart = None
    BY <1>1, <1>3, <2>1 DEF IInv, ClockInv
  <2>2. CASE tailStart # None
    <3>1. rowStart + Len(row) = tailStart + Latency /\ rowEnd = Plus(tailStart, Latency)
      BY <1>3, <2>2 DEF IInv, ClockInv
    <3>2. tailStart \in Nat /\ Latency \in Nat
      BY <2>2, ConstantsAssumption DEF IInv, TypeOK, Option, Positions
    <3>3. QED
      BY <3>1, <3>2, PlusProperties
  <2>3. QED
    BY <2>1, <2>2
<1>9. QED
  BY <1>1, <1>2, <1>3, <1>4, <1>5, <1>6, <1>7, <1>8

\* What is returned with the front frame f.
Aligned(f) == [frame |-> f, epoch |-> epoch, row |-> Cut(f), tailFlush |-> TailFlush(f)]

\* The cut is the frame's own outputs, whole.
LEMMA CutIsOwn ==
  ASSUME IInv, SomeReady
  PROVE  Aligned(pending[1]) \in Outputs /\ Own(Aligned(pending[1]), epoch)
<1> DEFINE f == pending[1]
<1>1. /\ f \in Frames /\ f.start \in Nat /\ f.end \in Nat /\ f.start <= f.end
      /\ f.end + Latency <= MaxSample /\ f.end + Latency <= rowEnd
      /\ rowStart # None /\ topology # None
      /\ rowStart \in Nat /\ rowEnd \in Nat /\ Len(row) \in Nat
      /\ rowStart <= f.start + Latency /\ rowEnd <= rowStart + Len(row)
  BY FrontFrame
<1> HIDE DEF f
\* The bounds of the frame, and where the row begins and how long it is, as numbers.
<1>2. PICK s \in Nat, e \in Nat, r \in Nat, w \in Nat, q \in Nat :
        f.start = s /\ f.end = e /\ rowStart = r /\ Len(row) = w /\ rowEnd = q
  BY <1>1
<1>3. /\ s <= e /\ r <= s + Latency /\ e + Latency <= q /\ q <= r + w
      /\ e + Latency <= MaxSample /\ Latency \in Nat /\ MaxSample \in Nat
  BY <1>1, <1>2, ConstantsAssumption
<1> DEFINE o == s + Latency - r
           n == e - s
<1>4. /\ o \in Nat /\ n \in Nat /\ o + n <= w
      /\ e = s + n /\ r + o = s + Latency /\ o + e - s = o + n
      /\ s + Latency <= MaxSample /\ s + Latency >= r
      /\ (s + Latency) + n = e + Latency
      /\ \A j \in 1 .. n : r + (o + j) - 1 = s + Latency + j - 1
      /\ e + Latency \in Nat /\ s + Latency \in Nat
  BY <1>3
<1>5. Plus(f.start, Latency) = s + Latency
  BY <1>2, <1>3, <1>4, PlusProperties
<1>6. Offset(f) = o
  <2>1. Offset(f) = IF s + Latency > r THEN s + Latency - r ELSE 0
    <3>1. Latency \in Nat
      BY ConstantsAssumption
    <3>2. QED
      BY <1>2, <1>5, <3>1 DEF Offset
  <2>2. CASE s + Latency > r
    BY <2>1, <2>2
  <2>3. CASE s + Latency = r
    <3>1. ~(s + Latency > r) /\ s + Latency - r = 0
      BY <1>3, <2>3
    <3>2. QED
      BY <2>1, <3>1
  <2>4. QED
    BY <1>3, <2>2, <2>3
<1>7. Plus(Plus(f.start, Latency), f.end - f.start) = e + Latency
  <2>1. Plus(s + Latency, n) = e + Latency
    BY <1>3, <1>4, PlusProperties
  <2>2. QED
    BY <1>2, <1>5, <2>1
<1>8. Length(f) = n
  BY <1>2 DEF Length
<1> HIDE DEF o, n
<1>9. Cut(f) = SubSeq(row, o + 1, o + n)
  <2>1. Offset(f) + f.end - f.start = o + n
    BY <1>2, <1>4, <1>6
  <2>2. QED
    BY <1>2, <1>4, <1>6, <2>1 DEF Cut
<1>10. /\ Cut(f) \in Seq(Samples) /\ Len(Cut(f)) = n
       /\ \A j \in 1 .. n : Cut(f)[j] = row[o + j]
  <2>1. \A i \in o + 1 .. o + n : row[i] \in Samples
    <3>1. row \in Seq(Samples)
      BY DEF IInv, TypeOK
    <3>2. \A i \in o + 1 .. o + n : i \in 1 .. w
      BY <1>4
    <3>3. QED
      BY <1>2, <3>1, <3>2
  <2>2. o + 1 \in Int /\ o + n \in Int
    BY <1>4
  <2>3. /\ SubSeq(row, o + 1, o + n) \in Seq(Samples)
        /\ Len(SubSeq(row, o + 1, o + n)) =
             (IF o + 1 <= o + n THEN (o + n) - (o + 1) + 1 ELSE 0)
        /\ \A j \in 1 .. (o + n) - (o + 1) + 1 :
             SubSeq(row, o + 1, o + n)[j] = row[(o + 1) + j - 1]
    BY <2>1, <2>2, SubSeqProperties
  <2>4. /\ (o + n) - (o + 1) + 1 = n
        /\ (IF o + 1 <= o + n THEN (o + n) - (o + 1) + 1 ELSE 0) = n
        /\ \A j \in 1 .. n : (o + 1) + j - 1 = o + j
    BY <1>4
  <2>5. QED
    BY <1>9, <2>3, <2>4
<1>11. \A j \in 1 .. n : /\ Cut(f)[j].epoch = epoch
                         /\ Cut(f)[j].at = s + Latency + j - 1
                         /\ Cut(f)[j].tail <=> tailStart # None /\ Cut(f)[j].at >= tailStart
  <2> SUFFICES ASSUME NEW j \in 1 .. n
               PROVE  /\ Cut(f)[j].epoch = epoch
                      /\ Cut(f)[j].at = s + Latency + j - 1
                      /\ Cut(f)[j].tail <=> tailStart # None /\ Cut(f)[j].at >= tailStart
    OBVIOUS
  <2>1. o + j \in 1 .. w
    BY <1>4
  <2>2. Cut(f)[j] = row[o + j] /\ o + j \in 1 .. Len(row)
    BY <1>2, <1>10, <2>1
  <2>3. /\ row[o + j].epoch = epoch /\ row[o + j].at = rowStart + (o + j) - 1
        /\ row[o + j].tail <=> tailStart # None /\ row[o + j].at >= tailStart
    BY <2>2 DEF IInv, RowInv
  <2>4. rowStart + (o + j) - 1 = s + Latency + j - 1
    BY <1>2, <1>4
  <2>5. QED
    BY <2>2, <2>3, <2>4
<1>12. n > 0 => (TailFlush(f) <=> \E j \in 1 .. n : Cut(f)[j].tail)
  <2> SUFFICES ASSUME n > 0 PROVE TailFlush(f) <=> \E j \in 1 .. n : Cut(f)[j].tail
    OBVIOUS
  <2>1. CASE tailStart = None
    BY <1>11, <2>1 DEF TailFlush
  <2>2. CASE tailStart # None
    <3>1. tailStart \in Nat
      BY <2>2, ConstantsAssumption DEF IInv, TypeOK, Option, Positions
    <3>2. PICK u \in Nat : tailStart = u
      BY <3>1
    <3>3. TailFlush(f) <=> e + Latency > u
      BY <1>7, <2>2, <3>2 DEF TailFlush
    <3>4. ASSUME NEW j \in 1 .. n, Cut(f)[j].tail
          PROVE  e + Latency > u
      <4>1. s + Latency + j - 1 >= u
        BY <1>11, <3>2, <3>4
      <4>2. QED
        BY <1>3, <1>4, <4>1
    <3>5. ASSUME e + Latency > u
          PROVE  Cut(f)[n].tail /\ n \in 1 .. n
      <4>1. n \in 1 .. n /\ s + Latency + n - 1 >= u
        BY <1>3, <1>4, <3>5
      <4>2. Cut(f)[n].at = s + Latency + n - 1
        BY <1>11, <4>1
      <4>3. Cut(f)[n].at >= tailStart
        BY <3>2, <4>1, <4>2
      <4>4. QED
        BY <1>11, <2>2, <4>1, <4>3
    <3>6. QED
      BY <3>3, <3>4, <3>5
  <2>3. QED
    BY <2>1, <2>2
<1>13. Own(Aligned(f), epoch)
  <2>1. /\ Len(Cut(f)) = n /\ Length(f) = n
        /\ \A j \in 1 .. n : Cut(f)[j].epoch = epoch /\ Cut(f)[j].at = f.start + Latency + j - 1
        /\ n > 0 => (TailFlush(f) <=> \E j \in 1 .. n : Cut(f)[j].tail)
    BY <1>2, <1>8, <1>10, <1>11, <1>12
  <2>2. QED
    BY <2>1 DEF Own, Aligned
<1>14. Aligned(f) \in Outputs
  <2>1. epoch \in 0 .. MaxEpoch /\ TailFlush(f) \in BOOLEAN
    BY DEF IInv, TypeOK, TailFlush
  <2>2. QED
    BY <1>1, <1>10, <2>1 DEF Aligned, Outputs
<1>15. QED
  BY <1>13, <1>14 DEF f

\* How much of the row goes with the front frame: all before the next one's outputs, or
\* all of it.
LEMMA DiscardProperties ==
  ASSUME IInv, SomeReady
  PROVE  /\ Discard \in Nat /\ Discard <= Len(row)
         /\ rowStart + Discard <= MaxSample
         /\ Len(pending) > 1 => rowStart + Discard = pending[2].start + Latency
<1>1. /\ pending[1].start \in Nat /\ pending[1].end \in Nat
      /\ pending[1].start <= pending[1].end
      /\ pending[1].end + Latency <= MaxSample /\ pending[1].end + Latency <= rowEnd
      /\ rowStart \in Nat /\ rowEnd \in Nat /\ Len(row) \in Nat /\ Len(pending) \in Nat
      /\ rowStart <= pending[1].start + Latency /\ rowEnd <= rowStart + Len(row)
      /\ Latency \in Nat /\ MaxSample \in Nat /\ rowEnd <= MaxSample
  <2>1. rowEnd <= MaxSample
    BY ConstantsAssumption DEF IInv, TypeOK, Positions
  <2>2. QED
    BY <2>1, FrontFrame, ConstantsAssumption
<1>2. CASE Len(pending) > 1
  <2>1. pending[2].start = pending[1].end
    <3>1. 1 \in 1 .. Len(pending) - 1
      BY <1>1, <1>2
    <3>2. pending[1 + 1].start = pending[1].end
      BY <3>1 DEF IInv, PendingInv
    <3>3. QED
      BY <3>2
  <2> DEFINE to == pending[1].end + Latency
  <2>2. Plus(pending[2].start, Latency) = to
    <3>1. pending[1].end \in Nat /\ Latency \in Nat /\ pending[1].end + Latency <= MaxSample
      BY <1>1
    <3>2. Plus(pending[1].end, Latency) = pending[1].end + Latency
      BY <3>1, PlusProperties
    <3>3. QED
      BY <2>1, <3>2
  <2>3. to \in Nat /\ rowStart <= to /\ to - rowStart <= Len(row) /\ to <= MaxSample
    <3>1. PICK s \in Nat, e \in Nat, r \in Nat, w \in Nat, q \in Nat :
            /\ pending[1].start = s /\ pending[1].end = e /\ rowStart = r
            /\ Len(row) = w /\ rowEnd = q
      BY <1>1
    <3>2. /\ s <= e /\ r <= s + Latency /\ e + Latency <= q /\ q <= r + w /\ q <= MaxSample
          /\ Latency \in Nat /\ MaxSample \in Nat
      BY <1>1, <3>1
    <3>3. /\ e + Latency \in Nat /\ r <= e + Latency /\ (e + Latency) - r <= w
          /\ e + Latency <= MaxSample
      BY <3>2
    <3>4. QED
      BY <3>1, <3>3
  <2>4. Discard = to - rowStart
    <3> HIDE DEF to
    <3>1. CASE to > rowStart
      BY <1>1, <1>2, <2>2, <2>3, <3>1 DEF Discard
    <3>2. CASE to = rowStart
      BY <1>1, <1>2, <2>2, <2>3, <3>2 DEF Discard
    <3>3. QED
      BY <1>1, <2>3, <3>1, <3>2
  <2>5. /\ Discard \in Nat /\ Discard <= Len(row)
        /\ rowStart + Discard = to /\ to <= MaxSample
    <3> HIDE DEF to
    <3>1. QED
      BY <1>1, <2>3, <2>4
  <2>6. QED
    BY <1>2, <2>1, <2>5
<1>3. CASE ~(Len(pending) > 1)
  <2>1. rowEnd >= rowStart /\ rowEnd - rowStart <= Len(row)
    BY <1>1
  <2>2. Discard = rowEnd - rowStart
    <3>1. CASE rowEnd > rowStart
      BY <1>1, <1>3, <2>1, <3>1 DEF Discard
    <3>2. CASE rowEnd = rowStart
      BY <1>1, <1>3, <2>1, <3>2 DEF Discard
    <3>3. QED
      BY <1>1, <2>1, <3>1, <3>2
  <2>3. QED
    BY <1>1, <1>3, <2>1, <2>2
<1>4. QED
  BY <1>2, <1>3

LEMMA DrainInv ==
  ASSUME IInv, DrainReady
  PROVE  IInv'
<1> DEFINE d == Discard
<1>1. /\ returned' = Append(returned, Aligned(pending[1]))
      /\ pending' = Tail(pending) /\ row' = SubSeq(row, d + 1, Len(row))
      /\ rowStart' = Plus(rowStart, d) /\ SomeReady /\ call # None
      /\ UNCHANGED <<rate, topology, nextFrame, nextSample, rowEnd, epoch, tailStart,
                     finished, call, taken>>
  <2>1. Head(pending) = pending[1]
    BY FrontFrame DEF DrainReady
  <2>2. QED
    BY <2>1 DEF DrainReady, Aligned, format, clock
<1>2. /\ rowStart # None /\ topology # None
      /\ rowStart \in Nat /\ rowEnd \in Nat /\ Len(row) \in Nat
      /\ pending[1].start \in Nat /\ pending[1].end \in Nat
      /\ pending[1].end + Latency <= MaxSample /\ pending[1].end + Latency <= rowEnd
      /\ Len(pending) \in Nat \ {0}
  BY <1>1, FrontFrame
<1>3. /\ d \in Nat /\ d <= Len(row) /\ rowStart + d <= MaxSample
      /\ Len(pending) > 1 => rowStart + d = pending[2].start + Latency
  BY <1>1, DiscardProperties
<1> HIDE DEF d
<1>4. rowStart' = rowStart + d /\ rowStart' \in Positions /\ rowStart' # None /\ rowStart' \in Nat
  BY <1>1, <1>2, <1>3, PlusProperties, ConstantsAssumption DEF Positions
<1>5. /\ row' \in Seq(Samples) /\ Len(row') = Len(row) - d
      /\ \A j \in 1 .. Len(row) - d : row'[j] = row[d + j]
  <2>1. \A i \in d + 1 .. Len(row) : row[i] \in Samples
    <3>1. row \in Seq(Samples)
      BY DEF IInv, TypeOK
    <3>2. \A i \in d + 1 .. Len(row) : i \in 1 .. Len(row)
      BY <1>2, <1>3
    <3>3. QED
      BY <3>1, <3>2
  <2>2. d + 1 \in Int /\ Len(row) \in Int
    BY <1>2, <1>3
  <2>3. /\ SubSeq(row, d + 1, Len(row)) \in Seq(Samples)
        /\ Len(SubSeq(row, d + 1, Len(row))) =
             (IF d + 1 <= Len(row) THEN Len(row) - (d + 1) + 1 ELSE 0)
        /\ \A j \in 1 .. Len(row) - (d + 1) + 1 :
             SubSeq(row, d + 1, Len(row))[j] = row[(d + 1) + j - 1]
    BY <2>1, <2>2, SubSeqProperties
  <2>4. /\ Len(row) - (d + 1) + 1 = Len(row) - d
        /\ (IF d + 1 <= Len(row) THEN Len(row) - (d + 1) + 1 ELSE 0) = Len(row) - d
        /\ \A j \in 1 .. Len(row) - d : (d + 1) + j - 1 = d + j
    BY <1>2, <1>3
  <2>5. QED
    BY <1>1, <2>3, <2>4
<1>6. /\ pending' \in Seq(Frames) /\ Len(pending') = Len(pending) - 1
      /\ \A i \in 1 .. Len(pending) - 1 : pending'[i] = pending[i + 1]
      /\ pending' # <<>> => Len(pending) > 1 /\ pending'[1] = pending[2]
  <2>1. pending \in Seq(Frames) /\ pending # <<>>
    BY <1>1 DEF IInv, TypeOK, SomeReady
  <2>2. /\ pending' \in Seq(Frames) /\ Len(pending') = Len(pending) - 1
        /\ \A i \in 1 .. Len(pending) - 1 : pending'[i] = pending[i + 1]
    BY <1>1, <2>1, HeadTailProperties
  <2>3. pending' # <<>> => Len(pending') \in Nat \ {0}
    BY <2>2, EmptySeq
  <2>4. pending' # <<>> => Len(pending) > 1 /\ 1 \in 1 .. Len(pending) - 1
    BY <1>2, <2>2, <2>3
  <2>5. QED
    BY <2>2, <2>4
<1>7. /\ returned' \in Seq(Outputs) /\ Len(returned) \in Nat
      /\ Len(returned') = Len(returned) + 1
      /\ \A i \in 1 .. Len(returned) : returned'[i] = returned[i]
      /\ returned'[Len(returned) + 1] = Aligned(pending[1])
  <2>1. returned \in Seq(Outputs) /\ Aligned(pending[1]) \in Outputs
    BY <1>1, CutIsOwn DEF IInv, TypeOK
  <2>2. QED
    BY <1>1, <2>1, AppendProperties
<1>8. TypeOK'
  BY <1>1, <1>4, <1>5, <1>6, <1>7 DEF IInv, TypeOK, Option
<1>9. PendingInv'
  <2>1. ASSUME NEW i \in 1 .. Len(pending) - 1
        PROVE  /\ pending'[i].start <= pending'[i].end /\ pending'[i].end <= nextSample'
    <3>1. i + 1 \in 1 .. Len(pending)
      BY <1>2
    <3>2. pending'[i] = pending[i + 1]
      BY <1>6
    <3>3. QED
      BY <1>1, <3>1, <3>2 DEF IInv, PendingInv
  <2>2. ASSUME NEW i \in 1 .. (Len(pending) - 1) - 1
        PROVE  pending'[i + 1].start = pending'[i].end
    <3>1. /\ i + 1 \in 1 .. Len(pending) - 1 /\ i \in 1 .. Len(pending) - 1
      BY <1>2
    <3>2. pending'[i] = pending[i + 1] /\ pending'[i + 1] = pending[(i + 1) + 1]
      BY <1>6, <3>1
    <3>3. QED
      BY <3>1, <3>2 DEF IInv, PendingInv
  <2>3. ASSUME NEW i \in 1 .. Len(pending) - 1, NEW j \in 1 .. Len(pending) - 1, i <= j
        PROVE  pending'[i].end <= pending'[j].end
    <3>1. i + 1 \in 1 .. Len(pending) /\ j + 1 \in 1 .. Len(pending) /\ i + 1 <= j + 1
      BY <1>2, <2>3
    <3>2. pending'[i] = pending[i + 1] /\ pending'[j] = pending[j + 1]
      BY <1>6
    <3>3. QED
      BY <3>1, <3>2 DEF IInv, PendingInv
  <2>4. ASSUME pending' # <<>>
        PROVE  pending'[Len(pending')].end = nextSample'
    <3>1. Len(pending) > 1 /\ Len(pending') = Len(pending) - 1
      BY <1>6, <2>4
    <3>2. Len(pending) - 1 \in 1 .. Len(pending) - 1 /\ (Len(pending) - 1) + 1 = Len(pending)
      BY <1>2, <3>1
    <3>3. pending'[Len(pending')] = pending[Len(pending)]
      BY <1>6, <3>1, <3>2
    <3>4. pending # <<>>
      BY <1>1 DEF SomeReady
    <3>5. QED
      BY <1>1, <3>3, <3>4 DEF IInv, PendingInv
  <2>5. QED
    BY <1>6, <2>1, <2>2, <2>3, <2>4 DEF PendingInv
<1>10. ClockInv'
  <2>1. rowStart' + Len(row') = rowStart + Len(row)
    BY <1>2, <1>3, <1>4, <1>5
  <2>2. pending' # <<>> => rowStart' <= pending'[1].start + Latency
    BY <1>3, <1>4, <1>6
  <2>3. rate' # None
    BY <1>1, <1>2 DEF IInv, ClockInv
  <2>4. QED
    BY <1>1, <1>2, <1>4, <2>1, <2>2, <2>3 DEF IInv, ClockInv
<1>11. RowInv'
  <2> SUFFICES ASSUME NEW j \in 1 .. Len(row) - d
               PROVE  /\ row'[j].epoch = epoch
                      /\ row'[j].at = rowStart' + j - 1
                      /\ row'[j].tail <=> tailStart # None /\ row'[j].at >= tailStart
    BY <1>1, <1>5 DEF RowInv
  <2>1. row'[j] = row[d + j] /\ d + j \in 1 .. Len(row)
    BY <1>2, <1>3, <1>5
  <2>2. /\ row[d + j].epoch = epoch /\ row[d + j].at = rowStart + (d + j) - 1
        /\ row[d + j].tail <=> tailStart # None /\ row[d + j].at >= tailStart
    BY <2>1 DEF IInv, RowInv
  <2>3. rowStart + (d + j) - 1 = rowStart' + j - 1
    BY <1>2, <1>3, <1>4
  <2>4. QED
    BY <2>1, <2>2, <2>3
<1>12. TakenInv'
  <2>1. Len(taken) = Len(returned) + Len(pending)
    BY DEF IInv, TakenInv
  <2>2. Len(taken') = Len(returned') + Len(pending')
    BY <1>1, <1>2, <1>6, <1>7, <2>1
  <2>3. ASSUME NEW i \in 1 .. Len(returned) + 1
        PROVE  taken'[i] = returned'[i].frame
    <3>1. CASE i = Len(returned) + 1
      <4>1. taken[Len(returned) + 1] = pending[1]
        BY <1>2 DEF IInv, TakenInv
      <4>2. returned'[i].frame = pending[1]
        BY <1>7, <3>1 DEF Aligned
      <4>3. QED
        BY <1>1, <3>1, <4>1, <4>2
    <3>2. CASE i # Len(returned) + 1
      <4>1. i \in 1 .. Len(returned)
        BY <1>7, <3>2
      <4>2. QED
        BY <1>1, <1>7, <4>1 DEF IInv, TakenInv
    <3>3. QED
      BY <3>1, <3>2
  <2>4. ASSUME NEW i \in 1 .. Len(pending) - 1
        PROVE  taken'[Len(returned) + 1 + i] = pending'[i]
    <3>1. i + 1 \in 1 .. Len(pending) /\ Len(returned) + (i + 1) = Len(returned) + 1 + i
      <4>1. Len(pending) \in Nat /\ Len(returned) \in Nat
        BY <1>2, <1>7
      <4>2. QED
        BY <4>1
    <3>2. taken[Len(returned) + (i + 1)] = pending[i + 1]
      BY <3>1 DEF IInv, TakenInv
    <3>3. QED
      BY <1>1, <1>6, <3>1, <3>2
  <2>5. QED
    BY <1>6, <1>7, <2>2, <2>3, <2>4 DEF TakenInv
<1>13. ReturnedInv'
  <2>1. Own(Aligned(pending[1]), epoch)
    BY <1>1, CutIsOwn
  <2> SUFFICES ASSUME NEW i \in 1 .. Len(returned) + 1
               PROVE  Own(returned'[i], epoch)
    BY <1>1, <1>7 DEF ReturnedInv, Own
  <2>2. CASE i = Len(returned) + 1
    BY <1>7, <2>1, <2>2
  <2>3. CASE i # Len(returned) + 1
    <3>1. i \in 1 .. Len(returned)
      BY <1>7, <2>3
    <3>2. QED
      BY <1>7, <3>1 DEF IInv, ReturnedInv
  <2>4. QED
    BY <2>2, <2>3
<1>14. HeldInv'
  <2>1. ASSUME tailStart = None
        PROVE  pending' # <<>>
    <3>1. rowEnd = nextSample
      BY <1>2, <2>1 DEF IInv, ClockInv
    <3>2. SUFFICES ASSUME pending' = <<>> PROVE FALSE
      OBVIOUS
    <3>3. Len(pending) = 1
      <4>1. Len(pending') = 0
        BY <3>2
      <4>2. QED
        BY <1>2, <1>6, <4>1
    <3>4. pending[1].end = nextSample
      <4>1. pending # <<>>
        BY <1>1 DEF SomeReady
      <4>2. QED
        BY <3>3, <4>1 DEF IInv, PendingInv
    <3>5. QED
      BY <1>2, <3>1, <3>4, ConstantsAssumption
  <2>2. tailStart' = None => pending' # <<>> /\ rowStart' = pending'[1].start + Latency
    BY <1>1, <1>3, <1>4, <1>6, <2>1
  <2>3. ~finished' /\ call' # None
    BY <1>1 DEF IInv, ClockInv
  <2>4. QED
    BY <2>2, <2>3 DEF HeldInv
<1>15. QED
  BY <1>8, <1>9, <1>10, <1>11, <1>12, <1>13, <1>14 DEF IInv

\* The call returns only when the front frame cannot be ready: nothing is held longer
\* than the latency, and after finish nothing is held at all.
LEMMA ReturnInv ==
  ASSUME IInv, Return
  PROVE  IInv'
<1>1. /\ call # None /\ ~SomeReady /\ call' = None /\ ~finished
      /\ finished' = (call = "finish")
      /\ UNCHANGED <<rate, topology, nextFrame, nextSample, rowStart, rowEnd, row, pending,
                     epoch, tailStart, taken, returned>>
      /\ "finish" # None
  BY ConstantsAssumption DEF Return, IInv, ClockInv, TypeOK, format, clock
<1>2. TypeOK'
  BY <1>1 DEF IInv, TypeOK
<1>3. ClockInv'
  BY <1>1 DEF IInv, ClockInv
<1>4. PendingInv' /\ RowInv' /\ TakenInv' /\ ReturnedInv'
  BY <1>1 DEF IInv, PendingInv, RowInv, TakenInv, ReturnedInv, Own
<1>5. ASSUME pending # <<>>
      PROVE  /\ Head(pending) = pending[1] /\ pending \in Seq(Frames) /\ Len(pending) \in Nat \ {0}
             /\ pending[1].end \in Nat /\ pending[1].end <= nextSample
             /\ rowStart # None /\ topology # None
             /\ \/ pending[1].end + Latency > MaxSample
                \/ pending[1].end + Latency > rowEnd
             /\ nextSample \in Nat /\ rowEnd \in Nat /\ Latency \in Nat /\ MaxSample \in Nat
  <2>1. pending \in Seq(Frames) /\ Len(pending) \in Nat \ {0} /\ Head(pending) = pending[1]
    BY <1>5, EmptySeq DEF IInv, TypeOK
  <2>2. pending[1] \in Frames /\ pending[1].end <= nextSample
    BY <2>1 DEF IInv, PendingInv
  <2>3. pending[1].end \in Nat
    BY <2>2, ConstantsAssumption DEF Frames, Positions
  <2>4. rowStart # None /\ topology # None
    BY <1>5 DEF IInv, ClockInv
  <2>5. nextSample \in Nat /\ rowEnd \in Nat /\ Latency \in Nat /\ MaxSample \in Nat
    BY ConstantsAssumption DEF IInv, TypeOK, Positions
  <2>6. ~(pending[1].end + Latency <= MaxSample /\ pending[1].end + Latency <= rowEnd)
    BY <1>1, <1>5, <2>1, <2>4 DEF SomeReady, Ready
  <2>7. QED
    BY <2>1, <2>2, <2>3, <2>4, <2>5, <2>6
<1>6. HeldInv'
  <2>1. ASSUME call # "finish", pending # <<>>
        PROVE  nextSample - pending[1].end < Latency \/ pending[1].end + Latency > MaxSample
    <3>1. tailStart = None
      BY <1>1, <2>1 DEF IInv, ClockInv
    <3>2. rowEnd = nextSample
      BY <1>5, <2>1, <3>1 DEF IInv, ClockInv
    <3>3. QED
      BY <1>5, <2>1, <3>2
  <2>2. ASSUME call = "finish", NEW f \in Held
        PROVE  f.end + Latency > MaxSample
    <3>1. PICK i \in 1 .. Len(pending) : f = pending[i]
      BY DEF Held
    <3>2. pending # <<>>
      BY <3>1
    <3>3. pending[i] \in Frames /\ pending[i].end \in Nat
      <4>1. pending \in Seq(Frames)
        BY DEF IInv, TypeOK
      <4>2. pending[i] \in Frames
        BY <4>1, <3>1
      <4>3. QED
        BY <4>2, ConstantsAssumption DEF Frames, Positions
    <3>4. pending[1].end <= pending[i].end
      BY <1>5, <3>2 DEF IInv, PendingInv
    <3>5. tailStart # None
      BY <1>1, <2>2 DEF IInv, ClockInv
    <3>6. rowEnd = Plus(nextSample, Latency)
      BY <1>5, <3>2, <3>5 DEF IInv, ClockInv
    <3>7. pending[1].end + Latency > MaxSample
      BY <1>5, <3>2, <3>6 DEF Plus
    <3>8. QED
      BY <1>5, <3>1, <3>2, <3>3, <3>4, <3>7
  <2>3. \A f \in Held' : f \in Held
    BY <1>1 DEF Held
  <2>4. tailStart' = None /\ returned' # <<>> =>
          pending' # <<>> /\ rowStart' = pending'[1].start + Latency
    BY <1>1 DEF IInv, HeldInv
  <2>5. QED
    BY <1>1, <2>1, <2>2, <2>3, <2>4 DEF HeldInv
<1>7. QED
  BY <1>2, <1>3, <1>4, <1>6 DEF IInv

LEMMA NextInv == IInv /\ [Next]_vars => IInv'
<1> SUFFICES ASSUME IInv, [Next]_vars PROVE IInv'
  OBVIOUS
<1>1. CASE \E f \in NewFrames, r \in Rates, t \in Topologies : Push(f, r, t)
  BY <1>1, PushInv, DiscontinuityInv, EmptyInv DEF Push
<1>2. CASE \E t \in Topologies : Finish(t)
  BY <1>2, FinishInv
<1>3. CASE DrainReady
  BY <1>3, DrainInv
<1>4. CASE Return
  BY <1>4, ReturnInv
<1>5. CASE Reset
  BY <1>5, EmptyInv
<1>6. CASE UNCHANGED vars
  BY <1>6 DEF vars, format, clock, IInv, TypeOK, PendingInv, ClockInv, RowInv, TakenInv,
              ReturnedInv, HeldInv, Own, Held
<1>7. QED
  BY <1>1, <1>2, <1>3, <1>4, <1>5, <1>6 DEF Next

\* The invariant holds in every reachable state.
THEOREM Invariant == Spec => []IInv
  BY InitInv, NextInv, PTL DEF Spec

\* No position passes the end of the clock, however long the stream.
THEOREM TypeCorrect == Spec => []TypeOK
<1>1. IInv => TypeOK
  BY DEF IInv
<1>2. QED
  BY <1>1, Invariant, PTL

\* Every frame comes back once, in order, with exactly the outputs that carry its own
\* samples, for every latency and every sequence of frames, discontinuities and resets.
THEOREM OwnSamplesHold == Spec => []OwnSamples
<1>1. ASSUME IInv
      PROVE  [i \in 1 .. Len(returned) |-> returned[i].frame] \o pending = taken
  <2> DEFINE frames == [i \in 1 .. Len(returned) |-> returned[i].frame]
  <2>1. /\ returned \in Seq(Outputs) /\ pending \in Seq(Frames) /\ taken \in Seq(Frames)
        /\ Len(returned) \in Nat /\ Len(pending) \in Nat
    BY <1>1 DEF IInv, TypeOK
  <2>2. frames \in Seq(Frames) /\ Len(frames) = Len(returned)
    <3>1. ASSUME NEW i \in 1 .. Len(returned) PROVE returned[i].frame \in Frames
      <4>1. returned[i] \in Outputs
        BY <2>1
      <4>2. QED
        BY <4>1 DEF Outputs
    <3>2. frames \in [1 .. Len(returned) -> Frames]
      BY <3>1
    <3>3. QED
      BY <2>1, <3>2, SeqDef
  <2>3. \A i \in 1 .. Len(returned) : frames[i] = returned[i].frame
    OBVIOUS
  <2> HIDE DEF frames
  <2>4. /\ frames \o pending \in Seq(Frames)
        /\ Len(frames \o pending) = Len(returned) + Len(pending)
        /\ \A i \in 1 .. Len(returned) + Len(pending) : (frames \o pending)[i] =
             IF i <= Len(returned) THEN frames[i] ELSE pending[i - Len(returned)]
    <3>1. /\ frames \o pending \in Seq(Frames)
          /\ Len(frames \o pending) = Len(frames) + Len(pending)
          /\ \A i \in 1 .. Len(frames) + Len(pending) : (frames \o pending)[i] =
               IF i <= Len(frames) THEN frames[i] ELSE pending[i - Len(frames)]
      BY <2>1, <2>2, ConcatProperties
    <3>2. QED
      BY <2>2, <3>1
  <2>5. ASSUME NEW i \in 1 .. Len(returned) + Len(pending)
        PROVE  (frames \o pending)[i] = taken[i]
    <3>1. CASE i <= Len(returned)
      BY <1>1, <2>1, <2>3, <2>4, <3>1 DEF IInv, TakenInv
    <3>2. CASE i > Len(returned)
      <4>1. i - Len(returned) \in 1 .. Len(pending) /\ Len(returned) + (i - Len(returned)) = i
        BY <2>1, <3>2
      <4>2. taken[Len(returned) + (i - Len(returned))] = pending[i - Len(returned)]
        BY <1>1, <4>1 DEF IInv, TakenInv
      <4>3. QED
        BY <2>1, <2>4, <3>2, <4>1, <4>2
    <3>3. i <= Len(returned) \/ i > Len(returned)
      BY <2>1
    <3>4. QED
      BY <3>1, <3>2, <3>3
  <2>6. Len(taken) = Len(returned) + Len(pending)
    BY <1>1 DEF IInv, TakenInv
  <2>7. frames \o pending = taken
    BY <2>1, <2>4, <2>5, <2>6, SeqEqual
  <2>8. QED
    BY <2>7 DEF frames
<1>2. IInv => OwnSamples
  BY <1>1 DEF IInv, ReturnedInv, Own, OwnSamples
<1>3. QED
  BY <1>2, Invariant, PTL

\* Nothing is held longer than the latency requires, and finish leaves nothing behind
\* but what ends within the latency of the end of the clock.
THEOREM HeldNoLongerHolds == Spec => []HeldNoLonger
<1>1. IInv => HeldNoLonger
  <2> SUFFICES ASSUME IInv PROVE HeldNoLonger
    OBVIOUS
  <2>1. pending # <<>> => Head(pending) = pending[1]
    BY DEF IInv, TypeOK
  <2>2. ASSUME call = None, ~finished, rowStart # None
        PROVE  Len(row) = nextSample -
                 (IF returned = <<>> THEN rowStart ELSE Head(pending).start + Latency)
    <3>1. tailStart = None
      BY <2>2, ConstantsAssumption DEF IInv, ClockInv
    <3>2. rowStart + Len(row) = nextSample
      BY <2>2, <3>1 DEF IInv, ClockInv
    <3>3. rowStart \in Nat /\ Len(row) \in Nat /\ nextSample \in Nat
      BY <2>2, ConstantsAssumption DEF IInv, TypeOK, Option, Positions
    <3>4. returned # <<>> => rowStart = Head(pending).start + Latency
      BY <2>1, <3>1 DEF IInv, HeldInv
    <3>5. QED
      BY <3>2, <3>3, <3>4
  <2>3. QED
    BY <2>1, <2>2 DEF IInv, HeldInv, HeldNoLonger
<1>2. QED
  BY <1>1, Invariant, PTL
=============================================================================
