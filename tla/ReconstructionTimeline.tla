----------------------- MODULE ReconstructionTimeline -----------------------
(***************************************************************************)
(* The output timeline of the object reconstruction (crates/openjoc-joc,   *)
(* ReconstructionOutputTimeline).  The QMF bank answers Latency samples    *)
(* late: its output sample t carries the programme sample t - Latency.     *)
(* The timeline holds every frame of Base PCM back until the outputs       *)
(* that carry its programme samples have arrived, and returns both.        *)
(*                                                                         *)
(* One representative row stands for all of them: the code extends, cuts   *)
(* and discards them alike.  A row holds the identity of each sample, not  *)
(* its value, so that a sample returned with the wrong frame is seen.      *)
(* The LFE and Base PCM travel inside the pending frame and are not        *)
(* repeated here.  topology_epoch moves with reset_epoch, and              *)
(* peak_buffered_samples is a statistic nothing reads back.                *)
(*                                                                         *)
(* push_frame and finish end in the loop of drain_ready: such a call is    *)
(* one action up to the loop, one DrainReady per iteration, and Return.    *)
(***************************************************************************)
EXTENDS Integers, Sequences

CONSTANTS
  None,          \* the absent value of an Option
  Latency,       \* QMF_ROUNDTRIP_LATENCY_SAMPLES
  FrameLengths,  \* lengths a decoded frame may have
  Starts,        \* sample positions a new segment may start at
  Rates,         \* sample rates
  Topologies,    \* pairs of a Base channel count and a reconstruction row count
  MaxSample,     \* largest sample position (u64::MAX in the code)
  MaxFrame,      \* bound: largest frame index
  MaxEpoch       \* bound: number of resets

ASSUME ConstantsAssumption ==
  /\ None \notin Int \cup Rates \cup Topologies \cup {"push", "finish"}
  /\ Latency \in Nat \ {0}
  /\ FrameLengths \subseteq Nat
  /\ MaxSample \in Nat /\ MaxFrame \in Nat /\ MaxEpoch \in Nat
  /\ Starts \subseteq 0 .. MaxSample

VARIABLES
  rate,          \* sample_rate
  topology,      \* base_channel_count and reconstruction_row_count
  nextFrame,     \* next_input_frame
  nextSample,    \* next_input_sample
  rowStart,      \* reconstruction_start_sample
  rowEnd,        \* reconstruction_end_sample
  row,           \* reconstruction_rows, one of them
  pending,       \* pending_frames
  epoch,         \* reset_epoch
  tailStart,     \* tail_start_sample
  finished,      \* finished
  call,          \* the call whose drain_ready loop is running
  taken,         \* history: the frames taken since the last reset
  returned       \* history: the aligned outputs returned since the last reset

format == <<rate, topology>>
clock == <<nextFrame, nextSample>>
vars == <<format, clock, rowStart, rowEnd, row, pending, epoch, tailStart, finished,
          call, taken, returned>>

Option(S) == S \cup {None}
Positions == 0 .. MaxSample
Frames == [index : 0 .. MaxFrame, start : Positions, end : Positions]
Samples == [epoch : 0 .. MaxEpoch, at : 0 .. MaxSample + Latency, tail : BOOLEAN]
Outputs == [frame : Frames, epoch : 0 .. MaxEpoch, row : Seq(Samples), tailFlush : BOOLEAN]

Plain(m, n) == m + n  \* mutant: wraps out of u64

\* u64::saturating_add on sample positions.
Plus(m, n) == IF m + n <= MaxSample THEN m + n ELSE MaxSample

\* The identities of n QMF outputs of the current epoch, the first one at position m.
QmfOutput(m, n, tail) == [i \in 1 .. n |-> [epoch |-> epoch, at |-> m + i - 1, tail |-> tail]]

-----------------------------------------------------------------------------
Init ==
  /\ rate = None /\ topology = None
  /\ nextFrame = 0 /\ nextSample = 0
  /\ rowStart = None /\ rowEnd = 0 /\ row = <<>>
  /\ pending = <<>>
  /\ epoch = 0 /\ tailStart = None /\ finished = FALSE
  /\ call = None /\ taken = <<>> /\ returned = <<>>

(***************************************************************************)
(* push_frame up to drain_ready.  A frame that does not continue the       *)
(* timeline, or has another rate or topology, is refused and changes       *)
(* nothing.  validate_frame_pcm looks at the caller's samples only.        *)
(***************************************************************************)
Continues(f) ==
  \/ rate = None
  \/ f.index = nextFrame /\ f.start = nextSample

Accept(f, r, t) ==
  /\ rate' = r /\ topology' = t
  /\ nextFrame' = f.index + 1 /\ nextSample' = f.end
  /\ call' = "push"

PushFrame(f, r, t) ==
  /\ call = None /\ ~finished
  /\ Continues(f)
  /\ rate \in {None, r} /\ topology \in {None, t}
  /\ Accept(f, r, t)
  /\ rowStart' = (IF rowStart = None THEN f.start ELSE rowStart)
  /\ LET end == IF rowStart = None THEN f.start ELSE rowEnd
     IN  rowEnd' = Plus(end, f.end - f.start)
  /\ row' = row \o QmfOutput(f.start, f.end - f.start, FALSE)
  /\ pending' = Append(pending, f)
  /\ taken' = Append(taken, f)
  /\ UNCHANGED <<epoch, tailStart, finished, returned>>

\* The same with the discontinuity flag: reset_for_discontinuity comes first.
PushDiscontinuity(f, r, t) ==
  /\ call = None /\ ~finished
  /\ epoch < MaxEpoch
  /\ rate \in {None, r}
  /\ Accept(f, r, t)
  /\ epoch' = epoch + 1 /\ tailStart' = None
  /\ rowStart' = f.start /\ rowEnd' = Plus(f.start, f.end - f.start)
  /\ row' = [i \in 1 .. f.end - f.start |->
               [epoch |-> epoch + 1, at |-> f.start + i - 1, tail |-> FALSE]]
  /\ pending' = <<f>>
  /\ taken' = <<f>> /\ returned' = <<>>
  /\ UNCHANGED finished

\* A flagged frame of another rate is refused only after reset_for_discontinuity.
RefuseDiscontinuity(f, r) ==
  /\ call = None /\ ~finished
  /\ epoch < MaxEpoch
  /\ rate \notin {None, r}
  /\ nextFrame' = f.index /\ nextSample' = f.start
  /\ topology' = None
  /\ rowStart' = f.start /\ rowEnd' = f.start /\ row' = <<>> /\ pending' = <<>>
  /\ epoch' = epoch + 1 /\ tailStart' = None
  /\ taken' = <<>> /\ returned' = <<>>
  /\ UNCHANGED <<rate, finished, call>>

Push(f, r, t) ==
  \/ PushFrame(f, r, t)
  \/ PushDiscontinuity(f, r, t)
  \/ RefuseDiscontinuity(f, r)

-----------------------------------------------------------------------------
(***************************************************************************)
(* finish up to drain_ready.  The tail has one row for every row of the    *)
(* topology: before any frame there is no row to extend.                   *)
(***************************************************************************)
Flush == QmfOutput(rowEnd, Latency, TRUE)

FlushedEnd == Plus(rowEnd, Latency)

Finish(t) ==
  /\ call = None /\ ~finished
  /\ topology \in {None, t}
  /\ tailStart' = rowEnd
  /\ row' = (IF topology = None THEN row ELSE row \o Flush)
  /\ rowEnd' = FlushedEnd
  /\ call' = "finish"
  /\ UNCHANGED <<format, clock, rowStart, pending, epoch, finished, taken, returned>>

-----------------------------------------------------------------------------
(***************************************************************************)
(* drain_ready.  A frame is ready once the outputs up to its end plus the  *)
(* latency have come; at the end of the clock the sum overflows and it     *)
(* never is.                                                               *)
(***************************************************************************)
NotYet(f) ==  \* mutant: waits for one output more than the frame needs
  f.end + Latency <= MaxSample /\ f.end + Latency < rowEnd

Ready(f) == f.end + Latency <= MaxSample /\ f.end + Latency <= rowEnd

SomeReady == rowStart # None /\ pending # <<>> /\ Ready(Head(pending))

OffsetUndelayed(f) ==  \* mutant: the latency is not applied
  IF f.start > rowStart THEN f.start - rowStart ELSE 0

\* Where the outputs for frame f begin in the row.
Offset(f) ==
  IF Plus(f.start, Latency) > rowStart THEN Plus(f.start, Latency) - rowStart ELSE 0

\* skip(offset).take(sample_count)
Cut(f) ==
  SubSeq(row, Offset(f) + 1,
         IF Offset(f) + f.end - f.start <= Len(row) THEN Offset(f) + f.end - f.start ELSE Len(row))

TailFlush(f) ==
  tailStart # None /\ Plus(Plus(f.start, Latency), f.end - f.start) > tailStart

\* How many outputs no pending frame needs once the front one is returned.
Discard ==
  LET to == IF Len(pending) > 1 THEN Plus(pending[2].start, Latency) ELSE rowEnd
      n  == IF to > rowStart THEN to - rowStart ELSE 0
  IN  IF n <= Len(row) THEN n ELSE Len(row)

DrainReady ==
  /\ call # None
  /\ SomeReady
  /\ returned' = Append(returned,
       [frame |-> Head(pending), epoch |-> epoch,
        row |-> Cut(Head(pending)), tailFlush |-> TailFlush(Head(pending))])
  /\ pending' = Tail(pending)
  /\ row' = SubSeq(row, Discard + 1, Len(row))
  /\ rowStart' = Plus(rowStart, Discard)
  /\ UNCHANGED <<format, clock, rowEnd, epoch, tailStart, finished, call, taken>>

\* The call returns; a finish with frames left reports MissingTail.
Return ==
  /\ call # None
  /\ ~SomeReady
  /\ finished' = (finished \/ call = "finish")
  /\ call' = None
  /\ UNCHANGED <<format, clock, rowStart, rowEnd, row, pending, epoch, tailStart,
                 taken, returned>>

\* reset
Reset ==
  /\ call = None
  /\ epoch < MaxEpoch
  /\ rate' = None /\ topology' = None
  /\ nextFrame' = 0 /\ nextSample' = 0
  /\ rowStart' = None /\ rowEnd' = 0 /\ row' = <<>> /\ pending' = <<>>
  /\ epoch' = epoch + 1 /\ tailStart' = None /\ finished' = FALSE
  /\ taken' = <<>> /\ returned' = <<>>
  /\ UNCHANGED call

\* Decoded frames: anywhere for a new segment, else where the last one ended.
NewFrames ==
  LET Frame(i, m, n) == [index |-> i, start |-> m, end |-> m + n] IN
  {Frame(i, m, n) : i \in 0 .. MaxFrame - 1, m \in Starts \cup {nextSample}, n \in FrameLengths}
    \cap Frames

Next ==
  \/ \E f \in NewFrames, r \in Rates, t \in Topologies : Push(f, r, t)
  \/ \E t \in Topologies : Finish(t)
  \/ DrainReady
  \/ Return
  \/ Reset

Spec == Init /\ [][Next]_vars

-----------------------------------------------------------------------------
(* Properties *)

Length(f) == f.end - f.start
Held == {pending[i] : i \in 1 .. Len(pending)}

\* Every variable keeps its type: no position passes the end of the u64 clock,
\* however long a stream runs (the saturating sums of push_frame and finish).
TypeOK ==
  /\ rate \in Option(Rates) /\ topology \in Option(Topologies)
  /\ nextFrame \in 0 .. MaxFrame /\ nextSample \in Positions
  /\ rowStart \in Option(Positions) /\ rowEnd \in Positions
  /\ row \in Seq(Samples) /\ pending \in Seq(Frames)
  /\ epoch \in 0 .. MaxEpoch /\ tailStart \in Option(Positions)
  /\ finished \in BOOLEAN /\ call \in {None, "push", "finish"}
  /\ taken \in Seq(Frames) /\ returned \in Seq(Outputs)

\* The frames returned, then the frames held, are the frames taken since the last reset,
\* each once and in order.  A frame is returned with the QMF outputs that carry its own
\* programme samples, all of them, in order and of its own segment: those at start +
\* Latency up to end + Latency, wherever the queue of rows began when it was cut.  It says
\* that it reaches into the flushed tail exactly when one of these outputs came from there.
OwnSamples ==
  /\ [i \in 1 .. Len(returned) |-> returned[i].frame] \o pending = taken
  /\ \A i \in 1 .. Len(returned) :
       LET out == returned[i] IN
       /\ out.epoch = epoch
       /\ Len(out.row) = Length(out.frame)
       /\ \A j \in 1 .. Len(out.row) :
            /\ out.row[j].epoch = out.epoch
            /\ out.row[j].at = out.frame.start + Latency + j - 1
       /\ Length(out.frame) > 0 =>
            (out.tailFlush <=> \E j \in 1 .. Len(out.row) : out.row[j].tail)

\* Nothing is held longer than the latency requires.  Between calls fewer than Latency
\* samples follow the front frame, so that frames no shorter than the latency are held
\* one at a time; the rows hold outputs for the frames pending and, before the first
\* frame is out, the latency, never more.  After finish nothing is pending (MissingTail
\* is never reported).  Frames that end within the latency of the end of the clock
\* never become ready.
HeldNoLonger ==
  /\ call = None /\ ~finished /\ pending # <<>> =>
       nextSample - Head(pending).end < Latency \/ Head(pending).end + Latency > MaxSample
  /\ call = None /\ ~finished /\ rowStart # None =>
       Len(row) = nextSample -
         (IF returned = <<>> THEN rowStart ELSE Head(pending).start + Latency)
  /\ finished => \A f \in Held : f.end + Latency > MaxSample
=============================================================================
