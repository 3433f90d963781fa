--------------------------- MODULE BinauralFilters ---------------------------
(***************************************************************************)
(* The fixed binaural filters (crates/openjoc-render): the direct engine   *)
(* BinauralRenderer, PartitionedBinauralRenderer, which convolves in       *)
(* blocks of Partition samples by way of a spectrum, and SampleDelay, by   *)
(* which the LFE waits for the filters; and the three programs that drive  *)
(* them: BinauralState of the session, the JOC renderer of the command     *)
(* line with either engine, and the scene renderer with either engine.     *)
(*                                                                         *)
(* A sample is a sum: the sequence of its terms, each an input sample of a *)
(* source (its number and that of its stream) and the tap it was weighted  *)
(* with.  So it shows when a tap was left out, applied twice or applied to *)
(* another sample.  Values, gains and rounding are left out, and left and  *)
(* right are one.  The engine of the session and the command line is made  *)
(* with the first frame; until then it is as good as one without input.    *)
(***************************************************************************)
EXTENDS Integers, Sequences, SequencesExt

CONSTANTS
  Taps,        \* tap_count of each source
  Partition,   \* partition_size
  Delays,      \* resampling delays of the filters, and so of the LFE
  BlockSizes,  \* samples of a block, and of a chunk of the tail
  Scenes,      \* start and length of every source of a scene
  MaxTaken,    \* bound: samples of a stream that is not a scene
  MaxResets    \* bound: number of resets

ASSUME FilterAssumption ==
  /\ Taps \in Seq(Nat \ {0}) /\ Taps # <<>>
  /\ Partition \in Nat \ {0} /\ BlockSizes \subseteq Nat \ {0}
  /\ Scenes \subseteq [DOMAIN Taps -> [start : Nat, length : Nat]]
  /\ MaxTaken \in Nat
  /\ \A d \in Delays : d \in Nat /\ \E s \in DOMAIN Taps : d < Taps[s]

VARIABLES
  driver,    \* "session", "cli" or "scene"
  backend,   \* "direct" or "partitioned"
  withLfe,       \* the LFE is mixed in
  scene,     \* the start and the length of every source
  chunk,     \* samples of a block of the tail, and of a block of a scene
  fir,       \* the engine
  lfeDelay,  \* the SampleDelay
  staged,    \* pending_sources and pending_lfe of the command line
  todo,      \* samples of its block that render_partitioned_block has not staged yet
  phase,     \* "input", "tail" or "done": tail_started and finished
  mixed,     \* history: the samples put out in this stream
  taken,       \* history: the samples taken in
  stream     \* history: number of resets

filterConfig == <<driver, backend, withLfe, scene, chunk>>
filterVars == <<filterConfig, fir, lfeDelay, staged, todo, phase, mixed, taken, stream>>

Sources == 1 .. Len(Taps)
MaxTaps == Max({Taps[s] : s \in Sources})
Zeros(n) == [i \in 1 .. n |-> <<>>]
SumOver(n, term(_)) == FlattenSeq([i \in 1 .. n |-> term(i)])
LastOf(x, n) == SubSeq(x, Len(x) - n + 1, Len(x))

\* A sum of input samples times tap t.
Times(x, t) == [i \in 1 .. Len(x) |-> Append(x[i], t)]

-----------------------------------------------------------------------------
(***************************************************************************)
(* BinauralRenderer.  A source keeps the last inputs it may still need.    *)
(***************************************************************************)
DirectNew ==
  [history |-> [s \in Sources |-> Zeros(Taps[s] - 1)], tail |-> [s \in Sources |-> 0],
   failed |-> FALSE]

\* Sample i after the history: the newest input takes tap 0.
Filtered(line, i, s) ==
  SumOver(Taps[s], LAMBDA t : Times(line[i + Taps[s] - t], t - 1))

\* render_block of blocks x of n samples; update_binaural_history
DirectOutput(e, x, n) ==
  [i \in 1 .. n |-> SumOver(Len(Taps), LAMBDA s : Filtered(e.history[s] \o x[s], i, s))]

DirectBlock(e, x) ==
  [e EXCEPT !.history = [s \in Sources |-> LastOf(@[s] \o x[s], Taps[s] - 1)],
            !.tail = [s \in Sources |-> Taps[s] - 1]]

\* drain_tail_block of n samples: a source that has ended adds nothing.
DirectTailOutput(e, n) ==
  [i \in 1 .. n |->
     SumOver(Len(Taps), LAMBDA s :
       IF i > e.tail[s] THEN <<>> ELSE Filtered(e.history[s] \o Zeros(n), i, s))]

DirectTail(e, n) ==
  [e EXCEPT !.history = [s \in Sources |-> LastOf(@[s] \o Zeros(n), Taps[s] - 1)],
            !.tail = [s \in Sources |-> @[s] - Min({n, @[s]})]]

-----------------------------------------------------------------------------
(***************************************************************************)
(* PartitionedBinauralRenderer.  pending is its queue of blocks, one after *)
(* the other.  A product of spectra is a cyclic convolution of FftSize     *)
(* samples.                                                                *)
(***************************************************************************)
PartitionsOf(s) == (Taps[s] + Partition - 1) \div Partition
QueueLength == ((MaxTaps + Partition - 1) \div Partition + 1) * Partition

PartitionedNew ==
  [pending |-> Zeros(QueueLength), hasInput |-> FALSE, at |-> 0, left |-> 0,
   failed |-> FALSE]

FftSize == 2 * Partition

\* Sample i of the product of the input block x of source s with its p-th partition.
Product(x, s, p, i) ==
  SumOver(Len(x), LAMBDA a :
    LET b == (i - a) % FftSize
        t == (p - 1) * Partition + b
    IN IF b < Partition /\ t < Taps[s] THEN Times(x[a], t) ELSE <<>>)

\* process_candidate: all products, added to what is pending; partition p begins at its
\* own block of the queue.
Candidate(e, x) ==
  [k \in 1 .. QueueLength |->
     e.pending[k] \o
     SumOver(Len(Taps), LAMBDA s :
       SumOver(PartitionsOf(s), LAMBDA p :
         LET i == k - (p - 1) * Partition IN
         IF i \in 1 .. FftSize THEN Product(x[s], s, p, i) ELSE <<>>))]

\* render_partition
PartitionOutput(e, x) == SubSeq(Candidate(e, x), 1, Partition)

PartitionBlock(e, x) ==
  [e EXCEPT !.pending = SubSeq(Candidate(e, x), Partition + 1, QueueLength) \o Zeros(Partition),
            !.hasInput = TRUE]

BeginTailAtBlock(e, valid) ==  \* mutant: the tail begins where the padding of the block ends
  [e EXCEPT !.at = IF valid = 0 THEN 0 ELSE Partition, !.left = MaxTaps - 1]

BeginTail(e, valid) ==
  [e EXCEPT !.at = valid, !.left = MaxTaps - 1]

\* finish_input: of the last block the first valid samples are input, the rest is tail.
\* Without any input there is no tail.
FinishOutput(e, x, valid) == IF valid = 0 THEN <<>> ELSE SubSeq(Candidate(e, x), 1, valid)

FinishInput(e, x, valid) ==
  CASE valid = 0 /\ ~e.hasInput -> e
    [] valid = 0 /\ e.hasInput -> BeginTail(e, 0)
    [] OTHER -> BeginTail([e EXCEPT !.pending = Candidate(e, x), !.hasInput = TRUE], valid)

\* drain_tail_block
PartitionedTail(e, n) ==
  IF e.at + n > QueueLength THEN [e EXCEPT !.failed = TRUE]
  ELSE [e EXCEPT !.at = @ + n, !.left = @ - n]

-----------------------------------------------------------------------------
\* remaining_tail_samples of either engine, and a block of its tail.
TailLeft ==
  IF backend = "direct" THEN Max({fir.tail[s] : s \in Sources}) ELSE fir.left

TailOutput(n) ==
  IF n = 0 THEN <<>>
  ELSE IF backend = "direct" THEN DirectTailOutput(fir, n)
  ELSE SubSeq(fir.pending, fir.at + 1, fir.at + n)

AfterTail(n) ==
  IF n = 0 THEN fir
  ELSE IF backend = "direct" THEN DirectTail(fir, n) ELSE PartitionedTail(fir, n)

\* SampleDelay, as a queue: process_sample for every sample of x, drain_sample n times.
NewDelay(n) == [line |-> Zeros(n), remaining |-> 0]

DelayOutput(d, x) == SubSeq(d.line \o x, 1, Len(x))
DelayLine(d, x) ==
  IF x = <<>> THEN d
  ELSE [line |-> LastOf(d.line \o x, Len(d.line)), remaining |-> Len(d.line)]

DelayTail(d, n) == SubSeq(d.line, 1, n)
DelayDrained(d, n) ==
  [line |-> LastOf(d.line \o Zeros(n), Len(d.line)), remaining |-> d.remaining - n]

\* The sum of two blocks, of which the second may be shorter.
Mixed(x, y) == [i \in 1 .. Len(x) |-> IF i <= Len(y) THEN x[i] \o y[i] ELSE x[i]]

\* render_range, add_lfe: the LFE is mixed into the output of the filters, without a tap.
WithLfe(out, x) == IF withLfe THEN Mixed(out, DelayOutput(lfeDelay, x)) ELSE out
AfterLfe(x) == IF withLfe THEN DelayLine(lfeDelay, x) ELSE lfeDelay

-----------------------------------------------------------------------------
SceneEnd == Max({scene[s].start + scene[s].length : s \in Sources})

NewEngine == IF backend = "direct" THEN DirectNew ELSE PartitionedNew

FilterInit ==
  /\ driver \in {"session", "cli", "scene"}
  /\ backend \in (IF driver = "session" THEN {"direct"} ELSE {"direct", "partitioned"})
  /\ withLfe \in (IF driver = "scene" THEN {FALSE} ELSE BOOLEAN)
  /\ scene \in (IF driver = "scene" THEN Scenes
                ELSE {[s \in Sources |-> [start |-> 0, length |-> MaxTaken]]})
  /\ chunk \in (IF backend = "partitioned" THEN {Partition}
                ELSE IF driver = "cli" THEN {MaxTaps} ELSE BlockSizes)
  /\ \E d \in Delays : lfeDelay = NewDelay(d)
  /\ fir = NewEngine /\ staged = <<>> /\ todo = 0 /\ phase = "input"
  /\ mixed = <<>> /\ taken = 0 /\ stream = 0

\* The sample at position p of the programme: a source is silent outside of its span.
Sample(s, p) ==
  IF p - scene[s].start \in 0 .. scene[s].length - 1
  THEN <<<<s, p - scene[s].start, stream>>>> ELSE <<>>

Positions(from, n) == [i \in 1 .. n |-> from + i - 1]
Block(ps) == [s \in Sources |-> [i \in 1 .. Len(ps) |-> Sample(s, ps[i])]]
LfeBlock(ps) == [i \in 1 .. Len(ps) |-> <<<<0, ps[i], stream>>>>]

Taking == phase = "input" /\ ~fir.failed

\* A block of positions ps goes through the engine and to the output.
RenderedDirect(ps) ==
  /\ fir' = DirectBlock(fir, Block(ps))
  /\ mixed' = mixed \o WithLfe(DirectOutput(fir, Block(ps), Len(ps)), LfeBlock(ps))
  /\ lfeDelay' = AfterLfe(LfeBlock(ps))

RenderedPartition(ps) ==
  /\ fir' = PartitionBlock(fir, Block(ps))
  /\ mixed' = mixed \o WithLfe(PartitionOutput(fir, Block(ps)), LfeBlock(ps))
  /\ lfeDelay' = AfterLfe(LfeBlock(ps))

RenderedLast(ps) ==
  /\ fir' = FinishInput(fir, Block(ps), Len(ps))
  /\ mixed' = mixed \o WithLfe(FinishOutput(fir, Block(ps), Len(ps)), LfeBlock(ps))
  /\ lfeDelay' = AfterLfe(LfeBlock(ps))

\* render_range of the session, whole frames or pieces of them; render_direct_block.
RenderDirect(n) ==
  /\ Taking /\ driver # "scene" /\ backend = "direct"
  /\ taken + n <= MaxTaken
  /\ RenderedDirect(Positions(taken, n))
  /\ taken' = taken + n
  /\ UNCHANGED <<filterConfig, staged, todo, phase, stream>>

\* render_partitioned_block: the samples are staged until a partition is full, in as many
\* steps as that takes (flush_partition).
TakeBlock(n) ==
  /\ Taking /\ driver = "cli" /\ backend = "partitioned" /\ todo = 0
  /\ taken + n <= MaxTaken
  /\ todo' = n
  /\ UNCHANGED <<filterConfig, fir, lfeDelay, staged, phase, mixed, taken, stream>>

StageSamples ==
  /\ Taking /\ todo > 0
  /\ LET count == Min({Partition - Len(staged), todo})
         filled == staged \o Positions(taken, count)
     IN /\ todo' = todo - count
        /\ taken' = taken + count
        /\ IF Len(filled) = Partition
           THEN RenderedPartition(filled) /\ staged' = <<>>
           ELSE staged' = filled /\ UNCHANGED <<fir, lfeDelay, mixed>>
  /\ UNCHANGED <<filterConfig, phase, stream>>

\* An iteration of render_to_staging: only the last block may be shorter.
RenderScene ==
  /\ Taking /\ driver = "scene" /\ taken < SceneEnd
  /\ LET n == Min({chunk, SceneEnd - taken})
         ps == Positions(taken, n)
     IN /\ CASE backend = "direct" -> RenderedDirect(ps)
             [] backend = "partitioned" /\ n = chunk -> RenderedPartition(ps)
             [] OTHER -> RenderedLast(ps)
        /\ taken' = taken + n
  /\ UNCHANGED <<filterConfig, staged, todo, phase, stream>>

\* The input ends: begin_drain of the session, and the end of the input of a partitioned
\* engine, with what is staged or, in a scene of whole blocks, without a sample.
EndInput ==
  /\ Taking /\ todo = 0
  /\ driver = "scene" => taken = SceneEnd
  /\ phase' = "tail"
  /\ IF backend = "partitioned" /\ (driver = "scene" => SceneEnd % chunk = 0)
     THEN RenderedLast(staged)
     ELSE UNCHANGED <<fir, mixed, lfeDelay>>
  /\ staged' = <<>>
  /\ UNCHANGED <<filterConfig, todo, taken, stream>>

Draining == phase = "tail" /\ ~fir.failed

\* The session drains filters and LFE together.  The command line drains the filters,
\* mixes in the LFE, and puts out what is left of the LFE in one block.
TailLength ==
  CASE driver = "session" -> Min({chunk, Max({TailLeft, lfeDelay.remaining})})
    [] driver # "session" /\ TailLeft > 0 -> Min({chunk, TailLeft})
    [] OTHER -> lfeDelay.remaining

\* drain_tail_chunk, an iteration of drain_tail, and of the drains of the other two.
DrainTail ==
  /\ Draining
  /\ TailLength > 0
  /\ LET n == TailLength
         filters == Min({n, TailLeft})
         bass == Min({n, lfeDelay.remaining})
     IN /\ mixed' = mixed \o Mixed(Mixed(Zeros(n), TailOutput(filters)), DelayTail(lfeDelay, bass))
        /\ fir' = AfterTail(filters)
        /\ lfeDelay' = DelayDrained(lfeDelay, bass)
  /\ UNCHANGED <<filterConfig, staged, todo, phase, taken, stream>>

\* has_no_tail
TailDone ==
  /\ Draining
  /\ TailLength = 0
  /\ phase' = "done"
  /\ UNCHANGED <<filterConfig, fir, lfeDelay, staged, todo, mixed, taken, stream>>

\* numeric_failure: the block is lost, and the engine takes and gives nothing any more.
\* The command line ends with the error of an LFE sample that is not finite, though the
\* engine has not failed then.
FailFilter ==
  /\ Taking \/ Draining
  /\ fir' = [fir EXCEPT !.failed = TRUE]
  /\ todo' = 0
  /\ UNCHANGED <<filterConfig, lfeDelay, staged, phase, mixed, taken, stream>>

\* reset of the session's state or of the command line's renderer, at any time.
ResetFilters ==
  /\ driver # "scene" /\ todo = 0 /\ stream < MaxResets
  /\ fir' = NewEngine
  /\ lfeDelay' = NewDelay(Len(lfeDelay.line))
  /\ staged' = <<>> /\ phase' = "input"
  /\ mixed' = <<>> /\ taken' = 0 /\ stream' = stream + 1
  /\ UNCHANGED <<filterConfig, todo>>

FilterNext ==
  \/ \E n \in BlockSizes : RenderDirect(n) \/ TakeBlock(n)
  \/ StageSamples
  \/ RenderScene
  \/ EndInput
  \/ DrainTail
  \/ TailDone
  \/ FailFilter
  \/ ResetFilters

FilterSpec == FilterInit /\ [][FilterNext]_filterVars

-----------------------------------------------------------------------------
(* Properties *)

FilterTypeOK ==
  /\ driver \in {"session", "cli", "scene"} /\ backend \in {"direct", "partitioned"}
  /\ withLfe \in BOOLEAN /\ scene \in [Sources -> [start : Nat, length : Nat]] /\ chunk \in Nat \ {0}
  /\ fir.failed \in BOOLEAN
  /\ IF backend = "direct"
     THEN \A s \in Sources : Len(fir.history[s]) = Taps[s] - 1 /\ fir.tail[s] \in 0 .. Taps[s] - 1
     ELSE Len(fir.pending) = QueueLength /\ fir.at + fir.left <= QueueLength
  /\ Len(lfeDelay.line) \in Delays /\ lfeDelay.remaining \in 0 .. Len(lfeDelay.line)
  /\ Len(staged) < Partition /\ todo \in Nat
  /\ phase \in {"input", "tail", "done"} /\ taken \in Nat /\ stream \in 0 .. MaxResets

\* The k-th sample of the exact convolution of what was taken, with the LFE in step.
Convolution(k) ==
  {<<st[1], k - 1 - st[2] - scene[st[1]].start, stream, st[2]>> :
     st \in {w \in Sources \X (0 .. MaxTaps - 1) :
       /\ w[2] < Taps[w[1]]
       /\ k - 1 - w[2] < taken
       /\ k - 1 - w[2] - scene[w[1]].start \in 0 .. scene[w[1]].length - 1}}
    \cup {<<0, p, stream>> : p \in {k - 1 - Len(lfeDelay.line)} \cap (IF withLfe THEN 0 .. taken - 1 ELSE {})}

\* Whatever the sizes of blocks, chunks and partitions, either engine puts out the exact
\* convolution of this stream and of nothing before it: every tap of every source once,
\* each applied to its own sample, across partitions and through the end of the input,
\* and the LFE delayed as the filters are.  At the end the output is as long as the
\* longest filter requires, no shorter and no longer.
EveryTapOnce ==
  /\ \A k \in 1 .. Len(mixed) :
       IsInjective(mixed[k]) /\ Range(mixed[k]) = Convolution(k)
  /\ ~fir.failed => Len(mixed) >= taken - Len(staged)
  /\ phase = "done" /\ taken > 0 =>
       Len(mixed) = taken + Max({MaxTaps - 1, IF withLfe THEN Len(lfeDelay.line) ELSE 0})
=============================================================================
