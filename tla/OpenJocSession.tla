--------------------------- MODULE OpenJocSession ---------------------------
(***************************************************************************)
(* The decode and render session (crates/openjoc-api, OpenJocSession with  *)
(* its SpeakerRenderer and BinauralState).  A host pushes one access unit  *)
(* per call, receives PCM, drains at the end of the stream and flushes to  *)
(* seek.  Every call borrows the session exclusively, so a call is one     *)
(* action; what a call can end in is one disjunct each.                    *)
(*                                                                         *)
(* An access unit is its number in the segment.  Its PCM reaches the host  *)
(* one unit late: the reconstruction timeline holds it until the next one  *)
(* comes (ReconstructionTimeline, whose latency is shorter than a unit),   *)
(* while its metadata wait in a queue of their own.                        *)
(*                                                                         *)
(* Codec results are choices of the environment: a unit can be refused at  *)
(* every stage at which the code can refuse one, and what the code has     *)
(* stored by then stays stored.  The orientation updates are in            *)
(* DynamicBinaural; here the binaural engine is the length of its tail.    *)
(***************************************************************************)
EXTENDS Integers, Sequences

CONSTANTS
  None,       \* the absent value of an Option
  Modes,      \* "speaker", "binaural", "pull" (binaural in pull blocks)
  UnitSize,   \* samples of one access unit (1536)
  PullSize,   \* binaural_pull_samples
  TailSize,   \* samples of the binaural tail once something was rendered
  GainSize,   \* FINAL_LINKED_GAIN_BLOCK_SAMPLES
  Rates, Profiles, Cores, Bases,  \* sample rates, JOC profiles, core types, Base topologies
  Stamps,     \* packet timestamps a host may use
  MinPts, MaxPts,  \* range of a timestamp (i64)
  MaxUnits,   \* bound: access units decoded in a segment
  MaxEpoch    \* largest stream epoch (u64::MAX); without orientation a bound on resets

ASSUME ConstantsAssumption ==
  /\ Modes \subseteq {"speaker", "binaural", "pull"}
  /\ UnitSize \in Nat \ {0} /\ PullSize \in Nat \ {0}
  /\ TailSize \in Nat /\ GainSize \in Nat
  /\ MinPts \in Int /\ MaxPts \in Int
  /\ Stamps \subseteq MinPts .. MaxPts
  /\ MaxUnits \in Nat /\ MaxEpoch \in Nat
  /\ None \notin Int \cup Rates \cup Profiles \cup Cores \cup Bases

VARIABLES
  mode,      \* which renderer the session was opened with
  stream,    \* what reset_stream_state clears, see Streams
  gain,      \* final_linked_gain is there; a reset keeps it
  epoch,     \* the engine's stream epoch: resets so far
  queue,     \* output_queue
  deferred,  \* pending_binaural_inputs
  current,   \* current_binaural_input
  waiting,   \* pending_binaural_input_samples
  drained,   \* drained
  terminal,  \* terminal_error is there
  stamps,    \* history: the timestamps of the units decoded in this segment
  got,       \* history: the PCM frame received last in this segment
  received,  \* history: samples received in this segment
  lost,      \* history: samples dropped at splices in this segment
  gapped,    \* history: a received frame did not start where the last one ended
  errors     \* history: what went wrong in this segment after a unit was decoded

stores == <<queue, deferred, current, waiting>>
history == <<stamps, got, received, lost, gapped, errors>>
vars == <<mode, stream, gain, epoch, stores, drained, terminal, history>>

Option(S) == S \cup {None}
Units == 0 .. MaxUnits - 1
Positions == 0 .. MaxUnits * UnitSize + TailSize + GainSize
Pts == MinPts .. MaxPts

Streams == [
  rate : Option(Rates), profile : Option(Profiles), core : Option(Cores),
  origin : Option(Int),        \* segment_pts
  next : Positions,            \* next_input_sample
  end : Positions,             \* last_output_end
  frame : 0 .. MaxUnits,       \* speaker.next_input_frame
  expected : Positions,        \* speaker.expected_sample
  base : Option(Bases),        \* speaker.base_coordinates
  held : Option(Units),        \* the unit in speaker.timeline
  metadata : Seq(Units),       \* speaker.pending_frames
  tail : 0 .. TailSize]        \* what BinauralState has left to drain

\* A rendered block; meta is the unit its metadata came from.
Blocks == [epoch : 0 .. MaxEpoch, unit : Option(Units), meta : Option(Units),
           start : Positions, count : Nat]
Frames == [block : Blocks, offset : Nat, count : Nat, pts : Option(Pts)]
Pulls == [block : Blocks, offset : Nat]
Packets == [pts : Option(Pts), discontinuity : BOOLEAN, follows : BOOLEAN,
            rate : Rates, profile : Profiles, core : Cores, base : Bases]

ASSUME NoneAssumption == None \notin Frames \cup Pulls

Smaller(m, n) == IF m <= n THEN m ELSE n
Larger(m, n) == IF m >= n THEN m ELSE n
Binaural == mode # "speaker"

Fresh == [rate |-> None, profile |-> None, core |-> None, origin |-> None,
          next |-> 0, end |-> 0, frame |-> 0, expected |-> 0, base |-> None,
          held |-> None, metadata |-> <<>>, tail |-> 0]

NoHistory ==
  /\ stamps' = <<>> /\ got' = None /\ received' = 0
  /\ lost' = 0 /\ gapped' = FALSE /\ errors' = {}

Init ==
  /\ mode \in Modes
  /\ stream = Fresh /\ gain = FALSE /\ epoch = 0
  /\ queue = <<>> /\ deferred = <<>> /\ current = None /\ waiting = 0
  /\ drained = FALSE /\ terminal = FALSE
  /\ stamps = <<>> /\ got = None /\ received = 0
  /\ lost = 0 /\ gapped = FALSE /\ errors = {}

-----------------------------------------------------------------------------
QueuedOnly ==  \* mutant: the block being pulled is overlooked
  queue # <<>> \/ deferred # <<>>

HasPendingOutput == queue # <<>> \/ deferred # <<>> \/ current # None

AnyTail ==  \* mutant: a drained engine is taken to have a tail for ever
  mode = "pull" /\ drained

HasUnrenderedPullTail == mode = "pull" /\ drained /\ stream.tail > 0

CompleteEarly ==  \* mutant: the tail left in the engine does not count
  drained /\ (terminal \/ ~HasPendingOutput)

DrainComplete ==
  drained /\ (terminal \/ (~HasPendingOutput /\ ~HasUnrenderedPullTail))

Open == ~terminal /\ ~drained /\ ~HasPendingOutput

ClearPendingOutput == queue' = <<>> /\ deferred' = <<>> /\ current' = None /\ waiting' = 0

FailClosed ==
  /\ ClearPendingOutput
  /\ drained' = TRUE /\ terminal' = TRUE
  /\ errors' = errors \cup {"terminal"}

\* Only the orientation engine can fail to reset: its epochs are used up.
CanReset == epoch < MaxEpoch

FailReset ==
  /\ mode = "pull" /\ ~CanReset
  /\ stream' = [stream EXCEPT !.frame = 0, !.expected = 0, !.base = None,
                              !.held = None, !.metadata = <<>>]
  /\ FailClosed
  /\ UNCHANGED <<mode, gain, epoch, stamps, got, received, lost, gapped>>

\* flush, reset and their fallible forms
Flush ==
  \/ /\ CanReset
     /\ stream' = Fresh /\ epoch' = epoch + 1
     /\ ClearPendingOutput
     /\ drained' = FALSE /\ terminal' = FALSE
     /\ NoHistory
     /\ UNCHANGED <<mode, gain>>
  \/ FailReset

-----------------------------------------------------------------------------
(***************************************************************************)
(* push_packet.  A flagged packet starts from a fresh stream; s is the     *)
(* stream that the checks which follow look at and fill in.                *)
(***************************************************************************)
Started(p) == IF p.discontinuity THEN Fresh ELSE stream

AnchorAtPacket(s, p) ==  \* mutant: the samples already decoded are not subtracted
  IF p.pts = None \/ s.origin # None THEN s ELSE [s EXCEPT !.origin = p.pts]

\* check_timestamp
TimestampFits(s, p) ==
  p.pts # None =>
    IF s.origin # None
      THEN s.origin + s.next <= MaxPts /\ p.pts = s.origin + s.next
      ELSE p.pts - s.next >= MinPts

Anchored(s, p) ==
  IF p.pts = None \/ s.origin # None THEN s ELSE [s EXCEPT !.origin = p.pts - s.next]

SameOrUnset(expected, actual) == expected \in {None, actual}

\* The values of a unit that the session pins before it decodes the payload.
Pinned(p) == [Anchored(Started(p), p) EXCEPT !.rate = p.rate, !.profile = p.profile]

\* What a push does besides its stream: a flagged one begins a new segment.
Segment(p) ==
  IF p.discontinuity THEN CanReset /\ epoch' = epoch + 1 ELSE UNCHANGED epoch

Refused(p) ==
  /\ Segment(p)
  /\ IF p.discontinuity THEN NoHistory ELSE UNCHANGED history
  /\ UNCHANGED <<mode, gain, stores, drained, terminal>>

\* An empty or oversized packet is refused before anything changes.
RefusePacket(p) ==
  LET s == Started(p)
      a == Anchored(s, p)
  IN /\ Refused(p)
     /\ \/ ~TimestampFits(s, p) /\ stream' = s
        \* the syncframes do not form one unit, or the core or the rate changed
        \/ TimestampFits(s, p) /\ stream' = a
        \* the unit does not decode, has no metadata, or its profile changed
        \/ /\ TimestampFits(s, p)
           /\ SameOrUnset(s.core, p.core) /\ SameOrUnset(s.rate, p.rate)
           /\ stream' = [a EXCEPT !.rate = p.rate]
        \* the payload does not decode
        \/ /\ TimestampFits(s, p)
           /\ SameOrUnset(s.core, p.core) /\ SameOrUnset(s.rate, p.rate)
           /\ SameOrUnset(s.profile, p.profile)
           /\ stream' = Pinned(p)

\* The unit has decoded: next_input_sample moves on, whatever the renderer does.
Decodes(p) ==
  LET s == Started(p) IN
  /\ TimestampFits(s, p)
  /\ SameOrUnset(s.core, p.core) /\ SameOrUnset(s.rate, p.rate)
  /\ SameOrUnset(s.profile, p.profile)
  /\ s.next \div UnitSize < MaxUnits

-----------------------------------------------------------------------------
(***************************************************************************)
(* render_frame_aligned.  A unit whose JOC sequence does not follow the    *)
(* last one restarts the reconstruction; the unit held is dropped.         *)
(***************************************************************************)
Splices(s, p) == s.next > 0 /\ ~p.follows

Spliced(s, p) ==
  IF Splices(s, p)
    THEN [s EXCEPT !.held = None, !.metadata = <<>>, !.base = None, !.expected = s.next]
    ELSE s

\* The stream once the unit has decoded, before the renderer takes it.
Decoded(p) ==
  LET s == Spliced(Pinned(p), p) IN [s EXCEPT !.next = @ + UnitSize]

UnitOf(p) == Started(p).next \div UnitSize

\* The speaker's queues with unit u in them; the timeline gives back the unit before.
TakeUnit(s, u) == [s EXCEPT !.held = u, !.metadata = Append(@, u), !.frame = @ + 1]

\* render_aligned_block refuses metadata of another position.
InPlace(s, meta) == meta * UnitSize = s.expected

PeekMetadata(s) == s  \* mutant: the metadata leave the queue only on success

PopMetadata(s) == [s EXCEPT !.metadata = Tail(@)]

Block(u, meta, start, count) ==
  [epoch |-> epoch', unit |-> u, meta |-> meta, start |-> start, count |-> count]

\* The block of the unit that was held, with the metadata at the front.
AlignedBlock(u, s) == Block(u, Head(s.metadata), u * UnitSize, UnitSize)

Rendered(s) == [PopMetadata(s) EXCEPT !.expected = @ + UnitSize]

\* to_pcm_frame
UncheckedTimestamp(s, position) == TRUE  \* mutant: the sum is not checked

HasTimestamp(s, position) == s.origin # None => s.origin + position <= MaxPts

TimestampOf(s, position) == IF s.origin = None THEN None ELSE s.origin + position

PcmFrame(s, b) ==
  [block |-> b, offset |-> 0, count |-> b.count, pts |-> TimestampOf(s, b.start)]

\* The end of the output so far and the tail that a rendered block leaves.
Emitted(s, b) ==
  [s EXCEPT !.end = Larger(@, b.start + b.count),
            !.tail = IF mode = "binaural" THEN TailSize ELSE @]

\* Everything a push does up to the renderer, on the parts it shares.
Decoding(p) ==
  /\ Segment(p)
  /\ Decodes(p)
  /\ stamps' = Append(IF p.discontinuity THEN <<>> ELSE stamps, p.pts)
  /\ lost' = (IF p.discontinuity THEN 0
              ELSE IF Splices(stream, p) /\ stream.held # None THEN lost + UnitSize ELSE lost)
  /\ IF p.discontinuity THEN got' = None /\ received' = 0 /\ gapped' = FALSE
                        ELSE UNCHANGED <<got, received, gapped>>
  /\ UNCHANGED <<mode, current, drained, terminal>>

Note(p, e) == errors' = (IF p.discontinuity THEN {} ELSE errors) \cup e

\* The unit does not reach the timeline: its number or its samples are refused.
RefuseUnit(p) ==
  /\ Decoding(p)
  /\ stream' = Decoded(p)
  /\ Note(p, {"input"})
  /\ UNCHANGED <<gain, queue, deferred, waiting>>

Takes(p) == Decoded(p).frame = UnitOf(p)

\* The Base topology is compared only after the unit has been queued.
RefuseTopology(p) ==
  /\ Decoding(p) /\ Takes(p)
  /\ Decoded(p).base \notin {None, p.base}
  /\ stream' = TakeUnit(Decoded(p), UnitOf(p))
  /\ Note(p, {"topology"})
  /\ UNCHANGED <<gain, queue, deferred, waiting>>

\* The stream with the unit queued under its own topology.
Taken(p) == [TakeUnit(Decoded(p), UnitOf(p)) EXCEPT !.base = p.base]

TakesAlike(p) ==
  /\ Decoding(p) /\ Takes(p)
  /\ SameOrUnset(Decoded(p).base, p.base)

\* The first unit, or the first after a splice: nothing to render yet.
HoldUnit(p) ==
  /\ TakesAlike(p)
  /\ Decoded(p).held = None
  /\ stream' = [Taken(p) EXCEPT !.core = p.core]
  /\ Note(p, {})
  /\ UNCHANGED <<gain, queue, deferred, waiting>>

\* render_aligned_block fails: the metadata have left their queue, and the linked gain is
\* there if it was that refused the block.
RefuseRender(p) ==
  /\ TakesAlike(p)
  /\ Decoded(p).held # None
  /\ stream' = PopMetadata(Taken(p))
  /\ gain' \in {gain, gain \/ mode = "speaker"}
  /\ Note(p, {"render"})
  /\ UNCHANGED <<queue, deferred, waiting>>

Renders(p) ==
  /\ TakesAlike(p)
  /\ Decoded(p).held # None
  /\ InPlace(Taken(p), Head(Taken(p).metadata))
  /\ gain' = (gain \/ mode = "speaker")

\* emit_rendered of the block, here into the queue of owned PCM.
EmitUnit(p) ==
  LET b == AlignedBlock(Decoded(p).held, Taken(p))
      s == Emitted(Rendered(Taken(p)), b)
  IN /\ mode # "pull"
     /\ Renders(p)
     /\ HasTimestamp(s, b.start)
     /\ queue' = Append(queue, PcmFrame(s, b))
     /\ stream' = [s EXCEPT !.core = p.core]
     /\ Note(p, {})
     /\ UNCHANGED <<deferred, waiting>>

\* The binaural engine fails, a sample is not finite, or the timestamp does not
\* fit: the block is gone.
RefuseEmit(p) ==
  LET b == AlignedBlock(Decoded(p).held, Taken(p))
      s == Rendered(Taken(p))
  IN /\ mode # "pull"
     /\ Renders(p)
     /\ \/ mode = "binaural" /\ stream' = s
        \/ stream' = Emitted(s, b)
     /\ Note(p, {"emit"})
     /\ UNCHANGED <<queue, deferred, waiting>>

\* In a pull session the block waits for receive_binaural_frame.
DeferUnit(p) ==
  LET b == AlignedBlock(Decoded(p).held, Taken(p)) IN
  /\ mode = "pull"
  /\ Renders(p)
  /\ waiting = 0
  /\ deferred' = Append(deferred, b) /\ waiting' = b.count
  /\ stream' = [Emitted(Rendered(Taken(p)), b) EXCEPT !.core = p.core]
  /\ Note(p, {})
  /\ UNCHANGED queue

\* A flagged packet whose reset fails closes the session.
RefuseReset(p) == p.discontinuity /\ FailReset

Push(p) ==
  /\ Open
  /\ \/ RefusePacket(p)
     \/ RefuseUnit(p)
     \/ RefuseTopology(p)
     \/ HoldUnit(p)
     \/ RefuseRender(p)
     \/ EmitUnit(p)
     \/ RefuseEmit(p)
     \/ DeferUnit(p)
     \/ RefuseReset(p)

-----------------------------------------------------------------------------
(***************************************************************************)
(* drain.  The reconstruction tail releases the unit held; after it come   *)
(* the block left in the linked gain and the tail of the binaural engine,  *)
(* which a pull session leaves to the receiver.                            *)
(***************************************************************************)
DrainEmpty ==
  /\ stream.rate = None
  /\ drained' = TRUE
  /\ UNCHANGED <<mode, stream, gain, epoch, stores, terminal, history>>

\* No unit was decoded, though a packet has set the rate: EmptyStream.
DrainNoUnit ==
  /\ stream.rate # None /\ stream.next = 0
  /\ FailClosed
  /\ UNCHANGED <<mode, stream, gain, epoch, stamps, got, received, lost, gapped>>

\* The renderer, the engine or a timestamp fails, or metadata are left over.
FailDrain ==
  /\ stream.next > 0
  /\ FailClosed
  /\ stream' = (IF stream.held = None THEN stream
                                     ELSE [PopMetadata(stream) EXCEPT !.held = None])
  /\ gain' \in {gain, gain \/ (mode = "speaker" /\ stream.held # None)}
  /\ UNCHANGED <<mode, epoch, stamps, got, received, lost, gapped>>

\* The stream and the blocks once the unit held is rendered.
LastUnit ==
  IF stream.held = None
    THEN [s |-> stream, blocks |-> <<>>]
    ELSE LET b == AlignedBlock(stream.held, stream)
         IN [s |-> Emitted([Rendered(stream) EXCEPT !.held = None], b), blocks |-> <<b>>]

GainForgotten(s) == <<>>  \* mutant: the delay of the linked gain is not flushed

GainBlock(s) ==
  IF mode = "speaker" /\ (gain \/ stream.held # None)
    THEN <<Block(None, None, s.expected, GainSize)>> ELSE <<>>

\* One block stands for the consecutive blocks of up to 1024 samples of BinauralState::drain.
EngineTail(s) ==
  IF mode = "binaural" /\ s.tail > 0 THEN <<Block(None, None, s.end, s.tail)>> ELSE <<>>

DrainUnits ==
  LET s == LastUnit.s
      blocks == LastUnit.blocks \o GainBlock(s) \o EngineTail(s)
  IN /\ stream.next > 0
     /\ UNCHANGED epoch
     /\ stream.held # None => InPlace(stream, Head(stream.metadata))
     /\ s.metadata = <<>>
     /\ drained' = TRUE
     /\ gain' = (gain \/ (mode = "speaker" /\ stream.held # None))
     /\ IF mode = "pull"
          THEN /\ deferred' = blocks
               /\ waiting' = (IF blocks = <<>> THEN 0 ELSE UnitSize)
               /\ UNCHANGED queue
          ELSE /\ \A i \in 1 .. Len(blocks) : HasTimestamp(s, blocks[i].start)
               /\ queue' = [i \in 1 .. Len(blocks) |-> PcmFrame(s, blocks[i])]
               /\ UNCHANGED <<deferred, waiting>>
     /\ stream' = [s EXCEPT !.tail = IF mode = "binaural" THEN 0 ELSE @,
                            !.end = IF GainBlock(s) = <<>> THEN @ ELSE s.expected + GainSize]
     /\ UNCHANGED <<mode, current, terminal, history>>

Drain ==
  /\ Open
  /\ DrainEmpty \/ DrainNoUnit \/ FailDrain \/ DrainUnits

-----------------------------------------------------------------------------
(* receive_frame and receive_binaural_frame *)

Position(f) == f.block.start + f.offset
GotEnd == IF got = None THEN 0 ELSE Position(got) + got.count

Receives(f) ==
  /\ got' = f
  /\ received' = received + f.count
  /\ gapped' = (gapped \/ Position(f) # GotEnd)
  /\ UNCHANGED <<stamps, lost, errors>>

Receive ==
  /\ mode # "pull"
  /\ queue # <<>>
  /\ Receives(Head(queue))
  /\ queue' = Tail(queue)
  /\ UNCHANGED <<mode, stream, gain, epoch, deferred, current, waiting, drained, terminal>>

\* The block to pull from and how much of it is rendered.
PullSource == IF current # None THEN current ELSE [block |-> Head(deferred), offset |-> 0]
PullCount == Smaller(PullSize, PullSource.block.count - PullSource.offset)
Pulled(s) ==
  [block |-> PullSource.block, offset |-> PullSource.offset, count |-> PullCount,
   pts |-> TimestampOf(s, PullSource.block.start + PullSource.offset)]

WaitingAfterPull == waiting - PullCount

CanPull == mode = "pull" /\ ~terminal

PullInput ==
  LET from == PullSource IN
  /\ CanPull
  /\ current # None \/ deferred # <<>>
  /\ HasTimestamp(stream, from.block.start + from.offset)
  /\ Receives(Pulled(stream))
  /\ current' = (IF from.offset + PullCount < from.block.count
                   THEN [from EXCEPT !.offset = @ + PullCount] ELSE None)
  /\ deferred' = (IF current # None THEN deferred ELSE Tail(deferred))
  /\ waiting' = WaitingAfterPull
  /\ stream' = [stream EXCEPT !.tail = TailSize]
  /\ UNCHANGED <<mode, gain, epoch, queue, drained, terminal>>

TailCount == Smaller(PullSize, stream.tail)

EndAfterTail(s, n) == s.end + n

TailAfter(s, n) == s.tail - n

PullTail ==
  LET b == Block(None, None, stream.end, TailCount) IN
  /\ CanPull /\ drained
  /\ current = None /\ deferred = <<>> /\ stream.tail > 0
  /\ UNCHANGED epoch
  /\ HasTimestamp(stream, stream.end)
  /\ Receives([block |-> b, offset |-> 0, count |-> b.count,
               pts |-> TimestampOf(stream, b.start)])
  /\ stream' = [stream EXCEPT !.end = EndAfterTail(stream, b.count),
                              !.tail = TailAfter(stream, b.count)]
  /\ UNCHANGED <<mode, gain, stores, drained, terminal>>

\* The engine, the PCM or the timestamp fails: the session closes.
FailPull ==
  /\ CanPull
  /\ current # None \/ deferred # <<>> \/ (drained /\ stream.tail > 0)
  /\ FailClosed
  /\ UNCHANGED <<mode, stream, gain, epoch, stamps, got, received, lost, gapped>>

\* A packet carries no timestamp, the expected one, or any other.
PacketStamps(p) ==
  {None} \cup Stamps \cup
    (IF Started(p).origin = None THEN {}
     ELSE {Started(p).origin + Started(p).next} \cap Pts)

Next ==
  \/ \E p \in Packets : p.pts \in PacketStamps(p) /\ Push(p)
  \/ Drain
  \/ Receive
  \/ PullInput
  \/ PullTail
  \/ FailPull
  \/ Flush

Spec == Init /\ [][Next]_vars

\* A host that has drained keeps receiving; nothing else has to happen.
FairSpec == Spec /\ WF_vars(Receive) /\ WF_vars(PullInput \/ PullTail \/ FailPull)

-----------------------------------------------------------------------------
(* Properties *)

Deferred == {deferred[i] : i \in 1 .. Len(deferred)}
Queued == {queue[i] : i \in 1 .. Len(queue)}
PendingBlocks ==
  {f.block : f \in Queued} \cup Deferred \cup (IF current = None THEN {} ELSE {current.block})

\* Every variable keeps its type; a frame's timestamp never leaves the range of
\* an i64, however late the segment was anchored (to_pcm_frame, check_timestamp).  At
\* most one block waits to be pulled, and the deferred sample counter is the number of
\* samples a pull session has not rendered yet, in the queue and in the block being
\* pulled; never over one unit.
TypeOK ==
  /\ mode \in Modes /\ stream \in Streams /\ gain \in BOOLEAN /\ epoch \in 0 .. MaxEpoch
  /\ queue \in Seq(Frames) /\ deferred \in Seq(Blocks) /\ Len(deferred) <= 1
  /\ current \in Option(Pulls)
  /\ waiting \in 0 .. UnitSize
  /\ waiting = (IF deferred = <<>> THEN 0 ELSE Head(deferred).count)
                 + (IF current = None THEN 0 ELSE current.block.count - current.offset)
  /\ drained \in BOOLEAN /\ terminal \in BOOLEAN
  /\ stamps \in Seq(Option(Pts)) /\ got \in Option(Frames)
  /\ received \in Nat /\ lost \in Nat /\ gapped \in BOOLEAN
  /\ errors \subseteq {"input", "topology", "render", "emit", "terminal"}

\* What was rendered before a discontinuity, a flush or a reset is never received
\* after it: all pending output belongs to the segment that is open.
NoStaleOutput == \A b \in PendingBlocks : b.epoch = epoch

\* The PCM of a unit is rendered with the metadata and the level of that unit.
Paired == \A b \in PendingBlocks : b.unit = b.meta

\* The metadata queued are those of the one unit held, also after a unit was refused
\* before it was queued, a render failed or a splice dropped the unit; a push
\* refused for its Base topology is the exception (see Paired).
OneUnitHeld ==
  "topology" \notin errors =>
    stream.metadata = (IF stream.held = None THEN <<>> ELSE <<stream.held>>)

\* A unit that was pushed with a timestamp comes back with that timestamp, late
\* though it is, in whatever blocks it is pulled and wherever the segment was anchored.
\* Received frames follow each other without a gap or an overlap, unless a splice
\* dropped a unit, or an error was reported for a block that was ready or a unit
\* that never reached the timeline: after render_aligned_block fails, the session
\* does not go on with a hole in the output.
TimestampsReturn ==
  /\ \A f \in Queued \cup ({got} \ {None}) :
       f.block.unit # None /\ f.pts # None /\ stamps[f.block.unit + 1] # None =>
         f.pts = stamps[f.block.unit + 1] + f.offset
  /\ gapped => lost > 0 \/ errors \cap {"input", "topology", "emit"} # {}

\* When a session reports completion and no decoded unit has failed, the host has
\* received every sample of every unit, but for those dropped at a splice, and
\* the whole tail.  A refused packet costs nothing that was accepted.
CompleteMeansAll ==
  DrainComplete /\ errors = {} =>
    received + lost = stream.next +
      (IF stream.next = 0 THEN 0 ELSE IF Binaural THEN TailSize ELSE GainSize)

\* Once a session reports completion it stays complete, and no frame is received,
\* until a flush or reset succeeds.
CompletionIsFinal ==
  [][DrainComplete /\ epoch' = epoch => DrainComplete' /\ received' = received]_vars

\* A session that has decoded no unit drains to its end: it does not fail closed.
EmptyDrains ==
  [][~drained /\ drained' /\ stream.next = 0 /\ epoch' = epoch => ~terminal']_vars

\* A drained session whose host keeps receiving reaches completion, or is flushed.
DrainCompletes == drained ~> (DrainComplete \/ ~drained)
=============================================================================
