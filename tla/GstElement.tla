----------------------------- MODULE GstElement -----------------------------
(***************************************************************************)
(* The GStreamer element (crates/gst-plugin-openjoc, plugin.rs) between    *)
(* its session and the base class GstAudioDecoder, which is external: the  *)
(* base class owns the compressed frames and stamps PCM with the time of   *)
(* the first of them.  The session answers one access unit late, so that   *)
(* the element must tell the base class which PCM ends which frame.        *)
(*                                                                         *)
(* An input buffer is its number.  A unit has UnitSamples samples, and the *)
(* session hands them out in blocks; a drain gives the unit held and       *)
(* TailSamples more.  Every method runs under the stream lock of the base  *)
(* class; what may come in between is the downstream refusing a buffer.    *)
(***************************************************************************)
EXTENDS Integers, Sequences, SequencesExt

CONSTANTS
  None,         \* the absent value of an Option
  UnitSamples,  \* samples of an access unit
  TailSamples,  \* samples a drain adds
  Splits,       \* ways the session cuts the samples of a unit into blocks
  MaxInput,     \* bound: number of input buffers
  MaxSegment    \* bound: number of resets

\* Blocks of these sizes have n samples together: what is left after each of them.
AddUp(sizes, n) ==
  \E left \in [0 .. Len(sizes) -> 0 .. n] :
    /\ left[0] = n /\ left[Len(sizes)] = 0
    /\ \A i \in 1 .. Len(sizes) : left[i - 1] = sizes[i] + left[i]

ASSUME GstAssumption ==
  /\ UnitSamples \in Nat \ {0} /\ TailSamples \in Nat \ {0}
  /\ MaxInput \in Nat /\ MaxSegment \in Nat
  /\ \A split \in Splits : split \in Seq(Nat \ {0}) /\ AddUp(split, UnitSamples)
  /\ None \notin [held : Nat, drained : BOOLEAN] \cup {"discont"}

VARIABLES
  session,   \* units held by the session, whether it is drained; None before it is made
  auto,      \* render_mode is "auto": the session is made with the first unit
  discont,   \* pending_discontinuity
  pending,   \* pending_input_samples
  frames,    \* external: the compressed frames of GstAudioDecoder
  anchored,  \* external: PCM samples stamped from the front frame so far
  hadPcm,    \* external: samples_out > 0 since the element was started
  blocks,    \* the PCM blocks push_frames still has to hand on
  step,      \* what the running method does after push_frames
  failed,    \* a method returned a flow error
  next,      \* history: number of the next buffer
  segment,   \* history: number of resets
  given,     \* history: units the session took since the last reset
  stamped    \* history: front frame and offset each sample since then was stamped with

elementVars == <<session, auto, discont, pending>>
baseVars == <<frames, anchored, hadPcm>>
gstHistory == <<given, stamped>>
gstVars == <<elementVars, baseVars, blocks, step, failed, next, segment, gstHistory>>

NewSession == [held |-> 0, drained |-> FALSE]
Idle == blocks = <<>> /\ step = None

GstInit ==
  /\ auto \in BOOLEAN
  /\ session = (IF auto THEN None ELSE NewSession)
  /\ discont = FALSE /\ pending = <<>>
  /\ frames = <<>> /\ anchored = 0 /\ hadPcm = FALSE
  /\ blocks = <<>> /\ step = None /\ failed = FALSE
  /\ next = 1 /\ segment = 0 /\ given = <<>> /\ stamped = <<>>

\* A segment begins: the history starts over.
NewSegment ==
  /\ segment < MaxSegment
  /\ segment' = segment + 1
  /\ given' = <<>> /\ stamped' = <<>>

-----------------------------------------------------------------------------
(***************************************************************************)
(* handle_frame with a buffer, up to push_frames.  The base class puts the *)
(* buffer in its queue first.  A unit that is not JOC or that the session  *)
(* rejects is an error, and nothing is recorded for it.                    *)
(***************************************************************************)
Flushed == IF session = None THEN None ELSE NewSession

\* What was held comes out, in blocks; with nothing held there is no PCM yet.
Answer(held, split) == IF held = 0 THEN <<>> ELSE split

\* The unit that push_packet finds in the session: none after a reset, which a flagged
\* packet is (the first of a segment, or pending_discontinuity).
HeldUnits == IF session = None \/ discont THEN 0 ELSE session.held

\* A drained session refuses any packet, a flagged one too.
HandleFrame(split) ==
  /\ Idle /\ ~failed
  /\ next <= MaxInput
  /\ session # None => ~session.drained
  /\ session' = [held |-> 1, drained |-> FALSE]
  /\ blocks' = Answer(HeldUnits, split)
  /\ discont' = FALSE
  /\ pending' = Append(pending, UnitSamples)
  /\ frames' = Append(frames, next)
  /\ given' = Append(given, next)
  /\ next' = next + 1
  /\ UNCHANGED <<auto, anchored, hadPcm, step, failed, segment, stamped>>

\* There is no output target for a session, or the unit is not admitted or is rejected.
\* For most of these the element posts an error, for a few (not substream zero, too short,
\* output pending) it only returns one.  No buffer and no drain comes then before a flush
\* or a restart, so that it does not matter what the session has kept of the unit; a drain
\* that upstream sends after an error that was not posted is left out.
RefuseFrame ==
  /\ Idle /\ ~failed
  /\ next <= MaxInput
  /\ frames' = Append(frames, next) /\ next' = next + 1
  /\ failed' = TRUE
  /\ UNCHANGED <<elementVars, anchored, hadPcm, blocks, step, segment, gstHistory>>

-----------------------------------------------------------------------------
(***************************************************************************)
(* push_frames: each block is cut where the front unit ends.               *)
(***************************************************************************)
Least(m, n) == IF m <= n THEN m ELSE n

Fragment == IF pending = <<>> THEN Head(blocks) ELSE Least(Head(pending), Head(blocks))

\* External: the base class stamps samples from the front frame, or goes on without one.
Stamps(n) ==
  [i \in 1 .. n |-> IF frames = <<>> THEN <<None, anchored + i>>
                    ELSE <<Head(frames), anchored + i>>]

Rest ==
  IF Fragment = Head(blocks) THEN Tail(blocks) ELSE <<Head(blocks) - Fragment>> \o Tail(blocks)

\* finish_subframe with the PCM, and finish_subframe(None) once the unit is complete.
PushFragment ==
  /\ blocks # <<>> /\ pending # <<>>
  /\ blocks' = Rest
  /\ stamped' = stamped \o Stamps(Fragment)
  /\ hadPcm' = TRUE
  /\ IF Fragment = Head(pending)
     THEN pending' = Tail(pending) /\ frames' = Tail(frames) /\ anchored' = 0
     ELSE /\ pending' = [pending EXCEPT ![1] = @ - Fragment]
          /\ anchored' = anchored + Fragment
          /\ UNCHANGED frames
  /\ UNCHANGED <<session, auto, discont, step, failed, next, segment, given>>

\* finish_frame(DRAIN_FINISH_ALL_PENDING): the tail, when every unit is complete.
PushTail ==
  /\ blocks # <<>> /\ pending = <<>>
  /\ blocks' = Rest
  /\ stamped' = stamped \o Stamps(Fragment)
  /\ hadPcm' = TRUE
  /\ frames' = <<>>
  /\ anchored' = (IF frames = <<>> THEN anchored + Fragment ELSE 0)
  /\ UNCHANGED <<elementVars, step, failed, next, segment, given>>

\* Downstream refuses the format or a fragment: what is left of the blocks is lost, and
\* the fragment stays counted as pending though the base class has seen it.
RefusePcm ==
  /\ blocks # <<>>
  /\ blocks' = <<>> /\ step' = None
  /\ failed' = TRUE
  /\ hadPcm' \in {hadPcm, TRUE}
  /\ UNCHANGED <<elementVars, frames, anchored, next, segment, gstHistory>>

-----------------------------------------------------------------------------
\* handle_drain up to push_frames, for the end of the stream or a flagged buffer.
DrainBlocks(split) == IF session.held = 0 THEN <<>> ELSE split \o <<TailSamples>>

HandleDrain(split) ==
  IF session = None \/ session.drained
  THEN UNCHANGED <<session, blocks>>
  ELSE /\ blocks' = DrainBlocks(split)
       /\ session' = [held |-> 0, drained |-> TRUE]

\* The end of the stream: handle_frame without a buffer.
EndOfStream(split) ==
  /\ Idle /\ ~failed
  /\ given # <<>>
  /\ HandleDrain(split)
  /\ UNCHANGED <<auto, discont, pending, baseVars, step, failed, next, segment, gstHistory>>

\* session.drain fails, at the end of the stream or for a flagged buffer: the session
\* closes, and the element posts an error as above.
FailDrain ==
  /\ Idle /\ ~failed
  /\ given # <<>> /\ ~session.drained
  /\ session' = [held |-> 0, drained |-> TRUE]
  /\ failed' = TRUE
  /\ UNCHANGED <<auto, discont, pending, baseVars, blocks, step, next, segment, gstHistory>>

(***************************************************************************)
(* A flagged buffer.  External: the base class drains, calls flush if PCM  *)
(* has come out, and drops its frames; the buffer itself is handled then.  *)
(***************************************************************************)
Discont(split) ==
  /\ Idle /\ ~failed
  /\ given # <<>> /\ next <= MaxInput /\ segment < MaxSegment
  /\ HandleDrain(split)
  /\ step' = "discont"
  /\ UNCHANGED <<auto, discont, pending, baseVars, failed, next, segment, gstHistory>>

\* flush
FlushElement ==
  /\ session' = Flushed
  /\ discont' = TRUE
  /\ pending' = <<>>

\* External: before the first PCM the base class does not call flush.
FlushIfStarted ==
  IF hadPcm THEN FlushElement ELSE UNCHANGED <<session, discont, pending>>

AfterDrain ==
  /\ step = "discont" /\ blocks = <<>>
  /\ step' = None
  /\ FlushIfStarted
  /\ frames' = <<>> /\ anchored' = 0
  /\ NewSegment
  /\ UNCHANGED <<auto, hadPcm, blocks, failed, next>>

FlushAlways == FlushElement

\* sink_event with FLUSH_STOP: the base class drops its frames, then flush.
FlushStop ==
  /\ Idle
  /\ FlushAlways
  /\ frames' = <<>> /\ anchored' = 0
  /\ failed' = FALSE
  /\ NewSegment
  /\ UNCHANGED <<auto, hadPcm, blocks, step, next>>

\* set_format: as many frames are finished as the element has counted, then all is reset.
SetFormat ==
  /\ Idle /\ ~failed
  /\ given # <<>>
  /\ frames' = SubSeq(frames, Len(pending) + 1, Len(frames))
  /\ anchored' = 0
  /\ session' = (IF auto THEN None ELSE NewSession)
  /\ discont' = FALSE /\ pending' = <<>>
  /\ NewSegment
  /\ UNCHANGED <<auto, hadPcm, blocks, step, failed, next>>

\* Other caps are refused before anything is changed, and these when finish_frame fails,
\* the frames being finished or not.  No buffer comes after refused caps.
RefuseFormat ==
  /\ Idle /\ ~failed
  /\ pending # <<>>
  /\ \/ UNCHANGED <<frames, anchored>>
     \/ frames' = SubSeq(frames, Len(pending) + 1, Len(frames)) /\ anchored' = 0
  /\ failed' = TRUE
  /\ UNCHANGED <<elementVars, hadPcm, blocks, step, next, segment, gstHistory>>

\* stop and start; the base class is reset with them.
Restart ==
  /\ Idle
  /\ session' = (IF auto THEN None ELSE NewSession)
  /\ discont' = FALSE /\ pending' = <<>>
  /\ frames' = <<>> /\ anchored' = 0 /\ hadPcm' = FALSE
  /\ failed' = FALSE
  /\ NewSegment
  /\ UNCHANGED <<auto, blocks, step, next>>

GstNext ==
  \/ \E split \in Splits : HandleFrame(split) \/ EndOfStream(split) \/ Discont(split)
  \/ RefuseFrame
  \/ FailDrain
  \/ PushFragment
  \/ PushTail
  \/ RefusePcm
  \/ AfterDrain
  \/ FlushStop
  \/ SetFormat
  \/ RefuseFormat
  \/ Restart

GstSpec == GstInit /\ [][GstNext]_gstVars

-----------------------------------------------------------------------------
(* Properties *)

GstTypeOK ==
  /\ session \in {None} \cup [held : 0 .. 1, drained : BOOLEAN]
  /\ auto \in BOOLEAN /\ discont \in BOOLEAN /\ failed \in BOOLEAN /\ hadPcm \in BOOLEAN
  /\ pending \in Seq(1 .. UnitSamples) /\ frames \in Seq(1 .. MaxInput)
  /\ anchored \in Nat /\ blocks \in Seq(Nat \ {0})
  /\ step \in {None, "discont"}
  /\ next \in 1 .. MaxInput + 1 /\ segment \in 0 .. MaxSegment
  /\ given \in Seq(1 .. MaxInput)

\* The programme a sample belongs to, by its place in the segment: the units in the
\* order they came, each with UnitSamples samples, then the tail.
Expected(k) ==
  LET unit == (k - 1) \div UnitSamples + 1 IN
  IF unit <= Len(given) THEN <<given[unit], ((k - 1) % UnitSamples) + 1>>
  ELSE <<None, k - Len(given) * UnitSamples>>

\* PCM comes a unit late and in pieces, but every sample carries the timestamp of the
\* unit it came from and the tail follows the last unit: through drains, flushes before
\* the first PCM, format changes, restarts, and flushes after downstream has refused a
\* fragment.  Between calls the element and the base class count the same frames.
PcmKeepsItsTime ==
  /\ \A k \in 1 .. Len(stamped) : stamped[k] = Expected(k)
  /\ Idle /\ ~failed => Len(frames) = Len(pending)
=============================================================================
