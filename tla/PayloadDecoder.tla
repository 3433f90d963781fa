--------------------------- MODULE PayloadDecoder ---------------------------
(***************************************************************************)
(* The object payload of access units (crates/openjoc-scene,               *)
(* payload_decoder.rs PayloadDecoder and assembly.rs SceneBuilder; crates/ *)
(* openjoc-joc, decoder.rs JocDecoderState).  A frame's downmix goes       *)
(* through a QMF analysis per channel, an interpolated matrix and a QMF    *)
(* synthesis per object.  All three remember the frame before; a frame     *)
(* whose sequence count does not follow, or with other dimensions, starts  *)
(* them from nothing.                                                      *)
(*                                                                         *)
(* A call decodes on a copy (DecodeJoc), then either the scene takes the   *)
(* frame and the copy is committed (AppendFrame), or the call fails        *)
(* (FailFrame).  A filter's memory is named by the call that left it; one  *)
(* coefficient, of one object, channel and subband, stands for the matrix, *)
(* all being interpolated alike.  A call with another frame index or rate  *)
(* is refused first and changes nothing; the parsers, the proofs of an     *)
(* earlier parse, the metadata and the retained scene are left out.        *)
(***************************************************************************)
EXTENDS Integers, Sequences

CONSTANTS
  MaxSequence,    \* largest sequence count (1023)
  SequenceCounts, \* sequence counts a frame may have
  DownmixWidths,  \* channel counts, above 0
  ObjectCounts,   \* object counts, above 0
  BoundObjects,   \* the object count a binding is admitted for (15)
  Timeslots,      \* QMF timeslots of a frame (24 in an access unit)
  Coefficients,   \* dequantized coefficients
  Offsets,        \* offset_timeslot of steep data points, from 1
  Profiles,       \* BindingCodecProfiles that can be admitted
  Unbound,        \* no binding profile
  MaxCalls        \* bound: calls of decode_frame on one decoder

\* Interpolation is exact at every slot, so that integers can stand for f64.
ASSUME PayloadAssumption ==
  /\ MaxSequence \in Nat \ {0} /\ SequenceCounts \subseteq 0 .. MaxSequence
  /\ DownmixWidths \cup ObjectCounts \cup Timeslots \cup Offsets \subseteq Nat \ {0}
  /\ Unbound \notin Profiles
  /\ 0 \in Coefficients /\ Coefficients \subseteq Int
  /\ \A c, d \in Coefficients, slots \in Timeslots :
       \A n \in {slots, slots - slots \div 2} \cup ({slots \div 2} \ {0}) : (c - d) % n = 0

VARIABLES
  joc,          \* JocDecoderState
  scene,        \* the SceneBuilder, NoScene before the first frame
  binding,      \* binding_profile and binding_admitted
  calls,        \* calls of decode_frame so far, which name the memories
  decoding,     \* the copy and the frame a running call has, Resting between calls
  flushed,      \* what the reconstruction tail was made of, NotFlushed before finish
  previousFrame, \* history: the frame returned last
  sentLast,     \* history: the coefficient the stream has arrived at
  candidates    \* history: the binding profiles of the frames returned

payloadVars == <<joc, scene, binding, calls, decoding, flushed, previousFrame, sentLast, candidates>>

NoSequence == -1
NoScene == [objects |-> 0]
Resting == [frame |-> 0]
NotFlushed == [analysis |-> 0]
NoFrame == [name |-> 0]
Busy == decoding # Resting

\* Memories: 0 is silence.
FreshJoc ==
  [sequence |-> NoSequence, channels |-> 0,
   matrices |-> [objects |-> 0, channels |-> 0, value |-> 0],
   analysis |-> [channels |-> 0, from |-> 0],
   synthesis |-> [objects |-> 0, from |-> 0]]

FreshBinding == [profile |-> Unbound, admitted |-> TRUE]

PayloadInit ==
  /\ joc = FreshJoc /\ scene = NoScene /\ binding = FreshBinding
  /\ calls = 0 /\ decoding = Resting /\ flushed = NotFlushed
  /\ previousFrame = NoFrame /\ sentLast = 0 /\ candidates = {}

-----------------------------------------------------------------------------
(* The coefficient of one object. *)

Missing == [slope |-> "none", points |-> <<>>, offsets |-> <<>>]  \* present = false

Objects ==
  {Missing}
    \cup [slope : {"smooth"}, points : Coefficients \X Coefficients, offsets : {<<>>}]
    \cup {[slope |-> "smooth", points |-> <<c>>, offsets |-> <<>>] : c \in Coefficients}
    \cup {[slope |-> "steep", points |-> <<c>>, offsets |-> <<n>>] : c \in Coefficients, n \in Offsets}
    \cup [slope : {"steep"}, points : Coefficients \X Coefficients, offsets : Offsets \X Offsets]

\* From a to b in n equal steps, after the first t of them.
Towards(a, b, t, n) == a + (t * (b - a)) \div n

FromFirst(object, previous, slots) ==  \* mutant: the second half starts from the first's origin
  [t \in 1 .. slots |-> Towards(previous, object.points[Len(object.points)], t, slots)]

\* interpolate_matrix with a smooth slope: two points meet at half the frame.
Smooth(object, previous, slots) ==
  LET first == object.points[1]
      middle == slots \div 2
  IN [t \in 1 .. slots |->
        IF Len(object.points) = 1 THEN Towards(previous, first, t, slots)
        ELSE IF t <= middle THEN Towards(previous, first, t, middle)
        ELSE Towards(first, object.points[2], t - middle, slots - middle)]

\* With a steep one every point holds from its offset on, which may lie behind the frame.
Steep(object, previous, slots) ==
  [t \in 1 .. slots |->
     IF t <= object.offsets[1] THEN previous
     ELSE IF Len(object.points) = 1 \/ t <= object.offsets[2] THEN object.points[1]
     ELSE object.points[2]]

Interpolated(object, previous, slots) ==
  CASE object.slope = "none" -> [t \in 1 .. slots |-> previous]
    [] object.slope = "smooth" -> Smooth(object, previous, slots)
    [] object.slope = "steep" -> Steep(object, previous, slots)

\* carry_forward_coefficients; an object that is not present keeps its matrix.
CarriedForward(object, previous) ==
  IF object = Missing THEN previous ELSE object.points[Len(object.points)]

-----------------------------------------------------------------------------
(***************************************************************************)
(* decode_pcm_frame and decode_frame_inner of JocDecoderState.             *)
(***************************************************************************)
Inputs == [sequence : SequenceCounts, channels : DownmixWidths, objects : ObjectCounts,
           slots : Timeslots, object : Objects]

Expected == IF joc.sequence = MaxSequence THEN 1 ELSE joc.sequence + 1

RequiresStateReset(f) ==
  /\ joc.sequence # NoSequence
  /\ \/ f.sequence = 0 \/ f.sequence # Expected
     \/ joc.channels # f.channels \/ joc.matrices.objects # f.objects

Analysis(f) ==
  IF RequiresStateReset(f) \/ joc.analysis.channels # f.channels THEN 0 ELSE joc.analysis.from

OnlyOfShape(f) ==  \* mutant: a splice with the same dimensions keeps the matrices
  IF joc.matrices.objects # f.objects \/ joc.matrices.channels # f.channels
    THEN 0 ELSE joc.matrices.value

Previous(f) ==
  IF \/ RequiresStateReset(f)
     \/ joc.matrices.objects # f.objects \/ joc.matrices.channels # f.channels
    THEN 0 ELSE joc.matrices.value

Synthesis(f) ==
  IF RequiresStateReset(f) \/ joc.synthesis.objects # f.objects THEN 0 ELSE joc.synthesis.from

DecodeJoc(f) ==
  /\ ~Busy /\ flushed = NotFlushed /\ calls < MaxCalls
  /\ calls' = calls + 1
  /\ decoding' =
       [frame |-> f,
        starts |-> [analysis |-> Analysis(f), synthesis |-> Synthesis(f), value |-> Previous(f)],
        coefficients |-> Interpolated(f.object, Previous(f), f.slots),
        joc |-> [sequence |-> f.sequence, channels |-> f.channels,
                 matrices |-> [objects |-> f.objects, channels |-> f.channels,
                               value |-> CarriedForward(f.object, Previous(f))],
                 analysis |-> [channels |-> f.channels, from |-> calls'],
                 synthesis |-> [objects |-> f.objects, from |-> calls']]]
  /\ UNCHANGED <<joc, scene, binding, flushed, previousFrame, sentLast, candidates>>

-----------------------------------------------------------------------------
(***************************************************************************)
(* The binding of decoded objects to metadata.  admit_decoded_joc_binding  *)
(* wants a profile it knows, the object count, one Base LFE in the stream  *)
(* and in the metadata, and no bed; what else may be wrong is Unbound.     *)
(***************************************************************************)
Candidates(f) == {Unbound} \cup (IF f.objects = BoundObjects THEN Profiles ELSE {})

\* The scene's own account, kept by append_frame_with_layout_and_binding_profile.
NewScene(f) == [objects |-> f.objects, profile |-> Unbound, admitted |-> "unknown"]

Builder == IF scene = NoScene THEN NewScene(decoding.frame) ELSE scene

\* The profile of the first frame is stored before the metadata are looked at.
Pinned(builder, candidate) ==
  IF builder.admitted = "unknown" THEN [builder EXCEPT !.profile = candidate] ELSE builder

Appended(builder, candidate) ==
  LET fits == candidate # Unbound /\ builder.profile \in {Unbound, candidate}
  IN [Pinned(builder, candidate) EXCEPT
        !.admitted = IF builder.admitted # "no" /\ fits THEN "yes" ELSE "no"]

\* The decoder's account.
NextBinding(candidate) ==
  LET admitted == /\ binding.admitted /\ candidate # Unbound
                  /\ binding.profile \in {Unbound, candidate}
  IN [profile |-> IF binding.profile = Unbound /\ admitted THEN candidate ELSE binding.profile,
      admitted |-> admitted]

\* What the frame returned follows on from, by its sequence count: 1 follows 0 and
\* MaxSequence, and 0 follows nothing.
Follows(f) ==
  /\ previousFrame # NoFrame
  /\ f.sequence > 0 /\ f.sequence - 1 = previousFrame.sequence % MaxSequence
  /\ f.channels = previousFrame.channels /\ f.objects = previousFrame.objects

AppendFrame(candidate) ==
  /\ Busy
  /\ Builder.objects = decoding.frame.objects  \* ContentDescriptionChanged
  /\ scene' = Appended(Builder, candidate)
  /\ binding' = NextBinding(candidate)
  /\ joc' = decoding.joc
  /\ decoding' = Resting
  /\ LET f == decoding.frame IN
       /\ previousFrame' = [name |-> calls, sequence |-> f.sequence,
                            channels |-> f.channels, objects |-> f.objects]
       /\ sentLast' = IF f.object # Missing THEN f.object.points[Len(f.object.points)]
                      ELSE IF Follows(f) THEN sentLast ELSE 0
  /\ candidates' = candidates \cup {candidate}
  /\ UNCHANGED <<calls, flushed>>

KeptBuilder(candidate) ==  \* mutant: the builder of a first frame is stored before it appends
  Pinned(Builder, candidate)

\* A builder made for a first frame that fails is dropped with the call.
LeftBehind(candidate) == IF scene = NoScene THEN NoScene ELSE Pinned(scene, candidate)

FailFrame(candidate) ==
  /\ Busy
  /\ scene' = LeftBehind(candidate)
  /\ decoding' = Resting
  /\ UNCHANGED <<joc, binding, calls, flushed, previousFrame, sentLast, candidates>>

-----------------------------------------------------------------------------
\* finish_streaming_with_reconstruction_tail: QMF_ROUNDTRIP_LATENCY_SAMPLES of silence
\* through the three stages.  It takes the decoder; without a frame it fails.
FinishPayload ==
  /\ ~Busy /\ flushed = NotFlushed /\ scene # NoScene
  /\ flushed' = [analysis |-> IF joc.analysis.channels = joc.channels THEN joc.analysis.from ELSE 0,
                 synthesis |-> joc.synthesis.from, value |-> joc.matrices.value]
  /\ UNCHANGED <<joc, scene, binding, calls, decoding, previousFrame, sentLast, candidates>>

\* The session makes a new decoder when it drains and when it is reset.
NewPayloadDecoder ==
  /\ ~Busy
  /\ joc' = FreshJoc /\ scene' = NoScene /\ binding' = FreshBinding
  /\ calls' = 0 /\ flushed' = NotFlushed
  /\ previousFrame' = NoFrame /\ sentLast' = 0 /\ candidates' = {}
  /\ UNCHANGED decoding

PayloadNext ==
  \/ \E f \in Inputs : DecodeJoc(f)
  \/ Busy /\ \E candidate \in Candidates(decoding.frame) :
       AppendFrame(candidate) \/ FailFrame(candidate)
  \/ FinishPayload
  \/ NewPayloadDecoder

PayloadSpec == PayloadInit /\ [][PayloadNext]_payloadVars

-----------------------------------------------------------------------------
(* Properties *)

Memories == 0 .. MaxCalls
JocStates ==
  [sequence : SequenceCounts \cup {NoSequence}, channels : DownmixWidths \cup {0},
   matrices : [objects : ObjectCounts \cup {0}, channels : DownmixWidths \cup {0},
               value : Coefficients],
   analysis : [channels : DownmixWidths \cup {0}, from : Memories],
   synthesis : [objects : ObjectCounts \cup {0}, from : Memories]]

\* Every variable keeps its type.
PayloadTypeOK ==
  /\ joc \in JocStates
  /\ scene = NoScene \/ scene \in [objects : ObjectCounts, profile : Profiles \cup {Unbound},
                                   admitted : {"unknown", "yes", "no"}]
  /\ binding \in [profile : Profiles \cup {Unbound}, admitted : BOOLEAN]
  /\ calls \in Memories
  /\ Busy => decoding.frame \in Inputs /\ decoding.joc \in JocStates
  /\ sentLast \in Coefficients /\ candidates \subseteq Profiles \cup {Unbound}

\* What a frame that follows the last one returned goes on from, or a tail.
LastReturned == [analysis |-> previousFrame.name, synthesis |-> previousFrame.name,
                 value |-> sentLast]

\* Every step of a smooth frame is as large as the others of its half, and the frame
\* passes through its data points.
EvenSteps(points, before, coefficients) ==
  LET slots == Len(coefficients)
      At(t) == IF t = 0 THEN before ELSE coefficients[t]
      Even(first, last, point) ==
        last > first =>
          /\ coefficients[last] = point
          /\ \A s, t \in first + 1 .. last : At(s) - At(s - 1) = At(t) - At(t - 1)
  IN IF Len(points) = 1 THEN Even(0, slots, points[1])
     ELSE Even(0, slots \div 2, points[1]) /\ Even(slots \div 2, slots, points[2])

\* A frame whose sequence count and dimensions follow those of the last frame returned
\* goes on from it in the analysis, in the synthesis and in the matrix, whatever failed
\* in between and for however many frames its object was left out; any other frame starts
\* all three from nothing.  A smooth frame moves evenly from where the stream has arrived.
\* The tail is that of the last frame returned.
JocContinuous ==
  /\ Busy =>
       /\ decoding.starts = IF Follows(decoding.frame) THEN LastReturned
                            ELSE [analysis |-> 0, synthesis |-> 0, value |-> 0]
       /\ decoding.frame.object.slope = "smooth" =>
            EvenSteps(decoding.frame.object.points, IF Follows(decoding.frame) THEN sentLast ELSE 0,
                      decoding.coefficients)
  /\ flushed # NotFlushed => flushed = LastReturned

\* A decoder binds objects to metadata exactly as long as every frame it returned was
\* admitted with one and the same profile, and its scene, which keeps an account of its
\* own and checks it at the end, says the same; a frame that failed does not count.
BindingAgrees ==
  scene # NoScene =>
    /\ binding.admitted <=> \E p \in Profiles : candidates = {p}
    /\ scene.admitted = IF binding.admitted THEN "yes" ELSE "no"
    /\ binding.admitted => candidates = {binding.profile} /\ scene.profile = binding.profile
=============================================================================
