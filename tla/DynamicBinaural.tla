--------------------------- MODULE DynamicBinaural ---------------------------
(***************************************************************************)
(* The listener-orientation renderer (crates/openjoc-render,               *)
(* DynamicBinauralRenderer).  A host thread hands over complete kernel     *)
(* sets ("updates") prepared elsewhere; the render thread cross-fades to   *)
(* them sample by sample.  One set is audible, one is the fade target and  *)
(* one more may wait behind an active fade, latest wins.                   *)
(*                                                                         *)
(* A kernel set is abstracted to its provenance (epoch and sequence) and   *)
(* to the pose it was prepared for: two updates of the same pose carry     *)
(* equal filters, which the code tells apart from a change of filters.     *)
(* All sources are merged into one: remaining_tail_samples is the maximum  *)
(* over the sources, and maximum commutes with everything done to a tail.  *)
(*                                                                         *)
(* A rendering call is a loop over samples, and every iteration may begin  *)
(* or end a fade, so a call is a Start action, one RenderSample action per *)
(* sample and an End action.  The exclusive borrow of the renderer is      *)
(* "call": no other operation happens while it is not None.                *)
(***************************************************************************)
EXTENDS Naturals, FiniteSets

CONSTANTS
  None,               \* the absent value of an Option
  Poses,              \* orientations an update may be prepared for
  Identity,           \* the orientation of an initial kernel set
  Taps,               \* Taps[p]: tap count of the filters of pose p
  TransitionSamples,  \* length of a cross-fade
  MaxBlock,           \* largest block of one rendering call
  MaxSequence,        \* bound: largest sequence number a host uses
  MaxIndex,           \* largest sample index (u64::MAX in the code)
  MaxEpoch            \* largest stream epoch (u64::MAX in the code)

Option(S) == S \cup {None}
SequenceNumbers == 0 .. MaxSequence
KernelSets == [epoch : 0 .. MaxEpoch, seq : SequenceNumbers, pose : Poses]
Receipts == [seq : SequenceNumbers, start : 0 .. MaxIndex]
Calls == [kind : {"block", "reconstruction", "drain"},
          length : 1 .. MaxBlock, offset : 0 .. MaxBlock]

ASSUME ConstantsAssumption ==
  /\ None \notin Nat \cup KernelSets \cup Receipts \cup Calls
  /\ Identity \in Poses
  /\ Taps \in [Poses -> Nat \ {0}]
  /\ TransitionSamples \in Nat \ {0}
  /\ MaxBlock \in Nat \ {0}
  /\ MaxSequence \in Nat
  /\ MaxIndex \in Nat
  /\ MaxEpoch \in Nat

VARIABLES
  epoch,          \* stream_epoch
  lifecycle,      \* lifecycle
  slots,          \* the kernel sets and their sequences, see Slots
  lastAccepted,   \* last_accepted_sequence
  lastApplied,    \* last_applied_update
  count,          \* logical_sample_count
  tail,           \* remaining_tail_samples()
  call,           \* the rendering call in progress
  accepted,       \* history: sequences accepted in this epoch
  superseded,     \* history: sequences reported as superseded in this epoch
  applied,        \* history: sequences whose rendering began in this epoch
  retired,        \* history: kernel sets handed back to the host
  drained,        \* history: tail samples drained since the last block
  waited          \* history: samples rendered since the waiting place was taken

history == <<accepted, superseded, applied, retired, drained, waited>>
vars == <<epoch, lifecycle, slots, lastAccepted, lastApplied, count, tail, call, history>>

Slots == [current : KernelSets, currentSeq : SequenceNumbers,
          target : Option(KernelSets), targetSeq : Option(SequenceNumbers),
          pending : Option(KernelSets), pendingSeq : Option(SequenceNumbers),
          progress : Option(0 .. TransitionSamples - 1)]
Lifecycles == {"Active", "ReconstructionTail", "Draining", "Finished",
               "NumericFailure", "EpochExhausted"}

KernelSet(e, s, p) == [epoch |-> e, seq |-> s, pose |-> p]
TailOf(k) == Taps[k.pose] - 1
Larger(m, n) == IF m >= n THEN m ELSE n
Minus(m, n) == IF m >= n THEN m - n ELSE 0

Fading(s) == s.progress # None

\* pending_sequence(): accepted, and not yet heard.
Waiting(s) == IF Fading(s) THEN s.pendingSeq ELSE s.targetSeq

InitialSlots(e) ==
  [current |-> KernelSet(e, 0, Identity), currentSeq |-> 0,
   target |-> None, targetSeq |-> None,
   pending |-> None, pendingSeq |-> None, progress |-> None]

-----------------------------------------------------------------------------
Init ==
  /\ epoch = 0 /\ lifecycle = "Active"
  /\ slots = InitialSlots(0)
  /\ lastAccepted = 0 /\ lastApplied = None
  /\ count = 0 /\ tail = 0 /\ call = None
  /\ accepted = {} /\ superseded = {} /\ applied = {} /\ retired = {} /\ drained = 0
  /\ waited = 0

(***************************************************************************)
(* apply_prepared.  A rejected update (lifecycle, resource, epoch,         *)
(* sequence or kernel mismatch) changes nothing: the guard is the          *)
(* conjunction of the checks.  The kernel set that leaves its slot goes    *)
(* back to the host, and so does the sequence that was waiting.            *)
(***************************************************************************)
CanApplyAgain(e, s) ==  \* mutant: the sequence check admits a repetition
  /\ lifecycle = "Active"
  /\ e = epoch
  /\ s >= lastAccepted

CanApply(e, s) ==
  /\ lifecycle = "Active"
  /\ e = epoch
  /\ s > lastAccepted

QueueOverFade(s, k) ==  \* mutant: overwrites the target of an active fade
  [s EXCEPT !.target = k, !.targetSeq = k.seq]

Queue(s, k) ==
  IF Fading(s)
    THEN [s EXCEPT !.pending = k, !.pendingSeq = k.seq]
    ELSE [s EXCEPT !.target = k, !.targetSeq = k.seq]

Displaced(s) == (IF Fading(s) THEN {s.pending} ELSE {s.target}) \ {None}

Apply(e, s, p) ==
  /\ call = None
  /\ CanApply(e, s)
  /\ slots' = Queue(slots, KernelSet(e, s, p))
  /\ retired' = retired \cup Displaced(slots)
  /\ superseded' = superseded \cup ({Waiting(slots)} \ {None})
  /\ accepted' = accepted \cup {s}
  /\ lastAccepted' = s
  /\ UNCHANGED <<epoch, lifecycle, lastApplied, count, tail, call, applied, drained, waited>>

-----------------------------------------------------------------------------
(***************************************************************************)
(* The rendering calls.  A block whose samples would overflow the sample   *)
(* index is refused before anything changes.                               *)
(***************************************************************************)
BeginCall(kind, n) ==
  /\ call = None
  /\ n \in 1 .. MaxBlock
  /\ count + n <= MaxIndex
  /\ call' = [kind |-> kind, length |-> n, offset |-> 0]

\* render_block; an empty block changes nothing.
StartBlock(n) ==
  /\ lifecycle = "Active"
  /\ BeginCall("block", n)
  /\ UNCHANGED <<epoch, lifecycle, slots, lastAccepted, lastApplied, count, tail, history>>

\* render_reconstruction_tail_block
StartReconstruction(n) ==
  /\ lifecycle = "ReconstructionTail"
  /\ BeginCall("reconstruction", n)
  /\ UNCHANGED <<epoch, lifecycle, slots, lastAccepted, lastApplied, count, tail, history>>

Drainable == lifecycle \in {"Active", "ReconstructionTail", "Draining"}

\* drain_tail_block up to its loop.
StartDrain(n) ==
  /\ Drainable /\ n <= tail
  /\ BeginCall("drain", n)
  /\ lifecycle' = "Draining"
  /\ UNCHANGED <<epoch, slots, lastAccepted, lastApplied, count, tail, history>>

DrainNothingStays ==  \* mutant: an empty drain never finishes
  /\ call = None /\ Drainable
  /\ lifecycle' = "Draining"
  /\ UNCHANGED <<epoch, slots, lastAccepted, lastApplied, count, tail, call, history>>

\* drain_tail_block of no samples only moves the lifecycle.
DrainNothing ==
  /\ call = None /\ Drainable
  /\ lifecycle' = (IF tail = 0 THEN "Finished" ELSE "Draining")
  /\ UNCHANGED <<epoch, slots, lastAccepted, lastApplied, count, tail, call, history>>

(***************************************************************************)
(* begin_target_if_ready: a target with the filters already in use is      *)
(* swapped in at once, any other starts a fade.                            *)
(***************************************************************************)
BeginTarget(s) ==
  IF Fading(s) \/ s.targetSeq = None
    THEN s
  ELSE IF s.current.pose = s.target.pose
    THEN [s EXCEPT !.current = s.target, !.target = s.current,
                   !.currentSeq = s.targetSeq, !.targetSeq = None]
    ELSE [s EXCEPT !.currentSeq = s.targetSeq, !.progress = 0]

TargetBegins(s) == ~Fading(s) /\ s.targetSeq # None

\* finish_transition: two swaps, so that no kernel set is freed while rendering.
FinishTransitionForgets(s) ==  \* mutant: the waiting update is not promoted
  [s EXCEPT !.current = s.target, !.progress = None,
            !.target = s.current, !.targetSeq = None]

FinishTransition(s) ==
  IF s.pendingSeq # None
    THEN [s EXCEPT !.current = s.target, !.progress = None,
                   !.target = s.pending, !.targetSeq = s.pendingSeq,
                   !.pending = s.current, !.pendingSeq = None]
    ELSE [s EXCEPT !.current = s.target, !.progress = None,
                   !.target = s.current, !.targetSeq = None]

AdvanceTransitionLate(s) ==  \* mutant: a fade of one sample too many
  IF ~Fading(s)
    THEN s
  ELSE IF s.progress + 1 > TransitionSamples
    THEN FinishTransition(s)
    ELSE [s EXCEPT !.progress = @ + 1]

AdvanceTransition(s) ==
  IF ~Fading(s)
    THEN s
  ELSE IF s.progress + 1 >= TransitionSamples
    THEN FinishTransition(s)
    ELSE [s EXCEPT !.progress = @ + 1]

ConsideredAlways == BeginTarget(slots)  \* mutant: a drain starts a target

\* Only a block considers its target; a drained tail never starts one.
Considered == IF call.kind = "block" THEN BeginTarget(slots) ELSE slots

Receipt ==
  IF call.kind = "block" /\ TargetBegins(slots)
    THEN [seq |-> slots.targetSeq, start |-> count + call.offset]
  ELSE IF call.kind # "drain" /\ lastApplied = None /\ ~(call.kind = "block" /\ Fading(slots))
    THEN [seq |-> slots.currentSeq, start |-> count + call.offset]
  ELSE lastApplied

Heard ==
  /\ lastApplied' = Receipt
  /\ applied' = (IF Receipt = lastApplied THEN applied ELSE applied \cup {Receipt.seq})

\* One iteration of render_samples.
RenderSample ==
  /\ call # None /\ call.offset < call.length
  /\ slots' = AdvanceTransition(Considered)
  /\ Heard
  /\ waited' = (IF Waiting(slots) = None \/ Waiting(slots') = None \/ call.kind # "block"
                  THEN 0 ELSE waited + 1)
  /\ call' = [call EXCEPT !.offset = @ + 1]
  /\ UNCHANGED <<epoch, lifecycle, lastAccepted, count, tail,
                 accepted, superseded, retired, drained>>

\* numeric_failure: the sample is not finite, and the call ends there.
FailSample ==
  /\ call # None /\ call.offset < call.length
  /\ slots' = Considered
  /\ Heard
  /\ lifecycle' = "NumericFailure"
  /\ call' = None
  /\ UNCHANGED <<epoch, lastAccepted, count, tail,
                 accepted, superseded, retired, drained, waited>>

AudibleTailOfCurrent(s) == TailOf(s.current)  \* mutant: the fade target is ignored

AudibleTail(s) ==
  IF Fading(s) THEN Larger(TailOf(s.current), TailOf(s.target)) ELSE TailOf(s.current)

\* What render_samples and its callers do after the loop.
EndCall ==
  /\ call # None /\ call.offset = call.length
  /\ count' = count + call.length
  /\ IF call.kind = "drain"
       THEN /\ tail' = Minus(tail, call.length)
            /\ drained' = drained + call.length
            /\ lifecycle' = (IF tail' = 0 THEN "Finished" ELSE lifecycle)
       ELSE /\ tail' = AudibleTail(slots)
            /\ drained' = 0
            /\ UNCHANGED lifecycle
  /\ call' = None
  /\ UNCHANGED <<epoch, slots, lastAccepted, lastApplied,
                 accepted, superseded, applied, retired, waited>>

-----------------------------------------------------------------------------
\* begin_drain
BeginDrain ==
  /\ call = None
  /\ lifecycle \in {"Active", "ReconstructionTail"}
  /\ lifecycle' = "ReconstructionTail"
  /\ UNCHANGED <<epoch, slots, lastAccepted, lastApplied, count, tail, call, history>>

(***************************************************************************)
(* reset_to, as BinauralState::reset calls it: the identity pose, prepared *)
(* for exactly the next epoch, replaces everything.  Every held kernel set *)
(* goes back to the caller.                                                *)
(***************************************************************************)
Reset ==
  /\ call = None
  /\ lifecycle # "EpochExhausted"
  /\ epoch < MaxEpoch
  /\ epoch' = epoch + 1
  /\ slots' = InitialSlots(epoch + 1)
  /\ lastAccepted' = 0 /\ lastApplied' = None
  /\ count' = 0 /\ tail' = 0
  /\ lifecycle' = "Active"
  /\ accepted' = {} /\ superseded' = {} /\ applied' = {} /\ drained' = 0 /\ waited' = 0
  /\ retired' = retired \cup ({slots.current, slots.target, slots.pending} \ {None})
  /\ UNCHANGED call

\* The epoch counter never wraps: the renderer is then unusable for good.
ExhaustEpochs ==
  /\ call = None
  /\ epoch = MaxEpoch
  /\ lifecycle' = "EpochExhausted"
  /\ UNCHANGED <<epoch, slots, lastAccepted, lastApplied, count, tail, call, history>>

-----------------------------------------------------------------------------
Render == RenderSample \/ FailSample \/ EndCall

Next ==
  \/ \E e \in 0 .. MaxEpoch, s \in SequenceNumbers, p \in Poses : Apply(e, s, p)
  \/ \E n \in 1 .. MaxBlock : StartBlock(n) \/ StartReconstruction(n) \/ StartDrain(n)
  \/ DrainNothing
  \/ RenderSample
  \/ FailSample
  \/ EndCall
  \/ BeginDrain
  \/ Reset
  \/ ExhaustEpochs

Spec == Init /\ [][Next]_vars

(***************************************************************************)
(* Once it has begun to drain, the host keeps draining, and a call that    *)
(* was entered is carried through (drain_tail is such a loop).  Nothing    *)
(* makes a host send updates, begin a drain or reset.                      *)
(***************************************************************************)
KeepsDraining ==
  /\ lifecycle = "Draining"
  /\ DrainNothing \/ \E n \in 1 .. MaxBlock : StartDrain(n)

FairSpec == Spec /\ WF_vars(Render) /\ WF_vars(KeepsDraining)

-----------------------------------------------------------------------------
TypeOK ==
  /\ epoch \in 0 .. MaxEpoch
  /\ lifecycle \in Lifecycles
  /\ slots \in Slots
  /\ lastAccepted \in SequenceNumbers
  /\ lastApplied \in Option(Receipts)
  /\ count \in 0 .. MaxIndex
  /\ tail \in Nat
  /\ call \in Option(Calls)
  /\ accepted \subseteq SequenceNumbers
  /\ superseded \subseteq SequenceNumbers
  /\ applied \subseteq SequenceNumbers
  /\ retired \subseteq KernelSets
  /\ drained \in Nat
  /\ waited \in Nat

(***************************************************************************)
(* What is heard is what the bookkeeping says is heard: a sequence number  *)
(* in a slot belongs to the kernel set of that slot and to this stream,    *)
(* current_sequence is the set being faded to or, without a fade, the      *)
(* current one, and the last receipt names it.  last_applied_update is     *)
(* what a host shows the listener.                                         *)
(***************************************************************************)
AudibleIdentity ==
  LET heard == IF Fading(slots) THEN slots.target ELSE slots.current
  IN /\ heard # None
     /\ heard.seq = slots.currentSeq
     /\ slots.current.epoch = epoch
     /\ slots.targetSeq # None => /\ slots.target # None
                                 /\ slots.target.seq = slots.targetSeq
                                 /\ slots.target.epoch = epoch
     /\ slots.pendingSeq # None => /\ slots.pending # None
                                  /\ slots.pending.seq = slots.pendingSeq
                                  /\ slots.pending.epoch = epoch
     /\ IF lastApplied = None THEN slots.currentSeq = 0
                              ELSE lastApplied.seq = slots.currentSeq

(***************************************************************************)
(* The newest accepted pose is never lost, however updates, fades and      *)
(* rendering calls interleave: it is the one waiting or, when none waits,  *)
(* the one heard.  A set waits behind a fade only while there is a fade.   *)
(***************************************************************************)
LatestWins ==
  /\ IF Waiting(slots) = None
       THEN slots.currentSeq = lastAccepted
       ELSE Waiting(slots) = lastAccepted /\ slots.currentSeq < lastAccepted
  /\ slots.pendingSeq # None => Fading(slots)

(***************************************************************************)
(* Every accepted update has exactly one fate: its rendering began, or it  *)
(* was reported as superseded, or it still waits.  This is what makes the  *)
(* superseded_sequence of an acceptance and last_applied_update together a *)
(* complete account for the host.  No kernel set is freed while rendering, *)
(* and none is used once handed back: every set installed in this epoch is *)
(* in exactly one of the three slots or was returned to the host           *)
(* (retired_kernels, reset_to's result).                                   *)
(***************************************************************************)
OneFate ==
  LET waiting == {Waiting(slots)} \ {None}
      begun == applied \ {0}
      held == {slots.current, slots.target, slots.pending} \ {None}
  IN /\ accepted = begun \cup superseded \cup waiting
     /\ begun \cap superseded = {}
     /\ begun \cap waiting = {}
     /\ superseded \cap waiting = {}
     /\ \A s \in accepted \cup {0} :
          \E k \in held \cup retired : k.epoch = epoch /\ k.seq = s
     /\ held \cap retired = {}
     /\ slots.current \notin {slots.target, slots.pending}
     /\ slots.target # None => slots.target # slots.pending

(***************************************************************************)
(* The tail announced after the last block is long enough for every filter *)
(* that is still audible, in particular for both filters of a fade the     *)
(* drain has to finish.                                                    *)
(***************************************************************************)
TailCoversFilters ==
  (/\ count > 0
   /\ lifecycle \notin {"NumericFailure", "EpochExhausted"}
   /\ call = None \/ call.kind = "drain")
    => tail + drained >= AudibleTail(slots)

(***************************************************************************)
(* A fade is never cut short or redirected: the two filters stay in place  *)
(* until the last of its samples, and then the target is the current one.  *)
(***************************************************************************)
FadeIsContinuous ==
  [][(Fading(slots) /\ epoch' = epoch) =>
       IF Fading(slots')
         THEN /\ slots'.current = slots.current /\ slots'.target = slots.target
              /\ slots'.progress \in {slots.progress, slots.progress + 1}
         ELSE /\ slots.progress = TransitionSamples - 1
              /\ slots'.current = slots.target]_vars

(***************************************************************************)
(* The renderer implements the mailbox: seen through sequences alone, the  *)
(* two kernel slots that may hold an update, the swaps of finish_transition*)
(* and the per-sample loop are one waiting place and one pose being heard. *)
(***************************************************************************)
Mailbox == INSTANCE PoseMailbox WITH
  open <- lifecycle = "Active",
  heard <- slots.currentSeq,
  fading <- Fading(slots),
  waiting <- Waiting(slots),
  newest <- lastAccepted

ImplementsMailbox == Mailbox!Spec

(***************************************************************************)
(* The newest pose is heard in time: however often it is superseded, the   *)
(* waiting place is empty again before TransitionSamples samples have been *)
(* rendered, so a stream of updates cannot starve the listener.            *)
(***************************************************************************)
PoseStartsInTime == waited < TransitionSamples

(***************************************************************************)
(* A drain that has begun ends, whatever fade is in progress and whatever  *)
(* pose waits, unless it fails, is reset or uses up the sample index.      *)
(***************************************************************************)
DrainEnds == (lifecycle = "Draining") ~> (lifecycle # "Draining" \/ count = MaxIndex)

=============================================================================
