--------------------------- MODULE SpeakerRenderer ---------------------------
(***************************************************************************)
(* The spatial rendering of aligned blocks to loudspeakers: the renderer   *)
(* (crates/openjoc-api, speaker.rs) and the three stateful parts it drives *)
(* for every block,                                                        *)
(*                                                                         *)
(*   BridgeControlAssembler  object metadata to timed selective updates,   *)
(*   JocSpatialBridge        the binding and one gain ramp per route,      *)
(*   FinalLinkedGain         a common gain that holds one block back.      *)
(*                                                                         *)
(* Each keeps records of its own and is changed at another point of the    *)
(* call, and every one of them may refuse.  The metadata of a block are an *)
(* input chosen while the call runs: one ApplyBlock for each OAMD block,   *)
(* in the order the assembler has sorted them.                             *)
(*                                                                         *)
(* A descriptor is a place, and the projection of a place on the layout a  *)
(* level; one output channel stands for all, as all routes of an object    *)
(* are scheduled alike.  The timeline in front is ReconstructionTimeline.  *)
(* A stream keeps its anchors (SceneBuilder refuses others), so that the   *)
(* bindings are a constant and the signature is bound or not.  A block is  *)
(* an access unit: one the linked gain passes by for its length            *)
(* (apply_final_linked_gain) is as in a setup without it, and a stream     *)
(* that mixes lengths is left out.  An update's gain is in its range, as   *)
(* the parser gives no other (decode_gain); a position that is refused     *)
(* leaves the descriptor it would have replaced.                           *)
(***************************************************************************)
EXTENDS GainScheduler, Sequences, FiniteSets

CONSTANTS
  Setups,       \* pairs of stereo and linked_gain_enabled
  None,         \* the absent value of an Option
  Silence,      \* what a linked gain without history puts out
  Coordinates,  \* bindings: the family and the object of every coordinate
  Objects,      \* the objects of the metadata
  Places,       \* descriptors of a dynamic object
  Home,         \* the descriptor of default_records
  Level,        \* the projection of a place
  Scalars,      \* bridge_gain_scalar of an update
  Starts,       \* start_sample of an OAMD block
  Ramps,        \* ramp_duration of an OAMD block
  FrameQuanta,  \* samples of an access unit, in quanta
  MaxQuanta,    \* bound: quanta rendered or lost
  MaxEpoch      \* bound: number of resets

ASSUME ConstantsAssumption ==
  /\ Setups \subseteq BOOLEAN \X BOOLEAN
  /\ Coordinates \in Seq([family : {"base", "dynamic"}, object : Objects \cup {None}])
  /\ Home \in Places /\ Level \in [Places -> Nat] /\ Scalars \subseteq Nat
  /\ FrameQuanta \in Nat \ {0} /\ MaxQuanta \in Nat /\ MaxEpoch \in Nat
  /\ Starts \subseteq Nat /\ Ramps \subseteq Nat
  /\ None \notin Places \cup Scalars \cup Objects \cup Int \cup BOOLEAN
  /\ Silence \notin Nat

\* No ramp is longer than the time that is modelled (ramp_duration has 16 bits).
ASSUME RampsAssumption == \A ramp \in Ramps : Quanta(ramp) <= MaxQuanta

VARIABLES
  stereo,     \* layout.is_stereo(): Base PCM is not projected
  linked,     \* linked_gain_enabled
  assembler,  \* topology_epoch and records of the BridgeControlAssembler
  binding,    \* SpatialBindingState.snapshot
  routes,     \* schedulers, one for each coordinate, or none at all
  gain,       \* final_linked_gain: whether the LFE is active, and the block held
  expected,   \* expected_sample, in quanta
  clock,      \* where the next aligned block starts
  finished,   \* timeline.finished: the reconstruction tail was given to finish
  call,       \* the render_aligned_block in progress
  epoch,      \* history: number of resets
  fed,        \* history: blocks rendered since the linked gain was last cleared
  cuts,       \* history: those before which it was reconfigured
  heard,      \* history: blocks put out
  due         \* history: the sample at which the routes are to be at their targets

config == <<stereo, linked>>
history == <<fed, cuts, heard>>
vars == <<config, assembler, binding, routes, gain, expected, clock, finished, call,
          epoch, history, due>>

Option(S) == S \cup {None}
Ordinals == 1 .. Len(Coordinates)
Samples == 0 .. (MaxQuanta + FrameQuanta) * Quantum
FrameSamples == FrameQuanta * Quantum

Records == [active : BOOLEAN, scalar : Scalars \cup {0, 1}, place : Places]

\* A call in progress: at is None while events are assembled; initial is what a first
\* frame starts from.  A quantum has at most one event.
Event == [start : Starts, ramp : Ramps, before : [Ordinals -> Records], after : [Ordinals -> Records]]
Quantums == 0 .. FrameQuanta - 1
NoEvents == [q \in Quantums |-> None]
Calls == [lfe : BOOLEAN, payload : BOOLEAN, at : Option(0 .. FrameQuanta),
          events : [Quantums -> Option(Event)],
          initial : Option([Ordinals -> Records])]
Controls == [epoch : 0 .. 1, records : [Ordinals -> Records]]
LinkedGains == [lfe : BOOLEAN, held : Nat \cup {Silence}]

ASSUME NoneAssumption ==
  None \notin Event \cup [Ordinals -> Records] \cup Controls \cup LinkedGains \cup Calls

\* default_records: Base coordinates sound at once, objects with their first update.
DefaultRecords ==
  [c \in Ordinals |->
     IF Coordinates[c].family = "base"
     THEN [active |-> ~stereo, scalar |-> 1, place |-> Home]
     ELSE [active |-> FALSE, scalar |-> 0, place |-> Home]]

Unbound == [epoch |-> 0, records |-> None]

-----------------------------------------------------------------------------
Init ==
  /\ \E s \in Setups : stereo = s[1] /\ linked = s[2]
  /\ assembler = Unbound /\ binding = None /\ routes = <<>> /\ gain = None
  /\ expected = 0 /\ clock = 0 /\ finished = FALSE /\ call = None /\ epoch = 0
  /\ fed = <<>> /\ cuts = {} /\ heard = <<>> /\ due = 0

\* assembler.reset and bridge.reset.
ClearControl ==
  /\ assembler' = Unbound
  /\ binding' = None /\ routes' = <<>>
  /\ due' = 0

\* linked_gain.reset keeps the active channels and drops the history.
ClearGain ==
  /\ gain' = (IF gain = None THEN None ELSE [gain EXCEPT !.held = Silence])
  /\ fed' = <<>> /\ cuts' = {} /\ heard' = <<>>

\* SpeakerRenderer::reset
Reset ==
  /\ call = None
  /\ epoch < MaxEpoch
  /\ ClearControl /\ ClearGain
  /\ expected' = 0 /\ clock' = 0 /\ finished' = FALSE /\ epoch' = epoch + 1
  /\ UNCHANGED <<config, call>>

(***************************************************************************)
(* render_frame_aligned of a frame whose JOC decoder was reset (a gap in   *)
(* its sequence, or the first frame): everything starts over at that       *)
(* frame, and n frames still held by the timeline are dropped.             *)
(***************************************************************************)
StateReset(n) ==
  /\ call = None /\ ~finished
  /\ epoch < MaxEpoch
  /\ ClearControl /\ ClearGain
  /\ clock + n * FrameQuanta < MaxQuanta
  /\ clock' = clock + n * FrameQuanta /\ expected' = clock'
  /\ epoch' = epoch + 1
  /\ UNCHANGED <<config, finished, call>>

\* An error of render_aligned_block: its frame has left the timeline.
Fail ==
  /\ call' = None
  /\ clock' = clock + FrameQuanta
  /\ UNCHANGED <<config, expected, finished, epoch>>

-----------------------------------------------------------------------------
(***************************************************************************)
(* assemble_frame.  The guard on the start of the frame keeps every later  *)
(* frame out once one has failed.                                          *)
(***************************************************************************)
InOrder == clock = expected

\* Inputs of the frame: whether it has an LFE and any Objects element.
BeginBlock(lfe, payload) ==
  /\ call = None /\ ~finished
  /\ clock < MaxQuanta
  /\ InOrder
  /\ assembler.records = None => payload
  /\ assembler' = (IF assembler.records = None
                   THEN [epoch |-> assembler.epoch + 1, records |-> DefaultRecords]
                   ELSE assembler)
  /\ call' = [lfe |-> lfe, payload |-> payload, at |-> None, events |-> NoEvents,
              initial |-> IF assembler.records = None THEN DefaultRecords ELSE None]
  /\ UNCHANGED <<config, binding, routes, gain, expected, clock, finished, epoch, history, due>>

\* Not the next frame, or no metadata yet (MissingInitialPayload).
RefuseBlock ==
  /\ call = None /\ ~finished
  /\ clock < MaxQuanta
  /\ InOrder => assembler.records = None
  /\ Fail
  /\ UNCHANGED <<assembler, binding, routes, gain, history, due>>

\* quantum_for_event: the nearest quantum, halves down.
EventQuantum(start) ==
  ((IF start > Quantum \div 2 THEN start - Quantum \div 2 ELSE 0) + Quantum - 1) \div Quantum

Assembling == call # None /\ call.at = None

\* An event beyond the frame (UnsupportedTiming) or a wrong number of objects is found
\* before any block is applied; the topology of a first frame is kept.
RefuseTiming ==
  /\ Assembling /\ call.payload /\ call.events = NoEvents
  /\ Fail
  /\ UNCHANGED <<assembler, binding, routes, gain, history, due>>

\* An update of one object.  One anchored to the screen needs a reference screen, which
\* the renderer does not have.
Updates == [active : BOOLEAN, screen : BOOLEAN, scalar : Scalars, place : Places]

Bed(o) == \A c \in Ordinals : Coordinates[c].object = o => Coordinates[c].family = "base"

\* The updates of an OAMD block.  Of an inactive object nothing else is read, and of one
\* that belongs to a Base coordinate no position.
BlockUpdates ==
  {us \in [Objects -> Updates] :
     \A o \in Objects : Bed(o) \/ ~us[o].active => ~us[o].screen /\ us[o].place = Home}

\* The record of coordinate c after update u (apply_block, descriptor_for); where a Base
\* coordinate sounds does not change.
Updated(c, record, u) ==
  IF ~u.active THEN [record EXCEPT !.active = FALSE]
  ELSE [active |-> ~stereo \/ Coordinates[c].family # "base",
        scalar |-> u.scalar,
        place  |-> IF Coordinates[c].family = "base" THEN record.place ELSE u.place]

\* The coordinates before the first one whose update cannot be applied.
Accepted(us) ==
  {c \in Ordinals : \A d \in 1 .. c :
     ~(Coordinates[d].family = "dynamic" /\ us[Coordinates[d].object].screen)}

\* apply_block up to the coordinate it stops at.
Applied(us) ==
  [c \in Ordinals |->
     IF Coordinates[c].object = None \/ c \notin Accepted(us) THEN assembler.records[c]
     ELSE Updated(c, assembler.records[c], us[Coordinates[c].object])]

\* Blocks of the same quantum are one event: before is kept from the first of them,
\* and the last ramp wins.
WithEvent(start, ramp) ==
  LET q == EventQuantum(start)
      first == IF call.events[q] = None THEN assembler.records ELSE call.events[q].before
  IN  [call.events EXCEPT ![q] =
         [start |-> start, ramp |-> ramp, before |-> first, after |-> assembler.records']]

ApplyBlock(start, ramp, us) ==
  /\ Assembling /\ call.payload
  /\ EventQuantum(start) < FrameQuanta
  /\ \A q \in Quantums : call.events[q] # None => q <= EventQuantum(start)
  /\ Accepted(us) = Ordinals
  /\ assembler' = [assembler EXCEPT !.records = Applied(us)]
  /\ call' = [call EXCEPT !.events = WithEvent(start, ramp)]
  /\ UNCHANGED <<config, binding, routes, gain, expected, clock, finished, epoch, history, due>>

\* MissingReferenceScreen: the coordinates before it have changed.
RefuseUpdate(us) ==
  /\ Assembling /\ call.payload
  /\ Accepted(us) # Ordinals
  /\ assembler' = [assembler EXCEPT !.records = Applied(us)]
  /\ Fail
  /\ UNCHANGED <<binding, routes, gain, history, due>>

DiffOfPlaces(before, after) ==  \* mutant: a record that only fell silent is no update
  {c \in Ordinals : before[c].place # after[c].place \/ before[c].scalar # after[c].scalar}

\* selective_diff: the ordinals a record of which changed.
Diff(before, after) == {c \in Ordinals : before[c] # after[c]}

\* One update: only the fields that changed, unless the descriptor did.
Patch(previous, next) ==
  IF previous.place = next.place
  THEN [place  |-> None,
        scalar |-> IF previous.scalar # next.scalar THEN next.scalar ELSE None,
        active |-> IF previous.active # next.active THEN next.active ELSE None]
  ELSE [place |-> next.place, scalar |-> next.scalar, active |-> next.active]

EventUpdates(e) == [c \in Diff(e.before, e.after) |-> Patch(e.before[c], e.after[c])]

Changes(e) == e # None /\ Diff(e.before, e.after) # {}

\* The events that change something, ready for the windows.
Assembled ==
  /\ Assembling
  /\ call' = [call EXCEPT
       !.at = 0,
       !.events = [q \in Quantums |-> IF Changes(call.events[q]) THEN call.events[q] ELSE None]]
  /\ UNCHANGED <<config, assembler, binding, routes, gain, expected, clock, finished,
                 epoch, history, due>>

-----------------------------------------------------------------------------
(***************************************************************************)
(* render_coordinates for one window.  The topology of a first frame and   *)
(* the event at the window's start are applied to the binding; an event    *)
(* gives every route its target again, and with it a new ramp.             *)
(***************************************************************************)
Rendering == call # None /\ call.at # None /\ call.at < FrameQuanta

HasEvent == call.events[call.at] # None

\* The end of the window: the next event or the end of the frame.
WindowEnd ==
  LET later == {q \in Quantums : q > call.at /\ call.events[q] # None} \cup {FrameQuanta}
  IN  CHOOSE q \in later : \A r \in later : q <= r

\* apply_update: absent fields are inherited.
Patched(record, patch) ==
  [active |-> IF patch.active = None THEN record.active ELSE patch.active,
   scalar |-> IF patch.scalar = None THEN record.scalar ELSE patch.scalar,
   place  |-> IF patch.place = None THEN record.place ELSE patch.place]

\* SpatialBindingState::apply: all or nothing.
Bound ==
  LET topology == IF call.at = 0 THEN call.initial ELSE None
      start == IF topology = None THEN binding ELSE [epoch |-> 1, records |-> topology]
      updates == IF HasEvent THEN EventUpdates(call.events[call.at]) ELSE <<>>
  IN  [start EXCEPT !.records =
         [c \in Ordinals |-> IF c \in DOMAIN updates
                             THEN Patched(start.records[c], updates[c])
                             ELSE start.records[c]]]

RampSamples == IF HasEvent THEN call.events[call.at].ramp ELSE 0

Target(record) == IF record.active THEN record.scalar * Level[record.place] ELSE 0

\* The routes with their targets refreshed: fresh ones after an Init or when they were lost.
Refreshed ==
  LET initial == call.at = 0 /\ call.initial # None
      start == IF initial \/ routes = <<>> THEN [c \in Ordinals |-> Silent] ELSE routes
  IN  IF initial \/ routes = <<>> \/ HasEvent
      THEN [c \in Ordinals |-> SetTarget(start[c], Target(Bound.records[c]), RampSamples)]
      ELSE routes

Here == (clock + call.at) * Quantum

\* The number of quanta nearest to n samples, the smaller one of two.
Nearest(n) ==
  CHOOSE q \in 0 .. n :
    /\ \A r \in 0 .. n : Distance(q * Quantum, n) <= Distance(r * Quantum, n)
    /\ \A r \in 0 .. q - 1 : Distance(q * Quantum, n) < Distance(r * Quantum, n)

\* When the ramp of the event at this window should end, by its own start and duration.
Due ==
  IF HasEvent
  THEN LET e == call.events[call.at]
       IN  (clock + Nearest(e.start) + Nearest(e.ramp)) * Quantum
  ELSE IF call.initial # None /\ call.at = 0 THEN Here ELSE due

RenderWindow ==
  /\ Rendering
  /\ binding' = Bound
  /\ routes' = [c \in Ordinals |-> Advance(Refreshed[c], (WindowEnd - call.at) * Quantum)]
  /\ due' = Due
  /\ call' = [call EXCEPT !.at = WindowEnd]
  /\ UNCHANGED <<config, assembler, gain, expected, clock, finished, epoch, history>>

\* A record cannot be projected: the binding has changed, the routes are lost.
FailProjection ==
  /\ Rendering
  /\ \E c \in Ordinals : Bound.records[c].active
  /\ binding' = Bound /\ routes' = <<>>
  /\ Fail
  /\ UNCHANGED <<assembler, gain, history, due>>

\* A sum is not finite (NonFiniteOutput): the window has been rendered up to sample n.
FailSample(n) ==
  /\ Rendering
  /\ n < (WindowEnd - call.at) * Quantum
  /\ binding' = Bound
  /\ routes' = [c \in Ordinals |-> Advance(Refreshed[c], n)]
  /\ Fail
  /\ UNCHANGED <<assembler, gain, history, due>>

-----------------------------------------------------------------------------
(***************************************************************************)
(* apply_final_linked_gain and the end of the block.  The engine works in  *)
(* blocks of one quantum and puts out the block it was given before;       *)
(* another set of active channels makes a new engine.                      *)
(***************************************************************************)
Rendered == call # None /\ call.at = FrameQuanta

NewGain(lfe) == [lfe |-> lfe, held |-> Silence]  \* mutant: a new engine for every block

\* FinalLinkedGain::new or reconfigure.
Configured(lfe) ==
  IF gain = None \/ gain.lfe # lfe THEN [lfe |-> lfe, held |-> Silence] ELSE gain

\* The quanta of the block, by their position.
BlockQuanta == [i \in 1 .. FrameQuanta |-> clock + i - 1]

\* process over the whole block: what comes out, and what is held afterwards.
Delayed(held) ==
  [i \in 1 .. FrameQuanta |-> IF i = 1 THEN held ELSE BlockQuanta[i - 1]]

EndBlock ==
  /\ Rendered
  /\ IF linked
     THEN /\ gain' = [lfe |-> call.lfe, held |-> BlockQuanta[FrameQuanta]]
          /\ heard' = heard \o Delayed(Configured(call.lfe).held)
          /\ cuts' = (IF gain # None /\ gain.lfe # call.lfe THEN cuts \cup {Len(fed) + 1} ELSE cuts)
     ELSE /\ heard' = heard \o BlockQuanta
          /\ UNCHANGED <<gain, cuts>>
  /\ fed' = fed \o BlockQuanta
  /\ expected' = expected + FrameQuanta
  /\ clock' = clock + FrameQuanta
  /\ call' = None
  /\ UNCHANGED <<config, assembler, binding, routes, finished, epoch, due>>

\* Another rate than 48 kHz, or a sample that is not finite: the engine may be a new one.
FailGain ==
  /\ Rendered /\ linked
  /\ gain' \in {gain, Configured(call.lfe)}
  /\ Fail
  /\ UNCHANGED <<assembler, binding, routes, history, due>>

\* finish_with_reconstruction_tail, after the blocks that were still held: the block the
\* linked gain holds comes out for a block of zeros.  A block that failed is an error
\* before that.  The timeline takes no frame afterwards.
Finish ==
  /\ call = None /\ ~finished
  /\ finished' = TRUE
  /\ IF InOrder /\ linked /\ gain # None
     THEN heard' = Append(heard, gain.held) /\ gain' = [gain EXCEPT !.held = Silence]
     ELSE UNCHANGED <<heard, gain>>
  /\ UNCHANGED <<config, assembler, binding, routes, expected, clock, call, epoch, fed, cuts, due>>

Next ==
  \/ Reset
  \/ \E n \in 0 .. 1 : StateReset(n)
  \/ \E lfe, payload \in BOOLEAN : BeginBlock(lfe, payload)
  \/ RefuseBlock
  \/ RefuseTiming
  \/ \E start \in Starts, ramp \in Ramps, us \in BlockUpdates :
       ApplyBlock(start, ramp, us)
  \/ \E us \in BlockUpdates : RefuseUpdate(us)
  \/ Assembled
  \/ RenderWindow
  \/ FailProjection
  \/ \E n \in 0 .. FrameSamples : FailSample(n)
  \/ EndBlock
  \/ FailGain
  \/ Finish

Spec == Init /\ [][Next]_vars

-----------------------------------------------------------------------------
(* Properties *)

Blocks == 0 .. MaxQuanta - 1
Gains == 0 .. 2 * Level[CHOOSE p \in Places : \A q \in Places : Level[q] <= Level[p]]
Schedulers == [current : Int, target : Gains, delta : Int,
               remaining : 0 .. MaxQuanta, phase : 0 .. Quantum - 1]
\* Every variable keeps its type; the engine keeps one block for its channel set.
TypeOK ==
  /\ stereo \in BOOLEAN /\ linked \in BOOLEAN
  /\ assembler \in [epoch : 0 .. 1, records : Option([Ordinals -> Records])]
  /\ binding \in Option([epoch : {1}, records : [Ordinals -> Records]])
  /\ routes \in {<<>>} \cup [Ordinals -> Schedulers]
  /\ gain \in Option([lfe : BOOLEAN, held : Blocks \cup {Silence}])
  /\ expected \in 0 .. MaxQuanta /\ clock \in 0 .. MaxQuanta /\ finished \in BOOLEAN
  /\ call \in Option(Calls) /\ epoch \in 0 .. MaxEpoch
  /\ fed \in Seq(Blocks) /\ heard \in Seq(Blocks \cup {Silence})
  /\ cuts \subseteq 1 .. Len(fed) /\ due \in Samples

\* The assembler and the bridge keep their records apart, and an error may leave one of
\* them ahead.  As long as the renderer still takes blocks the two agree, on the epoch
\* and on every record, so that the next selective updates mean the same to both.
ControlAgrees ==
  call = None /\ InOrder /\ assembler.records # None =>
    binding # None /\ binding = assembler

\* A ramp ends on the quantum nearest to its duration after its event, at the gain the
\* metadata ask for; no window begins within a quantum.  Until then each step left
\* takes it there, but for the rounding of a step.
RampsEndOnTime ==
  (IF call = None THEN InOrder ELSE Rendering) /\ routes # <<>> =>
    LET now == IF call = None THEN clock * Quantum ELSE Here IN
    \A c \in Ordinals :
      LET s == routes[c] IN
      /\ s.target = Target(binding.records[c])
      /\ s.phase = 0
      /\ s.remaining > 0 => now + s.remaining * Quantum = due
      /\ s.remaining = 0 /\ now <= due => Distance(s.current, s.target) < Eps + MaxQuanta
      /\ Distance(s.current + s.remaining * s.delta, s.target) < MaxQuanta

\* What is put out is the programme rendered since the last reset, without a hole: each
\* block of the linked gain once and one block late, the last one in the drain.  Only
\* where the LFE comes or goes is the block held replaced by silence.
OneBlockLate ==
  /\ \A i \in 1 .. Len(fed) - 1 : fed[i + 1] = fed[i] + 1
  /\ ~linked => heard = fed
  /\ linked =>
       /\ Len(heard) = Len(fed) + (IF finished /\ InOrder /\ gain # None THEN 1 ELSE 0)
       /\ \A i \in 1 .. Len(heard) :
            heard[i] = IF i = 1 \/ i \in cuts THEN Silence ELSE fed[i - 1]
=============================================================================
