-------------------------- MODULE JocAccessUnitPcm --------------------------
(***************************************************************************)
(* The PCM of grouped access units (crates/openjoc-eac3, access_unit.rs,   *)
(* JocAccessUnitPcmDecoder).  A unit is six audio blocks of program sets,  *)
(* each set a frame of the independent substream I0 and one of every       *)
(* dependent D0, D1, ....  Every substream has a synthesizer, whose delay  *)
(* holds the second half of its last transform until the next block of     *)
(* the same substream is added to it (TDAC), across frames and units.      *)
(*                                                                         *)
(* decode works on copies and commits them with the last set, so that a    *)
(* unit that fails leaves no trace; one action is one frame, one set, or   *)
(* the commit.  A delay is named by the set of the unit that left it: the  *)
(* channels and blocks of a frame go through the synthesizer alike.  The   *)
(* channels' locations and their merge, dynamic range and the timing of    *)
(* the stages are left out.                                                *)
(***************************************************************************)
EXTENDS Naturals, Sequences

CONSTANTS
  Configurations,  \* SubstreamPcmConfigurations
  Shape,           \* channel count and LFE of a configuration
  MaxDependents,   \* GENERAL_MAX_DEPENDENT_SUBSTREAMS
  Groups,          \* lengths in blocks of the sets of a unit, six in all
  Dialnorms,       \* dialnorm values
  MaxUnits         \* bound: units decoded since the last reset

ASSUME UnitAssumption ==
  /\ 0 \notin Configurations /\ MaxDependents \in Nat
  /\ Groups \subseteq Seq(Nat) /\ <<>> \notin Groups

Substreams == 0 .. MaxDependents  \* 0 is I0, i + 1 is Di
Blocks == 6

VARIABLES
  synthesizers,    \* independent and dependent_synthesizers
  configured,      \* independent_configuration and dependent_configurations, 0 for none
  work,            \* the copies and the unit a running decode has, Idle between calls
  units,           \* calls of decode since the last reset, which name the delays
  mismatched,      \* history: a frame did not fit the delays of its substream
  continued        \* history: what every substream had in the last unit returned

unitVars == <<synthesizers, configured, work, units, mismatched, continued>>

Silent == [from |-> <<0, 0>>, shape |-> 0]
NotThere == [from |-> <<0, 0>>, configuration |-> 0]
Idle == [lengths |-> <<>>]
Running == work # Idle

UnitInit ==
  /\ synthesizers = [s \in Substreams |-> Silent]
  /\ configured = [s \in Substreams |-> 0]
  /\ work = Idle /\ units = 0 /\ mismatched = FALSE
  /\ continued = [s \in Substreams |-> NotThere]

-----------------------------------------------------------------------------
\* decode up to the first set.  The dependents the unit lacks lose their delay.
Kept(dependents) ==  \* mutant: the delay stays for when they come back
  [s \in Substreams |-> synthesizers[s]]

Staged(dependents) ==
  [s \in Substreams |-> IF s > dependents THEN Silent ELSE synthesizers[s]]

StartUnit(lengths, dependents) ==
  /\ ~Running /\ units < MaxUnits
  /\ units' = units + 1
  /\ work' = [lengths |-> lengths, dependents |-> dependents, set |-> 1, substream |-> 0,
              synthesizers |-> Staged(dependents),
              configured |-> [s \in Substreams |-> IF s > dependents THEN 0 ELSE configured[s]],
              group |-> [s \in Substreams |-> 0],
              dialnorm |-> 0, segments |-> <<>>, samples |-> 0,
              value |-> 0, overlaps |-> {}, calibrated |-> <<>>]
  /\ UNCHANGED <<synthesizers, configured, mismatched, continued>>

FailUnit ==
  /\ Running
  /\ work' = Idle
  /\ UNCHANGED <<synthesizers, configured, units, mismatched, continued>>

(***************************************************************************)
(* decode_frame and synthesize: a substream that is configured otherwise   *)
(* starts from silence, a frame must fit the delays there are, and within  *)
(* a unit a substream keeps its configuration.                             *)
(***************************************************************************)
Before(s, configuration) ==
  IF work.configured[s] \notin {0, configuration} THEN Silent ELSE work.synthesizers[s]

Fits(s, configuration) ==
  Before(s, configuration).shape \in {0, Shape[configuration]}

DecodeFrame(configuration, dialnorm) ==
  /\ Running /\ work.set <= Len(work.lengths) /\ work.substream <= work.dependents
  /\ LET s == work.substream IN
       /\ mismatched' = (mismatched \/ ~Fits(s, configuration))
       /\ IF Fits(s, configuration) /\ work.group[s] \in {0, configuration}
            THEN work' = [work EXCEPT
                   !.substream = s + 1,
                   !.synthesizers[s] = [from |-> <<units, work.set>>, shape |-> Shape[configuration]],
                   !.configured[s] = configuration,
                   !.group[s] = configuration,
                   !.overlaps = @ \cup {[substream |-> s, set |-> work.set,
                                         configuration |-> configuration,
                                         carry |-> Before(s, configuration).from]},
                   !.value = IF s = 0 THEN dialnorm ELSE @]
            ELSE work' = Idle
  /\ UNCHANGED <<synthesizers, configured, units, continued>>

-----------------------------------------------------------------------------
(***************************************************************************)
(* The end of a set: its blocks are appended (append_decoded_pcm), with a  *)
(* segment where the calibration changes.                                  *)
(***************************************************************************)
Change(w, dialnorm) ==
  LET last == IF w.segments = <<>> THEN w.dialnorm ELSE w.segments[Len(w.segments)].state
  IN IF last = dialnorm THEN <<>> ELSE <<[start |-> w.samples, state |-> dialnorm]>>

EndSet ==
  /\ Running /\ work.set <= Len(work.lengths) /\ work.substream > work.dependents
  /\ work' = [work EXCEPT
       !.set = @ + 1, !.substream = 0,
       !.samples = @ + work.lengths[work.set],
       !.dialnorm = IF work.set = 1 THEN work.value ELSE @,
       !.segments = IF work.set = 1 THEN @ ELSE @ \o Change(work, work.value),
       !.calibrated = @ \o [i \in 1 .. work.lengths[work.set] |-> work.value]]
  /\ UNCHANGED <<synthesizers, configured, units, mismatched, continued>>

\* The commit; the unit goes to the caller.
ReturnUnit ==
  /\ Running /\ work.set > Len(work.lengths)
  /\ work.samples = Blocks
  /\ synthesizers' = work.synthesizers
  /\ configured' = work.configured
  /\ continued' = [s \in Substreams |->
                     IF s > work.dependents THEN NotThere
                     ELSE [from |-> <<units, Len(work.lengths)>>, configuration |-> work.group[s]]]
  /\ work' = Idle
  /\ UNCHANGED <<units, mismatched>>

ResetDecoder ==
  /\ ~Running
  /\ synthesizers' = [s \in Substreams |-> Silent]
  /\ configured' = [s \in Substreams |-> 0]
  /\ units' = 0
  /\ continued' = [s \in Substreams |-> NotThere]
  /\ UNCHANGED <<work, mismatched>>

UnitNext ==
  \/ \E lengths \in Groups, dependents \in 0 .. MaxDependents : StartUnit(lengths, dependents)
  \/ \E configuration \in Configurations, dialnorm \in Dialnorms : DecodeFrame(configuration, dialnorm)
  \/ EndSet
  \/ ReturnUnit
  \/ FailUnit
  \/ ResetDecoder

UnitSpec == UnitInit /\ [][UnitNext]_unitVars

-----------------------------------------------------------------------------
(* Properties *)

Delays == [from : (0 .. MaxUnits) \X (0 .. Blocks), shape : 0 .. Blocks]

\* Every variable keeps its type.
UnitTypeOK ==
  /\ synthesizers \in [Substreams -> Delays]
  /\ configured \in [Substreams -> Configurations \cup {0}]
  /\ units \in 0 .. MaxUnits
  /\ Running => /\ work.synthesizers \in [Substreams -> Delays]
                /\ work.samples \in 0 .. Blocks /\ work.substream \in 0 .. MaxDependents + 1

\* What a frame is to be added to: the set before in its unit, or the last set of the last
\* unit returned, if that had the substream in this configuration, or silence.
Preceding(overlap) ==
  IF overlap.set > 1 THEN <<units, overlap.set - 1>>
  ELSE IF continued[overlap.substream].configuration = overlap.configuration
    THEN continued[overlap.substream].from ELSE <<0, 0>>

\* apply_dialnorm_to_samples: the value a block of the unit is calibrated with.
Calibration(block) ==
  LET before == {i \in DOMAIN work.segments : work.segments[i].start <= block}
  IN IF before = {} THEN work.dialnorm
     ELSE work.segments[CHOOSE i \in before : \A j \in before : j <= i].state

\* Every frame of a unit overlaps the frame of its substream that precedes it in what the
\* caller has, whatever failed, dropped out, came back or was configured anew in between,
\* and it always fits.  The calibration of a unit, put down as a value and its changes,
\* gives every block the value of its own set.
TdacContinuous ==
  /\ ~mismatched
  /\ Running =>
       /\ \A overlap \in work.overlaps : overlap.carry = Preceding(overlap)
       /\ \A block \in 0 .. work.samples - 1 : Calibration(block) = work.calibrated[block + 1]
=============================================================================
