----------------------------- MODULE MC_Decoding -----------------------------
(* One of the four stages of decoding that keep state from one block, frame or unit  *)
(* to the next, for TLC: the audio blocks of a frame, the synthesis of access units, *)
(* the object payload, or the output timeline of the reconstruction.                 *)
EXTENDS AudioBlocks, JocAccessUnitPcm, PayloadDecoder, ReconstructionTimeline

CONSTANTS r0, r1, t0, t1
VARIABLE stage

DecodingInit ==
  /\ stage \in {"blocks", "units", "payload", "timeline"}
  /\ AudioInit /\ UnitInit /\ PayloadInit /\ Init
  /\ stage # "blocks" => codec = "AC-3" /\ stereo /\ varied = "spx"

DecodingNext ==
  /\ UNCHANGED stage
  /\ \/ stage = "blocks" /\ AudioNext /\ UNCHANGED <<unitVars, payloadVars, vars>>
     \/ stage = "units" /\ UnitNext /\ UNCHANGED <<audioVars, payloadVars, vars>>
     \/ stage = "payload" /\ PayloadNext /\ UNCHANGED <<audioVars, unitVars, vars>>
     \/ stage = "timeline" /\ Next /\ UNCHANGED <<audioVars, unitVars, payloadVars>>

DecodingSpec == DecodingInit /\ [][DecodingNext]_<<stage, audioVars, unitVars, payloadVars, vars>>

\* Every stage keeps its variables in their types: a region of coupling is never empty and
\* no sample position passes the end of the clock, however long a stream runs.
DecodingTypeOK == AudioTypeOK /\ UnitTypeOK /\ PayloadTypeOK /\ TypeOK

\* What a frame or unit inherits from the ones before it is that of the last one the caller
\* was given: the overlap of every substream, the filters, matrix and tail of the objects,
\* and whether the objects are bound to metadata.
HistoriesContinue == TdacContinuous /\ JocContinuous /\ BindingAgrees

\* Two configurations of one shape, and one of another.
MCShape == <<1, 1, 2>>
MCGroups == {<<6>>, <<2, 3, 1>>}

MCLengths == {0, 1, 3}
MCStarts == {0, 4}
MCRates == {r0, r1}
MCTopologies == {t0, t1}
=============================================================================
