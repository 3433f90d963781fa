----------------------------- MODULE AccessUnits -----------------------------
(***************************************************************************)
(* Where an access unit of E-AC-3 begins and ends (crates/openjoc-eac3,    *)
(* lib.rs), decided twice: parse_access_unit_bounds looks at the front of  *)
(* a buffer that may still grow, group_access_units at complete frames.    *)
(*                                                                         *)
(* A frame is the part of its header that the decisions read.  A long unit *)
(* is a frame of six blocks and the dependents that follow it; a short one *)
(* is made of programme sets, each an independent frame with dependents,   *)
(* of six blocks together, the first of which is marked by convsync.       *)
(***************************************************************************)
EXTENDS Integers, Sequences, SequencesExt

CONSTANTS
  MaxDependents,  \* GENERAL_MAX_DEPENDENT_SUBSTREAMS
  UnitBlocks      \* audio blocks of a unit: 6

More == [kind |-> "more"]            \* AccessUnitParse::NeedMore
Bad == [kind |-> "error"]            \* any Eac3Error
Unit(n) == [kind |-> "unit", frames |-> n]  \* a unit of n frames

Independent(f) == f.type \in {"legacy", "independent"}
Starts(f) == Independent(f) /\ f.id = 0
Dependent(f, n) == f.type = "dependent" /\ f.id = n /\ n < MaxDependents
SameTiming(f, g) == f.blocks = g.blocks

-----------------------------------------------------------------------------
(***************************************************************************)
(* parse_access_unit_bounds.  The buffer ends with a whole frame, or with  *)
(* the header of the frame that is still coming (partial).                 *)
(***************************************************************************)
UnprovenEnd(eos, complete) ==  \* mutant: a unit ends where the buffer ends
  IF complete THEN "end" ELSE IF eos THEN "error" ELSE "more"

AtBufferEnd(eos, complete) ==
  IF ~eos THEN "more" ELSE IF complete THEN "end" ELSE "error"

\* What the parser knows after some frames: those in the unit, its blocks, the last
\* independent frame, the dependents since, and the verdict once there is one.
Scan(first) ==
  [frames |-> 1, blocks |-> first.blocks, parent |-> first, dependents |-> 0,
   verdict |-> "open"]

Taken(s) == [s EXCEPT !.frames = @ + 1, !.dependents = @ + 1]
Verdict(s, v) == [s EXCEPT !.verdict = v]

\* One more frame of a long unit: any header proves the end, only a whole frame is taken.
LongStep(s, f, whole, eos) ==
  IF Starts(f) THEN Verdict(s, "end")
  ELSE IF ~Dependent(f, s.dependents) \/ ~SameTiming(f, s.parent) THEN Verdict(s, "error")
  ELSE IF ~whole THEN Verdict(s, AtBufferEnd(eos, FALSE))
  ELSE Taken(s)

\* One more frame of a short unit: nothing is decided before the frame is whole.
ShortStep(s, f, whole, eos) ==
  IF ~whole THEN Verdict(s, AtBufferEnd(eos, FALSE))
  ELSE IF f.type = "dependent" THEN
    IF Dependent(f, s.dependents) /\ SameTiming(f, s.parent) THEN Taken(s)
    ELSE Verdict(s, "error")
  ELSE IF f.type # "independent" \/ f.id # 0 THEN Verdict(s, "error")
  ELSE IF s.blocks = UnitBlocks THEN Verdict(s, "end")
  ELSE IF s.blocks + f.blocks > UnitBlocks \/ f.convsync THEN Verdict(s, "error")
  ELSE [Scan(f) EXCEPT !.frames = s.frames + 1, !.blocks = s.blocks + f.blocks]

Bounds(buffer, partial, eos) ==
  LET first == buffer[1]
      short == first.blocks < UnitBlocks
      Whole(i) == i < Len(buffer) \/ ~partial
      Step(s, i) ==
        IF s.verdict # "open" THEN s
        ELSE IF short THEN ShortStep(s, buffer[i], Whole(i), eos)
        ELSE LongStep(s, buffer[i], Whole(i), eos)
      seen == FoldLeft(Step, Scan(first), [i \in 1 .. Len(buffer) - 1 |-> i + 1])
      verdict == IF seen.verdict # "open" THEN seen.verdict
                 ELSE AtBufferEnd(eos, seen.blocks = UnitBlocks)
  IN
  IF buffer = <<>> THEN More
  ELSE IF ~Starts(first) THEN Bad
  ELSE IF ~Whole(1) THEN IF eos THEN Bad ELSE More
  ELSE IF short /\ ~first.convsync THEN Bad
  ELSE CASE verdict = "more" -> More
         [] verdict = "error" -> Bad
         [] verdict = "end" -> Unit(seen.frames)

-----------------------------------------------------------------------------
(***************************************************************************)
(* group_access_units, for the unit at the front of frames.                *)
(***************************************************************************)
Parents(frames) == SelectSeq([i \in 1 .. Len(frames) |-> i],
                             LAMBDA i : frames[i].type # "dependent")

\* A dependent follows its parent at once, and dependents are numbered from 0.
ParentOf(frames, i) == CHOOSE p \in 1 .. i :
  frames[p].type # "dependent" /\ \A j \in p + 1 .. i : frames[j].type = "dependent"

DependentsFollow(frames) ==
  \A i \in 1 .. Len(frames) :
    frames[i].type = "dependent" =>
      LET p == ParentOf(frames, i) IN
      /\ frames[p].type # "converted"
      /\ Dependent(frames[i], i - p - 1)
      /\ SameTiming(frames[i], frames[p])

\* A long unit goes on to the next frame with substream 0 that is not a dependent; it
\* may have further independent substreams here, numbered from 0 as well.
LongEnd(frames) ==
  LET ends == {i \in 2 .. Len(frames) : frames[i].type # "dependent" /\ frames[i].id = 0} IN
  IF ends = {} THEN Len(frames) ELSE (CHOOSE i \in ends : \A j \in ends : i <= j) - 1

GroupLong(frames) ==
  LET unit == SubSeq(frames, 1, LongEnd(frames))
      parents == Parents(unit)
  IN IF /\ DependentsFollow(unit)
        /\ \A k \in 1 .. Len(parents) :
             unit[parents[k]].id = k - 1 /\ SameTiming(unit[parents[k]], unit[1])
     THEN Unit(Len(unit)) ELSE Bad

\* The sets that have UnitBlocks blocks together: how many, and the end of the last.
Blocks(frames, k) ==
  FoldLeft(LAMBDA n, i : n + frames[i].blocks, 0, SubSeq(Parents(frames), 1, k))

SetCount(frames) == {k \in 1 .. Len(Parents(frames)) : Blocks(frames, k) = UnitBlocks}

ShortEnd(frames) ==
  LET k == CHOOSE n \in SetCount(frames) : TRUE
      parents == Parents(frames)
  IN IF k = Len(parents) THEN Len(frames) ELSE parents[k + 1] - 1

\* Every set of a short unit has as many dependents as the first.
GroupShort(frames) ==
  LET unit == SubSeq(frames, 1, ShortEnd(frames))
      parents == Parents(unit)
      Dependents(k) == (IF k = Len(parents) THEN Len(unit) + 1 ELSE parents[k + 1]) - parents[k]
  IN IF SetCount(frames) = {} THEN Bad
     ELSE IF /\ DependentsFollow(unit)
             /\ \A k \in 1 .. Len(parents) :
                  /\ unit[parents[k]].type = "independent" /\ unit[parents[k]].id = 0
                  /\ Dependents(k) = Dependents(1)
     THEN Unit(Len(unit)) ELSE Bad

FrontUnit(frames) ==
  IF frames[1].type = "dependent" \/ frames[1].id # 0 THEN Bad
  ELSE IF frames[1].blocks < UnitBlocks THEN GroupShort(frames) ELSE GroupLong(frames)

\* The sizes of the units in frames; 0 at the end when a frame is refused.
Groups(frames) ==
  LET rest[i \in 1 .. Len(frames) + 1] ==
        IF i > Len(frames) THEN <<>>
        ELSE LET front == FrontUnit(SubSeq(frames, i, Len(frames))) IN
             IF front = Bad THEN <<0>> ELSE <<front.frames>> \o rest[i + front.frames]
  IN rest[1]
=============================================================================
