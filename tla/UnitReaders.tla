----------------------------- MODULE UnitReaders -----------------------------
(***************************************************************************)
(* Two readers of one elementary stream.  The framer of the packet bridge  *)
(* and of the browser decoder is pushed bytes as they come, and cuts a     *)
(* unit as soon as parse_access_unit_bounds proves its end.  The reader of *)
(* the command line (crates/openjoc-container, RawEac3AccessUnitReader)    *)
(* pulls whole frames from a file, with one frame of look-ahead.           *)
(*                                                                         *)
(* The bytes of a frame come in two steps, its header and the rest.  The   *)
(* reads of a file wait for their bytes: the command line may as well read *)
(* when all of them are there.  Frames have one size.                      *)
(***************************************************************************)
EXTENDS AccessUnits

CONSTANTS
  FrameKinds,     \* the frames a stream may have
  MaxStream,      \* bound: frames of a stream
  MaxUnitFrames   \* GENERAL_MAX_ACCESS_UNIT_BYTES, in frames

VARIABLES
  source,   \* the frames whose header has come
  partial,  \* the last of them is not complete
  atEnd,    \* the stream is at its end
  framer,   \* frames cut from the staged bytes, sizes of the units, whether it has failed
  reader    \* frames in units, sizes of the units, how it stopped

readerVars == <<source, partial, atEnd, framer, reader>>

ReadersInit ==
  /\ source = <<>> /\ partial = FALSE /\ atEnd = FALSE
  /\ framer = [cut |-> 0, units |-> <<>>, failed |-> FALSE]
  /\ reader = [read |-> 0, units |-> <<>>, stopped |-> "no"]

-----------------------------------------------------------------------------
Header(f) ==
  /\ ~atEnd /\ ~partial /\ Len(source) < MaxStream
  /\ source' = Append(source, f)
  /\ partial' = TRUE
  /\ UNCHANGED <<atEnd, framer, reader>>

Body ==
  /\ ~atEnd /\ partial
  /\ partial' = FALSE
  /\ UNCHANGED <<source, atEnd, framer, reader>>

\* Whole, or in the middle of a frame.
SourceEnds ==
  /\ ~atEnd
  /\ atEnd' = TRUE
  /\ UNCHANGED <<source, partial, framer, reader>>

-----------------------------------------------------------------------------
\* ElementaryStreamFramer::next, and pump of the bridge: the buffer is what is not cut.
Staged == SubSeq(source, framer.cut + 1, Len(source))

Cut ==
  /\ ~framer.failed
  /\ LET bounds == Bounds(Staged, partial, atEnd) IN
     \/ /\ bounds.kind = "unit"
        /\ framer' = [framer EXCEPT !.cut = @ + bounds.frames,
                                    !.units = Append(@, bounds.frames)]
     \/ bounds = Bad /\ framer' = [framer EXCEPT !.failed = TRUE]
  /\ UNCHANGED <<source, partial, atEnd, reader>>

-----------------------------------------------------------------------------
\* next_frame: the complete frames; at a frame that is cut off the reader fails.  The
\* look-ahead of a call is the first of the frames ahead of the next one.
Complete == SubSeq(source, 1, Len(source) - (IF partial THEN 1 ELSE 0))

Ahead == SubSeq(Complete, reader.read + 1, Len(Complete))

\* next_access_unit takes frames up to the first of the next unit, or to the end.  It
\* leaves to group_access_units what read_short_access_unit finds at the same frames.
Span(frames) ==
  IF frames[1].blocks = UnitBlocks THEN LongEnd(frames)
  ELSE IF SetCount(frames) = {} THEN 0 ELSE ShortEnd(frames)

\* The frame after a short unit must start another one of E-AC-3.
FollowedWell(frames, n) ==
  n < Len(frames) /\ frames[1].blocks < UnitBlocks =>
    frames[n + 1].type = "independent" /\ frames[n + 1].id = 0

ReadsUnit ==
  /\ Ahead # <<>> /\ Starts(Ahead[1])
  /\ LET n == Span(Ahead) IN
     /\ n \in 1 .. MaxUnitFrames
     /\ n < Len(Ahead) \/ ~partial
     /\ FollowedWell(Ahead, n)
     /\ Groups(SubSeq(Ahead, 1, n)) = <<n>>

ReadUnit ==
  /\ atEnd /\ reader.stopped = "no"
  /\ ReadsUnit
  /\ reader' = [reader EXCEPT !.read = @ + Span(Ahead), !.units = Append(@, Span(Ahead))]
  /\ UNCHANGED <<source, partial, atEnd, framer>>

\* The end at a whole frame, or an error, which is terminal.
ReadStops ==
  /\ atEnd /\ reader.stopped = "no"
  /\ ~ReadsUnit
  /\ reader' = [reader EXCEPT !.stopped = IF Ahead = <<>> /\ ~partial THEN "end" ELSE "error"]
  /\ UNCHANGED <<source, partial, atEnd, framer>>

ReadersNext ==
  \/ \E f \in FrameKinds : Header(f)
  \/ Body
  \/ SourceEnds
  \/ Cut
  \/ ReadUnit
  \/ ReadStops

-----------------------------------------------------------------------------
(* Properties *)

ReadersTypeOK ==
  /\ source \in Seq(FrameKinds) /\ partial \in BOOLEAN /\ atEnd \in BOOLEAN
  /\ framer \in [cut : 0 .. MaxStream, units : Seq(1 .. MaxStream), failed : BOOLEAN]
  /\ reader \in [read : 0 .. MaxStream, units : Seq(1 .. MaxStream),
                 stopped : {"no", "end", "error"}]

\* The units of a stream, said of its frames and not of a reader: each begins with I0,
\* which in a short unit is the one marked by convsync.
Begins(f) == Starts(f) /\ (f.blocks = UnitBlocks \/ f.convsync)

LongForm(u) ==
  /\ Starts(u[1])
  /\ \A i \in 2 .. Len(u) : Dependent(u[i], i - 2) /\ u[i].blocks = UnitBlocks

\* Programme sets of the same shape, of six blocks together.
ShortForm(u) ==
  \E sets \in 2 .. UnitBlocks, size \in 1 .. MaxDependents + 1 :
    /\ Len(u) = sets * size
    /\ \A k \in 0 .. sets - 1, j \in 1 .. size :
         LET f == u[k * size + j] IN
         IF j = 1 THEN f.type = "independent" /\ f.id = 0 /\ (f.convsync <=> k = 0)
         ELSE Dependent(f, j - 2) /\ f.blocks = u[k * size + 1].blocks
    /\ FoldLeft(LAMBDA n, k : n + u[(k - 1) * size + 1].blocks, 0,
                [k \in 1 .. sets |-> k]) = UnitBlocks

\* The sizes of the units in a stream that is nothing but units, of one core; else {}.
Starting(s) == SelectSeq([i \in 1 .. Len(s) |-> i], LAMBDA i : Begins(s[i])) \o <<Len(s) + 1>>

UnitsOf(s) ==
  LET b == Starting(s)
      Piece(k) == SubSeq(s, b[k], b[k + 1] - 1)
  IN IF /\ b[1] = 1
        /\ \A k \in 1 .. Len(b) - 1 :
             IF Piece(k)[1].blocks = UnitBlocks THEN LongForm(Piece(k)) ELSE ShortForm(Piece(k))
        /\ \A i, j \in 1 .. Len(s) : s[i].type = "legacy" => s[j].type # "independent"
     THEN {[k \in 1 .. Len(b) - 1 |-> b[k + 1] - b[k]]} ELSE {}

\* A live host and the command line find the same units in the same stream, whatever
\* pieces it comes in: those it consists of, in order and whole, all of them by its end.
\* In any other stream too the units the command line reads are the first that the
\* grouping finds, and a unit the framer cuts is one unit to the session or is refused
\* by it, never two.
ReadersAgree ==
  /\ atEnd /\ ~partial =>
       \A units \in UnitsOf(source) :
         /\ ~framer.failed /\ reader.stopped # "error"
         /\ IsPrefix(framer.units, units) /\ IsPrefix(reader.units, units)
         /\ Bounds(Staged, partial, atEnd) = More => framer.units = units
         /\ reader.stopped = "end" => reader.units = units
  /\ IsPrefix(reader.units, Groups(Complete))
  /\ \A i \in 1 .. Len(framer.units) :
       LET from == FoldLeft(LAMBDA n, m : n + m, 0, SubSeq(framer.units, 1, i - 1))
           n == framer.units[i]
           groups == Groups(SubSeq(source, from + 1, from + n))
       IN groups = <<n>> \/ groups[Len(groups)] = 0
=============================================================================
