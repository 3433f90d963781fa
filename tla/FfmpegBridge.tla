---------------------------- MODULE FfmpegBridge ----------------------------
(***************************************************************************)
(* The packet bridge (crates/openjoc-ffmpeg, FfmpegDecoder), through which *)
(* the FFmpeg tools, the C stream ABI and the GStreamer element decode.    *)
(* Packets of any size are staged; a pump cuts access units out of the     *)
(* bytes, admits or refuses the stream by its first one, gives every unit  *)
(* a timestamp and pushes it into a session that is created on demand.     *)
(*                                                                         *)
(* A byte is its position in the programme: unit u occupies UnitBytes of   *)
(* them, enough that one byte of the next unit shows its header.  Time is  *)
(* counted in units.  The session is what OpenJocSession promises: a unit  *)
(* comes out one unit later, at the position it was decoded at; a unit     *)
(* pushed again does not follow itself and splices; a drained or failed    *)
(* session says so.                                                        *)
(*                                                                         *)
(* One caller at a time: a call is one action up to the loop of pump, one  *)
(* action per iteration, and one for the return.                           *)
(***************************************************************************)
EXTENDS Integers, Sequences

CONSTANTS
  None,        \* the absent value of an Option
  Modes,       \* "owned" queues of PCM, "pull" with listener orientation
  UnitBytes,   \* bytes of an access unit
  Pieces,      \* pull blocks of a unit
  TailPieces,  \* pull blocks of the binaural tail
  MaxUnits,    \* bound: units of the programme
  MaxPacket,   \* largest packet
  MaxStaging,  \* MAX_COMPRESSED_STAGING_BYTES
  Kinds,       \* what the units of a programme may be
  Offsets,     \* what packet timestamps are off by, in units, or None for no timestamp
  TimeBases,   \* time bases of the packets: a tick is num / den of the unit of time
  MaxPose,     \* bound: sequence numbers of the pose updates
  MaxEpoch,    \* largest stream epoch (u64::MAX)
  MaxPts,      \* largest timestamp (i64::MAX)
  MaxDecoded,  \* largest sample position of a session (u64::MAX)
  MaxSegment   \* bound: successful resets

ASSUME ConstantsAssumption ==
  /\ Modes \subseteq {"owned", "pull"}
  /\ UnitBytes \in Nat \ {0} /\ Pieces \in Nat \ {0} /\ TailPieces \in Nat
  /\ MaxUnits \in Nat \ {0} /\ MaxPacket \in Nat /\ MaxStaging \in Nat
  /\ Kinds \subseteq {"joc", "other", "invalid", "broken"}
  /\ Offsets \subseteq Int \cup {None}
  /\ TimeBases \subseteq [num : Nat \ {0}, den : Nat \ {0}]
  /\ MaxPose \in Nat /\ MaxEpoch \in Nat /\ MaxSegment \in Nat
  /\ MaxPts \in Nat /\ MaxDecoded \in Nat

VARIABLES
  mode,        \* orientation_pull_samples is there or not
  kinds,       \* input: what each unit of the programme is
  at,          \* input: the byte of the programme the host sends next
  bridge,      \* what every reset clears, see Bridges
  session,     \* session
  epoch,       \* orientation_stream_epoch
  accepted,    \* last_accepted_orientation_sequence
  pose,        \* pending_orientation_update
  poisoned,    \* poisoned
  call,        \* the call that is running
  outcome,     \* how its pump ended
  result,      \* what the last call returned
  segment,     \* history: successful resets
  start,       \* history: the first byte of the segment
  pushed,      \* history: units accepted by the session, with their timestamps
  received,    \* history: units received whole in this segment
  stamped,     \* history: the timestamps of this segment's packets and where they began
  failed       \* history: a call of this segment reported an error

orientation == <<epoch, accepted, pose>>
calling == <<call, outcome, result>>
history == <<segment, start, pushed, received, stamped, failed>>
vars == <<mode, kinds, at, bridge, session, orientation, poisoned, calling, history>>

Option(S) == S \cup {None}
Units == 0 .. MaxUnits - 1
Bytes == 0 .. MaxUnits * UnitBytes - 1
Frames == [segment : 0 .. MaxSegment, unit : Option(Units), piece : 1 .. Pieces + TailPieces]

Times == {n \in Int : n <= MaxPts}
Timelines == [kind : {"unset", "untimed"}, next : {0}] \cup [kind : {"timed"}, next : Times]

\* The packet boundaries in the staging; no two are at one offset, for no packet is empty.
Bridges == [
  staging : Seq(Bytes),
  boundaries : SUBSET [offset : Nat, stamp : Option(Int)],
  output : Seq(Frames),
  classification : {"unknown", "joc", "other", "invalid"},
  timeline : Timelines,
  drainRequested : BOOLEAN,
  sessionDrained : BOOLEAN]

Fresh == [
  staging |-> <<>>, boundaries |-> {}, output |-> <<>>, classification |-> "unknown",
  timeline |-> [kind |-> "unset", next |-> 0],
  drainRequested |-> FALSE, sessionDrained |-> FALSE]

\* The session: touched once a packet has set its sample rate; behind when the
\* renderer has missed a unit; accepted is the newest pose handed to it.
Sessions == [
  epoch : 0 .. MaxEpoch, accepted : 0 .. MaxPose,
  touched : BOOLEAN, origin : Option(Int), next : 0 .. MaxDecoded, behind : BOOLEAN,
  last : Option(Units), held : Option(Units),
  blocks : Seq(Frames), tail : 0 .. TailPieces,
  drained : BOOLEAN, closed : BOOLEAN]

Poses == [epoch : 0 .. MaxEpoch, sequence : 1 .. MaxPose]
Calls == {"send", "receive", "drain"}
Outcomes == {"idle", "frame", "notjoc", "eof", "error"}
Results == Outcomes \cup {"available", "wouldblock"}

ASSUME NoneAssumption == None \notin Int \cup Sessions \cup Poses \cup Calls \cup Results

NewSession(e, a) == [
  epoch |-> e, accepted |-> a, touched |-> FALSE, origin |-> None, next |-> 0,
  behind |-> FALSE, last |-> None, held |-> None, blocks |-> <<>>, tail |-> 0,
  drained |-> FALSE, closed |-> FALSE]

Closed(s) == [s EXCEPT !.blocks = <<>>, !.drained = TRUE, !.closed = TRUE]

Pull == mode = "pull"

Init ==
  /\ mode \in Modes
  /\ kinds \in [Units -> Kinds] /\ at \in {0, 1}
  /\ bridge = Fresh /\ session = None
  /\ epoch = 0 /\ accepted = 0 /\ pose = None /\ poisoned = FALSE
  /\ call = None /\ outcome = None /\ result = None
  /\ segment = 0 /\ start = at /\ pushed = <<>> /\ received = <<>>
  /\ stamped = {} /\ failed = FALSE

-----------------------------------------------------------------------------
(* flush, reset and try_reset *)

\* A pull bridge keeps its session and moves both to the next epoch.
ResetEngine ==
  \/ /\ Pull /\ epoch < MaxEpoch
     /\ epoch' = epoch + 1 /\ accepted' = 0 /\ pose' = None
     /\ session' = (IF session = None THEN None ELSE NewSession(epoch + 1, 0))
     /\ poisoned' = FALSE
  \/ /\ Pull /\ epoch = MaxEpoch
     /\ session' = (IF session = None THEN None ELSE Closed(session))
     /\ poisoned' = TRUE
     /\ UNCHANGED orientation
  \/ /\ ~Pull
     /\ session' = None /\ poisoned' = FALSE
     /\ UNCHANGED orientation

\* The host continues anywhere in the programme.
NewSegment ==
  /\ segment < MaxSegment /\ segment' = segment + 1
  /\ pushed' = <<>> /\ received' = <<>>

Flushed == Fresh

Flush ==
  /\ call = None
  /\ NewSegment
  /\ ResetEngine
  /\ bridge' = Flushed
  /\ at' \in Bytes /\ start' = at'
  /\ stamped' = {} /\ failed' = FALSE
  /\ UNCHANGED <<mode, kinds, calling>>

-----------------------------------------------------------------------------
(* send_packet up to the pump *)

PendingInput == Pull /\ session # None /\ session.blocks # <<>>

\* A poisoned bridge answers nothing until it is reset.
RefusePoisoned ==
  /\ call = None /\ poisoned
  /\ result' = "error" /\ failed' = TRUE
  /\ UNCHANGED <<mode, kinds, at, bridge, session, orientation, poisoned, call, outcome,
                 segment, start, pushed, received, stamped>>

SendGuards(r) ==
  \/ bridge.drainRequested /\ r = "error"
  \/ ~bridge.drainRequested /\ bridge.classification = "other" /\ r = "notjoc"
  \/ /\ ~bridge.drainRequested /\ bridge.classification # "other"
     /\ bridge.output # <<>> \/ PendingInput
     /\ r = "wouldblock"

RefuseSend ==
  /\ call = None /\ ~poisoned
  /\ \E r \in {"error", "notjoc", "wouldblock"} : SendGuards(r) /\ result' = r
  /\ UNCHANGED <<mode, kinds, at, bridge, session, orientation, poisoned, call, outcome, history>>

MaySend ==
  /\ call = None /\ ~poisoned
  /\ ~bridge.drainRequested /\ bridge.classification # "other"
  /\ bridge.output = <<>> /\ ~PendingInput

AnyRoom(n) == TRUE  \* mutant: the staging has no bound

Room(n) == n <= MaxStaging

Staged(b, bytes, stamp) ==
  [b EXCEPT !.boundaries = @ \cup {[offset |-> Len(b.staging), stamp |-> stamp]},
            !.staging = @ \o bytes]

\* The tick a host writes for time t: the nearest of its time base.
Tick(t, base) == (2 * t * base.den + base.num) \div (2 * base.num)

Magnitude(n) == IF n < 0 THEN -n ELSE n

\* mutant: the remainder is dropped
Truncated(value, base) ==
  LET numerator == value * base.num
      cut == Magnitude(numerator) \div base.den
  IN  IF numerator < 0 THEN -cut ELSE cut

\* rescale_q_checked: to the nearest, halves away from zero.
Rescaled(value, base) ==
  LET numerator == value * base.num
      cut == Magnitude(numerator) \div base.den
      rest == Magnitude(numerator) % base.den
      rounded == IF 2 * rest >= base.den THEN cut + 1 ELSE cut
  IN  IF numerator < 0 THEN -rounded ELSE rounded

\* n bytes of the programme, from byte m on
Packet(m, n) == [i \in 1 .. n |-> m + i - 1]
TimeAt(m, w) == m \div UnitBytes + w
StampsAt(m, w) == IF w = None THEN {} ELSE {[byte |-> m, stamp |-> TimeAt(m, w)]}

\* The timestamp as the bridge reads it from ticks
PacketStamp(m, w, base) ==
  IF w = None THEN None ELSE Rescaled(Tick(TimeAt(m, w), base), base)

Send(n, w, base) ==
  /\ MaySend
  /\ at + n <= MaxUnits * UnitBytes
  /\ Room(Len(bridge.staging) + n)
  /\ bridge' = Staged(bridge, Packet(at, n), PacketStamp(at, w, base))
  /\ at' = at + n
  /\ call' = "send"
  /\ stamped' = stamped \cup StampsAt(at, w)
  /\ UNCHANGED <<mode, kinds, session, orientation, poisoned, outcome, result,
                 segment, start, pushed, received, failed>>

\* Too many bytes, or a packet that is empty, whose time base is not valid, or whose
\* timestamp does not fit in an i64 once rescaled.
RefusePacket ==
  /\ MaySend
  /\ result' = "error" /\ failed' = TRUE
  /\ UNCHANGED <<mode, kinds, at, bridge, session, orientation, poisoned, call, outcome,
                 segment, start, pushed, received, stamped>>

\* A flagged packet resets first; the packet itself may still be refused.
SendDiscontinuity(m, n, w, base) ==
  /\ MaySend
  /\ m + n <= MaxUnits * UnitBytes
  /\ NewSegment
  /\ ResetEngine
  /\ start' = m
  /\ \/ /\ ~poisoned' /\ Room(n)
        /\ bridge' = Staged(Fresh, Packet(m, n), PacketStamp(m, w, base))
        /\ at' = m + n
        /\ call' = "send" /\ UNCHANGED <<outcome, result>>
        /\ stamped' = StampsAt(m, w) /\ failed' = FALSE
     \/ /\ bridge' = Fresh
        /\ at' = m
        /\ result' = "error" /\ UNCHANGED <<call, outcome>>
        /\ stamped' = {} /\ failed' = TRUE
  /\ UNCHANGED <<mode, kinds>>

-----------------------------------------------------------------------------
(* receive_frame and drain up to the pump *)

IsLast(f) == f.unit # None /\ f.piece = (IF Pull THEN Pieces ELSE 1)

Receives(f) == received' = (IF IsLast(f) THEN Append(received, f.unit) ELSE received)

ReceiveQueued ==
  /\ call = None /\ ~poisoned
  /\ bridge.output # <<>>
  /\ Receives(Head(bridge.output))
  /\ bridge' = [bridge EXCEPT !.output = Tail(@)]
  /\ result' = "frame"
  /\ UNCHANGED <<mode, kinds, at, session, orientation, poisoned, call, outcome,
                 segment, start, pushed, stamped, failed>>

Receive ==
  /\ call = None /\ ~poisoned
  /\ bridge.output = <<>>
  /\ call' = "receive"
  /\ UNCHANGED <<mode, kinds, at, bridge, session, orientation, poisoned, outcome, result, history>>

Drain ==
  /\ call = None /\ ~poisoned
  /\ bridge' = [bridge EXCEPT !.drainRequested = TRUE]
  /\ IF bridge.output # <<>>
       THEN result' = "wouldblock" /\ UNCHANGED call
       ELSE call' = "drain" /\ UNCHANGED result
  /\ UNCHANGED <<mode, kinds, at, session, orientation, poisoned, outcome, history>>

-----------------------------------------------------------------------------
(***************************************************************************)
(* pump.  First the block a pull session waits with, then the bytes        *)
(* staged, then the drain of the session.                                  *)
(***************************************************************************)
Pumping == call # None /\ outcome = None

Ends(o) == outcome' = o /\ UNCHANGED <<call, result>>
Fails == Ends("error") /\ failed' = TRUE

\* pull_one_binaural_frame of a block that waits
DeliversBlock ==
  /\ bridge' = [bridge EXCEPT !.output = Append(@, Head(session.blocks))]
  /\ session' = [session EXCEPT !.blocks = Tail(@), !.tail = TailPieces]

PumpPending ==
  /\ Pumping /\ PendingInput
  /\ bridge.classification # "other"
  /\ \/ DeliversBlock /\ Ends("frame") /\ UNCHANGED failed
     \/ session' = Closed(session) /\ UNCHANGED bridge /\ Fails
  /\ UNCHANGED <<mode, kinds, at, orientation, poisoned,
                 segment, start, pushed, received, stamped>>

NotJoc ==
  /\ Pumping /\ bridge.classification = "other"
  /\ Ends("notjoc")
  /\ UNCHANGED <<mode, kinds, at, bridge, session, orientation, poisoned, history>>

Assembling ==
  Pumping /\ ~PendingInput /\ bridge.classification # "other" /\ bridge.staging # <<>>

Aligned == Head(bridge.staging) % UnitBytes = 0
Unit == Head(bridge.staging) \div UnitBytes

\* parse_access_unit_bounds: the next header or the end of the stream closes a unit.
Complete ==
  Aligned /\ (Len(bridge.staging) > UnitBytes
                \/ (bridge.drainRequested /\ Len(bridge.staging) = UnitBytes))

\* Bad sync, or a partial unit at the end.
Broken == ~Aligned \/ (bridge.drainRequested /\ Len(bridge.staging) < UnitBytes)

NeedMore ==
  /\ Assembling /\ ~Complete /\ ~Broken
  /\ Ends("idle")
  /\ UNCHANGED <<mode, kinds, at, bridge, session, orientation, poisoned, history>>

RefuseBytes ==
  /\ Assembling
  /\ \/ Broken /\ UNCHANGED bridge
     \/ Complete /\ kinds[Unit] = "broken" /\ UNCHANGED bridge
     \/ /\ Complete /\ kinds[Unit] = "invalid"
        /\ bridge' = [bridge EXCEPT !.classification = "invalid"]
  /\ Fails
  /\ UNCHANGED <<mode, kinds, at, session, orientation, poisoned,
                 segment, start, pushed, received, stamped>>

-----------------------------------------------------------------------------
(* resolve_timestamp of the unit at the front of the staging *)

Explicit ==
  LET front == {b \in bridge.boundaries : b.offset = 0} IN
  IF front = {} THEN None ELSE (CHOOSE b \in front : TRUE).stamp

Pts ==
  IF Explicit # None THEN Explicit
  ELSE IF bridge.timeline.kind = "timed" THEN bridge.timeline.next ELSE None

AnyMiddle == TRUE  \* mutant: stamps inside a unit are not compared

\* A packet that begins inside the unit may only repeat its time.
MiddleAgrees ==
  \A b \in bridge.boundaries :
    0 < b.offset /\ b.offset < UnitBytes /\ b.stamp # None => b.stamp = Pts

\* The stamps agree, and the unit ends before the end of the clock.
StampAgrees ==
  /\ Pts # None => Pts + 1 <= MaxPts
  /\ Explicit # None =>
       CASE bridge.timeline.kind = "unset"   -> TRUE
         [] bridge.timeline.kind = "timed"   -> Explicit = bridge.timeline.next
         [] bridge.timeline.kind = "untimed" -> FALSE
  /\ MiddleAgrees

NextTimeline ==
  IF Pts = None THEN [kind |-> "untimed", next |-> 0] ELSE [kind |-> "timed", next |-> Pts + 1]

Shifted(bs) == {[b EXCEPT !.offset = @ - UnitBytes] : b \in {c \in bs : c.offset >= UnitBytes}}

Consumed(b) ==
  [b EXCEPT !.staging = SubSeq(@, UnitBytes + 1, Len(@)),
            !.boundaries = Shifted(@)]

Admitted(b) == [b EXCEPT !.classification = IF @ = "unknown" THEN "joc" ELSE @]

RefuseStamp ==
  /\ Assembling /\ Complete /\ ~StampAgrees
  /\ \/ kinds[Unit] = "joc" /\ bridge' = Admitted(bridge)
     \/ kinds[Unit] = "other" /\ bridge.classification # "joc" /\ UNCHANGED bridge
  /\ Fails
  /\ UNCHANGED <<mode, kinds, at, session, orientation, poisoned,
                 segment, start, pushed, received, stamped>>

\* A unit without JOC: the stream is not ours, unless it has been admitted.
RouteAway ==
  /\ Assembling /\ Complete /\ StampAgrees
  /\ kinds[Unit] = "other" /\ bridge.classification # "joc"
  /\ bridge' = [bridge EXCEPT !.classification = "other", !.timeline = NextTimeline,
                              !.staging = <<>>, !.boundaries = {}]
  /\ Ends("notjoc")
  /\ UNCHANGED <<mode, kinds, at, session, orientation, poisoned, history>>

LoseJoc ==
  /\ Assembling /\ Complete
  /\ kinds[Unit] = "other" /\ bridge.classification = "joc"
  /\ bridge' = [bridge EXCEPT !.classification = "invalid"]
  /\ Fails
  /\ UNCHANGED <<mode, kinds, at, session, orientation, poisoned,
                 segment, start, pushed, received, stamped>>

-----------------------------------------------------------------------------
(***************************************************************************)
(* The session takes the unit, or refuses it at one of its stages; the     *)
(* bytes leave the staging only when it has taken it.                      *)
(***************************************************************************)
Pushing ==
  Assembling /\ Complete /\ StampAgrees /\ kinds[Unit] = "joc"

PoseForgotten == 0  \* mutant: the pose accepted before the session is dropped

PoseHanded == IF pose = None THEN 0 ELSE pose.sequence

\* A new session starts in the bridge's epoch with the pose that waited for it.
Target == IF session = None THEN NewSession(epoch, PoseHanded) ELSE session

Anchored(s) ==
  IF Pts = None \/ s.origin # None THEN s ELSE [s EXCEPT !.origin = Pts - s.next]

Fits(s) == ~s.closed /\ (Pts # None /\ s.origin # None => Pts = s.origin + s.next)

\* What the session decodes, if nothing of the unit itself is refused.
Decodes(s) == Fits(s) /\ s.next < MaxDecoded

\* A unit that does not follow the last one restarts the reconstruction.
Taken(s) ==
  LET a == [Anchored(s) EXCEPT !.touched = TRUE, !.next = @ + 1, !.last = Unit]
  IN  IF s.last # None /\ Unit # s.last + 1 THEN [a EXCEPT !.held = None] ELSE a

FramesOf(u) ==
  IF u = None THEN <<>>
  ELSE [i \in 1 .. (IF Pull THEN Pieces ELSE 1) |-> [segment |-> segment, unit |-> u, piece |-> i]]

PushCommon ==
  /\ pose' = None
  /\ UNCHANGED <<mode, kinds, at, epoch, accepted, poisoned, segment, start, received, stamped>>

Resolved == [Admitted(bridge) EXCEPT !.timeline = NextTimeline]

\* The session cannot be created, or refuses the pose that waited for it.
CreateFails ==
  /\ Pushing /\ session = None
  /\ bridge' = Resolved
  /\ Fails
  /\ UNCHANGED <<mode, kinds, at, session, orientation, poisoned,
                 segment, start, pushed, received, stamped>>

\* Refused before it is decoded; a session that has failed refuses everything.
PushRefused ==
  /\ Pushing
  /\ \/ session' = Target
     \/ Fits(Target) /\ session' = Anchored(Target)
     \/ Fits(Target) /\ session' = [Anchored(Target) EXCEPT !.touched = TRUE]
  /\ bridge' = Resolved
  /\ Fails /\ PushCommon /\ UNCHANGED pushed

\* Decoded, then refused before the renderer has queued it.
PushMissed ==
  /\ Pushing /\ Decodes(Target)
  /\ session' = [Taken(Target) EXCEPT !.behind = TRUE]
  /\ bridge' = Resolved
  /\ Fails /\ PushCommon /\ UNCHANGED pushed

\* Queued, then refused: the topology or the render of the unit before fails.
PushLate ==
  /\ Pushing /\ Decodes(Target) /\ ~Target.behind
  /\ session' = [Taken(Target) EXCEPT !.held = Unit]
  /\ bridge' = Resolved
  /\ Fails /\ PushCommon /\ UNCHANGED pushed

ConsumedWhole(b) == [b EXCEPT !.staging = <<>>, !.boundaries = {}]  \* mutant: all bytes go

TakeBytes(b) == Consumed(b)

AfterPush(frames) == IF frames # <<>> THEN Ends("frame") ELSE UNCHANGED calling

PushUnit ==
  LET frames == FramesOf(Taken(Target).held)
      b == TakeBytes(Resolved)
  IN /\ Pushing /\ Decodes(Target) /\ ~Target.behind
     /\ session' = [Taken(Target) EXCEPT !.held = Unit, !.blocks = IF Pull THEN frames ELSE <<>>]
     /\ bridge' = (IF Pull THEN b ELSE [b EXCEPT !.output = @ \o frames])
     /\ AfterPush(frames)
     /\ pushed' = Append(pushed, [unit |-> Unit, pts |-> Pts])
     /\ UNCHANGED failed /\ PushCommon

-----------------------------------------------------------------------------
(* The end of the stream *)

\* mutant: the session is drained while bytes are staged
EmptiedEarly == Pumping /\ ~PendingInput /\ bridge.classification # "other"

Emptied ==
  Pumping /\ ~PendingInput /\ bridge.classification # "other" /\ bridge.staging = <<>>

Idle ==
  /\ Emptied /\ ~bridge.drainRequested
  /\ Ends("idle")
  /\ UNCHANGED <<mode, kinds, at, bridge, session, orientation, poisoned, history>>

EndAgain ==
  /\ Emptied /\ bridge.drainRequested
  /\ bridge.sessionDrained \/ session = None
  /\ bridge' = [bridge EXCEPT !.sessionDrained = TRUE]
  /\ Ends("eof")
  /\ UNCHANGED <<mode, kinds, at, session, orientation, poisoned, history>>

Draining ==
  Emptied /\ bridge.drainRequested /\ ~bridge.sessionDrained /\ session # None

\* The session has failed, fails now, or was touched but decoded nothing.
FailDrain ==
  /\ Draining
  /\ session' = Closed(session)
  /\ UNCHANGED bridge /\ Fails
  /\ UNCHANGED <<mode, kinds, at, orientation, poisoned,
                 segment, start, pushed, received, stamped>>

MayDrain == Draining /\ ~session.closed /\ (session.touched /\ ~session.drained => session.next > 0)

TailFrame(i) == [segment |-> segment, unit |-> None, piece |-> i]

DrainOwned ==
  LET frames == FramesOf(session.held) \o
                  (IF session.next > 0 /\ TailPieces > 0 THEN <<TailFrame(1)>> ELSE <<>>)
  IN /\ MayDrain /\ ~Pull
     /\ session' = [session EXCEPT !.drained = TRUE, !.held = None]
     /\ bridge' = [bridge EXCEPT !.output = @ \o frames, !.sessionDrained = TRUE]
     /\ Ends(IF frames = <<>> THEN "eof" ELSE "frame")
     /\ UNCHANGED <<mode, kinds, at, orientation, poisoned, history>>

EofForgotten(b) == b  \* mutant: the end of the session is not recorded

EofReached(b) == [b EXCEPT !.sessionDrained = TRUE]

\* A pull session gives one block for a call, then its tail, then its end.
DrainPull ==
  LET blocks == FramesOf(session.held)
      s == [session EXCEPT !.drained = TRUE, !.held = None]
  IN /\ MayDrain /\ Pull
     /\ \/ /\ blocks # <<>>
           /\ session' = [s EXCEPT !.blocks = Tail(blocks), !.tail = TailPieces]
           /\ bridge' = [bridge EXCEPT !.output = Append(@, Head(blocks))]
           /\ Ends("frame")
        \/ /\ blocks = <<>> /\ s.tail > 0
           /\ session' = [s EXCEPT !.tail = @ - 1]
           /\ bridge' = [bridge EXCEPT !.output = Append(@, TailFrame(Pieces + s.tail))]
           /\ Ends("frame")
        \/ /\ blocks = <<>> /\ s.tail = 0
           /\ session' = s
           /\ bridge' = EofReached(bridge)
           /\ Ends(IF bridge'.sessionDrained THEN "eof" ELSE "idle")
     /\ UNCHANGED <<mode, kinds, at, orientation, poisoned, history>>

-----------------------------------------------------------------------------
(* The return of a call *)

Returns(r) == call' = None /\ outcome' = None /\ result' = r

ReturnStatus ==
  /\ call # None /\ outcome # None
  /\ ~(call = "receive" /\ outcome = "frame")
  /\ Returns(IF outcome = "frame" THEN "available" ELSE outcome)
  /\ UNCHANGED <<mode, kinds, at, bridge, session, orientation, poisoned, history>>

ReturnFrame ==
  /\ call = "receive" /\ outcome = "frame"
  /\ \/ /\ bridge.output # <<>>
        /\ Receives(Head(bridge.output))
        /\ bridge' = [bridge EXCEPT !.output = Tail(@)]
        /\ Returns("frame") /\ UNCHANGED <<session, failed>>
     \* the pump has pushed a unit whose first block must still be pulled
     \/ /\ bridge.output = <<>> /\ PendingInput
        /\ Receives(Head(session.blocks))
        /\ session' = [session EXCEPT !.blocks = Tail(@), !.tail = TailPieces]
        /\ Returns("frame") /\ UNCHANGED <<bridge, failed>>
     \/ /\ bridge.output = <<>> /\ PendingInput
        /\ session' = Closed(session)
        /\ Returns("error") /\ failed' = TRUE /\ UNCHANGED <<bridge, received>>
  /\ UNCHANGED <<mode, kinds, at, orientation, poisoned, segment, start, pushed, stamped>>

\* guard catches a panic anywhere in a call and poisons the bridge.
Panic ==
  /\ call # None
  /\ poisoned' = TRUE
  /\ Returns("error") /\ failed' = TRUE
  /\ UNCHANGED <<mode, kinds, at, bridge, session, orientation,
                 segment, start, pushed, received, stamped>>

\* poison_after_outer_panic: the ABI around the bridge caught one.
OuterPanic ==
  /\ call = None
  /\ poisoned' = TRUE
  /\ UNCHANGED <<mode, kinds, at, bridge, session, orientation, calling, history>>

-----------------------------------------------------------------------------
(* apply_prepared_listener_orientation of a pull bridge *)

Current(u) == u.epoch = epoch

ApplyPose(u) ==
  /\ call = None /\ Pull /\ ~poisoned
  /\ ~bridge.drainRequested /\ ~bridge.sessionDrained
  /\ Current(u) /\ u.sequence > accepted
  /\ accepted' = u.sequence
  /\ IF session = None
       THEN pose' = u /\ UNCHANGED session
       ELSE /\ ~session.closed
            /\ session' = [session EXCEPT !.accepted = u.sequence]
            /\ UNCHANGED pose
  /\ UNCHANGED <<mode, kinds, at, bridge, epoch, poisoned, calling, history>>

-----------------------------------------------------------------------------
Pump ==
  \/ PumpPending \/ NotJoc \/ NeedMore \/ RefuseBytes
  \/ RefuseStamp \/ RouteAway \/ LoseJoc
  \/ CreateFails \/ PushRefused \/ PushMissed \/ PushLate \/ PushUnit
  \/ Idle \/ EndAgain \/ FailDrain \/ DrainOwned \/ DrainPull

Return == ReturnStatus \/ ReturnFrame

Next ==
  \/ Flush
  \/ RefusePoisoned
  \/ RefuseSend
  \/ RefusePacket
  \/ \E n \in 1 .. MaxPacket, w \in Offsets, base \in TimeBases : Send(n, w, base)
  \/ \E m \in Bytes, n \in 1 .. MaxPacket, w \in Offsets, base \in TimeBases :
       SendDiscontinuity(m, n, w, base)
  \/ ReceiveQueued
  \/ Receive
  \/ Drain
  \/ Pump
  \/ Return
  \/ Panic
  \/ OuterPanic
  \/ \E e \in 0 .. MaxEpoch, n \in 1 .. MaxPose : ApplyPose([epoch |-> e, sequence |-> n])

Spec == Init /\ [][Next]_vars

\* A call that has begun runs to its end, and a host that has drained keeps receiving.
FairSpec == Spec /\ WF_vars(Pump \/ Return) /\ WF_vars(ReceiveQueued \/ Receive \/ RefusePoisoned)

-----------------------------------------------------------------------------
(* Properties *)

\* Every variable keeps its type; the staging stays within its bound, and so do
\* the epochs: the step past the last one poisons the bridge (reset_inner).
TypeOK ==
  /\ mode \in Modes
  /\ bridge \in Bridges /\ Len(bridge.staging) <= MaxStaging
  /\ session \in Option(Sessions)
  /\ epoch \in 0 .. MaxEpoch /\ accepted \in 0 .. MaxPose
  /\ pose \in Option(Poses)
  /\ poisoned \in BOOLEAN
  /\ call \in Option(Calls)
  /\ outcome \in Option(Outcomes)
  /\ result \in Option(Results)

\* The units the session has taken, then the bytes staged, are the bytes sent since
\* the last reset: no unit is dropped, torn or taken twice, whatever the packets
\* cut and whatever was refused; and no PCM of before a reset, or of a call that
\* panicked, is found after it.
UnitsInOrder ==
  /\ bridge.classification # "other" =>
       LET first == start + UnitBytes * Len(pushed) IN
       /\ bridge.staging = Packet(first, at - first)
       /\ \A i \in 1 .. Len(pushed) : pushed[i].unit = start \div UnitBytes + i - 1
  /\ \A i \in 1 .. Len(bridge.output) : bridge.output[i].segment = segment
  /\ session # None =>
       \A i \in 1 .. Len(session.blocks) : session.blocks[i].segment = segment

\* The times of the units taken run on without a jump, all timed or all untimed.
UnitKeepsItsTime ==
  \A i, j \in 1 .. Len(pushed) :
    IF pushed[i].pts = None THEN pushed[j].pts = None
    ELSE pushed[j].pts # None /\ pushed[j].pts - pushed[i].pts = j - i

\* A unit in which a stamped packet began is taken at the time the host meant, whatever
\* the time base it wrote it in, as long as a tick is no longer than a sample; and
\* until a call has reported an error, the times of the units run on.
StampsHonoured ==
  /\ \A p \in stamped, i \in 1 .. Len(pushed) :
       pushed[i].unit = p.byte \div UnitBytes => pushed[i].pts = p.stamp
  /\ ~failed => UnitKeepsItsTime

\* The newest pose accepted in this epoch is with the session, or waits for one:
\* creating the session late loses none, and bridge and session agree on the epoch.
PoseKept ==
  IF session = None
    THEN IF accepted = 0 THEN pose = None
         ELSE pose = [epoch |-> epoch, sequence |-> accepted]
    ELSE session.epoch = epoch /\ session.accepted = accepted /\ pose = None

\* The end of the stream is reported when nothing is staged or queued; and when no
\* call has failed, every unit sent has been taken and received whole.
EofMeansAll ==
  result = "eof" /\ call = None =>
    /\ bridge.staging = <<>> /\ bridge.output = <<>>
    /\ ~failed => received = [i \in 1 .. Len(pushed) |-> pushed[i].unit]
                  /\ at = start + UnitBytes * Len(pushed)

\* A stream that is routed away as not JOC has had no unit decoded.
NonJocDecodesNothing == bridge.classification = "other" => pushed = <<>>

\* After a drain a host that keeps receiving is told the end, an error, or that the
\* stream is not JOC; unless it resets.
DrainEnds ==
  bridge.drainRequested ~> (result \in {"eof", "error", "notjoc"} \/ ~bridge.drainRequested)
=============================================================================
