----------------------------- MODULE CapiDecoder -----------------------------
(***************************************************************************)
(* The decoder handle of the C ABI (crates/openjoc-capi, lib.rs) over its  *)
(* session, and the handles of prepared orientation updates.  No unwinding *)
(* leaves a call: a panic is contained, poisons the decoder and is told as *)
(* REQUIRE_RESET.  A timestamp equal to OPENJOC_NO_PTS cannot be handed    *)
(* over, though its frame has been taken from the session by then.         *)
(*                                                                         *)
(* A PCM frame is its number since the last reset; the session itself is   *)
(* OpenJocSession, here the frames it has ready and how it ended.  Pointer *)
(* checks are left out: the host passes pointers it was given.             *)
(***************************************************************************)
EXTENDS Integers, Sequences

CONSTANTS
  Updates,    \* prepared orientation updates, each with its kernel set
  MaxFrames   \* bound: frames of a session between two resets

ASSUME MaxFramesAssumption == MaxFrames \in Nat

VARIABLES
  ready,     \* frames the session has ready, and whether NO_PTS is their timestamp
  closed,    \* the session is drained
  broken,    \* the session has a terminal error
  poisoned,  \* openjoc_decoder.poisoned
  last,      \* number of last_frame, 0 for none
  told,      \* the status of the last call
  made,      \* history: frames the session has made since the last reset
  handed,    \* history: frames handed to the host since then
  spoilt,    \* history: what went wrong since then: "session", "reserved", "panic"
  prepared,  \* history: updates prepared so far
  offered,   \* update handles the host has a pointer to
  filled,    \* handles whose update is Some
  returned,  \* retired handles the host has a pointer to
  retiredIn, \* retired_kernels of each handle
  engine,    \* kernel sets in the session
  freed      \* history: kernel sets dropped

sessionVars == <<ready, closed, broken, made>>
decoderVars == <<sessionVars, poisoned, last, told, handed, spoilt>>
updateVars == <<prepared, offered, filled, returned, retiredIn, engine, freed>>
capiVars == <<decoderVars, updateVars>>

\* openjoc_decoder_create
CapiInit ==
  /\ ready = <<>> /\ closed = FALSE /\ broken = FALSE /\ made = 0
  /\ poisoned = FALSE /\ last = 0 /\ told = "ok" /\ handed = <<>> /\ spoilt = {}
  /\ prepared = {} /\ offered = {} /\ filled = {} /\ returned = {} /\ freed = {}
  /\ retiredIn = [u \in Updates |-> {}] /\ engine = {}

-----------------------------------------------------------------------------
Tell(s) == told' = s

\* set_error
Spoil(s, cause) == Tell(s) /\ spoilt' = spoilt \cup {cause}

\* decoder_requires_reset: every call on a poisoned decoder but flush and reset.
RequireReset ==
  /\ poisoned
  /\ Tell("reset")
  /\ UNCHANGED <<sessionVars, poisoned, last, handed, spoilt, updateVars>>

\* panic_status: the session is left as the panic has left it.
Panic ==
  /\ poisoned' = TRUE
  /\ Spoil("reset", "panic")

SendPanics ==
  /\ ~poisoned
  /\ Panic
  /\ last' = 0
  /\ UNCHANGED <<sessionVars, handed, updateVars>>

DrainPanics ==
  /\ ~poisoned
  /\ Panic
  /\ UNCHANGED <<sessionVars, last, handed, updateVars>>

\* With or without the frame that the call was about to hand over.
ReceivePanics ==
  /\ ~poisoned
  /\ Panic
  /\ ready' \in {ready} \cup (IF ready = <<>> THEN {} ELSE {Tail(ready)})
  /\ UNCHANGED <<closed, broken, made, last, handed, updateVars>>

-----------------------------------------------------------------------------
Open == ~closed /\ ~broken

\* k more frames; some of them have the reserved timestamp.
Made(k) ==
  /\ made + k <= MaxFrames
  /\ made' = made + k
  /\ \E reserved \in SUBSET (made + 1 .. made + k) :
       ready' = ready \o [i \in 1 .. k |-> [n |-> made + i, reserved |-> made + i \in reserved]]

\* openjoc_decoder_send_packet: the session takes the packet and answers with a frame or none.
SendPacket ==
  /\ ~poisoned /\ Open /\ ready = <<>>
  /\ last' = 0
  /\ \E k \in 0 .. 1 : Made(k) /\ Tell(IF k = 0 THEN "more" ELSE "frame")
  /\ UNCHANGED <<closed, broken, poisoned, handed, spoilt, updateVars>>

\* The session has PCM that was not received.
SendPending ==
  /\ ~poisoned /\ Open /\ ready # <<>>
  /\ last' = 0
  /\ Tell("pending")
  /\ UNCHANGED <<sessionVars, poisoned, handed, spoilt, updateVars>>

\* The session refuses the packet; a frame that was due may be lost with it.
SendFails ==
  /\ ~poisoned /\ (ready = <<>> \/ ~Open)
  /\ last' = 0
  /\ made' \in (IF Open /\ made < MaxFrames THEN {made, made + 1} ELSE {made})
  /\ Spoil("error", "session")
  /\ UNCHANGED <<ready, closed, broken, poisoned, handed, updateVars>>

\* openjoc_decoder_drain
DrainDecoder ==
  /\ ~poisoned /\ ~broken
  /\ IF ready # <<>> THEN Tell("pending") /\ UNCHANGED sessionVars
     ELSE IF closed THEN Tell("end") /\ UNCHANGED sessionVars
     ELSE /\ \E k \in 0 .. 2 : Made(k) /\ Tell(IF k = 0 THEN "end" ELSE "frame")
          /\ closed' = TRUE /\ UNCHANGED broken
  /\ UNCHANGED <<poisoned, last, handed, spoilt, updateVars>>

\* fail_closed of the session: what was ready is gone.
SessionBreaks == ready' = <<>> /\ closed' = TRUE /\ broken' = TRUE /\ UNCHANGED made

\* A drain, or a receive that has to render first.
SessionFails ==
  /\ ~poisoned
  /\ SessionBreaks
  /\ Spoil("error", "session")
  /\ UNCHANGED <<poisoned, last, handed, updateVars>>

-----------------------------------------------------------------------------
StaysOpen == UNCHANGED poisoned  \* mutant: the decoder goes on after the frame it lost

FailsClosed == poisoned' = TRUE

\* openjoc_decoder_receive_frame
ReceiveFrame ==
  /\ ~poisoned /\ ready # <<>> /\ ~Head(ready).reserved
  /\ ready' = Tail(ready)
  /\ last' = Head(ready).n
  /\ handed' = Append(handed, Head(ready).n)
  /\ Tell("frame")
  /\ UNCHANGED <<closed, broken, made, poisoned, spoilt, updateVars>>

\* The timestamp is OPENJOC_NO_PTS.
ReceiveReserved ==
  /\ ~poisoned /\ ready # <<>> /\ Head(ready).reserved
  /\ ready' = Tail(ready)
  /\ last' = 0
  /\ FailsClosed
  /\ Spoil("error", "reserved")
  /\ UNCHANGED <<closed, broken, made, handed, updateVars>>

ReceiveNothing ==
  /\ ~poisoned /\ ready = <<>>
  /\ Tell(IF closed THEN "end" ELSE "more")
  /\ UNCHANGED <<sessionVars, poisoned, last, handed, spoilt, updateVars>>

\* pcm_frame.struct_size is too small: nothing is taken.
ReceiveTooSmall ==
  /\ ~poisoned
  /\ Tell("error")
  /\ UNCHANGED <<sessionVars, poisoned, last, handed, spoilt, updateVars>>

\* openjoc_decoder_flush and reset; the session may have dropped its kernel sets.
FlushDecoder ==
  /\ ready' = <<>> /\ closed' = FALSE /\ broken' = FALSE /\ made' = 0
  /\ poisoned' = FALSE /\ last' = 0 /\ Tell("ok")
  /\ handed' = <<>> /\ spoilt' = {}
  /\ engine' = {} /\ freed' = freed \cup engine
  /\ UNCHANGED <<prepared, offered, filled, returned, retiredIn>>

FlushFails ==
  /\ SessionBreaks
  /\ last' = 0
  /\ Spoil("error", "session")
  /\ UNCHANGED <<poisoned, handed, updateVars>>

FlushPanics ==
  /\ SessionBreaks
  /\ last' = 0
  /\ Panic
  /\ UNCHANGED <<handed, updateVars>>

-----------------------------------------------------------------------------
(***************************************************************************)
(* openjoc_listener_orientation_prepare runs on another thread with the    *)
(* preparer's handle; the decoder is not involved.                         *)
(***************************************************************************)
Prepare(u) ==
  /\ u \notin prepared
  /\ prepared' = prepared \cup {u}
  /\ offered' = offered \cup {u} /\ filled' = filled \cup {u}
  /\ UNCHANGED <<decoderVars, returned, retiredIn, engine, freed>>

StillOffered(u) == offered' = offered  \* mutant: *update is not set to NULL

TakenBack(u) == offered' = offered \ {u}

\* openjoc_decoder_apply_listener_orientation: the allocation comes back as a retired
\* handle, with the kernel sets that the session does not need any more.
ApplyUpdate(u) ==
  /\ ~poisoned /\ u \in offered /\ u \in filled
  /\ \E displaced \in SUBSET engine :
       /\ engine' = (engine \ displaced) \cup {u}
       /\ retiredIn' = [retiredIn EXCEPT ![u] = displaced]
  /\ filled' = filled \ {u}
  /\ TakenBack(u)
  /\ returned' = returned \cup {u}
  /\ Tell("ok")
  /\ UNCHANGED <<sessionVars, poisoned, last, handed, spoilt, prepared, freed>>

\* The session refuses the update (its epoch, its order, a stream that has ended), and
\* it is put back; or the handle is empty.
RefuseUpdate(u) ==
  /\ ~poisoned /\ u \in offered
  /\ Tell("error")
  /\ UNCHANGED <<sessionVars, poisoned, last, handed, spoilt, updateVars>>

\* The handle has lost its update, to the session or to the unwinding.
ApplyPanics(u) ==
  /\ ~poisoned /\ u \in offered /\ u \in filled
  /\ filled' = filled \ {u}
  /\ \/ engine' = engine \cup {u} /\ UNCHANGED freed
     \/ freed' = freed \cup {u} /\ UNCHANGED engine
  /\ Panic
  /\ UNCHANGED <<sessionVars, last, handed, prepared, offered, returned, retiredIn>>

\* openjoc_listener_orientation_update_destroy and _retired_destroy free the allocation
\* and what is in it.
Destroy(u) ==
  /\ \/ u \in offered /\ offered' = offered \ {u} /\ UNCHANGED returned
     \/ u \in returned /\ returned' = returned \ {u} /\ UNCHANGED offered
  /\ filled' = filled \ {u}
  /\ freed' = freed \cup retiredIn[u] \cup (filled \cap {u})
  /\ retiredIn' = [retiredIn EXCEPT ![u] = {}]
  /\ UNCHANGED <<decoderVars, prepared, engine>>

CapiNext ==
  \/ RequireReset
  \/ SendPacket \/ SendPending \/ SendFails \/ SendPanics
  \/ DrainDecoder \/ DrainPanics
  \/ SessionFails
  \/ ReceiveFrame \/ ReceiveReserved \/ ReceiveNothing \/ ReceiveTooSmall \/ ReceivePanics
  \/ FlushDecoder \/ FlushFails \/ FlushPanics
  \/ \E u \in Updates :
       Prepare(u) \/ ApplyUpdate(u) \/ RefuseUpdate(u) \/ ApplyPanics(u) \/ Destroy(u)

CapiSpec == CapiInit /\ [][CapiNext]_capiVars

-----------------------------------------------------------------------------
(* Properties *)

CapiTypeOK ==
  /\ ready \in Seq([n : 1 .. MaxFrames, reserved : BOOLEAN])
  /\ closed \in BOOLEAN /\ broken \in BOOLEAN /\ poisoned \in BOOLEAN
  /\ last \in 0 .. MaxFrames /\ made \in 0 .. MaxFrames
  /\ told \in {"ok", "more", "frame", "pending", "end", "error", "reset"}
  /\ handed \in Seq(1 .. MaxFrames)
  /\ spoilt \subseteq {"session", "reserved", "panic"}
  /\ offered \subseteq prepared /\ returned \subseteq prepared
  /\ filled \subseteq prepared /\ engine \subseteq prepared /\ freed \subseteq prepared
  /\ prepared \subseteq Updates /\ retiredIn \in [Updates -> SUBSET Updates]

\* Once a frame was taken that could not be handed over, or a call has panicked, the
\* decoder hands out nothing and ends nothing until a flush succeeds, so that the host
\* never goes on over a gap: unless the session itself has reported an error, it gets
\* frames in their order with none left out, and END_OF_STREAM only after the last.
PoisonFailsClosed ==
  /\ spoilt \cap {"reserved", "panic"} # {} => poisoned
  /\ "session" \notin spoilt => handed = [i \in 1 .. Len(handed) |-> i]
  /\ told = "end" /\ spoilt = {} => Len(handed) = made

\* A prepared kernel set is in one place at any time: in the update handle, in the
\* session, in one retired handle, or freed; also when an update is refused, retried or
\* superseded, after a panic and a reset.  The host never has two pointers to one
\* allocation, which it would free twice.
KernelsHaveOwner ==
  /\ offered \cap returned = {}
  /\ filled \subseteq offered
  /\ \A u \in prepared :
       LET owners == {h \in Updates : u \in retiredIn[h]} IN
       \/ u \in filled /\ u \notin engine \cup freed /\ owners = {}
       \/ u \in engine /\ u \notin filled \cup freed /\ owners = {}
       \/ u \in freed /\ u \notin filled \cup engine /\ owners = {}
       \/ u \notin filled \cup engine \cup freed /\ \E h \in returned : owners = {h}
=============================================================================
