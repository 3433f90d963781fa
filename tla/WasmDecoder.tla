----------------------------- MODULE WasmDecoder -----------------------------
(***************************************************************************)
(* The browser decoder (crates/openjoc-wasm: lib.rs, the framer of         *)
(* stream.rs and the calls of ffi.rs).  The host pushes bytes or whole     *)
(* packets, exposes and consumes one PCM frame at a time, and flushes      *)
(* until the end of the stream is told.  A call works through the bytes    *)
(* until there is PCM; each round of that loop is an action.               *)
(*                                                                         *)
(* Bytes are counted in halves of an access unit: the framer sees that a   *)
(* unit is complete from the first half of the next one, or at the end.    *)
(* A PCM frame is its number since the last reset.  The session answers a  *)
(* unit late and with at most one frame: without pull blocks a push queues *)
(* one block, and a drain adds frames of its own (OpenJocSession,          *)
(* EmitUnit and DrainUnits).  One decoder is modelled; the table of        *)
(* handles is not.                                                         *)
(***************************************************************************)
EXTENDS Integers, Sequences

CONSTANTS
  MaxQueued,   \* MAX_QUEUED_PCM_FRAMES
  MaxPending,  \* MAX_PENDING_INPUT_BYTES, in halves of a unit
  Chunks,      \* sizes of the chunks a host pushes
  MaxTail,     \* frames a drain adds at most
  MaxDue       \* bound: frames of a segment

ASSUME WasmAssumption ==
  /\ MaxQueued \in Nat \ {0} /\ MaxPending \in Nat /\ Chunks \subseteq Nat
  /\ MaxTail \in Nat /\ MaxDue \in Nat

VARIABLES
  bytes,      \* framer.pending
  output,     \* output
  current,    \* current_pcm, 0 for none
  inputSeen,  \* input_seen
  ended,      \* end_of_stream
  lastError,  \* last_error is there
  held,       \* units in the session: 0 or 1
  running,    \* the call that is at work: "push", "flush" or "none"
  due,        \* history: frames the session has made since the last reset
  taken,      \* history: frames the host has consumed since then
  finished    \* history: a flush was answered with the end of the stream

wasmVars ==
  <<bytes, output, current, inputSeen, ended, lastError, held, running, due, taken, finished>>

WasmInit ==
  /\ bytes = 0 /\ output = <<>> /\ current = 0 /\ inputSeen = FALSE
  /\ ended = FALSE /\ lastError = FALSE /\ held = 0 /\ running = "none"
  /\ due = 0 /\ taken = <<>> /\ finished = FALSE

NoPcm == output = <<>> /\ current = 0
Accepts == running = "none" /\ ~ended /\ NoPcm

\* fail and mark_internal_failure
Fails == lastError' = TRUE /\ ended' = TRUE /\ running' = "none"

-----------------------------------------------------------------------------
Unbounded(made) == TRUE  \* mutant: the queue takes whatever the session has made

Fits(made) == Len(output) + made <= MaxQueued

\* collect_session_output: one frame too many is taken from the session and dropped.
Collect(made) ==
  /\ due + made <= MaxDue
  /\ due' = due + (IF Fits(made) THEN made ELSE MaxQueued - Len(output) + 1)
  /\ output' = output \o
       [i \in 1 .. (IF Fits(made) THEN made ELSE MaxQueued - Len(output)) |-> due + i]

\* decode_access_unit: the unit held comes out; a flagged packet has dropped it.
Decode(flagged) ==
  /\ Collect(IF flagged THEN 0 ELSE held)
  /\ held' = 1

\* push_bytes, up to pump
PushBytes(n) ==
  /\ Accepts
  /\ inputSeen' = (inputSeen \/ n > 0)
  /\ IF bytes + n > MaxPending
     THEN Fails /\ UNCHANGED bytes
     ELSE bytes' = bytes + n /\ running' = "push" /\ UNCHANGED <<ended, lastError>>
  /\ UNCHANGED <<output, current, held, due, taken, finished>>

PushPacket(flagged) ==
  /\ Accepts
  /\ inputSeen' = TRUE
  /\ Decode(flagged)
  /\ UNCHANGED <<bytes, current, ended, lastError, running, taken, finished>>

\* The packet is empty or too long, or the session refuses it.
RefusePacket ==
  /\ Accepts
  /\ inputSeen' \in {inputSeen, TRUE}
  /\ Fails
  /\ UNCHANGED <<bytes, output, current, held, due, taken, finished>>

-----------------------------------------------------------------------------
UnitEnd == IF running = "flush" THEN 2 ELSE 3

\* pump: a unit is complete; with PCM the call returns, else it goes on.
PumpUnit ==
  /\ running # "none" /\ bytes >= UnitEnd
  /\ bytes' = bytes - 2
  /\ Decode(FALSE)
  /\ running' = (IF output' = <<>> THEN running ELSE "none")
  /\ UNCHANGED <<current, inputSeen, ended, lastError, taken, finished>>

\* The unit is not well formed, or the session refuses it.
PumpFails ==
  /\ running # "none" /\ bytes > 0
  /\ bytes' \in {bytes} \cup (IF bytes >= UnitEnd THEN {bytes - 2} ELSE {})
  /\ Fails
  /\ UNCHANGED <<output, current, inputSeen, held, due, taken, finished>>

PumpMore ==
  /\ running = "push" /\ bytes < UnitEnd
  /\ running' = "none"
  /\ UNCHANGED <<bytes, output, current, inputSeen, ended, lastError, held, due, taken, finished>>

\* The framer is at its end: the session is drained, and the queue must hold it all.
PumpEnd(tail) ==
  /\ running = "flush" /\ bytes = 0
  /\ Collect(held + tail)
  /\ held' = 0
  /\ IF Fits(held + tail)
     THEN /\ ended' = TRUE /\ running' = "none"
          /\ finished' = (output' = <<>>)
          /\ UNCHANGED lastError
     ELSE Fails /\ UNCHANGED finished
  /\ UNCHANGED <<bytes, current, inputSeen, taken>>

DrainFails ==
  /\ running = "flush" /\ bytes = 0
  /\ Fails
  /\ held' = 0
  /\ UNCHANGED <<bytes, output, current, inputSeen, due, taken, finished>>

\* A trap that the call contains (guarded_status, flush).
Trap ==
  /\ running # "none"
  /\ Fails
  /\ UNCHANGED <<bytes, output, current, inputSeen, held, due, taken, finished>>

-----------------------------------------------------------------------------
\* receive_pcm of ffi.rs: the first frame is exposed until it is consumed.
Expose ==
  /\ running = "none" /\ current = 0 /\ output # <<>>
  /\ current' = Head(output) /\ output' = Tail(output)
  /\ UNCHANGED <<bytes, inputSeen, ended, lastError, held, running, due, taken, finished>>

Consume ==
  /\ running = "none" /\ current # 0
  /\ taken' = Append(taken, current)
  /\ current' = 0
  /\ UNCHANGED <<bytes, output, inputSeen, ended, lastError, held, running, due, finished>>

FlushStatus == output = <<>>  \* mutant: an error is not what the flush tells first

EndTold == output = <<>> /\ ~lastError

\* flush of a decoder that has ended
FlushEnded ==
  /\ running = "none" /\ ended
  /\ finished' = (finished \/ EndTold)
  /\ UNCHANGED <<bytes, output, current, inputSeen, ended, lastError, held, running, due, taken>>

\* flush, up to pump; it waits for the host to take the PCM there is
FlushInput ==
  /\ Accepts
  /\ IF inputSeen THEN running' = "flush" /\ UNCHANGED <<ended, lastError>> ELSE Fails
  /\ UNCHANGED <<bytes, output, current, inputSeen, held, due, taken, finished>>

\* reset
ResetWasm ==
  /\ running = "none"
  /\ bytes' = 0 /\ output' = <<>> /\ current' = 0 /\ inputSeen' = FALSE
  /\ ended' = FALSE /\ lastError' = FALSE /\ held' = 0
  /\ due' = 0 /\ taken' = <<>> /\ finished' = FALSE
  /\ UNCHANGED running

WasmNext ==
  \/ \E n \in Chunks : PushBytes(n)
  \/ \E flagged \in BOOLEAN : PushPacket(flagged)
  \/ RefusePacket
  \/ PumpUnit
  \/ PumpFails
  \/ PumpMore
  \/ \E tail \in 0 .. MaxTail : PumpEnd(tail)
  \/ DrainFails
  \/ Trap
  \/ Expose
  \/ Consume
  \/ FlushEnded
  \/ FlushInput
  \/ ResetWasm

WasmSpec == WasmInit /\ [][WasmNext]_wasmVars

-----------------------------------------------------------------------------
(* Properties *)

WasmTypeOK ==
  /\ bytes \in 0 .. MaxPending
  /\ output \in Seq(1 .. MaxDue + 1) /\ Len(output) <= MaxQueued
  /\ current \in 0 .. MaxDue + 1
  /\ inputSeen \in BOOLEAN /\ ended \in BOOLEAN /\ lastError \in BOOLEAN
  /\ held \in 0 .. 1 /\ running \in {"none", "push", "flush"}
  /\ due \in 0 .. MaxDue + 1 /\ taken \in Seq(1 .. MaxDue + 1) /\ finished \in BOOLEAN

\* The host gets the frames in the order the session made them, none left out; and when
\* a flush has told the end of the stream, no byte is left in the framer, no unit in the
\* session, and every frame was consumed but for one that may still be exposed.  A full
\* queue, a refused unit or a trap is never told as the end.
EndMeansAll ==
  /\ taken = [i \in 1 .. Len(taken) |-> i]
  /\ finished => /\ bytes = 0 /\ held = 0 /\ output = <<>>
                 /\ due = Len(taken) + (IF current = 0 THEN 0 ELSE 1)
=============================================================================
