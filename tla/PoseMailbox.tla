----------------------------- MODULE PoseMailbox -----------------------------
(***************************************************************************)
(* What DynamicBinauralRenderer promises its host about poses, with no     *)
(* kernel sets, samples or calls: one pose is heard, at most one waits,    *)
(* the newest offer takes the waiting place, a waiting pose starts only    *)
(* while the stream is open and no fade is under way, and every epoch      *)
(* begins afresh.                                                          *)
(***************************************************************************)
EXTENDS Naturals

CONSTANTS
  None,         \* no pose waits
  MaxSequence,  \* bound: largest sequence number
  MaxEpoch      \* largest stream epoch

VARIABLES
  epoch,    \* stream epoch
  open,     \* updates are accepted and may start
  heard,    \* sequence of the pose being heard
  fading,   \* it is still being faded in
  waiting,  \* sequence accepted and not yet heard, or None
  newest    \* latest accepted sequence

vars == <<epoch, open, heard, fading, waiting, newest>>

Init ==
  /\ epoch = 0 /\ open = TRUE
  /\ heard = 0 /\ fading = FALSE /\ waiting = None /\ newest = 0

\* The newest pose takes the waiting place.
Offer(s) ==
  /\ open /\ s > newest
  /\ waiting' = s /\ newest' = s
  /\ UNCHANGED <<epoch, open, heard, fading>>

\* The waiting pose starts, with or without a fade; the sample may be the
\* one that closes the stream.
Start ==
  /\ open /\ ~fading /\ waiting # None
  /\ heard' = waiting /\ waiting' = None
  /\ fading' \in BOOLEAN /\ open' \in BOOLEAN
  /\ UNCHANGED <<epoch, newest>>

EndFade ==
  /\ fading /\ fading' = FALSE
  /\ UNCHANGED <<epoch, open, heard, waiting, newest>>

\* A drain began, the output was not finite, or the epochs are used up.
Close ==
  /\ open /\ open' = FALSE
  /\ UNCHANGED <<epoch, heard, fading, waiting, newest>>

NextEpoch ==
  /\ epoch < MaxEpoch
  /\ epoch' = epoch + 1 /\ open' = TRUE
  /\ heard' = 0 /\ fading' = FALSE /\ waiting' = None /\ newest' = 0

Next ==
  \/ \E s \in 0 .. MaxSequence : Offer(s)
  \/ Start
  \/ EndFade
  \/ Close
  \/ NextEpoch

Spec == Init /\ [][Next]_vars

=============================================================================
