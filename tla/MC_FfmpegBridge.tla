--------------------------- MODULE MC_FfmpegBridge ---------------------------
(* Small instances of FfmpegBridge for TLC. *)
EXTENDS FfmpegBridge

BothModes == {"owned", "pull"}
Owned == {"owned"}
AllKinds == {"joc", "other", "invalid", "broken"}
OnlyJoc == {"joc"}
JocAndOther == {"joc", "other"}
OnTime == {0}
OnTimeOrNone == {None, 0}
OneLate == {None, 0, 1}
SampleBase == {[num |-> 1, den |-> 1]}
\* samples, and ticks of 64 kHz
MixedBases == SampleBase \cup {[num |-> 3, den |-> 4]}
=============================================================================
