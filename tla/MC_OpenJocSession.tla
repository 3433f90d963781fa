-------------------------- MODULE MC_OpenJocSession --------------------------
(* Small instances of OpenJocSession for TLC. *)
EXTENDS OpenJocSession

CONSTANTS r0, r1, f0, f1, c0, c1, b0, b1

AllModes == {"speaker", "binaural", "pull"}
OneMode == {"speaker"}
OneRate == {r0}
TwoRates == {r0, r1}
OneProfile == {f0}
TwoProfiles == {f0, f1}
OneCore == {c0}
TwoCores == {c0, c1}
OneBase == {b0}
TwoBases == {b0, b1}
NoStamps == {}
MCStamps == {0, 4}
MCMinPts == -2
=============================================================================
