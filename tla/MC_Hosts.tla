------------------------------- MODULE MC_Hosts -------------------------------
(* One of what stands around a session, for TLC: an adapter, the readers of a  *)
(* stream, or the publication of finished files.                               *)
EXTENDS GstElement, CapiDecoder, WasmDecoder, UnitReaders, FilePublication

CONSTANTS u1, u2
VARIABLE host
allVars == <<host, gstVars, capiVars, wasmVars, readerVars, publicationVars>>

HostsInit ==
  /\ host \in {"gstreamer", "c", "browser", "file", "publication"}
  /\ GstInit /\ CapiInit /\ WasmInit /\ ReadersInit /\ PublicationInit
  /\ host # "gstreamer" => ~auto
  /\ host # "publication" =>
       kind = "single" /\ ~overwrite /\ \A n \in Names : ~Exists(Dest(n))

HostsNext ==
  /\ UNCHANGED host
  /\ \/ /\ host = "gstreamer" /\ GstNext
        /\ UNCHANGED <<capiVars, wasmVars, readerVars, publicationVars>>
     \/ /\ host = "c" /\ CapiNext
        /\ UNCHANGED <<gstVars, wasmVars, readerVars, publicationVars>>
     \/ /\ host = "browser" /\ WasmNext
        /\ UNCHANGED <<gstVars, capiVars, readerVars, publicationVars>>
     \/ /\ host = "file" /\ ReadersNext
        /\ UNCHANGED <<gstVars, capiVars, wasmVars, publicationVars>>
     \/ /\ host = "publication" /\ PublicationNext
        /\ UNCHANGED <<gstVars, capiVars, wasmVars, readerVars>>

HostsSpec == HostsInit /\ [][HostsNext]_allVars

\* Every adapter keeps its variables in their types, the browser's queue its bound, and
\* a publication takes the steps of its kind only.
HostsTypeOK ==
  GstTypeOK /\ CapiTypeOK /\ WasmTypeOK /\ ReadersTypeOK /\ PublicationTypeOK

TwoUpdates == {u1, u2}
TwoSplits == {<<3>>, <<1, 2>>}
ChunkSizes == {0, 1, 3}

Frame(t, n, b, c) == [type |-> t, id |-> n, blocks |-> b, convsync |-> c]

\* Long and short frames, of every type, and sets of two and of three blocks.
SomeFrames ==
  {Frame(t, 0, 6, FALSE) : t \in {"independent", "legacy", "converted", "dependent"}}
    \cup {Frame("independent", 1, 6, FALSE)}
    \cup {Frame("independent", 0, b, c) : b \in {2, 3}, c \in BOOLEAN}
    \cup {Frame("dependent", 0, 3, FALSE)}
=============================================================================
