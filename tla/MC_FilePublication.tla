------------------------- MODULE MC_FilePublication -------------------------
(* Small instances of FilePublication for TLC. *)
EXTENDS FilePublication
=============================================================================
