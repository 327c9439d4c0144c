----------------------------- MODULE MCConfigRun -----------------------------
(***************************************************************************)
(* A small instance of ConfigRun for TLC: three runs, the first and the    *)
(* last of which write to one directory.                                   *)
(***************************************************************************)
EXTENDS ConfigRun

CONSTANTS d1, d2

ThreeRunDirs == <<d1, d2, d1>>
=============================================================================
