--------------------------- MODULE MCManifestSync ---------------------------
(***************************************************************************)
(* Small instances of ManifestSync for TLC.                                *)
(***************************************************************************)
EXTENDS ManifestSync

CONSTANTS p1, p2

\* Space mode, and an output directory used for the space and for one page.
Space == [pages |-> {p1, p2}, roots |-> {}]
Page == [pages |-> {p1}, roots |-> {p1}]
WholeSpace == {Space}
PageAndSpace == {Page, Space}

LiveFlags == {{}, {"dry"}, {"refresh"}}
CleanupFlags == {{}, {"stale"}, {"orphans"}, {"stale", "orphans"}}
=============================================================================
