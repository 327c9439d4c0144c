---------------------------- MODULE MCCommandLine ----------------------------
(* Instances for the model checker.                                        *)
EXTENDS CommandLine

CONSTANTS f, g, gh, docs, d1, d2

\* Commits that keep and drop a file.
SomeTracked == <<{f, g}, {g}>>

SomeFlags == {{"dry"}, {"stale"}, {"stale", "orphans"}}

\* Files x and x.md, and pages.
SomePaths == [a \in Adapters |-> IF a = "public" THEN <<"x", "y", "z">>
                                                 ELSE <<"x", "x", "y">>]
SomeSelections == {1..3}
SomePrunes == {{"dry"}, {"stale", "orphans"}}

\* The directories of an adapter with content hashes and of one without.
SomeInputs == {<<gh, docs>>, <<docs>>}
SomeOptions ==
    {[changed |-> FALSE, stale |-> "exclude", wanted |-> {1, 2}, limit |-> 0],
     [changed |-> TRUE, stale |-> "include", wanted |-> {1, 2}, limit |-> 3],
     [changed |-> FALSE, stale |-> "include", wanted |-> {1, 2}, limit |-> 3]}
SomeSizes == <<1, 2>>

\* Three runs, the first and the last of which write to one directory.
ThreeRunDirs == <<d1, d2, d1>>

\* What files of a package say, and the manifests of some: an honest one, one
\* of which two items claim an artifact, one that has an item twice, one with a
\* wrong count, one of a later contract, one without identities.
SomeSays ==
    [x \in Contents |-> [sound |-> TRUE,
                        outcome |-> CASE x \in {"done", "twice"} -> "completed"
                                      [] x = "failed" -> "failed"
                                      [] x = "body" -> "none",
                        refs |-> IF x \in {"done", "twice"} THEN {3} ELSE {}]]
Whole == Sealing(<<"done", "failed", "body">>, <<1, 2>>, 3)
SomeManifests ==
    [d \in Digests |->
        CASE d = "whole" -> Whole
          [] d = "shared" -> Sealing(<<"done", "twice", "body">>, <<1, 2>>, 0)
          [] d = "repeated" -> Sealing(<<"done", "absent", "body">>, <<1, 1>>, 0)
          [] d = "miscounted" -> [Whole EXCEPT !.counts["failed"] = 0]
          [] d = "later" -> [Whole EXCEPT !.readable = FALSE]
          [] d = "nameless" -> [Whole EXCEPT !.identified = FALSE]]
=============================================================================
