-------------------------- MODULE MCYouTubeProducer --------------------------
(***************************************************************************)
(* Small instances of YouTubeProducer for TLC.                             *)
(***************************************************************************)
EXTENDS YouTubeProducer, TLC

CONSTANTS v1, v2, s1, s2, st1, st2

\* Two checkpoint paths with an artifact directory each, or with the same one,
\* as chain.json and chain.bak have.
TwoStems == s1 :> st1 @@ s2 :> st2
OneStem == s1 :> st1 @@ s2 :> st1

\* The playlist as it is, in another order, and with all videos gone; windows
\* that the provider calls complete, and one that it does not.
Whole == [videos |-> <<v1, v2>>, exhausted |-> TRUE]
StableWindow == {Whole}
ChangingWindows == {Whole, [videos |-> <<v2, v1>>, exhausted |-> FALSE],
                           [videos |-> <<>>, exhausted |-> TRUE]}
OneVideoWindow == {[videos |-> <<v1>>, exhausted |-> TRUE]}

Symmetry == Permutations(RunIds) \cup Permutations(Dests)
                \cup Permutations(Contents) \cup Permutations(Producers)
=============================================================================
