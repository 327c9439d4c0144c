------------------------------ MODULE WriteOnce ------------------------------
(***************************************************************************)
(* What a reader of sealed source packages may rely on: a destination path *)
(* receives at most one package, whole, in one step, and keeps it.         *)
(* PackageSeal (one package written file by file) and YouTubeProducer (a   *)
(* chain of resumed runs) are shown to implement it.                       *)
(***************************************************************************)
CONSTANTS Dests,        \* destination paths
          Packages      \* packages a destination may hold

VARIABLE store          \* store[d]: the package at d, for the d's that hold one

TypeOK == /\ DOMAIN store \subseteq Dests
          /\ \A d \in DOMAIN store : store[d] \in Packages

Init == store = [d \in {} |-> {}]

\* Some package appears at d.  Which one is left to the implementation; it is
\* read off the next state because the set of packages is too large to list.
Publish(d) ==
    /\ d \notin DOMAIN store
    /\ DOMAIN store' = DOMAIN store \cup {d}
    /\ store'[d] \in Packages
    /\ \A e \in DOMAIN store : store'[e] = store[e]

Next == \E d \in Dests : Publish(d)

Spec == Init /\ [][Next]_store
=============================================================================
