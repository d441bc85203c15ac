----------------------------- MODULE MCJobQueue -----------------------------
(* Small instances of JobQueue for TLC. *)
EXTENDS JobQueue, TLC

CONSTANTS j1, j2, j3, p1, e1, e2

\* Safety: two rows of one derive partition, one row of another kind, and two
\* executors that serve every kind.
MCPartitionOf == (j1 :> p1) @@ (j2 :> p1) @@ (j3 :> NoPartition)
MCLane == [e \in {e1, e2} |-> {j1, j2, j3}]
MCSymmetry == Permutations({j1, j2}) \cup Permutations({e1, e2})

\* Liveness: one row of each sort; the second executor serves one lane only.
LivePartitionOf == (j1 :> p1) @@ (j3 :> NoPartition)
LiveLane == (e1 :> {j1, j3}) @@ (e2 :> {j3})
=============================================================================
