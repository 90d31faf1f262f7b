----------------------------- MODULE MCFileLib -----------------------------
(***************************************************************************)
(* A file of five sectors, the last one half full, in three clusters of    *)
(* two: the first two lie together, the third elsewhere, and the cluster   *)
(* between belongs to another file.  Sectors of two bytes; unsigned longs  *)
(* wrap at 100.                                                            *)
(***************************************************************************)
EXTENDS FileLib, TLC

MCClusters == 2 .. 5
Scattered == (0 :> 2) @@ (1 :> 3) @@ (2 :> 5) @@ [k \in 0 .. FileLength |-> LAST]

MCOffsets == {-3, 0, 2, 7, 12}

\* Neighbouring sectors differ.
MCCard == [l \in 0 .. 7 |-> [b \in 0 .. 1 |-> (l \div 2 + l * b) % 2]]

=============================================================================
