---------------------------- MODULE MCFatAccess ----------------------------
(***************************************************************************)
(* A card whose root and one sub-directory are longer than a cluster, and  *)
(* a cache of two entries, around which a chain of four clusters wraps.    *)
(* Clusters of two sectors, sectors of two records.                        *)
(***************************************************************************)
EXTENDS FatAccess, TLC

MCClusters == 2 .. 9
MCFat == (2 :> 4) @@ (6 :> 5) @@ (5 :> 7) @@ (7 :> 8)
         @@ [c \in MCClusters |-> LAST]
MCNames == {"cfg", "a", "b", "c", "d", "none"}

MCChain == [c \in MCClusters \cup {LAST} |->
  LET at[k \in 0 .. MaxChain] ==
        IF k = 0 THEN c ELSE IF at[k - 1] = LAST THEN LAST ELSE MCFat[at[k - 1]]
  IN at]

file(n) == [kind |-> "entry", name |-> n, is_dir |-> FALSE, cluster |-> 9]
folder(n, c) == [kind |-> "entry", name |-> n, is_dir |-> TRUE, cluster |-> c]
skip == [kind |-> "skip", name |-> "none", is_dir |-> FALSE, cluster |-> 9]
blank == [kind |-> "blank", name |-> "none", is_dir |-> FALSE, cluster |-> 9]

\* A cluster's two sectors of two records.
sectors(p, q, r, s) == (0 :> ((0 :> p) @@ (1 :> q))) @@ (1 :> ((0 :> r) @@ (1 :> s)))

\* The root is 2, 4; b is 3; c, in the second cluster of the root, is
\* 6, 5, 7, 8 and fills its last cluster; d, in the third cluster of c, is 9.
MCCard ==
  (2 :> sectors(skip, file("a"), folder("b", 3), skip))
  @@ (4 :> sectors(folder("c", 6), file("cfg"), blank, blank))
  @@ (3 :> sectors(skip, skip, file("c"), file("cfg")))
  @@ (6 :> sectors(file("a"), skip, skip, skip))
  @@ (5 :> sectors(skip, skip, file("b"), skip))
  @@ (7 :> sectors(skip, folder("d", 9), skip, file("none")))
  @@ (8 :> sectors(file("c"), skip, skip, skip))
  @@ (9 :> sectors(file("a"), blank, file("b"), blank))

=============================================================================
