----------------------------- MODULE MCFatTree -----------------------------
(***************************************************************************)
(* Two levels of directories, with a name that stands at every level.  One *)
(* directory has a second cluster, which its listing leaves in the cache   *)
(* for the walks behind; others fill their cluster, so that the end of     *)
(* their chain is left there, or end in their first sector.                *)
(***************************************************************************)
EXTENDS FatTree, TLC

MCClusters == 2 .. 8
MCFat == [c \in MCClusters |-> IF c = 5 THEN 8 ELSE LAST]
MCNames == {"a", "b", "cfg", "none"}
MCChain == [c \in MCClusters \cup {LAST} |->
              [k \in 0 .. MaxChain |->
                 IF k = 0 THEN c ELSE IF k = 1 /\ c = 5 THEN 8 ELSE LAST]]

file(n) == [kind |-> "entry", name |-> n, is_dir |-> FALSE, cluster |-> 7]
folder(n, c) == [kind |-> "entry", name |-> n, is_dir |-> TRUE, cluster |-> c]
skip == [kind |-> "skip", name |-> "none", is_dir |-> FALSE, cluster |-> 7]
blank == [kind |-> "blank", name |-> "none", is_dir |-> FALSE, cluster |-> 7]

\* A cluster's two sectors of two records.
sectors(p, q, r, s) == (0 :> ((0 :> p) @@ (1 :> q))) @@ (1 :> ((0 :> r) @@ (1 :> s)))

\* 2 is the root, 3 is a, 4 is b, 5 and 8 are a/b and 6 is b/a.
MCCard ==
  (2 :> sectors(skip, folder("a", 3), folder("b", 4), file("cfg")))
  @@ (3 :> sectors(skip, skip, folder("b", 5), file("a")))
  @@ (4 :> sectors(folder("a", 6), file("b"), blank, blank))
  @@ (5 :> sectors(file("a"), skip, file("b"), skip))
  @@ (6 :> sectors(skip, blank, blank, blank))
  @@ (7 :> sectors(blank, blank, blank, blank))
  @@ (8 :> sectors(file("cfg"), skip, blank, blank))

ASSUME MCTreeOnCard == TreeOnCard

=============================================================================
