------------------------------- MODULE FatTree -------------------------------
(***************************************************************************)
(* The reading of directories from the card as an implementation of the    *)
(* listing the browser is written against: CardTree's tree of entries is   *)
(* what the records, clusters and chains of FatAccess amount to.           *)
(*                                                                         *)
(* It holds for directories of any length whose subdirectories have their  *)
(* records in the first cluster.  For one further behind, a path walk can  *)
(* take clusters of another directory out of the browse cache: see         *)
(* MissingIsMissing.                                                       *)
(***************************************************************************)
EXTENDS FatAccess, FiniteSets

CONSTANT Depth  \* levels of directories below the root

\* The entries fl_list_readdir should return: those in front of the first
\* blank record.
Listed(c) ==
  {p \in Positions(c) :
     /\ RecordAt(c, p).kind = "entry"
     /\ \A q \in Positions(c) : q < p => RecordAt(c, q).kind # "blank"}

AsEntry(record) ==
  [name |-> record.name, cut |-> record.name, dots |-> 0, is_dir |-> record.is_dir,
   cluster |-> record.cluster, size |-> 0]

\* How many of them are in front of a position.
Passed(listed, p) == Cardinality({q \in listed : q < p})
Place(listed, k) == CHOOSE p \in listed : Passed(listed, p) = k - 1

Contents(c) ==
  LET listed == Listed(c)
  IN [k \in 1 .. Cardinality(listed) |-> AsEntry(RecordAt(c, Place(listed, k)))]

\* The text enter_sub_dir makes of the names of a path.
PathText(names) ==
  [k \in 1 .. 2 * Len(names) + 1 |-> IF k % 2 = 1 THEN "/" ELSE names[k \div 2]]

L == INSTANCE DirList WITH
  Dirs      <- Clusters,
  Files     <- Clusters,
  Invalid   <- LAST,
  NoName    <- "",
  Slash     <- "/",
  Listing   <- [c \in Clusters |-> Contents(c)],
  Paths     <- {PathText(names) : names \in UNION {[1 .. n -> Names] : n \in 0 .. Depth}},
  status    <- [cluster |-> dirls.cluster,
                pos |-> Passed(Listed(dirls.cluster), Position(dirls))],
  out       <- CASE pc = "idle" /\ result.kind = "entry" ->
                      [kind |-> "entry", entry |-> AsEntry(result.record)]
                 [] pc = "idle" /\ result.kind = "end" -> [kind |-> "end"]
                 [] OTHER -> [kind |-> "none"]

-----------------------------------------------------------------------------
(***************************************************************************)
(* The cards for which it holds: they are not corrupt (nothing is recorded *)
(* behind the end of a directory, and the directories are a tree), and the *)
(* cache is not needed to find a subdirectory.                             *)
(***************************************************************************)
NothingBehindEnd ==
  \A c \in Clusters : \A p, q \in Positions(c) :
    p < q /\ RecordAt(c, p).kind = "blank" => RecordAt(c, q).kind # "entry"

SubDirsInFirstCluster ==
  \A c \in Clusters : \A p \in SubDirs(c) : p < SectorsPerCluster * EntriesPerSector

DirectoriesAreTree ==
  \E level \in [Clusters -> 0 .. Depth] :
    /\ level[Root] = 0
    /\ \A c \in Clusters : \A p \in SubDirs(c) :
         level[RecordAt(c, p).cluster] = level[c] + 1

TreeOnCard ==
  /\ "" \notin Names /\ "/" \notin Names /\ Depth \in Nat
  /\ NothingBehindEnd /\ SubDirsInFirstCluster /\ DirectoriesAreTree

-----------------------------------------------------------------------------
(* Properties.                                                             *)

\* Every call of fl_list_readdir returns the next entry of the tree's listing
\* and moves the status by one, however many sectors it reads and whatever
\* status was restored before; every other step is invisible to the browser.
ImplementsDirList == L!Spec

\* fl_list_opendir lists the directory the path denotes in the tree, although
\* the cache was filled by the listing of another directory before.
OpendirAgreesWithTree ==
  phase = "browse" /\ pc = "idle" /\ call = "browse" =>
    dirls.cluster = L!OpenDirectory(PathText(path))

=============================================================================
