-------------------------------- MODULE Pager --------------------------------
(***************************************************************************)
(* What the browser's user sees of the listing: a directory shown in pages *)
(* of PageSize entries, turned forwards and backwards, and left for        *)
(* another directory, which is shown from its first page.                  *)
(***************************************************************************)
EXTENDS Integers, Sequences

CONSTANTS
  Dirs,      \* the directories
  Root,
  Length,    \* the number of entries of each directory
  PageSize

VARIABLES dir, start  \* the directory and the first entry on screen, from 0

Init == dir = Root /\ start = 0

\* Behind a full page there is always a further one, which may be empty.
Forward ==
  /\ start + PageSize <= Length[dir]
  /\ start' = start + PageSize
  /\ UNCHANGED dir

Back ==
  /\ start >= PageSize
  /\ start' = start - PageSize
  /\ UNCHANGED dir

FirstPage == start' = 0 /\ UNCHANGED dir

Enter == dir' \in Dirs /\ start' = 0

Next == Forward \/ Back \/ FirstPage \/ Enter

Spec == Init /\ [][Next]_<< dir, start >>

=============================================================================
