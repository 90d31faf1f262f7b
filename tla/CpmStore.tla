------------------------------ MODULE CpmStore ------------------------------
(***************************************************************************)
(* What the commands on a CP/M image promise about its files: a command    *)
(* changes the files it names and no other; what is on the image differs   *)
(* from what the user sees only in files that were named since the         *)
(* directory was saved; a crash, or leaving without saving, costs only     *)
(* these.                                                                  *)
(***************************************************************************)
CONSTANT Files

VARIABLES
  live,       \* the contents of every file as the user sees them
  kept,       \* as they are on the image
  touched     \* the files named by commands since the last save

vars == <<live, kept, touched>>

Same(f, g, S) == \A n \in S : f[n] = g[n]

StoreTypeOK ==
  /\ DOMAIN live = Files
  /\ DOMAIN kept = Files
  /\ touched \subseteq Files

Init ==
  /\ DOMAIN live = Files
  /\ kept = live
  /\ touched = {}

\* A command on some files.
Change ==
  /\ touched \subseteq touched' /\ touched' \subseteq Files
  /\ kept' = kept
  /\ Same(live', live, Files \ touched')
  /\ DOMAIN live' = Files

\* A block of what was changed reaches the image.
Write ==
  /\ UNCHANGED <<touched, live>>
  /\ Same(kept', kept, Files \ touched)
  /\ DOMAIN kept' = Files

\* The last block of the directory reaches the image.
Save ==
  /\ touched' = {}
  /\ UNCHANGED live
  /\ kept' = live

\* A crash, or leaving the image without saving it.
Lose ==
  /\ touched' = {}
  /\ UNCHANGED kept
  /\ live' = kept

Next == Change \/ Write \/ Save \/ Lose

Spec == Init /\ [][Next]_vars

\* A file that no command named since the last save is the same on the image
\* and in memory: whatever happens next, it cannot be lost.
Safe == Same(kept, live, Files \ touched)

=============================================================================
