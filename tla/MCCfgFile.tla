----------------------------- MODULE MCCfgFile -----------------------------
(***************************************************************************)
(* Three slots in sectors of two records, so that a save writes up to two   *)
(* sectors and a full table ends on a sector boundary, as fifteen slots in *)
(* sectors of four do.                                                     *)
(***************************************************************************)
EXTENDS CfgFile

\* A file with one image, and records of an earlier, longer table behind it.
OldSectors == [n \in Sectors |-> [p \in Places |-> IF n = 2 /\ p = 0 THEN Blank ELSE "old"]]

=============================================================================
