------------------------------ MODULE CardTree ------------------------------
(***************************************************************************)
(* The directory tree of the SD card as the file selector sees it: what    *)
(* fl_list_readdir enumerates for each directory and what the path walk of *)
(* _open_directory makes of a path.  A path is a text of names and Slashes *)
(* that the library cuts apart again.  A name is an opaque value; of its   *)
(* characters the module keeps only what the selector's code tells apart:  *)
(* whether the 16 printable characters it copies into the path still are   *)
(* the whole name, and the leading dots.                                   *)
(***************************************************************************)
EXTENDS Integers, Sequences, FiniteSets, SequencesExt

CONSTANTS
  Dirs,      \* start clusters of the directories
  Files,     \* start clusters of the files
  Root,      \* fatfs_get_root_cluster
  Invalid,   \* FAT32_INVALID_CLUSTER: no directory
  Names,     \* file names, and names cut by enter_sub_dir
  NoName,    \* the empty name: of an entry cleared by memset
  Slash,     \* the character '/' of a path
  Listing    \* the entries fl_list_readdir returns for a directory, in order

(***************************************************************************)
(* A directory entry.  name is the name on the card; cut is what           *)
(* enter_sub_dir appends to the path for it: the first 16 characters, up   *)
(* to the first one outside 32..127, without trailing spaces, which may    *)
(* leave nothing; dots is the number of leading dots of the name, 2        *)
(* standing for two or more.                                               *)
(***************************************************************************)
Entry == [name : Names, cut : Names \cup {NoName}, dots : 0..2, is_dir : BOOLEAN,
          cluster : Dirs \cup Files, size : Nat]

\* A DirectoryEntry_tab or disks_slot_a record after memset(..., 0, ...).
Blank == [name |-> NoName, cut |-> NoName, dots |-> 0, is_dir |-> FALSE,
          cluster |-> Invalid, size |-> 0]

ASSUME TreeAssumption ==
  /\ Root \in Dirs
  /\ Invalid \notin Dirs \cup Files
  /\ NoName \notin Names
  /\ Slash \notin Names
  /\ Listing \in [Dirs -> Seq(Entry)]

\* The listing of an opened directory; a failed opendir leaves a listing
\* whose first sector read already fails.
Items(dir) == IF dir \in Dirs THEN Listing[dir] ELSE << >>

-----------------------------------------------------------------------------

\* fatfs_get_file_entry, then the check that the entry is a directory.
SubDir(dir, name) ==
  LET hits == {i \in DOMAIN Items(dir) : Items(dir)[i].name = name}
      first == CHOOSE i \in hits : \A j \in hits : i <= j
  IN IF hits = {} THEN Invalid
     ELSE IF Items(dir)[first].is_dir THEN Items(dir)[first].cluster
     ELSE Invalid

\* fatfs_total_path_levels: the pieces behind the leading Slash, each ending
\* with a Slash or with the path, less one.
TotalPathLevels(path) ==
  IF path = << >> \/ path[1] # Slash THEN -1
  ELSE Cardinality({i \in 2 .. Len(path) : path[i] = Slash \/ i = Len(path)}) - 1

\* fatfs_get_substring: the name with that many Slashes between it and the
\* leading one, or nothing, which the caller takes for an error.
GetSubstring(path, level) ==
  LET before(i) == Cardinality({j \in 2 .. i - 1 : path[j] = Slash})
      here == {i \in 2 .. Len(path) : path[i] # Slash /\ before(i) = level}
  IN IF here = {} THEN NoName ELSE path[CHOOSE i \in here : TRUE]

\* The walk of _open_directory: the directory before each level of the path,
\* from the root, and the one behind the last.
Walk(path) ==
  LET last == TotalPathLevels(path) + 1
      before[level \in 0 .. last] ==
        IF level = 0 THEN Root ELSE SubDir(before[level - 1], GetSubstring(path, level - 1))
  IN before[last]

\* fl_list_opendir: the directory a path leads to.  A path without levels, or
\* without its leading '/', stands for the root; otherwise the cluster keeps
\* its initial FAT32_INVALID_CLUSTER unless all of the walk succeeds.
OpenDirectory(path) == IF Walk(path) \in Dirs THEN Walk(path) ELSE Invalid

=============================================================================
