----------------------------- MODULE MCBrowser -----------------------------
(***************************************************************************)
(* Instances of Browser for TLC: pages of two entries, a table of four     *)
(* statuses and an eight-valued page number, so that three pages already   *)
(* go round most of the table and page_number wraps after two rounds.      *)
(***************************************************************************)
EXTENDS Browser

\* A file, and a directory whose name survives the copy into the path.
file(n, c) == [name |-> n, cut |-> n, dots |-> 0, is_dir |-> FALSE,
               cluster |-> c, size |-> 1]
dir(n, c) == [name |-> n, cut |-> n, dots |-> 0, is_dir |-> TRUE,
              cluster |-> c, size |-> 0]
dotdot(c) == [name |-> "..", cut |-> "..", dots |-> 2, is_dir |-> TRUE,
              cluster |-> c, size |-> 0]

dot(c) == [name |-> ".", cut |-> ".", dots |-> 1, is_dir |-> TRUE,
           cluster |-> c, size |-> 0]

\* A directory with a name of which nothing can be copied into the path.
accented(n, c) == [name |-> n, cut |-> NoName, dots |-> 0, is_dir |-> TRUE,
                   cluster |-> c, size |-> 0]

MCNames == {"a", "b", "c", "d", "x", ".", ".."}

NoSlots == [s \in 1 .. NUMBER_OF_SLOT - 1 |-> Blank]
SoundOn == [ihm_sound |-> 255, step_sound |-> 255, buzzer_duty_cycle |-> 32]

-----------------------------------------------------------------------------
\* Three levels: a root with a sub-directory on its second page and one that
\* no path leads to.  The root fills two pages, so that an empty third page
\* is reached; the sub-directory ends in the middle of its second page, with
\* a directory of its own name.
TreeDirs == {"root", "sub", "deep", "lost"}
TreeFiles == {"f1", "f2"}
TreeListing == [d \in TreeDirs |->
  CASE d = "root" -> << file("a", "f1"), accented("x", "lost"), dir("d", "sub"),
                        file("c", "f1") >>
    [] d = "sub"  -> << dot("sub"), dotdot("root"), dir("d", "deep") >>
    [] OTHER      -> << dot(d), dotdot("sub"), file("b", "f2") >>]

-----------------------------------------------------------------------------
\* The same directories, entered on their first pages only.
FrontListing == [d \in TreeDirs |->
  IF d = "root"
  THEN << dir("d", "sub"), file("a", "f1"), file("b", "f2"), file("c", "f1"),
          file("x", "f2") >>
  ELSE << dot(d), dotdot("root"), file("a", "f2"), file("b", "f1") >>]

=============================================================================
