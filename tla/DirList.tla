------------------------------- MODULE DirList -------------------------------
(***************************************************************************)
(* What the file selector relies on when it lists a directory with         *)
(* fl_list_opendir and fl_list_readdir and saves and restores the listing  *)
(* status: the status stands for a place in the directory's listing, each  *)
(* call returns the entry there, and a restored status is a place again.   *)
(* Browser is written against this view of the library.                    *)
(***************************************************************************)
EXTENDS CardTree

CONSTANT Paths  \* fl_list_opendir may be called with

VARIABLES
  status,  \* the directory and how many of its entries have been returned
  out      \* what the last call returned

Opened(path) == [cluster |-> OpenDirectory(path), pos |-> 0]

Returned(entry) == [kind |-> "entry", entry |-> entry]
EndOfList == [kind |-> "end"]
NoEntry == [kind |-> "none"]

Init == status = [cluster |-> Invalid, pos |-> 0] /\ out = NoEntry

Open == out' = NoEntry /\ \E path \in Paths : status' = Opened(path)

Readdir ==
  /\ status.pos < Len(Items(status.cluster))
  /\ status' = [status EXCEPT !.pos = status.pos + 1]
  /\ out' = Returned(Items(status.cluster)[status.pos + 1])

AtEnd ==
  /\ status.pos = Len(Items(status.cluster))
  /\ out' = EndOfList
  /\ UNCHANGED status

\* restore_flstatus, to a place the listing has been at.
Restore ==
  /\ \E pos \in 0 .. Len(Items(status.cluster)) :
       status' = [status EXCEPT !.pos = pos]
  /\ UNCHANGED out

\* The entry is not looked at any more: another call begins.
Forget == out' = NoEntry /\ UNCHANGED status

Next == Open \/ Readdir \/ AtEnd \/ Restore \/ Forget

Spec == Init /\ [][Next]_<< status, out >>

=============================================================================
