----------------------------- MODULE BlockStore -----------------------------
(***************************************************************************)
(* What the file library is promised of the card ("Media Access API.txt"): *)
(* media_read delivers the sector asked for, media_write stores it, each   *)
(* in one step between its call and its return.  A call whose access fails *)
(* never returns; switching the machine off loses the call, not the card.  *)
(***************************************************************************)
CONSTANTS
  Calls,  \* records with the fields kind ("read", "write"), lba and data
  Stores, \* the contents the card can have when the machine is started
  NoCall, Nothing

VARIABLES
  store,    \* the card, a function of the sector number
  call,     \* the call that has not returned, or NoCall
  answer    \* what the last read has delivered, or Nothing

vars == << store, call, answer >>

Init == store \in Stores /\ call = NoCall /\ answer = Nothing

Ask ==
  /\ call = NoCall
  /\ call' \in Calls
  /\ answer' = Nothing
  /\ UNCHANGED store

Read ==
  /\ call # NoCall /\ call.kind = "read"
  /\ answer' = store[call.lba]
  /\ call' = NoCall
  /\ UNCHANGED store

Write ==
  /\ call # NoCall /\ call.kind = "write"
  /\ store' = [store EXCEPT ![call.lba] = call.data]
  /\ call' = NoCall
  /\ UNCHANGED answer

Lose == call' = NoCall /\ answer' = Nothing /\ UNCHANGED store

Next == Ask \/ Read \/ Write \/ Lose

Spec == Init /\ [][Next]_vars

=============================================================================
