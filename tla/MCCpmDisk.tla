----------------------------- MODULE MCCpmDisk -----------------------------
(***************************************************************************)
(* An extended image of two tracks with two sides of three sectors of 512  *)
(* bytes, one reserved track, four blocks of 1024 bytes: block 0 lies in   *)
(* one track, block 1 across two, the last sector of block 2 is missing,   *)
(* and the track of block 3 has no data.  Blocks -1 and 4 do not exist.    *)
(***************************************************************************)
EXTENDS CpmDisk

MCDpb ==
  [SEC1_side1 |-> 1, SEC1_side2 |-> 11, SECS |-> 3, TRKS |-> 2, HDS |-> 2, BPS |-> 512,
   BSH |-> 3, BLS |-> 1024, DSM |-> 3, OFS |-> 1, order |-> "SIDES", side0_hd |-> 0, side1_hd |-> 1]

MCHeader == [image_type |-> 1, nbof_tracks |-> 2, nbof_heads |-> 2, tracksize |-> 0,
             sizes |-> 0 :> 7 @@ 1 :> 7 @@ 2 :> 7 @@ 3 :> 0]

sector(head, id) == [head |-> head, sector |-> id, size |-> 512]
MCTrackHeader ==
  LET header(spt, s0, s1, s2) == [SPT |-> spt, BPS |-> 2, sector |-> 0 :> s0 @@ 1 :> s1 @@ 2 :> s2]
      side0 == header(3, sector(0, 1), sector(0, 3), sector(0, 2))
      side1 == header(3, sector(1, 11), sector(1, 13), sector(1, 12))
      short == header(2, sector(0, 1), sector(0, 2), sector(0, 0))
      at(t, h) == [trk |-> t, hd |-> h]
  IN at(0, 0) :> side0 @@ at(0, 1) :> side1 @@ at(1, 0) :> short @@ at(1, 1) :> side1

MCLabels == {<<"b">>, <<"b", "a", "b", "a", "b", "a", "b", "a", "b">>}
=============================================================================
