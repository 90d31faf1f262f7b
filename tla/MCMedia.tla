------------------------------- MODULE MCMedia -------------------------------
(***************************************************************************)
(* A card of four sectors seen through a window of two, so that the window *)
(* is left upwards and downwards and overlaps its neighbours; numbers wrap *)
(* at 16, which leaves the initial base as far from the card as 2^32 does. *)
(***************************************************************************)
EXTENDS Media, Volume

\* Volumes in sector numbers below 64, with and without a partition table,
\* with up to two FATs of up to two sectors of two entries.
SmallMbrs == [signed : BOOLEAN, type : {0, 6, 7, 12}, lba_begin : {0, 3, 63}]
SmallBoots ==
  [signed : {TRUE}, bytes_per_sector : {1}, sectors_per_cluster : 0 .. 3,
   reserved : {1, 2}, num_fats : 0 .. 2, fat_sectors_16 : {0, 1},
   fat_sectors_32 : {1, 2}, root_cluster : {2}]

\* The sectors of every small volume that is mounted differ.
ASSUME SmallVolumes ==
  \A mbr \in SmallMbrs, boot \in SmallBoots :
    InitError(mbr, boot) = "ok" /\ Fits(mbr, boot, 4) => SectorsDiffer(mbr, boot, 4)

=============================================================================
