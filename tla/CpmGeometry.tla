---------------------------- MODULE CpmGeometry ----------------------------
(***************************************************************************)
(* Where cpcxfs finds things in a disk image: the tracks of the image, the *)
(* sectors of a track, the sectors of a block, and the fields of a         *)
(* directory entry that say how long a file is.                            *)
(*                                                                         *)
(* A disk parameter block d is a record with the fields of DPB_type; h is  *)
(* the image's header, a record of image_type (0 standard, 1 extended),    *)
(* nbof_tracks, nbof_heads, tracksize and sizes, the table of track sizes  *)
(* in pages of 256 bytes; a track's header is a record of SPT, BPS (the    *)
(* code N of the sector size) and sector, the sector informations in the   *)
(* order they lie in the track.                                            *)
(***************************************************************************)
EXTENDS Integers, Sequences, FiniteSets, TLC

RECORDSIZE == 128
EXTENTSIZE == 16384
PAGE == 256            \* size of the header of an image and of a track
TABLE == 204           \* tracks the table in the header of an image has room for

\* What a signed short keeps of a number.
MaxShort == 32767
Short(n) == ((n + MaxShort + 1) % (2 * (MaxShort + 1))) - (MaxShort + 1)

Least(S) == CHOOSE x \in S : \A y \in S : x <= y

-----------------------------------------------------------------------------
\* Slip: the reserved tracks are not skipped.
calc_t_s_h_from_track_0(d, blk) ==
  LET sector_offset == (blk * d.BLS) \div d.BPS
      t == sector_offset \div d.SECS
  IN [hd |-> t % d.HDS, trk |-> t \div d.HDS, sec |-> sector_offset % d.SECS]

\* The place of a block's first sector, and the next sector behind a place.
calc_t_s_h(d, blk) ==
  LET sector_offset == (blk * d.BLS) \div d.BPS
      s == sector_offset % d.SECS
      t == sector_offset \div d.SECS + d.OFS
      side == t \div d.TRKS
  IN CASE d.order = "SIDES" -> [hd |-> t % d.HDS, trk |-> t \div d.HDS, sec |-> s]
       [] d.order = "EAGLE" -> [hd |-> side, trk |-> t % d.TRKS, sec |-> s]
       [] d.order = "CYLINDERS" ->
            [hd |-> side, sec |-> s,
             trk |-> IF side % 2 = 1 THEN d.TRKS - (t % d.TRKS) ELSE t % d.TRKS]

NextTrack(d, p) ==
  CASE d.order = "SIDES" ->
         IF p.hd + 1 >= d.HDS THEN [p EXCEPT !.hd = 0, !.trk = @ + 1]
                              ELSE [p EXCEPT !.hd = @ + 1]
    [] d.order = "EAGLE" ->
         IF p.trk + 1 > d.TRKS THEN [p EXCEPT !.trk = 0, !.hd = @ + 1]
                               ELSE [p EXCEPT !.trk = @ + 1]
    [] d.order = "CYLINDERS" /\ p.hd % 2 = 0 ->
         IF p.trk + 1 > d.TRKS THEN [p EXCEPT !.trk = d.TRKS - 1, !.hd = @ + 1]
                               ELSE [p EXCEPT !.trk = @ + 1]
    [] d.order = "CYLINDERS" /\ p.hd % 2 = 1 ->
         IF p.trk - 1 < 0 THEN [p EXCEPT !.trk = 1, !.hd = @ + 1]
                          ELSE [p EXCEPT !.trk = @ - 1]

next_sector(d, p) ==
  IF p.sec + 1 < d.SECS
  THEN [p EXCEPT !.sec = @ + 1]
  ELSE NextTrack(d, [p EXCEPT !.sec = @ + 1 - d.SECS])

SectorsPerBlock(d) == d.BLS \div d.BPS

\* The sectors read_block and write_block go through, one after the other.
BlockSectors(d, blk) ==
  LET walk[k \in 0 .. SectorsPerBlock(d) - 1] ==
        IF k = 0 THEN calc_t_s_h(d, blk) ELSE next_sector(d, walk[k - 1])
  IN walk

blk_calc(d, p) ==
  IF p.trk * d.HDS + p.hd < d.OFS THEN -1
  ELSE (p.sec + p.hd * d.SECS + p.trk * d.SECS * d.HDS - d.OFS * d.SECS)
         \div SectorsPerBlock(d)

-----------------------------------------------------------------------------
\* The tracks of an image.
HasTrack(h, trk, hd) == trk < h.nbof_tracks /\ hd < h.nbof_heads
TrackIndex(h, trk, hd) == trk * h.nbof_heads + hd

\* Slip: the sum takes the track itself with those before it.
SizesBeforeAndAt(h, n) ==
  LET sum[k \in 0 .. n + 1] == IF k = 0 THEN 0 ELSE sum[k - 1] + PAGE * h.sizes[k - 1]
  IN sum[n + 1]

SizesBefore(h, n) ==
  LET sum[k \in 0 .. n] == IF k = 0 THEN 0 ELSE sum[k - 1] + PAGE * h.sizes[k - 1]
  IN sum[n]

get_track_size(h, trk, hd) ==
  IF ~HasTrack(h, trk, hd) THEN 0
  ELSE IF h.image_type = 0 THEN h.tracksize
  ELSE PAGE * h.sizes[TrackIndex(h, trk, hd)]

get_track_offset(h, trk, hd) ==
  IF ~HasTrack(h, trk, hd) \/ (h.image_type = 1 /\ h.sizes[TrackIndex(h, trk, hd)] = 0)
  THEN 0
  ELSE PAGE + IF h.image_type = 0 THEN TrackIndex(h, trk, hd) * h.tracksize
                                  ELSE SizesBefore(h, TrackIndex(h, trk, hd))

\* The sectors of a track: -1 stands for a sector that is not in the header.
is_track_header_valid(t) == t.SPT <= 29 /\ t.BPS <= 6

get_sector_pos_in_track(t, r, hd) ==
  LET found == {i \in 0 .. t.SPT - 1 : t.sector[i].sector = r /\ t.sector[i].head = hd}
  IN IF found = {} THEN -1 ELSE Least(found)

get_sector_size_from_n(n) == 2 ^ n * RECORDSIZE

get_sector_data_offset_extended(t, pos) ==
  LET sum[k \in 0 .. pos] == IF k = 0 THEN 0 ELSE sum[k - 1] + t.sector[k - 1].size
  IN sum[pos]

get_sector_data_ptr(image_type, t, r, hd) ==
  LET pos == get_sector_pos_in_track(t, r, hd)
  IN IF pos = -1 THEN -1
     ELSE PAGE + IF image_type = 0 THEN pos * get_sector_size_from_n(t.BPS)
                                   ELSE get_sector_data_offset_extended(t, pos)

\* The id and the head value under which a sector of a side is looked up.
SectorId(d, hd, sec) == sec + IF hd = 0 THEN d.SEC1_side1 ELSE d.SEC1_side2
HeadValue(d, hd) == IF hd = 0 THEN d.side0_hd ELSE d.side1_hd

-----------------------------------------------------------------------------
\* What format() writes, in the widths it is written in: bytes for the numbers
\* of tracks, sides, sectors and pages and for the ids of sectors, a signed
\* short for the size of a track, and a table of TABLE tracks.  What format()
\* puts behind the end of the table is not part of the image.
FormatTrackSize(d) == PAGE + (d.BPS * d.SECS)

FormatHeader(d, extended) ==
  [image_type |-> IF extended THEN 1 ELSE 0,
   nbof_tracks |-> d.TRKS % 256, nbof_heads |-> d.HDS % 256,
   tracksize |-> IF extended THEN 0 ELSE Short(FormatTrackSize(d)),
   sizes |-> [i \in 0 .. TABLE - 1 |->
                IF extended /\ i < d.TRKS * d.HDS THEN (FormatTrackSize(d) \div PAGE) % 256 ELSE 0]]

\* Slip: every round of the sectors starts from the first one again.
InterleaveFromFirst(d) == [j \in 0 .. d.SECS - 1 |-> (j * d.skew) % d.SECS]

\* The order of the sectors in a track: every skew-th, then from one further.
Interleave(d) ==
  LET at[j \in 0 .. d.SECS - 1] ==
        IF j = 0 THEN [index |-> 0, base |-> 0]
        ELSE LET before == at[j - 1]
             IN IF before.index + d.skew >= d.SECS
                THEN [index |-> before.base + 1, base |-> before.base + 1]
                ELSE [before EXCEPT !.index = @ + d.skew]
  IN [j \in 0 .. d.SECS - 1 |-> at[j].index]

FormatTrack(d, hd) ==
  LET order == Interleave(d)
  IN [SPT |-> d.SECS % 256, BPS |-> d.BPS \div 256,
      sector |-> [j \in 0 .. d.SECS - 1 |->
        [head |-> HeadValue(d, hd), sector |-> SectorId(d, hd, order[j]) % 256, size |-> 0]]]

-----------------------------------------------------------------------------
\* The fields of the disk parameter block that are computed when it is used.
get_bit_count_from_mask(mask) ==
  Cardinality({b \in 0 .. 7 : \A c \in 0 .. b : (mask \div 2 ^ c) % 2 = 1})

Computed(d) ==
  LET BLS == 2 ^ (d.BSH + 7)
      BLKNR_MAX == IF d.DSM >= 256 THEN 8 ELSE 16
      num_extents == 2 ^ get_bit_count_from_mask(d.EXM)
      max_size == BLKNR_MAX * BLS
  IN [BLS |-> BLS, num_extents |-> num_extents,
      DBL |-> (32 * (d.DRM + 1)) \div BLS,
      SPT |-> (d.SECS * d.BPS) \div RECORDSIZE,
      CKS |-> ((((d.DRM + 1) * 32 + d.BPS - 1) \div d.BPS) * d.BPS) \div RECORDSIZE,
      BLKNR_SIZE |-> IF d.DSM >= 256 THEN 2 ELSE 1,
      BLKNR |-> IF max_size \div num_extents > EXTENTSIZE
                THEN (EXTENTSIZE * num_extents) \div BLS ELSE BLKNR_MAX]

update_dpb(d) ==
  LET computed == Computed(d)
  IN [f \in DOMAIN d \cup DOMAIN computed |-> IF f \in DOMAIN d THEN d[f] ELSE computed[f]]

\* Choosing the format of an image among a sequence of parameter blocks: its
\* index, 0 when none fits and -1 when several do.
sector_exists(t, id) == \E i \in 0 .. t.SPT - 1 : t.sector[i].sector = id

\* Slip: the first format that fits is taken, however many do.
select_first_format(list, h, t) ==
  LET fits == {k \in DOMAIN list :
                 /\ sector_exists(t, list[k].SEC1_side1)
                 /\ t.SPT = list[k].SECS
                 /\ h.nbof_heads = list[k].HDS /\ h.nbof_tracks = list[k].TRKS}
  IN IF fits = {} THEN 0 ELSE Least(fits)

select_format(list, h, t) ==
  LET fits == {k \in DOMAIN list :
                 /\ sector_exists(t, list[k].SEC1_side1)
                 /\ t.SPT = list[k].SECS
                 /\ h.nbof_heads = list[k].HDS /\ h.nbof_tracks = list[k].TRKS}
  IN IF fits = {} THEN 0 ELSE IF Cardinality(fits) = 1 THEN Least(fits) ELSE -1

-----------------------------------------------------------------------------
\* Slip: a length that is a whole number of extents counts one extent more.
EntryLengthRoundedUp(d, n, total) ==
  [extent |-> total \div EXTENTSIZE + n * d.num_extents,
   rec |-> IF total % EXTENTSIZE # 0
           THEN ((total % EXTENTSIZE) + RECORDSIZE - 1) \div RECORDSIZE ELSE 128]

\* What put() stores in the n-th entry of a file (from 0) that holds total
\* bytes, and what get() makes of the last block of such an entry.
EntryLength(d, n, total) ==
  [extent |-> (total + EXTENTSIZE - 1) \div EXTENTSIZE - 1 + n * d.num_extents,
   rec |-> IF total % EXTENTSIZE # 0
           THEN ((total % EXTENTSIZE) + RECORDSIZE - 1) \div RECORDSIZE ELSE 128]

LastBlockSize(d, entry, i) ==
  (entry.extent % (d.EXM + 1)) * EXTENTSIZE + entry.rec * RECORDSIZE - i * d.BLS

ListedSize(entry) == entry.extent * EXTENTSIZE + entry.rec * RECORDSIZE

=============================================================================
