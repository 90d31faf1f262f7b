----------------------------- MODULE CpmSession -----------------------------
(***************************************************************************)
(* A session of cpcxfs: the formats it knows, the image files made with    *)
(* them, and which image is open under which format.                       *)
(*                                                                         *)
(* disk holds the image files; an image is its header, the headers of the  *)
(* tracks of a side, whether all the tracks are there, and, as a history,  *)
(* the format it was made with.  active is the image in use (disk_header's *)
(* tag is empty when there is none); dpb is the index of a format in       *)
(* dpb_list and 0 for a null pointer.                                      *)
(***************************************************************************)
EXTENDS CpmGeometry, DefFile

CONSTANTS
  Images,       \* names of image files
  NoImage,
  Defs,         \* definition files the program may find
  BuiltIn,      \* the formats of main(), as entries of the list
  Answers       \* what is answered when an image would be overwritten

\* The built-in formats are a list, and no two of them are alike; definition
\* files end, and the numbers in them are not beyond an int.
MaxInt == (MaxShort * USHORT) + USHORT - 1
NumbersHold(t) == t.type = "number" => t.value \in 0 .. MaxInt

ASSUME SessionAssumption ==
  /\ BuiltIn \in Seq({BuiltIn[k] : k \in DOMAIN BuiltIn})
  /\ \A k \in DOMAIN BuiltIn :
       BuiltIn[k] = [ident |-> BuiltIn[k].ident,
                     dpb |-> [f \in DOMAIN EmptyFormat |-> BuiltIn[k].dpb[f]]]
  /\ \A j, k \in DOMAIN BuiltIn :
       j # k => ~ dpb_match(BuiltIn[j].dpb, BuiltIn[k].dpb)
  /\ \A file \in Defs :
       Len(file) \in Nat /\ \A i \in 1 .. Len(file) :
         Len(file[i]) \in Nat /\ \A n \in 1 .. Len(file[i]) :
           LET t == file[i][n]
           IN NumbersHold(t) /\ (t.type = "again" => NumbersHold(t.value))
  /\ NoImage \notin Images

VARIABLES status, dpb_list, ended, disk, active, dpb, auto

vars == <<status, dpb_list, ended, disk, active, dpb, auto>>

Formats == DOMAIN dpb_list

-----------------------------------------------------------------------------
Image(k, extended, whole) ==
  [header |-> FormatHeader(dpb_list[k].dpb, extended),
   track |-> [hd \in 0 .. dpb_list[k].dpb.HDS - 1 |-> FormatTrack(dpb_list[k].dpb, hd)],
   whole |-> whole, made_with |-> k]

\* Memory for a track: a size that a short has made negative is refused, and
\* the program is back at its prompt.
malloc_track(image) == get_track_size(image.header, 0, 0) >= 0

\* The checks of open_image() on the file.
image_accepted(image) ==
  /\ image.header.nbof_heads >= 1 /\ image.header.nbof_tracks >= 1
  /\ malloc_track(image) /\ image.whole
  /\ get_track_size(image.header, 0, 0) # 0
  /\ \A hd \in DOMAIN image.track : is_track_header_valid(image.track[hd])

\* What select_format makes of an image: see CpmGeometry.
Selected(image) ==
  select_format([k \in Formats |-> dpb_list[k].dpb], image.header, image.track[0])

get_dpb_entry_from_format_name(ident) ==
  LET named == {k \in Formats : dpb_list[k].ident = ident}
  IN IF named = {} THEN 0 ELSE Least(named)

\* A format that is given by its name, and no other, is found.
Named == {k \in Formats : get_dpb_entry_from_format_name(dpb_list[k].ident) = k}

\* open_image() after dpb was set to k (0: null pointer): what becomes of the
\* image in use and of dpb.  A file that cannot be opened leaves dpb alone;
\* update_dpb() divides by the size of a sector.
Opened(files, name, k, auto_detect) ==
  LET image == files[name]
      found == IF auto_detect THEN Selected(image) ELSE k
  IN CASE image = NoImage -> [active |-> NoImage, dpb |-> k, divided |-> TRUE]
       [] image # NoImage /\ ~image_accepted(image) ->
            [active |-> NoImage, dpb |-> 0, divided |-> TRUE]
       [] OTHER -> [active |-> IF found > 0 THEN name ELSE NoImage,
                    dpb |-> IF found > 0 THEN found ELSE 0,
                    divided |-> found > 0 => dpb_list[found].dpb.BPS # 0]

\* A program that still needs the parameter block crashes without it.
SetOpened(o, auto_detect, needed) ==
  /\ active' = o.active /\ dpb' = o.dpb /\ auto' = (auto_detect /\ o.active # NoImage)
  /\ status' = IF ~o.divided \/ (needed /\ o.dpb = 0) THEN "crashed" ELSE "running"

\* Slip: the tag of the image is not cleared.
FreeKeepsTag == active' = active /\ dpb' = 0 /\ auto' = FALSE

\* free_image_data(), under CLOSE and ABORT.
Free == active' = NoImage /\ dpb' = 0 /\ auto' = FALSE

-----------------------------------------------------------------------------
Running == status = "running"

\* OPEN <name>: what is open is closed first.
cmd_open(name) ==
  /\ Running
  /\ SetOpened(Opened(disk, name, IF active = NoImage THEN dpb ELSE 0, TRUE), TRUE, FALSE)
  /\ UNCHANGED <<dpb_list, ended, disk>>

\* OPEN -f <format> <name>.
cmd_open_forced(name, k) ==
  /\ Running
  /\ SetOpened(Opened(disk, name, k, FALSE), FALSE, FALSE)
  /\ UNCHANGED <<dpb_list, ended, disk>>

\* OPEN -f <format> without a name: what was open is closed, dpb is set.
set_format(k) ==
  /\ Running
  /\ active' = NoImage /\ dpb' = k /\ auto' = FALSE
  /\ UNCHANGED <<status, dpb_list, ended, disk>>

\* OPEN with an unknown format or option: what was open is closed.
cmd_open_error ==
  /\ Running
  /\ IF active # NoImage THEN Free ELSE UNCHANGED <<active, dpb, auto>>
  /\ UNCHANGED <<status, dpb_list, ended, disk>>

\* NEW: the image in use is closed before the question whether to overwrite.
cmd_new_declined(name) ==
  /\ Running /\ disk[name] # NoImage /\ FALSE \in Answers
  /\ Free
  /\ UNCHANGED <<status, dpb_list, ended, disk>>

\* NEW: the image is written and opened under the format it was given; a
\* format without a usable image leaves a null pointer that is followed, but
\* for want of memory.
cmd_new(name, k, extended) ==
  /\ Running /\ (disk[name] = NoImage \/ TRUE \in Answers)
  /\ disk' = [disk EXCEPT ![name] = Image(k, extended, TRUE)]
  /\ SetOpened(Opened(disk', name, k, FALSE), FALSE, malloc_track(Image(k, extended, TRUE)))
  /\ UNCHANGED <<dpb_list, ended>>

\* A break between two tracks: format() abandons what it has written.
format_break(name, k, extended) ==
  /\ Running /\ (disk[name] = NoImage \/ TRUE \in Answers)
  /\ disk' = [disk EXCEPT ![name] = Image(k, extended, FALSE)]
  /\ Free
  /\ UNCHANGED <<status, dpb_list, ended>>

cmd_close == Running /\ Free /\ UNCHANGED <<status, dpb_list, ended, disk>>

\* ATTRIB asks dpb whether an image is open; the directory is there only when
\* one is.
cmd_attrib ==
  /\ Running /\ dpb # 0 /\ active = NoImage
  /\ status' = "crashed"
  /\ UNCHANGED <<dpb_list, ended, disk, active, dpb, auto>>

\* The end of the program and its next start, when the definitions may have
\* been edited: the formats of images made before are forgotten.
Start(file) ==
  LET st == parse_def_file(BuiltIn, file)
  IN /\ dpb_list' = st.list /\ ended' = st.ended
     /\ status' = IF st.status \in {"reading", "quit"} THEN "running" ELSE st.status
     /\ disk' = [n \in Images |-> NoImage] /\ active' = NoImage /\ dpb' = 0 /\ auto' = FALSE

Init ==
  /\ status = "starting" /\ dpb_list = <<>> /\ ended = <<>>
  /\ disk = [n \in Images |-> NoImage] /\ active = NoImage /\ dpb = 0 /\ auto = FALSE

Next ==
  \/ status = "starting" /\ \E file \in Defs : Start(file)
  \/ \E n \in Images : cmd_open(n) \/ cmd_new_declined(n)
  \/ \E n \in Images, k \in Named : cmd_open_forced(n, k)
  \/ \E n \in Images, k \in Named, extended \in BOOLEAN :
       cmd_new(n, k, extended) \/ format_break(n, k, extended)
  \/ \E k \in Named : set_format(k)
  \/ cmd_open_error \/ cmd_close \/ cmd_attrib

Spec == Init /\ [][Next]_vars

-----------------------------------------------------------------------------
(***************************************************************************)
(* Properties.                                                             *)
(***************************************************************************)

\* The format in use is in the list, and an image is in use only under one.
TypeOK ==
  /\ status \in {"starting", "running", "hung", "crashed"}
  /\ dpb \in 0 .. Len(dpb_list)
  /\ active \in Images \cup {NoImage} /\ auto \in BOOLEAN
  /\ active # NoImage => dpb # 0 /\ disk[active] # NoImage

\* Every format whose definition was read to its END is in the list, once,
\* whatever the order of the definitions and however many describe it; none is
\* lost to another that resembles it.
SameFormat(a, b) ==
  \A f \in DOMAIN EmptyFormat : a[f] = b[f] \/ (f = "SEC1_side2" /\ a.HDS = 1)

FormatsListedOnce ==
  \A e \in DOMAIN ended :
    Cardinality({k \in Formats : SameFormat(dpb_list[k].dpb, ended[e])}) = 1

\* An image that was opened without naming a format is never read under a
\* format other than the one it was made with: where the header fits several
\* formats, the image is refused.
DetectedAsMade == auto => dpb = disk[active].made_with

InUse == IF dpb = 0 THEN EmptyFormat ELSE update_dpb(dpb_list[dpb].dpb)
UsedAsMade == Running /\ active # NoImage /\ dpb = disk[active].made_with

\* The formats for which the arithmetic of the blocks is meant to work: those
\* in the order EAGLE must not have a block across two sides, nor those in the
\* order CYLINDERS one on an odd side (next_sector and calc_t_s_h go one track
\* too far there).
OrderHolds(d) ==
  CASE d.order = "SIDES" -> TRUE
    [] d.order = "EAGLE" ->
         \A side \in 1 .. d.HDS - 1 :
           ((side * d.TRKS - d.OFS) * d.SECS) % SectorsPerBlock(d) = 0
    [] d.order = "CYLINDERS" -> (d.DSM + 1) * SectorsPerBlock(d) <= (d.TRKS - d.OFS) * d.SECS

\* In an image used under the format it was made with, every sector of every
\* block has a place in the image, and no two have the same.
BlocksHavePlaces ==
  (UsedAsMade /\ OrderHolds(InUse)) =>
    LET d == InUse
        sectors == (0 .. d.DSM) \X (0 .. SectorsPerBlock(d) - 1)
        walks == [b \in 0 .. d.DSM |-> BlockSectors(d, b)]
    IN /\ \A s \in sectors :
            LET p == walks[s[1]][s[2]]
            IN /\ HasTrack(disk[active].header, p.trk, p.hd)
               /\ get_sector_pos_in_track(disk[active].track[p.hd], SectorId(d, p.hd, p.sec),
                                          HeadValue(d, p.hd)) # -1
               /\ d.order = "SIDES" => blk_calc(d, p) = s[1]
       /\ Cardinality({walks[s[1]][s[2]] : s \in sectors}) = Cardinality(sectors)

\* The bytes of two sectors of a track do not overlap and lie inside the track,
\* as long as the code format() gives the sector size is right (sectors of at
\* most 512 bytes) and the image is not extended (format() leaves the sizes of
\* the sectors 0 there, which puts all of them in one place).
SectorsApart ==
  (UsedAsMade /\ InUse.BPS <= 512 /\ disk[active].header.image_type = 0) =>
    \A hd \in DOMAIN disk[active].track :
      LET at == [s \in 0 .. InUse.SECS - 1 |->
                   get_sector_data_ptr(0, disk[active].track[hd], SectorId(InUse, hd, s),
                                       HeadValue(InUse, hd))]
      IN /\ \A s \in DOMAIN at : /\ at[s] >= PAGE
                                 /\ at[s] + InUse.BPS <= get_track_size(disk[active].header, 0, hd)
         /\ \A s, u \in DOMAIN at :
              s # u => at[s] + InUse.BPS <= at[u] \/ at[u] + InUse.BPS <= at[s]

\* Every track of an image is looked for where format() has written it, behind
\* the header and the tracks before it, in a standard and in an extended image;
\* the table of the latter counts whole pages, so it is right only for tracks
\* that are made of them.
TracksWhereWritten ==
  active # NoImage =>
    LET h == disk[active].header
        written == FormatTrackSize(dpb_list[disk[active].made_with].dpb)
    IN (h.image_type = 1 => written % PAGE = 0) =>
       \A i \in 0 .. h.nbof_tracks * h.nbof_heads - 1 :
         get_track_offset(h, i \div h.nbof_heads, i % h.nbof_heads) = PAGE + i * written

\* What put() notes in an entry is what get() needs to find the end of the file
\* in its last block, to the record, and what DIR needs for its length.
Lengths(d) ==
  {1, 127, 128, 129, d.BLS - 1, d.BLS, d.BLS + 1, EXTENTSIZE - 1, EXTENTSIZE,
   d.num_extents * EXTENTSIZE - d.BLS + 1, d.num_extents * EXTENTSIZE}
    \cap 1 .. d.num_extents * EXTENTSIZE

RecordsUp(n) == ((n + RECORDSIZE - 1) \div RECORDSIZE) * RECORDSIZE

LengthsSurvive ==
  (Running /\ active # NoImage /\ InUse.BLKNR * InUse.BLS = InUse.num_extents * EXTENTSIZE) =>
    \A n \in 0 .. 2, total \in Lengths(InUse) :
      LET entry == EntryLength(InUse, n, total)
          last == (total - 1) \div InUse.BLS
      IN /\ LastBlockSize(InUse, entry, last) = RecordsUp(total) - last * InUse.BLS
         /\ ListedSize(entry) = n * InUse.num_extents * EXTENTSIZE + RecordsUp(total)

-----------------------------------------------------------------------------
(* What the formats of a program have to be for all of this to hold: that  *)
(* the headers, masks and blocks can say what the definitions ask for,     *)
(* which parse_def_file does not check.                                    *)

\* What the headers of an image and of a track can say of a format: tracks and
\* sides in bytes, no more of both than the table has room for, the size of a
\* track in a signed short, as many sectors as a track's header has room for,
\* and the head value and the id of each of them, on every side, in a byte.  The
\* interleave counts in an int.
MaxSectors == 29

HeaderHolds(d) ==
  /\ d.TRKS \in 0 .. 255 /\ d.HDS \in 0 .. 255 /\ d.TRKS * d.HDS <= TABLE
  /\ d.SECS \in 0 .. MaxSectors /\ d.BPS \in 0 .. USHORT - 1 /\ FormatTrackSize(d) <= MaxShort
  /\ d.skew \in 1 .. MaxInt - MaxSectors
  /\ d.side0_hd \in 0 .. 255 /\ d.side1_hd \in 0 .. 255
  /\ d.SEC1_side1 \in Nat /\ d.SEC1_side2 \in Nat
  /\ \A hd \in 0 .. d.HDS - 1 : SectorId(d, hd, d.SECS) <= 256

\* All formats of the program and of its definition files are of this kind.
FormatsFit ==
  \A file \in Defs :
    LET list == parse_def_file(BuiltIn, file).list
    IN \A k \in DOMAIN list : HeaderHolds(list[k].dpb)

\* The sizes of sectors that the controller has and whose code is right.
CodedSizes == {128, 256, 512}

SizesFit ==
  \A file \in Defs :
    LET list == parse_def_file(BuiltIn, file).list
    IN \A k \in DOMAIN list : list[k].dpb.BPS <= 512 => list[k].dpb.BPS \in {0} \cup CodedSizes

\* The masks that say how many extents an entry of the directory stands for,
\* and the shifts of the sizes of blocks, of up to 16 Kbyte.
ExtentMasks == {0, 1, 3, 7, 15}
BlockShifts == 0 .. 7

MaskHolds(d) == d.EXM \in ExtentMasks /\ d.BSH \in BlockShifts

MasksFit ==
  \A file \in Defs :
    LET list == parse_def_file(BuiltIn, file).list
    IN \A k \in DOMAIN list : MaskHolds(list[k].dpb)

Orders == {"SIDES", "EAGLE", "CYLINDERS"}

\* Of every format with sectors, the blocks are made of whole sectors and fit on
\* the tracks behind the reserved ones.
BlocksHold(d) ==
  d.BPS # 0 =>
    LET BLS == 2 ^ (d.BSH + 7)
    IN /\ d.SECS # 0 /\ d.OFS \in Nat /\ d.DSM \in Nat /\ d.order \in Orders
       /\ BLS % d.BPS = 0
       /\ (d.DSM + 1) * (BLS \div d.BPS) <= (d.TRKS * d.HDS - d.OFS) * d.SECS

BlocksFit ==
  \A file \in Defs :
    LET list == parse_def_file(BuiltIn, file).list
    IN \A k \in DOMAIN list : BlocksHold(list[k].dpb)

=============================================================================
