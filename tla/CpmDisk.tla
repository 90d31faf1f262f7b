------------------------------ MODULE CpmDisk ------------------------------
(***************************************************************************)
(* How cpcxfs reads and writes the blocks of a disk image: through a cache *)
(* of one track and a buffer of one block.                                 *)
(*                                                                         *)
(* image is the file on the computer's disk: for every track, what lies in *)
(* each of its sectors.  open says whether the image is in use (the tag of *)
(* disk_header); cur is the track in the cache (cur_trk and cur_hd),       *)
(* track its sectors, track_dirty whether they were changed.  block_buffer *)
(* is numbered by sectors; cur_blk is the block it is taken to hold.  job  *)
(* is the call that is running, result what the last one answered, asked   *)
(* what each sector was last asked to hold (a history), writes the number  *)
(* of calls that write so far.                                             *)
(*                                                                         *)
(* A read or a write of the file may fail, and the program may be killed   *)
(* between any two sectors.                                                *)
(***************************************************************************)
EXTENDS CpmGeometry

CONSTANTS
  Dpb,            \* the disk parameter block in use, after update_dpb
  Header,         \* the header of the image
  TrackHeader,    \* for every track, its header: the sectors that are there
  Blocks,         \* numbers of blocks that are asked for
  Data,           \* what a sector may hold
  Labels,         \* the contents of label files, sequences of sectors
  Filler,         \* what the sectors of a new image hold
  MaxWrites,      \* bound on the calls that write
  None

VARIABLES image, open, cur, track, track_dirty, block_buffer, cur_blk, job, result, asked, writes

memory == <<open, cur, track, track_dirty>>
vars == <<image, memory, block_buffer, cur_blk, job, result, asked, writes>>

Tracks == {t \in [trk : 0 .. Header.nbof_tracks - 1, hd : 0 .. Header.nbof_heads - 1] :
             get_track_size(Header, t.trk, t.hd) # 0}
Slots(t) == 0 .. TrackHeader[t].SPT - 1
Sectors == UNION {{t} \X Slots(t) : t \in Tracks}
Places == [hd : Nat, trk : Nat, sec : Nat]
Count == SectorsPerBlock(Dpb)

ASSUME DiskAssumption ==
  /\ Dpb.SECS \in Nat \ {0} /\ Dpb.TRKS \in Nat \ {0} /\ Dpb.HDS \in Nat \ {0} /\ Dpb.BPS \in Nat \ {0}
  /\ Dpb.OFS \in Nat /\ Dpb.DSM \in Nat /\ Dpb.BLS \in Nat /\ Count \in Nat \ {0}
  /\ Dpb.order \in {"SIDES", "EAGLE", "CYLINDERS"}
  /\ Dpb.SEC1_side1 \in Nat /\ Dpb.SEC1_side2 \in Nat
  /\ \A t \in Tracks : TrackHeader[t].SPT \in Nat
  /\ [trk |-> 0, hd |-> 0] \in Tracks /\ None \notin Tracks \cup [trk : Nat, hd : Nat]
  /\ Blocks \subseteq Int /\ Filler \in Data
  /\ \A data \in Labels : data \in Seq(Data) /\ data # <<>>

TrackOf(p) == [trk |-> p.trk, hd |-> p.hd]
SlotIn(t, p, head) == get_sector_pos_in_track(TrackHeader[t], SectorId(Dpb, p.hd, p.sec), head)
Slot(t, p) == SlotIn(t, p, HeadValue(Dpb, p.hd))

-----------------------------------------------------------------------------
\* What is in memory, and what becomes of it: ok is the answer of the call,
\* abandoned whether abandonimage() was called.
Memory == [cur |-> cur, track |-> track, dirty |-> track_dirty, open |-> open]

\* Slip: only the tag is cleared.
free_image_data_tag(m) == [m EXCEPT !.open = FALSE]

free_image_data(m) == [m EXCEPT !.cur = None, !.track = <<>>, !.open = FALSE]

\* Slip: the offset of a track is that of its first side.
LoadedFirstSide(t) ==
  {[m |-> free_image_data(Memory), ok |-> FALSE]} \cup
  IF open THEN {[m |-> [Memory EXCEPT !.cur = t, !.track = image[[t EXCEPT !.hd = 0]],
                        !.dirty = FALSE], ok |-> TRUE]}
          ELSE {}

\* Slip: a read that fails halfway is taken for one that succeeded.
LoadedUnchecked(t) ==
  {[m |-> free_image_data(Memory), ok |-> FALSE]} \cup
  {[m |-> [Memory EXCEPT !.cur = t, !.dirty = FALSE,
             !.track = [s \in Slots(t) |-> IF s \in DOMAIN track THEN track[s] ELSE image[t][s]]],
    ok |-> TRUE] : x \in {open} \ {FALSE}}

\* The answers of a read of the file; a closed one fails.
Loaded(t) ==
  {[m |-> free_image_data(Memory), ok |-> FALSE]} \cup
  IF open THEN {[m |-> [Memory EXCEPT !.cur = t, !.track = image[t], !.dirty = FALSE], ok |-> TRUE]}
          ELSE {}

\* The track of p comes into the cache, whatever the cache holds; of a track
\* without data nothing is read; the file may fail, and does when it is closed.
read_track(p) ==
  IF cur = TrackOf(p) THEN {[m |-> Memory, ok |-> TRUE]}
  ELSE IF TrackOf(p) \notin Tracks THEN {[m |-> Memory, ok |-> FALSE]}
  ELSE Loaded(TrackOf(p))

\* Slip: a changed track is not looked at, it is left for later.
write_track_later(m) == {[m |-> m, image |-> image, ok |-> TRUE]}

\* Slip: after an error the image stays in use and the track is not dirty.
write_track_stays(m) ==
  IF m.cur = None \/ ~m.dirty THEN {[m |-> m, image |-> image, ok |-> TRUE]}
  ELSE {[m |-> [m EXCEPT !.dirty = FALSE], ok |-> ok,
         image |-> IF ok THEN [image EXCEPT ![m.cur] = m.track] ELSE image] : ok \in BOOLEAN}

\* The track in the cache m goes to the file; when that fails, some of its
\* first sectors may be there and the image is abandoned.
write_track(m) ==
  IF m.cur = None \/ ~m.dirty THEN {[m |-> m, image |-> image, ok |-> TRUE]}
  ELSE {[m |-> [m EXCEPT !.dirty = FALSE], image |-> [image EXCEPT ![m.cur] = m.track],
         ok |-> TRUE]}
       \cup {[m |-> free_image_data(m), ok |-> FALSE,
              image |-> [image EXCEPT ![m.cur] =
                           [s \in Slots(m.cur) |-> IF s < n THEN m.track[s] ELSE @[s]]]] :
             n \in Slots(m.cur)}

SetMemory(m) ==
  /\ cur' = m.cur /\ track' = m.track /\ track_dirty' = m.dirty /\ open' = m.open
  /\ cur_blk' = IF m.open THEN cur_blk ELSE -1

-----------------------------------------------------------------------------
NoBlock == [k \in 0 .. Count - 1 |-> None]
Idle == [op |-> "none"]
NoResult == [status |-> "none"]

Ready == job = Idle

Begin(op, blk, data, at) ==
  /\ job' = [op |-> op, blk |-> blk, data |-> data, at |-> at, filled |-> 0]
  /\ result' = NoResult

Answer(op, blk, data, status) ==
  /\ job' = Idle
  /\ result' = [op |-> op, blk |-> blk, data |-> data, status |-> status]

\* Slip: the place of a sector that is not there is tried again.
AdvanceWhenFilled(n) ==
  /\ job' = [job EXCEPT !.filled = @ + n, !.at = IF n = 0 THEN @ ELSE next_sector(Dpb, @)]
  /\ UNCHANGED result

\* The loops go on: n sectors were filled.
Advance(n) ==
  /\ job' = [job EXCEPT !.filled = @ + n, !.at = next_sector(Dpb, @)]
  /\ UNCHANGED result

InRange(blk) == blk >= 0 /\ blk < Dpb.DSM + 1

\* read_block(blk) up to its loop: the block may be in the buffer.
read_block(blk) ==
  /\ Ready /\ open
  /\ CASE blk = cur_blk -> Answer("read", blk, <<>>, "buffered")
       [] blk # cur_blk /\ ~InRange(blk) -> Answer("read", blk, <<>>, "null")
       [] OTHER -> Begin("read", blk, <<>>, calc_t_s_h(Dpb, blk))
  /\ UNCHANGED <<image, memory, block_buffer, cur_blk, asked, writes>>

\* Its loop, one sector.
ReadSector ==
  /\ job.op = "read"
  /\ \E r \in read_track(job.at) :
       LET s == IF r.ok THEN Slot(r.m.cur, job.at) ELSE -1
           last == job.filled + 1 >= Count
       IN /\ cur' = r.m.cur /\ track' = r.m.track /\ track_dirty' = r.m.dirty /\ open' = r.m.open
          /\ block_buffer' = IF s = -1 THEN block_buffer
                             ELSE [block_buffer EXCEPT ![job.filled] = r.m.track[s]]
          /\ cur_blk' = IF ~r.m.open THEN -1 ELSE IF s # -1 /\ last THEN job.blk ELSE cur_blk
          /\ IF s = -1 THEN Answer("read", job.blk, <<>>, "null")
             ELSE IF last THEN Answer("read", job.blk, <<>>, "read")
             ELSE Advance(1)
  /\ UNCHANGED <<image, asked, writes>>

\* write_block(blk, block_buffer) up to its loop; the data were put into the
\* buffer before, which cur_blk does not tell.
write_block(blk, data) ==
  /\ Ready /\ open /\ writes < MaxWrites /\ writes' = writes + 1
  /\ block_buffer' = data
  /\ IF InRange(blk) THEN Begin("write", blk, data, calc_t_s_h(Dpb, blk))
     ELSE Answer("write", blk, data, "null")
  /\ UNCHANGED <<image, memory, cur_blk, asked>>

\* Its loop, one sector.  The track goes to the file when it is left and at the
\* end; what write_track() answers is not looked at, and the loop goes on with
\* a parameter block that is gone when the image was abandoned.
WriteSector ==
  /\ job.op = "write"
  /\ \E r \in read_track(job.at) :
       LET s == IF r.ok THEN Slot(r.m.cur, job.at) ELSE -1
           next == next_sector(Dpb, job.at)
           last == job.filled + 1 >= Count
           changed == [r.m EXCEPT !.track[s] = job.data[job.filled], !.dirty = TRUE]
       IN IF s = -1
          THEN /\ SetMemory(r.m) /\ Answer("write", job.blk, job.data, "null")
               /\ UNCHANGED <<image, asked>>
          ELSE /\ asked' = [asked EXCEPT ![<<r.m.cur, s>>] = job.data[job.filled]]
               /\ IF ~last /\ TrackOf(next) = TrackOf(job.at)
                  THEN SetMemory(changed) /\ UNCHANGED image /\ Advance(1)
                  ELSE \E w \in write_track(changed) :
                         /\ SetMemory(w.m) /\ image' = w.image
                         /\ CASE ~w.ok /\ TrackOf(next) # TrackOf(job.at) ->
                                   Answer("write", job.blk, job.data, "crashed")
                              [] (w.ok \/ TrackOf(next) = TrackOf(job.at)) /\ last ->
                                   Answer("write", job.blk, job.data, "written")
                              [] OTHER -> Advance(1)
  /\ UNCHANGED <<block_buffer, writes>>

-----------------------------------------------------------------------------
\* write_label(): from the first sector of the disk, over those that are not
\* there, as long as there are tracks; not told whether an image is open.
write_label(data) ==
  /\ Ready /\ writes < MaxWrites /\ writes' = writes + 1
  /\ Begin("label", -1, data, [hd |-> 0, trk |-> 0, sec |-> 0])
  /\ UNCHANGED <<image, memory, block_buffer, cur_blk, asked>>

LabelSector ==
  /\ job.op = "label"
  /\ \E r \in read_track(job.at) :
       LET s == IF r.ok THEN Slot(r.m.cur, job.at) ELSE -1
           next == next_sector(Dpb, job.at)
           filled == IF s = -1 THEN job.filled ELSE job.filled + 1
           last == filled >= Len(job.data)
           changed == IF s = -1 THEN r.m
                      ELSE [r.m EXCEPT !.track[s] = job.data[filled], !.dirty = TRUE]
       IN IF ~r.ok
          THEN /\ SetMemory(r.m) /\ Answer("label", -1, job.data, "null")
               /\ UNCHANGED <<image, asked>>
          ELSE /\ asked' = IF s = -1 THEN asked
                           ELSE [asked EXCEPT ![<<r.m.cur, s>>] = job.data[filled]]
               /\ \E w \in IF last \/ TrackOf(next) # TrackOf(job.at) THEN write_track(changed)
                           ELSE {[m |-> changed, image |-> image]} :
                    SetMemory(w.m) /\ image' = w.image
               /\ IF last THEN Answer("label", -1, job.data, "written")
                  ELSE Advance(filled - job.filled)
  /\ UNCHANGED <<block_buffer, writes>>

\* DUMP <block>: what read_track() answers is not looked at, and the sectors
\* are looked up under the number of the side.
dump(blk) ==
  /\ Ready /\ open /\ InRange(blk)
  /\ Begin("dump", blk, <<>>, calc_t_s_h(Dpb, blk))
  /\ UNCHANGED <<image, memory, block_buffer, cur_blk, asked, writes>>

DumpSector ==
  /\ job.op = "dump"
  /\ \E r \in read_track(job.at) :
       LET s == IF r.m.cur = None THEN -1 ELSE SlotIn(r.m.cur, job.at, job.at.hd)
           shown == Append(job.data, r.m.track[s])
       IN /\ SetMemory(r.m)
          /\ IF s = -1 THEN Answer("dump", job.blk, job.data, "crashed")
             ELSE IF job.filled + 1 >= Count THEN Answer("dump", job.blk, shown, "read")
             ELSE /\ job' = [job EXCEPT !.filled = @ + 1, !.data = shown,
                                     !.at = next_sector(Dpb, @)]
                  /\ UNCHANGED result
  /\ UNCHANGED <<image, block_buffer, asked, writes>>

-----------------------------------------------------------------------------
Alive == result.status # "crashed"

\* CLOSE is Flush, the writes of put_directory() and Free; ABORT is Free.
Flush ==
  /\ Ready /\ open
  /\ \E w \in write_track(Memory) : SetMemory(w.m) /\ image' = w.image
  /\ result' = NoResult
  /\ UNCHANGED <<block_buffer, job, asked, writes>>

Free ==
  /\ Ready /\ open
  /\ SetMemory(free_image_data(Memory)) /\ result' = NoResult
  /\ UNCHANGED <<image, block_buffer, job, asked, writes>>

\* open_image(): the first track is read.
Open ==
  /\ Ready /\ ~open
  /\ open' = TRUE /\ result' = NoResult
  /\ cur' = [trk |-> 0, hd |-> 0] /\ track' = image[cur'] /\ track_dirty' = FALSE
  /\ block_buffer' = NoBlock
  /\ UNCHANGED <<image, cur_blk, job, asked, writes>>

\* The program ends without warning, and is started again.
Kill ==
  /\ job' = Idle /\ result' = NoResult
  /\ SetMemory(free_image_data(Memory))
  /\ UNCHANGED <<image, block_buffer, asked, writes>>

Init ==
  /\ image = [t \in Tracks |-> [s \in Slots(t) |-> Filler]]
  /\ open = FALSE /\ cur = None /\ track = <<>> /\ track_dirty = FALSE
  /\ block_buffer = NoBlock /\ cur_blk = -1
  /\ job = Idle /\ result = NoResult
  /\ asked = [s \in Sectors |-> Filler] /\ writes = 0

Calls ==
  \/ \E b \in Blocks : read_block(b) \/ dump(b)
  \/ \E b \in Blocks, data \in [0 .. Count - 1 -> Data] : write_block(b, data)
  \/ \E data \in Labels : write_label(data)
  \/ Flush \/ Free \/ Open

Step == ReadSector \/ WriteSector \/ LabelSector \/ DumpSector

Next == (Alive /\ (Calls \/ Step)) \/ Kill

Fairness == WF_vars(Alive /\ Step)

Spec == Init /\ [][Next]_vars /\ Fairness

-----------------------------------------------------------------------------
(***************************************************************************)
(* Properties.                                                             *)
(***************************************************************************)

TypeOK ==
  /\ DOMAIN image = Tracks /\ \A t \in Tracks : image[t] \in [Slots(t) -> Data]
  /\ open \in BOOLEAN /\ track_dirty \in BOOLEAN
  /\ cur # None => cur \in Tracks /\ open /\ DOMAIN track = Slots(cur)
  /\ cur_blk \in -1 .. Dpb.DSM
  /\ job # Idle => job.at \in Places /\ job.filled \in Nat

\* As long as the track in the cache was not changed it is what the file holds:
\* no flush, failure or reload leaves an old copy to be written later.
TrackCoherent == (cur # None /\ ~track_dirty) => track = image[cur]

Places_of(blk) == BlockSectors(Dpb, blk)
SectorAt(p) == <<TrackOf(p), Slot(TrackOf(p), p)>>

\* When write_block() has answered with its buffer and the image is still in
\* use, the file holds the whole block: the part on the track that was left in
\* the middle of it as well.  (write_track()'s answer is not looked at: with
\* the image abandoned the same answer comes though nothing was written.)
WriteReachesImage ==
  (result # NoResult /\ result.op = "write" /\ result.status = "written" /\ open) =>
    \A k \in 0 .. Count - 1 :
      LET s == SectorAt(Places_of(result.blk)[k]) IN image[s[1]][s[2]] = result.data[k]

\* A block that read_block() or DUMP has read from the file holds, in each
\* sector, what is in the file there or what was last asked to be there.
\* (DUMP of a block with a track that is not there shows another track.)
ReadDelivers ==
  (result # NoResult /\ result.status = "read") =>
    \A k \in 0 .. Count - 1 :
      LET p == Places_of(result.blk)[k]
          s == SectorAt(p)
          data == IF result.op = "dump" THEN result.data[k + 1] ELSE block_buffer[k]
      IN TrackOf(p) \in Tracks => data \in {image[s[1]][s[2]], asked[s]}

\* Whatever fails and whenever the program is killed, a sector of the file only
\* ever changes into what it was last asked to hold: no sector gets the data of
\* another one, and none is lost that nobody has written to.
OnlyAskedChanges ==
  [][\A s \in Sectors : image'[s[1]][s[2]] \in {image[s[1]][s[2]], asked'[s]}]_vars

\* Every call comes to its end: a block after its sectors, a label at the latest
\* behind the last track, however many sectors are missing.
CallsReturn == (job # Idle) ~> (job = Idle)

=============================================================================
