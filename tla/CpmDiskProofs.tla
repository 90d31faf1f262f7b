---------------------------- MODULE CpmDiskProofs ----------------------------
(***************************************************************************)
(* The cache of one track, for every geometry, every header of an image    *)
(* and any number of calls: it never goes stale, and a sector of the image *)
(* only changes into what it was asked to hold.  That no loop of a call    *)
(* leaves the cache with data of another track is the inductive invariant  *)
(* CacheOK; Fits says it of any memory between two steps of a loop.  That  *)
(* a block arrives whole in the image, and comes back as it is there, is   *)
(* BlockIInv: it follows a call from sector to sector of its block, which  *)
(* BlockWalk and NextIsBehind show to be different ones.                   *)
(***************************************************************************)
EXTENDS CpmDisk, Numbers, TLAPS

\* A memory m: the fields that SetMemory stores.
Shaped(m) == m = [cur |-> m.cur, track |-> m.track, dirty |-> m.dirty, open |-> m.open]

\* An image has a sector of data for every sector of its tracks.
Complete(img) == img = [t \in Tracks |-> [s \in Slots(t) |-> img[t][s]]]

\* The cache of m fits the image img and what was asked for.
Fits(m, img, ask) ==
  m.cur # None =>
    /\ m.cur \in Tracks /\ m.open
    /\ m.track = [s \in Slots(m.cur) |-> m.track[s]]
    /\ \A s \in Slots(m.cur) : m.track[s] \in {img[m.cur][s], ask[<<m.cur, s>>]}
    /\ ~m.dirty => m.track = img[m.cur]

CacheOK ==
  /\ Complete(image)
  /\ asked = [s \in Sectors |-> asked[s]]
  /\ Fits(Memory, image, asked)

\* A sector of the cache is changed.
Change(m, s, d) == [m EXCEPT !.track[s] = d, !.dirty = TRUE]

\* What a step may do to the image.
Allowed(img, ask) == \A s \in Sectors : img[s[1]][s[2]] \in {image[s[1]][s[2]], ask[s]}

-----------------------------------------------------------------------------
LEMMA MemoryShaped == Shaped(Memory)
BY DEF Shaped, Memory

\* An abandoned image has no cache.
LEMMA Freed ==
  ASSUME NEW m, Shaped(m), NEW img, NEW ask
  PROVE  /\ Shaped(free_image_data(m)) /\ Fits(free_image_data(m), img, ask)
         /\ free_image_data(m).cur = None
<1>1. ASSUME NEW c, c = [m EXCEPT !.cur = None, !.track = <<>>, !.open = FALSE]
      PROVE  Shaped(c) /\ c.cur = None
  <2>1. c.cur = None /\ c.track = <<>> /\ c.open = FALSE /\ c.dirty = m.dirty
    BY <1>1 DEF Shaped
  <2>2. c = [cur |-> c.cur, track |-> c.track, dirty |-> c.dirty, open |-> c.open]
    BY <1>1 DEF Shaped
  <2> QED
    BY <2>1, <2>2 DEF Shaped
<1> QED
  BY <1>1 DEF free_image_data, Fits

\* Whatever read_track() answers, the cache fits.
LEMMA ReadTrackFits ==
  ASSUME CacheOK, NEW p, NEW r \in read_track(p)
  PROVE  Shaped(r.m) /\ Fits(r.m, image, asked)
<1>1. CASE r.m = Memory
  BY <1>1, MemoryShaped DEF CacheOK
<1>2. CASE r.m = free_image_data(Memory)
  BY <1>2, Freed, MemoryShaped
<1>3. CASE /\ TrackOf(p) \in Tracks /\ open
           /\ r.m = [Memory EXCEPT !.cur = TrackOf(p), !.track = image[TrackOf(p)], !.dirty = FALSE]
  <2>1. /\ r.m.cur = TrackOf(p) /\ r.m.track = image[TrackOf(p)] /\ r.m.open
        /\ Shaped(r.m)
    BY <1>3 DEF Memory, Shaped
  <2>2. image[TrackOf(p)] = [s \in Slots(TrackOf(p)) |-> image[TrackOf(p)][s]]
    BY <1>3 DEF CacheOK, Complete
  <2> QED
    BY <2>1, <2>2, <1>3 DEF Fits
<1> QED
  BY <1>1, <1>2, <1>3 DEF read_track, Loaded

\* A sector of the cache is changed to what it is asked to hold.
LEMMA ChangedFits ==
  ASSUME NEW m, Shaped(m), Complete(image), asked = [x \in Sectors |-> asked[x]],
         Fits(m, image, asked), NEW s, NEW d,
         NEW c, c = [m EXCEPT !.track[s] = d, !.dirty = TRUE],
         NEW ask, ask = [asked EXCEPT ![<<m.cur, s>>] = d]
  PROVE  Shaped(c) /\ Fits(c, image, ask) /\ ask = [x \in Sectors |-> ask[x]]
<1>1. /\ c.cur = m.cur /\ c.open = m.open /\ c.dirty = TRUE
      /\ c.track = [m.track EXCEPT ![s] = d] /\ Shaped(c)
  BY DEF Shaped
<1>2. ask = [x \in Sectors |-> ask[x]]
  OBVIOUS
<1>3. ASSUME m.cur # None
      PROVE  /\ c.track = [x \in Slots(c.cur) |-> c.track[x]]
             /\ \A x \in Slots(c.cur) : c.track[x] \in {image[c.cur][x], ask[<<c.cur, x>>]}
  <2>1. m.cur \in Tracks /\ m.track = [x \in Slots(m.cur) |-> m.track[x]]
    BY <1>3 DEF Fits
  <2>2. c.track = [x \in Slots(c.cur) |-> c.track[x]]
    BY <1>1, <2>1
  <2>3. ASSUME NEW x \in Slots(c.cur)
        PROVE  c.track[x] \in {image[c.cur][x], ask[<<c.cur, x>>]}
    <3>1. <<m.cur, x>> \in Sectors
      BY <1>1, <2>1, <2>3 DEF Sectors
    <3>2. CASE x = s
      BY <3>1, <3>2, <1>1, <2>1, <2>3
    <3>3. CASE x # s
      <4>1. c.track[x] = m.track[x]
        BY <3>3, <1>1, <2>1
      <4>2. ask[<<c.cur, x>>] = asked[<<m.cur, x>>]
        BY <3>1, <3>3, <1>1
      <4> QED
        BY <4>1, <4>2, <1>1, <1>3, <2>3 DEF Fits
    <3> QED
      BY <3>2, <3>3
  <2> QED
    BY <2>2, <2>3
<1> QED
  BY <1>1, <1>2, <1>3 DEF Fits

LEMMA WriteTrackShaped ==
  ASSUME NEW m, Shaped(m), NEW w \in write_track(m)
  PROVE  Shaped(w.m)
<1>1. CASE w.m = [m EXCEPT !.dirty = FALSE]
  <2>1. ASSUME NEW c, c = [m EXCEPT !.dirty = FALSE] PROVE Shaped(c)
    <3>1. c.cur = m.cur /\ c.track = m.track /\ c.open = m.open /\ c.dirty = FALSE
      BY <2>1 DEF Shaped
    <3> QED
      BY <2>1, <3>1 DEF Shaped
  <2> QED
    BY <1>1, <2>1
<1>2. CASE w.m = m
  BY <1>2
<1>3. CASE w.m = free_image_data(m)
  BY <1>3, Freed
<1>4. w.m = m \/ w.m = [m EXCEPT !.dirty = FALSE] \/ w.m = free_image_data(m)
  <2>1. CASE m.cur = None \/ ~m.dirty
    BY <2>1 DEF write_track
  <2>2. CASE ~(m.cur = None \/ ~m.dirty)
    <3>1. CASE w = [m |-> [m EXCEPT !.dirty = FALSE], ok |-> TRUE,
                    image |-> [image EXCEPT ![m.cur] = m.track]]
      BY <3>1
    <3>2. CASE \E n \in Slots(m.cur) :
                 w = [m |-> free_image_data(m), ok |-> FALSE,
                      image |-> [image EXCEPT ![m.cur] =
                                   [s \in Slots(m.cur) |-> IF s < n THEN m.track[s] ELSE @[s]]]]
      BY <3>2
    <3> QED
      BY <2>2, <3>1, <3>2 DEF write_track
  <2> QED
    BY <2>1, <2>2
<1> QED
  BY <1>1, <1>2, <1>3, <1>4

\* Whatever write_track() answers and leaves on the image, the cache fits, and
\* only what was asked for has changed.
LEMMA WriteTrackFits ==
  ASSUME NEW m, Shaped(m), Complete(image), NEW ask, Fits(m, image, ask), NEW w \in write_track(m)
  PROVE  Shaped(w.m) /\ Complete(w.image) /\ Fits(w.m, w.image, ask) /\ Allowed(w.image, ask)
<1>1. CASE m.cur = None \/ ~m.dirty
  BY <1>1 DEF write_track, Allowed
<1>2. CASE ~(m.cur = None \/ ~m.dirty)
  <2>0. /\ m.cur \in Tracks /\ m.cur # None /\ m.open
        /\ m.track = [s \in Slots(m.cur) |-> m.track[s]]
        /\ \A s \in Slots(m.cur) : m.track[s] \in {image[m.cur][s], ask[<<m.cur, s>>]}
    BY <1>2 DEF Fits
  <2>1. ASSUME NEW f, f = [s \in Slots(m.cur) |-> f[s]],
               \A s \in Slots(m.cur) : f[s] \in {image[m.cur][s], ask[<<m.cur, s>>]},
               w.image = [image EXCEPT ![m.cur] = f]
        PROVE  Complete(w.image) /\ Allowed(w.image, ask) /\ w.image[m.cur] = f
    <3>1. w.image = [t \in Tracks |-> IF t = m.cur THEN f ELSE image[t]]
      BY <2>0, <2>1 DEF Complete
    <3>2. Complete(w.image)
      <4>1. \A t \in Tracks : w.image[t] = [s \in Slots(t) |-> w.image[t][s]]
        <5>1. \A t \in Tracks : image[t] = [s \in Slots(t) |-> image[t][s]]
          BY DEF Complete
        <5>2. TAKE t \in Tracks
        <5>3. CASE t = m.cur
          BY <2>1, <3>1, <5>3
        <5>4. CASE t # m.cur
          BY <3>1, <5>1, <5>4
        <5> QED
          BY <5>3, <5>4
      <4>2. w.image = [t \in Tracks |-> w.image[t]]
        BY <3>1
      <4> QED
        BY <4>1, <4>2 DEF Complete
    <3>3. ASSUME NEW s \in Sectors
          PROVE  w.image[s[1]][s[2]] \in {image[s[1]][s[2]], ask[s]}
      <4>1. PICK t \in Tracks : s \in {t} \X Slots(t)
        BY <3>3 DEF Sectors
      <4>2. s = <<t, s[2]>> /\ s[1] = t /\ s[2] \in Slots(t)
        BY <4>1
      <4>3. CASE t = m.cur
        BY <4>2, <4>3, <3>1, <2>1, <2>0
      <4>4. CASE t # m.cur
        BY <4>2, <4>4, <3>1
      <4> QED
        BY <4>3, <4>4
    <3> QED
      BY <3>1, <3>2, <3>3, <2>0 DEF Allowed
  <2>2. CASE w = [m |-> [m EXCEPT !.dirty = FALSE], image |-> [image EXCEPT ![m.cur] = m.track],
                  ok |-> TRUE]
    <3>1. Complete(w.image) /\ Allowed(w.image, ask) /\ w.image[m.cur] = m.track
      BY <2>0, <2>1, <2>2
    <3>2. /\ w.m.cur = m.cur /\ w.m.track = m.track /\ w.m.open = m.open
          /\ Shaped(w.m)
      BY <2>2 DEF Shaped
    <3> QED
      BY <3>1, <3>2, <2>0 DEF Fits
  <2>3. CASE \E n \in Slots(m.cur) :
               w = [m |-> free_image_data(m), ok |-> FALSE,
                    image |-> [image EXCEPT ![m.cur] =
                                 [s \in Slots(m.cur) |-> IF s < n THEN m.track[s] ELSE @[s]]]]
    <3>1. PICK n \in Slots(m.cur) :
               w = [m |-> free_image_data(m), ok |-> FALSE,
                    image |-> [image EXCEPT ![m.cur] =
                                 [s \in Slots(m.cur) |-> IF s < n THEN m.track[s] ELSE @[s]]]]
      BY <2>3
    <3> DEFINE f == [s \in Slots(m.cur) |-> IF s < n THEN m.track[s] ELSE image[m.cur][s]]
    <3>2. w.image = [image EXCEPT ![m.cur] = f] /\ w.m = free_image_data(m)
      BY <3>1, <2>0
    <3>3. /\ f = [s \in Slots(m.cur) |-> f[s]]
          /\ \A s \in Slots(m.cur) : f[s] \in {image[m.cur][s], ask[<<m.cur, s>>]}
      BY <2>0
    <3>4. Complete(w.image) /\ Allowed(w.image, ask)
      <4> HIDE DEF f
      <4> QED
        BY <2>1, <3>2, <3>3
    <3> QED
      BY <3>2, <3>4, Freed
  <2> QED
    BY <1>2, <2>2, <2>3 DEF write_track
<1> QED
  BY <1>1, <1>2

-----------------------------------------------------------------------------
\* A memory that is stored is the memory of the next state.
LEMMA Stored ==
  ASSUME NEW m, Shaped(m), SetMemory(m)
  PROVE  Memory' = m
BY DEF Shaped, SetMemory, Memory

LEMMA ReadSectorFits ==
  ASSUME CacheOK, ReadSector PROVE CacheOK' /\ Allowed(image', asked')
<1>1. PICK r \in read_track(job.at) :
        /\ cur' = r.m.cur /\ track' = r.m.track /\ track_dirty' = r.m.dirty /\ open' = r.m.open
  BY DEF ReadSector
<1>2. Shaped(r.m) /\ Fits(r.m, image, asked)
  BY ReadTrackFits
<1>3. Memory' = r.m
  BY <1>1, <1>2 DEF Shaped, Memory
<1>4. image' = image /\ asked' = asked
  BY DEF ReadSector
<1> QED
  BY <1>2, <1>3, <1>4 DEF CacheOK, Allowed

LEMMA WriteSectorFits ==
  ASSUME CacheOK, WriteSector PROVE CacheOK' /\ Allowed(image', asked')
<1> DEFINE s(r) == IF r.ok THEN Slot(r.m.cur, job.at) ELSE -1
           c(r) == [r.m EXCEPT !.track[s(r)] = job.data[job.filled], !.dirty = TRUE]
           a(r) == [asked EXCEPT ![<<r.m.cur, s(r)>>] = job.data[job.filled]]
<1>1. PICK r \in read_track(job.at) :
        \/ SetMemory(r.m) /\ UNCHANGED <<image, asked>>
        \/ /\ asked' = a(r)
           /\ \/ SetMemory(c(r)) /\ UNCHANGED image
              \/ \E w \in write_track(c(r)) : SetMemory(w.m) /\ image' = w.image
  BY DEF WriteSector
<1>2. Shaped(r.m) /\ Fits(r.m, image, asked)
  BY ReadTrackFits
<1>3. Shaped(c(r)) /\ Fits(c(r), image, a(r)) /\ a(r) = [x \in Sectors |-> a(r)[x]]
  BY <1>2, ChangedFits DEF CacheOK
<1> HIDE DEF s, c, a
<1>4. CASE SetMemory(r.m) /\ UNCHANGED <<image, asked>>
  BY <1>2, <1>4, Stored DEF CacheOK, Allowed
<1>5. CASE asked' = a(r) /\ SetMemory(c(r)) /\ UNCHANGED image
  BY <1>3, <1>5, Stored DEF CacheOK, Allowed
<1>6. CASE asked' = a(r) /\ \E w \in write_track(c(r)) : SetMemory(w.m) /\ image' = w.image
  <2>1. PICK w \in write_track(c(r)) : SetMemory(w.m) /\ image' = w.image
    BY <1>6
  <2>2. Shaped(w.m) /\ Complete(w.image) /\ Fits(w.m, w.image, a(r)) /\ Allowed(w.image, a(r))
    BY <1>3, WriteTrackFits DEF CacheOK
  <2> QED
    BY <1>3, <1>6, <2>1, <2>2, Stored DEF CacheOK
<1> QED
  BY <1>1, <1>4, <1>5, <1>6

LEMMA LabelSectorFits ==
  ASSUME CacheOK, LabelSector PROVE CacheOK' /\ Allowed(image', asked')
<1> DEFINE s(r) == IF r.ok THEN Slot(r.m.cur, job.at) ELSE -1
           d(r) == job.data[IF s(r) = -1 THEN job.filled ELSE job.filled + 1]
           c(r) == IF s(r) = -1 THEN r.m ELSE [r.m EXCEPT !.track[s(r)] = d(r), !.dirty = TRUE]
           a(r) == IF s(r) = -1 THEN asked ELSE [asked EXCEPT ![<<r.m.cur, s(r)>>] = d(r)]
<1>1. PICK r \in read_track(job.at) :
        \/ SetMemory(r.m) /\ UNCHANGED <<image, asked>>
        \/ /\ asked' = a(r)
           /\ \E w \in write_track(c(r)) \cup {[m |-> c(r), image |-> image]} :
                SetMemory(w.m) /\ image' = w.image
  BY DEF LabelSector
<1>2. Shaped(r.m) /\ Fits(r.m, image, asked)
  BY ReadTrackFits
<1>3. Shaped(c(r)) /\ Fits(c(r), image, a(r)) /\ a(r) = [x \in Sectors |-> a(r)[x]]
  <2>1. CASE s(r) = -1
    BY <1>2, <2>1 DEF CacheOK
  <2>2. CASE s(r) # -1
    BY <1>2, <2>2, ChangedFits DEF CacheOK
  <2> QED
    BY <2>1, <2>2
<1> HIDE DEF s, d, c, a
<1>4. CASE SetMemory(r.m) /\ UNCHANGED <<image, asked>>
  BY <1>2, <1>4, Stored DEF CacheOK, Allowed
<1>5. CASE /\ asked' = a(r)
           /\ \E w \in write_track(c(r)) \cup {[m |-> c(r), image |-> image]} :
                SetMemory(w.m) /\ image' = w.image
  <2>1. PICK w \in write_track(c(r)) \cup {[m |-> c(r), image |-> image]} :
               SetMemory(w.m) /\ image' = w.image
    BY <1>5
  <2>2. Shaped(w.m) /\ Complete(w.image) /\ Fits(w.m, w.image, a(r)) /\ Allowed(w.image, a(r))
    <3>1. CASE w \in write_track(c(r))
      BY <3>1, <1>3, WriteTrackFits DEF CacheOK
    <3>2. CASE w = [m |-> c(r), image |-> image]
      BY <3>2, <1>3 DEF CacheOK, Allowed
    <3> QED
      BY <2>1, <3>1, <3>2
  <2> QED
    BY <1>3, <1>5, <2>1, <2>2, Stored DEF CacheOK
<1> QED
  BY <1>1, <1>4, <1>5

LEMMA DumpSectorFits ==
  ASSUME CacheOK, DumpSector PROVE CacheOK' /\ Allowed(image', asked')
<1>1. PICK r \in read_track(job.at) : SetMemory(r.m)
  BY DEF DumpSector
<1>2. Shaped(r.m) /\ Fits(r.m, image, asked)
  BY ReadTrackFits
<1>3. image' = image /\ asked' = asked
  BY DEF DumpSector
<1> QED
  BY <1>1, <1>2, <1>3, Stored DEF CacheOK, Allowed

LEMMA FlushFits ==
  ASSUME CacheOK, Flush PROVE CacheOK' /\ Allowed(image', asked')
<1>1. PICK w \in write_track(Memory) : SetMemory(w.m) /\ image' = w.image
  BY DEF Flush
<1>2. Shaped(w.m) /\ Complete(w.image) /\ Fits(w.m, w.image, asked) /\ Allowed(w.image, asked)
  BY MemoryShaped, WriteTrackFits DEF CacheOK
<1>3. asked' = asked
  BY DEF Flush
<1> QED
  BY <1>1, <1>2, <1>3, Stored DEF CacheOK

LEMMA FreeFits ==
  ASSUME CacheOK, SetMemory(free_image_data(Memory)), UNCHANGED <<image, asked>>
  PROVE  CacheOK' /\ Allowed(image', asked')
<1>1. Memory' = free_image_data(Memory)
  BY Freed, MemoryShaped, Stored
<1> QED
  BY <1>1, Freed, MemoryShaped DEF CacheOK, Allowed

LEMMA OpenFits ==
  ASSUME CacheOK, Open PROVE CacheOK' /\ Allowed(image', asked')
<1>1. /\ Memory'.cur = [trk |-> 0, hd |-> 0] /\ Memory'.track = image[Memory'.cur]
      /\ Memory'.open /\ image' = image /\ asked' = asked
  BY DEF Open, Memory
<1>2. [trk |-> 0, hd |-> 0] \in Tracks
  BY DiskAssumption
<1>3. image[Memory'.cur] = [s \in Slots(Memory'.cur) |-> image[Memory'.cur][s]]
  BY <1>1, <1>2 DEF CacheOK, Complete
<1> QED
  BY <1>1, <1>2, <1>3 DEF CacheOK, Fits, Allowed

\* Every step of every call keeps the cache fitting.
LEMMA CacheNext ==
  ASSUME CacheOK, [Next]_vars PROVE CacheOK' /\ Allowed(image', asked')
<1>1. ASSUME UNCHANGED <<image, memory, asked>> PROVE CacheOK' /\ Allowed(image', asked')
  BY <1>1 DEF memory, CacheOK, Memory, Allowed
<1>2. CASE \E b \in Blocks : read_block(b) \/ dump(b)
  BY <1>1, <1>2 DEF read_block, dump
<1>3. CASE \E b \in Blocks, data \in [0 .. Count - 1 -> Data] : write_block(b, data)
  BY <1>1, <1>3 DEF write_block
<1>4. CASE \E data \in Labels : write_label(data)
  BY <1>1, <1>4 DEF write_label
<1>5. CASE Flush
  BY <1>5, FlushFits
<1>6. CASE Free \/ Kill
  BY <1>6, FreeFits DEF Free, Kill
<1>7. CASE Open
  BY <1>7, OpenFits
<1>8. CASE Step
  BY <1>8, ReadSectorFits, WriteSectorFits, LabelSectorFits, DumpSectorFits DEF Step
<1>9. CASE UNCHANGED vars
  BY <1>1, <1>9 DEF vars
<1> QED
  BY <1>2, <1>3, <1>4, <1>5, <1>6, <1>7, <1>8, <1>9 DEF Next, Calls

LEMMA CacheInit == Init => CacheOK
BY DEF Init, CacheOK, Complete, Fits, Memory

\* The inductive invariant: the cache holds a track of the image that is in
\* use, each of its sectors as in the image or as last asked for, and all of
\* them as in the image while it is not dirty (read_track, write_track).
THEOREM CacheInvariant == Spec => []CacheOK
<1>1. CacheOK /\ [Next]_vars => CacheOK'
  BY CacheNext
<1> QED
  BY <1>1, CacheInit, PTL DEF Spec

\* A clean cache is never stale: no flush, failed access, reload or kill leaves
\* an old copy behind that is later taken for the track (fs.c:568, 602).
THEOREM CacheCoherent == Spec => []TrackCoherent
<1>1. CacheOK => TrackCoherent
  BY DEF CacheOK, Fits, Memory, TrackCoherent
<1> QED
  BY <1>1, CacheInvariant, PTL

\* Whatever fails and whenever the program is killed, a sector of the image only
\* changes into what it was last asked to hold (write_track, write_block,
\* write_label).
THEOREM SectorsChangeAsAsked == Spec => OnlyAskedChanges
<1>1. CacheOK /\ [Next]_vars =>
        [\A s \in Sectors : image'[s[1]][s[2]] \in {image[s[1]][s[2]], asked'[s]}]_vars
  BY CacheNext DEF Allowed
<1> QED
  BY <1>1, CacheInvariant, PTL DEF Spec, OnlyAskedChanges

-----------------------------------------------------------------------------
\* A sector is filled with data.
Holds(img) == \A t \in Tracks : img[t] \in [Slots(t) -> Data]

Typed(m) ==
  /\ m.open \in BOOLEAN /\ m.dirty \in BOOLEAN
  /\ m.cur # None => m.track \in [Slots(m.cur) -> Data]

\* The call that is running goes from place to place, and takes its data from
\* inside its block or label.
JobOK ==
  job # Idle =>
    /\ job = [op |-> job.op, blk |-> job.blk, data |-> job.data, at |-> job.at,
              filled |-> job.filled]
    /\ job.at \in Places /\ job.filled \in Nat
    /\ job.op = "read" => job.blk \in 0 .. Dpb.DSM
    /\ job.op = "write" => job.data \in [0 .. Count - 1 -> Data] /\ job.filled < Count
    /\ job.op = "label" => job.data \in Seq(Data) /\ job.filled < Len(job.data)

CacheTypeOK ==
  /\ CacheOK /\ JobOK
  /\ Holds(image) /\ Typed(Memory)
  /\ cur_blk \in -1 .. Dpb.DSM

LEMMA QuotientAndRest ==
  ASSUME NEW a \in Nat, NEW b \in Nat \ {0}
  PROVE  a \div b \in Nat /\ a % b \in Nat /\ a % b < b
OBVIOUS

LEMMA Dimensions ==
  /\ Dpb.SECS \in Nat \ {0} /\ Dpb.TRKS \in Nat \ {0} /\ Dpb.HDS \in Nat \ {0}
  /\ Dpb.BPS \in Nat \ {0} /\ Dpb.OFS \in Nat /\ Dpb.BLS \in Nat
BY DiskAssumption

\* The loops never leave the numbers of sides, tracks and sectors.
LEMMA PlaceOfBlock ==
  ASSUME NEW blk \in Nat
  PROVE  calc_t_s_h(Dpb, blk) \in Places
<1> DEFINE offset == (blk * Dpb.BLS) \div Dpb.BPS
           t == offset \div Dpb.SECS + Dpb.OFS
<1>1. offset \in Nat
  <2>1. blk * Dpb.BLS \in Nat
    BY Dimensions
  <2> QED
    BY <2>1, QuotientAndRest, Dimensions
<1>2. offset \div Dpb.SECS \in Nat /\ offset % Dpb.SECS \in Nat
  <2> HIDE DEF offset
  <2> QED
    BY <1>1, QuotientAndRest, Dimensions
<1>3. t \in Nat
  <2> HIDE DEF offset
  <2> QED
    BY <1>2, Dimensions
<1>4. /\ t % Dpb.HDS \in Nat /\ t \div Dpb.HDS \in Nat /\ t \div Dpb.TRKS \in Nat
      /\ t % Dpb.TRKS \in Nat /\ Dpb.TRKS - (t % Dpb.TRKS) \in Nat
  <2> HIDE DEF t
  <2>1. t % Dpb.HDS \in Nat /\ t \div Dpb.HDS \in Nat
    BY <1>3, QuotientAndRest, Dimensions
  <2>2. t \div Dpb.TRKS \in Nat /\ t % Dpb.TRKS \in Nat /\ t % Dpb.TRKS < Dpb.TRKS
    BY <1>3, QuotientAndRest, Dimensions
  <2>3. ASSUME NEW x \in Nat, x < Dpb.TRKS PROVE Dpb.TRKS - x \in Nat
    BY <2>3, Dimensions
  <2> QED
    BY <2>1, <2>2, <2>3
<1>5. calc_t_s_h(Dpb, blk) =
        CASE Dpb.order = "SIDES" ->
               [hd |-> t % Dpb.HDS, trk |-> t \div Dpb.HDS, sec |-> offset % Dpb.SECS]
          [] Dpb.order = "EAGLE" ->
               [hd |-> t \div Dpb.TRKS, trk |-> t % Dpb.TRKS, sec |-> offset % Dpb.SECS]
          [] Dpb.order = "CYLINDERS" ->
               [hd |-> t \div Dpb.TRKS, sec |-> offset % Dpb.SECS,
                trk |-> IF (t \div Dpb.TRKS) % 2 = 1 THEN Dpb.TRKS - (t % Dpb.TRKS)
                                                     ELSE t % Dpb.TRKS]
  BY DEF calc_t_s_h
<1> HIDE DEF offset, t
<1> QED
  BY <1>2, <1>4, <1>5, DiskAssumption DEF Places

LEMMA Place ==
  ASSUME NEW p \in Places
  PROVE  /\ p.hd \in Nat /\ p.trk \in Nat /\ p.sec \in Nat
         /\ \A x \in Nat : /\ [p EXCEPT !.sec = x] \in Places
                           /\ [p EXCEPT !.hd = x] \in Places /\ [p EXCEPT !.trk = x] \in Places
         /\ \A x, y \in Nat : [p EXCEPT !.hd = x, !.trk = y] \in Places
BY DEF Places

LEMMA Steps ==
  /\ \A x \in Nat : x + 1 \in Nat /\ (~(x - 1 < 0) => x - 1 \in Nat) /\ x % 2 \in {0, 1}
  /\ \A x \in Nat, y \in Nat \ {0} : y - 1 \in Nat /\ (~(x + 1 < y) => x + 1 - y \in Nat)
OBVIOUS

LEMMA NextPlace ==
  ASSUME NEW p \in Places
  PROVE  next_sector(Dpb, p) \in Places
<1>1. ASSUME NEW q \in Places PROVE NextTrack(Dpb, q) \in Places
  <2>1. q.hd \in Nat /\ q.trk \in Nat
    BY Place
  <2>2. /\ q.hd + 1 \in Nat /\ q.trk + 1 \in Nat /\ Dpb.TRKS - 1 \in Nat /\ q.hd % 2 \in {0, 1}
        /\ ~(q.trk - 1 < 0) => q.trk - 1 \in Nat
    BY <2>1, Steps, Dimensions
  <2>3. CASE Dpb.order = "SIDES"
    BY <2>2, <2>3, Place DEF NextTrack
  <2>4. CASE Dpb.order = "EAGLE"
    BY <2>2, <2>4, Place DEF NextTrack
  <2>5. CASE Dpb.order = "CYLINDERS" /\ q.hd % 2 = 0
    <3>1. NextTrack(Dpb, q) = IF q.trk + 1 > Dpb.TRKS
                              THEN [q EXCEPT !.trk = Dpb.TRKS - 1, !.hd = q.hd + 1]
                              ELSE [q EXCEPT !.trk = q.trk + 1]
      BY <2>5 DEF NextTrack
    <3>2. CASE q.trk + 1 > Dpb.TRKS
      <4>1. [q EXCEPT !.trk = Dpb.TRKS - 1, !.hd = q.hd + 1] \in Places
        BY <2>2 DEF Places
      <4> QED
        BY <3>1, <3>2, <4>1
    <3>3. CASE ~(q.trk + 1 > Dpb.TRKS)
      BY <3>1, <3>3, <2>2, Place
    <3> QED
      BY <3>2, <3>3
  <2>6. CASE Dpb.order = "CYLINDERS" /\ q.hd % 2 = 1
    <3>1. NextTrack(Dpb, q) = IF q.trk - 1 < 0
                              THEN [q EXCEPT !.trk = 1, !.hd = q.hd + 1]
                              ELSE [q EXCEPT !.trk = q.trk - 1]
      BY <2>6 DEF NextTrack
    <3>2. CASE q.trk - 1 < 0
      <4>1. [q EXCEPT !.trk = 1, !.hd = q.hd + 1] \in Places
        BY <2>2 DEF Places
      <4> QED
        BY <3>1, <3>2, <4>1
    <3>3. CASE ~(q.trk - 1 < 0)
      BY <3>1, <3>3, <2>2, Place
    <3> QED
      BY <3>2, <3>3
  <2> QED
    BY <2>2, <2>3, <2>4, <2>5, <2>6, DiskAssumption
<1>2. p.sec + 1 \in Nat /\ (~(p.sec + 1 < Dpb.SECS) => p.sec + 1 - Dpb.SECS \in Nat)
  <2>1. p.sec \in Nat
    BY Place
  <2> QED
    BY <2>1, Steps, Dimensions
<1> QED
  BY <1>1, <1>2, Place DEF next_sector

-----------------------------------------------------------------------------
LEMMA MemoryTyped == ASSUME CacheTypeOK PROVE Typed(Memory)
BY DEF CacheTypeOK

LEMMA FreedTyped ==
  ASSUME NEW m, Shaped(m), Typed(m)
  PROVE  Typed(free_image_data(m))
<1>1. ASSUME NEW c, c = [m EXCEPT !.cur = None, !.track = <<>>, !.open = FALSE]
      PROVE  c.cur = None /\ c.open = FALSE /\ c.dirty = m.dirty
  BY <1>1 DEF Shaped
<1> QED
  BY <1>1 DEF free_image_data, Typed

LEMMA ReadTrackTyped ==
  ASSUME CacheTypeOK, NEW p, NEW r \in read_track(p)
  PROVE  Typed(r.m)
<1>1. CASE r.m = Memory
  BY <1>1 DEF CacheTypeOK
<1>2. CASE r.m = free_image_data(Memory)
  BY <1>2, FreedTyped, MemoryShaped DEF CacheTypeOK
<1>3. CASE /\ TrackOf(p) \in Tracks /\ open
           /\ r.m = [Memory EXCEPT !.cur = TrackOf(p), !.track = image[TrackOf(p)], !.dirty = FALSE]
  <2>1. /\ r.m.cur = TrackOf(p) /\ r.m.track = image[TrackOf(p)] /\ r.m.open = open
        /\ r.m.dirty = FALSE
    BY <1>3 DEF Memory
  <2>2. open \in BOOLEAN
    BY DEF CacheTypeOK, Typed, Memory
  <2> QED
    BY <2>1, <2>2, <1>3 DEF Typed, CacheTypeOK, Holds
<1> QED
  BY <1>1, <1>2, <1>3 DEF read_track, Loaded

LEMMA ChangedTyped ==
  ASSUME NEW m, Shaped(m), Typed(m), NEW s, NEW d \in Data, NEW c, c = Change(m, s, d)
  PROVE  Shaped(c) /\ Typed(c) /\ c.cur = m.cur
<1>1. /\ c.cur = m.cur /\ c.open = m.open /\ c.dirty = TRUE /\ c.track = [m.track EXCEPT ![s] = d]
      /\ Shaped(c)
  BY DEF Shaped, Change
<1>2. ASSUME NEW S, NEW f \in [S -> Data], NEW g, g = [f EXCEPT ![s] = d]
      PROVE  g \in [S -> Data]
  <2>1. \A x \in S : g[x] \in Data
    <3>1. TAKE x \in S
    <3>2. CASE x = s
      BY <1>2, <3>2
    <3>3. CASE x # s
      BY <1>2, <3>3
    <3> QED
      BY <3>2, <3>3
  <2>2. g = [x \in S |-> g[x]]
    BY <1>2
  <2> QED
    BY <2>1, <2>2
<1> QED
  BY <1>1, <1>2 DEF Typed

LEMMA WriteTrackTyped ==
  ASSUME CacheTypeOK, NEW m, Shaped(m), Typed(m), m.cur # None => m.cur \in Tracks,
         NEW w \in write_track(m)
  PROVE  Typed(w.m) /\ Holds(w.image)
<1>0. Holds(image) /\ DOMAIN image = Tracks
  BY DEF CacheTypeOK, CacheOK, Complete
<1>1. CASE m.cur = None \/ ~m.dirty
  BY <1>0, <1>1 DEF write_track
<1>2. CASE ~(m.cur = None \/ ~m.dirty)
  <2>0. m.cur \in Tracks /\ m.track \in [Slots(m.cur) -> Data]
    BY <1>2 DEF Typed
  <2>1. ASSUME NEW f \in [Slots(m.cur) -> Data], w.image = [image EXCEPT ![m.cur] = f]
        PROVE  Holds(w.image)
    BY <1>0, <2>0, <2>1 DEF Holds
  <2>2. CASE w = [m |-> [m EXCEPT !.dirty = FALSE], image |-> [image EXCEPT ![m.cur] = m.track],
                  ok |-> TRUE]
    <3>1. /\ w.m.cur = m.cur /\ w.m.track = m.track /\ w.m.open = m.open /\ w.m.dirty = FALSE
      BY <2>2 DEF Shaped
    <3> QED
      BY <2>0, <2>1, <2>2, <3>1 DEF Typed
  <2>3. CASE \E n \in Slots(m.cur) :
               w = [m |-> free_image_data(m), ok |-> FALSE,
                    image |-> [image EXCEPT ![m.cur] =
                                 [s \in Slots(m.cur) |-> IF s < n THEN m.track[s] ELSE @[s]]]]
    <3>1. PICK n \in Slots(m.cur) :
               w = [m |-> free_image_data(m), ok |-> FALSE,
                    image |-> [image EXCEPT ![m.cur] =
                                 [s \in Slots(m.cur) |-> IF s < n THEN m.track[s] ELSE @[s]]]]
      BY <2>3
    <3> DEFINE f == [s \in Slots(m.cur) |-> IF s < n THEN m.track[s] ELSE image[m.cur][s]]
    <3>2. w.image = [image EXCEPT ![m.cur] = f] /\ w.m = free_image_data(m)
      BY <3>1, <2>0, <1>0
    <3>3. f \in [Slots(m.cur) -> Data]
      BY <2>0, <1>0 DEF Holds
    <3> HIDE DEF f
    <3> QED
      BY <2>1, <3>2, <3>3, FreedTyped
  <2> QED
    BY <1>2, <2>2, <2>3 DEF write_track
<1> QED
  BY <1>1, <1>2

LEMMA StoredTyped ==
  ASSUME NEW m, Shaped(m), Typed(m), SetMemory(m), cur_blk \in -1 .. Dpb.DSM
  PROVE  Typed(Memory)' /\ cur_blk' \in -1 .. Dpb.DSM
<1>1. Memory' = m
  BY Stored
<1>2. cur_blk' = IF m.open THEN cur_blk ELSE -1
  BY DEF SetMemory
<1>3. -1 \in -1 .. Dpb.DSM
  BY DiskAssumption
<1> QED
  BY <1>1, <1>2, <1>3 DEF Typed

\* A call that goes on is still inside its block or label.
LEMMA AdvanceJob ==
  ASSUME JobOK, job # Idle, NEW n \in {0, 1}, Advance(n),
         job.op = "write" => job.filled + n < Count,
         job.op = "label" => job.filled + n < Len(job.data)
  PROVE  JobOK'
<1>0. job' = [job EXCEPT !.filled = @ + n, !.at = next_sector(Dpb, @)]
  BY DEF Advance
<1>1. /\ job = [op |-> job.op, blk |-> job.blk, data |-> job.data, at |-> job.at,
                filled |-> job.filled]
      /\ job.at \in Places /\ job.filled \in Nat
      /\ job.op = "read" => job.blk \in 0 .. Dpb.DSM
      /\ job.op = "write" => job.data \in [0 .. Count - 1 -> Data]
      /\ job.op = "label" => job.data \in Seq(Data)
  BY DEF JobOK
<1>2. /\ job'.op = job.op /\ job'.blk = job.blk /\ job'.data = job.data
      /\ job'.at = next_sector(Dpb, job.at) /\ job'.filled = job.filled + n
      /\ job' = [op |-> job'.op, blk |-> job'.blk, data |-> job'.data, at |-> job'.at,
                 filled |-> job'.filled]
  BY <1>0, <1>1
<1>3. next_sector(Dpb, job.at) \in Places /\ job.filled + n \in Nat
  BY <1>1, NextPlace
<1> QED
  BY <1>1, <1>2, <1>3 DEF JobOK

LEMMA AnsweredJob ==
  ASSUME job' = Idle PROVE JobOK'
BY DEF JobOK

-----------------------------------------------------------------------------
Typing == JobOK /\ Holds(image) /\ Typed(Memory) /\ cur_blk \in -1 .. Dpb.DSM

LEMMA Running ==
  ASSUME NEW op, job.op = op, op # "none" PROVE job # Idle
BY DEF Idle

LEMMA ReadSectorTyped ==
  ASSUME CacheTypeOK, ReadSector PROVE Typing'
<1>0. job.op = "read" /\ job # Idle
  BY Running DEF ReadSector
<1>1. PICK r \in read_track(job.at) :
        /\ cur' = r.m.cur /\ track' = r.m.track /\ track_dirty' = r.m.dirty /\ open' = r.m.open
        /\ cur_blk' \in {-1, job.blk, cur_blk}
        /\ job' = Idle \/ Advance(1)
  BY DEF ReadSector, Answer
<1>2. Typed(r.m) /\ Memory' = r.m
  <2>1. Shaped(r.m)
    BY ReadTrackFits DEF CacheTypeOK
  <2> QED
    BY <1>1, <2>1, ReadTrackTyped DEF Memory, Shaped
<1>3. Typed(Memory)' /\ Holds(image)'
  <2>1. image' = image
    BY DEF ReadSector
  <2> QED
    BY <1>2, <2>1 DEF Typed, Holds, CacheTypeOK
<1>4. JobOK'
  BY <1>0, <1>1, AnsweredJob, AdvanceJob DEF CacheTypeOK
<1>5. cur_blk' \in -1 .. Dpb.DSM
  BY <1>0, <1>1, DiskAssumption DEF CacheTypeOK, JobOK
<1> QED
  BY <1>3, <1>4, <1>5 DEF Typing

LEMMA WriteSectorTyped ==
  ASSUME CacheTypeOK, WriteSector PROVE Typing'
<1> DEFINE s(r) == IF r.ok THEN Slot(r.m.cur, job.at) ELSE -1
           c(r) == [r.m EXCEPT !.track[s(r)] = job.data[job.filled], !.dirty = TRUE]
           last == job.filled + 1 >= Count
<1>0. job.op = "write" /\ job # Idle
  BY Running DEF WriteSector
<1>1. PICK r \in read_track(job.at) :
        \/ SetMemory(r.m) /\ UNCHANGED image /\ job' = Idle
        \/ SetMemory(c(r)) /\ UNCHANGED image /\ ~last /\ Advance(1)
        \/ \E w \in write_track(c(r)) : /\ SetMemory(w.m) /\ image' = w.image
                                        /\ job' = Idle \/ (~last /\ Advance(1))
  <2>1. PICK r \in read_track(job.at) :
          LET next == next_sector(Dpb, job.at) IN
          IF s(r) = -1
          THEN SetMemory(r.m) /\ Answer("write", job.blk, job.data, "null") /\ UNCHANGED image
          ELSE IF ~last /\ TrackOf(next) = TrackOf(job.at)
               THEN SetMemory(c(r)) /\ UNCHANGED image /\ Advance(1)
               ELSE \E w \in write_track(c(r)) :
                      /\ SetMemory(w.m) /\ image' = w.image
                      /\ CASE ~w.ok /\ TrackOf(next) # TrackOf(job.at) ->
                                Answer("write", job.blk, job.data, "crashed")
                           [] (w.ok \/ TrackOf(next) = TrackOf(job.at)) /\ last ->
                                Answer("write", job.blk, job.data, "written")
                           [] OTHER -> Advance(1)
    BY DEF WriteSector
  <2> HIDE DEF s, c, last
  <2> DEFINE moves == TrackOf(next_sector(Dpb, job.at)) # TrackOf(job.at)
  <2>2. CASE s(r) = -1
    BY <2>1, <2>2 DEF Answer
  <2>3. CASE s(r) # -1 /\ ~last /\ ~moves
    BY <2>1, <2>3
  <2>4. CASE s(r) # -1 /\ ~(~last /\ ~moves)
    <3>1. PICK w \in write_track(c(r)) :
            /\ SetMemory(w.m) /\ image' = w.image
            /\ CASE ~w.ok /\ moves -> Answer("write", job.blk, job.data, "crashed")
                 [] (w.ok \/ ~moves) /\ last -> Answer("write", job.blk, job.data, "written")
                 [] OTHER -> Advance(1)
      BY <2>1, <2>4
    <3>2. job' = Idle \/ (~last /\ Advance(1))
      BY <2>4, <3>1 DEF Answer
    <3> QED
      BY <3>1, <3>2
  <2> QED
    BY <2>2, <2>3, <2>4
<1>2. Shaped(r.m) /\ Fits(r.m, image, asked) /\ Typed(r.m)
  BY ReadTrackFits, ReadTrackTyped DEF CacheTypeOK
<1>3. job.data[job.filled] \in Data
  BY <1>0, DiskAssumption DEF CacheTypeOK, JobOK
<1>4. Shaped(c(r)) /\ Typed(c(r)) /\ c(r).cur = r.m.cur
  <2> DEFINE d == job.data[job.filled]
  <2>1. c(r) = Change(r.m, s(r), d) /\ d \in Data
    BY <1>3 DEF Change
  <2> HIDE DEF c, s, d
  <2> QED
    BY <1>2, <2>1, ChangedTyped
<1>5. c(r).cur # None => c(r).cur \in Tracks
  BY <1>2, <1>4 DEF Fits
<1>6. ASSUME ~last, Advance(1) PROVE JobOK'
  BY <1>0, <1>6, AdvanceJob, DiskAssumption DEF CacheTypeOK, JobOK
<1> HIDE DEF s, c, last
<1>7. ASSUME NEW m, Shaped(m), Typed(m), SetMemory(m), Holds(image') PROVE
        Typed(Memory)' /\ Holds(image)' /\ cur_blk' \in -1 .. Dpb.DSM
  BY <1>7, StoredTyped DEF CacheTypeOK, Holds
<1>8. CASE SetMemory(r.m) /\ UNCHANGED image /\ job' = Idle
  BY <1>2, <1>7, <1>8, AnsweredJob DEF Typing, CacheTypeOK
<1>9. CASE SetMemory(c(r)) /\ UNCHANGED image /\ ~last /\ Advance(1)
  BY <1>4, <1>6, <1>7, <1>9 DEF Typing, CacheTypeOK
<1>10. CASE \E w \in write_track(c(r)) : /\ SetMemory(w.m) /\ image' = w.image
                                         /\ job' = Idle \/ (~last /\ Advance(1))
  <2>1. PICK w \in write_track(c(r)) : /\ SetMemory(w.m) /\ image' = w.image
                                       /\ job' = Idle \/ (~last /\ Advance(1))
    BY <1>10
  <2>2. Typed(w.m) /\ Holds(w.image) /\ Shaped(w.m)
    <3>1. Typed(w.m) /\ Holds(w.image)
      BY <1>4, <1>5, WriteTrackTyped
    <3>2. Shaped(w.m)
      BY <1>4, <2>1, WriteTrackShaped
    <3> QED
      BY <3>1, <3>2
  <2> QED
    BY <1>6, <1>7, <2>1, <2>2, AnsweredJob DEF Typing
<1> QED
  BY <1>1, <1>8, <1>9, <1>10

LEMMA LabelSectorTyped ==
  ASSUME CacheTypeOK, LabelSector PROVE Typing'
<1> DEFINE s(r) == IF r.ok THEN Slot(r.m.cur, job.at) ELSE -1
           n(r) == IF s(r) = -1 THEN 0 ELSE 1
           d(r) == job.data[job.filled + n(r)]
           c(r) == IF s(r) = -1 THEN r.m ELSE [r.m EXCEPT !.track[s(r)] = d(r), !.dirty = TRUE]
           last(r) == job.filled + n(r) >= Len(job.data)
<1>0. /\ job.op = "label" /\ job # Idle /\ job.filled \in Nat
      /\ job.data \in Seq(Data) /\ job.filled < Len(job.data)
  BY Running DEF LabelSector, CacheTypeOK, JobOK
<1>1. PICK r \in read_track(job.at) :
        \/ SetMemory(r.m) /\ UNCHANGED image /\ job' = Idle
        \/ /\ \E w \in write_track(c(r)) \cup {[m |-> c(r), image |-> image]} :
                SetMemory(w.m) /\ image' = w.image
           /\ job' = Idle \/ (~last(r) /\ Advance(n(r)))
  <2>1. PICK r \in read_track(job.at) :
          LET next == next_sector(Dpb, job.at)
              filled == IF s(r) = -1 THEN job.filled ELSE job.filled + 1
              over == filled >= Len(job.data)
          IN IF ~r.ok
             THEN SetMemory(r.m) /\ Answer("label", -1, job.data, "null") /\ UNCHANGED image
             ELSE /\ \E w \in IF over \/ TrackOf(next) # TrackOf(job.at)
                              THEN write_track(IF s(r) = -1 THEN r.m
                                               ELSE [r.m EXCEPT !.track[s(r)] = job.data[filled],
                                                                !.dirty = TRUE])
                              ELSE {[m |-> IF s(r) = -1 THEN r.m
                                           ELSE [r.m EXCEPT !.track[s(r)] = job.data[filled],
                                                            !.dirty = TRUE],
                                     image |-> image]} :
                       SetMemory(w.m) /\ image' = w.image
                  /\ IF over THEN Answer("label", -1, job.data, "written")
                     ELSE Advance(filled - job.filled)
    BY DEF LabelSector
  <2> HIDE DEF s
  <2>2. CASE ~r.ok
    BY <2>1, <2>2 DEF Answer
  <2>3. CASE r.ok /\ s(r) = -1
    <3>1. job.filled + n(r) = job.filled /\ job.filled - job.filled = n(r)
      BY <1>0, <2>3
    <3> QED
      BY <2>1, <2>3, <3>1 DEF Answer
  <2>4. CASE r.ok /\ s(r) # -1
    <3>1. job.filled + n(r) = job.filled + 1 /\ (job.filled + 1) - job.filled = n(r)
      BY <1>0, <2>4
    <3> QED
      BY <2>1, <2>4, <3>1 DEF Answer
  <2> QED
    BY <2>2, <2>3, <2>4
<1>2. Shaped(r.m) /\ Fits(r.m, image, asked) /\ Typed(r.m)
  BY ReadTrackFits, ReadTrackTyped DEF CacheTypeOK
<1>3. s(r) # -1 => d(r) \in Data
  BY <1>0
<1>4. Shaped(c(r)) /\ Typed(c(r)) /\ c(r).cur = r.m.cur
  <2>1. CASE s(r) = -1
    BY <1>2, <2>1
  <2>2. CASE s(r) # -1
    <3>1. c(r) = Change(r.m, s(r), d(r)) /\ d(r) \in Data
      BY <1>3, <2>2 DEF Change
    <3> HIDE DEF c, s, d, n
    <3> QED
      BY <1>2, <3>1, ChangedTyped
  <2> QED
    BY <2>1, <2>2
<1>5. c(r).cur # None => c(r).cur \in Tracks
  BY <1>2, <1>4 DEF Fits
<1>6. ASSUME ~last(r), Advance(n(r)) PROVE JobOK'
  <2>1. n(r) \in {0, 1} /\ job.filled + n(r) < Len(job.data)
    BY <1>0, <1>6
  <2> HIDE DEF n, last
  <2> QED
    BY <1>0, <1>6, <2>1, AdvanceJob DEF CacheTypeOK
<1> HIDE DEF s, c, d, n, last
<1>7. ASSUME NEW m, Shaped(m), Typed(m), SetMemory(m), Holds(image') PROVE
        Typed(Memory)' /\ Holds(image)' /\ cur_blk' \in -1 .. Dpb.DSM
  BY <1>7, StoredTyped DEF CacheTypeOK, Holds
<1>8. CASE SetMemory(r.m) /\ UNCHANGED image /\ job' = Idle
  BY <1>2, <1>7, <1>8, AnsweredJob DEF Typing, CacheTypeOK
<1>9. CASE /\ \E w \in write_track(c(r)) \cup {[m |-> c(r), image |-> image]} :
                SetMemory(w.m) /\ image' = w.image
           /\ job' = Idle \/ (~last(r) /\ Advance(n(r)))
  <2>1. PICK w \in write_track(c(r)) \cup {[m |-> c(r), image |-> image]} :
               SetMemory(w.m) /\ image' = w.image
    BY <1>9
  <2>2. Typed(w.m) /\ Holds(w.image) /\ Shaped(w.m)
    <3>1. CASE w \in write_track(c(r))
      BY <1>4, <1>5, <3>1, WriteTrackTyped, WriteTrackShaped
    <3>2. CASE w = [m |-> c(r), image |-> image]
      BY <1>4, <3>2 DEF CacheTypeOK
    <3> QED
      BY <2>1, <3>1, <3>2
  <2> QED
    BY <1>6, <1>7, <1>9, <2>1, <2>2, AnsweredJob DEF Typing
<1> QED
  BY <1>1, <1>8, <1>9

LEMMA DumpSectorTyped ==
  ASSUME CacheTypeOK, DumpSector PROVE Typing'
<1>0. job.op = "dump" /\ job # Idle
  BY Running DEF DumpSector
<1> DEFINE s(r) == IF r.m.cur = None THEN -1 ELSE SlotIn(r.m.cur, job.at, job.at.hd)
           shown(r) == Append(job.data, r.m.track[s(r)])
<1>1. PICK r \in read_track(job.at) :
        /\ SetMemory(r.m)
        /\ \/ job' = Idle
           \/ job' = [job EXCEPT !.filled = @ + 1, !.data = shown(r), !.at = next_sector(Dpb, @)]
  BY DEF DumpSector, Answer
<1> HIDE DEF s, shown
<1>2. Shaped(r.m) /\ Typed(r.m)
  BY ReadTrackFits, ReadTrackTyped DEF CacheTypeOK
<1>3. image' = image
  BY DEF DumpSector
<1>4. Typed(Memory)' /\ cur_blk' \in -1 .. Dpb.DSM
  BY <1>1, <1>2, StoredTyped DEF CacheTypeOK
<1>5. JobOK'
  <2>1. CASE job' = Idle
    BY <2>1, AnsweredJob
  <2>2. CASE job' = [job EXCEPT !.filled = @ + 1, !.data = shown(r), !.at = next_sector(Dpb, @)]
    <3>1. /\ job = [op |-> job.op, blk |-> job.blk, data |-> job.data, at |-> job.at,
                    filled |-> job.filled]
          /\ job.at \in Places /\ job.filled \in Nat
      BY <1>0 DEF CacheTypeOK, JobOK
    <3>2. /\ job'.op = "dump" /\ job'.at = next_sector(Dpb, job.at)
          /\ job'.filled = job.filled + 1
          /\ job' = [op |-> job'.op, blk |-> job'.blk, data |-> job'.data, at |-> job'.at,
                     filled |-> job'.filled]
      BY <1>0, <2>2, <3>1
    <3>3. next_sector(Dpb, job.at) \in Places /\ job.filled + 1 \in Nat
      BY <3>1, NextPlace
    <3> QED
      BY <3>2, <3>3 DEF JobOK
  <2> QED
    BY <1>1, <2>1, <2>2
<1> QED
  BY <1>3, <1>4, <1>5 DEF Typing, Holds, CacheTypeOK

LEMMA BeginJob ==
  ASSUME NEW op, NEW blk, NEW data, NEW at \in Places, Begin(op, blk, data, at),
         op = "read" => blk \in 0 .. Dpb.DSM,
         op = "write" => data \in [0 .. Count - 1 -> Data],
         op = "label" => data \in Seq(Data) /\ data # <<>>
  PROVE  JobOK'
<1>1. job' = [op |-> op, blk |-> blk, data |-> data, at |-> at, filled |-> 0]
  BY DEF Begin
<1>2. op = "label" => 0 < Len(data)
  OBVIOUS
<1> QED
  BY <1>1, <1>2, DiskAssumption DEF JobOK

LEMMA CallsTyped ==
  ASSUME CacheTypeOK, NEW b \in Blocks,
         \/ read_block(b) \/ dump(b)
         \/ \E data \in [0 .. Count - 1 -> Data] : write_block(b, data)
  PROVE  Typing'
<1>1. image' = image /\ Memory' = Memory /\ cur_blk' = cur_blk
  BY DEF read_block, dump, write_block, memory, Memory
<1>2. InRange(b) => b \in 0 .. Dpb.DSM /\ calc_t_s_h(Dpb, b) \in Places
  BY PlaceOfBlock, DiskAssumption DEF InRange
<1>3. CASE job' = Idle
  BY <1>1, <1>3, AnsweredJob DEF Typing, CacheTypeOK, Holds, Typed
<1>4. CASE InRange(b) /\ Begin("read", b, <<>>, calc_t_s_h(Dpb, b))
  BY <1>1, <1>2, <1>4, BeginJob DEF Typing, CacheTypeOK, Holds, Typed
<1>5. CASE InRange(b) /\ Begin("dump", b, <<>>, calc_t_s_h(Dpb, b))
  BY <1>1, <1>2, <1>5, BeginJob DEF Typing, CacheTypeOK, Holds, Typed
<1>6. CASE \E data \in [0 .. Count - 1 -> Data] :
             InRange(b) /\ Begin("write", b, data, calc_t_s_h(Dpb, b))
  BY <1>1, <1>2, <1>6, BeginJob DEF Typing, CacheTypeOK, Holds, Typed
<1>7. CASE read_block(b)
  <2>1. CASE b = cur_blk \/ ~InRange(b)
    BY <1>3, <1>7, <2>1 DEF read_block, Answer
  <2>2. CASE b # cur_blk /\ InRange(b)
    BY <1>4, <1>7, <2>2 DEF read_block
  <2> QED
    BY <2>1, <2>2
<1>8. CASE dump(b)
  BY <1>5, <1>8 DEF dump
<1>9. CASE \E data \in [0 .. Count - 1 -> Data] : write_block(b, data)
  BY <1>3, <1>6, <1>9 DEF write_block, Answer
<1> QED
  BY <1>7, <1>8, <1>9

LEMMA LabelTyped ==
  ASSUME CacheTypeOK, NEW data \in Labels, write_label(data)
  PROVE  Typing'
<1>1. image' = image /\ Memory' = Memory /\ cur_blk' = cur_blk
  BY DEF write_label, memory, Memory
<1>2. [hd |-> 0, trk |-> 0, sec |-> 0] \in Places /\ data \in Seq(Data) /\ data # <<>>
  BY DiskAssumption DEF Places
<1>3. JobOK'
  BY <1>2, BeginJob DEF write_label
<1> QED
  BY <1>1, <1>3 DEF Typing, CacheTypeOK, Holds, Typed

\* A call, or the end of the program, in the middle of none.
LEMMA OthersTyped ==
  ASSUME CacheTypeOK, Flush \/ Free \/ Open \/ Kill
  PROVE  Typing'
<1>1. ASSUME NEW m, Shaped(m), Typed(m), SetMemory(m), Holds(image')
      PROVE  Typed(Memory)' /\ Holds(image)' /\ cur_blk' \in -1 .. Dpb.DSM
  BY <1>1, StoredTyped DEF CacheTypeOK, Holds
<1>2. JobOK'
  <2>1. job' = Idle
    BY DEF Flush, Free, Open, Kill, Ready
  <2> QED
    BY <2>1, AnsweredJob
<1>3. Shaped(Memory) /\ Typed(Memory) /\ Holds(image)
  BY MemoryShaped DEF CacheTypeOK
<1>4. CASE Flush
  <2>1. PICK w \in write_track(Memory) : SetMemory(w.m) /\ image' = w.image
    BY <1>4 DEF Flush
  <2>2. Memory.cur # None => Memory.cur \in Tracks
    BY DEF CacheTypeOK, CacheOK, Fits
  <2>3. Shaped(w.m) /\ Typed(w.m) /\ Holds(w.image)
    BY <1>3, <2>2, WriteTrackTyped, WriteTrackShaped
  <2> QED
    BY <1>1, <1>2, <2>1, <2>3 DEF Typing
<1>5. CASE Free \/ Kill
  <2>1. Shaped(free_image_data(Memory)) /\ Typed(free_image_data(Memory))
    BY <1>3, Freed, FreedTyped
  <2>2. SetMemory(free_image_data(Memory)) /\ image' = image
    BY <1>5 DEF Free, Kill
  <2> QED
    BY <1>1, <1>2, <1>3, <2>1, <2>2 DEF Typing, Holds
<1>6. CASE Open
  <2>1. /\ Memory'.cur = [trk |-> 0, hd |-> 0] /\ Memory'.track = image[Memory'.cur]
        /\ Memory'.open = TRUE /\ Memory'.dirty = FALSE /\ image' = image /\ cur_blk' = cur_blk
    BY <1>6 DEF Open, Memory
  <2>2. [trk |-> 0, hd |-> 0] \in Tracks
    BY DiskAssumption
  <2> QED
    BY <1>2, <1>3, <2>1, <2>2 DEF Typing, CacheTypeOK, Holds, Typed
<1> QED
  BY <1>4, <1>5, <1>6

LEMMA TypeNext ==
  ASSUME CacheTypeOK, [Next]_vars PROVE CacheTypeOK'
<1>1. CacheOK'
  BY CacheNext DEF CacheTypeOK
<1>2. Typing'
  <2>1. CASE \E b \in Blocks : read_block(b) \/ dump(b)
    BY <2>1, CallsTyped
  <2>2. CASE \E b \in Blocks, data \in [0 .. Count - 1 -> Data] : write_block(b, data)
    BY <2>2, CallsTyped
  <2>3. CASE \E data \in Labels : write_label(data)
    BY <2>3, LabelTyped
  <2>4. CASE Flush \/ Free \/ Open \/ Kill
    BY <2>4, OthersTyped
  <2>5. CASE Step
    BY <2>5, ReadSectorTyped, WriteSectorTyped, LabelSectorTyped, DumpSectorTyped DEF Step
  <2>6. CASE UNCHANGED vars
    BY <2>6 DEF vars, memory, Typing, CacheTypeOK, JobOK, Holds, Typed, Memory
  <2> QED
    BY <2>1, <2>2, <2>3, <2>4, <2>5, <2>6 DEF Next, Calls
<1> QED
  BY <1>1, <1>2 DEF CacheTypeOK, Typing

LEMMA TypeInit == Init => CacheTypeOK
<1> SUFFICES ASSUME Init PROVE CacheTypeOK
  OBVIOUS
<1>1. Holds(image)
  BY DiskAssumption DEF Init, Holds
<1>2. JobOK /\ Typed(Memory)
  BY DEF Init, JobOK, Typed, Memory
<1>3. cur_blk \in -1 .. Dpb.DSM
  BY DiskAssumption DEF Init
<1> QED
  BY <1>1, <1>2, <1>3, CacheInit DEF CacheTypeOK

\* Every variable has its type: the sectors of the image and of the cache hold
\* data, the cache is of a track of the image in use, and a call that is
\* running is at a place with numbers of its kind (next_sector never counts
\* below zero).
THEOREM TypeCorrect == Spec => []TypeOK
<1>1. CacheTypeOK /\ [Next]_vars => CacheTypeOK'
  BY TypeNext
<1>2. CacheTypeOK => TypeOK
  <2> SUFFICES ASSUME CacheTypeOK PROVE TypeOK
    OBVIOUS
  <2>1. DOMAIN image = Tracks /\ \A t \in Tracks : image[t] \in [Slots(t) -> Data]
    BY DEF CacheTypeOK, CacheOK, Complete, Holds
  <2>2. open \in BOOLEAN /\ track_dirty \in BOOLEAN
    BY DEF CacheTypeOK, Typed, Memory
  <2>3. cur # None => cur \in Tracks /\ open /\ DOMAIN track = Slots(cur)
    BY DEF CacheTypeOK, CacheOK, Fits, Memory
  <2>4. job # Idle => job.at \in Places /\ job.filled \in Nat
    BY DEF CacheTypeOK, JobOK
  <2> QED
    BY <2>1, <2>2, <2>3, <2>4 DEF TypeOK, CacheTypeOK
<1> QED
  BY <1>1, <1>2, TypeInit, PTL DEF Spec

-----------------------------------------------------------------------------
\* The sectors of a block are one behind the other, in the order of the sides.
LEMMA BlockWalk ==
  ASSUME NEW blk \in Nat
  PROVE  \A k \in 0 .. Count - 1 :
           Places_of(blk)[k] = IF k = 0 THEN calc_t_s_h(Dpb, blk)
                               ELSE next_sector(Dpb, Places_of(blk)[k - 1])
<1> DEFINE n == Count - 1
           c == calc_t_s_h(Dpb, blk)
           T == [x \in Places \X (1 .. n) |-> next_sector(Dpb, x[1])]
           Solves(g) == g = [k \in 0 .. n |-> IF k = 0 THEN c ELSE next_sector(Dpb, g[k - 1])]
<1>1. n \in Nat /\ c \in Places
  <2>1. Count \in Nat \ {0}
    BY DiskAssumption
  <2> QED BY <2>1, PlaceOfBlock
<1>2. \E g : Solves(g)
  <2>1. \A x \in Places, k \in 1 .. n : T[<<x, k>>] = next_sector(Dpb, x)
    BY <1>1
  <2>2. T \in [Places \X (1 .. n) -> Places]
    BY NextPlace
  <2> HIDE DEF n, c, T
  <2>3. PICK g \in [0 .. n -> Places] : LoopValues(g, n, c, T)
    BY <1>1, <2>2, LoopHasValues
  <2>4. ASSUME NEW k \in 0 .. n
        PROVE  g[k] = IF k = 0 THEN c ELSE next_sector(Dpb, g[k - 1])
    <3>1. CASE k = 0
      BY <2>3, <3>1 DEF LoopValues
    <3>2. CASE k # 0
      <4>1. k \in 1 .. n /\ g[k - 1] \in Places
        BY <1>1, <2>3, <3>2
      <4> QED BY <2>1, <2>3, <3>2, <4>1 DEF LoopValues
    <3> QED BY <3>1, <3>2
  <2>5. g = [k \in 0 .. n |-> g[k]]
    BY <2>3
  <2> QED BY <2>4, <2>5
<1>3. Places_of(blk) = CHOOSE g : Solves(g)
  BY DEF Places_of, BlockSectors, Count
<1>4. Solves(Places_of(blk))
  <2> HIDE DEF Solves
  <2> QED BY <1>2, <1>3
<1> QED BY <1>4

\* The walk never comes back: places are ordered by cylinder and side as the
\* order of the sides has it, then by sector.
First(p) == IF Dpb.order = "SIDES" THEN p.trk ELSE p.hd
Second(p) ==
  CASE Dpb.order = "SIDES" -> p.hd
    [] Dpb.order = "EAGLE" -> p.trk
    [] Dpb.order = "CYLINDERS" -> IF p.hd % 2 = 0 THEN p.trk ELSE -p.trk

Before(p, q) ==
  \/ First(p) < First(q)
  \/ First(p) = First(q) /\ Second(p) < Second(q)
  \/ First(p) = First(q) /\ Second(p) = Second(q) /\ p.sec < q.sec

LEMMA Ordered ==
  ASSUME NEW p \in Places
  PROVE  First(p) \in Int /\ Second(p) \in Int /\ p.sec \in Int
BY DiskAssumption DEF Places, First, Second

LEMMA BeforeTransitive ==
  ASSUME NEW p \in Places, NEW q \in Places, NEW r \in Places, Before(p, q), Before(q, r)
  PROVE  Before(p, r)
BY Ordered DEF Before

LEMMA NextIsBehind ==
  ASSUME NEW p \in Places
  PROVE  Before(p, next_sector(Dpb, p))
<1> DEFINE n == next_sector(Dpb, p)
           q == [p EXCEPT !.sec = p.sec + 1 - Dpb.SECS]
<1>1. p.hd \in Nat /\ p.trk \in Nat /\ p.sec \in Nat
  BY DEF Places
<1>2. CASE p.sec + 1 < Dpb.SECS
  <2>1. n.sec = p.sec + 1 /\ n.trk = p.trk /\ n.hd = p.hd
    BY <1>2 DEF next_sector, Places
  <2> QED BY <1>1, <2>1, Ordered DEF Before, First, Second
<1>3. CASE ~(p.sec + 1 < Dpb.SECS)
  <2>0. n = NextTrack(Dpb, q) /\ q.hd = p.hd /\ q.trk = p.trk
    BY <1>3 DEF next_sector, Places
  <2>1. CASE Dpb.order = "SIDES"
    <3>1. n = IF q.hd + 1 >= Dpb.HDS THEN [q EXCEPT !.hd = 0, !.trk = @ + 1]
              ELSE [q EXCEPT !.hd = @ + 1]
      BY <2>0, <2>1 DEF NextTrack
    <3>2. \/ n.trk = p.trk + 1
          \/ n.trk = p.trk /\ n.hd = p.hd + 1
      BY <3>1, <2>0 DEF Places
    <3> QED BY <1>1, <2>1, <3>2 DEF Before, First, Second
  <2>2. CASE Dpb.order = "EAGLE"
    <3>1. n = IF q.trk + 1 > Dpb.TRKS THEN [q EXCEPT !.trk = 0, !.hd = @ + 1]
              ELSE [q EXCEPT !.trk = @ + 1]
      BY <2>0, <2>2 DEF NextTrack
    <3>2. \/ n.hd = p.hd + 1
          \/ n.hd = p.hd /\ n.trk = p.trk + 1
      BY <3>1, <2>0 DEF Places
    <3> QED BY <1>1, <2>2, <3>2 DEF Before, First, Second
  <2>3. CASE Dpb.order = "CYLINDERS" /\ p.hd % 2 = 0
    <3>1. n = IF q.trk + 1 > Dpb.TRKS THEN [q EXCEPT !.trk = Dpb.TRKS - 1, !.hd = @ + 1]
              ELSE [q EXCEPT !.trk = @ + 1]
      BY <2>0, <2>3 DEF NextTrack
    <3>2. \/ n.hd = p.hd + 1
          \/ n.hd = p.hd /\ n.trk = p.trk + 1
      BY <3>1, <2>0 DEF Places
    <3> QED BY <1>1, <2>3, <3>2 DEF Before, First, Second
  <2>4. CASE Dpb.order = "CYLINDERS" /\ p.hd % 2 = 1
    <3>1. n = IF q.trk - 1 < 0 THEN [q EXCEPT !.trk = 1, !.hd = @ + 1]
              ELSE [q EXCEPT !.trk = @ - 1]
      BY <2>0, <2>4 DEF NextTrack
    <3>2. \/ n.hd = p.hd + 1
          \/ n.hd = p.hd /\ n.trk = p.trk - 1
      BY <3>1, <2>0 DEF Places
    <3> QED BY <1>1, <2>4, <3>2 DEF Before, First, Second
  <2>5. p.hd % 2 \in {0, 1}
    BY <1>1
  <2> QED BY <2>1, <2>2, <2>3, <2>4, <2>5, DiskAssumption
<1> QED BY <1>2, <1>3

\* A sector that is found is one of its track, and has the id asked for.
LEMMA SlotFound ==
  ASSUME NEW t \in Tracks, NEW p, NEW head, SlotIn(t, p, head) # -1
  PROVE  /\ SlotIn(t, p, head) \in Slots(t)
         /\ TrackHeader[t].sector[SlotIn(t, p, head)].sector = SectorId(Dpb, p.hd, p.sec)
<1> DEFINE h == TrackHeader[t]
           found == {i \in 0 .. h.SPT - 1 : /\ h.sector[i].sector = SectorId(Dpb, p.hd, p.sec)
                                            /\ h.sector[i].head = head}
<1>1. SlotIn(t, p, head) = IF found = {} THEN -1 ELSE Least(found)
  BY DEF SlotIn, get_sector_pos_in_track
<1>2. found # {}
  BY <1>1
<1>3. found \in SUBSET Nat
  BY DiskAssumption
<1>4. \E m \in found : \A k \in found : m <= k
  <2> HIDE DEF found
  <2> QED BY <1>2, <1>3, LeastNumber
<1>5. Least(found) \in found
  <2> HIDE DEF found
  <2> QED BY <1>4 DEF Least
<1> QED BY <1>1, <1>2, <1>5 DEF Slots

\* Two places of a walk are never the same sector of the image.
LEMMA PlacesDiffer ==
  ASSUME NEW p \in Places, NEW q \in Places, Before(p, q),
         TrackOf(p) \in Tracks, TrackOf(q) \in Tracks,
         SectorAt(p)[2] # -1, SectorAt(q)[2] # -1
  PROVE  SectorAt(p) # SectorAt(q)
<1> SUFFICES ASSUME TrackOf(p) = TrackOf(q), Slot(TrackOf(p), p) = Slot(TrackOf(q), q)
             PROVE  FALSE
  BY DEF SectorAt
<1> DEFINE t == TrackOf(p)
<1>1. p.trk = q.trk /\ p.hd = q.hd
  BY DEF TrackOf
<1>2. p.sec \in Nat /\ q.sec \in Nat /\ p.hd \in Nat /\ p.trk \in Nat
  BY DEF Places
<1>3. p.sec < q.sec
  <2>1. First(p) = First(q) /\ Second(p) = Second(q)
    BY <1>1 DEF First, Second
  <2> QED BY <2>1, Ordered DEF Before
<1>4. SectorId(Dpb, p.hd, p.sec) = SectorId(Dpb, q.hd, q.sec)
  BY SlotFound DEF Slot, SectorAt
<1> QED BY <1>1, <1>2, <1>3, <1>4, DiskAssumption DEF SectorId

-----------------------------------------------------------------------------
\* What a sector will hold once the cache is written: the cached track is
\* newer than the image.
Held(m, img, s) == IF m.cur = s[1] THEN m.track[s[2]] ELSE img[s[1]][s[2]]

\* The sectors of a block in the order of the walk, and the places that are on
\* a track of the image and whose sector is there.
SectorOf(blk, k) == SectorAt(Places_of(blk)[k])
There(p) == TrackOf(p) \in Tracks /\ SectorAt(p)[2] # -1

\* A call that reads or writes a block is at the place its counter says.
InBlock ==
  job # Idle =>
    /\ result = NoResult
    /\ job.op # "label" =>
         /\ job.blk \in 0 .. Dpb.DSM /\ job.filled \in 0 .. Count - 1
         /\ job.at = Places_of(job.blk)[job.filled]

\* The sectors that write_block() has passed lie behind it and hold the
\* buffer, in the cache or in the image; the cache is written before it moves.
WrittenSoFar ==
  (job # Idle /\ job.op = "write") =>
    /\ job.filled # 0 => cur = TrackOf(job.at) \/ ~track_dirty
    /\ \A k \in 0 .. job.filled - 1 :
         LET p == Places_of(job.blk)[k]
         IN /\ p \in Places /\ There(p) /\ Before(p, job.at)
            /\ Held(Memory, image, SectorAt(p)) = job.data[k]

\* The part of the block that has been read is as ReadDelivers has it.
AsInImage(p, d) ==
  TrackOf(p) \in Tracks =>
    d \in {image[SectorAt(p)[1]][SectorAt(p)[2]], asked[SectorAt(p)]}

ReadSoFar ==
  (job # Idle /\ job.op = "read") =>
    \A k \in 0 .. job.filled - 1 : AsInImage(Places_of(job.blk)[k], block_buffer[k])

\* DUMP looks sectors up under the number of the side; this finds the sectors
\* of the block where the format uses these numbers as head values.
HeadsAsSides == \A t \in Tracks : HeadValue(Dpb, t.hd) = t.hd

DumpedSoFar ==
  (job # Idle /\ job.op = "dump") =>
    /\ job.data \in Seq(Data) /\ Len(job.data) = job.filled
    /\ HeadsAsSides => \A k \in 0 .. job.filled - 1 :
                         AsInImage(Places_of(job.blk)[k], job.data[k + 1])

\* ReadDelivers, for DUMP where HeadsAsSides.
Delivered ==
  (result # NoResult /\ result.status = "read") =>
    \A k \in 0 .. Count - 1 :
      IF result.op = "dump"
      THEN HeadsAsSides => AsInImage(Places_of(result.blk)[k], result.data[k + 1])
      ELSE AsInImage(Places_of(result.blk)[k], block_buffer[k])

BlockIInv ==
  /\ CacheTypeOK /\ InBlock
  /\ block_buffer = [k \in 0 .. Count - 1 |-> block_buffer[k]]
  /\ WrittenSoFar /\ ReadSoFar /\ DumpedSoFar
  /\ WriteReachesImage /\ Delivered

\* What BlockIInv says beside the types.
BlockParts ==
  /\ InBlock
  /\ block_buffer = [k \in 0 .. Count - 1 |-> block_buffer[k]]
  /\ WrittenSoFar /\ ReadSoFar /\ DumpedSoFar
  /\ WriteReachesImage /\ Delivered

-----------------------------------------------------------------------------
\* After read_track() has succeeded, the cache holds the track of the place.
LEMMA LoadedTrack ==
  ASSUME CacheTypeOK, NEW p \in Places, NEW r \in read_track(p),
         r.ok \/ (TrackOf(p) \in Tracks /\ r.m.cur # None)
  PROVE  /\ r.m.cur = TrackOf(p) /\ TrackOf(p) \in Tracks /\ r.m.open /\ r.m.cur # None
         /\ r.m.track = [s \in Slots(r.m.cur) |-> r.m.track[s]]
         /\ \A s \in Slots(r.m.cur) :
              r.m.track[s] \in {image[r.m.cur][s], asked[<<r.m.cur, s>>]}
<1>1. TrackOf(p) # None
  <2>1. TrackOf(p) \in [trk : Nat, hd : Nat]
    BY DEF Places, TrackOf
  <2> QED BY <2>1, DiskAssumption
<1>2. Fits(r.m, image, asked)
  BY ReadTrackFits DEF CacheTypeOK
<1>3. r.m.cur = TrackOf(p)
  <2>1. CASE cur = TrackOf(p)
    BY <2>1 DEF read_track, Memory
  <2>2. CASE cur # TrackOf(p) /\ TrackOf(p) \notin Tracks
    BY <2>2 DEF read_track
  <2>3. CASE cur # TrackOf(p) /\ TrackOf(p) \in Tracks
    <3>1. r \in Loaded(TrackOf(p))
      BY <2>3 DEF read_track
    <3>2. CASE r = [m |-> free_image_data(Memory), ok |-> FALSE]
      BY <3>2, Freed, MemoryShaped
    <3>3. CASE r = [m |-> [Memory EXCEPT !.cur = TrackOf(p), !.track = image[TrackOf(p)],
                           !.dirty = FALSE], ok |-> TRUE]
      BY <3>3 DEF Memory
    <3> QED BY <3>1, <3>2, <3>3 DEF Loaded
  <2> QED BY <2>1, <2>2, <2>3
<1> QED BY <1>1, <1>2, <1>3 DEF Fits

\* Loading a track changes nothing of what the sectors hold, unless a changed
\* track is dropped for it.
LEMMA ReadTrackHolds ==
  ASSUME CacheTypeOK, NEW p \in Places, NEW r \in read_track(p), r.ok,
         cur = TrackOf(p) \/ ~track_dirty,
         NEW s, s[1] \in Tracks
  PROVE  Held(r.m, image, s) = Held(Memory, image, s)
<1>1. CASE cur = TrackOf(p)
  BY <1>1 DEF read_track
<1>2. CASE cur # TrackOf(p)
  <2>1. /\ TrackOf(p) \in Tracks
        /\ r = [m |-> [Memory EXCEPT !.cur = TrackOf(p), !.track = image[TrackOf(p)],
                       !.dirty = FALSE], ok |-> TRUE]
    BY <1>2 DEF read_track, Loaded
  <2>2. r.m.cur = TrackOf(p) /\ r.m.track = image[TrackOf(p)]
    BY <2>1 DEF Memory
  <2>3. Memory.cur = cur /\ Memory.track = track
    BY DEF Memory
  <2>4. CASE cur = s[1]
    <3>1. track = image[cur]
      <4>1. cur # None
        BY <2>4, DiskAssumption
      <4>2. Memory.cur # None /\ ~Memory.dirty /\ Memory.track = track
        BY <1>2, <4>1 DEF Memory
      <4> QED BY <4>2, <2>3 DEF CacheTypeOK, CacheOK, Fits
    <3> QED BY <1>2, <2>2, <2>3, <2>4, <3>1 DEF Held
  <2>5. CASE cur # s[1]
    BY <2>2, <2>3, <2>5 DEF Held
  <2> QED BY <2>4, <2>5
<1> QED BY <1>1, <1>2

\* A change of the cache changes one sector.
LEMMA ChangeShaped ==
  ASSUME NEW mem, Shaped(mem), NEW slot, NEW value
  PROVE  /\ Shaped(Change(mem, slot, value)) /\ Change(mem, slot, value).cur = mem.cur
         /\ Change(mem, slot, value).open = mem.open /\ Change(mem, slot, value).dirty = TRUE
<1>1. ASSUME NEW new, new = Change(mem, slot, value)
      PROVE  Shaped(new) /\ new.cur = mem.cur /\ new.open = mem.open /\ new.dirty = TRUE
  BY <1>1 DEF Shaped, Change
<1> QED BY <1>1

LEMMA ChangeHolds ==
  ASSUME NEW m, Shaped(m), m.track = [x \in Slots(m.cur) |-> m.track[x]],
         NEW x \in Slots(m.cur), NEW d, NEW c, c = Change(m, x, d), NEW img
  PROVE  Held(c, img, <<m.cur, x>>) = d
<1>1. c.cur = m.cur /\ c.track = [m.track EXCEPT ![x] = d]
  BY DEF Shaped, Change
<1> QED BY <1>1 DEF Held

LEMMA ChangeHoldsElsewhere ==
  ASSUME NEW m, Shaped(m), m.track = [x \in Slots(m.cur) |-> m.track[x]],
         NEW x \in Slots(m.cur), NEW d, NEW c, c = Change(m, x, d), NEW img,
         NEW s, s # <<m.cur, x>>, s = <<s[1], s[2]>>, s[2] \in Slots(s[1])
  PROVE  Held(c, img, s) = Held(m, img, s)
<1>1. c.cur = m.cur /\ c.track = [m.track EXCEPT ![x] = d]
  BY DEF Shaped, Change
<1>2. CASE m.cur = s[1]
  <2>1. s[2] # x /\ s[2] \in Slots(m.cur)
    BY <1>2
  <2>2. c.track[s[2]] = m.track[s[2]]
    BY <1>1, <2>1
  <2> QED BY <1>1, <1>2, <2>2 DEF Held
<1>3. CASE m.cur # s[1]
  BY <1>1, <1>3 DEF Held
<1> QED BY <1>2, <1>3

\* When write_track() succeeds, the image holds what the sectors held, and the
\* cache is clean; when it fails the image is not in use any more.
LEMMA WriteTrackHolds ==
  ASSUME CacheTypeOK, NEW m, Shaped(m), m.cur \in Tracks, m.dirty, m.open, NEW w \in write_track(m)
  PROVE  /\ w.ok => /\ w.m.cur = m.cur /\ ~w.m.dirty /\ w.m.open
                    /\ \A s : s[1] \in Tracks =>
                         /\ Held(w.m, w.image, s) = Held(m, image, s)
                         /\ w.image[s[1]][s[2]] = Held(m, image, s)
         /\ ~w.ok => ~w.m.open
<1>1. m.cur # None /\ image = [t \in Tracks |-> image[t]]
  BY DiskAssumption DEF CacheTypeOK, CacheOK, Complete
<1>2. CASE w = [m |-> [m EXCEPT !.dirty = FALSE], image |-> [image EXCEPT ![m.cur] = m.track],
                ok |-> TRUE]
  <2>1. w.ok /\ w.m.cur = m.cur /\ w.m.track = m.track /\ w.m.open = m.open /\ w.m.dirty = FALSE
    BY <1>2 DEF Shaped
  <2>2. \A s : s[1] \in Tracks => w.image[s[1]][s[2]] = Held(m, image, s)
    BY <1>1, <1>2 DEF Held
  <2> QED BY <2>1, <2>2 DEF Held
<1>3. CASE \E n \in Slots(m.cur) :
             w = [m |-> free_image_data(m), ok |-> FALSE,
                  image |-> [image EXCEPT ![m.cur] =
                               [s \in Slots(m.cur) |-> IF s < n THEN m.track[s] ELSE @[s]]]]
  <2>1. w.ok = FALSE /\ w.m = free_image_data(m)
    BY <1>3
  <2>2. free_image_data(m).open = FALSE
    BY DEF Shaped, free_image_data
  <2> QED BY <2>1, <2>2
<1> QED BY <1>1, <1>2, <1>3 DEF write_track

-----------------------------------------------------------------------------
\* A call that has answered without a block is as the invariant says.
LEMMA AnsweredParts ==
  ASSUME job' = Idle, block_buffer' = [k \in 0 .. Count - 1 |-> block_buffer'[k]],
         result'.status \notin {"written", "read"}
  PROVE  BlockParts'
BY DEF BlockParts, InBlock, WrittenSoFar, ReadSoFar, DumpedSoFar, WriteReachesImage, Delivered

\* What is known of a call that reads or writes a block.
LEMMA RunningBlock ==
  ASSUME BlockIInv, job # Idle, job.op # "label"
  PROVE  /\ job = [op |-> job.op, blk |-> job.blk, data |-> job.data, at |-> job.at,
                   filled |-> job.filled]
         /\ job.at \in Places /\ job.filled \in 0 .. Count - 1 /\ job.blk \in Nat
         /\ job.at = Places_of(job.blk)[job.filled] /\ result = NoResult
         /\ Count \in Nat \ {0}
BY DiskAssumption DEF BlockIInv, InBlock, CacheTypeOK, JobOK

\* The loops go on to the next place of the block.
LEMMA AdvanceBlock ==
  ASSUME BlockIInv, job # Idle, job.op # "label", job.filled + 1 < Count,
         NEW data, result' = result,
         job' = [op |-> job.op, blk |-> job.blk, data |-> data,
                 at |-> next_sector(Dpb, job.at), filled |-> job.filled + 1]
  PROVE  /\ InBlock' /\ WriteReachesImage' /\ Delivered'
         /\ Before(job.at, job'.at)
<1>1. /\ job.at \in Places /\ job.filled \in 0 .. Count - 1 /\ job.blk \in Nat
      /\ job.at = Places_of(job.blk)[job.filled] /\ result = NoResult /\ Count \in Nat
  BY RunningBlock
<1>2. job'.blk = job.blk /\ job'.filled = job.filled + 1 /\ job'.at = next_sector(Dpb, job.at)
  OBVIOUS
<1>3. Places_of(job.blk)[job.filled + 1] = next_sector(Dpb, job.at)
  <2>1. job.filled + 1 \in 0 .. Count - 1 /\ job.filled + 1 # 0 /\ job.filled + 1 - 1 = job.filled
    BY <1>1
  <2> QED BY <1>1, <2>1, BlockWalk
<1>4. InBlock'
  <2>1. job.blk \in 0 .. Dpb.DSM
    BY DEF BlockIInv, InBlock
  <2>2. Places_of(job.blk)' = Places_of(job.blk)
    BY DEF Places_of
  <2> QED BY <1>1, <1>2, <1>3, <2>1 DEF InBlock, Places_of
<1>5. WriteReachesImage' /\ Delivered'
  BY <1>1 DEF WriteReachesImage, Delivered
<1> QED BY <1>1, <1>2, <1>4, <1>5, NextIsBehind

\* Advance() and the last line of the loop of DUMP are such steps.
LEMMA AdvancedJob ==
  ASSUME BlockIInv, job # Idle, job.op # "label", Advance(1)
  PROVE  /\ result' = result
         /\ job' = [op |-> job.op, blk |-> job.blk, data |-> job.data,
                    at |-> next_sector(Dpb, job.at), filled |-> job.filled + 1]
BY RunningBlock DEF Advance

LEMMA WriteSectorBlock ==
  ASSUME BlockIInv, WriteSector PROVE BlockParts'
<1> DEFINE at == job.at
           K == job.filled
           P(k) == Places_of(job.blk)[k]
           d == job.data[K]
           last == K + 1 >= Count
           moves == TrackOf(next_sector(Dpb, at)) # TrackOf(at)
           s(r) == IF r.ok THEN Slot(r.m.cur, at) ELSE -1
           c(r) == [r.m EXCEPT !.track[s(r)] = d, !.dirty = TRUE]
<1>0. job.op = "write" /\ job # Idle /\ block_buffer' = block_buffer
  BY Running DEF WriteSector
<1>1. /\ at \in Places /\ K \in 0 .. Count - 1 /\ job.blk \in Nat
      /\ at = P(K) /\ result = NoResult /\ Count \in Nat \ {0} /\ CacheTypeOK
  BY <1>0, RunningBlock DEF BlockIInv
<1>2. block_buffer' = [k \in 0 .. Count - 1 |-> block_buffer'[k]]
  BY <1>0 DEF BlockIInv
<1>3. PICK r \in read_track(at) :
          IF s(r) = -1
          THEN SetMemory(r.m) /\ Answer("write", job.blk, job.data, "null") /\ UNCHANGED image
          ELSE IF ~last /\ ~moves
               THEN SetMemory(c(r)) /\ UNCHANGED image /\ Advance(1)
               ELSE \E w \in write_track(c(r)) :
                      /\ SetMemory(w.m) /\ image' = w.image
                      /\ CASE ~w.ok /\ moves -> Answer("write", job.blk, job.data, "crashed")
                           [] (w.ok \/ ~moves) /\ last -> Answer("write", job.blk, job.data, "written")
                           [] OTHER -> Advance(1)
  BY DEF WriteSector
<1>4. CASE s(r) = -1
  BY <1>2, <1>3, <1>4, AnsweredParts DEF Answer
<1>5. CASE s(r) # -1
  <2> DEFINE t == TrackOf(at)
  <2>1. /\ r.ok /\ r.m.cur = t /\ t \in Tracks /\ r.m.open
        /\ r.m.track = [x \in Slots(r.m.cur) |-> r.m.track[x]] /\ Shaped(r.m)
    <3>1. r.ok
      BY <1>5
    <3>2. Shaped(r.m)
      BY <1>1, ReadTrackFits DEF CacheTypeOK
    <3> QED BY <1>1, <3>1, <3>2, LoadedTrack
  <2>2. s(r) = Slot(t, at) /\ SectorAt(at) = <<r.m.cur, s(r)>> /\ s(r) \in Slots(r.m.cur)
    <3>1. s(r) = Slot(t, at)
      BY <2>1
    <3>2. Slot(t, at) \in Slots(t)
      BY <1>5, <2>1, <3>1, SlotFound DEF Slot
    <3> QED BY <2>1, <3>1, <3>2 DEF SectorAt
  <2>3. There(at)
    BY <1>5, <2>1, <2>2 DEF There
  <2>4. c(r) = Change(r.m, s(r), d)
    BY DEF Change
  <2> HIDE DEF s, c, d
  <2>5. Shaped(c(r)) /\ c(r).cur = t /\ c(r).open = r.m.open /\ c(r).dirty = TRUE
    <3>1. Shaped(r.m) /\ r.m.cur = t
      BY <2>1
    <3>2. ASSUME NEW m, Shaped(m), NEW new, new = Change(m, s(r), d)
          PROVE  Shaped(new) /\ new.cur = m.cur /\ new.open = m.open /\ new.dirty = TRUE
      BY <3>2, ChangeShaped
    <3> QED BY <3>1, <3>2, <2>4
  <2>6. \A k \in 0 .. K - 1 :
          /\ P(k) \in Places /\ There(P(k)) /\ Before(P(k), at)
          /\ Held(Memory, image, SectorAt(P(k))) = job.data[k]
    BY <1>0 DEF BlockIInv, WrittenSoFar
  <2>7. ASSUME NEW k \in 0 .. K
        PROVE  /\ P(k) \in Places /\ There(P(k))
               /\ Held(c(r), image, SectorAt(P(k))) = job.data[k]
    <3>1. CASE k = K
      BY <1>1, <2>1, <2>2, <2>3, <2>4, <3>1, ChangeHolds DEF d
    <3>2. CASE k # K
      <4> DEFINE q == SectorAt(P(k))
      <4>1. k \in 0 .. K - 1
        BY <1>1, <3>2
      <4>2. P(k) \in Places /\ There(P(k)) /\ Before(P(k), at)
        BY <2>6, <4>1
      <4>3. q = <<q[1], q[2]>> /\ q[1] \in Tracks /\ q[2] \in Slots(q[1])
        BY <4>2, SlotFound DEF There, SectorAt, Slot
      <4>4. q # SectorAt(at)
        BY <1>1, <2>3, <4>2, PlacesDiffer DEF There
      <4>5. Held(r.m, image, q) = Held(Memory, image, q)
        <5>1. cur = t \/ ~track_dirty
          BY <1>0, <1>1, <4>1 DEF BlockIInv, WrittenSoFar
        <5> HIDE DEF q
        <5> QED BY <1>1, <2>1, <4>3, <5>1, ReadTrackHolds
      <4>6. Held(c(r), image, q) = Held(r.m, image, q)
        <5> HIDE DEF q
        <5> QED BY <2>1, <2>2, <2>4, <4>3, <4>4, ChangeHoldsElsewhere
      <4> QED BY <2>6, <4>1, <4>2, <4>5, <4>6
    <3> QED BY <3>1, <3>2
  <2>8. ASSUME ~last, Advance(1), NEW m, Shaped(m), SetMemory(m),
               m.cur = TrackOf(next_sector(Dpb, at)) \/ ~m.dirty,
               \A k \in 0 .. K : Held(m, image', SectorAt(P(k))) = Held(c(r), image, SectorAt(P(k)))
        PROVE  BlockParts'
    <3>1. /\ result' = result
          /\ job' = [op |-> job.op, blk |-> job.blk, data |-> job.data,
                     at |-> next_sector(Dpb, at), filled |-> K + 1]
      BY <1>0, <2>8, AdvancedJob
    <3>2. K + 1 < Count
      BY <1>1, <2>8
    <3>3. InBlock' /\ WriteReachesImage' /\ Delivered' /\ Before(at, job'.at)
      BY <1>0, <3>1, <3>2, AdvanceBlock
    <3>4. Memory' = m /\ cur' = m.cur /\ track_dirty' = m.dirty
      BY <2>8, Stored DEF SetMemory
    <3>5. ASSUME NEW k \in 0 .. K
          PROVE  /\ P(k) \in Places /\ There(P(k)) /\ Before(P(k), job'.at)
                 /\ Held(Memory', image', SectorAt(P(k))) = job.data[k]
      <4>1. Before(P(k), job'.at)
        <5>1. next_sector(Dpb, at) \in Places
          BY <1>1, NextPlace
        <5>2. CASE k = K
          BY <1>1, <3>3, <5>2
        <5>3. CASE k # K
          BY <1>1, <2>6, <3>1, <3>3, <5>1, <5>3, BeforeTransitive
        <5> QED BY <5>2, <5>3
      <4> QED BY <2>7, <2>8, <3>4, <4>1
    <3>6. WrittenSoFar'
      <4>1. job'.at = next_sector(Dpb, at) /\ job'.filled - 1 = K /\ job'.blk = job.blk
            /\ job'.data = job.data
        BY <1>1, <3>1
      <4>2. cur' = TrackOf(job'.at) \/ ~track_dirty'
        BY <2>8, <3>4, <4>1
      <4>3. Places_of(job.blk)' = Places_of(job'.blk)
        BY <3>1 DEF Places_of
      <4> QED BY <3>5, <4>1, <4>2 DEF WrittenSoFar
    <3>7. ReadSoFar' /\ DumpedSoFar'
      BY <1>0, <3>1 DEF ReadSoFar, DumpedSoFar
    <3> QED BY <1>2, <3>3, <3>6, <3>7 DEF BlockParts
  <2>9. CASE ~last /\ ~moves
    <3>1. SetMemory(c(r)) /\ UNCHANGED image /\ Advance(1)
      BY <1>3, <1>5, <2>9
    <3> QED BY <2>5, <2>8, <2>9, <3>1
  <2>10. CASE ~(~last /\ ~moves)
    <3>1. PICK w \in write_track(c(r)) :
            /\ SetMemory(w.m) /\ image' = w.image
            /\ CASE ~w.ok /\ moves -> Answer("write", job.blk, job.data, "crashed")
                 [] (w.ok \/ ~moves) /\ last -> Answer("write", job.blk, job.data, "written")
                 [] OTHER -> Advance(1)
      BY <1>3, <1>5, <2>10
    <3>2. /\ w.ok => /\ w.m.cur = c(r).cur /\ ~w.m.dirty /\ w.m.open
                     /\ \A q : q[1] \in Tracks =>
                          /\ Held(w.m, w.image, q) = Held(c(r), image, q)
                          /\ w.image[q[1]][q[2]] = Held(c(r), image, q)
          /\ ~w.ok => ~w.m.open
      BY <1>1, <2>1, <2>5, WriteTrackHolds
    <3>3. Shaped(w.m)
      BY <2>5, <3>1, WriteTrackShaped
    <3>4. \A k \in 0 .. K : SectorAt(P(k))[1] \in Tracks
      BY <2>7 DEF There, SectorAt
    <3>5. CASE ~w.ok /\ moves
      BY <1>2, <3>1, <3>5, AnsweredParts DEF Answer
    <3>6. CASE (w.ok \/ ~moves) /\ last
      <4>1. /\ job' = Idle
            /\ result' = [op |-> "write", blk |-> job.blk, data |-> job.data, status |-> "written"]
        BY <3>1, <3>6 DEF Answer
      <4>2. K = Count - 1
        BY <1>1, <3>6
      <4>3. ASSUME open', NEW k \in 0 .. Count - 1
            PROVE  image'[SectorAt(P(k))[1]][SectorAt(P(k))[2]] = job.data[k]
        <5>1. w.ok
          BY <3>1, <3>2, <4>3 DEF SetMemory
        <5> QED BY <2>7, <3>1, <3>2, <3>4, <4>2, <5>1
      <4>4. WriteReachesImage'
        BY <4>1, <4>3 DEF WriteReachesImage, Places_of, SectorAt
      <4> QED BY <1>2, <4>1, <4>4
              DEF BlockParts, InBlock, WrittenSoFar, ReadSoFar, DumpedSoFar, Delivered
    <3>7. CASE w.ok /\ moves /\ ~last
      <4>1. Advance(1)
        BY <3>1, <3>7
      <4>2. \A k \in 0 .. K : Held(w.m, image', SectorAt(P(k))) = Held(c(r), image, SectorAt(P(k)))
        BY <3>1, <3>2, <3>4, <3>7
      <4> QED BY <2>8, <3>1, <3>2, <3>3, <3>7, <4>1, <4>2
    <3> QED BY <2>10, <3>5, <3>6, <3>7
  <2> QED BY <2>9, <2>10
<1> QED BY <1>4, <1>5

\* What was delivered stays so while neither the image nor what was asked for
\* changes.
LEMMA StaysAsInImage ==
  ASSUME UNCHANGED <<image, asked>>, NEW p, NEW d
  PROVE  AsInImage(p, d)' = AsInImage(p, d)
BY DEF AsInImage, SectorAt, TrackOf, Slot, SlotIn

\* A sector of the track in the cache is as in the image or as asked for.
LEMMA CachedSector ==
  ASSUME CacheTypeOK, NEW p \in Places, NEW r \in read_track(p),
         r.ok \/ r.m.cur # None, NEW x, TrackOf(p) \in Tracks => x = Slot(TrackOf(p), p), x # -1
  PROVE  AsInImage(p, r.m.track[x])
<1> SUFFICES ASSUME TrackOf(p) \in Tracks PROVE AsInImage(p, r.m.track[x])
  BY DEF AsInImage
<1>1. /\ r.m.cur = TrackOf(p)
      /\ \A s \in Slots(r.m.cur) : r.m.track[s] \in {image[r.m.cur][s], asked[<<r.m.cur, s>>]}
  BY LoadedTrack
<1>2. x \in Slots(TrackOf(p))
  BY SlotFound DEF Slot
<1> QED BY <1>1, <1>2 DEF AsInImage, SectorAt

LEMMA ReadSectorBlock ==
  ASSUME BlockIInv, ReadSector PROVE BlockParts'
<1> DEFINE at == job.at
           K == job.filled
           P(k) == Places_of(job.blk)[k]
           last == K + 1 >= Count
           s(r) == IF r.ok THEN Slot(r.m.cur, at) ELSE -1
<1>0. job.op = "read" /\ job # Idle /\ UNCHANGED <<image, asked>>
  BY Running DEF ReadSector
<1>1. /\ at \in Places /\ K \in 0 .. Count - 1 /\ job.blk \in Nat
      /\ at = P(K) /\ result = NoResult /\ Count \in Nat \ {0} /\ CacheTypeOK
  BY <1>0, RunningBlock DEF BlockIInv
<1>2. PICK r \in read_track(at) :
        /\ block_buffer' = IF s(r) = -1 THEN block_buffer
                           ELSE [block_buffer EXCEPT ![K] = r.m.track[s(r)]]
        /\ IF s(r) = -1 THEN Answer("read", job.blk, <<>>, "null")
           ELSE IF last THEN Answer("read", job.blk, <<>>, "read")
           ELSE Advance(1)
  BY DEF ReadSector
<1>3. block_buffer = [k \in 0 .. Count - 1 |-> block_buffer[k]]
  BY DEF BlockIInv
<1>4. CASE s(r) = -1
  <2>1. block_buffer' = block_buffer
    BY <1>2, <1>4
  <2>2. block_buffer' = [k \in 0 .. Count - 1 |-> block_buffer'[k]]
    BY <1>3, <2>1
  <2> QED BY <1>2, <1>4, <2>2, AnsweredParts DEF Answer
<1>5. CASE s(r) # -1
  <2>1. r.ok /\ s(r) = Slot(r.m.cur, at)
    BY <1>5
  <2>2. r.m.cur = TrackOf(at)
    BY <1>1, <2>1, LoadedTrack
  <2>3. AsInImage(at, r.m.track[s(r)])
    <3> HIDE DEF s
    <3> QED BY <1>1, <1>5, <2>1, <2>2, CachedSector
  <2>4. /\ block_buffer' = [k \in 0 .. Count - 1 |-> block_buffer'[k]]
        /\ block_buffer'[K] = r.m.track[s(r)]
        /\ \A k \in 0 .. K - 1 : block_buffer'[k] = block_buffer[k]
    <3> HIDE DEF s
    <3>1. block_buffer' = [block_buffer EXCEPT ![K] = r.m.track[s(r)]]
      BY <1>2, <1>5
    <3>2. block_buffer' = [k \in 0 .. Count - 1 |-> IF k = K THEN r.m.track[s(r)]
                                                    ELSE block_buffer[k]]
      BY <1>3, <3>1
    <3>3. \A k \in 0 .. K - 1 : k \in 0 .. Count - 1 /\ k # K
      BY <1>1
    <3> QED BY <1>1, <3>2, <3>3
  <2> HIDE DEF s
  <2>5. ASSUME NEW k \in 0 .. K
        PROVE  AsInImage(P(k), block_buffer'[k])
    <3>1. CASE k = K
      BY <1>1, <2>3, <2>4, <3>1
    <3>2. CASE k # K
      <4>1. k \in 0 .. K - 1
        BY <1>1, <3>2
      <4>2. AsInImage(P(k), block_buffer[k])
        BY <1>0, <4>1 DEF BlockIInv, ReadSoFar
      <4> QED BY <2>4, <4>1, <4>2
    <3> QED BY <3>1, <3>2
  <2>6. \A k \in 0 .. K :
          TrackOf(P(k)) \in Tracks =>
            block_buffer'[k] \in {image'[SectorAt(P(k))[1]][SectorAt(P(k))[2]], asked'[SectorAt(P(k))]}
    BY <1>0, <2>5 DEF AsInImage
  <2>7. CASE last
    <3>1. /\ job' = Idle /\ K = Count - 1
          /\ result' = [op |-> "read", blk |-> job.blk, data |-> <<>>, status |-> "read"]
      BY <1>1, <1>2, <1>5, <2>7 DEF Answer
    <3>2. result'.op = "read" /\ result'.status = "read" /\ result'.blk = job.blk
      BY <3>1
    <3>3. Delivered'
      BY <2>6, <3>1, <3>2 DEF Delivered, AsInImage, Places_of, SectorAt
    <3>4. WriteReachesImage'
      BY <3>2 DEF WriteReachesImage
    <3> QED BY <2>4, <3>1, <3>3, <3>4
            DEF BlockParts, InBlock, WrittenSoFar, ReadSoFar, DumpedSoFar
  <2>8. CASE ~last
    <3>1. /\ result' = result
          /\ job' = [op |-> job.op, blk |-> job.blk, data |-> job.data,
                     at |-> next_sector(Dpb, at), filled |-> K + 1]
      BY <1>0, <1>2, <1>5, <2>8, AdvancedJob
    <3>2. InBlock' /\ WriteReachesImage' /\ Delivered'
      BY <1>0, <1>1, <2>8, <3>1, AdvanceBlock
    <3>3. job'.op = "read" /\ job'.filled - 1 = K /\ job'.blk = job.blk
      BY <1>0, <1>1, <3>1
    <3>4. ReadSoFar'
      BY <2>6, <3>3 DEF ReadSoFar, AsInImage, Places_of, SectorAt
    <3>5. WrittenSoFar' /\ DumpedSoFar'
      BY <3>3 DEF WrittenSoFar, DumpedSoFar
    <3> QED BY <2>4, <3>2, <3>4, <3>5 DEF BlockParts
  <2> QED BY <2>7, <2>8
<1> QED BY <1>4, <1>5

LEMMA DumpSectorBlock ==
  ASSUME BlockIInv, DumpSector PROVE BlockParts'
<1> DEFINE at == job.at
           K == job.filled
           P(k) == Places_of(job.blk)[k]
           last == K + 1 >= Count
           s(r) == IF r.m.cur = None THEN -1 ELSE SlotIn(r.m.cur, at, at.hd)
           shown(r) == Append(job.data, r.m.track[s(r)])
<1>0. job.op = "dump" /\ job # Idle /\ UNCHANGED <<image, asked, block_buffer>>
  BY Running DEF DumpSector
<1>1. /\ at \in Places /\ K \in 0 .. Count - 1 /\ job.blk \in Nat
      /\ at = P(K) /\ result = NoResult /\ Count \in Nat \ {0} /\ CacheTypeOK
      /\ job = [op |-> job.op, blk |-> job.blk, data |-> job.data, at |-> job.at,
                filled |-> job.filled]
  BY <1>0, RunningBlock DEF BlockIInv
<1>2. block_buffer' = [k \in 0 .. Count - 1 |-> block_buffer'[k]]
  BY <1>0 DEF BlockIInv
<1>3. PICK r \in read_track(at) :
        IF s(r) = -1 THEN Answer("dump", job.blk, job.data, "crashed")
        ELSE IF last THEN Answer("dump", job.blk, shown(r), "read")
        ELSE /\ job' = [job EXCEPT !.filled = @ + 1, !.data = shown(r), !.at = next_sector(Dpb, @)]
             /\ UNCHANGED result
  BY DEF DumpSector
<1>4. CASE s(r) = -1
  BY <1>2, <1>3, <1>4, AnsweredParts DEF Answer
<1>5. CASE s(r) # -1
  <2>1. r.m.cur # None /\ s(r) = SlotIn(r.m.cur, at, at.hd)
    BY <1>5
  <2>2. r.m.track[s(r)] \in Data
    <3>1. Typed(r.m) /\ Fits(r.m, image, asked)
      BY <1>1, ReadTrackTyped, ReadTrackFits DEF CacheTypeOK
    <3>2. r.m.cur \in Tracks /\ r.m.track \in [Slots(r.m.cur) -> Data]
      BY <2>1, <3>1 DEF Typed, Fits
    <3>3. s(r) \in Slots(r.m.cur)
      BY <1>5, <2>1, <3>2, SlotFound
    <3> HIDE DEF s
    <3> QED BY <3>2, <3>3
  <2>3. ASSUME HeadsAsSides PROVE AsInImage(at, r.m.track[s(r)])
    <3>1. TrackOf(at) \in Tracks => s(r) = Slot(TrackOf(at), at)
      <4>1. SUFFICES ASSUME TrackOf(at) \in Tracks PROVE s(r) = Slot(TrackOf(at), at)
        OBVIOUS
      <4>2. r.m.cur = TrackOf(at)
        BY <1>1, <2>1, <4>1, LoadedTrack
      <4>3. HeadValue(Dpb, at.hd) = at.hd
        <5>1. TrackOf(at).hd = at.hd
          BY DEF TrackOf
        <5> QED BY <2>3, <4>1, <5>1 DEF HeadsAsSides
      <4> QED BY <2>1, <4>2, <4>3 DEF Slot
    <3> HIDE DEF s
    <3> QED BY <1>1, <1>5, <2>1, <3>1, CachedSector
  <2>4. job.data \in Seq(Data) /\ Len(job.data) = K
    BY <1>0 DEF BlockIInv, DumpedSoFar
  <2> HIDE DEF s
  <2>5. /\ shown(r) \in Seq(Data) /\ Len(shown(r)) = K + 1
        /\ shown(r)[K + 1] = r.m.track[s(r)]
        /\ \A k \in 0 .. K - 1 : shown(r)[k + 1] = job.data[k + 1]
    BY <1>1, <2>2, <2>4
  <2> HIDE DEF shown
  <2>6. ASSUME HeadsAsSides, NEW k \in 0 .. K
        PROVE  AsInImage(P(k), shown(r)[k + 1])
    <3>1. CASE k = K
      BY <1>1, <2>3, <2>5, <2>6, <3>1
    <3>2. CASE k # K
      <4>1. k \in 0 .. K - 1
        BY <1>1, <3>2
      <4>2. AsInImage(P(k), job.data[k + 1])
        BY <1>0, <2>6, <4>1 DEF BlockIInv, DumpedSoFar
      <4> QED BY <2>5, <4>1, <4>2
    <3> QED BY <3>1, <3>2
  <2>7. HeadsAsSides => \A k \in 0 .. K :
          TrackOf(P(k)) \in Tracks =>
            shown(r)[k + 1] \in {image'[SectorAt(P(k))[1]][SectorAt(P(k))[2]], asked'[SectorAt(P(k))]}
    BY <1>0, <2>6 DEF AsInImage
  <2>8. CASE last
    <3>1. /\ job' = Idle /\ K = Count - 1
          /\ result' = [op |-> "dump", blk |-> job.blk, data |-> shown(r), status |-> "read"]
      BY <1>1, <1>3, <1>5, <2>8 DEF Answer
    <3>2. /\ result'.op = "dump" /\ result'.status = "read" /\ result'.blk = job.blk
          /\ result'.data = shown(r)
      BY <3>1
    <3>3. Delivered'
      BY <2>7, <3>1, <3>2 DEF Delivered, AsInImage, Places_of, SectorAt
    <3>4. WriteReachesImage'
      BY <3>2 DEF WriteReachesImage
    <3> QED BY <1>2, <3>1, <3>3, <3>4
            DEF BlockParts, InBlock, WrittenSoFar, ReadSoFar, DumpedSoFar
  <2>9. CASE ~last
    <3>1. /\ result' = result
          /\ job' = [op |-> job.op, blk |-> job.blk, data |-> shown(r),
                     at |-> next_sector(Dpb, at), filled |-> K + 1]
      BY <1>1, <1>3, <1>5, <2>9
    <3>2. InBlock' /\ WriteReachesImage' /\ Delivered'
      BY <1>0, <1>1, <2>9, <3>1, AdvanceBlock
    <3>3. /\ job'.op = "dump" /\ job'.filled = K + 1 /\ job'.filled - 1 = K
          /\ job'.blk = job.blk /\ job'.data = shown(r)
      BY <1>0, <1>1, <3>1
    <3>4. DumpedSoFar'
      BY <2>5, <2>7, <3>3 DEF DumpedSoFar, AsInImage, Places_of, SectorAt, HeadsAsSides
    <3>5. WrittenSoFar' /\ ReadSoFar'
      BY <3>3 DEF WrittenSoFar, ReadSoFar
    <3> QED BY <1>2, <3>2, <3>4, <3>5 DEF BlockParts
  <2> QED BY <2>8, <2>9
<1> QED BY <1>4, <1>5

\* A call begins at the first place of its block, with nothing done yet.
LEMMA BegunParts ==
  ASSUME NEW op \in {"read", "write", "dump"}, NEW blk \in 0 .. Dpb.DSM,
         NEW data, op = "dump" => data = <<>>,
         Begin(op, blk, data, calc_t_s_h(Dpb, blk)),
         block_buffer' = [k \in 0 .. Count - 1 |-> block_buffer'[k]]
  PROVE  BlockParts'
<1>1. /\ job' = [op |-> op, blk |-> blk, data |-> data, at |-> calc_t_s_h(Dpb, blk), filled |-> 0]
      /\ result' = NoResult
  BY DEF Begin
<1>2. job'.blk = blk /\ job'.filled = 0 /\ job'.at = calc_t_s_h(Dpb, blk) /\ job'.op = op
      /\ job'.data = data
  BY <1>1
<1>3. Places_of(blk)[0] = calc_t_s_h(Dpb, blk) /\ 0 \in 0 .. Count - 1
  <2>1. blk \in Nat /\ Count \in Nat \ {0}
    BY DiskAssumption
  <2> QED BY <2>1, BlockWalk
<1>4. InBlock'
  BY <1>1, <1>2, <1>3 DEF InBlock, Places_of
<1>5. WrittenSoFar' /\ ReadSoFar'
  BY <1>2 DEF WrittenSoFar, ReadSoFar
<1>6. DumpedSoFar'
  BY <1>2 DEF DumpedSoFar
<1>7. WriteReachesImage' /\ Delivered'
  BY <1>1 DEF WriteReachesImage, Delivered, NoResult
<1> QED BY <1>4, <1>5, <1>6, <1>7 DEF BlockParts

LEMMA CallsBlock ==
  ASSUME BlockIInv, NEW b \in Blocks,
         \/ read_block(b) \/ dump(b)
         \/ \E data \in [0 .. Count - 1 -> Data] : write_block(b, data)
  PROVE  BlockParts'
<1>1. InRange(b) => b \in 0 .. Dpb.DSM
  BY DiskAssumption DEF InRange
<1>2. CASE read_block(b)
  <2>1. block_buffer' = [k \in 0 .. Count - 1 |-> block_buffer'[k]]
    BY <1>2 DEF read_block, BlockIInv
  <2>2. CASE b = cur_blk
    BY <1>2, <2>1, <2>2, AnsweredParts DEF read_block, Answer
  <2>3. CASE b # cur_blk /\ ~InRange(b)
    BY <1>2, <2>1, <2>3, AnsweredParts DEF read_block, Answer
  <2>4. CASE b # cur_blk /\ InRange(b)
    BY <1>1, <1>2, <2>1, <2>4, BegunParts DEF read_block
  <2> QED BY <2>2, <2>3, <2>4
<1>3. CASE dump(b)
  <2>1. block_buffer' = [k \in 0 .. Count - 1 |-> block_buffer'[k]]
    BY <1>3 DEF dump, BlockIInv
  <2> QED BY <1>1, <1>3, <2>1, BegunParts DEF dump
<1>4. ASSUME NEW data \in [0 .. Count - 1 -> Data], write_block(b, data)
      PROVE  BlockParts'
  <2>1. block_buffer' = [k \in 0 .. Count - 1 |-> block_buffer'[k]]
    BY <1>4 DEF write_block
  <2>2. CASE InRange(b)
    BY <1>1, <1>4, <2>1, <2>2, BegunParts DEF write_block
  <2>3. CASE ~InRange(b)
    BY <1>4, <2>1, <2>3, AnsweredParts DEF write_block, Answer
  <2> QED BY <2>2, <2>3
<1> QED BY <1>2, <1>3, <1>4

\* Labels have no block.
LEMMA LabelBlock ==
  ASSUME BlockIInv, LabelSector \/ \E data \in Labels : write_label(data)
  PROVE  BlockParts'
<1>1. block_buffer' = [k \in 0 .. Count - 1 |-> block_buffer'[k]]
  BY DEF LabelSector, write_label, BlockIInv
<1>2. \/ job' = Idle /\ result'.op = "label" /\ result'.status # "read"
      \/ job' # Idle /\ job'.op = "label" /\ result' = NoResult
  <2>1. CASE \E data \in Labels : write_label(data)
    BY <2>1 DEF write_label, Begin, Idle
  <2>2. CASE LabelSector
    <3>1. job.op = "label" /\ job # Idle
      BY <2>2, Running DEF LabelSector
    <3>2. job = [op |-> job.op, blk |-> job.blk, data |-> job.data, at |-> job.at,
                 filled |-> job.filled] /\ result = NoResult
      BY <3>1 DEF BlockIInv, InBlock, CacheTypeOK, JobOK
    <3>3. \/ \E status \in {"null", "written"} : Answer("label", -1, job.data, status)
          \/ \E n : Advance(n)
      BY <2>2 DEF LabelSector
    <3>4. CASE \E status \in {"null", "written"} : Answer("label", -1, job.data, status)
      BY <3>4 DEF Answer
    <3>5. CASE \E n : Advance(n)
      <4>1. PICK n : Advance(n)
        BY <3>5
      <4>2. /\ job' = [op |-> "label", blk |-> job.blk, data |-> job.data,
                       at |-> next_sector(Dpb, job.at), filled |-> job.filled + n]
            /\ result' = NoResult
        BY <3>1, <3>2, <4>1 DEF Advance
      <4>3. job'.op = "label"
        BY <4>2
      <4> QED BY <4>2, <4>3 DEF Idle
    <3> QED BY <3>3, <3>4, <3>5
  <2> QED BY <2>1, <2>2
<1> QED BY <1>1, <1>2 DEF BlockParts, InBlock, WrittenSoFar, ReadSoFar, DumpedSoFar,
                          WriteReachesImage, Delivered, NoResult

LEMMA OthersBlock ==
  ASSUME BlockIInv, Flush \/ Free \/ Open \/ Kill
  PROVE  BlockParts'
<1>1. job' = Idle /\ result' = NoResult
  BY DEF Flush, Free, Open, Kill, Ready
<1>2. block_buffer' = [k \in 0 .. Count - 1 |-> block_buffer'[k]]
  BY DEF Flush, Free, Open, Kill, BlockIInv, NoBlock
<1> QED BY <1>1, <1>2, AnsweredParts DEF NoResult

LEMMA BlockNext ==
  ASSUME BlockIInv, [Next]_vars PROVE BlockIInv'
<1>1. CacheTypeOK'
  BY TypeNext DEF BlockIInv
<1>2. BlockParts'
  <2>1. CASE \E b \in Blocks : read_block(b) \/ dump(b)
    BY <2>1, CallsBlock
  <2>2. CASE \E b \in Blocks, data \in [0 .. Count - 1 -> Data] : write_block(b, data)
    BY <2>2, CallsBlock
  <2>3. CASE LabelSector \/ \E data \in Labels : write_label(data)
    BY <2>3, LabelBlock
  <2>4. CASE Flush \/ Free \/ Open \/ Kill
    BY <2>4, OthersBlock
  <2>5. CASE ReadSector \/ WriteSector \/ DumpSector
    BY <2>5, ReadSectorBlock, WriteSectorBlock, DumpSectorBlock
  <2>6. CASE UNCHANGED vars
    BY <2>6 DEF vars, memory, BlockIInv, BlockParts, InBlock, WrittenSoFar, ReadSoFar, DumpedSoFar,
                WriteReachesImage, Delivered, AsInImage, Memory
  <2> QED BY <2>1, <2>2, <2>3, <2>4, <2>5, <2>6 DEF Next, Calls, Step
<1> QED BY <1>1, <1>2 DEF BlockIInv, BlockParts

LEMMA BlockInit == Init => BlockIInv
<1> SUFFICES ASSUME Init PROVE BlockIInv
  OBVIOUS
<1>1. CacheTypeOK
  BY TypeInit
<1>2. job = Idle /\ result = NoResult /\ block_buffer = [k \in 0 .. Count - 1 |-> None]
  BY DEF Init, NoBlock
<1>3. block_buffer = [k \in 0 .. Count - 1 |-> block_buffer[k]]
  BY <1>2
<1> QED BY <1>1, <1>2, <1>3 DEF BlockIInv, InBlock, WrittenSoFar, ReadSoFar, DumpedSoFar,
                                WriteReachesImage, Delivered

\* The inductive invariant of the loops over a block: a call is at the place
\* that its counter says, what it has written is in the cache or in the image
\* and is not dropped with the cache, and what it has read is as the image was
\* or was asked to be (read_block, write_block, the loop of DUMP).
THEOREM BlockInvariant == Spec => []BlockIInv
<1>1. BlockIInv /\ [Next]_vars => BlockIInv'
  BY BlockNext
<1> QED BY <1>1, BlockInit, PTL DEF Spec

\* When write_block() has answered with its buffer and the image is still in
\* use, the whole block is in the image, for every geometry and every order of
\* the sides: no sector of a block lies on another one, and no track that the
\* loop leaves stays behind in the cache (fs.c:885).
THEOREM BlocksReachImage == Spec => []WriteReachesImage
<1>1. BlockIInv => WriteReachesImage
  BY DEF BlockIInv
<1> QED BY <1>1, BlockInvariant, PTL

\* What read_block() has read is what the image holds or was asked to hold, in
\* each sector of the block; DUMP shows the same in formats that give the
\* sides' numbers to their heads, the only ones where it looks sectors up
\* under the value they were written with.
THEOREM ReadsDeliver == HeadsAsSides => (Spec => []ReadDelivers)
<1> SUFFICES ASSUME HeadsAsSides PROVE Spec => []ReadDelivers
  OBVIOUS
<1>1. BlockIInv => ReadDelivers
  BY DEF BlockIInv, Delivered, AsInImage, ReadDelivers
<1> QED BY <1>1, BlockInvariant, PTL


=============================================================================
