------------------------------ MODULE FatAccess ------------------------------
(***************************************************************************)
(* Reading directories from the FAT32 card: the sector reader, which       *)
(* follows a cluster chain through the browse cluster cache, the search    *)
(* for a name (fatfs_get_file_entry) and the listing of a directory        *)
(* (fl_list_opendir, fl_list_readdir), with the buffers they share.        *)
(*                                                                         *)
(* The cache maps the index of a cluster in a chain to the next cluster    *)
(* and does not say of which chain; fl_list_opendir clears it after its    *)
(* own path walk.  Every step below is one pass of the sector reader's     *)
(* loop or one sector looked through.                                      *)
(*                                                                         *)
(* A read of the card that fails never returns (media_read shows an error  *)
(* box for ever), so reads succeed.                                        *)
(***************************************************************************)
EXTENDS Integers, Sequences

CONSTANTS
  Clusters,      \* the data clusters; 2 is the first
  LAST,          \* FAT32_LAST_CLUSTER, also FAT32_INVALID_CLUSTER
  Root,          \* rootdir_first_cluster
  Fat,           \* the FAT: the cluster behind a cluster, or LAST
  SectorsPerCluster,
  EntriesPerSector,  \* FAT_DIR_ENTRIES_PER_SECTOR, 16
  CacheEntries,      \* FAT_BROWSE_CLUSTER_CACHE_ENTRIES, 32
  FatPerSector,      \* entries of a FAT sector, 128
  Names,
  Card,          \* the directory records in each sector of each cluster
  ConfigName,    \* the file fl_fopen is called with
  MaxChain,      \* a chain has fewer clusters than this
  Chain          \* the clusters of the chain from a cluster on, then LAST

Items == 0 .. EntriesPerSector - 1

\* kind "skip": deleted records, volume labels and parts of long names;
\* kind "blank": Name[0] is FILE_HEADER_BLANK, the end of a listing.
Record == [kind : {"skip", "blank", "entry"}, name : Names, is_dir : BOOLEAN,
           cluster : Clusters]

NONE == -1  \* 0xFFFFFFFF, "not used"

ASSUME FatAssumption ==
  /\ Clusters \subseteq Nat \ {0, 1}
  /\ Root \in Clusters /\ 2 \in Clusters
  /\ LAST \notin Clusters \cup {0}
  /\ Fat \in [Clusters -> Clusters \cup {LAST}]
  /\ SectorsPerCluster \in Nat \ {0}
  /\ EntriesPerSector \in Nat \ {0}
  /\ CacheEntries \in Nat \ {0}
  /\ FatPerSector \in Nat \ {0}
  /\ Card \in [Clusters -> [0 .. SectorsPerCluster - 1 -> [Items -> Record]]]
  /\ ConfigName \in Names

\* Every chain ends: the card is not corrupt.
ASSUME ChainAssumption ==
  /\ MaxChain \in Nat \ {0}
  /\ Chain \in [Clusters \cup {LAST} -> [0 .. MaxChain -> Clusters \cup {LAST}]]
  /\ \A c \in Clusters \cup {LAST} :
       /\ Chain[c][0] = c
       /\ Chain[c][MaxChain] = LAST
       /\ \A k \in 0 .. MaxChain - 1 :
            Chain[c][k + 1] = IF Chain[c][k] = LAST THEN LAST ELSE Fat[Chain[c][k]]

VARIABLES
  phase,    \* "start": the configuration is to be read; "browse"; "save"
  pc,       \* "idle", or within a call: "follow" the chain, "scan" a sector
  call,     \* the call in progress: "browse" or "file" (fatfs_get_file_entry
            \* for fl_list_opendir or fl_fopen), or "list" (fl_list_readdir)
  path,     \* currentPath, of the directory being listed
  walk,     \* names still to be found on the path
  dir,      \* start_cluster of the sector reader
  x,        \* its offset
  chain,    \* its cluster_chain
  i,        \* its loop counter
  browse_cluster_cache,
  fat_buffer,     \* the FAT sector in the single FAT buffer
  currentsector,  \* cluster and sector in the working buffer: its LBA
  dirls,          \* file_list_status
  saved,          \* the statuses the browser can restore
  result,         \* of the last call
  from            \* dirls when the call began

readerVars == << dir, x, chain, i >>
cacheVars == << browse_cluster_cache, fat_buffer >>
vars == << phase, pc, call, path, walk, readerVars, cacheVars, currentsector, dirls,
           saved, result, from >>

-----------------------------------------------------------------------------
(* The card.                                                               *)

\* fatfs_find_next_cluster.  Behind the end of a chain it reads a sector that
\* is not part of the FAT.
NextClusters(c) ==
  IF c = LAST THEN Clusters \cup {0, LAST} ELSE {Fat[IF c = 0 THEN 2 ELSE c]}

\* The records of the working buffer.  The sectors in front of the first
\* data cluster, which cluster 0 stands for, hold no directory records.
Records ==
  IF currentsector[1] \in Clusters
  THEN Card[currentsector[1]][currentsector[2]]
  ELSE [j \in Items |-> [kind |-> "skip"]]

ClusterIndex == x \div SectorsPerCluster

\* What stands at a position of a directory, counted in records.
RecordAt(c, p) ==
  Card[Chain[c][(p \div EntriesPerSector) \div SectorsPerCluster]]
      [(p \div EntriesPerSector) % SectorsPerCluster][p % EntriesPerSector]

Positions(c) ==
  {p \in 0 .. MaxChain * SectorsPerCluster * EntriesPerSector - 1 :
     Chain[c][(p \div EntriesPerSector) \div SectorsPerCluster] # LAST}

SubDirs(c) == {p \in Positions(c) : RecordAt(c, p).kind = "entry" /\ RecordAt(c, p).is_dir}

-----------------------------------------------------------------------------
(* fatfs_sector_reader.                                                    *)

\* The reader is entered, for sector n of the directory at cluster c.
ReadSectorOf(c, n) ==
  /\ pc' = "follow"
  /\ dir' = c /\ x' = n
  /\ chain' = c /\ i' = 0

OldCache == browse_cluster_cache
ClearedCache == [s \in 0 .. CacheEntries - 1 |-> [idx |-> NONE, data |-> 0]]

\* The slot of the cache for a loop index.
CacheSlot(n) == n % CacheEntries

\* fatfs_cache_get_next_cluster finds something for a loop index.
SlotInUse(n) == browse_cluster_cache[CacheSlot(n)].idx # NONE
Cached(n) == browse_cluster_cache[CacheSlot(n)].idx = n

FollowCached ==
  /\ pc = "follow"
  /\ i < ClusterIndex
  /\ Cached(i)
  /\ chain' = browse_cluster_cache[CacheSlot(i)].data
  /\ i' = i + 1
  /\ UNCHANGED << phase, pc, call, path, walk, dir, x, cacheVars, currentsector, dirls,
                  saved, result, from >>

FollowFat ==
  /\ pc = "follow"
  /\ i < ClusterIndex
  /\ ~ Cached(i)
  /\ \E next \in NextClusters(chain) :
       /\ chain' = next
       /\ browse_cluster_cache' = [browse_cluster_cache EXCEPT
                                     ![CacheSlot(i)] = [idx |-> i, data |-> next]]
  /\ fat_buffer' = IF chain = LAST THEN NONE ELSE chain \div FatPerSector
  /\ i' = i + 1
  /\ UNCHANGED << phase, pc, call, path, walk, dir, x, currentsector, dirls,
                  saved, result, from >>

SectorOfCluster == x % SectorsPerCluster

\* The sector is read unless the working buffer already holds it.
LoadSector ==
  /\ pc = "follow"
  /\ i = ClusterIndex
  /\ chain # LAST
  /\ currentsector' = << chain, SectorOfCluster >>
  /\ pc' = "scan"
  /\ UNCHANGED << phase, call, path, walk, readerVars, cacheVars, dirls, saved, result, from >>

AtEndOfChain == pc = "follow" /\ i = ClusterIndex /\ chain = LAST

-----------------------------------------------------------------------------
(* fl_list_readdir.                                                        *)

Readdir ==
  /\ phase = "browse" /\ pc = "idle"
  /\ call' = "list"
  /\ ReadSectorOf(dirls.cluster, dirls.sector)
  /\ from' = dirls
  /\ UNCHANGED << phase, path, walk, cacheVars, currentsector, dirls, saved, result >>

\* The records from the listing's offset on that end the scan of a sector.
LiveFromStart == {j \in Items : Records[j].kind # "skip"}
Live == {j \in Items : j >= dirls.offset /\ Records[j].kind # "skip"}
FirstLive == CHOOSE j \in Live : \A k \in Live : j <= k

Return(r) == pc' = "idle" /\ result' = r

ListEntry ==
  /\ pc = "scan" /\ call = "list"
  /\ Live # {} /\ Records[FirstLive].kind = "entry"
  /\ dirls' = [dirls EXCEPT !.offset = FirstLive + 1]
  /\ saved' = saved \cup {dirls'}
  /\ Return([kind |-> "entry", record |-> Records[FirstLive]])
  /\ UNCHANGED << phase, call, path, walk, readerVars, cacheVars, currentsector, from >>

ListBlank ==
  /\ pc = "scan" /\ call = "list"
  /\ Live # {} /\ Records[FirstLive].kind = "blank"
  /\ Return([kind |-> "end"])
  /\ saved' = saved \cup {dirls}
  /\ UNCHANGED << phase, call, path, walk, readerVars, cacheVars, currentsector, dirls, from >>

SameSector(n) == n
NextSector(n) == n + 1

ListNextSector ==
  /\ pc = "scan" /\ call = "list"
  /\ Live = {}
  /\ dirls' = [dirls EXCEPT !.sector = NextSector(dirls.sector), !.offset = 0]
  /\ ReadSectorOf(dirls.cluster, NextSector(dirls.sector))
  /\ UNCHANGED << phase, call, path, walk, cacheVars, currentsector, saved, result, from >>

ListEnd ==
  /\ AtEndOfChain /\ call = "list"
  /\ Return([kind |-> "end"])
  /\ saved' = saved \cup {dirls}
  /\ UNCHANGED << phase, call, path, walk, readerVars, cacheVars, currentsector, dirls, from >>

\* restore_flstatus.
Restore ==
  /\ phase = "browse" /\ pc = "idle"
  /\ dirls' \in saved
  /\ UNCHANGED << phase, pc, call, path, walk, readerVars, cacheVars, currentsector,
                  saved, result, from >>

-----------------------------------------------------------------------------
(* fl_list_opendir and fl_fopen.                                           *)

\* The sector and the offset are not reset.
StartListingWhereItWas(c) ==
  /\ pc' = "idle"
  /\ browse_cluster_cache' = ClearedCache
  /\ dirls' = [dirls EXCEPT !.cluster = c]
  /\ saved' = {dirls'}

\* fatfs_browse_cache_init, fatfs_list_directory_start: the end of
\* fl_list_opendir, whether the path was found or not.
StartListing(c) ==
  /\ pc' = "idle"
  /\ browse_cluster_cache' = ClearedCache
  /\ dirls' = [cluster |-> c, sector |-> 0, offset |-> 0]
  /\ saved' = {dirls'}

\* The paths enter_sub_dir and main call fl_list_opendir with: the root at
\* first, then the parent or a sub-directory of the directory listed.
NextPaths ==
  IF phase = "start" THEN {<< >>}
  ELSE {Append(path, n) : n \in {RecordAt(dirls.cluster, p).name :
                                   p \in SubDirs(dirls.cluster)}}
       \cup {SubSeq(path, 1, Len(path) - 1) :
              up \in IF path = << >> \/ dirls.cluster = LAST THEN {} ELSE {1}}

\* A path without levels is the root's and needs no walk.
Opendir ==
  /\ phase # "save" /\ pc = "idle"
  /\ phase' = "browse"
  /\ call' = "browse"
  /\ result' = [kind |-> "none"]
  /\ from' = dirls
  /\ path' \in NextPaths
  /\ walk' = path'
  /\ IF path' = << >>
     THEN StartListing(Root) /\ UNCHANGED << readerVars, fat_buffer >>
     ELSE ReadSectorOf(Root, 0) /\ UNCHANGED << cacheVars, dirls, saved >>
  /\ UNCHANGED currentsector

\* fl_fopen, to read the configuration before the first directory is opened
\* and to save it when browsing ends.
Fopen ==
  /\ phase # "save" /\ pc = "idle"
  /\ phase' = IF phase = "start" THEN "start" ELSE "save"
  /\ call' = "file"
  /\ walk' = << ConfigName >>
  /\ result' = [kind |-> "none"]
  /\ ReadSectorOf(Root, 0)
  /\ UNCHANGED << path, cacheVars, currentsector, dirls, saved, from >>

Hits == {j \in Items : Records[j].kind = "entry" /\ Records[j].name = Head(walk)}
Hit == Records[CHOOSE j \in Hits : \A k \in Hits : j <= k]

\* The search goes on behind a blank record; only the chain's end stops it.
FindNextSector ==
  /\ pc = "scan" /\ call # "list"
  /\ Hits = {}
  /\ ReadSectorOf(dir, x + 1)
  /\ UNCHANGED << phase, call, path, walk, cacheVars, currentsector, dirls, saved, result, from >>

\* Where the next level is looked for.
SameDir(hit) == dir
FoundDir(hit) == hit.cluster

\* One level of the path is found, and it is not the last.
FindDir ==
  /\ pc = "scan" /\ call # "list"
  /\ Hits # {} /\ Len(walk) > 1 /\ Hit.is_dir
  /\ walk' = Tail(walk)
  /\ ReadSectorOf(FoundDir(Hit), 0)
  /\ UNCHANGED << phase, call, path, cacheVars, currentsector, dirls, saved, result, from >>

\* The end of the path is found.
FindLast ==
  /\ pc = "scan" /\ call # "list"
  /\ Hits # {} /\ Len(walk) = 1
  /\ Hit.is_dir <=> call = "browse"
  /\ result' = [kind |-> "found", record |-> Hit]
  /\ IF call = "browse"
     THEN StartListing(Hit.cluster)
     ELSE pc' = "idle" /\ UNCHANGED << browse_cluster_cache, dirls, saved >>
  /\ UNCHANGED << phase, call, path, walk, readerVars, fat_buffer, currentsector, from >>

\* A level is missing, or is not what the path needs there.
FindFails ==
  /\ call # "list"
  /\ \/ AtEndOfChain /\ result' = [kind |-> "missing", name |-> Head(walk), dir |-> dir]
     \/ /\ pc = "scan" /\ Hits # {}
        /\ ~ (Hit.is_dir <=> call = "browse")
        /\ result' = [kind |-> "mismatch"]
  /\ IF call = "browse"
     THEN StartListing(LAST)
     ELSE pc' = "idle" /\ UNCHANGED << browse_cluster_cache, dirls, saved >>
  /\ UNCHANGED << phase, call, path, walk, readerVars, fat_buffer, currentsector, from >>

-----------------------------------------------------------------------------

\* Static data is zero: the cache seems to know that cluster 0 follows.
Init ==
  /\ phase = "start" /\ pc = "idle" /\ call = "browse"
  /\ path = << >> /\ walk = << >>
  /\ dir = Root /\ x = 0 /\ chain = Root /\ i = 0
  /\ browse_cluster_cache = [s \in 0 .. CacheEntries - 1 |-> [idx |-> 0, data |-> 0]]
  /\ fat_buffer = NONE
  /\ currentsector = << LAST, 0 >>
  /\ dirls = [cluster |-> LAST, sector |-> 0, offset |-> 0]
  /\ saved = {}
  /\ result = [kind |-> "none"]
  /\ from = dirls

Reader == FollowCached \/ FollowFat \/ LoadSector
List == ListEntry \/ ListBlank \/ ListNextSector \/ ListEnd
Find == FindNextSector \/ FindDir \/ FindLast \/ FindFails

Next == Reader \/ List \/ Find \/ Readdir \/ Restore \/ Opendir \/ Fopen

Spec == Init /\ [][Next]_vars

\* Within a call the processor goes on; no call has to be made.
FairSpec == Spec /\ WF_vars(Reader \/ List \/ Find)

-----------------------------------------------------------------------------
(* Properties.                                                             *)

\* The listing looks through the sectors of its own directory, although path
\* walks of other directories have filled the same cache and the browser has
\* moved the listing back and forth.
ListReadsOwnSectors ==
  pc = "scan" /\ call = "list" =>
    currentsector = << Chain[dirls.cluster][dirls.sector \div SectorsPerCluster],
                       dirls.sector % SectorsPerCluster >>

\* The listing never asks the FAT for the successor of a chain's end.
ListStaysInChain ==
  pc = "follow" /\ call = "list" /\ i < ClusterIndex => chain # LAST

Position(status) == status.sector * EntriesPerSector + status.offset

\* fl_list_readdir returns the first entry of the directory at or behind the
\* status it is called with, or reports the end if a blank record or the end
\* of the chain comes first.
ReaddirReturnsNext ==
  pc = "idle" /\ call = "list" =>
    LET live == {p \in Positions(from.cluster) :
                   p >= Position(from) /\ RecordAt(from.cluster, p).kind # "skip"}
        next == CHOOSE p \in live : \A q \in live : p <= q
    IN IF live # {} /\ RecordAt(from.cluster, next).kind = "entry"
       THEN result = [kind |-> "entry", record |-> RecordAt(from.cluster, next)]
       ELSE result = [kind |-> "end"]

\* What makes these inductive.  A listing, and every status it can be restored
\* to, is in a sector up to which its chain goes.
Reached(c, n) == \A k \in 0 .. (n \div SectorsPerCluster) - 1 : Chain[c][k] # LAST

Status == [cluster : Clusters \cup {LAST}, sector : Nat, offset : 0 .. EntriesPerSector]

TypeOK ==
  /\ phase \in {"start", "browse", "save"}
  /\ pc \in {"idle", "follow", "scan"} /\ call \in {"browse", "file", "list"}
  /\ dir \in Clusters \cup {LAST} /\ x \in Nat /\ chain \in Clusters \cup {0, LAST} /\ i \in Nat
  /\ browse_cluster_cache \in
       [0 .. CacheEntries - 1 -> [idx : Int, data : Clusters \cup {0, LAST}]]
  /\ currentsector \in (Clusters \cup {0, LAST}) \X (0 .. SectorsPerCluster - 1)
  /\ dirls \in Status /\ saved \subseteq Status /\ from \in Status

StatusesReached ==
  /\ Reached(dirls.cluster, dirls.sector)
  /\ \A s \in saved : s.cluster = dirls.cluster /\ Reached(s.cluster, s.sector)

\* Files are looked up before and after browsing.
FilesOutside == call = "file" => phase # "browse"

\* While a directory is listed, the cache holds clusters of its chain only.
CacheOfListing ==
  phase = "browse" /\ (pc = "idle" \/ call = "list") =>
    \A s \in 0 .. CacheEntries - 1 :
      LET slot == browse_cluster_cache[s]
      IN slot.idx # NONE => /\ slot.idx \in 0 .. MaxChain - 1
                            /\ slot.data = Chain[dirls.cluster][slot.idx + 1]

\* The reader is on its way along that chain, or at the sector asked for.
ReaderOfListing ==
  pc # "idle" /\ call = "list" =>
    /\ phase = "browse"
    /\ dir = dirls.cluster /\ x = dirls.sector
    /\ i <= ClusterIndex /\ chain = Chain[dir][i]
    /\ pc = "scan" => /\ i = ClusterIndex /\ chain # LAST
                      /\ currentsector = << chain, SectorOfCluster >>

\* Behind the place it was called for the listing has left out nothing.
NothingLeftOut ==
  pc # "idle" /\ call = "list" =>
    /\ from.cluster = dirls.cluster /\ Position(from) <= Position(dirls)
    /\ \A p \in Positions(dirls.cluster) :
         Position(from) <= p /\ p < Position(dirls) => RecordAt(dirls.cluster, p).kind = "skip"

IInv ==
  /\ TypeOK /\ StatusesReached /\ FilesOutside /\ CacheOfListing
  /\ ReaderOfListing /\ NothingLeftOut /\ ReaddirReturnsNext

\* A name reported missing is not in the directory that was searched.
MissingIsMissing ==
  result.kind = "missing" =>
    \A p \in Positions(result.dir) :
      ~ /\ RecordAt(result.dir, p).kind = "entry"
        /\ RecordAt(result.dir, p).name = result.name

\* A call to fl_list_readdir returns.
ReaddirReturns == (pc # "idle" /\ call = "list") ~> (pc = "idle")

=============================================================================
