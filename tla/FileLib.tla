------------------------------- MODULE FileLib -------------------------------
(***************************************************************************)
(* An open file: fl_fopen, fl_fread, fl_fseek, fl_fswrite and fl_fclose of *)
(* fat_filelib.c, as far as fectrl.c calls them.  There is one file handle *)
(* (FATFS_MAX_OPEN_FILES) with a buffer of one sector, and it remembers    *)
(* the cluster of the last sector read, from which the next one is found.  *)
(*                                                                         *)
(* The calls are made one after the other; a step is a call, or one sector *)
(* of fl_fread.  The callers seek between a write and the next read.       *)
(***************************************************************************)
EXTENDS Integers, Sequences

CONSTANTS
  Clusters, LAST,
  Start,             \* startcluster of the file
  FileLength,        \* filelength, in bytes
  Cluster,           \* the k-th cluster of its chain, then LAST for ever
  SectorsPerCluster,
  BytesPerSector,    \* FAT_SECTOR_SIZE, 512
  WORD_MOD,          \* values of an unsigned long, 2^32
  Bytes,
  Counts,            \* size * length of a fl_fread
  Offsets,           \* of a fl_fseek
  WriteSectors,      \* start_sector of a fl_fswrite
  InitCard           \* the sectors of the card from the first data cluster on

NotUsed == WORD_MOD - 1  \* 0xFFFFFFFF

SectorData == [0 .. BytesPerSector - 1 -> Bytes]

\* fatfs_lba_of_cluster, counted from the first data cluster.
Lba(cluster, sector) == (cluster - 2) * SectorsPerCluster + sector

Lbas == {Lba(c, s) : c \in Clusters, s \in 0 .. SectorsPerCluster - 1}

\* The card is not corrupt: the chain is as long as the file and does not
\* come back to a cluster.
ASSUME FileAssumption ==
  /\ Clusters \subseteq Nat \ {0, 1} /\ Start \in Clusters
  /\ SectorsPerCluster \in Nat \ {0} /\ BytesPerSector \in Nat \ {0}
  /\ WORD_MOD \in Nat \ {0} /\ FileLength \in 1 .. WORD_MOD - 2
  /\ LAST = WORD_MOD - 1 /\ LAST \notin Clusters
  /\ Cluster \in [0 .. FileLength -> Clusters \cup {LAST}]
  /\ Cluster[0] = Start
  /\ \A k \in 0 .. (FileLength - 1) \div (SectorsPerCluster * BytesPerSector) :
       Cluster[k] \in Clusters
  /\ \A k, n \in 0 .. FileLength : Cluster[k] = Cluster[n] => k = n \/ Cluster[k] = LAST
  /\ InitCard \in [Lbas -> SectorData]
  /\ Counts \subseteq Nat /\ Offsets \subseteq Int /\ WriteSectors \subseteq Nat

VARIABLES
  handle,           \* "closed", "open", or "read": within fl_fread
  bytenum,
  address,          \* file_data.address
  data,             \* file_data.sector
  last_fat_lookup,
  want,             \* count of the fl_fread in progress
  buffer,           \* the bytes it has copied so far
  offset,           \* its place in the first sector
  sector,           \* its next sector
  written,          \* a sector was written after the last seek
  card,
  from              \* bytenum when fl_fread was called

readVars == << want, buffer, offset, sector, from >>
fileVars == << handle, bytenum, address, data, last_fat_lookup, readVars, written, card >>

-----------------------------------------------------------------------------
(* Opening and closing.                                                    *)

Fopen ==
  /\ handle = "closed"
  /\ handle' = "open"
  /\ bytenum' = 0
  /\ address' = NotUsed
  /\ last_fat_lookup' = [ClusterIdx |-> NotUsed, CurrentCluster |-> NotUsed]
  /\ written' = FALSE
  /\ UNCHANGED << data, readVars, card >>

Fclose ==
  /\ handle = "open"
  /\ handle' = "closed"
  /\ bytenum' = 0
  /\ address' = NotUsed
  /\ UNCHANGED << data, last_fat_lookup, readVars, written, card >>

-----------------------------------------------------------------------------
(* _read_sector.                                                           *)

\* The cluster behind the one looked up last, if that is the one wanted; the
\* index of the last lookup plus one is taken in unsigned longs.
IsNextOrFirst(idx) == idx = (last_fat_lookup.ClusterIdx + 1) % WORD_MOD
IsNext(idx) == idx # 0 /\ idx = (last_fat_lookup.ClusterIdx + 1) % WORD_MOD

\* The FAT's successor of a cluster of this file.
Successor(c) ==
  IF c = LAST THEN LAST
  ELSE LET k == CHOOSE n \in DOMAIN Cluster : Cluster[n] = c IN Cluster[k + 1]

ClusterOf(idx) ==
  IF idx = last_fat_lookup.ClusterIdx THEN last_fat_lookup.CurrentCluster
  ELSE IF IsNext(idx) THEN
    IF last_fat_lookup.ClusterIdx = NotUsed THEN last_fat_lookup.CurrentCluster
    ELSE Successor(last_fat_lookup.CurrentCluster)
  ELSE Cluster[idx]

ClusterIdx == sector \div SectorsPerCluster

-----------------------------------------------------------------------------
(* fl_fread.                                                               *)

\* The count, limited to the file.
Limited(count) ==
  IF bytenum + count > FileLength THEN FileLength - bytenum ELSE count

FreadBegin ==
  /\ handle = "open" /\ ~ written
  /\ \E count \in Counts : want' = Limited(count)
  /\ bytenum < FileLength /\ want' > 0
  /\ handle' = "read"
  /\ buffer' = << >>
  /\ sector' = bytenum \div BytesPerSector
  /\ offset' = bytenum % BytesPerSector
  /\ from' = bytenum
  /\ UNCHANGED << bytenum, address, data, last_fat_lookup, written, card >>

\* The end of a file, or nothing to read: fl_fread returns without a step.

\* A buffered sector is not read again.
Buffered == address = sector

ChunkSize ==
  LET rest == BytesPerSector - offset
      left == want - Len(buffer)
  IN IF rest > left THEN left ELSE rest

Chunk(d) == [k \in 1 .. ChunkSize |-> d[offset + k - 1]]

FreadSector ==
  /\ handle = "read" /\ Len(buffer) < want
  /\ Buffered \/ ClusterOf(ClusterIdx) # LAST
  /\ IF Buffered
     THEN UNCHANGED << data, address, last_fat_lookup >>
     ELSE /\ data' = card[Lba(ClusterOf(ClusterIdx), sector % SectorsPerCluster)]
          /\ address' = sector
          /\ last_fat_lookup' = [ClusterIdx |-> ClusterIdx,
                                 CurrentCluster |-> ClusterOf(ClusterIdx)]
  /\ buffer' = buffer \o Chunk(data')
  /\ bytenum' = bytenum + ChunkSize
  /\ sector' = sector + 1
  /\ offset' = 0
  /\ UNCHANGED << handle, want, written, card, from >>

\* All is read, or the chain has ended.
FreadReturns ==
  /\ handle = "read"
  /\ \/ Len(buffer) >= want
     \/ ~ Buffered /\ ClusterOf(ClusterIdx) = LAST
  /\ handle' = "open"
  /\ UNCHANGED << bytenum, address, data, last_fat_lookup, readVars, written, card >>

-----------------------------------------------------------------------------
(* fl_fseek and fl_fswrite.                                                *)

Clamp(n) == IF n > FileLength THEN FileLength ELSE IF n < 0 THEN 0 ELSE n

\* SEEK_SET, SEEK_CUR and SEEK_END; the buffer is given up.
Fseek ==
  /\ handle = "open"
  /\ \/ \E o \in Offsets \cap Nat : bytenum' = Clamp(o)
     \/ \E o \in Offsets : bytenum' = Clamp(bytenum + o)
     \/ bytenum' = FileLength
  /\ address' = NotUsed
  /\ written' = FALSE
  /\ UNCHANGED << handle, data, last_fat_lookup, readVars, card >>

\* The sectors are counted from the file's first cluster, whatever its chain
\* and its length are.
OneBehind(n) == Lba(Start, n) + 1
WriteLba(n) == Lba(Start, n)

FswriteSector(n, d) ==
  /\ handle = "open"
  /\ bytenum < FileLength
  /\ WriteLba(n) \in Lbas
  /\ card' = [card EXCEPT ![WriteLba(n)] = d]
  /\ written' = TRUE
  /\ UNCHANGED << handle, bytenum, address, data, last_fat_lookup, readVars >>

Fswrite == \E n \in WriteSectors, d \in SectorData : FswriteSector(n, d)

-----------------------------------------------------------------------------

FileInit ==
  /\ handle = "closed"
  /\ bytenum = 0
  /\ address = NotUsed
  /\ data = InitCard[Lba(Start, 0)]
  /\ last_fat_lookup = [ClusterIdx |-> NotUsed, CurrentCluster |-> NotUsed]
  /\ want = 0 /\ buffer = << >> /\ offset = 0 /\ sector = 0 /\ from = 0
  /\ written = FALSE
  /\ card = InitCard

FileNext ==
  \/ Fopen \/ Fclose
  \/ FreadBegin \/ FreadSector \/ FreadReturns
  \/ Fseek \/ Fswrite

FileSpec == FileInit /\ [][FileNext]_fileVars

-----------------------------------------------------------------------------
(* Properties.                                                             *)

FileTypeOK ==
  /\ handle \in {"closed", "open", "read"}
  /\ bytenum \in 0 .. FileLength
  /\ address \in Nat
  /\ data \in SectorData
  /\ last_fat_lookup \in [ClusterIdx : Nat, CurrentCluster : Clusters \cup {NotUsed}]
  /\ want \in Nat /\ sector \in Nat /\ from \in 0 .. FileLength
  /\ offset \in 0 .. BytesPerSector - 1
  /\ buffer \in Seq(Bytes) /\ Len(buffer) <= want
  /\ written \in BOOLEAN
  /\ card \in [Lbas -> SectorData]

\* Where the n-th sector of the file is, along its chain.
FileLba(n) == Lba(Cluster[n \div SectorsPerCluster], n % SectorsPerCluster)

FileSectors == 0 .. (FileLength - 1) \div BytesPerSector

\* The k-th byte of the file.
FileByte(k) == card[FileLba(k \div BytesPerSector)][k % BytesPerSector]

\* What makes FreadDeliversFile inductive: the cluster last looked up is the
\* one of its index in this file's chain,
LastCluster == (FileLength - 1) \div (SectorsPerCluster * BytesPerSector)
LookupRight ==
  \/ last_fat_lookup = [ClusterIdx |-> NotUsed, CurrentCluster |-> NotUsed]
  \/ /\ last_fat_lookup.ClusterIdx \in 0 .. LastCluster
     /\ last_fat_lookup.CurrentCluster = Cluster[last_fat_lookup.ClusterIdx]

\* the buffer, unless it was given up or bypassed by a write, is the sector it
\* is said to be,
BufferRight ==
  address # NotUsed =>
    /\ address \in FileSectors
    /\ ~ written => data = card[FileLba(address)]

\* and a read in progress has copied what it should and is where it has to go
\* on.
ReadSoFar ==
  handle = "read" =>
    /\ ~ written
    /\ from + want <= FileLength
    /\ Len(buffer) <= want
    /\ bytenum = from + Len(buffer)
    /\ Len(buffer) < want => sector * BytesPerSector + offset = bytenum
    /\ \A k \in 1 .. Len(buffer) : buffer[k] = FileByte(from + k - 1)

FileIInv == FileTypeOK /\ LookupRight /\ BufferRight /\ ReadSoFar

\* fl_fread delivers the bytes of the file from the position it was called
\* at, as many as asked for or as there are, and moves the position behind
\* them: whatever was read, sought and written before, although it finds most
\* clusters from the last one it looked up.
FreadDeliversFile ==
  [][FreadReturns => /\ buffer = [k \in 1 .. want |-> FileByte(from + k - 1)]
                     /\ bytenum = from + want]_fileVars

\* fl_fswrite changes the sector of the file it is asked to change.
FswriteChangesSector ==
  [][\A n \in WriteSectors, d \in SectorData :
       FswriteSector(n, d) => card' = [card EXCEPT ![FileLba(n)] = d]]_fileVars

=============================================================================
