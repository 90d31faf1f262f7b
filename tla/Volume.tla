------------------------------- MODULE Volume -------------------------------
(***************************************************************************)
(* Mounting the card (fatfs_init): what the first sector of the card and   *)
(* the first sector of its first partition say about the FAT32 volume, and *)
(* where its clusters and its FAT then are on the card.                    *)
(*                                                                         *)
(* FatAccess and FileLib take a sector for a cluster and an index in it,   *)
(* and the FAT for something apart.  SectorsDiffer says that they may.     *)
(***************************************************************************)
EXTENDS Integers

CONSTANTS
  UINT32_MOD,       \* values of a UINT32, 2^32
  FAT_SECTOR_SIZE,  \* 512
  FatEntries        \* entries of the FAT in a sector, 128

ASSUME VolumeAssumption ==
  /\ UINT32_MOD \in Nat \ {0}
  /\ FAT_SECTOR_SIZE \in Nat \ {0}
  /\ FatEntries \in Nat \ {0}

UINT8 == 0 .. 255
UINT16 == 0 .. 65535
UINT32 == 0 .. UINT32_MOD - 1

\* What is read of the master boot record and of a volume's boot sector.
Mbr == [signed : BOOLEAN, type : UINT8, lba_begin : UINT32]
Boot == [signed : BOOLEAN, bytes_per_sector : UINT16,
         sectors_per_cluster : UINT8, reserved : UINT16, num_fats : UINT8,
         fat_sectors_16 : UINT16, fat_sectors_32 : UINT32,
         root_cluster : UINT32]

-----------------------------------------------------------------------------
(* fatfs_init.                                                             *)

\* The partition types it knows; 0 may be a card without partitions.
ValidPartition(type) == type \in (1 .. 6) \cup {11, 12, 14, 15}

LbaBegin(mbr) == IF ValidPartition(mbr.type) THEN mbr.lba_begin ELSE 0

\* The error it returns, in the order of its checks.  The kind of the file
\* system is not among them: a volume with FAT16 is mounted as well.
InitError(mbr, boot) ==
  IF ~ mbr.signed THEN "signature"
  ELSE IF boot.bytes_per_sector # FAT_SECTOR_SIZE THEN "sector size"
  ELSE IF ~ boot.signed THEN "signature"
  ELSE IF boot.sectors_per_cluster = 0 THEN "file system"
  ELSE "ok"

\* The parameters it leaves in the structure of the file system.
Mounted(mbr, boot) ==
  LET fat_sectors == IF boot.fat_sectors_16 # 0 THEN boot.fat_sectors_16
                     ELSE boot.fat_sectors_32
      fat_begin_lba == (LbaBegin(mbr) + boot.reserved) % UINT32_MOD
  IN [sectors_per_cluster   |-> boot.sectors_per_cluster,
      fat_sectors           |-> fat_sectors,
      fat_begin_lba         |-> fat_begin_lba,
      cluster_begin_lba     |-> (fat_begin_lba + boot.num_fats * fat_sectors) % UINT32_MOD,
      rootdir_first_cluster |-> boot.root_cluster]

-----------------------------------------------------------------------------
(* Where things are.                                                       *)

\* fatfs_lba_of_cluster, and the sector's index added to it.
LbaOf(fs, cluster, sector) ==
  (fs.cluster_begin_lba + (cluster - 2) * fs.sectors_per_cluster + sector) % UINT32_MOD

\* The sector of the FAT that fatfs_find_next_cluster reads for a cluster.
FatLbaOf(fs, cluster) ==
  (fs.fat_begin_lba + (IF cluster = 0 THEN 2 ELSE cluster) \div FatEntries) % UINT32_MOD

-----------------------------------------------------------------------------

\* The volume ends below UINT32_MOD: nothing of it wraps around.
Fits(mbr, boot, clusters) ==
  LET fat_sectors == Mounted(mbr, boot).fat_sectors
  IN LbaBegin(mbr) + boot.reserved + boot.num_fats * fat_sectors
       + clusters * boot.sectors_per_cluster <= UINT32_MOD

\* The file system has no sectors the program could take for one another: two
\* clusters of a volume that fits share none, and none of them is one of the
\* first FAT's, which is all the program reads of the FATs.
SectorsDiffer(mbr, boot, clusters) ==
  LET fs == Mounted(mbr, boot)
      Here == 2 .. clusters + 1
      In == 0 .. fs.sectors_per_cluster - 1
  IN /\ \A c, d \in Here, s, t \in In :
          LbaOf(fs, c, s) = LbaOf(fs, d, t) => c = d /\ s = t
     /\ \A c, d \in Here, s \in In :
          boot.num_fats > 0 /\ c < FatEntries * fs.fat_sectors =>
            FatLbaOf(fs, c) < LbaOf(fs, d, s)

=============================================================================
