----------------------------- MODULE CardProofs -----------------------------
(***************************************************************************)
(* The card.  Media, for every size of it, of the window and of words: the *)
(* drive found is the emulator's, the window is where the program thinks   *)
(* it is, every access hits the sector asked for, and the detailed         *)
(* specification implements the block store.  The last three hold if no    *)
(* setlbabase is lost, the first and type correctness always.              *)
(* Volume, for every volume that fatfs_init accepts and that ends below    *)
(* the width of a sector number: its sectors differ.                       *)
(***************************************************************************)
EXTENDS Media, Volume, Numbers

\* A sector is never in the window that NO_LBABASE stands for, and a sector
\* in the window of another one lies at the difference of the two.
LEMMA DiffInWindow ==
  ASSUME TypeOK, NEW lba \in Lbas, Diff(lba) < WINDOW
  PROVE  last_setlbabase \in Lbas /\ last_setlbabase + Diff(lba) = lba
<1>1. last_setlbabase # NO_LBABASE
  BY MediaAssumption DEF TypeOK, Diff, Lbas
<1>2. lba >= last_setlbabase
  BY <1>1, MediaAssumption DEF TypeOK, Diff, Lbas
<1> QED
  BY <1>1, <1>2 DEF TypeOK, Diff, Lbas

\* The variables keep their types: last_setlbabase is a sector of the card or
\* what media_init set, and lba_base never leaves the card.
THEOREM TypeCorrect == Spec => []TypeOK
<1>1. Init => TypeOK
  BY DEF Init, TypeOK
<1>2. TypeOK /\ [Next]_vars => TypeOK'
  <2> SUFFICES ASSUME TypeOK, [Next]_vars PROVE TypeOK'
    OBVIOUS
  <2>0. call.lba \in Lbas /\ call.data \in Data
    BY DEF TypeOK, Calls
  <2>1. CASE Call
    BY <2>1 DEF TypeOK, Call
  <2>2. CASE Setlbabase
    BY <2>0, <2>2 DEF TypeOK, Setlbabase
  <2>3. CASE Access
    BY <2>0, <2>3 DEF TypeOK, Access, NextLbaBase
  <2>4. CASE AccessFails
    BY <2>0, <2>4 DEF TypeOK, AccessFails, NextLbaBase
  <2>5. CASE Restart
    BY <2>5 DEF TypeOK, Restart
  <2>6. CASE Mount
    BY <2>6 DEF TypeOK, Mount, EmulatorFound, TryOtherDrive, NoEmulator, Drives
  <2>7. CASE UNCHANGED vars
    BY <2>7 DEF TypeOK, vars
  <2> QED
    BY <2>1, <2>2, <2>3, <2>4, <2>5, <2>6, <2>7 DEF Next
<1> QED
  BY <1>1, <1>2, PTL DEF Spec

\* Whenever media_read and media_write run, the drive is the one with the
\* emulator's signature.
THEOREM EmulatorFoundFirst == Spec => []DriveKnown
<1>1. Init => DriveKnown
  BY DEF Init, DriveKnown
<1>2. DriveKnown /\ [Next]_vars => DriveKnown'
  BY DEF DriveKnown, Next, vars, Mount, EmulatorFound, Signature, TryOtherDrive,
     NoEmulator, Call, Setlbabase, Access, AccessFails, Restart
<1> QED
  BY <1>1, <1>2, PTL DEF Spec

LEMMA WindowInit == Init => WindowKnown
BY DEF Init, WindowKnown

\* Moving the window and accessing it keeps the program's idea of it right.
LEMMA WindowNext ==
  ASSUME ~ SetlbabaseMayFail, TypeOK, TypeOK', DriveKnown, WindowKnown, [Next]_vars
  PROVE  WindowKnown'
<1>0. call.lba \in Lbas
  BY DEF TypeOK, Calls
<1>1. CASE Call
  <2>1. call'.lba \in Lbas
    BY DEF TypeOK, Calls
  <2>2. CASE InWindow'
    <3>1. Diff(call'.lba) < WINDOW
      BY <1>1, <2>2 DEF InWindow, Diff, Call
    <3>2. last_setlbabase \in Lbas
      BY <2>1, <3>1, DiffInWindow
    <3>3. last_setlbabase # NO_LBABASE
      BY <3>2, MediaAssumption DEF Lbas
    <3> QED
      BY <1>1, <2>2, <3>1, <3>3 DEF Call, WindowKnown
  <2>3. CASE ~ InWindow'
    <3>1. ~ (Diff(call'.lba) < WINDOW)
      BY <1>1, <2>3 DEF InWindow, Diff, Call
    <3> QED
      BY <1>1, <2>3, <3>1 DEF Call, WindowKnown
  <2> QED
    BY <2>2, <2>3
<1>2. CASE Setlbabase
  BY <1>2 DEF Setlbabase, DriveKnown, WindowKnown, InWindow, Diff
<1>3. CASE Access
  BY <1>3 DEF Access, NextLbaBase, WindowKnown, InWindow, Diff
<1>4. CASE AccessFails
  BY <1>4 DEF AccessFails, NextLbaBase, WindowKnown, InWindow, Diff
<1>5. CASE Restart
  BY <1>5 DEF Restart, WindowKnown
<1>6. CASE Mount
  BY <1>6 DEF Mount, EmulatorFound, TryOtherDrive, NoEmulator, WindowKnown
<1>7. CASE UNCHANGED vars
  BY <1>7 DEF vars, WindowKnown, InWindow, Diff
<1> QED
  BY <1>1, <1>2, <1>3, <1>4, <1>5, <1>6, <1>7 DEF Next

\* Where the program puts an access is where the sector asked for is.
LEMMA PlaceIsSector ==
  ASSUME TypeOK, WindowKnown, pc = "access"
  PROVE  lba_base + Place = call.lba
<1>1. call.lba \in Lbas
  BY DEF TypeOK, Calls
<1>2. CASE InWindow
  BY <1>1, <1>2, DiffInWindow DEF WindowKnown, Place, InWindow
<1>3. CASE ~ InWindow
  BY <1>1, <1>3 DEF WindowKnown, Place, Lbas
<1> QED
  BY <1>2, <1>3

\* The program and the emulator agree on the window between any two steps.
THEOREM WindowStaysKnown == ~ SetlbabaseMayFail => (Spec => []WindowKnown)
<1> SUFFICES ASSUME ~ SetlbabaseMayFail PROVE Spec => []WindowKnown
  OBVIOUS
<1>1. TypeOK /\ TypeOK' /\ DriveKnown /\ WindowKnown /\ [Next]_vars => WindowKnown'
  BY WindowNext
<1> QED
  BY <1>1, WindowInit, TypeCorrect, EmulatorFoundFirst, PTL DEF Spec

\* Every access of track 255 is one of the emulator's, and of the sector asked
\* for.
THEOREM AccessesAsked == ~ SetlbabaseMayFail => (Spec => []AccessesSectorAsked)
<1> SUFFICES ASSUME ~ SetlbabaseMayFail PROVE Spec => []AccessesSectorAsked
  OBVIOUS
<1>1. TypeOK /\ DriveKnown /\ WindowKnown => AccessesSectorAsked
  BY PlaceIsSector DEF AccessesSectorAsked, DriveKnown
<1>2. Spec => []WindowKnown
  BY WindowStaysKnown
<1> QED
  BY <1>1, <1>2, TypeCorrect, EmulatorFoundFirst, PTL

-----------------------------------------------------------------------------
(* The block store.                                                        *)

Idle == [kind |-> "none"]

LEMMA CallIsNotIdle == TypeOK => call # Idle
<1> SUFFICES ASSUME TypeOK PROVE call # Idle
  OBVIOUS
<1>1. call.kind # "none"
  BY DEF TypeOK, Calls
<1>2. Idle.kind = "none"
  BY DEF Idle
<1> QED
  BY <1>1, <1>2

LEMMA StoreInit == Init => Store!Init
BY DEF Init, Store!Init

\* Every step is the block store's, or invisible: the call is asked, the
\* access answers it, a restart loses it, moving the window changes nothing.
LEMMA StoreNext ==
  ASSUME TypeOK, TypeOK', WindowKnown, [Next]_vars
  PROVE  [Store!Next]_(Store!vars)
<1> USE CallIsNotIdle DEF Idle
<1>0. call \in Calls /\ call' \in Calls /\ call.lba \in Lbas
  BY DEF TypeOK, Calls
<1>1. CASE Call
  <2>1. Store!Ask
    BY <1>0, <1>1 DEF Call, Store!Ask
  <2> QED
    BY <2>1 DEF Store!Next
<1>2. CASE Setlbabase
  BY <1>2 DEF Setlbabase, Store!vars
<1>3. CASE Access
  <2>1. lba_base + Place = call.lba
    BY <1>3, PlaceIsSector DEF Access
  <2>2. CASE call.kind = "read"
    <3>1. Store!Read
      BY <1>3, <2>1, <2>2 DEF Access, Store!Read
    <3> QED
      BY <3>1 DEF Store!Next
  <2>3. CASE call.kind = "write"
    <3>1. Store!Write
      BY <1>3, <2>1, <2>3 DEF Access, Store!Write
    <3> QED
      BY <3>1 DEF Store!Next
  <2> QED
    BY <1>0, <2>2, <2>3 DEF Calls
<1>4. CASE AccessFails
  BY <1>4 DEF AccessFails, Store!vars
<1>5. CASE Restart
  <2>1. Store!Lose
    BY <1>5 DEF Restart, Store!Lose
  <2> QED
    BY <2>1 DEF Store!Next
<1>6. CASE Mount
  BY <1>6 DEF Mount, EmulatorFound, TryOtherDrive, NoEmulator, Store!vars
<1>7. CASE UNCHANGED vars
  BY <1>7 DEF vars, Store!vars
<1> QED
  BY <1>1, <1>2, <1>3, <1>4, <1>5, <1>6, <1>7 DEF Next

\* media_read and media_write implement the block store the file library is
\* promised.
THEOREM MediaIsBlockStore == ~ SetlbabaseMayFail => (Spec => ImplementsBlockStore)
<1> SUFFICES ASSUME ~ SetlbabaseMayFail PROVE Spec => ImplementsBlockStore
  OBVIOUS
<1>1. TypeOK /\ TypeOK' /\ WindowKnown /\ [Next]_vars => [Store!Next]_(Store!vars)
  BY StoreNext
<1>2. Spec => []WindowKnown
  BY WindowStaysKnown
<1> QED
  BY <1>1, <1>2, StoreInit, TypeCorrect, PTL DEF Spec, ImplementsBlockStore, Store!Spec

-----------------------------------------------------------------------------
(* Where the sectors of a volume are.                                      *)

LEMMA WordsAreNumbers == UINT16 \subseteq Nat
BY DEF UINT16

\* The fields of the two sectors are numbers.
LEMMA FieldsAreNumbers ==
  ASSUME NEW mbr \in Mbr, NEW boot \in Boot
  PROVE  /\ mbr.lba_begin \in Nat /\ boot.reserved \in Nat
         /\ boot.num_fats \in Nat /\ boot.sectors_per_cluster \in Nat
         /\ boot.fat_sectors_16 \in Nat /\ boot.fat_sectors_32 \in Nat
<1>1. mbr.lba_begin \in Nat
  BY VolumeAssumption DEF Mbr, UINT32
<1>2. boot.reserved \in Nat
  <2>1. boot.reserved \in UINT16
    BY DEF Boot
  <2> QED BY <2>1, WordsAreNumbers
<1>3. boot.num_fats \in Nat
  <2>1. boot.num_fats \in UINT8
    BY DEF Boot
  <2> QED BY <2>1 DEF UINT8
<1>4. boot.sectors_per_cluster \in Nat
  <2>1. boot.sectors_per_cluster \in UINT8
    BY DEF Boot
  <2> QED BY <2>1 DEF UINT8
<1>5. boot.fat_sectors_16 \in Nat
  <2>1. boot.fat_sectors_16 \in UINT16
    BY DEF Boot
  <2> QED BY <2>1, WordsAreNumbers
<1>6. boot.fat_sectors_32 \in Nat
  <2>1. boot.fat_sectors_32 \in UINT32
    BY DEF Boot
  <2> QED BY <2>1, VolumeAssumption DEF UINT32
<1> QED BY <1>1, <1>2, <1>3, <1>4, <1>5, <1>6

\* What fatfs_init makes of a volume, and that nothing of it wraps around.
LEMMA MountedVolume ==
  ASSUME NEW mbr \in Mbr, NEW boot \in Boot, NEW clusters \in Nat,
         Fits(mbr, boot, clusters)
  PROVE  LET fs == Mounted(mbr, boot)
             data == fs.fat_begin_lba + boot.num_fats * fs.fat_sectors
         IN /\ fs.sectors_per_cluster \in Nat /\ fs.fat_sectors \in Nat
            /\ fs.fat_begin_lba \in Nat /\ boot.num_fats \in Nat
            /\ data \in Nat
            /\ data + clusters * fs.sectors_per_cluster <= UINT32_MOD
            /\ clusters * fs.sectors_per_cluster > 0 => fs.cluster_begin_lba = data
<1> DEFINE fs == Mounted(mbr, boot)
           begin == LbaBegin(mbr) + boot.reserved
           fats == boot.num_fats * fs.fat_sectors
           size == clusters * boot.sectors_per_cluster
<1>0. /\ mbr.lba_begin \in Nat /\ boot.reserved \in Nat
      /\ boot.num_fats \in Nat /\ boot.sectors_per_cluster \in Nat
      /\ boot.fat_sectors_16 \in Nat /\ boot.fat_sectors_32 \in Nat
  BY FieldsAreNumbers
<1>1. /\ LbaBegin(mbr) \in Nat /\ boot.reserved \in Nat /\ boot.num_fats \in Nat
      /\ boot.sectors_per_cluster \in Nat /\ UINT32_MOD \in Nat \ {0}
  BY <1>0, VolumeAssumption DEF LbaBegin
<1>2. fs.fat_sectors \in Nat /\ fs.sectors_per_cluster = boot.sectors_per_cluster
  BY <1>0 DEF Mounted
<1>3. begin \in Nat /\ fats \in Nat /\ size \in Nat
  BY <1>1, <1>2
<1>4. begin + fats + size <= UINT32_MOD
  BY DEF Fits
<1>5. fs.fat_begin_lba = begin % UINT32_MOD
  BY DEF Mounted
<1>6. fs.cluster_begin_lba = (fs.fat_begin_lba + fats) % UINT32_MOD
  BY DEF Mounted
<1> HIDE DEF fs, fats, size, begin
<1>7. fs.fat_begin_lba \in Nat /\ fs.fat_begin_lba <= begin
  BY <1>1, <1>3, <1>4, <1>5
<1>8. ASSUME size > 0 PROVE fs.cluster_begin_lba = fs.fat_begin_lba + fats
  BY <1>1, <1>3, <1>4, <1>6, <1>7, <1>8
<1> QED BY <1>1, <1>2, <1>3, <1>4, <1>7, <1>8 DEF fs, fats, size

\* A sector of a cluster is where the layout without the wrap-around has it.
LEMMA LbaUnwrapped ==
  ASSUME NEW n \in Nat, NEW data \in Nat, NEW clusters \in Nat,
         data + clusters * n <= UINT32_MOD,
         NEW c \in 2 .. clusters + 1, NEW s \in 0 .. n - 1
  PROVE  /\ data + (c - 2) * n + s \in Nat
         /\ data + (c - 2) * n + s >= data
         /\ (data + (c - 2) * n + s) % UINT32_MOD = data + (c - 2) * n + s
         /\ clusters * n > 0
<1> DEFINE k == c - 2
<1>1. k \in Nat /\ clusters - k \in Nat /\ clusters - k > 0 /\ n > 0
  OBVIOUS
<1> HIDE DEF k
<1>2. k * n \in Nat /\ clusters * n = k * n + (clusters - k) * n
  BY <1>1
<1>3. (clusters - k) * n >= n
  BY <1>1, ProductGrows
<1>4. data + k * n + s < UINT32_MOD
  <2> DEFINE all == clusters * n
             before == k * n
             rest == (clusters - k) * n
  <2>1. /\ before \in Nat /\ rest \in Int /\ all = before + rest /\ rest >= n
        /\ data + all <= UINT32_MOD
    BY <1>1, <1>2, <1>3
  <2> HIDE DEF all, before, rest
  <2>2. data + before + s < UINT32_MOD
    BY <2>1, VolumeAssumption
  <2> QED BY <2>2 DEF before
<1>5. clusters * n > 0
  BY <1>1, <1>2, <1>3
<1>6. (data + k * n + s) % UINT32_MOD = data + k * n + s
  <2> DEFINE here == data + k * n + s
  <2>1. here \in Nat /\ here < UINT32_MOD
    BY <1>2, <1>4
  <2> HIDE DEF here
  <2>2. here % UINT32_MOD = here
    BY <2>1, VolumeAssumption
  <2> QED BY <2>2 DEF here
<1> QED BY <1>2, <1>5, <1>6 DEF k

\* On a mounted volume the program never takes one sector for another, nor a
\* sector of a cluster for one of the FAT: a (cluster, index) pair, which is
\* what FatAccess and FileLib work with, stands for exactly one sector.
THEOREM SectorsOfVolumeDiffer ==
  ASSUME NEW mbr \in Mbr, NEW boot \in Boot, NEW clusters \in Nat,
         Fits(mbr, boot, clusters)
  PROVE  SectorsDiffer(mbr, boot, clusters)
<1> DEFINE fs == Mounted(mbr, boot)
           n == fs.sectors_per_cluster
           data == fs.fat_begin_lba + boot.num_fats * fs.fat_sectors
           place(c, s) == data + (c - 2) * n + s
<1>1. /\ n \in Nat /\ fs.fat_sectors \in Nat /\ fs.fat_begin_lba \in Nat
      /\ boot.num_fats \in Nat /\ data \in Nat
      /\ data + clusters * n <= UINT32_MOD
      /\ clusters * n > 0 => fs.cluster_begin_lba = data
  BY MountedVolume
<1>2. ASSUME NEW c \in 2 .. clusters + 1, NEW s \in 0 .. n - 1
      PROVE  LbaOf(fs, c, s) = place(c, s) /\ place(c, s) >= data
  <2> HIDE DEF fs, n, data
  <2>1. /\ data + (c - 2) * n + s >= data
        /\ (data + (c - 2) * n + s) % UINT32_MOD = data + (c - 2) * n + s
        /\ clusters * n > 0
    <3>1. n \in Nat /\ data \in Nat
      BY <1>1
    <3>2. data + clusters * n <= UINT32_MOD
      BY <1>1
    <3> QED BY <3>1, <3>2, LbaUnwrapped
  <2>2. LbaOf(fs, c, s) = (fs.cluster_begin_lba + (c - 2) * n + s) % UINT32_MOD
    BY DEF LbaOf, n
  <2> QED BY <1>1, <2>1, <2>2
<1>3. ASSUME NEW c \in 2 .. clusters + 1, NEW d \in 2 .. clusters + 1,
             NEW s \in 0 .. n - 1, NEW t \in 0 .. n - 1,
             LbaOf(fs, c, s) = LbaOf(fs, d, t)
      PROVE  c = d /\ s = t
  <2>1. place(c, s) = place(d, t)
    BY <1>2, <1>3
  <2> HIDE DEF fs, n, data
  <2>2. (c - 2) * n + s = (d - 2) * n + t
    <3>1. (c - 2) * n \in Int /\ (d - 2) * n \in Int
      BY <1>1
    <3> QED BY <1>1, <2>1, <3>1
  <2>3. c - 2 = d - 2 /\ s = t
    BY <1>1, <2>2, PlacesApart
  <2> QED BY <2>3
<1>4. ASSUME NEW c \in 2 .. clusters + 1, NEW d \in 2 .. clusters + 1,
             NEW s \in 0 .. n - 1,
             boot.num_fats > 0, c < FatEntries * fs.fat_sectors
      PROVE  FatLbaOf(fs, c) < LbaOf(fs, d, s)
  <2> HIDE DEF fs, n, data
  <2>1. c \div FatEntries < fs.fat_sectors /\ c \div FatEntries \in Nat
    BY <1>1, <1>4, VolumeAssumption
  <2>2. boot.num_fats * fs.fat_sectors >= fs.fat_sectors
    BY <1>1, <1>4, ProductGrows
  <2>3. fs.fat_begin_lba + c \div FatEntries < data
    BY <1>1, <2>1, <2>2 DEF data
  <2>4. data < UINT32_MOD
    <3>1. n \in Nat /\ data \in Nat
      BY <1>1
    <3>2. data + clusters * n <= UINT32_MOD
      BY <1>1
    <3>3. clusters * n > 0
      BY <3>1, <3>2, LbaUnwrapped
    <3>4. clusters * n \in Nat
      BY <3>1
    <3> QED BY <3>1, <3>2, <3>3, <3>4, VolumeAssumption
  <2>5. FatLbaOf(fs, c) = fs.fat_begin_lba + c \div FatEntries
    <3>1. FatLbaOf(fs, c) = (fs.fat_begin_lba + c \div FatEntries) % UINT32_MOD
      BY DEF FatLbaOf
    <3> QED BY <1>1, <2>1, <2>3, <2>4, <3>1, VolumeAssumption
  <2> QED BY <1>2, <2>3, <2>5, <1>1, VolumeAssumption
<1> QED BY <1>3, <1>4 DEF SectorsDiffer

=============================================================================
