--------------------------- MODULE FatAccessProofs ---------------------------
(***************************************************************************)
(* The listing of a directory, for every card whose chains end, every size *)
(* of clusters, sectors and of the browse cache, and any sequence of       *)
(* calls: it looks through the sectors of its own directory only, never    *)
(* follows a chain beyond its end, and leaves out nothing.                 *)
(*                                                                         *)
(* And for every such card that is a tree (TreeOnCard): what the browser   *)
(* sees of the calls is the listing of that tree, DirList.                 *)
(***************************************************************************)
EXTENDS FatTree, FiniteSetTheorems, Numbers

Heads == Clusters \cup {LAST}

-----------------------------------------------------------------------------
(* The card.                                                               *)

LEMMA Sizes ==
  /\ SectorsPerCluster \in Nat \ {0} /\ EntriesPerSector \in Nat \ {0}
  /\ CacheEntries \in Nat \ {0} /\ MaxChain \in Nat \ {0}
  /\ 0 \notin Clusters /\ LAST \notin Clusters /\ LAST # 0
BY FatAssumption, ChainAssumption

LEMMA Chains ==
  ASSUME NEW c \in Heads
  PROVE  /\ \A k \in 0 .. MaxChain : Chain[c][k] \in Heads
         /\ Chain[c][0] = c /\ Chain[c][MaxChain] = LAST
         /\ \A k \in 0 .. MaxChain - 1 :
              Chain[c][k + 1] = IF Chain[c][k] = LAST THEN LAST ELSE Fat[Chain[c][k]]
BY ChainAssumption DEF Heads

\* Behind its end a chain stays at the end.
LEMMA ChainsEnd ==
  ASSUME NEW c \in Heads, NEW k \in 0 .. MaxChain, Chain[c][k] = LAST,
         NEW n \in 0 .. MaxChain, k <= n
  PROVE  Chain[c][n] = LAST
<1> DEFINE T == {m \in k .. n : Chain[c][m] # LAST}
<1>1. SUFFICES ASSUME T # {} PROVE FALSE
  BY Sizes
<1>2. T \in SUBSET Nat
  BY Sizes
<1>3. PICK m \in T : \A j \in T : m <= j
  <2> HIDE DEF T
  <2> QED BY <1>1, <1>2, LeastNumber
<1>4. m \in k .. n /\ m # k /\ m - 1 \in k .. n /\ m - 1 \in 0 .. MaxChain - 1
  BY <1>3, Sizes
<1>5. Chain[c][m - 1] = LAST
  BY <1>3, <1>4
<1>6. Chain[c][(m - 1) + 1] = LAST
  BY <1>4, <1>5, Chains
<1> QED BY <1>3, <1>4, <1>6

\* A sector that a listing is in, and the cluster it asks for, are at most the
\* first behind the chain.
LEMMA ReachedInChain ==
  ASSUME NEW c \in Heads, NEW n \in Nat, Reached(c, n)
  PROVE  n \div SectorsPerCluster \in 0 .. MaxChain
<1> DEFINE q == n \div SectorsPerCluster
<1>1. q \in Nat
  BY Sizes, Divides
<1>2. \A k \in 0 .. q - 1 : Chain[c][k] # LAST
  BY DEF Reached
<1>3. Chain[c][MaxChain] = LAST /\ MaxChain \in Nat
  BY Chains, Sizes
<1> HIDE DEF q
<1>4. q <= MaxChain
  BY <1>1, <1>2, <1>3
<1>5. q \in 0 .. MaxChain
  BY <1>1, <1>3, <1>4
<1> QED BY <1>5 DEF q

LEMMA NextReached ==
  ASSUME NEW c \in Heads, NEW n \in Nat, Reached(c, n),
         Chain[c][n \div SectorsPerCluster] # LAST
  PROVE  Reached(c, n + 1)
<1> DEFINE q == n \div SectorsPerCluster
           p == (n + 1) \div SectorsPerCluster
<1>1. q \in Nat /\ p <= q + 1 /\ p \in Int
  <2>1. q \in Nat
    BY Sizes, Divides
  <2>2. p <= q + 1
    BY Sizes, QuotientOfNext
  <2>3. p \in Int
    <3> DEFINE a == n + 1
    <3>1. a \in Nat
      OBVIOUS
    <3> HIDE DEF a
    <3>2. a \div SectorsPerCluster \in Nat
      BY <3>1, Sizes, Divides
    <3> QED BY <3>2 DEF a
  <2> QED BY <2>1, <2>2, <2>3
<1>2. \A k \in 0 .. q - 1 : Chain[c][k] # LAST
  BY DEF Reached
<1>3. Chain[c][q] # LAST
  OBVIOUS
<1> HIDE DEF q, p
<1>4. \A k \in 0 .. p - 1 : Chain[c][k] # LAST
  BY <1>1, <1>2, <1>3
<1> QED BY <1>4 DEF Reached, p

LEMMA FirstReached == ASSUME NEW c PROVE Reached(c, 0)
<1>1. 0 \div SectorsPerCluster = 0
  <2>1. 0 = 0 * SectorsPerCluster + 0 /\ 0 \in 0 .. SectorsPerCluster - 1
    BY Sizes
  <2> QED BY <2>1, Sizes, DividedIs
<1>2. 0 .. (0 \div SectorsPerCluster) - 1 = {}
  BY <1>1
<1> QED BY <1>2 DEF Reached

\* A position of a directory: its sector and its place there.
LEMMA PlaceOfPosition ==
  ASSUME NEW n \in Nat, NEW j \in 0 .. EntriesPerSector - 1
  PROVE  /\ n * EntriesPerSector + j \in Nat
         /\ (n * EntriesPerSector + j) \div EntriesPerSector = n
         /\ (n * EntriesPerSector + j) % EntriesPerSector = j
<1> DEFINE a == n * EntriesPerSector + j
<1>1. a \in Nat
  BY Sizes
<1>2. a = n * EntriesPerSector + j
  OBVIOUS
<1> HIDE DEF a
<1>3. a \div EntriesPerSector = n /\ a % EntriesPerSector = j
  BY <1>1, <1>2, Sizes, DividedIs
<1> QED BY <1>1, <1>3 DEF a

\* The records of a sector of the chain are at positions of the directory.
LEMMA PositionsOfSector ==
  ASSUME NEW c \in Heads, NEW n \in Nat, NEW j \in 0 .. EntriesPerSector - 1,
         n \div SectorsPerCluster \in 0 .. MaxChain,
         Chain[c][n \div SectorsPerCluster] # LAST
  PROVE  /\ n * EntriesPerSector + j \in Positions(c)
         /\ RecordAt(c, n * EntriesPerSector + j) =
              Card[Chain[c][n \div SectorsPerCluster]][n % SectorsPerCluster][j]
<1> DEFINE p == n * EntriesPerSector + j
           q == n \div SectorsPerCluster
           r == n % SectorsPerCluster
<1>1. p \in Nat /\ p \div EntriesPerSector = n /\ p % EntriesPerSector = j
  BY PlaceOfPosition
<1>2. q \in Nat /\ q <= MaxChain - 1 /\ r \in 0 .. SectorsPerCluster - 1
      /\ n = q * SectorsPerCluster + r
  <2>1. q \in 0 .. MaxChain /\ Chain[c][MaxChain] = LAST /\ Chain[c][q] # LAST
    BY Chains
  <2>2. q <= MaxChain - 1
    BY <2>1, Sizes
  <2>3. q \in Nat /\ r \in 0 .. SectorsPerCluster - 1 /\ n = q * SectorsPerCluster + r
    BY Sizes, Divides
  <2> QED BY <2>2, <2>3
<1>3. p <= MaxChain * SectorsPerCluster * EntriesPerSector - 1
  <2> DEFINE M == MaxChain * SectorsPerCluster
  <2>1. M \in Nat /\ n <= M - 1
    <3> HIDE DEF q, r
    <3>1. (MaxChain - 1 - q) * SectorsPerCluster >= 0
      <4>1. MaxChain - 1 - q \in Nat
        BY <1>2, Sizes
      <4> QED BY <4>1, Sizes
    <3>2. (MaxChain - 1 - q) * SectorsPerCluster
            = MaxChain * SectorsPerCluster - SectorsPerCluster - q * SectorsPerCluster
      BY <1>2, Sizes
    <3>3. q * SectorsPerCluster \in Nat /\ M \in Nat
      BY <1>2, Sizes
    <3> QED BY <1>2, <3>1, <3>2, <3>3, Sizes
  <2> HIDE DEF M, q, r
  <2>2. (M - 1 - n) * EntriesPerSector >= 0
    <3>1. M - 1 - n \in Nat
      BY <2>1
    <3> QED BY <3>1, Sizes
  <2>3. (M - 1 - n) * EntriesPerSector
          = M * EntriesPerSector - EntriesPerSector - n * EntriesPerSector
    BY <2>1, Sizes
  <2>4. n * EntriesPerSector \in Nat /\ M * EntriesPerSector \in Nat
    BY <2>1, Sizes
  <2>5. p <= M * EntriesPerSector - 1
    BY <2>2, <2>3, <2>4, Sizes
  <2> QED BY <2>5 DEF M
<1>4. p \in 0 .. MaxChain * SectorsPerCluster * EntriesPerSector - 1
  <2>1. MaxChain * SectorsPerCluster * EntriesPerSector \in Int
    BY Sizes
  <2> QED BY <1>1, <1>3, <2>1
<1> QED BY <1>1, <1>4 DEF Positions, RecordAt

-----------------------------------------------------------------------------
(* Steps that do not list.                                                 *)

\* The parts of IInv that speak of a listing in progress.
Listing == ReaderOfListing /\ NothingLeftOut /\ ReaddirReturnsNext

LEMMA NotListing == ASSUME call # "list" PROVE Listing
BY DEF Listing, ReaderOfListing, NothingLeftOut, ReaddirReturnsNext

\* The variables of the reader.
ReaderTyped ==
  /\ dir \in Heads /\ x \in Nat /\ chain \in Clusters \cup {0, LAST} /\ i \in Nat

LEMMA InitInvariant == Init => IInv
<1> SUFFICES ASSUME Init PROVE IInv
  OBVIOUS
<1>1. TypeOK
  <2>1. browse_cluster_cache \in
          [0 .. CacheEntries - 1 -> [idx : Int, data : Clusters \cup {0, LAST}]]
    BY DEF Init
  <2>2. 0 \in 0 .. SectorsPerCluster - 1 /\ 0 \in 0 .. EntriesPerSector
    BY Sizes
  <2>3. dirls \in Status /\ from \in Status /\ saved \subseteq Status
    BY <2>2 DEF Init, Status
  <2>4. currentsector \in (Clusters \cup {0, LAST}) \X (0 .. SectorsPerCluster - 1)
    BY <2>2 DEF Init
  <2> QED BY <2>1, <2>3, <2>4, FatAssumption DEF Init, TypeOK
<1>2. StatusesReached
  BY FirstReached DEF Init, StatusesReached
<1>3. FilesOutside /\ CacheOfListing /\ Listing
  BY NotListing DEF Init, FilesOutside, CacheOfListing
<1> QED BY <1>1, <1>2, <1>3 DEF IInv, Listing

\* A directory is opened.
LEMMA StartListingKeeps ==
  ASSUME IInv, NEW c \in Heads, StartListing(c), call' = "browse",
         phase' \in {"start", "browse", "save"}, ReaderTyped', from' \in Status,
         currentsector' = currentsector
  PROVE  IInv'
<1>1. /\ pc' = "idle" /\ browse_cluster_cache' = ClearedCache
      /\ dirls' = [cluster |-> c, sector |-> 0, offset |-> 0] /\ saved' = {dirls'}
  BY DEF StartListing
<1>2. /\ dirls' \in Status /\ dirls'.cluster = c /\ dirls'.sector = 0
  <2>1. 0 \in 0 .. EntriesPerSector
    BY Sizes
  <2> QED BY <1>1, <2>1 DEF Status, Heads
<1>3. TypeOK'
  <2>1. browse_cluster_cache' \in
          [0 .. CacheEntries - 1 -> [idx : Int, data : Clusters \cup {0, LAST}]]
    BY <1>1 DEF ClearedCache, NONE
  <2> QED BY <1>1, <1>2, <2>1 DEF IInv, TypeOK, ReaderTyped, Heads
<1>4. StatusesReached'
  <2>1. Reached(dirls'.cluster, dirls'.sector)
    BY <1>2, FirstReached
  <2> QED BY <1>1, <2>1 DEF StatusesReached, Reached
<1>5. CacheOfListing'
  BY <1>1 DEF CacheOfListing, ClearedCache
<1>6. Listing'
  <2>1. call' # "list"
    OBVIOUS
  <2> QED BY <2>1 DEF Listing, ReaderOfListing, NothingLeftOut, ReaddirReturnsNext
<1> QED BY <1>3, <1>4, <1>5, <1>6 DEF IInv, Listing, FilesOutside

\* A search begins or goes on, and leaves the listing alone.
LEMMA SearchKeeps ==
  ASSUME IInv, call' \in {"browse", "file"}, call' = "file" => phase' # "browse",
         phase' \in {"start", "browse", "save"}, pc' \in {"idle", "follow", "scan"},
         pc' = "idle" => phase' # "browse",
         ReaderTyped', from' \in Status,
         browse_cluster_cache' \in
           [0 .. CacheEntries - 1 -> [idx : Int, data : Clusters \cup {0, LAST}]],
         currentsector' \in (Clusters \cup {0, LAST}) \X (0 .. SectorsPerCluster - 1),
         UNCHANGED << dirls, saved >>
  PROVE  IInv'
<1>1. TypeOK'
  BY DEF IInv, TypeOK, ReaderTyped, Heads
<1>2. StatusesReached'
  BY DEF IInv, StatusesReached, Reached
<1>3. FilesOutside' /\ CacheOfListing'
  BY DEF FilesOutside, CacheOfListing
<1>4. Listing'
  <2>1. call' # "list"
    OBVIOUS
  <2> QED BY <2>1 DEF Listing, ReaderOfListing, NothingLeftOut, ReaddirReturnsNext
<1> QED BY <1>1, <1>2, <1>3, <1>4 DEF IInv, Listing

LEMMA ReadSectorTyped ==
  ASSUME NEW c \in Heads, NEW n \in Nat, ReadSectorOf(c, n)
  PROVE  ReaderTyped' /\ pc' = "follow"
BY DEF ReadSectorOf, ReaderTyped, Heads

LEMMA OpendirKeeps == ASSUME IInv, Opendir PROVE IInv'
<1>1. /\ phase' = "browse" /\ call' = "browse" /\ from' = dirls /\ from' \in Status
      /\ currentsector' = currentsector
  BY DEF Opendir, IInv, TypeOK
<1>2. Root \in Heads /\ 0 \in Nat
  BY FatAssumption DEF Heads
<1>3. CASE path' = << >>
  <2>1. StartListing(Root) /\ UNCHANGED readerVars
    BY <1>3 DEF Opendir
  <2>2. ReaderTyped'
    BY <2>1 DEF readerVars, IInv, TypeOK, ReaderTyped, Heads
  <2> QED BY <1>1, <1>2, <2>1, <2>2, StartListingKeeps
<1>4. CASE path' # << >>
  <2>1. ReadSectorOf(Root, 0) /\ UNCHANGED << browse_cluster_cache, dirls, saved >>
    BY <1>4 DEF Opendir, cacheVars
  <2>2. ReaderTyped' /\ pc' = "follow"
    BY <1>2, <2>1, ReadSectorTyped
  <2>3. /\ browse_cluster_cache \in
             [0 .. CacheEntries - 1 -> [idx : Int, data : Clusters \cup {0, LAST}]]
        /\ currentsector \in (Clusters \cup {0, LAST}) \X (0 .. SectorsPerCluster - 1)
    BY DEF IInv, TypeOK
  <2> QED BY <1>1, <2>1, <2>2, <2>3, SearchKeeps
<1> QED BY <1>3, <1>4

LEMMA FopenKeeps == ASSUME IInv, Fopen PROVE IInv'
<1>1. /\ phase' \in {"start", "save"} /\ call' = "file" /\ ReadSectorOf(Root, 0)
      /\ UNCHANGED << from, currentsector, browse_cluster_cache, dirls, saved >>
  BY DEF Fopen, cacheVars
<1>2. ReaderTyped' /\ pc' = "follow"
  <2>1. Root \in Heads /\ 0 \in Nat
    BY FatAssumption DEF Heads
  <2> QED BY <1>1, <2>1, ReadSectorTyped
<1>3. /\ browse_cluster_cache \in
           [0 .. CacheEntries - 1 -> [idx : Int, data : Clusters \cup {0, LAST}]]
      /\ currentsector \in (Clusters \cup {0, LAST}) \X (0 .. SectorsPerCluster - 1)
      /\ from \in Status
  BY DEF IInv, TypeOK
<1> QED BY <1>1, <1>2, <1>3, SearchKeeps

\* What is found is a record of the card.
LEMMA RecordTyped ==
  ASSUME TypeOK, NEW j \in Items, Records[j].kind # "skip"
  PROVE  /\ currentsector[1] \in Clusters /\ Records = Card[currentsector[1]][currentsector[2]]
         /\ Records[j] \in Record
<1>1. /\ currentsector[1] \in Clusters \cup {0, LAST}
      /\ currentsector[2] \in 0 .. SectorsPerCluster - 1
  BY DEF TypeOK
<1>2. currentsector[1] \in Clusters
  <2>1. ASSUME currentsector[1] \notin Clusters PROVE Records[j].kind = "skip"
    BY <2>1 DEF Records
  <2> QED BY <2>1
<1>3. Records = Card[currentsector[1]][currentsector[2]]
  BY <1>2 DEF Records
<1>4. Card[currentsector[1]][currentsector[2]] \in [Items -> Record]
  BY <1>1, <1>2, FatAssumption
<1> QED BY <1>2, <1>3, <1>4

\* The record that a search finds.
LEMMA HitTyped == ASSUME TypeOK, Hits # {} PROVE Hit \in Record
<1>1. Hits \in SUBSET Nat
  BY Sizes DEF Hits, Items
<1>2. \E m \in Hits : \A k \in Hits : m <= k
  <2> DEFINE T == Hits
  <2>1. T \in SUBSET Nat /\ T # {}
    BY <1>1
  <2> HIDE DEF T
  <2>2. \E m \in T : \A k \in T : m <= k
    BY <2>1, LeastNumber
  <2> QED BY <2>2 DEF T
<1>3. PICK m \in Hits : Hit = Records[m]
  BY <1>2 DEF Hit
<1>4. m \in Items /\ Records[m].kind # "skip"
  BY <1>3 DEF Hits
<1> QED BY <1>3, <1>4, RecordTyped

LEMMA FindNextSectorKeeps == ASSUME IInv, FindNextSector PROVE IInv'
<1>1. /\ call \in {"browse", "file"} /\ call' = call /\ phase' = phase
      /\ ReadSectorOf(dir, x + 1)
      /\ UNCHANGED << from, currentsector, browse_cluster_cache, dirls, saved >>
  BY DEF FindNextSector, cacheVars, IInv, TypeOK
<1>2. ReaderTyped' /\ pc' = "follow"
  <2>1. dir \in Heads /\ x + 1 \in Nat
    BY DEF IInv, TypeOK, Heads
  <2> QED BY <1>1, <2>1, ReadSectorTyped
<1>3. /\ browse_cluster_cache \in
           [0 .. CacheEntries - 1 -> [idx : Int, data : Clusters \cup {0, LAST}]]
      /\ currentsector \in (Clusters \cup {0, LAST}) \X (0 .. SectorsPerCluster - 1)
      /\ from \in Status /\ phase \in {"start", "browse", "save"}
      /\ call = "file" => phase # "browse"
  BY DEF IInv, TypeOK, FilesOutside
<1> QED BY <1>1, <1>2, <1>3, SearchKeeps

LEMMA FindDirKeeps == ASSUME IInv, FindDir PROVE IInv'
<1>1. /\ call \in {"browse", "file"} /\ call' = call /\ phase' = phase
      /\ Hits # {} /\ ReadSectorOf(Hit.cluster, 0)
      /\ UNCHANGED << from, currentsector, browse_cluster_cache, dirls, saved >>
  BY DEF FindDir, FoundDir, cacheVars, IInv, TypeOK
<1>2. ReaderTyped' /\ pc' = "follow"
  <2>1. Hit.cluster \in Heads /\ 0 \in Nat
    BY <1>1, HitTyped DEF IInv, Record, Heads
  <2> QED BY <1>1, <2>1, ReadSectorTyped
<1>3. /\ browse_cluster_cache \in
           [0 .. CacheEntries - 1 -> [idx : Int, data : Clusters \cup {0, LAST}]]
      /\ currentsector \in (Clusters \cup {0, LAST}) \X (0 .. SectorsPerCluster - 1)
      /\ from \in Status /\ phase \in {"start", "browse", "save"}
      /\ call = "file" => phase # "browse"
  BY DEF IInv, TypeOK, FilesOutside
<1> QED BY <1>1, <1>2, <1>3, SearchKeeps

\* A search ends, found or not.
LEMMA FindEndsKeeps ==
  ASSUME IInv, call # "list", NEW c \in Heads,
         IF call = "browse"
         THEN StartListing(c)
         ELSE pc' = "idle" /\ UNCHANGED << browse_cluster_cache, dirls, saved >>,
         UNCHANGED << phase, call, readerVars, currentsector, from >>
  PROVE  IInv'
<1>1. /\ ReaderTyped' /\ from' \in Status /\ call \in {"browse", "file"}
      /\ browse_cluster_cache \in
           [0 .. CacheEntries - 1 -> [idx : Int, data : Clusters \cup {0, LAST}]]
      /\ currentsector' \in (Clusters \cup {0, LAST}) \X (0 .. SectorsPerCluster - 1)
      /\ phase' \in {"start", "browse", "save"}
  BY DEF readerVars, IInv, TypeOK, ReaderTyped, Heads
<1>2. CASE call = "browse"
  BY <1>1, <1>2, StartListingKeeps
<1>3. CASE call = "file"
  <2>1. /\ pc' = "idle" /\ UNCHANGED << browse_cluster_cache, dirls, saved >>
        /\ call' = "file" /\ phase' # "browse"
    BY <1>3 DEF IInv, FilesOutside
  <2> QED BY <1>1, <2>1, SearchKeeps
<1> QED BY <1>1, <1>2, <1>3

LEMMA FindLastKeeps == ASSUME IInv, FindLast PROVE IInv'
<1>1. Hit.cluster \in Heads
  BY HitTyped DEF FindLast, IInv, Record, Heads
<1> QED BY <1>1, FindEndsKeeps DEF FindLast

LEMMA FindFailsKeeps == ASSUME IInv, FindFails PROVE IInv'
<1>1. LAST \in Heads
  BY DEF Heads
<1> QED BY <1>1, FindEndsKeeps DEF FindFails

-----------------------------------------------------------------------------
(* The sector reader.                                                      *)

LEMMA SlotOfIndex ==
  ASSUME NEW n \in Nat
  PROVE  CacheSlot(n) \in 0 .. CacheEntries - 1
BY Sizes, Divides DEF CacheSlot

\* A step of the reader for a search.
LEMMA SearchReaderKeeps ==
  ASSUME IInv, call # "list", pc' \in {"follow", "scan"},
         UNCHANGED << phase, call, dirls, saved, from >>, ReaderTyped',
         browse_cluster_cache' \in
           [0 .. CacheEntries - 1 -> [idx : Int, data : Clusters \cup {0, LAST}]],
         currentsector' \in (Clusters \cup {0, LAST}) \X (0 .. SectorsPerCluster - 1)
  PROVE  IInv'
<1>1. /\ call \in {"browse", "file"} /\ from \in Status
      /\ phase \in {"start", "browse", "save"} /\ (call = "file" => phase # "browse")
  BY DEF IInv, TypeOK, FilesOutside
<1>2. /\ call' \in {"browse", "file"} /\ from' \in Status
      /\ phase' \in {"start", "browse", "save"} /\ (call' = "file" => phase' # "browse")
      /\ pc' # "idle" /\ pc' \in {"idle", "follow", "scan"}
      /\ UNCHANGED << dirls, saved >>
  BY <1>1
<1> QED BY <1>2, SearchKeeps

\* A step of the reader for a listing.
LEMMA ListReaderKeeps ==
  ASSUME IInv, call = "list", pc # "idle", pc' \in {"follow", "scan"},
         UNCHANGED << phase, call, dirls, saved, from >>, ReaderTyped',
         browse_cluster_cache' \in
           [0 .. CacheEntries - 1 -> [idx : Int, data : Clusters \cup {0, LAST}]],
         currentsector' \in (Clusters \cup {0, LAST}) \X (0 .. SectorsPerCluster - 1),
         CacheOfListing', ReaderOfListing'
  PROVE  IInv'
<1>1. TypeOK'
  BY DEF IInv, TypeOK, ReaderTyped, Heads
<1>2. StatusesReached'
  BY DEF IInv, StatusesReached, Reached
<1>3. FilesOutside'
  BY DEF FilesOutside
<1>4. NothingLeftOut'
  BY DEF IInv, NothingLeftOut, Positions, RecordAt, Position
<1>5. ReaddirReturnsNext'
  BY DEF ReaddirReturnsNext
<1> QED BY <1>1, <1>2, <1>3, <1>4, <1>5 DEF IInv

\* Where the reader of a listing is.
LEMMA ListReader ==
  ASSUME IInv, call = "list", pc # "idle"
  PROVE  /\ phase = "browse" /\ dir \in Heads /\ dir = dirls.cluster
         /\ x \in Nat /\ x = dirls.sector /\ i \in Nat /\ chain = Chain[dir][i]
         /\ ClusterIndex \in 0 .. MaxChain /\ i <= ClusterIndex
         /\ Reached(dir, x)
<1>1. /\ phase = "browse" /\ dir \in Heads /\ dir = dirls.cluster
      /\ x \in Nat /\ x = dirls.sector /\ i \in Nat /\ chain = Chain[dir][i]
      /\ i <= ClusterIndex /\ Reached(dir, x)
  BY DEF IInv, TypeOK, ReaderOfListing, StatusesReached, Heads
<1>2. ClusterIndex \in 0 .. MaxChain
  BY <1>1, ReachedInChain DEF ClusterIndex
<1> QED BY <1>1, <1>2

LEMMA FollowCachedKeeps == ASSUME IInv, FollowCached PROVE IInv'
<1>1. /\ pc = "follow" /\ pc' = pc /\ i < ClusterIndex /\ Cached(i)
      /\ chain' = browse_cluster_cache[CacheSlot(i)].data /\ i' = i + 1
      /\ UNCHANGED << phase, call, dirls, saved, from, dir, x, browse_cluster_cache,
                      currentsector >>
  BY DEF FollowCached, cacheVars
<1>2. /\ i \in Nat /\ CacheSlot(i) \in 0 .. CacheEntries - 1
      /\ browse_cluster_cache \in
           [0 .. CacheEntries - 1 -> [idx : Int, data : Clusters \cup {0, LAST}]]
      /\ currentsector \in (Clusters \cup {0, LAST}) \X (0 .. SectorsPerCluster - 1)
      /\ dir \in Heads /\ x \in Nat
  BY SlotOfIndex DEF IInv, TypeOK, Heads
<1>3. ReaderTyped'
  BY <1>1, <1>2 DEF ReaderTyped
<1>4. CASE call # "list"
  BY <1>1, <1>2, <1>3, <1>4, SearchReaderKeeps
<1>5. CASE call = "list"
  <2>1. ClusterIndex' = ClusterIndex /\ ClusterIndex \in Int
    BY <1>1, <1>5, ListReader DEF ClusterIndex
  <2>2. CacheOfListing' /\ phase = "browse"
    BY <1>1, <1>5, ListReader DEF IInv, CacheOfListing
  <2>3. chain' = Chain[dir'][i']
    <3>1. browse_cluster_cache[CacheSlot(i)].idx = i /\ i # NONE
      BY <1>1, <1>2 DEF Cached, NONE
    <3>2. browse_cluster_cache[CacheSlot(i)].data = Chain[dirls.cluster][i + 1]
      BY <1>2, <1>5, <2>2, <3>1 DEF IInv, CacheOfListing
    <3> QED BY <1>1, <1>5, <3>2, ListReader
  <2>4. ReaderOfListing'
    <3>1. dir = dirls.cluster /\ x = dirls.sector
      BY <1>1, <1>5, ListReader
    <3>2. i' <= ClusterIndex'
      BY <1>1, <1>2, <2>1
    <3> QED BY <1>1, <2>2, <2>3, <3>1, <3>2 DEF ReaderOfListing
  <2> QED BY <1>1, <1>2, <1>3, <1>5, <2>2, <2>4, ListReaderKeeps
<1> QED BY <1>4, <1>5

LEMMA NextClusterTyped ==
  ASSUME NEW c \in Clusters \cup {0, LAST}, NEW next \in NextClusters(c)
  PROVE  next \in Clusters \cup {0, LAST}
BY FatAssumption DEF NextClusters

LEMMA FollowFatKeeps == ASSUME IInv, FollowFat PROVE IInv'
<1>1. PICK next \in NextClusters(chain) :
        /\ chain' = next
        /\ browse_cluster_cache' = [browse_cluster_cache EXCEPT
                                      ![CacheSlot(i)] = [idx |-> i, data |-> next]]
  BY DEF FollowFat
<1>2. /\ pc = "follow" /\ pc' = pc /\ i < ClusterIndex /\ i' = i + 1
      /\ UNCHANGED << phase, call, dirls, saved, from, dir, x, currentsector >>
  BY DEF FollowFat
<1>3. /\ i \in Nat /\ CacheSlot(i) \in 0 .. CacheEntries - 1
      /\ browse_cluster_cache \in
           [0 .. CacheEntries - 1 -> [idx : Int, data : Clusters \cup {0, LAST}]]
      /\ currentsector \in (Clusters \cup {0, LAST}) \X (0 .. SectorsPerCluster - 1)
      /\ dir \in Heads /\ x \in Nat /\ next \in Clusters \cup {0, LAST}
  BY SlotOfIndex, NextClusterTyped DEF IInv, TypeOK, Heads
<1>4. ReaderTyped'
  BY <1>1, <1>2, <1>3 DEF ReaderTyped
<1>5. browse_cluster_cache' \in
        [0 .. CacheEntries - 1 -> [idx : Int, data : Clusters \cup {0, LAST}]]
  <2>1. [idx |-> i, data |-> next] \in [idx : Int, data : Clusters \cup {0, LAST}]
    BY <1>3
  <2> QED BY <1>1, <1>3, <2>1
<1>6. CASE call # "list"
  BY <1>2, <1>3, <1>4, <1>5, <1>6, SearchReaderKeeps
<1>7. CASE call = "list"
  <2>1. /\ phase = "browse" /\ dir \in Heads /\ dir = dirls.cluster /\ x = dirls.sector
        /\ chain = Chain[dir][i] /\ ClusterIndex \in 0 .. MaxChain /\ Reached(dir, x)
    BY <1>2, <1>7, ListReader
  <2>2. i \in 0 .. MaxChain - 1 /\ chain # LAST
    <3>1. i \in 0 .. MaxChain - 1
      BY <1>2, <1>3, <2>1, Sizes
    <3>2. i \in 0 .. (x \div SectorsPerCluster) - 1
      BY <1>2, <1>3, <2>1 DEF ClusterIndex
    <3> QED BY <2>1, <3>1, <3>2 DEF Reached
  <2>3. next = Chain[dir][i + 1]
    <3>1. chain \in Heads /\ chain \in Clusters
      BY <2>1, <2>2, Chains, Sizes DEF Heads
    <3>2. next = Fat[chain]
      BY <1>1, <2>2, <3>1, Sizes DEF NextClusters
    <3> QED BY <2>1, <2>2, <3>2, Chains
  <2>4. CacheOfListing'
    <3> SUFFICES ASSUME NEW s \in 0 .. CacheEntries - 1, browse_cluster_cache'[s].idx # NONE
                 PROVE  /\ browse_cluster_cache'[s].idx \in 0 .. MaxChain - 1
                        /\ browse_cluster_cache'[s].data
                             = Chain[dirls.cluster][browse_cluster_cache'[s].idx + 1]
      BY <1>2 DEF CacheOfListing
    <3>1. CASE s = CacheSlot(i)
      <4>1. browse_cluster_cache'[s] = [idx |-> i, data |-> next]
        BY <1>1, <1>3, <3>1
      <4> QED BY <2>1, <2>2, <2>3, <4>1
    <3>2. CASE s # CacheSlot(i)
      <4>1. browse_cluster_cache'[s] = browse_cluster_cache[s]
        BY <1>1, <1>3, <3>2
      <4> QED BY <1>7, <2>1, <4>1 DEF IInv, CacheOfListing
    <3> QED BY <3>1, <3>2
  <2>5. ReaderOfListing'
    <3>1. i' <= ClusterIndex'
      <4>1. ClusterIndex' = ClusterIndex
        BY <1>2 DEF ClusterIndex
      <4> QED BY <1>2, <1>3, <2>1, <4>1
    <3>2. chain' = Chain[dir'][i']
      BY <1>1, <1>2, <2>3
    <3> QED BY <1>2, <2>1, <3>1, <3>2 DEF ReaderOfListing
  <2> QED BY <1>2, <1>3, <1>4, <1>5, <1>7, <2>4, <2>5, ListReaderKeeps
<1> QED BY <1>6, <1>7

LEMMA LoadSectorKeeps == ASSUME IInv, LoadSector PROVE IInv'
<1>1. /\ pc = "follow" /\ pc' = "scan" /\ i = ClusterIndex /\ chain # LAST
      /\ currentsector' = << chain, SectorOfCluster >>
      /\ UNCHANGED << phase, call, dirls, saved, from, dir, x, chain, i,
                      browse_cluster_cache >>
  BY DEF LoadSector, readerVars, cacheVars
<1>2. /\ browse_cluster_cache \in
           [0 .. CacheEntries - 1 -> [idx : Int, data : Clusters \cup {0, LAST}]]
      /\ ReaderTyped
  BY DEF IInv, TypeOK, ReaderTyped, Heads
<1>3. ReaderTyped'
  BY <1>1, <1>2 DEF ReaderTyped
<1>4. currentsector' \in (Clusters \cup {0, LAST}) \X (0 .. SectorsPerCluster - 1)
  <2>1. SectorOfCluster \in 0 .. SectorsPerCluster - 1
    BY <1>2, Sizes, Divides DEF SectorOfCluster, ReaderTyped
  <2> QED BY <1>1, <1>2, <2>1 DEF ReaderTyped
<1>5. CASE call # "list"
  BY <1>1, <1>2, <1>3, <1>4, <1>5, SearchReaderKeeps
<1>6. CASE call = "list"
  <2>1. CacheOfListing'
    BY <1>1, <1>6 DEF IInv, CacheOfListing
  <2>2. ReaderOfListing'
    <3>1. ClusterIndex' = ClusterIndex /\ SectorOfCluster' = SectorOfCluster
      BY <1>1 DEF ClusterIndex, SectorOfCluster
    <3>2. /\ phase = "browse" /\ dir = dirls.cluster /\ x = dirls.sector
          /\ i <= ClusterIndex /\ chain = Chain[dir][i]
      BY <1>1, <1>6, ListReader
    <3> QED BY <1>1, <3>1, <3>2 DEF ReaderOfListing
  <2> QED BY <1>1, <1>2, <1>3, <1>4, <1>6, <2>1, <2>2, ListReaderKeeps
<1> QED BY <1>5, <1>6

-----------------------------------------------------------------------------
(* The listing.                                                            *)

LEMMA ReaddirKeeps == ASSUME IInv, Readdir PROVE IInv'
<1>1. /\ phase = "browse" /\ pc = "idle" /\ call' = "list" /\ from' = dirls
      /\ ReadSectorOf(dirls.cluster, dirls.sector)
      /\ UNCHANGED << phase, browse_cluster_cache, currentsector, dirls, saved >>
  BY DEF Readdir, cacheVars
<1>2. dirls \in Status /\ dirls.cluster \in Heads /\ dirls.sector \in Nat
  BY DEF IInv, TypeOK, Status, Heads
<1>3. /\ ReaderTyped' /\ pc' = "follow" /\ dir' = dirls.cluster /\ x' = dirls.sector
      /\ chain' = dir' /\ i' = 0
  BY <1>1, <1>2, ReadSectorTyped DEF ReadSectorOf
<1>4. TypeOK'
  BY <1>1, <1>2, <1>3 DEF IInv, TypeOK, ReaderTyped, Heads
<1>5. StatusesReached' /\ FilesOutside'
  BY <1>1 DEF IInv, StatusesReached, Reached, FilesOutside
<1>6. CacheOfListing'
  BY <1>1 DEF IInv, CacheOfListing
<1>7. ReaderOfListing'
  <2>1. 0 <= ClusterIndex'
    <3>1. x' \in Nat
      BY <1>2, <1>3
    <3> DEFINE n == x'
    <3>2. n \in Nat
      BY <3>1
    <3> HIDE DEF n
    <3>3. n \div SectorsPerCluster \in Nat
      BY <3>2, Sizes, Divides
    <3>4. ClusterIndex' = n \div SectorsPerCluster
      BY DEF ClusterIndex, n
    <3> QED BY <3>3, <3>4
  <2>2. Chain[dir'][i'] = chain'
    BY <1>2, <1>3, Chains
  <2> QED BY <1>1, <1>3, <2>1, <2>2 DEF ReaderOfListing
<1>8. NothingLeftOut' /\ ReaddirReturnsNext'
  <2>1. Position(dirls) \in Int
    BY <1>2, Sizes DEF Position, Status
  <2>2. Position(from)' = Position(dirls) /\ Position(dirls)' = Position(dirls)
    BY <1>1 DEF Position
  <2>3. \A p \in Positions(dirls'.cluster) :
          ~ (Position(from)' <= p /\ p < Position(dirls)')
    <3>1. Positions(dirls'.cluster) \subseteq Int
      BY DEF Positions
    <3> QED BY <2>1, <2>2, <3>1
  <2>4. Position(from)' <= Position(dirls)' /\ from'.cluster = dirls'.cluster
    BY <1>1, <2>1, <2>2
  <2>5. NothingLeftOut'
    BY <2>3, <2>4 DEF NothingLeftOut, Positions, RecordAt
  <2> QED BY <1>3, <2>5 DEF ReaddirReturnsNext
<1> QED BY <1>4, <1>5, <1>6, <1>7, <1>8 DEF IInv

LEMMA RestoreKeeps == ASSUME IInv, Restore PROVE IInv'
<1>1. /\ phase = "browse" /\ pc = "idle" /\ dirls' \in saved
      /\ UNCHANGED << phase, pc, call, dir, x, chain, i, browse_cluster_cache, currentsector,
                      saved, result, from >>
  BY DEF Restore, readerVars, cacheVars
<1>2. dirls'.cluster = dirls.cluster /\ Reached(dirls'.cluster, dirls'.sector)
  BY <1>1 DEF IInv, StatusesReached
<1>3. TypeOK'
  BY <1>1 DEF IInv, TypeOK
<1>4. StatusesReached'
  BY <1>1, <1>2 DEF IInv, StatusesReached, Reached
<1>5. CacheOfListing' /\ FilesOutside'
  BY <1>1, <1>2 DEF IInv, CacheOfListing, FilesOutside
<1>6. ReaderOfListing' /\ NothingLeftOut'
  BY <1>1 DEF ReaderOfListing, NothingLeftOut
<1>7. ReaddirReturnsNext'
  BY <1>1 DEF IInv, ReaddirReturnsNext, Positions, RecordAt, Position
<1> QED BY <1>3, <1>4, <1>5, <1>6, <1>7 DEF IInv

\* The records that the listing looks through are those of its directory.
LEMMA ScannedSector ==
  ASSUME IInv, pc = "scan", call = "list"
  PROVE  /\ dirls.cluster \in Heads /\ dirls.sector \in Nat
         /\ dirls.sector \div SectorsPerCluster \in 0 .. MaxChain
         /\ Chain[dirls.cluster][dirls.sector \div SectorsPerCluster] # LAST
         /\ Reached(dirls.cluster, dirls.sector)
         /\ \A j \in 0 .. EntriesPerSector - 1 :
              /\ dirls.sector * EntriesPerSector + j \in Positions(dirls.cluster)
              /\ RecordAt(dirls.cluster, dirls.sector * EntriesPerSector + j) = Records[j]
<1> DEFINE c == dirls.cluster
           n == dirls.sector
<1>1. /\ c \in Heads /\ n \in Nat /\ n \div SectorsPerCluster \in 0 .. MaxChain
      /\ Reached(c, n) /\ dir = c /\ x = n /\ chain = Chain[c][i] /\ i = ClusterIndex
      /\ chain # LAST /\ currentsector = << chain, SectorOfCluster >>
  BY ListReader DEF ClusterIndex, IInv, ReaderOfListing
<1>2. chain = Chain[c][n \div SectorsPerCluster]
  BY <1>1 DEF ClusterIndex
<1>3. currentsector[1] \in Clusters /\ currentsector[1] = chain
      /\ currentsector[2] = n % SectorsPerCluster
  BY <1>1, <1>2, Chains DEF SectorOfCluster, Heads
<1>4. Records = Card[chain][n % SectorsPerCluster]
  BY <1>3 DEF Records
<1> HIDE DEF c, n
<1>5. ASSUME NEW j \in 0 .. EntriesPerSector - 1
      PROVE  /\ n * EntriesPerSector + j \in Positions(c)
             /\ RecordAt(c, n * EntriesPerSector + j) = Records[j]
  BY <1>1, <1>2, <1>4, PositionsOfSector
<1> QED BY <1>1, <1>2, <1>5 DEF c, n

\* Behind the listing's offset.
LEMMA PlaceInSector ==
  ASSUME IInv, pc = "scan", call = "list", NEW p \in Positions(dirls.cluster),
         Position(dirls) <= p, p < (dirls.sector + 1) * EntriesPerSector
  PROVE  /\ p - dirls.sector * EntriesPerSector \in Items
         /\ p - dirls.sector * EntriesPerSector >= dirls.offset
         /\ RecordAt(dirls.cluster, p) = Records[p - dirls.sector * EntriesPerSector]
<1> DEFINE s == dirls.sector * EntriesPerSector
<1>1. s \in Nat /\ dirls.offset \in Nat /\ p \in Nat /\ dirls.sector \in Nat
  <2>1. dirls.offset \in Nat
    BY Sizes DEF IInv, TypeOK, Status
  <2>2. p \in Nat
    BY Sizes DEF Positions
  <2> QED BY <2>1, <2>2, ScannedSector, Sizes
<1>2. (dirls.sector + 1) * EntriesPerSector = s + EntriesPerSector
  BY <1>1, Sizes
<1>3. p - s >= dirls.offset /\ p - s \in 0 .. EntriesPerSector - 1
  <2>1. s + dirls.offset <= p /\ p < s + EntriesPerSector
    BY <1>2 DEF Position
  <2> HIDE DEF s
  <2> QED BY <1>1, <2>1, Sizes
<1>4. RecordAt(dirls.cluster, p) = Records[p - s]
  <2> DEFINE j == p - s
  <2>1. j \in 0 .. EntriesPerSector - 1 /\ s + j = p
    BY <1>1, <1>3
  <2> HIDE DEF j
  <2>2. RecordAt(dirls.cluster, s + j) = Records[j]
    BY <2>1, ScannedSector
  <2> QED BY <2>1, <2>2 DEF j
<1> QED BY <1>3, <1>4 DEF Items

LEMMA FirstLiveIs ==
  ASSUME Live # {}
  PROVE  /\ FirstLive \in Items /\ FirstLive >= dirls.offset
         /\ Records[FirstLive].kind # "skip"
         /\ \A k \in Live : FirstLive <= k
<1> DEFINE T == Live
<1>1. T \in SUBSET Nat /\ T # {}
  BY Sizes DEF Live, Items
<1> HIDE DEF T
<1>2. \E m \in T : \A k \in T : m <= k
  BY <1>1, LeastNumber
<1>3. FirstLive \in Live /\ \A k \in Live : FirstLive <= k
  BY <1>2 DEF FirstLive, T
<1> QED BY <1>3 DEF Live

\* What is still ahead of the place where the call began.
Ahead == {p \in Positions(from.cluster) :
            p >= Position(from) /\ RecordAt(from.cluster, p).kind # "skip"}

LEMMA ReturnsNext ==
  ASSUME NEW p \in Ahead, \A q \in Ahead : p <= q,
         result' = IF RecordAt(from.cluster, p).kind = "entry"
                   THEN [kind |-> "entry", record |-> RecordAt(from.cluster, p)]
                   ELSE [kind |-> "end"],
         UNCHANGED from
  PROVE  ReaddirReturnsNext'
<1> DEFINE next == CHOOSE r \in Ahead : \A q \in Ahead : r <= q
<1>1. Ahead \subseteq Int
  BY DEF Ahead, Positions
<1>2. next \in Ahead /\ \A q \in Ahead : next <= q
  OBVIOUS
<1>3. next = p
  <2> HIDE DEF next
  <2> QED BY <1>1, <1>2
<1>4. Ahead # {}
  OBVIOUS
<1>5. result' = IF Ahead # {} /\ RecordAt(from.cluster, next).kind = "entry"
               THEN [kind |-> "entry", record |-> RecordAt(from.cluster, next)]
               ELSE [kind |-> "end"]
  BY <1>3, <1>4
<1> QED BY <1>5 DEF ReaddirReturnsNext, Ahead, Positions, RecordAt, Position

\* The first live record of a sector is the first that is ahead.
LEMMA FirstAhead ==
  ASSUME IInv, pc = "scan", call = "list", Live # {}
  PROVE  LET p == dirls.sector * EntriesPerSector + FirstLive
         IN /\ p \in Ahead /\ \A q \in Ahead : p <= q
            /\ RecordAt(from.cluster, p) = Records[FirstLive]
<1> DEFINE s == dirls.sector * EntriesPerSector
           p == s + FirstLive
<1>1. /\ FirstLive \in 0 .. EntriesPerSector - 1 /\ FirstLive >= dirls.offset
      /\ Records[FirstLive].kind # "skip" /\ \A k \in Live : FirstLive <= k
  BY FirstLiveIs DEF Items
<1>2. /\ from.cluster = dirls.cluster /\ Position(from) <= Position(dirls)
      /\ \A q \in Positions(dirls.cluster) :
           Position(from) <= q /\ q < Position(dirls) => RecordAt(dirls.cluster, q).kind = "skip"
  BY DEF IInv, NothingLeftOut
<1>3. p \in Positions(dirls.cluster) /\ RecordAt(dirls.cluster, p) = Records[FirstLive]
  BY <1>1, ScannedSector
<1>4. /\ s \in Nat /\ dirls.offset \in Nat /\ dirls.sector \in Nat
      /\ Position(dirls) = s + dirls.offset /\ Position(from) \in Int
      /\ (dirls.sector + 1) * EntriesPerSector = s + EntriesPerSector
  <2>1. dirls \in Status /\ from \in Status
    BY DEF IInv, TypeOK
  <2>2. dirls.offset \in Nat /\ from.offset \in Nat /\ from.sector \in Nat /\ dirls.sector \in Nat
    BY <2>1, Sizes DEF Status
  <2> QED BY <2>2, Sizes DEF Position
<1> HIDE DEF s
<1>5. p \in Ahead
  BY <1>1, <1>2, <1>3, <1>4, Sizes DEF Ahead
<1>6. ASSUME NEW q \in Ahead PROVE p <= q
  <2>1. q \in Positions(dirls.cluster) /\ q \in Int /\ q >= Position(from)
        /\ RecordAt(dirls.cluster, q).kind # "skip"
    BY <1>2 DEF Ahead, Positions
  <2>2. Position(dirls) <= q
    BY <1>2, <1>4, <2>1
  <2>3. SUFFICES ASSUME q < p PROVE FALSE
    BY <1>1, <1>4, <2>1, Sizes
  <2>4. q < (dirls.sector + 1) * EntriesPerSector
    BY <1>1, <1>4, <2>1, <2>3, Sizes
  <2>5. /\ q - s \in Items /\ q - s >= dirls.offset
        /\ RecordAt(dirls.cluster, q) = Records[q - s]
    BY <2>1, <2>2, <2>4, PlaceInSector DEF s
  <2>6. q - s \in Live
    BY <2>1, <2>5 DEF Live
  <2>7. FirstLive <= q - s
    BY <1>1, <2>6
  <2> QED BY <1>1, <1>4, <2>1, <2>3, <2>7, Sizes
<1> QED BY <1>2, <1>3, <1>5, <1>6 DEF s

\* The end of a call to fl_list_readdir.
LEMMA ReturnKeeps ==
  ASSUME IInv, pc # "idle", call = "list", pc' = "idle",
         UNCHANGED << phase, call, dir, x, chain, i, browse_cluster_cache, currentsector, from >>,
         dirls' \in Status, dirls'.cluster = dirls.cluster, dirls'.sector = dirls.sector,
         saved' = saved \cup {dirls'}, ReaddirReturnsNext'
  PROVE  IInv'
<1>1. TypeOK'
  BY DEF IInv, TypeOK
<1>2. StatusesReached'
  <2>1. Reached(dirls'.cluster, dirls'.sector)
    BY DEF IInv, StatusesReached
  <2> QED BY <2>1 DEF IInv, StatusesReached, Reached
<1>3. FilesOutside' /\ CacheOfListing'
  BY DEF IInv, FilesOutside, CacheOfListing
<1>4. ReaderOfListing' /\ NothingLeftOut'
  BY DEF ReaderOfListing, NothingLeftOut
<1> QED BY <1>1, <1>2, <1>3, <1>4 DEF IInv

LEMMA ListEntryKeeps == ASSUME IInv, ListEntry PROVE IInv'
<1> DEFINE p == dirls.sector * EntriesPerSector + FirstLive
<1>1. /\ pc = "scan" /\ call = "list" /\ Live # {} /\ Records[FirstLive].kind = "entry"
      /\ dirls' = [dirls EXCEPT !.offset = FirstLive + 1] /\ saved' = saved \cup {dirls'}
      /\ pc' = "idle" /\ result' = [kind |-> "entry", record |-> Records[FirstLive]]
      /\ UNCHANGED << phase, call, dir, x, chain, i, browse_cluster_cache, currentsector, from >>
  BY DEF ListEntry, Return, readerVars, cacheVars
<1>2. p \in Ahead /\ (\A q \in Ahead : p <= q) /\ RecordAt(from.cluster, p) = Records[FirstLive]
  BY <1>1, FirstAhead
<1>3. ReaddirReturnsNext'
  <2> HIDE DEF p
  <2> QED BY <1>1, <1>2, ReturnsNext
<1>4. /\ dirls' \in Status /\ dirls'.cluster = dirls.cluster /\ dirls'.sector = dirls.sector
  <2>1. dirls \in Status
    BY DEF IInv, TypeOK
  <2>2. FirstLive + 1 \in 0 .. EntriesPerSector
    BY <1>1, FirstLiveIs, Sizes DEF Items
  <2> QED BY <1>1, <2>1, <2>2 DEF Status
<1> QED BY <1>1, <1>3, <1>4, ReturnKeeps

LEMMA ListBlankKeeps == ASSUME IInv, ListBlank PROVE IInv'
<1> DEFINE p == dirls.sector * EntriesPerSector + FirstLive
<1>1. /\ pc = "scan" /\ call = "list" /\ Live # {} /\ Records[FirstLive].kind = "blank"
      /\ dirls' = dirls /\ saved' = saved \cup {dirls'}
      /\ pc' = "idle" /\ result' = [kind |-> "end"]
      /\ UNCHANGED << phase, call, dir, x, chain, i, browse_cluster_cache, currentsector, from >>
  BY DEF ListBlank, Return, readerVars, cacheVars
<1>2. p \in Ahead /\ (\A q \in Ahead : p <= q) /\ RecordAt(from.cluster, p) = Records[FirstLive]
  BY <1>1, FirstAhead
<1>3. ReaddirReturnsNext'
  <2> HIDE DEF p
  <2> QED BY <1>1, <1>2, ReturnsNext
<1>4. dirls \in Status
  BY DEF IInv, TypeOK
<1> QED BY <1>1, <1>3, <1>4, ReturnKeeps

\* Where a position of a directory is.
LEMMA ClusterOfPosition ==
  ASSUME NEW c, NEW p \in Positions(c)
  PROVE  /\ p \in Nat /\ p \div EntriesPerSector \in Nat
         /\ (p \div EntriesPerSector) \div SectorsPerCluster \in 0 .. MaxChain
<1> DEFINE n == p \div EntriesPerSector
           q == n \div SectorsPerCluster
           M == MaxChain * SectorsPerCluster
<1>1. M \in Nat
  BY Sizes
<1>2. p \in Nat /\ p < M * EntriesPerSector
  <2>1. p \in 0 .. M * EntriesPerSector - 1
    BY DEF Positions
  <2> HIDE DEF M
  <2>2. M * EntriesPerSector \in Nat
    BY <1>1, Sizes
  <2> QED BY <2>1, <2>2
<1> HIDE DEF M
<1>3. n \in Nat /\ n < M
  <2>1. n \in Nat /\ p = n * EntriesPerSector + (p % EntriesPerSector) /\ p % EntriesPerSector \in Nat
    <3>1. /\ p \div EntriesPerSector \in Nat /\ p % EntriesPerSector \in 0 .. EntriesPerSector - 1
          /\ p = (p \div EntriesPerSector) * EntriesPerSector + (p % EntriesPerSector)
      BY <1>2, Sizes, Divides
    <3>2. p % EntriesPerSector \in Nat
      BY <3>1, Sizes
    <3> QED BY <3>1, <3>2
  <2> HIDE DEF n
  <2>2. SUFFICES ASSUME n >= M PROVE FALSE
    BY <1>1, <2>1
  <2>3. (n - M) * EntriesPerSector >= 0
    <3>1. n - M \in Nat
      BY <1>1, <2>1, <2>2
    <3> QED BY <3>1, Sizes
  <2>4. (n - M) * EntriesPerSector = n * EntriesPerSector - M * EntriesPerSector
    BY <1>1, <2>1, Sizes
  <2>5. n * EntriesPerSector \in Nat /\ M * EntriesPerSector \in Nat
    BY <1>1, <2>1, Sizes
  <2> QED BY <1>2, <2>1, <2>3, <2>4, <2>5
<1>4. q \in 0 .. MaxChain
  <2> HIDE DEF n
  <2>1. q \in Nat /\ n = q * SectorsPerCluster + (n % SectorsPerCluster) /\ n % SectorsPerCluster \in Nat
    BY <1>3, Sizes, Divides
  <2> HIDE DEF q
  <2>2. SUFFICES ASSUME q > MaxChain PROVE FALSE
    BY <2>1, Sizes
  <2>3. (q - MaxChain) * SectorsPerCluster >= 0
    <3>1. q - MaxChain \in Nat
      BY <2>1, <2>2, Sizes
    <3> QED BY <3>1, Sizes
  <2>4. (q - MaxChain) * SectorsPerCluster = q * SectorsPerCluster - M
    BY <2>1, Sizes DEF M
  <2>5. q * SectorsPerCluster \in Nat
    BY <2>1, Sizes
  <2> QED BY <1>1, <1>3, <2>1, <2>3, <2>4, <2>5
<1> QED BY <1>2, <1>3, <1>4

LEMMA ListEndKeeps == ASSUME IInv, ListEnd PROVE IInv'
<1>1. /\ pc = "follow" /\ call = "list" /\ i = ClusterIndex /\ chain = LAST
      /\ dirls' = dirls /\ saved' = saved \cup {dirls'}
      /\ pc' = "idle" /\ result' = [kind |-> "end"]
      /\ UNCHANGED << phase, call, dir, x, chain, i, browse_cluster_cache, currentsector, from >>
  BY DEF ListEnd, AtEndOfChain, Return, readerVars, cacheVars
<1>2. dirls \in Status
  BY DEF IInv, TypeOK
<1>3. ReaddirReturnsNext'
  <2> DEFINE c == dirls.cluster
             n == dirls.sector
             q == n \div SectorsPerCluster
  <2>1. c \in Heads /\ n \in Nat /\ q \in 0 .. MaxChain /\ Chain[c][q] = LAST
    BY <1>1, ListReader DEF ClusterIndex
  <2>2. /\ from.cluster = c /\ Position(from) <= Position(dirls)
        /\ \A p \in Positions(c) :
             Position(from) <= p /\ p < Position(dirls) => RecordAt(c, p).kind = "skip"
    BY <1>1 DEF IInv, NothingLeftOut
  <2>3. n * EntriesPerSector <= Position(dirls) /\ Position(dirls) \in Int
        /\ n * EntriesPerSector \in Nat
    BY <1>2, Sizes DEF Position, Status
  <2>4. ASSUME NEW p \in Ahead PROVE FALSE
    <3>1. p \in Positions(c) /\ p >= Position(from) /\ RecordAt(c, p).kind # "skip"
      BY <2>2 DEF Ahead
    <3> DEFINE m == p \div EntriesPerSector
               k == m \div SectorsPerCluster
    <3>2. p \in Nat /\ m \in Nat /\ k \in 0 .. MaxChain
      BY <3>1, ClusterOfPosition
    <3>3. Chain[c][k] # LAST
      BY <3>1 DEF Positions
    <3>4. p >= Position(dirls)
      <4>1. ~ (Position(from) <= p /\ p < Position(dirls))
        BY <2>2, <3>1
      <4>2. Position(from) <= p
        BY <3>1
      <4> QED BY <2>3, <3>2, <4>1, <4>2
    <3>5. n <= m
      <4>1. n * EntriesPerSector <= p
        BY <2>3, <3>2, <3>4
      <4> HIDE DEF n
      <4> QED BY <2>1, <3>2, <4>1, Sizes, QuotientsGrow
    <3>6. q <= k
      <4> HIDE DEF n, m
      <4> QED BY <2>1, <3>2, <3>5, Sizes, QuotientsInOrder
    <3> HIDE DEF c, q, k
    <3> QED BY <2>1, <3>2, <3>3, <3>6, ChainsEnd
  <2>5. Ahead = {}
    BY <2>4
  <2> QED BY <1>1, <2>5 DEF ReaddirReturnsNext, Ahead, Positions, RecordAt, Position
<1> QED BY <1>1, <1>2, <1>3, ReturnKeeps

\* A sector without anything to list is left for the next.
LEMMA ListNextSectorKeeps == ASSUME IInv, ListNextSector PROVE IInv'
<1> DEFINE c == dirls.cluster
           n == dirls.sector
<1>1. /\ pc = "scan" /\ call = "list" /\ Live = {}
      /\ dirls' = [dirls EXCEPT !.sector = n + 1, !.offset = 0]
      /\ ReadSectorOf(c, n + 1)
      /\ UNCHANGED << phase, call, browse_cluster_cache, currentsector, saved, from >>
  BY DEF ListNextSector, NextSector, cacheVars
<1>2. dirls \in Status /\ c \in Heads /\ n \in Nat /\ n + 1 \in Nat
  BY DEF IInv, TypeOK, Status, Heads
<1>3. dirls' \in Status /\ dirls'.cluster = c /\ dirls'.sector = n + 1 /\ dirls'.offset = 0
  <2>1. 0 \in 0 .. EntriesPerSector
    BY Sizes
  <2> QED BY <1>1, <1>2, <2>1 DEF Status
<1>4. /\ ReaderTyped' /\ pc' = "follow" /\ dir' = c /\ x' = n + 1 /\ chain' = c /\ i' = 0
  BY <1>1, <1>2, ReadSectorTyped DEF ReadSectorOf
<1>5. TypeOK'
  BY <1>1, <1>3, <1>4 DEF IInv, TypeOK, ReaderTyped, Heads
<1>6. StatusesReached'
  <2>1. Reached(c, n + 1)
    BY <1>1, <1>2, ScannedSector, NextReached
  <2> QED BY <1>1, <1>3, <2>1 DEF IInv, StatusesReached, Reached
<1>7. FilesOutside' /\ CacheOfListing'
  BY <1>1, <1>3 DEF IInv, FilesOutside, CacheOfListing
<1>8. ReaderOfListing'
  <2>1. 0 <= ClusterIndex'
    <3> DEFINE m == x'
    <3>1. m \in Nat
      BY <1>2, <1>4
    <3> HIDE DEF m
    <3>2. m \div SectorsPerCluster \in Nat
      BY <3>1, Sizes, Divides
    <3>3. ClusterIndex' = m \div SectorsPerCluster
      BY DEF ClusterIndex, m
    <3> QED BY <3>2, <3>3
  <2>2. Chain[dir'][i'] = chain'
    BY <1>2, <1>4, Chains
  <2>3. phase = "browse"
    BY <1>1, ListReader
  <2> QED BY <1>1, <1>3, <1>4, <2>1, <2>2, <2>3 DEF ReaderOfListing
<1>9. NothingLeftOut'
  <2>1. /\ from.cluster = c /\ Position(from) <= Position(dirls)
        /\ \A p \in Positions(c) :
             Position(from) <= p /\ p < Position(dirls) => RecordAt(c, p).kind = "skip"
    BY <1>1 DEF IInv, NothingLeftOut
  <2>2. Position(dirls)' = (n + 1) * EntriesPerSector /\ Position(from)' = Position(from)
    <3>1. (n + 1) * EntriesPerSector \in Nat
      BY <1>2, Sizes
    <3>2. Position(dirls)' = (n + 1) * EntriesPerSector + 0
      BY <1>3 DEF Position
    <3> QED BY <1>1, <3>1, <3>2 DEF Position
  <2>3. Position(from) <= (n + 1) * EntriesPerSector
    <3>1. (n + 1) * EntriesPerSector = n * EntriesPerSector + EntriesPerSector
          /\ n * EntriesPerSector \in Nat
      BY <1>2, Sizes
    <3>2. dirls.offset \in Nat /\ dirls.offset <= EntriesPerSector
      BY <1>2, Sizes DEF Status
    <3>3. Position(from) \in Int
      BY Sizes DEF IInv, TypeOK, Status, Position
    <3>4. Position(dirls) = n * EntriesPerSector + dirls.offset
      BY DEF Position
    <3> HIDE DEF n
    <3> QED BY <2>1, <3>1, <3>2, <3>3, <3>4, Sizes
  <2>4. ASSUME NEW p \in Positions(c), Position(from) <= p, p < (n + 1) * EntriesPerSector
        PROVE  RecordAt(c, p).kind = "skip"
    <3>1. CASE p < Position(dirls)
      BY <2>1, <2>4, <3>1
    <3>2. CASE ~ (p < Position(dirls))
      <4>1. Position(dirls) <= p
        <5>1. Position(dirls) \in Int /\ p \in Int
          BY <1>2, Sizes DEF Position, Positions, Status
        <5> QED BY <3>2, <5>1
      <4> DEFINE j == p - n * EntriesPerSector
      <4>2. j \in Items /\ j >= dirls.offset /\ RecordAt(c, p) = Records[j]
        BY <1>1, <2>4, <4>1, PlaceInSector
      <4>3. j \notin Live
        BY <1>1
      <4> HIDE DEF j
      <4> QED BY <4>2, <4>3 DEF Live
    <3> QED BY <3>1, <3>2
  <2> QED BY <1>1, <1>3, <2>1, <2>2, <2>3, <2>4 DEF NothingLeftOut, Positions, RecordAt
<1>10. ReaddirReturnsNext'
  BY <1>4 DEF ReaddirReturnsNext
<1> QED BY <1>5, <1>6, <1>7, <1>8, <1>9, <1>10 DEF IInv

LEMMA StutterKeeps == ASSUME IInv, UNCHANGED vars PROVE IInv'
<1> USE DEF vars, readerVars, cacheVars
<1>1. TypeOK' /\ StatusesReached' /\ FilesOutside'
  BY DEF IInv, TypeOK, StatusesReached, Reached, FilesOutside
<1>2. CacheOfListing' /\ ReaderOfListing'
  BY DEF IInv, CacheOfListing, ReaderOfListing, ClusterIndex, SectorOfCluster
<1>3. NothingLeftOut' /\ ReaddirReturnsNext'
  BY DEF IInv, NothingLeftOut, ReaddirReturnsNext, Positions, RecordAt, Position
<1> QED BY <1>1, <1>2, <1>3 DEF IInv

-----------------------------------------------------------------------------
(* The theorems.                                                           *)

\* The inductive invariant of directory reading (fat_access.c:229-870).
THEOREM ListInvariant == Spec => []IInv
<1>1. Init => IInv
  BY InitInvariant
<1>2. IInv /\ [Next]_vars => IInv'
  <2> SUFFICES ASSUME IInv, [Next]_vars PROVE IInv'
    OBVIOUS
  <2>1. CASE Reader
    BY <2>1, FollowCachedKeeps, FollowFatKeeps, LoadSectorKeeps DEF Reader
  <2>2. CASE List
    BY <2>2, ListEntryKeeps, ListBlankKeeps, ListNextSectorKeeps, ListEndKeeps DEF List
  <2>3. CASE Find
    BY <2>3, FindNextSectorKeeps, FindDirKeeps, FindLastKeeps, FindFailsKeeps DEF Find
  <2>4. CASE Readdir \/ Restore
    BY <2>4, ReaddirKeeps, RestoreKeeps
  <2>5. CASE Opendir \/ Fopen
    BY <2>5, OpendirKeeps, FopenKeeps
  <2>6. CASE UNCHANGED vars
    BY <2>6, StutterKeeps
  <2> QED BY <2>1, <2>2, <2>3, <2>4, <2>5, <2>6 DEF Next
<1> QED BY <1>1, <1>2, PTL DEF Spec

\* The types of the variables.
THEOREM ListTypes == Spec => []TypeOK
<1>1. IInv => TypeOK
  BY DEF IInv
<1> QED BY <1>1, ListInvariant, PTL

\* A listing looks through the sectors of its own directory
\* (fatfs_sector_reader and the cache of fat_cache.c).
THEOREM OwnSectors == Spec => []ListReadsOwnSectors
<1>1. IInv => ListReadsOwnSectors
  <2> SUFFICES ASSUME IInv, pc = "scan", call = "list"
               PROVE  currentsector =
                        << Chain[dirls.cluster][dirls.sector \div SectorsPerCluster],
                           dirls.sector % SectorsPerCluster >>
    BY DEF ListReadsOwnSectors
  <2> QED BY DEF IInv, ReaderOfListing, ClusterIndex, SectorOfCluster
<1> QED BY <1>1, ListInvariant, PTL

\* and never asks for the cluster behind the end of its chain, where the FAT
\* has none (fatfs_find_next_cluster).
THEOREM InChain == Spec => []ListStaysInChain
<1>1. IInv => ListStaysInChain
  <2> SUFFICES ASSUME IInv, pc = "follow", call = "list", i < ClusterIndex PROVE chain # LAST
    BY DEF ListStaysInChain
  <2>1. /\ chain = Chain[dir][i] /\ Reached(dir, x) /\ i \in Nat /\ ClusterIndex \in Nat
    BY ListReader
  <2>2. i \in 0 .. (x \div SectorsPerCluster) - 1
    BY <2>1 DEF ClusterIndex
  <2> QED BY <2>1, <2>2 DEF Reached
<1> QED BY <1>1, ListInvariant, PTL

\* fl_list_readdir leaves out no entry and returns none twice
\* (fat_access.c:727-870).
THEOREM ReturnsNextEntry == Spec => []ReaddirReturnsNext
<1>1. IInv => ReaddirReturnsNext
  BY DEF IInv
<1> QED BY <1>1, ListInvariant, PTL

-----------------------------------------------------------------------------
(* Places in a listing: how many of a finite set of numbers are passed.    *)

LEMMA PassedIsNumber ==
  ASSUME NEW S \in SUBSET Nat, IsFiniteSet(S), NEW p \in Nat
  PROVE  Passed(S, p) \in Nat /\ Passed(S, p) <= Cardinality(S)
<1> DEFINE T == {q \in S : q < p}
<1>1. T \in SUBSET S
  OBVIOUS
<1> HIDE DEF T
<1>2. IsFiniteSet(T) /\ Cardinality(T) <= Cardinality(S)
  BY <1>1, FS_Subset
<1>3. Cardinality(T) \in Nat
  BY <1>2, FS_CardinalityType
<1> QED BY <1>2, <1>3 DEF Passed, T

\* The next number is passed, or there is nothing to pass.
LEMMA PassedNext ==
  ASSUME NEW S \in SUBSET Nat, IsFiniteSet(S), NEW p \in Nat
  PROVE  Passed(S, p + 1) = IF p \in S THEN Passed(S, p) + 1 ELSE Passed(S, p)
<1> DEFINE T == {q \in S : q < p}
           U == {q \in S : q < p + 1}
<1>1. T \in SUBSET S /\ p \notin T
  OBVIOUS
<1>2. \A q \in S : q \in Nat
  OBVIOUS
<1>3. \A q \in S : q < p + 1 <=> q < p \/ q = p
  BY <1>2
<1>4. p \in S => U = T \cup {p}
  BY <1>3
<1>5. p \notin S => U = T
  BY <1>3
<1> HIDE DEF T, U
<1>6. IsFiniteSet(T)
  BY <1>1, FS_Subset
<1>7. Cardinality(T \cup {p}) = Cardinality(T) + 1
  BY <1>1, <1>6, FS_AddElement
<1> QED BY <1>4, <1>5, <1>7 DEF Passed, T, U

LEMMA PassedInOrder ==
  ASSUME NEW S \in SUBSET Nat, IsFiniteSet(S), NEW p \in Nat, NEW n \in Nat, p <= n
  PROVE  Passed(S, p) <= Passed(S, n)
<1> DEFINE T == {q \in S : q < p}
           U == {q \in S : q < n}
<1>1. U \in SUBSET S /\ T \in SUBSET U
  <2>1. \A q \in S : q \in Nat
    OBVIOUS
  <2>2. \A q \in S : q < p => q < n
    BY <2>1
  <2> QED BY <2>2
<1> HIDE DEF T, U
<1>2. IsFiniteSet(U)
  BY <1>1, FS_Subset
<1>3. Cardinality(T) <= Cardinality(U)
  BY <1>1, <1>2, FS_Subset
<1> QED BY <1>3 DEF Passed, T, U

\* Two of the numbers have different places,
LEMMA PassedApart ==
  ASSUME NEW S \in SUBSET Nat, IsFiniteSet(S), NEW p \in S, NEW n \in Nat, p < n
  PROVE  Passed(S, p) + 1 <= Passed(S, n)
<1>1. p \in Nat /\ p + 1 \in Nat /\ p + 1 <= n
  OBVIOUS
<1>2. Passed(S, p + 1) = Passed(S, p) + 1
  BY <1>1, PassedNext
<1>3. Passed(S, p + 1) <= Passed(S, n)
  BY <1>1, PassedInOrder
<1> QED BY <1>2, <1>3

LEMMA PlacesDiffer ==
  ASSUME NEW S \in SUBSET Nat, IsFiniteSet(S), NEW p \in S, NEW n \in S,
         Passed(S, p) = Passed(S, n)
  PROVE  p = n
<1>1. p \in Nat /\ n \in Nat /\ Passed(S, p) \in Nat /\ Passed(S, n) \in Nat
  BY PassedIsNumber
<1>2. p < n => FALSE
  <2>1. p < n => Passed(S, p) + 1 <= Passed(S, n)
    BY <1>1, PassedApart
  <2> QED BY <1>1, <2>1
<1>3. n < p => FALSE
  <2>1. n < p => Passed(S, n) + 1 <= Passed(S, p)
    BY <1>1, PassedApart
  <2> QED BY <1>1, <2>1
<1> QED BY <1>1, <1>2, <1>3

\* behind the last of them all are passed,
LEMMA PassedAll ==
  ASSUME NEW S, NEW p, \A q \in S : q < p
  PROVE  Passed(S, p) = Cardinality(S)
<1>1. {q \in S : q < p} = S
  OBVIOUS
<1> QED BY <1>1 DEF Passed

LEMMA PassedFirst ==
  ASSUME NEW S \in SUBSET Nat
  PROVE  Passed(S, 0) = 0
<1>1. {q \in S : q < 0} = {}
  <2>1. \A q \in S : q \in Nat
    OBVIOUS
  <2>2. \A q \in S : ~ (q < 0)
    BY <2>1
  <2> QED BY <2>2
<1> QED BY <1>1, FS_EmptySet DEF Passed

\* each place that is counted is taken,
LEMMA PlaceTaken ==
  ASSUME NEW S \in SUBSET Nat, IsFiniteSet(S), NEW k \in 1 .. Cardinality(S)
  PROVE  \E p \in S : Passed(S, p) = k - 1
<1>1. Cardinality(S) \in Nat
  BY FS_CardinalityType
<1> DEFINE over == {n \in Nat : Passed(S, n) >= k}
<1>2. over # {}
  <2>1. PICK n \in Nat : \A q \in S : q < n
    <3>1. S = {} \/ \E m \in S : \A q \in S : q <= m
      <4>1. SUFFICES ASSUME S # {} PROVE \E m \in S : \A q \in S : q <= m
        OBVIOUS
      <4> DEFINE high == {Cardinality(S) - Passed(S, m) : m \in S}
      <4>2. high \in SUBSET Nat /\ high # {}
        <5>1. \A m \in S : Passed(S, m) \in Nat /\ Passed(S, m) <= Cardinality(S)
          BY PassedIsNumber
        <5>2. \A m \in S : Cardinality(S) - Passed(S, m) \in Nat
          BY <1>1, <5>1
        <5> QED BY <4>1, <5>2
      <4> HIDE DEF high
      <4>3. PICK h \in high : \A g \in high : h <= g
        BY <4>2, LeastNumber
      <4>4. PICK m \in S : h = Cardinality(S) - Passed(S, m)
        BY <4>3 DEF high
      <4>5. ASSUME NEW q \in S, q > m PROVE FALSE
        <5>1. q \in Nat /\ m \in Nat /\ Passed(S, m) \in Nat /\ Passed(S, q) \in Nat
          BY PassedIsNumber
        <5>2. Passed(S, m) + 1 <= Passed(S, q)
          BY <4>5, <5>1, PassedApart
        <5>3. h <= Cardinality(S) - Passed(S, q)
          BY <4>3 DEF high
        <5> QED BY <1>1, <4>4, <5>1, <5>2, <5>3
      <4> QED BY <4>5
    <3> QED BY <3>1
  <2>2. Passed(S, n) = Cardinality(S)
    BY <2>1, PassedAll
  <2> QED BY <1>1, <2>2
<1>3. PICK n \in over : \A m \in over : n <= m
  <2>1. over \in SUBSET Nat
    OBVIOUS
  <2> HIDE DEF over
  <2> QED BY <1>2, <2>1, LeastNumber
<1>4. n \in Nat /\ Passed(S, n) >= k /\ n # 0
  <2>1. n = 0 => Passed(S, n) = 0
    BY PassedFirst
  <2> QED BY <1>1, <1>3, <2>1
<1> DEFINE p == n - 1
<1>5. p \in Nat /\ p + 1 = n /\ p < n
  BY <1>4
<1>6. Passed(S, p) \in Nat /\ ~ (Passed(S, p) >= k)
  <2>1. p \notin over
    BY <1>3, <1>4, <1>5
  <2>2. Passed(S, p) \in Nat
    BY <1>5, PassedIsNumber
  <2> QED BY <1>5, <2>1, <2>2
<1> HIDE DEF p
<1>7. Passed(S, n) = IF p \in S THEN Passed(S, p) + 1 ELSE Passed(S, p)
  <2>1. Passed(S, p + 1) = IF p \in S THEN Passed(S, p) + 1 ELSE Passed(S, p)
    BY <1>5, PassedNext
  <2> QED BY <1>5, <2>1
<1>8. p \in S /\ Passed(S, p) + 1 >= k
  BY <1>1, <1>4, <1>6, <1>7
<1> QED BY <1>1, <1>6, <1>8

-----------------------------------------------------------------------------
(* The tree that the card amounts to.                                      *)

LEMMA ListedAre ==
  ASSUME NEW c
  PROVE  Listed(c) \in SUBSET Nat /\ Listed(c) \subseteq Positions(c) /\ IsFiniteSet(Listed(c))
<1> DEFINE M == MaxChain * SectorsPerCluster * EntriesPerSector - 1
<1>1. Listed(c) \subseteq 0 .. M /\ Listed(c) \subseteq Positions(c)
  BY DEF Listed, Positions
<1>2. M \in Int
  BY Sizes
<1> HIDE DEF M
<1>3. IsFiniteSet(0 .. M)
  BY <1>2, FS_Interval
<1>4. \A p \in 0 .. M : p \in Nat
  BY <1>2
<1> QED BY <1>1, <1>3, <1>4, FS_Subset

LEMMA NoPositions == Positions(LAST) = {}
<1>1. SUFFICES ASSUME NEW p \in Positions(LAST) PROVE FALSE
  OBVIOUS
<1> DEFINE k == (p \div EntriesPerSector) \div SectorsPerCluster
<1>2. k \in 0 .. MaxChain /\ Chain[LAST][k] # LAST
  BY ClusterOfPosition DEF Positions
<1> HIDE DEF k
<1>3. LAST \in Heads /\ 0 \in 0 .. MaxChain /\ Chain[LAST][0] = LAST /\ 0 <= k
  BY <1>2, Chains, Sizes DEF Heads
<1> QED BY <1>2, <1>3, ChainsEnd

LEMMA NothingListed == Listed(LAST) = {}
BY NoPositions, ListedAre

LEMMA PlaceIs ==
  ASSUME NEW S, NEW k, NEW p \in S, Passed(S, p) = k - 1
  PROVE  Place(S, k) \in S /\ Passed(S, Place(S, k)) = k - 1
BY DEF Place

\* The place in the listing of a record,
LEMMA ItemOfRecord ==
  ASSUME NEW c, NEW p \in Listed(c)
  PROVE  /\ Passed(Listed(c), p) + 1 \in 1 .. Cardinality(Listed(c))
         /\ Contents(c)[Passed(Listed(c), p) + 1] = AsEntry(RecordAt(c, p))
<1> DEFINE S == Listed(c)
           n == Passed(S, p)
           q == Place(S, n + 1)
<1>1. S \in SUBSET Nat /\ IsFiniteSet(S) /\ p \in S
  BY ListedAre
<1> HIDE DEF S
<1>2. n \in Nat /\ n + 1 <= Cardinality(S)
  <2>1. Cardinality(S) \in Nat /\ p \in Nat
    BY <1>1, FS_CardinalityType
  <2>2. Passed(S, p + 1) = n + 1 /\ Passed(S, p + 1) <= Cardinality(S) /\ n \in Nat
    BY <1>1, <2>1, PassedNext, PassedIsNumber
  <2> QED BY <2>2
<1>3. n + 1 \in 1 .. Cardinality(S)
  BY <1>1, <1>2, FS_CardinalityType
<1>4. (n + 1) - 1 = n
  BY <1>2
<1>5. q \in S /\ Passed(S, q) = n
  <2> DEFINE k == n + 1
  <2>1. Passed(S, p) = k - 1
    BY <1>4
  <2> HIDE DEF k, n
  <2>2. Place(S, k) \in S /\ Passed(S, Place(S, k)) = k - 1
    BY <1>1, <2>1, PlaceIs
  <2> QED BY <1>4, <2>2 DEF k
<1>6. Contents(c)[n + 1] = AsEntry(RecordAt(c, q))
  BY <1>3 DEF Contents, S
<1> HIDE DEF q
<1>7. q = p
  BY <1>1, <1>5, PlacesDiffer
<1> QED BY <1>3, <1>6, <1>7 DEF S

\* and the record of a place.
LEMMA RecordOfItem ==
  ASSUME NEW c, NEW k \in 1 .. Cardinality(Listed(c))
  PROVE  \E p \in Listed(c) : /\ Passed(Listed(c), p) = k - 1
                              /\ Contents(c)[k] = AsEntry(RecordAt(c, p))
<1> DEFINE S == Listed(c)
<1>1. S \in SUBSET Nat /\ IsFiniteSet(S) /\ k \in 1 .. Cardinality(S)
  BY ListedAre
<1> HIDE DEF S
<1>2. PICK p \in S : Passed(S, p) = k - 1
  BY <1>1, PlaceTaken
<1>3. (k - 1) + 1 = k
  BY <1>1, FS_CardinalityType
<1>4. Contents(c)[(k - 1) + 1] = AsEntry(RecordAt(c, p))
  BY <1>2, ItemOfRecord DEF S
<1> QED BY <1>2, <1>3, <1>4 DEF S

LEMMA ItemsAre ==
  /\ \A c \in Clusters : L!Items(c) = Contents(c) /\ DOMAIN Contents(c) = 1 .. Cardinality(Listed(c))
                         /\ Len(L!Items(c)) = Cardinality(Listed(c))
  /\ L!Items(LAST) = <<>> /\ Len(L!Items(LAST)) = Cardinality(Listed(LAST))
<1>1. ASSUME NEW c \in Clusters
      PROVE  L!Items(c) = Contents(c) /\ DOMAIN Contents(c) = 1 .. Cardinality(Listed(c))
             /\ Len(L!Items(c)) = Cardinality(Listed(c))
  <2>1. L!Items(c) = Contents(c)
    BY DEF L!Items
  <2>2. Cardinality(Listed(c)) \in Nat
    BY ListedAre, FS_CardinalityType
  <2>3. DOMAIN Contents(c) = 1 .. Cardinality(Listed(c))
    BY DEF Contents
  <2> DEFINE S == Contents(c)
             n == Cardinality(Listed(c))
  <2>4. Len(S) = n
    <3>1. S = [k \in 1 .. n |-> S[k]]
      BY DEF Contents
    <3> HIDE DEF S, n
    <3>2. n \in Nat
      BY <2>2 DEF n
    <3> QED BY <3>1, <3>2
  <2> QED BY <2>1, <2>3, <2>4
<1>2. L!Items(LAST) = <<>>
  BY Sizes DEF L!Items
<1>3. Cardinality(Listed(LAST)) = 0
  BY NothingListed, FS_EmptySet
<1> QED BY <1>1, <1>2, <1>3

\* What the path walk of the tree finds: the first record of the name.
LEMMA SubDirIs ==
  ASSUME NEW c \in Clusters, NEW h \in Listed(c), NEW name, RecordAt(c, h).name = name,
         \A q \in Listed(c) : q < h => RecordAt(c, q).name # name
  PROVE  L!SubDir(c, name) = IF RecordAt(c, h).is_dir THEN RecordAt(c, h).cluster ELSE LAST
<1> DEFINE S == Listed(c)
           hits == {k \in DOMAIN L!Items(c) : L!Items(c)[k].name = name}
           first == CHOOSE k \in hits : \A j \in hits : k <= j
           n == Passed(S, h) + 1
<1>1. S \in SUBSET Nat /\ IsFiniteSet(S) /\ h \in S /\ h \in Nat
  BY ListedAre
<1>2. L!Items(c) = Contents(c) /\ DOMAIN Contents(c) = 1 .. Cardinality(S) /\ Cardinality(S) \in Nat
  BY <1>1, ItemsAre, FS_CardinalityType
<1>3. n \in 1 .. Cardinality(S) /\ Contents(c)[n] = AsEntry(RecordAt(c, h))
  BY ItemOfRecord
<1>4. n \in hits
  BY <1>2, <1>3 DEF AsEntry
<1>5. ASSUME NEW k \in hits PROVE n <= k
  <2>1. k \in 1 .. Cardinality(S) /\ Contents(c)[k].name = name
    BY <1>2
  <2>2. PICK p \in S : Passed(S, p) = k - 1 /\ Contents(c)[k] = AsEntry(RecordAt(c, p))
    BY <2>1, RecordOfItem
  <2>3. p \in Nat /\ RecordAt(c, p).name = name
    BY <1>1, <2>1, <2>2 DEF AsEntry
  <2>4. h <= p
    BY <1>1, <2>3
  <2>5. Passed(S, h) <= Passed(S, p)
    BY <1>1, <2>3, <2>4, PassedInOrder
  <2>6. Passed(S, h) \in Nat
    BY <1>1, PassedIsNumber
  <2> QED BY <1>2, <2>1, <2>2, <2>5, <2>6
<1>6. first \in hits /\ first <= n
  BY <1>4, <1>5
<1>7. first = n
  <2>1. first \in Int /\ n \in Int /\ n <= first
    BY <1>2, <1>3, <1>5, <1>6
  <2> HIDE DEF first, n
  <2> QED BY <1>6, <2>1
<1>8. hits # {}
  BY <1>4
<1> HIDE DEF hits, n
<1>9. L!SubDir(c, name) = IF L!Items(c)[first].is_dir THEN L!Items(c)[first].cluster ELSE LAST
  BY <1>8 DEF L!SubDir, hits
<1> HIDE DEF first
<1> QED BY <1>2, <1>3, <1>7, <1>9 DEF AsEntry

-----------------------------------------------------------------------------
(* The text of a path and its levels.                                      *)

Slashes(m) == {j \in 2 .. 2 * m + 1 : j % 2 = 1}

LEMMA SlashesCount ==
  ASSUME NEW n \in Nat
  PROVE  \A m \in 0 .. n : Cardinality(Slashes(m)) = m
<1> DEFINE good == {m \in 0 .. n : IsFiniteSet(Slashes(m)) /\ Cardinality(Slashes(m)) = m}
<1>1. 0 \in good
  <2>1. Slashes(0) = {}
    BY DEF Slashes
  <2> QED BY <2>1, FS_EmptySet
<1>2. ASSUME NEW m \in 1 .. n, m - 1 \in good PROVE m \in good
  <2> DEFINE S == Slashes(m - 1)
             a == 2 * m + 1
  <2>1. m \in Nat /\ a \in Nat /\ a % 2 = 1 /\ (2 * m) % 2 = 0
    <3>1. m \in Nat
      OBVIOUS
    <3> QED BY <3>1
  <2>2. Slashes(m) = S \cup {a}
    <3>1. \A j \in Nat : j \in 2 .. 2 * m + 1 <=> j \in 2 .. 2 * (m - 1) + 1 \/ j = 2 * m \/ j = a
      BY <2>1
    <3> QED BY <2>1, <3>1 DEF Slashes
  <2>3. a \notin S
    BY <2>1 DEF Slashes
  <2>4. IsFiniteSet(S) /\ Cardinality(S) = m - 1
    BY <1>2
  <2> HIDE DEF S, a
  <2>5. IsFiniteSet(S \cup {a}) /\ Cardinality(S \cup {a}) = (m - 1) + 1
    BY <2>3, <2>4, FS_AddElement
  <2>6. (m - 1) + 1 = m /\ m \in 0 .. n
    BY <2>1
  <2> QED BY <2>2, <2>5, <2>6
<1> HIDE DEF good
<1>3. \A m \in 0 .. n : m \in good
  BY <1>1, <1>2, CarriedOn
<1> QED BY <1>3 DEF good

\* Slashes stand at the odd places and names at the even ones.
LEMMA PathTextIs ==
  ASSUME NEW names \in Seq(Names), "/" \notin Names
  PROVE  /\ Len(names) \in Nat /\ Len(PathText(names)) = 2 * Len(names) + 1
         /\ DOMAIN PathText(names) = 1 .. 2 * Len(names) + 1
         /\ PathText(names)[1] = "/" /\ PathText(names) # <<>>
         /\ \A j \in 2 .. 2 * Len(names) + 1 : PathText(names)[j] = "/" <=> j % 2 = 1
         /\ \A k \in 1 .. Len(names) : PathText(names)[2 * k] = names[k]
<1> DEFINE n == Len(names)
           text == PathText(names)
<1>1. n \in Nat /\ \A k \in 1 .. n : names[k] \in Names
  OBVIOUS
<1> HIDE DEF n
<1>2. text = [k \in 1 .. 2 * n + 1 |-> IF k % 2 = 1 THEN "/" ELSE names[k \div 2]]
  BY DEF PathText, n
<1> HIDE DEF text
<1>3. DOMAIN text = 1 .. 2 * n + 1 /\ Len(text) = 2 * n + 1
  BY <1>1, <1>2
<1>4. text[1] = "/" /\ text # <<>>
  <2>1. 1 \in 1 .. 2 * n + 1 /\ 1 % 2 = 1
    BY <1>1
  <2>2. text[1] = "/"
    BY <1>2, <2>1
  <2> QED BY <1>3, <2>1, <2>2
<1>5. ASSUME NEW k \in 1 .. n PROVE text[2 * k] = names[k]
  <2>1. k \in Nat /\ 2 * k \in 1 .. 2 * n + 1 /\ (2 * k) % 2 # 1 /\ (2 * k) \div 2 = k
    BY <1>1
  <2> QED BY <1>2, <2>1
<1>6. ASSUME NEW j \in 2 .. 2 * n + 1 PROVE text[j] = "/" <=> j % 2 = 1
  <2>1. j \in 1 .. 2 * n + 1
    BY <1>1
  <2>2. CASE j % 2 = 1
    BY <1>2, <2>1, <2>2
  <2>3. CASE j % 2 # 1
    <3>1. j \div 2 \in 1 .. n
      BY <1>1, <2>3
    <3>2. text[j] = names[j \div 2]
      BY <1>2, <2>1, <2>3
    <3> QED BY <1>1, <2>3, <3>1, <3>2
  <2> QED BY <2>2, <2>3
<1> QED BY <1>1, <1>3, <1>4, <1>5, <1>6 DEF n, text

\* The tree counts with its own instance of Cardinality.
LEMMA LevelsOf ==
  ASSUME NEW text, text # << >>, text[1] = "/"
  PROVE  L!TotalPathLevels(text) =
           Cardinality({j \in 2 .. Len(text) : text[j] = "/" \/ j = Len(text)}) - 1
BY DEF L!TotalPathLevels, L!Cardinality, Cardinality

LEMMA SubstringOf ==
  ASSUME NEW text, NEW level, NEW at,
         {j \in 2 .. Len(text) :
            text[j] # "/" /\ Cardinality({m \in 2 .. j - 1 : text[m] = "/"}) = level} = {at}
  PROVE  L!GetSubstring(text, level) = text[at]
<1> DEFINE here == {j \in 2 .. Len(text) :
                      text[j] # "/" /\ Cardinality({m \in 2 .. j - 1 : text[m] = "/"}) = level}
<1>1. L!GetSubstring(text, level) = IF here = {} THEN "" ELSE text[CHOOSE j \in here : TRUE]
  BY DEF L!GetSubstring, L!Cardinality, Cardinality
<1>2. here = {at}
  OBVIOUS
<1> HIDE DEF here
<1>3. here # {} /\ (CHOOSE j \in here : TRUE) = at
  BY <1>2
<1> QED BY <1>1, <1>3

LEMMA LevelsAre ==
  ASSUME NEW names \in Seq(Names), "/" \notin Names
  PROVE  L!TotalPathLevels(PathText(names)) = Len(names) - 1
<1> DEFINE n == Len(names)
           text == PathText(names)
<1>1. /\ n \in Nat /\ Len(text) = 2 * n + 1 /\ text[1] = "/" /\ text # <<>>
      /\ \A j \in 2 .. 2 * n + 1 : text[j] = "/" <=> j % 2 = 1
  BY PathTextIs
<1> HIDE DEF n, text
<1>2. (2 * n + 1) % 2 = 1
  BY <1>1
<1>3. {j \in 2 .. Len(text) : text[j] = "/" \/ j = Len(text)} = Slashes(n)
  BY <1>1, <1>2 DEF Slashes
<1>4. Cardinality(Slashes(n)) = n
  BY <1>1, SlashesCount
<1>5. L!TotalPathLevels(text) = n - 1
  BY <1>1, <1>3, <1>4, LevelsOf
<1> QED BY <1>5 DEF n, text

LEMMA SubstringIs ==
  ASSUME NEW names \in Seq(Names), "/" \notin Names, NEW level \in 0 .. Len(names) - 1
  PROVE  L!GetSubstring(PathText(names), level) = names[level + 1]
<1> DEFINE n == Len(names)
           text == PathText(names)
           before(j) == Cardinality({m \in 2 .. j - 1 : text[m] = "/"})
           here == {j \in 2 .. Len(text) : text[j] # "/" /\ before(j) = level}
           at == 2 * (level + 1)
<1>1. /\ n \in Nat /\ Len(text) = 2 * n + 1
      /\ \A j \in 2 .. 2 * n + 1 : text[j] = "/" <=> j % 2 = 1
      /\ \A k \in 1 .. n : text[2 * k] = names[k]
      /\ level \in Nat /\ level + 1 \in 1 .. n
  <2>1. n \in Nat
    BY PathTextIs
  <2>2. level \in Nat /\ level + 1 \in 1 .. n
    BY <2>1
  <2> QED BY <2>2, PathTextIs
<1> HIDE DEF n, text
<1>2. ASSUME NEW k \in 1 .. n PROVE before(2 * k) = k - 1
  <2>1. k \in Nat /\ k - 1 \in 0 .. n
    BY <1>1
  <2>2. \A m \in 2 .. 2 * k - 1 : m \in 2 .. 2 * n + 1
    BY <1>1, <2>1
  <2>3. 2 * k - 1 = 2 * (k - 1) + 1
    BY <2>1
  <2>4. {m \in 2 .. 2 * k - 1 : text[m] = "/"} = Slashes(k - 1)
    BY <1>1, <2>2, <2>3 DEF Slashes
  <2> QED BY <1>1, <2>1, <2>4, SlashesCount
<1>3. here = {at}
  <2>1. at \in 2 .. 2 * n + 1 /\ at % 2 # 1
    BY <1>1
  <2>2. before(at) = level
    <3>1. before(2 * (level + 1)) = (level + 1) - 1
      BY <1>1, <1>2
    <3> QED BY <1>1, <3>1
  <2>3. ASSUME NEW j \in here PROVE j = at
    <3>1. j \in 2 .. 2 * n + 1 /\ j % 2 # 1 /\ before(j) = level
      BY <1>1, <2>3
    <3> DEFINE k == j \div 2
    <3>2. k \in 1 .. n /\ j = 2 * k
      BY <1>1, <3>1
    <3> HIDE DEF k
    <3>3. before(j) = k - 1
      BY <1>2, <3>2
    <3> QED BY <1>1, <3>1, <3>2, <3>3
  <2>4. at \in here
    BY <1>1, <2>1, <2>2
  <2> HIDE DEF here
  <2> QED BY <2>3, <2>4
<1>4. text[at] = names[level + 1]
  BY <1>1
<1> HIDE DEF at
<1>5. L!GetSubstring(text, level) = text[at]
  BY <1>3, SubstringOf
<1> QED BY <1>4, <1>5 DEF text

\* The directories from the root on along the names of a path.
Leads(d, names) ==
  /\ DOMAIN d = 0 .. Len(names) /\ d[0] = Root
  /\ \A k \in 1 .. Len(names) : d[k] = L!SubDir(d[k - 1], names[k])

LEMMA WalkIs ==
  ASSUME NEW names \in Seq(Names), "/" \notin Names, NEW d, Leads(d, names)
  PROVE  L!Walk(PathText(names)) = d[Len(names)]
<1> DEFINE n == Len(names)
           text == PathText(names)
           W(h) == h = [level \in 0 .. n |->
                          IF level = 0 THEN Root
                          ELSE L!SubDir(h[level - 1], L!GetSubstring(text, level - 1))]
           before == CHOOSE h : W(h)
           e == [level \in 0 .. n |-> d[level]]
<1>1. n \in Nat /\ (n - 1) + 1 = n /\ L!TotalPathLevels(text) = n - 1
  BY LevelsAre, PathTextIs
<1>2. \A level \in 1 .. n : L!GetSubstring(text, level - 1) = names[level]
  <2> SUFFICES ASSUME NEW level \in 1 .. n PROVE L!GetSubstring(text, level - 1) = names[level]
    OBVIOUS
  <2> DEFINE m == level - 1
  <2>1. m \in 0 .. n - 1 /\ m + 1 = level
    BY <1>1
  <2> HIDE DEF m
  <2>2. L!GetSubstring(text, m) = names[m + 1]
    BY <2>1, SubstringIs
  <2> QED BY <2>1, <2>2 DEF m
<1>3. L!Walk(text) = before[n]
  <2> HIDE DEF n, text
  <2>1. L!TotalPathLevels(text) + 1 = n
    BY <1>1
  <2> QED BY <2>1 DEF L!Walk
<1> HIDE DEF text
<1>4. d[0] = Root /\ \A k \in 1 .. n : d[k] = L!SubDir(d[k - 1], names[k])
  BY DEF Leads
<1> HIDE DEF n
<1>5. W(e)
  <2>1. ASSUME NEW level \in 0 .. n, level # 0
        PROVE  e[level] = L!SubDir(e[level - 1], L!GetSubstring(text, level - 1))
    <3>1. level \in 1 .. n /\ level - 1 \in 0 .. n
      BY <1>1, <2>1
    <3> QED BY <1>2, <1>4, <3>1
  <2>2. 0 \in 0 .. n => e[0] = Root
    BY <1>4
  <2> DEFINE g == [level \in 0 .. n |->
                     IF level = 0 THEN Root
                     ELSE L!SubDir(e[level - 1], L!GetSubstring(text, level - 1))]
  <2>3. \A level \in 0 .. n : e[level] = g[level]
    BY <2>1, <2>2
  <2>4. e = [level \in 0 .. n |-> e[level]] /\ g = [level \in 0 .. n |-> g[level]]
    OBVIOUS
  <2>5. e = g
    <3> HIDE DEF e, g
    <3> QED BY <2>3, <2>4
  <2> QED BY <2>5
<1>6. W(before)
  <2> HIDE DEF W, e
  <2> QED BY <1>5
<1> HIDE DEF before
<1> DEFINE good == {m \in 0 .. n : before[m] = d[m]}
<1>7. 0 \in good
  <2>1. 0 \in 0 .. n
    BY <1>1
  <2>2. before[0] = Root
    BY <1>6, <2>1
  <2> QED BY <1>4, <2>1, <2>2
<1>8. ASSUME NEW m \in 1 .. n, m - 1 \in good PROVE m \in good
  <2>1. m \in 0 .. n /\ m # 0
    BY <1>1
  <2>2. before[m] = L!SubDir(before[m - 1], L!GetSubstring(text, m - 1))
    BY <1>6, <2>1
  <2>3. before[m] = L!SubDir(d[m - 1], names[m])
    BY <1>2, <1>8, <2>2
  <2> QED BY <1>4, <2>1, <2>3
<1> HIDE DEF good
<1>9. n \in good
  <2>1. \A k \in 0 .. n : k \in good
    BY <1>1, <1>7, <1>8, CarriedOn
  <2> QED BY <1>1, <2>1
<1> QED BY <1>3, <1>9 DEF good, n, text

-----------------------------------------------------------------------------
(* What a path finds on a card that is a tree.                             *)

LEMMA RecordAtTyped ==
  ASSUME NEW c \in Heads, NEW p \in Positions(c)
  PROVE  RecordAt(c, p) \in Record
<1> DEFINE n == p \div EntriesPerSector
           q == n \div SectorsPerCluster
<1>1. p \in Nat /\ n \in Nat /\ q \in 0 .. MaxChain
  BY ClusterOfPosition
<1>2. Chain[c][q] \in Clusters
  <2>1. Chain[c][q] # LAST
    BY DEF Positions
  <2> HIDE DEF q
  <2> QED BY <1>1, <2>1, Chains DEF Heads
<1>3. p % EntriesPerSector \in Items
  BY <1>1, Sizes, Divides DEF Items
<1>4. n % SectorsPerCluster \in 0 .. SectorsPerCluster - 1
  <2> HIDE DEF n
  <2> QED BY <1>1, Sizes, Divides
<1>5. RecordAt(c, p) = Card[Chain[c][q]][n % SectorsPerCluster][p % EntriesPerSector]
  BY DEF RecordAt
<1>6. PICK k \in Clusters, m \in 0 .. SectorsPerCluster - 1, j \in Items :
        RecordAt(c, p) = Card[k][m][j]
  <2> HIDE DEF q, n
  <2> QED BY <1>2, <1>3, <1>4, <1>5
<1>7. Card[k] \in [0 .. SectorsPerCluster - 1 -> [Items -> Record]]
  BY FatAssumption
<1>8. Card[k][m] \in [Items -> Record]
  BY <1>7
<1> QED BY <1>6, <1>8

\* The entries are in front of the end.
LEMMA EntriesListed ==
  ASSUME NothingBehindEnd, NEW c \in Clusters, NEW p \in Positions(c),
         RecordAt(c, p).kind = "entry"
  PROVE  p \in Listed(c)
BY DEF NothingBehindEnd, Listed

\* Of a name that some subdirectory has, the walk takes the first record.
LEMMA FirstOfName ==
  ASSUME NothingBehindEnd, NEW c \in Clusters, NEW p \in SubDirs(c)
  PROVE  \E h \in Positions(c) :
           /\ RecordAt(c, h).kind = "entry"
           /\ L!SubDir(c, RecordAt(c, p).name) =
                IF RecordAt(c, h).is_dir THEN RecordAt(c, h).cluster ELSE LAST
<1> DEFINE name == RecordAt(c, p).name
           T == {q \in Listed(c) : RecordAt(c, q).name = name}
<1>1. p \in Positions(c) /\ RecordAt(c, p).kind = "entry"
  BY DEF SubDirs
<1>2. p \in T
  BY <1>1, EntriesListed
<1>3. T \in SUBSET Nat
  BY ListedAre
<1>4. PICK h \in T : \A q \in T : h <= q
  <2> HIDE DEF T
  <2> QED BY <1>2, <1>3, LeastNumber
<1>5. \A q \in Listed(c) : q < h => RecordAt(c, q).name # name
  <2> SUFFICES ASSUME NEW q \in Listed(c), q < h, q \in T PROVE FALSE
    OBVIOUS
  <2>1. q \in Nat /\ h \in Nat /\ h <= q
    BY <1>3, <1>4
  <2> QED BY <2>1
<1>6. h \in Listed(c) /\ RecordAt(c, h).name = name /\ h \in Positions(c)
      /\ RecordAt(c, h).kind = "entry"
  BY <1>4 DEF Listed
<1> HIDE DEF T, name
<1>7. L!SubDir(c, name) = IF RecordAt(c, h).is_dir THEN RecordAt(c, h).cluster ELSE LAST
  BY <1>5, <1>6, SubDirIs
<1> QED BY <1>6, <1>7 DEF name

\* A level of the path that has a directory on the card.
OnCard(c, name) == c \in Clusters /\ \E p \in SubDirs(c) : RecordAt(c, p).name = name

LEMMA LevelBelow ==
  ASSUME NothingBehindEnd, NEW c, NEW name, OnCard(c, name),
         NEW level, \A b \in Clusters : \A p \in SubDirs(b) :
                      level[RecordAt(b, p).cluster] = level[b] + 1,
         L!SubDir(c, name) \in Clusters
  PROVE  level[L!SubDir(c, name)] = level[c] + 1
<1>1. PICK p \in SubDirs(c) : RecordAt(c, p).name = name
  BY DEF OnCard
<1>2. c \in Clusters
  BY DEF OnCard
<1>3. PICK h \in Positions(c) :
        /\ RecordAt(c, h).kind = "entry"
        /\ L!SubDir(c, name) = IF RecordAt(c, h).is_dir THEN RecordAt(c, h).cluster ELSE LAST
  BY <1>1, <1>2, FirstOfName
<1>4. h \in SubDirs(c) /\ L!SubDir(c, name) = RecordAt(c, h).cluster
  BY <1>3, Sizes DEF SubDirs
<1> QED BY <1>2, <1>4

\* The directories of a path that the browser can have come along.
Walked(d, names) ==
  /\ names \in Seq(Names) /\ Leads(d, names)
  /\ \A k \in 1 .. Len(names) : OnCard(d[k - 1], names[k])

LEMMA PathsBounded ==
  ASSUME TreeOnCard, NEW d, NEW names, Walked(d, names)
  PROVE  Len(names) \in 0 .. Depth
<1> DEFINE n == Len(names)
<1>1. n \in Nat /\ d[0] = Root /\ Depth \in Nat
      /\ \A k \in 1 .. n : d[k] = L!SubDir(d[k - 1], names[k]) /\ OnCard(d[k - 1], names[k])
  <2>1. n \in Nat
    BY DEF Walked
  <2>2. Depth \in Nat
    BY DEF TreeOnCard
  <2>3. d[0] = Root /\ \A k \in 1 .. n : d[k] = L!SubDir(d[k - 1], names[k])
    BY DEF Walked, Leads
  <2>4. \A k \in 1 .. n : OnCard(d[k - 1], names[k])
    BY DEF Walked
  <2> QED BY <2>1, <2>2, <2>3, <2>4
<1> HIDE DEF n
<1>2. PICK level \in [Clusters -> 0 .. Depth] :
        /\ level[Root] = 0
        /\ \A c \in Clusters : \A p \in SubDirs(c) :
             level[RecordAt(c, p).cluster] = level[c] + 1
  BY DEF TreeOnCard, DirectoriesAreTree
<1> DEFINE good == {k \in 0 .. n : k < n => level[d[k]] = k}
<1>3. 0 \in good
  BY <1>1, <1>2
<1>4. ASSUME NEW k \in 1 .. n, k - 1 \in good PROVE k \in good
  <2>1. k \in 0 .. n /\ k - 1 < n /\ level[d[k - 1]] = k - 1
    BY <1>1, <1>4
  <2>2. SUFFICES ASSUME k < n PROVE level[d[k]] = k
    BY <2>1
  <2> DEFINE m == k + 1
  <2>3. m \in 1 .. n /\ m - 1 = k
    BY <1>1, <2>1, <2>2
  <2>4. OnCard(d[m - 1], names[m])
    BY <1>1, <2>3
  <2>5. d[k] \in Clusters
    BY <2>3, <2>4 DEF OnCard
  <2>6. d[k] = L!SubDir(d[k - 1], names[k]) /\ OnCard(d[k - 1], names[k])
    BY <1>1
  <2> DEFINE c == d[k - 1]
             b == d[k]
  <2>7. level[b] = level[c] + 1
    <3>1. OnCard(c, names[k]) /\ b = L!SubDir(c, names[k]) /\ b \in Clusters
      BY <2>5, <2>6
    <3> HIDE DEF b, c
    <3> QED BY <1>2, <3>1, LevelBelow DEF TreeOnCard
  <2>8. level[b] = (k - 1) + 1
    BY <2>1, <2>7
  <2> QED BY <1>1, <2>1, <2>8
<1> HIDE DEF good
<1>5. \A k \in 0 .. n : k \in good
  BY <1>1, <1>3, <1>4, CarriedOn
<1>6. CASE n = 0
  BY <1>1, <1>6 DEF n
<1>7. CASE n # 0
  <2> DEFINE m == n - 1
  <2>1. m \in 0 .. n /\ n \in 1 .. n /\ m < n
    BY <1>1, <1>7
  <2>2. level[d[m]] = m /\ OnCard(d[m], names[n])
    BY <1>1, <1>5, <2>1 DEF good
  <2> DEFINE c == d[m]
  <2>3. PICK p \in SubDirs(c) : RecordAt(c, p).name = names[n]
    BY <2>2 DEF OnCard
  <2>4. c \in Clusters /\ level[c] = m
    BY <2>2 DEF OnCard
  <2> HIDE DEF c, m
  <2>5. level[RecordAt(c, p).cluster] = m + 1
    BY <1>2, <2>4
  <2>6. RecordAt(c, p).cluster \in Clusters
    <3>1. RecordAt(c, p) \in Record
      BY <2>4, RecordAtTyped DEF SubDirs, Heads
    <3> QED BY <3>1 DEF Record
  <2>7. m + 1 \in 0 .. Depth /\ m + 1 = n
    BY <1>1, <1>2, <2>5, <2>6 DEF m
  <2> QED BY <2>7 DEF n
<1> QED BY <1>6, <1>7

\* Every such path may be asked for, and the walk of the tree ends where its
\* directories end.
LEMMA WalkedPaths ==
  ASSUME TreeOnCard, NEW d, NEW names, Walked(d, names), d[Len(names)] \in Heads
  PROVE  /\ names \in UNION {[1 .. n -> Names] : n \in 0 .. Depth}
         /\ L!OpenDirectory(PathText(names)) = d[Len(names)]
<1>1. Len(names) \in 0 .. Depth
  BY PathsBounded
<1>2. names \in [1 .. Len(names) -> Names]
  BY DEF Walked
<1>3. L!Walk(PathText(names)) = d[Len(names)]
  BY WalkIs DEF Walked, TreeOnCard
<1>4. L!OpenDirectory(PathText(names)) =
        IF L!Walk(PathText(names)) \in Clusters THEN L!Walk(PathText(names)) ELSE LAST
  BY DEF L!OpenDirectory
<1>5. L!OpenDirectory(PathText(names)) = d[Len(names)]
  BY <1>3, <1>4 DEF Heads
<1> QED BY <1>1, <1>2, <1>5

-----------------------------------------------------------------------------
(* The path walk on the card.                                              *)

\* Levels of the path already walked.
Level == Len(path) - Len(walk)

\* No entry in front of a sector of the first cluster has the name.
NotBefore(c, n, name) ==
  \A p \in Positions(c) :
    p < n * EntriesPerSector /\ RecordAt(c, p).kind = "entry" => RecordAt(c, p).name # name

\* The name of the level is looked for in the first cluster of its directory,
\* so that the walk does not need the cache.
Walking(d) ==
  /\ walk \in Seq(Names) /\ Len(walk) \in 1 .. Len(path)
  /\ \A j \in 1 .. Len(walk) : walk[j] = path[Level + j]
  /\ dir = d[Level] /\ chain = dir /\ i = 0
  /\ x \in 0 .. SectorsPerCluster - 1
  /\ NotBefore(dir, x, walk[1])
  /\ pc = "scan" => currentsector = << dir, x >>

\* d are the directories of the path; the listing is of the last one, or a walk
\* is on its way to it.
Along(d) ==
  /\ Walked(d, path)
  /\ pc = "idle" \/ call = "list" => dirls.cluster = d[Len(path)]
  /\ pc # "idle" /\ call = "browse" => Walking(d)

\* The invariant of the path walk: while browsing, the path leads along
\* directories of the card.
WalksOnPath ==
  /\ pc # "idle" /\ call = "browse" => phase = "browse"
  /\ phase = "browse" => \E d : Along(d)

\* The paths that enter_sub_dir makes lead along directories of the card.
LEMMA RootWalked ==
  Walked([k \in 0 .. 0 |-> Root], << >>)
<1> DEFINE d == [k \in 0 .. 0 |-> Root]
<1>1. DOMAIN d = 0 .. Len(<< >>) /\ d[0] = Root
  OBVIOUS
<1>2. << >> \in Seq(Names) /\ 1 .. Len(<< >>) = {}
  OBVIOUS
<1> HIDE DEF d
<1>3. Walked(d, << >>)
  BY <1>1, <1>2 DEF Walked, Leads
<1> QED BY <1>3 DEF d

LEMMA DownWalked ==
  ASSUME NEW d, NEW names, Walked(d, names), NEW c \in Clusters, c = d[Len(names)],
         NEW p \in SubDirs(c)
  PROVE  \E e : Walked(e, Append(names, RecordAt(c, p).name))
<1> DEFINE n == Len(names)
           name == RecordAt(c, p).name
           longer == Append(names, name)
           e == [k \in 0 .. n + 1 |-> IF k <= n THEN d[k] ELSE L!SubDir(c, name)]
<1>1. n \in Nat /\ names \in Seq(Names)
  BY DEF Walked
<1>2. name \in Names
  <2>1. RecordAt(c, p) \in Record
    BY RecordAtTyped DEF SubDirs, Heads
  <2> QED BY <2>1 DEF Record
<1>3. OnCard(c, name)
  BY DEF OnCard
<1> HIDE DEF name
<1>4. /\ longer \in Seq(Names) /\ Len(longer) = n + 1 /\ longer[n + 1] = name
      /\ \A k \in 1 .. n : longer[k] = names[k]
  BY <1>1, <1>2
<1>5. d[0] = Root /\ \A k \in 1 .. n : d[k] = L!SubDir(d[k - 1], names[k])
  BY DEF Walked, Leads
<1>6. \A k \in 1 .. n : OnCard(d[k - 1], names[k])
  BY DEF Walked
<1>7. c = d[n]
  OBVIOUS
<1> HIDE DEF n, longer
<1>8. DOMAIN e = 0 .. n + 1 /\ e[n + 1] = L!SubDir(c, name) /\ \A k \in 0 .. n : e[k] = d[k]
  BY <1>1
<1> HIDE DEF e
<1>9. ASSUME NEW k \in 1 .. n + 1
      PROVE  e[k] = L!SubDir(e[k - 1], longer[k]) /\ OnCard(e[k - 1], longer[k])
  <2>1. CASE k \in 1 .. n
    <3>1. k \in 0 .. n /\ k - 1 \in 0 .. n
      BY <1>1, <2>1
    <3>2. e[k] = d[k] /\ e[k - 1] = d[k - 1] /\ longer[k] = names[k]
      BY <1>4, <1>8, <2>1, <3>1
    <3> QED BY <1>5, <1>6, <2>1, <3>2
  <2>2. CASE k = n + 1
    <3>1. k - 1 = n /\ n \in 0 .. n
      BY <1>1, <2>2
    <3>2. e[k - 1] = c /\ longer[k] = name /\ e[k] = L!SubDir(c, name)
      BY <1>4, <1>7, <1>8, <2>2, <3>1
    <3> QED BY <1>3, <3>2
  <2> QED BY <1>1, <2>1, <2>2
<1>10. e[0] = Root
  BY <1>1, <1>5, <1>8
<1>11. Walked(e, longer)
  BY <1>4, <1>8, <1>9, <1>10 DEF Walked, Leads
<1> QED BY <1>11 DEF longer, name

LEMMA UpWalked ==
  ASSUME NEW d, NEW names, Walked(d, names), names # << >>
  PROVE  \E e : Walked(e, SubSeq(names, 1, Len(names) - 1))
<1> DEFINE n == Len(names) - 1
           shorter == SubSeq(names, 1, n)
           e == [k \in 0 .. n |-> d[k]]
<1>1. n \in Nat /\ Len(names) = n + 1 /\ names \in Seq(Names)
  BY DEF Walked
<1>2. /\ shorter \in Seq(Names) /\ Len(shorter) = n
      /\ \A k \in 1 .. n : shorter[k] = names[k]
  BY <1>1
<1>3. d[0] = Root /\ \A k \in 1 .. n + 1 : d[k] = L!SubDir(d[k - 1], names[k])
  BY <1>1 DEF Walked, Leads
<1>4. \A k \in 1 .. n + 1 : OnCard(d[k - 1], names[k])
  BY <1>1 DEF Walked
<1> HIDE DEF n, shorter
<1>5. DOMAIN e = 0 .. n /\ \A k \in 0 .. n : e[k] = d[k]
  OBVIOUS
<1> HIDE DEF e
<1>6. ASSUME NEW k \in 1 .. n
      PROVE  e[k] = L!SubDir(e[k - 1], shorter[k]) /\ OnCard(e[k - 1], shorter[k])
  <2>1. k \in 0 .. n /\ k - 1 \in 0 .. n /\ k \in 1 .. n + 1
    BY <1>1
  <2>2. e[k] = d[k] /\ e[k - 1] = d[k - 1] /\ shorter[k] = names[k]
    BY <1>2, <1>5, <2>1
  <2> QED BY <1>3, <1>4, <2>1, <2>2
<1>7. e[0] = Root
  BY <1>1, <1>3, <1>5
<1>8. Walked(e, shorter)
  BY <1>2, <1>5, <1>6, <1>7 DEF Walked, Leads
<1> QED BY <1>8 DEF shorter, n

\* fl_list_opendir starts at the root.
LEMMA OpendirOnPath ==
  ASSUME IInv, WalksOnPath, Opendir
  PROVE  WalksOnPath'
<1>1. /\ phase \in {"start", "browse"} /\ pc = "idle" /\ phase' = "browse" /\ call' = "browse"
      /\ path' \in NextPaths /\ walk' = path'
  BY DEF Opendir, IInv, TypeOK
<1>2. \E d : Walked(d, path')
  <2>1. CASE path' = << >>
    BY <2>1, RootWalked
  <2>2. CASE path' # << >>
    <3>1. phase = "browse"
      BY <1>1, <2>2 DEF NextPaths
    <3>2. PICK d : Walked(d, path) /\ dirls.cluster = d[Len(path)]
      BY <1>1, <3>1 DEF WalksOnPath, Along
    <3>3. CASE path' \in {Append(path, n) : n \in {RecordAt(dirls.cluster, p).name :
                                                     p \in SubDirs(dirls.cluster)}}
      <4>1. PICK p \in SubDirs(dirls.cluster) :
              path' = Append(path, RecordAt(dirls.cluster, p).name)
        BY <3>3
      <4>2. dirls.cluster \in Clusters
        <5>1. dirls.cluster \in Heads
          BY DEF IInv, TypeOK, Status, Heads
        <5>2. dirls.cluster # LAST
          BY <4>1, NoPositions DEF SubDirs
        <5> QED BY <5>1, <5>2 DEF Heads
      <4> QED BY <3>2, <4>1, <4>2, DownWalked
    <3>4. CASE path' \in {SubSeq(path, 1, Len(path) - 1) :
                            up \in IF path = << >> \/ dirls.cluster = LAST THEN {} ELSE {1}}
      <4>1. path # << >> /\ path' = SubSeq(path, 1, Len(path) - 1)
        BY <3>4
      <4> QED BY <3>2, <4>1, UpWalked
    <3> QED BY <1>1, <3>1, <3>3, <3>4 DEF NextPaths
  <2> QED BY <2>1, <2>2
<1>3. PICK d : Walked(d, path')
  BY <1>2
<1>4. path' \in Seq(Names) /\ d[0] = Root
  BY <1>3 DEF Walked, Leads
<1>5. CASE path' = << >>
  <2>1. pc' = "idle" /\ dirls'.cluster = Root
    BY <1>5 DEF Opendir, StartListing
  <2>2. Along(d)'
    BY <1>3, <1>4, <1>5, <2>1 DEF Along
  <2> QED BY <2>1, <2>2 DEF WalksOnPath
<1>6. CASE path' # << >>
  <2>1. /\ pc' = "follow" /\ dir' = Root /\ x' = 0 /\ chain' = Root /\ i' = 0
    BY <1>6 DEF Opendir, ReadSectorOf
  <2> DEFINE n == Len(path')
  <2>2. n \in Nat /\ n \in 1 .. n /\ n - n = 0 /\ \A j \in 1 .. n : 0 + j = j
    BY <1>4, <1>6
  <2>3. Level' = 0
    <3>1. Level' = n - n
      BY <1>1 DEF Level
    <3> QED BY <2>2, <3>1
  <2>4. \A j \in 1 .. Len(walk') : walk'[j] = path'[Level' + j]
    BY <1>1, <2>2, <2>3
  <2>5. \A name : NotBefore(Root, 0, name)
    <3>1. \A p \in Positions(Root) : p \in Nat
      BY ClusterOfPosition
    <3>2. 0 * EntriesPerSector = 0
      BY Sizes
    <3> QED BY <3>1, <3>2 DEF NotBefore
  <2>6. 0 \in 0 .. SectorsPerCluster - 1
    BY Sizes
  <2>7. Walking(d)'
    BY <1>1, <1>4, <2>1, <2>2, <2>3, <2>4, <2>5, <2>6 DEF Walking
  <2>8. Along(d)'
    BY <1>1, <1>3, <2>1, <2>7 DEF Along
  <2> QED BY <1>1, <2>8 DEF WalksOnPath
<1> QED BY <1>5, <1>6

\* Where the walk is.
LEMMA LevelOfWalk ==
  ASSUME NEW d, Walked(d, path), Walking(d)
  PROVE  /\ Level \in Nat /\ Len(path) = Level + Len(walk) /\ Len(walk) \in Nat \ {0}
         /\ dir = d[Level] /\ dir \in Clusters /\ OnCard(dir, walk[1])
         /\ d[Level + 1] = L!SubDir(dir, walk[1])
         /\ \A k \in 1 .. Len(path) : d[k - 1] \in Clusters
<1> DEFINE n == Len(path)
           m == Len(walk)
           k == n - m
<1>1. n \in Nat /\ m \in 1 .. n
  BY DEF Walked, Walking
<1>2. Level = k /\ dir = d[k] /\ \A j \in 1 .. m : walk[j] = path[k + j]
  BY DEF Walking, Level
<1>3. \A j \in 1 .. n : d[j] = L!SubDir(d[j - 1], path[j]) /\ OnCard(d[j - 1], path[j])
  BY DEF Walked, Leads
<1> HIDE DEF n, m
<1>4. k \in Nat /\ n = k + m /\ m \in Nat \ {0} /\ k + 1 \in 1 .. n /\ (k + 1) - 1 = k /\ 1 \in 1 .. m
  BY <1>1
<1> HIDE DEF k
<1>5. walk[1] = path[k + 1]
  BY <1>2, <1>4
<1>6. d[k + 1] = L!SubDir(dir, walk[1]) /\ OnCard(dir, walk[1])
  <2> DEFINE j == k + 1
  <2>1. j \in 1 .. n /\ j - 1 = k
    BY <1>4
  <2>2. d[j] = L!SubDir(d[j - 1], path[j]) /\ OnCard(d[j - 1], path[j])
    BY <1>3, <2>1
  <2> QED BY <1>2, <1>5, <2>1, <2>2
<1>7. \A j \in 1 .. n : d[j - 1] \in Clusters
  BY <1>3 DEF OnCard
<1> QED BY <1>2, <1>4, <1>6, <1>7 DEF OnCard, n, m

\* The records in the working buffer are those of the directory.
LEMMA WalkedSector ==
  ASSUME NEW d, Walked(d, path), Walking(d), pc = "scan"
  PROVE  /\ \A j \in Items : /\ x * EntriesPerSector + j \in Positions(dir)
                             /\ RecordAt(dir, x * EntriesPerSector + j) = Records[j]
         /\ \A p \in Positions(dir) :
              x * EntriesPerSector <= p /\ p < (x + 1) * EntriesPerSector =>
                p - x * EntriesPerSector \in Items
<1>1. dir \in Clusters /\ x \in 0 .. SectorsPerCluster - 1 /\ currentsector = << dir, x >>
  BY LevelOfWalk DEF Walking
<1>2. x \in Nat /\ x \div SectorsPerCluster = 0 /\ x % SectorsPerCluster = x
  <2>1. x \in Nat /\ x = 0 * SectorsPerCluster + x
    BY <1>1, Sizes
  <2> QED BY <1>1, <2>1, Sizes, DividedIs
<1>3. Records = Card[dir][x]
  BY <1>1 DEF Records
<1>4. Chain[dir][0] = dir /\ dir # LAST /\ 0 \in 0 .. MaxChain /\ dir \in Heads
  BY <1>1, Chains, Sizes DEF Heads
<1>5. ASSUME NEW j \in Items
      PROVE  /\ x * EntriesPerSector + j \in Positions(dir)
             /\ RecordAt(dir, x * EntriesPerSector + j) = Records[j]
  <2>1. j \in 0 .. EntriesPerSector - 1
    BY DEF Items
  <2>2. /\ x * EntriesPerSector + j \in Positions(dir)
        /\ RecordAt(dir, x * EntriesPerSector + j) =
             Card[Chain[dir][x \div SectorsPerCluster]][x % SectorsPerCluster][j]
    BY <1>2, <1>4, <2>1, PositionsOfSector
  <2> QED BY <1>2, <1>3, <1>4, <2>2
<1>6. ASSUME NEW p \in Positions(dir), x * EntriesPerSector <= p,
             p < (x + 1) * EntriesPerSector
      PROVE  p - x * EntriesPerSector \in Items
  <2> DEFINE s == x * EntriesPerSector
  <2>1. s \in Nat /\ (x + 1) * EntriesPerSector = s + EntriesPerSector /\ p \in Nat
    BY <1>2, Sizes, ClusterOfPosition
  <2> HIDE DEF s
  <2>2. p - s \in 0 .. EntriesPerSector - 1
    BY <1>6, <2>1, Sizes DEF s
  <2> QED BY <2>2 DEF s, Items
<1> QED BY <1>5, <1>6

\* A sector without the name is left behind, and then there is another one in
\* the cluster.
LEMMA NotInSector ==
  ASSUME NEW d, Walked(d, path), Walking(d), pc = "scan", Hits = {}
  PROVE  NotBefore(dir, x + 1, walk[1])
<1> SUFFICES ASSUME NEW p \in Positions(dir), p < (x + 1) * EntriesPerSector,
                    RecordAt(dir, p).kind = "entry", RecordAt(dir, p).name = walk[1]
             PROVE  FALSE
  BY DEF NotBefore
<1> DEFINE s == x * EntriesPerSector
<1>1. s \in Nat /\ p \in Nat /\ ~ (p < s)
  <2>1. x \in Nat
    BY Sizes DEF Walking
  <2>2. ~ (p < x * EntriesPerSector)
    BY DEF Walking, NotBefore
  <2> QED BY <2>1, <2>2, Sizes, ClusterOfPosition
<1>2. s <= p
  <2> HIDE DEF s
  <2> QED BY <1>1
<1>3. p - s \in Items
  BY <1>2, WalkedSector
<1>4. RecordAt(dir, p) = Records[p - s]
  <2> DEFINE j == p - s
  <2>1. s + j = p
    <3> HIDE DEF s
    <3> QED BY <1>1
  <2>2. RecordAt(dir, s + j) = Records[j]
    BY <1>3, WalkedSector
  <2> QED BY <2>1, <2>2
<1>5. walk # << >> /\ Head(walk) = walk[1]
  BY DEF Walking
<1>6. p - s \in Hits
  BY <1>3, <1>4, <1>5 DEF Hits
<1> QED BY <1>6

\* What the walk finds is the subdirectory of the tree, if it is one.
LEMMA HitIsSubDir ==
  ASSUME TypeOK, TreeOnCard, NEW d, Walked(d, path), Walking(d), pc = "scan", Hits # {}
  PROVE  /\ d[Level + 1] = IF Hit.is_dir THEN Hit.cluster ELSE LAST
         /\ Hit.cluster \in Clusters
<1> DEFINE s == x * EntriesPerSector
<1>1. Hits \in SUBSET Nat /\ Hits \subseteq Items
  BY Sizes DEF Hits, Items
<1>2. \E m \in Hits : \A k \in Hits : m <= k
  <2> DEFINE T == Hits
  <2>1. T \in SUBSET Nat /\ T # {}
    BY <1>1
  <2> HIDE DEF T
  <2>2. \E m \in T : \A k \in T : m <= k
    BY <2>1, LeastNumber
  <2> QED BY <2>2 DEF T
<1>3. PICK m \in Hits : Hit = Records[m] /\ \A k \in Hits : m <= k
  BY <1>2 DEF Hit
<1>4. /\ m \in Items /\ Records[m].kind = "entry" /\ Records[m].name = walk[1] /\ m \in Nat
      /\ Head(walk) = walk[1]
  <2>1. walk # << >> /\ Head(walk) = walk[1]
    BY DEF Walking
  <2> QED BY <1>1, <2>1 DEF Hits
<1>5. s \in Nat
  <2>1. x \in Nat
    BY Sizes DEF Walking
  <2> QED BY <2>1, Sizes
<1> DEFINE h == s + m
<1>6. h \in Positions(dir) /\ RecordAt(dir, h) = Hit
  BY <1>3, <1>4, WalkedSector
<1>7. dir \in Clusters /\ d[Level + 1] = L!SubDir(dir, walk[1])
  BY LevelOfWalk
<1>8. h \in Listed(dir)
  BY <1>3, <1>4, <1>6, <1>7, EntriesListed DEF TreeOnCard
<1>9. ASSUME NEW q \in Listed(dir), q < h PROVE RecordAt(dir, q).name # walk[1]
  <2>1. q \in Positions(dir) /\ q \in Nat /\ RecordAt(dir, q).kind = "entry"
    BY ListedAre DEF Listed
  <2>2. SUFFICES ASSUME RecordAt(dir, q).name = walk[1] PROVE FALSE
    OBVIOUS
  <2>3. ~ (q < s)
    BY <2>1, <2>2 DEF Walking, NotBefore
  <2> DEFINE j == q - s
  <2>4. s <= q /\ q < (x + 1) * EntriesPerSector
    <3>1. (x + 1) * EntriesPerSector = s + EntriesPerSector /\ m <= EntriesPerSector - 1
      <4>1. x \in Nat
        BY Sizes DEF Walking
      <4> QED BY <1>4, <4>1, Sizes DEF Items
    <3> HIDE DEF s
    <3> QED BY <1>4, <1>5, <1>9, <2>1, <2>3, <3>1, Sizes
  <2>5. j \in Items
    BY <2>1, <2>4, WalkedSector
  <2>6. s + j = q /\ j < m
    <3> HIDE DEF s
    <3> QED BY <1>4, <1>5, <1>9, <2>1
  <2>7. RecordAt(dir, s + j) = Records[j]
    BY <2>5, WalkedSector
  <2>8. j \in Hits
    BY <1>4, <2>1, <2>2, <2>5, <2>6, <2>7 DEF Hits
  <2>9. m <= j /\ j \in Nat
    BY <1>1, <1>3, <2>8
  <2> HIDE DEF j
  <2> QED BY <1>4, <2>6, <2>9
<1> HIDE DEF h
<1>10. L!SubDir(dir, walk[1]) = IF RecordAt(dir, h).is_dir THEN RecordAt(dir, h).cluster ELSE LAST
  <2>1. RecordAt(dir, h).name = walk[1]
    BY <1>3, <1>4, <1>6
  <2> QED BY <1>7, <1>8, <1>9, <2>1, SubDirIs
<1>11. Hit.cluster \in Clusters
  BY HitTyped DEF Record
<1> QED BY <1>6, <1>7, <1>10, <1>11

-----------------------------------------------------------------------------
(* The steps of the walk.                                                  *)

\* What is no step of the walk leaves path and listing alone.
LEMMA RestOnPath ==
  ASSUME WalksOnPath, pc' = "idle" \/ call' # "browse",
         phase' = "browse" => /\ phase = "browse" /\ path' = path
                              /\ dirls'.cluster = dirls.cluster
                              /\ pc = "idle" \/ call = "list"
  PROVE  WalksOnPath'
<1>1. ASSUME phase' = "browse" PROVE \E d : Along(d)'
  <2>1. PICK d : Walked(d, path) /\ dirls.cluster = d[Len(path)]
    BY <1>1 DEF WalksOnPath, Along
  <2>2. Along(d)'
    BY <1>1, <2>1 DEF Along
  <2> QED BY <2>2
<1> QED BY <1>1 DEF WalksOnPath

LEMMA BrowseAlong ==
  ASSUME WalksOnPath, pc # "idle", call = "browse"
  PROVE  phase = "browse" /\ \E d : Walked(d, path) /\ Walking(d)
BY DEF WalksOnPath, Along

\* A step of the walk within the call.
LEMMA WalkGoesOn ==
  ASSUME NEW d, Walked(d, path), path' = path, phase' = "browse", pc' # "idle",
         call' = "browse", Walking(d)'
  PROVE  WalksOnPath'
<1>1. Along(d)'
  BY DEF Along
<1> QED BY <1>1 DEF WalksOnPath

\* The cache is not asked and the end of the chain not reached.
LEMMA WalkInFirstCluster ==
  ASSUME WalksOnPath, pc # "idle", call = "browse"
  PROVE  ClusterIndex = 0 /\ i = 0 /\ chain \in Clusters
<1>1. PICK d : Walked(d, path) /\ Walking(d)
  BY BrowseAlong
<1>2. i = 0 /\ chain = dir /\ x \in 0 .. SectorsPerCluster - 1 /\ dir \in Clusters
  BY <1>1, LevelOfWalk DEF Walking
<1>3. x \in Nat /\ x = 0 * SectorsPerCluster + x
  BY <1>2, Sizes
<1>4. x \div SectorsPerCluster = 0
  BY <1>2, <1>3, Sizes, DividedIs
<1> QED BY <1>2, <1>4 DEF ClusterIndex

LEMMA ReaderOnPath == ASSUME IInv, WalksOnPath, Reader PROVE WalksOnPath'
<1>1. /\ pc = "follow" /\ pc' \in {"follow", "scan"}
      /\ UNCHANGED << phase, call, path, walk, dir, x, dirls >>
  BY DEF Reader, FollowCached, FollowFat, LoadSector, readerVars
<1>2. CASE call # "browse"
  <2>1. phase = "browse" => call = "list"
    BY <1>2 DEF IInv, TypeOK, FilesOutside
  <2> QED BY <1>1, <1>2, <2>1, RestOnPath
<1>3. CASE call = "browse"
  <2>1. ClusterIndex = 0 /\ i = 0 /\ chain \in Clusters
    BY <1>1, <1>3, WalkInFirstCluster
  <2>2. LoadSector
    BY <2>1 DEF Reader, FollowCached, FollowFat
  <2>3. /\ pc' = "scan" /\ currentsector' = << chain, x % SectorsPerCluster >>
        /\ UNCHANGED << chain, i >>
    BY <2>2 DEF LoadSector, SectorOfCluster, readerVars
  <2>4. PICK d : Walked(d, path) /\ Walking(d)
    BY <1>1, <1>3, BrowseAlong
  <2>5. x \in 0 .. SectorsPerCluster - 1 /\ chain = dir
    BY <2>4 DEF Walking
  <2>6. x % SectorsPerCluster = x
    <3>1. x \in Nat /\ x = 0 * SectorsPerCluster + x
      BY <2>5, Sizes
    <3> QED BY <2>5, <3>1, Sizes, DividedIs
  <2>7. Level' = Level
    BY <1>1 DEF Level
  <2>8. Walking(d)'
    BY <1>1, <2>3, <2>4, <2>5, <2>6, <2>7 DEF Walking
  <2>9. phase = "browse"
    BY <1>1, <1>3, BrowseAlong
  <2> QED BY <1>1, <1>3, <2>3, <2>4, <2>8, <2>9, WalkGoesOn
<1> QED BY <1>2, <1>3

LEMMA FindNextSectorOnPath ==
  ASSUME IInv, TreeOnCard, WalksOnPath, FindNextSector
  PROVE  WalksOnPath'
<1>1. /\ pc = "scan" /\ call # "list" /\ Hits = {} /\ pc' = "follow"
      /\ dir' = dir /\ x' = x + 1 /\ chain' = dir /\ i' = 0
      /\ UNCHANGED << phase, call, path, walk, dirls >>
  BY DEF FindNextSector, ReadSectorOf
<1>2. CASE call # "browse"
  <2>1. phase # "browse"
    BY <1>1, <1>2 DEF IInv, TypeOK, FilesOutside
  <2> QED BY <1>1, <1>2, <2>1, RestOnPath
<1>3. CASE call = "browse"
  <2>1. PICK d : Walked(d, path) /\ Walking(d)
    BY <1>1, <1>3, BrowseAlong
  <2>2. NotBefore(dir, x + 1, walk[1])
    BY <1>1, <2>1, NotInSector
  <2>3. PICK p \in SubDirs(dir) : RecordAt(dir, p).name = walk[1]
    BY <2>1, LevelOfWalk DEF OnCard
  <2>4. dir \in Clusters
    BY <2>1, LevelOfWalk
  <2>5. p \in Positions(dir) /\ RecordAt(dir, p).kind = "entry"
        /\ p < SectorsPerCluster * EntriesPerSector
    BY <2>3, <2>4 DEF SubDirs, TreeOnCard, SubDirsInFirstCluster
  <2>6. x \in Nat /\ x <= SectorsPerCluster - 1
    BY <2>1, Sizes DEF Walking
  <2>7. x + 1 # SectorsPerCluster
    BY <2>2, <2>3, <2>5 DEF NotBefore
  <2>8. x + 1 \in 0 .. SectorsPerCluster - 1
    BY <2>6, <2>7, Sizes
  <2>9. Level' = Level
    BY <1>1 DEF Level
  <2>10. Walking(d)'
    BY <1>1, <2>1, <2>2, <2>8, <2>9 DEF Walking
  <2>11. phase = "browse"
    BY <1>1, <1>3, BrowseAlong
  <2> QED BY <1>1, <1>3, <2>1, <2>10, <2>11, WalkGoesOn
<1> QED BY <1>2, <1>3

LEMMA FindDirOnPath ==
  ASSUME IInv, TreeOnCard, WalksOnPath, FindDir
  PROVE  WalksOnPath'
<1>1. /\ pc = "scan" /\ call # "list" /\ Hits # {} /\ Len(walk) > 1 /\ Hit.is_dir
      /\ walk' = Tail(walk) /\ pc' = "follow"
      /\ dir' = Hit.cluster /\ x' = 0 /\ chain' = Hit.cluster /\ i' = 0
      /\ UNCHANGED << phase, call, path, dirls >>
  BY DEF FindDir, ReadSectorOf, FoundDir
<1>2. CASE call # "browse"
  <2>1. phase # "browse"
    BY <1>1, <1>2 DEF IInv, TypeOK, FilesOutside
  <2> QED BY <1>1, <1>2, <2>1, RestOnPath
<1>3. CASE call = "browse"
  <2>1. PICK d : Walked(d, path) /\ Walking(d)
    BY <1>1, <1>3, BrowseAlong
  <2>2. d[Level + 1] = Hit.cluster /\ Hit.cluster \in Clusters
    BY <1>1, <2>1, HitIsSubDir DEF IInv
  <2>3. Level \in Nat /\ Len(path) = Level + Len(walk)
    BY <2>1, LevelOfWalk
  <2>4. walk \in Seq(Names) /\ \A j \in 1 .. Len(walk) : walk[j] = path[Level + j]
    BY <2>1 DEF Walking
  <2>5. /\ walk' \in Seq(Names) /\ Len(walk') = Len(walk) - 1
        /\ \A j \in 1 .. Len(walk') : walk'[j] = walk[j + 1] /\ j + 1 \in 1 .. Len(walk)
    <3> DEFINE t == Tail(walk)
    <3>1. t \in Seq(Names) /\ Len(t) = Len(walk) - 1 /\ \A j \in 1 .. Len(t) : t[j] = walk[j + 1]
      BY <1>1, <2>4
    <3>2. \A j \in 1 .. Len(t) : j + 1 \in 1 .. Len(walk)
      BY <2>4, <3>1
    <3> HIDE DEF t
    <3>3. walk' = t
      BY <1>1 DEF t
    <3> QED BY <3>1, <3>2, <3>3
  <2> DEFINE k == Level
             n == Len(path)
             m == Len(walk)
  <2>6. k \in Nat /\ n = k + m /\ m \in Nat /\ m > 1
    BY <1>1, <2>3, <2>4
  <2>7. Level' = k + 1
    <3>1. Level' = n - (m - 1)
      BY <1>1, <2>5 DEF Level
    <3> HIDE DEF k, n, m
    <3> QED BY <2>6, <3>1
  <2>8. Len(walk') \in 1 .. Len(path')
    <3>1. Len(walk') = m - 1 /\ path' = path
      BY <1>1, <2>5
    <3> HIDE DEF k, m
    <3>2. m - 1 \in 1 .. n
      <4> HIDE DEF n
      <4> QED BY <2>6
    <3> QED BY <3>1, <3>2
  <2>9. ASSUME NEW j \in 1 .. Len(walk') PROVE walk'[j] = path'[Level' + j]
    <3>1. walk'[j] = path[k + (j + 1)]
      BY <2>4, <2>5
    <3>2. k + (j + 1) = (k + 1) + j
      <4> HIDE DEF k
      <4> QED BY <2>6
    <3> QED BY <1>1, <2>7, <3>1, <3>2
  <2>10. NotBefore(dir', x', walk'[1])
    <3>1. \A p \in Positions(dir') : p \in Nat
      BY ClusterOfPosition
    <3>2. 0 * EntriesPerSector = 0
      BY Sizes
    <3> QED BY <1>1, <3>1, <3>2 DEF NotBefore
  <2>11. 0 \in 0 .. SectorsPerCluster - 1
    BY Sizes
  <2>12. Walking(d)'
    BY <1>1, <2>2, <2>5, <2>7, <2>8, <2>9, <2>10, <2>11 DEF Walking
  <2>13. phase = "browse"
    BY <1>1, <1>3, BrowseAlong
  <2> QED BY <1>1, <1>3, <2>1, <2>12, <2>13, WalkGoesOn
<1> QED BY <1>2, <1>3

\* The walk ends where the path does, or at its last name, which is no
\* directory: then the tree's walk ends with LAST as well.
LEMMA WalkEnds ==
  ASSUME IInv, TreeOnCard, WalksOnPath, call = "browse",
         NEW c \in Heads, StartListing(c), UNCHANGED << phase, path >>,
         pc = "scan", Hits # {}, c = IF Hit.is_dir THEN Hit.cluster ELSE LAST,
         Hit.is_dir => Len(walk) = 1
  PROVE  WalksOnPath' /\ phase = "browse" /\ \E d : Walked(d, path) /\ d[Len(path)] = c
<1>1. PICK d : Walked(d, path) /\ Walking(d)
  BY BrowseAlong
<1>2. d[Level + 1] = c
  BY <1>1, HitIsSubDir DEF IInv
<1>3. /\ Level \in Nat /\ Len(path) = Level + Len(walk) /\ Len(walk) \in Nat \ {0}
      /\ \A k \in 1 .. Len(path) : d[k - 1] \in Clusters
  BY <1>1, LevelOfWalk
<1>4. Len(walk) = 1
  <2>1. SUFFICES ASSUME ~ Hit.is_dir, Len(walk) # 1 PROVE FALSE
    OBVIOUS
  <2> DEFINE k == Level
             n == Len(path)
             m == Len(walk)
  <2>2. k \in Nat /\ n = k + m /\ m \in Nat \ {0} /\ m # 1
    BY <1>3, <2>1
  <2>3. \A j \in 1 .. n : d[j - 1] \in Clusters
    BY <1>3
  <2> HIDE DEF k, n, m
  <2>4. k + 2 \in 1 .. n /\ (k + 2) - 1 = k + 1
    BY <2>2
  <2>5. d[k + 1] \in Clusters
    BY <2>3, <2>4
  <2> QED BY <1>2, <2>1, <2>5, Sizes DEF k
<1>5. d[Len(path)] = c
  BY <1>2, <1>3, <1>4
<1>6. pc' = "idle" /\ dirls'.cluster = c
  BY DEF StartListing
<1>7. phase = "browse"
  BY BrowseAlong
<1>8. Along(d)'
  BY <1>1, <1>5, <1>6 DEF Along
<1> QED BY <1>1, <1>5, <1>6, <1>7, <1>8 DEF WalksOnPath

LEMMA FindLastEnds ==
  ASSUME IInv, TreeOnCard, WalksOnPath, FindLast, call = "browse"
  PROVE  Hit.cluster \in Heads /\ StartListing(Hit.cluster) /\ WalksOnPath' /\ phase = "browse"
         /\ \E d : Walked(d, path) /\ d[Len(path)] = Hit.cluster
<1>1. /\ pc = "scan" /\ Hits # {} /\ Len(walk) = 1 /\ Hit.is_dir
      /\ StartListing(Hit.cluster) /\ UNCHANGED << phase, path >>
  BY DEF FindLast
<1>2. Hit.cluster \in Heads
  BY <1>1, HitTyped DEF IInv, Record, Heads
<1> QED BY <1>1, <1>2, WalkEnds

LEMMA FindFailsEnds ==
  ASSUME IInv, TreeOnCard, WalksOnPath, FindFails, call = "browse"
  PROVE  StartListing(LAST) /\ WalksOnPath' /\ phase = "browse"
         /\ \E d : Walked(d, path) /\ d[Len(path)] = LAST
<1>1. ~ AtEndOfChain
  BY WalkInFirstCluster, Sizes DEF AtEndOfChain
<1>2. /\ pc = "scan" /\ Hits # {} /\ ~ Hit.is_dir
      /\ StartListing(LAST) /\ UNCHANGED << phase, path >>
  BY <1>1 DEF FindFails
<1>3. LAST \in Heads
  BY DEF Heads
<1> QED BY <1>2, <1>3, WalkEnds

LEMMA NextOnPath ==
  ASSUME IInv, TreeOnCard, WalksOnPath, [Next]_vars
  PROVE  WalksOnPath'
<1>1. CASE Reader
  BY <1>1, ReaderOnPath
<1>2. CASE List
  <2>1. /\ pc # "idle" /\ call = "list" /\ UNCHANGED << phase, path, call >>
        /\ dirls'.cluster = dirls.cluster
    <3>1. dirls \in Status
      BY DEF IInv, TypeOK
    <3> QED BY <1>2, <3>1
            DEF List, ListEntry, ListBlank, ListNextSector, ListEnd, AtEndOfChain, Status
  <2> QED BY <2>1, RestOnPath
<1>3. CASE FindNextSector \/ FindDir
  BY <1>3, FindNextSectorOnPath, FindDirOnPath
<1>4. CASE FindLast \/ FindFails
  <2>1. CASE call = "browse"
    BY <1>4, <2>1, FindLastEnds, FindFailsEnds
  <2>2. CASE call # "browse"
    <3>1. /\ call # "list" /\ UNCHANGED << phase, call >>
      BY <1>4 DEF FindLast, FindFails
    <3>2. phase # "browse"
      BY <2>2, <3>1 DEF IInv, TypeOK, FilesOutside
    <3> QED BY <2>2, <3>1, <3>2, RestOnPath
  <2> QED BY <2>1, <2>2
<1>5. CASE Readdir
  BY <1>5, RestOnPath DEF Readdir
<1>6. CASE Restore
  <2>1. dirls'.cluster = dirls.cluster
    BY <1>6 DEF Restore, IInv, StatusesReached
  <2> QED BY <1>6, <2>1, RestOnPath DEF Restore
<1>7. CASE Opendir
  BY <1>7, OpendirOnPath
<1>8. CASE Fopen
  <2>1. phase' # "browse" /\ call' = "file"
    BY <1>8 DEF Fopen
  <2> QED BY <2>1, RestOnPath
<1>9. CASE UNCHANGED vars
  BY <1>9 DEF vars, readerVars, WalksOnPath, Along, Walking, Level
<1> QED BY <1>1, <1>2, <1>3, <1>4, <1>5, <1>6, <1>7, <1>8, <1>9 DEF Next, Find

LEMMA InitOnPath == ASSUME Init PROVE WalksOnPath
BY DEF Init, WalksOnPath

-----------------------------------------------------------------------------
(* What the browser sees of the steps.                                     *)

\* The status and the result of the listing of the tree.
StatusOf(s) == [cluster |-> s.cluster, pos |-> Passed(Listed(s.cluster), Position(s))]
Shown ==
  CASE pc = "idle" /\ result.kind = "entry" ->
         [kind |-> "entry", entry |-> AsEntry(result.record)]
    [] pc = "idle" /\ result.kind = "end" -> [kind |-> "end"]
    [] OTHER -> [kind |-> "none"]

NothingShown == [kind |-> "none"]
Hidden == Shown' = NothingShown /\ StatusOf(dirls)' = StatusOf(dirls)

LEMMA ShowsNothing ==
  /\ pc # "idle" => Shown = NothingShown
  /\ pc' # "idle" => Shown' = NothingShown
  /\ result.kind \notin {"entry", "end"} => Shown = NothingShown
  /\ result'.kind \notin {"entry", "end"} => Shown' = NothingShown
BY DEF Shown, NothingShown

LEMMA Forgets ==
  ASSUME Hidden
  PROVE  L!Next
<1>1. L!Forget
  BY DEF Hidden, L!Forget, L!NoEntry, Shown, StatusOf, NothingShown
<1> QED BY <1>1 DEF L!Next

LEMMA StatusStays ==
  ASSUME dirls' = dirls
  PROVE  StatusOf(dirls)' = StatusOf(dirls)
BY DEF StatusOf, Position

\* A directory is opened that the tree's walk along the path ends with.
LEMMA Opens ==
  ASSUME TreeOnCard, NEW d, NEW names, Walked(d, names), NEW c \in Heads, d[Len(names)] = c,
         StartListing(c), Shown' = NothingShown
  PROVE  L!Next
<1> DEFINE text == PathText(names)
<1>1. names \in UNION {[1 .. n -> Names] : n \in 0 .. Depth} /\ L!OpenDirectory(text) = c
  BY WalkedPaths
<1>2. dirls' = [cluster |-> c, sector |-> 0, offset |-> 0]
  BY DEF StartListing
<1>3. StatusOf(dirls)' = [cluster |-> c, pos |-> 0]
  <2>1. Position(dirls)' = 0 /\ dirls'.cluster = c
    <3>1. 0 * EntriesPerSector + 0 = 0
      BY Sizes
    <3> QED BY <1>2, <3>1 DEF Position
  <2>2. Passed(Listed(c), 0) = 0
    BY ListedAre, PassedFirst
  <2> QED BY <2>1, <2>2 DEF StatusOf
<1> HIDE DEF text
<1>4. text \in {PathText(m) : m \in UNION {[1 .. n -> Names] : n \in 0 .. Depth}}
  BY <1>1 DEF text
<1>5. StatusOf(dirls)' = L!Opened(text)
  BY <1>1, <1>3 DEF L!Opened
<1>6. L!Open
  BY <1>4, <1>5 DEF L!Open, L!NoEntry, Shown, StatusOf, NothingShown
<1> QED BY <1>6 DEF L!Next

\* The steps before a call's end are not seen.
LEMMA ReaderHidden == ASSUME Reader PROVE Hidden
<1>1. pc' # "idle" /\ dirls' = dirls
  BY DEF Reader, FollowCached, FollowFat, LoadSector
<1> QED BY <1>1, ShowsNothing, StatusStays DEF Hidden

LEMMA FindHidden ==
  ASSUME FindNextSector \/ FindDir \/ Fopen \/ Readdir
  PROVE  Hidden
<1>1. pc' # "idle" /\ dirls' = dirls
  BY DEF FindNextSector, FindDir, Fopen, Readdir, ReadSectorOf
<1> QED BY <1>1, ShowsNothing, StatusStays DEF Hidden

LEMMA FindEndsShown ==
  ASSUME IInv, TreeOnCard, WalksOnPath, FindLast \/ FindFails
  PROVE  L!Next
<1>1. Shown' = NothingShown
  BY ShowsNothing DEF FindLast, FindFails
<1>2. CASE call = "browse"
  <2>1. PICK c \in Heads : StartListing(c) /\ \E d : Walked(d, path) /\ d[Len(path)] = c
    <3>1. LAST \in Heads
      BY DEF Heads
    <3> QED BY <1>2, <3>1, FindLastEnds, FindFailsEnds
  <2> QED BY <1>1, <2>1, Opens
<1>3. CASE call # "browse"
  <2>1. dirls' = dirls
    BY <1>3 DEF FindLast, FindFails
  <2> QED BY <1>1, <2>1, StatusStays, Forgets DEF Hidden
<1> QED BY <1>2, <1>3

LEMMA OpendirShown ==
  ASSUME TreeOnCard, Opendir
  PROVE  L!Next
<1>1. Shown' = NothingShown
  BY ShowsNothing DEF Opendir
<1>2. CASE path' = << >>
  <2>1. StartListing(Root) /\ Root \in Heads
    BY <1>2, FatAssumption DEF Opendir, Heads
  <2> DEFINE d == [k \in 0 .. 0 |-> Root]
  <2>2. Walked(d, << >>) /\ d[Len(<< >>)] = Root
    BY RootWalked
  <2> HIDE DEF d
  <2> QED BY <1>1, <2>1, <2>2, Opens
<1>3. CASE path' # << >>
  <2>1. dirls' = dirls
    BY <1>3 DEF Opendir
  <2> QED BY <1>1, <2>1, StatusStays, Forgets DEF Hidden
<1> QED BY <1>2, <1>3

\* The items of the directory listed.
LEMMA ItemsOf ==
  ASSUME NEW c \in Heads
  PROVE  Len(L!Items(c)) = Cardinality(Listed(c)) /\ Cardinality(Listed(c)) \in Nat
<1>1. Len(L!Items(c)) = Cardinality(Listed(c))
  BY ItemsAre DEF Heads
<1>2. IsFiniteSet(Listed(c))
  BY ListedAre
<1> QED BY <1>1, <1>2, FS_CardinalityType

LEMMA PositionTyped ==
  ASSUME NEW s \in Status
  PROVE  /\ s.cluster \in Heads /\ s.sector \in Nat /\ s.offset \in 0 .. EntriesPerSector
         /\ s.sector * EntriesPerSector \in Nat /\ Position(s) \in Nat
         /\ Position(s) = s.sector * EntriesPerSector + s.offset
         /\ (s.sector + 1) * EntriesPerSector = s.sector * EntriesPerSector + EntriesPerSector
<1>1. s.cluster \in Heads /\ s.sector \in Nat /\ s.offset \in 0 .. EntriesPerSector
  BY DEF Status, Heads
<1>2. s.offset \in Nat
  BY <1>1, Sizes
<1> QED BY <1>1, <1>2, Sizes DEF Position

LEMMA RestoreShown == ASSUME IInv, Restore PROVE L!Next
<1>1. dirls' \in saved /\ UNCHANGED << pc, result >>
  BY DEF Restore
<1>2. dirls' \in Status /\ dirls'.cluster = dirls.cluster /\ dirls.cluster \in Heads
  BY <1>1 DEF IInv, TypeOK, StatusesReached, Status, Heads
<1> DEFINE c == dirls.cluster
           n == Passed(Listed(c), Position(dirls'))
<1>3. n \in 0 .. Len(L!Items(c))
  <2>1. Position(dirls') \in Nat
    BY <1>2, PositionTyped
  <2>2. n \in Nat /\ n <= Cardinality(Listed(c))
    BY <2>1, ListedAre, PassedIsNumber
  <2>3. Len(L!Items(c)) = Cardinality(Listed(c)) /\ Cardinality(Listed(c)) \in Nat
    BY <1>2, ItemsOf
  <2> HIDE DEF n
  <2> QED BY <2>2, <2>3
<1>4. StatusOf(dirls)' = [StatusOf(dirls) EXCEPT !.pos = n]
  <2>1. StatusOf(dirls)' = [cluster |-> c, pos |-> n]
    BY <1>2 DEF StatusOf, Position
  <2> HIDE DEF n
  <2> QED BY <2>1 DEF StatusOf
<1>5. Shown' = Shown
  BY <1>1 DEF Shown
<1> HIDE DEF n
<1>6. L!Restore
  BY <1>3, <1>4, <1>5 DEF L!Restore, Shown, StatusOf
<1> QED BY <1>6 DEF L!Next

-----------------------------------------------------------------------------
(* The steps of fl_list_readdir.                                           *)

\* What is skipped is no entry of the listing.
LEMMA PassedSame ==
  ASSUME NEW S \in SUBSET Nat, NEW p \in Nat, NEW n \in Nat, p <= n,
         \A q \in S : ~ (p <= q /\ q < n)
  PROVE  Passed(S, p) = Passed(S, n)
<1>1. \A q \in S : q \in Nat
  OBVIOUS
<1>2. \A q \in S : q < p <=> q < n
  BY <1>1
<1>3. {q \in S : q < p} = {q \in S : q < n}
  BY <1>2
<1> QED BY <1>3 DEF Passed

\* Up to the first record that is not skipped, or to the end of the sector,
\* there is nothing to list.
LEMMA NothingListedBefore ==
  ASSUME IInv, pc = "scan", call = "list", NEW j \in Nat, j <= EntriesPerSector,
         dirls.offset <= j, \A k \in Live : j <= k
  PROVE  Passed(Listed(dirls.cluster), Position(dirls)) =
           Passed(Listed(dirls.cluster), dirls.sector * EntriesPerSector + j)
<1> DEFINE s == dirls.sector * EntriesPerSector
           c == dirls.cluster
<1>1. /\ s \in Nat /\ Position(dirls) = s + dirls.offset /\ dirls.offset \in Nat
      /\ (dirls.sector + 1) * EntriesPerSector = s + EntriesPerSector
  <2>1. dirls \in Status
    BY DEF IInv, TypeOK
  <2> QED BY <2>1, PositionTyped, Sizes
<1>2. ASSUME NEW q \in Listed(c), Position(dirls) <= q, q < s + j PROVE FALSE
  <2>1. q \in Positions(c) /\ q \in Nat /\ RecordAt(c, q).kind = "entry"
    BY ListedAre DEF Listed
  <2>2. q < (dirls.sector + 1) * EntriesPerSector
    <3> HIDE DEF s
    <3> QED BY <1>1, <1>2, <2>1, Sizes
  <2>3. q - s \in Items /\ q - s >= dirls.offset /\ RecordAt(c, q) = Records[q - s]
    BY <1>2, <2>1, <2>2, PlaceInSector
  <2>4. q - s \in Live
    BY <2>1, <2>3 DEF Live
  <2>5. j <= q - s
    BY <2>4
  <2> HIDE DEF s
  <2> QED BY <1>1, <1>2, <2>1, <2>5
<1> DEFINE p == s + j
<1>3. p \in Nat /\ Position(dirls) \in Nat /\ Position(dirls) <= p
  <2> HIDE DEF s
  <2> QED BY <1>1
<1>4. \A q \in Listed(c) : ~ (Position(dirls) <= q /\ q < p)
  BY <1>2
<1>5. Listed(c) \in SUBSET Nat
  BY ListedAre
<1> HIDE DEF p, c
<1>6. Passed(Listed(c), Position(dirls)) = Passed(Listed(c), p)
  BY <1>3, <1>4, <1>5, PassedSame
<1> QED BY <1>6 DEF p, c

LEMMA ListNextSectorHidden == ASSUME IInv, ListNextSector PROVE Hidden
<1>1. /\ pc = "scan" /\ call = "list" /\ Live = {} /\ pc' # "idle"
      /\ dirls' = [dirls EXCEPT !.sector = dirls.sector + 1, !.offset = 0]
  BY DEF ListNextSector, NextSector, ReadSectorOf
<1>2. dirls \in Status
  BY DEF IInv, TypeOK
<1> DEFINE c == dirls.cluster
           s == dirls.sector * EntriesPerSector
<1>3. dirls'.cluster = c /\ dirls'.sector = dirls.sector + 1 /\ dirls'.offset = 0
  BY <1>1, <1>2 DEF Status
<1>4. Position(dirls)' = s + EntriesPerSector
  <2>1. Position(dirls)' = (dirls.sector + 1) * EntriesPerSector + 0
    BY <1>3 DEF Position
  <2>2. s \in Nat /\ (dirls.sector + 1) * EntriesPerSector = s + EntriesPerSector
    BY <1>2, PositionTyped
  <2> HIDE DEF s
  <2>3. (dirls.sector + 1) * EntriesPerSector + 0 = s + EntriesPerSector
    BY <2>2, Sizes
  <2> QED BY <2>1, <2>3
<1>5. Passed(Listed(c), Position(dirls)) = Passed(Listed(c), s + EntriesPerSector)
  <2>1. EntriesPerSector \in Nat /\ dirls.offset <= EntriesPerSector
    BY <1>2, PositionTyped, Sizes
  <2> QED BY <1>1, <2>1, NothingListedBefore
<1>6. StatusOf(dirls)' = StatusOf(dirls)
  BY <1>3, <1>4, <1>5 DEF StatusOf
<1> QED BY <1>1, <1>6, ShowsNothing DEF Hidden

LEMMA ListEntryShown == ASSUME IInv, TreeOnCard, ListEntry PROVE L!Next
<1>1. /\ pc = "scan" /\ call = "list" /\ Live # {} /\ Records[FirstLive].kind = "entry"
      /\ dirls' = [dirls EXCEPT !.offset = FirstLive + 1]
      /\ pc' = "idle" /\ result' = [kind |-> "entry", record |-> Records[FirstLive]]
  BY DEF ListEntry, Return
<1>2. dirls \in Status
  BY DEF IInv, TypeOK
<1> DEFINE c == dirls.cluster
           s == dirls.sector * EntriesPerSector
           j == FirstLive
           p == s + j
           S == Listed(c)
<1>3. /\ j \in Items /\ dirls.offset <= j /\ \A k \in Live : j <= k
  BY <1>1, FirstLiveIs
<1>4. j \in Nat /\ j <= EntriesPerSector - 1 /\ s \in Nat /\ p \in Nat /\ p + 1 = s + (j + 1)
  <2>1. j \in Nat /\ j <= EntriesPerSector - 1
    BY <1>3, Sizes DEF Items
  <2>2. s \in Nat
    BY <1>2, PositionTyped
  <2> HIDE DEF s, j
  <2> QED BY <2>1, <2>2
<1>5. p \in Positions(c) /\ RecordAt(c, p) = Records[j] /\ c \in Clusters
  <2>1. c \in Heads /\ p \in Positions(c) /\ RecordAt(c, p) = Records[j]
    BY <1>1, <1>3, ScannedSector DEF Items
  <2>2. c # LAST
    BY <2>1, NoPositions
  <2> QED BY <2>1, <2>2 DEF Heads
<1>6. p \in S
  BY <1>1, <1>5, EntriesListed DEF TreeOnCard
<1>7. Passed(S, Position(dirls)) = Passed(S, p)
  <2>1. j <= EntriesPerSector
    <3> HIDE DEF j
    <3> QED BY <1>4, Sizes
  <2> QED BY <1>1, <1>3, <1>4, <2>1, NothingListedBefore
<1>8. dirls'.cluster = c /\ Position(dirls)' = p + 1
  <2>1. dirls'.cluster = c /\ dirls'.sector = dirls.sector /\ dirls'.offset = j + 1
    BY <1>1, <1>2 DEF Status
  <2>2. Position(dirls)' = s + (j + 1)
    BY <2>1 DEF Position
  <2> QED BY <1>4, <2>1, <2>2
<1> HIDE DEF p, j, s
<1> DEFINE n == Passed(S, p)
<1>9. /\ S \in SUBSET Nat /\ IsFiniteSet(S) /\ n \in Nat
  BY <1>4, ListedAre, PassedIsNumber
<1>10. Passed(S, p + 1) = n + 1
  <2> HIDE DEF S
  <2> QED BY <1>4, <1>6, <1>9, PassedNext
<1>11. n + 1 \in 1 .. Cardinality(S) /\ Contents(c)[n + 1] = AsEntry(RecordAt(c, p))
  BY <1>6, ItemOfRecord
<1>12. L!Items(c) = Contents(c) /\ Len(L!Items(c)) = Cardinality(S) /\ Cardinality(S) \in Nat
  BY <1>5, ItemsAre, ItemsOf DEF Heads
<1>13. StatusOf(dirls) = [cluster |-> c, pos |-> n]
  BY <1>7 DEF StatusOf
<1>14. StatusOf(dirls)' = [cluster |-> c, pos |-> n + 1]
  BY <1>8, <1>10 DEF StatusOf
<1>15. Shown' = [kind |-> "entry", entry |-> AsEntry(RecordAt(c, p))]
  BY <1>1, <1>5 DEF Shown, j
<1> HIDE DEF c, S, n
<1>16. n < Len(L!Items(c)) /\ L!Items(c)[n + 1] = AsEntry(RecordAt(c, p))
  BY <1>9, <1>11, <1>12
<1>17. L!Readdir
  <2>1. StatusOf(dirls).pos < Len(L!Items(StatusOf(dirls).cluster))
    BY <1>13, <1>16
  <2>2. StatusOf(dirls)' = [StatusOf(dirls) EXCEPT !.pos = StatusOf(dirls).pos + 1]
    BY <1>13, <1>14
  <2>3. Shown' = L!Returned(L!Items(StatusOf(dirls).cluster)[StatusOf(dirls).pos + 1])
    BY <1>13, <1>15, <1>16 DEF L!Returned
  <2> QED BY <2>1, <2>2, <2>3 DEF L!Readdir, Shown, StatusOf
<1> QED BY <1>17 DEF L!Next

\* The end is reported when all entries of the listing are passed.
LEMMA EndShown ==
  ASSUME IInv, dirls' = dirls, pc' = "idle", result' = [kind |-> "end"],
         \A q \in Listed(dirls.cluster) : q < Position(dirls)
  PROVE  L!Next
<1> DEFINE c == dirls.cluster
<1>1. c \in Heads
  BY DEF IInv, TypeOK, Status, Heads
<1>2. Passed(Listed(c), Position(dirls)) = Cardinality(Listed(c))
  BY PassedAll
<1>3. StatusOf(dirls).pos = Len(L!Items(StatusOf(dirls).cluster))
  BY <1>1, <1>2, ItemsOf DEF StatusOf
<1>4. Shown' = [kind |-> "end"]
  BY DEF Shown
<1>5. L!AtEnd
  BY <1>3, <1>4, StatusStays DEF L!AtEnd, L!EndOfList, Shown, StatusOf
<1> QED BY <1>5 DEF L!Next

LEMMA ListBlankShown == ASSUME IInv, ListBlank PROVE L!Next
<1>1. /\ pc = "scan" /\ call = "list" /\ Live # {} /\ Records[FirstLive].kind = "blank"
      /\ dirls' = dirls /\ pc' = "idle" /\ result' = [kind |-> "end"]
  BY DEF ListBlank, Return
<1> DEFINE c == dirls.cluster
           s == dirls.sector * EntriesPerSector
           j == FirstLive
           p == s + j
<1>2. dirls \in Status
  BY DEF IInv, TypeOK
<1>3. j \in Items /\ j \in Nat /\ \A k \in Live : j <= k
  BY <1>1, FirstLiveIs, Sizes DEF Items
<1>4. p \in Positions(c) /\ RecordAt(c, p).kind = "blank"
  BY <1>1, <1>3, ScannedSector DEF Items
<1>5. s \in Nat /\ Position(dirls) \in Nat
      /\ (dirls.sector + 1) * EntriesPerSector = s + EntriesPerSector
  BY <1>2, PositionTyped
<1>6. ASSUME NEW q \in Listed(c) PROVE q < Position(dirls)
  <2>1. q \in Positions(c) /\ q \in Nat /\ RecordAt(c, q).kind = "entry"
        /\ \A b \in Positions(c) : b < q => RecordAt(c, b).kind # "blank"
    BY ListedAre DEF Listed
  <2>2. SUFFICES ASSUME ~ (q < Position(dirls)) PROVE FALSE
    OBVIOUS
  <2>3. ~ (p < q) /\ p # q
    BY <1>4, <2>1
  <2>4. Position(dirls) <= q /\ q < p
    <3>1. p \in Nat
      <4> HIDE DEF s, j
      <4> QED BY <1>3, <1>5
    <3> HIDE DEF p
    <3> QED BY <1>5, <2>1, <2>2, <2>3, <3>1
  <2>5. q < (dirls.sector + 1) * EntriesPerSector
    <3>1. j <= EntriesPerSector - 1
      BY <1>3, Sizes DEF Items
    <3> HIDE DEF s, j
    <3> QED BY <1>3, <1>5, <2>1, <2>4, <3>1, Sizes
  <2>6. q - s \in Items /\ q - s >= dirls.offset /\ RecordAt(c, q) = Records[q - s]
    BY <1>1, <2>1, <2>4, <2>5, PlaceInSector
  <2>7. j <= q - s
    BY <1>3, <2>1, <2>6 DEF Live
  <2> HIDE DEF s, j
  <2> QED BY <1>3, <1>5, <2>1, <2>4, <2>7
<1> QED BY <1>1, <1>6, EndShown

\* Behind the end of the chain there is nothing.
LEMMA ChainPassed ==
  ASSUME IInv, NEW c \in Heads, NEW n \in Nat, NEW p \in Positions(c),
         n \div SectorsPerCluster \in 0 .. MaxChain, Chain[c][n \div SectorsPerCluster] = LAST
  PROVE  p < n * EntriesPerSector
<1> DEFINE q == n \div SectorsPerCluster
           m == p \div EntriesPerSector
           k == m \div SectorsPerCluster
<1>1. p \in Nat /\ m \in Nat /\ k \in 0 .. MaxChain /\ Chain[c][k] # LAST
  BY ClusterOfPosition DEF Positions
<1>2. q \in 0 .. MaxChain /\ Chain[c][q] = LAST
  OBVIOUS
<1>3. SUFFICES ASSUME n * EntriesPerSector <= p PROVE FALSE
  <2>1. n * EntriesPerSector \in Nat
    BY Sizes
  <2> QED BY <1>1, <2>1
<1>4. n <= m
  BY <1>1, <1>3, Sizes, QuotientsGrow
<1>5. q <= k
  <2> HIDE DEF m
  <2> QED BY <1>1, <1>4, Sizes, QuotientsInOrder
<1> HIDE DEF q, k
<1> QED BY <1>1, <1>2, <1>5, ChainsEnd

LEMMA ListEndShown == ASSUME IInv, ListEnd PROVE L!Next
<1>1. /\ pc = "follow" /\ call = "list" /\ i = ClusterIndex /\ chain = LAST
      /\ dirls' = dirls /\ pc' = "idle" /\ result' = [kind |-> "end"]
  BY DEF ListEnd, AtEndOfChain, Return
<1> DEFINE c == dirls.cluster
           n == dirls.sector
<1>2. /\ c \in Heads /\ n \in Nat /\ n \div SectorsPerCluster \in 0 .. MaxChain
      /\ Chain[c][n \div SectorsPerCluster] = LAST
  BY <1>1, ListReader DEF ClusterIndex
<1>3. ASSUME NEW q \in Listed(c) PROVE q < Position(dirls)
  <2>1. q \in Positions(c) /\ q \in Nat
    BY ListedAre
  <2>2. q < n * EntriesPerSector
    <3> HIDE DEF c, n
    <3> QED BY <1>2, <2>1, ChainPassed
  <2>3. dirls \in Status
    BY DEF IInv, TypeOK
  <2>4. Position(dirls) = n * EntriesPerSector + dirls.offset /\ n * EntriesPerSector \in Nat
        /\ dirls.offset \in Nat
    BY <2>3, PositionTyped, Sizes
  <2> QED BY <2>1, <2>2, <2>4
<1> QED BY <1>1, <1>3, EndShown

-----------------------------------------------------------------------------
(* The theorems about the tree.                                            *)

LEMMA NextShown ==
  ASSUME IInv, TreeOnCard, WalksOnPath, [Next]_vars
  PROVE  L!Next \/ (Shown' = Shown /\ StatusOf(dirls)' = StatusOf(dirls))
<1>1. CASE Reader
  BY <1>1, ReaderHidden, Forgets
<1>2. CASE List
  <2>1. CASE ListNextSector
    BY <2>1, ListNextSectorHidden, Forgets
  <2> QED BY <1>2, <2>1, ListEntryShown, ListBlankShown, ListEndShown DEF List
<1>3. CASE FindNextSector \/ FindDir \/ Fopen \/ Readdir
  BY <1>3, FindHidden, Forgets
<1>4. CASE FindLast \/ FindFails
  BY <1>4, FindEndsShown
<1>5. CASE Opendir
  BY <1>5, OpendirShown
<1>6. CASE Restore
  BY <1>6, RestoreShown
<1>7. CASE UNCHANGED vars
  <2>1. UNCHANGED << dirls, pc, result >>
    BY <1>7 DEF vars
  <2> QED BY <2>1, StatusStays DEF Shown
<1> QED BY <1>1, <1>2, <1>3, <1>4, <1>5, <1>6, <1>7 DEF Next, Find

\* Where path walks lead to: every directory on the path so far is one of the
\* card, and the listing is of the last (_open_directory,
\* fat_filelib.c:199-254).
THEOREM WalksStayOnPath ==
  ASSUME TreeOnCard PROVE Spec => []WalksOnPath
<1>1. Init => WalksOnPath
  BY InitOnPath
<1>2. IInv /\ WalksOnPath /\ [Next]_vars => WalksOnPath'
  BY NextOnPath
<1> QED BY <1>1, <1>2, ListInvariant, PTL DEF Spec

\* fl_list_opendir lists the directory of the tree that the path denotes,
\* whatever the listing before it left in the cache (fat_filelib.c:199-254,
\* 1222-1260).
THEOREM OpendirFindsTree ==
  ASSUME TreeOnCard PROVE Spec => []OpendirAgreesWithTree
<1>1. IInv /\ WalksOnPath => OpendirAgreesWithTree
  <2> SUFFICES ASSUME IInv, WalksOnPath, phase = "browse", pc = "idle"
               PROVE  dirls.cluster = L!OpenDirectory(PathText(path))
    BY DEF OpendirAgreesWithTree
  <2>1. PICK d : Walked(d, path) /\ dirls.cluster = d[Len(path)]
    BY DEF WalksOnPath, Along
  <2>2. dirls.cluster \in Heads
    BY DEF IInv, TypeOK, Status, Heads
  <2> QED BY <2>1, <2>2, WalkedPaths
<1> QED BY <1>1, ListInvariant, WalksStayOnPath, PTL

\* Reading directories from the card implements the listing the browser is
\* written against (fl_list_opendir, fl_list_readdir and restore_flstatus).
THEOREM ListsTree ==
  ASSUME TreeOnCard PROVE Spec => ImplementsDirList
<1>1. Init => L!Init
  <2> SUFFICES ASSUME Init PROVE L!Init
    OBVIOUS
  <2>1. dirls = [cluster |-> LAST, sector |-> 0, offset |-> 0] /\ result.kind = "none"
    BY DEF Init
  <2>2. Passed(Listed(LAST), Position(dirls)) = 0
    BY NothingListed, FS_EmptySet DEF Passed
  <2>3. StatusOf(dirls) = [cluster |-> LAST, pos |-> 0] /\ Shown = NothingShown
    BY <2>1, <2>2, ShowsNothing DEF StatusOf
  <2> QED BY <2>3 DEF L!Init, L!NoEntry, Shown, StatusOf, NothingShown
<1>2. IInv /\ WalksOnPath /\ [Next]_vars => [L!Next]_<< StatusOf(dirls), Shown >>
  BY NextShown
<1>3. ImplementsDirList <=> L!Init /\ [][L!Next]_<< StatusOf(dirls), Shown >>
  BY DEF ImplementsDirList, L!Spec, StatusOf, Shown
<1> QED BY <1>1, <1>2, <1>3, ListInvariant, WalksStayOnPath, PTL DEF Spec

=============================================================================
