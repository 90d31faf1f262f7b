---------------------------- MODULE CpmFsProofs ----------------------------
(***************************************************************************)
(* Theorems about the CP/M file system of cpcxfs, for every size of the    *)
(* directory and the disk: no block has two owners, whatever commands are  *)
(* given and wherever the program is killed.                               *)
(***************************************************************************)
EXTENDS CpmFs, Numbers

FieldNames == {"directory", "first", "next", "alloc", "buffer", "cur", "dirty", "user",
               "disk", "writes", "ret", "out", "why"}

IsSeq(s) == \E S : s \in Seq(S)

\* What belongs to an entry in use is allocated, and nothing else but what is
\* reserved.
Owned(f) ==
  \A b : b \in f.alloc <=> b \in AL \/ \E e \in InUse(f.directory) : b \in BlocksOf(f.directory[e])

\* The links go from entries to entries in use, no two to the same and none to
\* the first of a file.
Threads(f) ==
  /\ f.first \subseteq InUse(f.directory) /\ DOMAIN f.next = Entries
  /\ \A e \in Entries : f.next[e] # -1 => f.next[e] \in InUse(f.directory) /\ f.next[e] \notin f.first
  /\ \A e, x \in Entries : f.next[e] # -1 /\ f.next[e] = f.next[x] => e = x

Memory(f) ==
  /\ DOMAIN f = FieldNames
  /\ DirectorySound(f.directory) /\ Owned(f) /\ Threads(f)
  /\ f.user \in Nat /\ f.user # E5

\* The images between d and e as the writes w are done; a directory is sound
\* whenever it is not being written.
Passes(h, d, w, e) ==
  /\ IsSeq(w) /\ DOMAIN h = 0 .. Len(w) /\ h[0] = d /\ h[Len(w)] = e
  /\ \A i \in 1 .. Len(w) : w[i][1] \in Blocks /\ h[i] = [h[i - 1] EXCEPT ![w[i][1]] = w[i][2]]
  /\ \A i \in 1 .. Len(w) : w[i][1] \notin 1 .. DBL - 1 => DirectorySound(StoredEntries(h[i - 1]))

Way(d, w, e) == \E h : Passes(h, d, w, e)

ImageSound(d) == DOMAIN d = Blocks /\ DirectorySound(StoredEntries(d))

\* A command's state while it works, before and after it has made the links.
Unlinked(f) ==
  /\ DOMAIN f = FieldNames /\ DirectorySound(f.directory) /\ Owned(f)
  /\ f.user \in Nat /\ f.user # E5
  /\ ImageSound(f.disk) /\ Way(disk, f.writes, f.disk)
  /\ IsSeq(f.out) /\ f.ret \in Int

OK(f) == Unlinked(f) /\ Threads(f)

-----------------------------------------------------------------------------
(* Sequences, least numbers and blocks.                                    *)

LEMMA SeqHasLength == ASSUME NEW s, IsSeq(s) PROVE Len(s) \in Nat /\ DOMAIN s = 1 .. Len(s)
BY DEF IsSeq

LEMMA SeqElements ==
  ASSUME NEW S, NEW s \in Seq(S)
  PROVE  Len(s) \in Nat /\ DOMAIN s = 1 .. Len(s) /\ \A k \in 1 .. Len(s) : s[k] \in S
OBVIOUS

LEMMA EmptySeq == IsSeq(<<>>) /\ Len(<<>>) = 0
<1>1. <<>> \in Seq({})
  OBVIOUS
<1> QED BY <1>1 DEF IsSeq

LEMMA SeqAppend ==
  ASSUME NEW s, NEW x, IsSeq(s)
  PROVE  /\ IsSeq(Append(s, x)) /\ Len(Append(s, x)) = Len(s) + 1
         /\ \A i \in 1 .. Len(s) : Append(s, x)[i] = s[i]
         /\ Append(s, x)[Len(s) + 1] = x
<1>1. PICK S : s \in Seq(S)
  BY DEF IsSeq
<1> DEFINE T == S \cup {x}
<1>2. s \in Seq(T) /\ x \in T
  BY <1>1
<1> HIDE DEF T
<1>3. Append(s, x) \in Seq(T)
  BY <1>2
<1>4. IsSeq(Append(s, x))
  BY <1>3 DEF IsSeq
<1> QED BY <1>1, <1>2, <1>3, <1>4

LEMMA SeqConcat ==
  ASSUME NEW s, NEW t, IsSeq(s), IsSeq(t)
  PROVE  IsSeq(s \o t)
<1>1. PICK S : s \in Seq(S)
  BY DEF IsSeq
<1>2. PICK T : t \in Seq(T)
  BY DEF IsSeq
<1> DEFINE U == S \cup T
<1>3. s \in Seq(U) /\ t \in Seq(U)
  BY <1>1, <1>2
<1> HIDE DEF U
<1>4. s \o t \in Seq(U)
  BY <1>3
<1> QED BY <1>4 DEF IsSeq

LEMMA SeqTail ==
  ASSUME NEW s, IsSeq(s), s # <<>>
  PROVE  /\ IsSeq(Tail(s)) /\ Len(s) > 0 /\ Len(Tail(s)) = Len(s) - 1
         /\ \A i \in 1 .. Len(s) - 1 : Tail(s)[i] = s[i + 1]
<1>1. PICK S : s \in Seq(S)
  BY DEF IsSeq
<1>2. Tail(s) \in Seq(S)
  BY <1>1
<1> QED BY <1>1, <1>2 DEF IsSeq

LEMMA FirstIsLeast ==
  ASSUME NEW S \in SUBSET Nat, S # {}
  PROVE  FirstOf(S) \in S
<1>1. \E m \in S : \A k \in S : m <= k
  BY LeastNumber
<1> QED BY <1>1 DEF FirstOf

LEMMA Sizes ==
  /\ DRM \in Nat /\ DSM \in Nat /\ PerBlock \in Nat \ {0} /\ DBL \in Nat \ {0} /\ DBL <= DSM + 1
  /\ BLKNR \in Nat \ {0} /\ RPB \in Nat \ {0} /\ DRM + 1 = DBL * PerBlock
  /\ \A b \in 0 .. DBL - 1 : b \in AL
BY FsAssumption

LEMMA DataBlocksAre == \A b \in DataBlocks : b \in Blocks /\ b \notin 0 .. DBL - 1
BY Sizes DEF DataBlocks, Blocks

-----------------------------------------------------------------------------
(* Blocks that are read and written.                                       *)

\* What leaves the memory and the image as they are.
Alike(f, g) ==
  /\ DOMAIN g = FieldNames
  /\ g.directory = f.directory /\ g.first = f.first /\ g.next = f.next /\ g.alloc = f.alloc
  /\ g.user = f.user

LEMMA AlikeThreads == ASSUME NEW f, NEW g, Threads(f), Alike(f, g) PROVE Threads(g)
BY DEF Alike, Threads

LEMMA AlikeOwned == ASSUME NEW f, NEW g, Owned(f), Alike(f, g) PROVE Owned(g)
BY DEF Alike, Owned

LEMMA AlikeAgain ==
  ASSUME NEW f, NEW g, NEW h, Alike(f, g), Alike(g, h) PROVE Alike(f, h)
BY DEF Alike

LEMMA ReadBlockOK ==
  ASSUME NEW f, NEW b, Unlinked(f)
  PROVE  Unlinked(read_block(f, b)) /\ Alike(f, read_block(f, b))
<1> DEFINE r == read_block(f, b)
<1>1. /\ Alike(f, r) /\ r.disk = f.disk /\ r.writes = f.writes /\ r.out = f.out /\ r.ret \in Int
  <2>1. DOMAIN f = FieldNames
    BY DEF Unlinked
  <2>2. CASE b = f.cur
    BY <2>1, <2>2 DEF read_block, Alike, FieldNames
  <2>3. CASE b # f.cur /\ b \notin Blocks
    BY <2>1, <2>3 DEF read_block, Alike, FieldNames
  <2>4. CASE b # f.cur /\ b \in Blocks /\ b \in Bad
    <3>1. r = [f EXCEPT !.ret = -1, !.buffer = Damaged]
      BY <2>4 DEF read_block
    <3> HIDE DEF r
    <3> QED BY <2>1, <3>1 DEF Alike, FieldNames
  <2>5. CASE b # f.cur /\ b \in Blocks /\ b \notin Bad
    <3>1. r = [f EXCEPT !.ret = 0, !.buffer = f.disk[b], !.cur = b]
      BY <2>5 DEF read_block
    <3> HIDE DEF r
    <3> QED BY <2>1, <3>1 DEF Alike, FieldNames
  <2> QED BY <2>2, <2>3, <2>4, <2>5
<1> HIDE DEF r
<1>2. Unlinked(r)
  BY <1>1, AlikeOwned DEF Unlinked, Alike
<1> QED BY <1>1, <1>2 DEF r

\* A write more, where it is allowed.
LEMMA WayOn ==
  ASSUME NEW d, NEW w, NEW e, NEW b \in Blocks, NEW x, Way(d, w, e),
         b \notin 1 .. DBL - 1 => DirectorySound(StoredEntries(e))
  PROVE  Way(d, Append(w, <<b, x>>), [e EXCEPT ![b] = x])
<1>1. PICK h : Passes(h, d, w, e)
  BY DEF Way
<1> DEFINE v == Append(w, <<b, x>>)
           a == [e EXCEPT ![b] = x]
           n == Len(w)
           g == [i \in 0 .. n + 1 |-> IF i = n + 1 THEN a ELSE h[i]]
<1>2. /\ IsSeq(v) /\ Len(v) = n + 1 /\ \A i \in 1 .. n : v[i] = w[i]
      /\ v[n + 1] = <<b, x>> /\ n \in Nat
  BY <1>1, SeqAppend, SeqHasLength DEF Passes
<1>3. /\ DOMAIN h = 0 .. n /\ h[0] = d /\ h[n] = e
      /\ \A i \in 1 .. n : w[i][1] \in Blocks /\ h[i] = [h[i - 1] EXCEPT ![w[i][1]] = w[i][2]]
      /\ \A i \in 1 .. n : w[i][1] \notin 1 .. DBL - 1 => DirectorySound(StoredEntries(h[i - 1]))
  BY <1>1 DEF Passes
<1>4. /\ DOMAIN g = 0 .. n + 1 /\ g[0] = d /\ g[n + 1] = a
      /\ \A i \in 0 .. n : g[i] = h[i]
  BY <1>2, <1>3
<1> HIDE DEF g, v, a, n
<1>5. ASSUME NEW i \in 1 .. n + 1
      PROVE  /\ v[i][1] \in Blocks /\ g[i] = [g[i - 1] EXCEPT ![v[i][1]] = v[i][2]]
             /\ v[i][1] \notin 1 .. DBL - 1 => DirectorySound(StoredEntries(g[i - 1]))
  <2>1. CASE i = n + 1
    <3>1. g[i - 1] = e /\ g[i] = a /\ v[i][1] = b /\ v[i][2] = x
      BY <1>2, <1>3, <1>4, <2>1
    <3> QED BY <3>1 DEF a
  <2>2. CASE i # n + 1
    <3>1. i \in 1 .. n /\ i - 1 \in 0 .. n /\ i \in 0 .. n
      BY <1>2, <2>2
    <3>2. g[i - 1] = h[i - 1] /\ g[i] = h[i] /\ v[i] = w[i]
      BY <1>2, <1>4, <3>1
    <3> QED BY <1>3, <3>1, <3>2
  <2> QED BY <2>1, <2>2
<1>6. Passes(g, d, v, a)
  BY <1>2, <1>4, <1>5 DEF Passes
<1> QED BY <1>6 DEF Way, v, a

AsWritten(b, data) == IF b \in Bad THEN Damaged ELSE data

\* What write_block does to the state f.
BlockWritten(f, b, written, r) ==
  /\ Alike(f, r) /\ r.out = f.out /\ r.ret = f.ret /\ r.dirty = f.dirty /\ r.why = f.why
  /\ r.disk = [f.disk EXCEPT ![b] = written] /\ r.writes = Append(f.writes, <<b, written>>)

LEMMA WriteBlockIs ==
  ASSUME NEW f, NEW b, NEW data, DOMAIN f = FieldNames
  PROVE  BlockWritten(f, b, AsWritten(b, data), write_block(f, b, data))
BY DEF write_block, Alike, FieldNames, BlockWritten, AsWritten

\* The block of the directory an entry is stored in, and its place there.
LEMMA PlaceOf ==
  ASSUME NEW e \in Entries
  PROVE  /\ e \div PerBlock \in 0 .. DBL - 1 /\ e % PerBlock \in 0 .. PerBlock - 1
         /\ (e \div PerBlock) * PerBlock + (e % PerBlock) = e
<1> DEFINE q == e \div PerBlock
           t == e % PerBlock
<1>1. e \in Nat /\ e < DBL * PerBlock
  BY Sizes DEF Entries
<1>2. q \in Nat /\ t \in 0 .. PerBlock - 1 /\ e = q * PerBlock + t
  BY <1>1, Sizes, Divides
<1> HIDE DEF q, t
<1>3. ~ q >= DBL
  <2> SUFFICES ASSUME q >= DBL PROVE FALSE
    OBVIOUS
  <2>1. q * PerBlock = DBL * PerBlock + (q - DBL) * PerBlock
    BY <1>2, Sizes
  <2>2. (q - DBL) * PerBlock >= 0
    BY <1>2, Sizes
  <2> QED BY <1>1, <1>2, <2>1, <2>2, Sizes
<1>4. q \in 0 .. DBL - 1
  BY <1>2, <1>3, Sizes
<1> QED BY <1>2, <1>4 DEF q, t

\* Only the blocks of the directory tell which entries are stored.
LEMMA StoredAlike ==
  ASSUME NEW d, NEW b \in Blocks, b \notin 0 .. DBL - 1, NEW x
  PROVE  StoredEntries([d EXCEPT ![b] = x]) = StoredEntries(d)
<1> SUFFICES ASSUME NEW e \in Entries
             PROVE  [d EXCEPT ![b] = x][e \div PerBlock] = d[e \div PerBlock]
  BY DEF StoredEntries
<1> QED BY PlaceOf

LEMMA WriteBlockOK ==
  ASSUME NEW f, NEW b \in Blocks, b \notin 0 .. DBL - 1, NEW data, Unlinked(f)
  PROVE  Unlinked(write_block(f, b, data)) /\ Alike(f, write_block(f, b, data))
<1> DEFINE r == write_block(f, b, data)
           written == AsWritten(b, data)
<1>1. /\ Alike(f, r) /\ r.out = f.out /\ r.ret = f.ret
      /\ r.disk = [f.disk EXCEPT ![b] = written] /\ r.writes = Append(f.writes, <<b, written>>)
  <2>1. DOMAIN f = FieldNames
    BY DEF Unlinked
  <2>2. BlockWritten(f, b, written, r)
    BY <2>1, WriteBlockIs
  <2> HIDE DEF r, written
  <2> QED BY <2>2 DEF BlockWritten
<1> HIDE DEF r, written
<1>2. ImageSound(r.disk)
  <2>1. StoredEntries(r.disk) = StoredEntries(f.disk)
    BY <1>1, StoredAlike
  <2> QED BY <1>1, <2>1 DEF Unlinked, ImageSound
<1>3. Way(disk, r.writes, r.disk)
  BY <1>1, WayOn DEF Unlinked, ImageSound
<1>4. Unlinked(r)
  BY <1>1, <1>2, <1>3, AlikeOwned DEF Unlinked, Alike
<1> QED BY <1>1, <1>4 DEF r

-----------------------------------------------------------------------------
(* Links.                                                                  *)

LEMMA EntriesAre == \A e \in Entries : e \in Nat
BY Sizes DEF Entries

LEMMA BeforeIsOrder ==
  ASSUME NEW d, DirectorySound(d), NEW x \in Entries, NEW y \in Entries
  PROVE  /\ ~ Before(d, x, x)
         /\ \A z \in Entries : Before(d, x, y) /\ Before(d, y, z) => Before(d, x, z)
         /\ x # y => Before(d, x, y) \/ Before(d, y, x)
<1>1. \A e \in Entries : d[e].extent \in Nat /\ e \in Nat
  BY EntriesAre DEF DirectorySound, EntrySound
<1> QED BY <1>1 DEF Before

LEMMA FirstBefore ==
  ASSUME NEW d, DirectorySound(d), NEW S \in SUBSET Entries, S # {}
  PROVE  \E x \in S : \A y \in S : ~ Before(d, y, x)
<1>1. \A e \in Entries : d[e].extent \in Nat /\ e \in Nat
  BY EntriesAre DEF DirectorySound, EntrySound
<1> DEFINE extents == {d[e].extent : e \in S}
<1>2. PICK m \in extents : \A k \in extents : m <= k
  <2>1. extents \in SUBSET Nat /\ extents # {}
    BY <1>1
  <2> HIDE DEF extents
  <2> QED BY <2>1, LeastNumber
<1> DEFINE those == {e \in S : d[e].extent = m}
<1>3. PICK x \in those : \A k \in those : x <= k
  <2>1. those \in SUBSET Nat /\ those # {}
    BY <1>1, <1>2
  <2> HIDE DEF those
  <2> QED BY <2>1, LeastNumber
<1>4. ASSUME NEW y \in S PROVE ~ Before(d, y, x)
  <2>1. /\ d[x].extent = m /\ m <= d[y].extent /\ x \in Nat /\ y \in Nat
        /\ d[y].extent \in Nat /\ m \in Nat
    BY <1>1, <1>2, <1>3
  <2>2. d[y].extent = m => x <= y
    BY <1>3
  <2> QED BY <2>1, <2>2 DEF Before
<1> QED BY <1>3, <1>4

\* The entry that follows e in its file.
After(d, e) == {x \in Extents(d, e) : Before(d, e, x)}
NextOf(d, e) ==
  IF e \notin InUse(d) \/ After(d, e) = {} THEN -1
  ELSE CHOOSE x \in After(d, e) : \A y \in After(d, e) : ~ Before(d, y, x)

LEMMA UpdateIs ==
  ASSUME NEW f, DOMAIN f = FieldNames
  PROVE  update_directory(f) =
           [f EXCEPT !.first = {e \in InUse(f.directory) :
                                  \A x \in Extents(f.directory, e) : ~ Before(f.directory, x, e)},
                     !.next = [e \in Entries |-> NextOf(f.directory, e)]]
BY DEF update_directory, NextOf, After

LEMMA NextIsBehind ==
  ASSUME NEW d, DirectorySound(d), NEW e \in Entries, NextOf(d, e) # -1
  PROVE  /\ e \in InUse(d) /\ NextOf(d, e) \in After(d, e)
         /\ \A y \in After(d, e) : ~ Before(d, y, NextOf(d, e))
<1>1. e \in InUse(d) /\ After(d, e) # {}
  BY DEF NextOf
<1>2. After(d, e) \in SUBSET Entries
  BY DEF After, Extents, InUse
<1>3. \E x \in After(d, e) : \A y \in After(d, e) : ~ Before(d, y, x)
  BY <1>1, <1>2, FirstBefore
<1> QED BY <1>1, <1>3 DEF NextOf

\* What update_directory leaves as it is.
Relinked(f, r) ==
  /\ DOMAIN r = FieldNames
  /\ r.directory = f.directory /\ r.alloc = f.alloc /\ r.user = f.user /\ r.buffer = f.buffer
  /\ r.disk = f.disk /\ r.writes = f.writes /\ r.out = f.out /\ r.ret = f.ret /\ r.why = f.why

LEMMA LinksRight ==
  ASSUME NEW f, DOMAIN f = FieldNames, DirectorySound(f.directory)
  PROVE  Threads(update_directory(f)) /\ Relinked(f, update_directory(f))
<1> DEFINE d == f.directory
           r == update_directory(f)
           firsts == {e \in InUse(d) : \A x \in Extents(d, e) : ~ Before(d, x, e)}
           nexts == [e \in Entries |-> NextOf(d, e)]
<1>1. Relinked(f, r) /\ r.first = firsts /\ r.next = nexts
  <2>1. r = [f EXCEPT !.first = firsts, !.next = nexts]
    BY UpdateIs
  <2> HIDE DEF r, firsts, nexts
  <2> QED BY <2>1 DEF Relinked, FieldNames
<1> HIDE DEF r
<1>2. ASSUME NEW e \in Entries, NextOf(d, e) # -1
      PROVE  NextOf(d, e) \in InUse(d) /\ NextOf(d, e) \notin firsts
  <2> DEFINE n == NextOf(d, e)
  <2>1. e \in InUse(d) /\ n \in After(d, e)
    BY <1>2, NextIsBehind
  <2> HIDE DEF n
  <2>2. n \in InUse(d) /\ Key(d[n]) = Key(d[e]) /\ Before(d, e, n)
    BY <2>1 DEF After, Extents
  <2>3. e \in Extents(d, n)
    BY <2>1, <2>2 DEF Extents
  <2> QED BY <2>2, <2>3 DEF n
<1>3. ASSUME NEW e \in Entries, NEW x \in Entries, NextOf(d, e) # -1, NextOf(d, e) = NextOf(d, x)
      PROVE  e = x
  <2> SUFFICES ASSUME e # x PROVE FALSE
    OBVIOUS
  <2> DEFINE n == NextOf(d, e)
  <2>1. /\ e \in InUse(d) /\ n \in After(d, e) /\ \A y \in After(d, e) : ~ Before(d, y, n)
        /\ x \in InUse(d) /\ n \in After(d, x) /\ \A y \in After(d, x) : ~ Before(d, y, n)
    BY <1>3, NextIsBehind
  <2> HIDE DEF n
  <2>2. /\ Key(d[n]) = Key(d[e]) /\ Key(d[n]) = Key(d[x]) /\ Before(d, e, n) /\ Before(d, x, n)
    BY <2>1 DEF After, Extents
  <2>3. CASE Before(d, e, x)
    <3>1. x \in After(d, e)
      BY <2>1, <2>2, <2>3 DEF After, Extents
    <3> QED BY <2>1, <2>2, <3>1
  <2>4. CASE Before(d, x, e)
    <3>1. e \in After(d, x)
      BY <2>1, <2>2, <2>4 DEF After, Extents
    <3> QED BY <2>1, <2>2, <3>1
  <2> QED BY <2>3, <2>4, BeforeIsOrder
<1>4. Threads(r)
  <2>1. r.directory = d
    BY <1>1 DEF Relinked
  <2>2. firsts \subseteq InUse(d)
    OBVIOUS
  <2>3. DOMAIN nexts = Entries /\ \A e \in Entries : nexts[e] = NextOf(d, e)
    OBVIOUS
  <2> HIDE DEF firsts, nexts, d
  <2> QED BY <1>1, <1>2, <1>3, <2>1, <2>2, <2>3 DEF Threads
<1> QED BY <1>1, <1>4 DEF r

LEMMA UpdatedIs ==
  ASSUME NEW f, DOMAIN f = FieldNames, DirectorySound(f.directory)
  PROVE  Threads(Updated(f)) /\ Relinked(f, Updated(f))
<1> DEFINE g == update_directory(f)
           r == Updated(f)
<1>1. Threads(g) /\ Relinked(f, g)
  BY LinksRight
<1>2. r = [g EXCEPT !.dirty = TRUE]
  BY DEF Updated
<1> HIDE DEF g, r
<1>3. Relinked(f, r) /\ r.first = g.first /\ r.next = g.next /\ r.directory = g.directory
  BY <1>1, <1>2 DEF Relinked, FieldNames
<1>4. Threads(r)
  BY <1>1, <1>3 DEF Threads
<1> QED BY <1>3, <1>4 DEF r

LEMMA UpdatedOK ==
  ASSUME NEW f, Unlinked(f)
  PROVE  OK(Updated(f)) /\ OK(update_directory(f))
<1>1. DOMAIN f = FieldNames /\ DirectorySound(f.directory)
  BY DEF Unlinked
<1>2. ASSUME NEW r, Relinked(f, r) PROVE Unlinked(r)
  BY <1>2 DEF Relinked, Unlinked, Owned
<1>3. Unlinked(Updated(f)) /\ Unlinked(update_directory(f))
  BY <1>1, <1>2, UpdatedIs, LinksRight
<1> QED BY <1>1, <1>3, UpdatedIs, LinksRight DEF OK

-----------------------------------------------------------------------------
(* Chains.                                                                 *)

\* The entries c follow each other from e on.
Thread(f, e, c) ==
  /\ c \in Seq(Entries) /\ Len(c) \in Nat \ {0} /\ DOMAIN c = 1 .. Len(c) /\ c[1] = e
  /\ \A i \in 1 .. Len(c) - 1 : f.next[c[i]] # -1 /\ f.next[c[i]] = c[i + 1]

Threaded(f, c) == IF f.next[c[Len(c)]] = -1 THEN c ELSE Append(c, f.next[c[Len(c)]])

LEMMA ThreadGoesOn ==
  ASSUME NEW f, NEW e, NEW c, Threads(f), Thread(f, e, c)
  PROVE  Thread(f, e, Threaded(f, c))
<1>1. CASE f.next[c[Len(c)]] = -1
  BY <1>1 DEF Threaded
<1>2. CASE f.next[c[Len(c)]] # -1
  <2> DEFINE x == f.next[c[Len(c)]]
             a == Append(c, x)
  <2>1. /\ c \in Seq(Entries) /\ Len(c) \in Nat \ {0} /\ c[1] = e /\ c[Len(c)] \in Entries
        /\ \A i \in 1 .. Len(c) - 1 : f.next[c[i]] # -1 /\ f.next[c[i]] = c[i + 1]
    BY DEF Thread
  <2>2. x \in Entries
    BY <1>2, <2>1 DEF Threads, InUse
  <2>3. x # -1
    BY <1>2
  <2> HIDE DEF x
  <2>4. a \in Seq(Entries) /\ Len(a) = Len(c) + 1 /\ DOMAIN a = 1 .. Len(a)
        /\ a[Len(c) + 1] = x /\ \A i \in 1 .. Len(c) : a[i] = c[i]
    BY <2>1, <2>2
  <2>5. ASSUME NEW i \in 1 .. Len(a) - 1 PROVE f.next[a[i]] # -1 /\ f.next[a[i]] = a[i + 1]
    <3>1. CASE i = Len(c)
      BY <2>1, <2>3, <2>4, <3>1 DEF x
    <3>2. CASE i # Len(c)
      <4>1. i \in 1 .. Len(c) - 1 /\ i + 1 \in 1 .. Len(c) /\ i \in 1 .. Len(c)
        BY <2>1, <2>4, <3>2
      <4> QED BY <2>1, <2>4, <4>1
    <3> QED BY <3>1, <3>2
  <2> HIDE DEF a
  <2>6. Thread(f, e, a)
    BY <2>1, <2>4, <2>5 DEF Thread
  <2> QED BY <1>2, <2>6 DEF Threaded, a, x
<1> QED BY <1>1, <1>2

LEMMA ChainIs ==
  ASSUME NEW f, NEW e \in Entries, Threads(f)
  PROVE  Thread(f, e, Chain(f, e))
<1> DEFINE S == {c \in Seq(Entries) : Thread(f, e, c)}
           T == [p \in S \X (1 .. DRM) |-> Threaded(f, p[1])]
           Solves(g) == g = [k \in Entries |->
                               IF k = 0 THEN <<e>>
                               ELSE LET c == g[k - 1]
                                    IN IF f.next[c[Len(c)]] = -1 THEN c
                                       ELSE Append(c, f.next[c[Len(c)]])]
           chain == CHOOSE g : Solves(g)
<1>1. Entries = 0 .. DRM /\ DRM \in Nat
  BY Sizes DEF Entries
<1>2. <<e>> \in S
  BY DEF Thread
<1>3. ASSUME NEW c \in S PROVE Threaded(f, c) \in S
  BY ThreadGoesOn DEF Thread
<1>4. T \in [S \X (1 .. DRM) -> S] /\ \A c \in S, k \in 1 .. DRM : T[<<c, k>>] = Threaded(f, c)
  BY <1>3
<1>5. PICK g \in [0 .. DRM -> S] : LoopValues(g, DRM, <<e>>, T)
  <2> HIDE DEF S, T
  <2> QED BY <1>1, <1>2, <1>4, LoopHasValues
<1>6. Solves(g)
  <2>1. g = [k \in Entries |-> g[k]]
    BY <1>1, <1>5
  <2>2. ASSUME NEW k \in Entries PROVE g[k] = IF k = 0 THEN <<e>> ELSE Threaded(f, g[k - 1])
    <3>1. CASE k = 0
      BY <1>1, <1>5, <3>1 DEF LoopValues
    <3>2. CASE k # 0
      <4>1. k \in 1 .. DRM /\ k - 1 \in 0 .. DRM
        BY <1>1, <3>2
      <4>2. g[k - 1] \in S
        BY <1>5, <4>1
      <4>3. g[k] = T[<<g[k - 1], k>>]
        BY <1>5, <3>2, <1>1 DEF LoopValues
      <4> HIDE DEF S, T
      <4> QED BY <1>4, <3>2, <4>1, <4>2, <4>3
    <3> QED BY <3>1, <3>2
  <2> HIDE DEF S, T
  <2> QED BY <2>1, <2>2 DEF Threaded
<1>7. Solves(chain)
  <2> HIDE DEF Solves
  <2> QED BY <1>6
<1>8. Chain(f, e) = chain[DRM]
  BY DEF Chain
<1> HIDE DEF chain
<1>9. chain[0] = <<e>> /\ \A k \in 1 .. DRM : chain[k] = Threaded(f, chain[k - 1])
  <2>1. chain = [k \in Entries |-> IF k = 0 THEN <<e>> ELSE Threaded(f, chain[k - 1])]
    BY <1>7 DEF Threaded
  <2>2. \A k \in Entries : chain[k] = IF k = 0 THEN <<e>> ELSE Threaded(f, chain[k - 1])
    BY <2>1
  <2>3. 0 \in Entries /\ \A k \in 1 .. DRM : k \in Entries /\ k # 0
    BY <1>1
  <2> QED BY <2>2, <2>3
<1> DEFINE good == {k \in 0 .. DRM : chain[k] \in S}
<1>10. 0 \in good /\ \A k \in 1 .. DRM : k - 1 \in good => k \in good
  <2> HIDE DEF S, T, Solves
  <2> QED BY <1>1, <1>2, <1>3, <1>9
<1>11. DRM \in good
  <2> HIDE DEF good, S, T, Solves
  <2>1. \A k \in 0 .. DRM : k \in good
    BY <1>1, <1>10, CarriedOn
  <2> QED BY <1>1, <2>1
<1> QED BY <1>8, <1>11

Members(f, e) == {Chain(f, e)[i] : i \in DOMAIN Chain(f, e)}

LEMMA MembersInUse ==
  ASSUME NEW f, NEW e \in f.first, Threads(f)
  PROVE  Members(f, e) \subseteq InUse(f.directory) /\ e \in Members(f, e) /\ e \in Entries
<1> DEFINE c == Chain(f, e)
<1>0. e \in InUse(f.directory) /\ e \in Entries
  BY DEF Threads, InUse
<1>1. Thread(f, e, c)
  BY <1>0, ChainIs
<1>2. /\ c \in Seq(Entries) /\ Len(c) \in Nat \ {0} /\ DOMAIN c = 1 .. Len(c) /\ c[1] = e
      /\ \A i \in 1 .. Len(c) - 1 : f.next[c[i]] # -1 /\ f.next[c[i]] = c[i + 1]
  BY <1>1 DEF Thread
<1> HIDE DEF c
<1>3. ASSUME NEW i \in 1 .. Len(c) PROVE c[i] \in InUse(f.directory)
  <2>1. CASE i = 1
    BY <1>0, <1>2, <2>1
  <2>2. CASE i # 1
    <3> DEFINE j == i - 1
    <3>1. j \in 1 .. Len(c) - 1 /\ c[j] \in Entries /\ i = j + 1
      BY <1>2, <2>2
    <3> HIDE DEF j
    <3> QED BY <1>2, <3>1 DEF Threads
  <2> QED BY <2>1, <2>2
<1> QED BY <1>0, <1>2, <1>3 DEF Members, c

\* Two files have no entry in common.
LEMMA MembersApart ==
  ASSUME NEW f, Threads(f), NEW e \in f.first, NEW u \in f.first,
         Members(f, e) \cap Members(f, u) # {}
  PROVE  e = u
<1> DEFINE c == Chain(f, e)
           d == Chain(f, u)
<1>0. e \in Entries /\ u \in Entries
  BY DEF Threads, InUse
<1>1. Thread(f, e, c) /\ Thread(f, u, d)
  BY <1>0, ChainIs
<1>2. /\ c \in Seq(Entries) /\ Len(c) \in Nat \ {0} /\ DOMAIN c = 1 .. Len(c) /\ c[1] = e
      /\ \A i \in 1 .. Len(c) - 1 : f.next[c[i]] # -1 /\ f.next[c[i]] = c[i + 1]
      /\ d \in Seq(Entries) /\ Len(d) \in Nat \ {0} /\ DOMAIN d = 1 .. Len(d) /\ d[1] = u
      /\ \A i \in 1 .. Len(d) - 1 : f.next[d[i]] # -1 /\ f.next[d[i]] = d[i + 1]
  BY <1>1 DEF Thread
<1>3. PICK i \in 1 .. Len(c), j \in 1 .. Len(d) : c[i] = d[j]
  BY <1>2 DEF Members
<1> HIDE DEF c, d
<1> DEFINE n == Len(c) - 1
           good == {k \in 0 .. n : \A m \in 1 .. Len(d) : c[k + 1] = d[m] => e = u}
<1>4. \A k \in 1 .. Len(c) - 1 : c[k + 1] \notin f.first
  <2> SUFFICES ASSUME NEW k \in 1 .. Len(c) - 1 PROVE c[k + 1] \notin f.first
    OBVIOUS
  <2>1. f.next[c[k]] # -1 /\ f.next[c[k]] = c[k + 1] /\ c[k] \in Entries
    BY <1>2
  <2> QED BY <2>1 DEF Threads
<1>5. \A k \in 1 .. Len(d) - 1 : d[k + 1] \notin f.first
  <2> SUFFICES ASSUME NEW k \in 1 .. Len(d) - 1 PROVE d[k + 1] \notin f.first
    OBVIOUS
  <2>1. f.next[d[k]] # -1 /\ f.next[d[k]] = d[k + 1] /\ d[k] \in Entries
    BY <1>2
  <2> QED BY <2>1 DEF Threads
<1>6. 0 \in good
  <2> SUFFICES ASSUME NEW m \in 1 .. Len(d), c[1] = d[m] PROVE e = u
    BY <1>2
  <2>1. CASE m = 1
    BY <1>2, <2>1
  <2>2. CASE m # 1
    <3> DEFINE k == m - 1
    <3>1. k \in 1 .. Len(d) - 1 /\ m = k + 1
      BY <1>2, <2>2
    <3> HIDE DEF k
    <3> QED BY <1>2, <1>5, <3>1
  <2> QED BY <2>1, <2>2
<1>7. ASSUME NEW k \in 1 .. n, k - 1 \in good PROVE k \in good
  <2> SUFFICES ASSUME NEW m \in 1 .. Len(d), c[k + 1] = d[m] PROVE e = u
    BY <1>2
  <2>1. k \in 1 .. Len(c) - 1 /\ f.next[c[k]] # -1 /\ f.next[c[k]] = c[k + 1] /\ c[k] \in Entries
    BY <1>2
  <2>2. CASE m = 1
    BY <1>2, <1>4, <2>1, <2>2
  <2>3. CASE m # 1
    <3> DEFINE l == m - 1
    <3>1. l \in 1 .. Len(d) - 1 /\ m = l + 1
      BY <1>2, <2>3
    <3> HIDE DEF l
    <3>2. f.next[d[l]] # -1 /\ f.next[d[l]] = d[m] /\ d[l] \in Entries /\ l \in 1 .. Len(d)
      BY <1>2, <3>1
    <3>3. c[k] = d[l]
      BY <2>1, <3>2 DEF Threads
    <3>4. \A x \in 1 .. Len(d) : c[(k - 1) + 1] = d[x] => e = u
      BY <1>7
    <3>5. (k - 1) + 1 = k
      BY <2>1
    <3> QED BY <3>2, <3>3, <3>4, <3>5
  <2> QED BY <2>2, <2>3
<1>8. i - 1 \in good
  <2>1. n \in Nat /\ i - 1 \in 0 .. n
    BY <1>2
  <2> HIDE DEF n, good
  <2> QED BY <1>6, <1>7, <2>1, CarriedOn
<1>9. (i - 1) + 1 = i
  BY <1>2
<1> QED BY <1>3, <1>8, <1>9

-----------------------------------------------------------------------------
(* Files that are deleted.                                                 *)

\* The entries gone, of files in use, are given up, and their blocks are freed.
Freed(g, gone, r) ==
  /\ DOMAIN r = FieldNames
  /\ r.first = g.first /\ r.next = g.next /\ r.user = g.user /\ r.out = g.out /\ r.ret = g.ret
  /\ r.alloc = g.alloc \ UNION {BlocksOf(g.directory[x]) : x \in gone}
  /\ DOMAIN r.directory = Entries
  /\ \A x \in gone : EntrySound(r.directory[x]) /\ r.directory[x].user = E5
  /\ \A x \in Entries \ gone : r.directory[x] = g.directory[x]

LEMMA FreedSound ==
  ASSUME NEW g, NEW gone, NEW r, DirectorySound(g.directory), Owned(g), Freed(g, gone, r),
         gone \subseteq InUse(g.directory)
  PROVE  /\ DirectorySound(r.directory) /\ Owned(r)
         /\ InUse(r.directory) = InUse(g.directory) \ gone
<1>1. /\ DOMAIN r.directory = Entries /\ gone \subseteq Entries
      /\ \A x \in gone : EntrySound(r.directory[x]) /\ r.directory[x].user = E5
      /\ \A x \in Entries \ gone : r.directory[x] = g.directory[x]
      /\ r.alloc = g.alloc \ UNION {BlocksOf(g.directory[x]) : x \in gone}
  BY DEF Freed, InUse
<1>2. InUse(r.directory) = InUse(g.directory) \ gone
  BY <1>1 DEF InUse
<1>3. DirectorySound(r.directory)
  <2>1. \A e \in Entries : EntrySound(r.directory[e])
    BY <1>1 DEF DirectorySound
  <2>2. ASSUME NEW x \in InUse(r.directory), NEW y \in InUse(r.directory), x # y
        PROVE  BlocksOf(r.directory[x]) \cap BlocksOf(r.directory[y]) = {}
    <3>1. /\ x \in InUse(g.directory) /\ y \in InUse(g.directory)
          /\ r.directory[x] = g.directory[x] /\ r.directory[y] = g.directory[y]
      BY <1>1, <1>2 DEF InUse
    <3> QED BY <2>2, <3>1 DEF DirectorySound
  <2> QED BY <1>1, <2>1, <2>2 DEF DirectorySound
<1>4. Owned(r)
  <2> SUFFICES ASSUME NEW b
               PROVE  b \in r.alloc <=> \/ b \in AL
                                        \/ \E e \in InUse(r.directory) : b \in BlocksOf(r.directory[e])
    BY DEF Owned
  <2>1. b \in g.alloc <=> b \in AL \/ \E e \in InUse(g.directory) : b \in BlocksOf(g.directory[e])
    BY DEF Owned
  <2>2. ASSUME NEW x \in gone, b \in BlocksOf(g.directory[x])
        PROVE  b \notin AL /\ \A e \in InUse(g.directory) : b \in BlocksOf(g.directory[e]) => e = x
    <3>1. x \in InUse(g.directory) /\ x \in Entries
      BY DEF InUse
    <3>2. g.directory[x].blk \in Seq(DataBlocks)
      BY <3>1 DEF DirectorySound, EntrySound
    <3>3. b \in DataBlocks
      BY <2>2, <3>2 DEF BlocksOf
    <3> QED BY <2>2, <3>1, <3>3 DEF DirectorySound, DataBlocks
  <2>3. b \in r.alloc <=> b \in g.alloc /\ ~ \E x \in gone : b \in BlocksOf(g.directory[x])
    BY <1>1
  <2>4. \A e \in InUse(r.directory) : r.directory[e] = g.directory[e]
    BY <1>1, <1>2 DEF InUse
  <2> QED BY <1>2, <2>1, <2>2, <2>3, <2>4
<1> QED BY <1>2, <1>3, <1>4

LEMMA DeleteFileIs ==
  ASSUME NEW g, NEW e, DOMAIN g = FieldNames, DirectorySound(g.directory), Members(g, e) \subseteq Entries
  PROVE  /\ Freed(g, Members(g, e), DeleteFile(g, e))
         /\ DeleteFile(g, e).disk = g.disk /\ DeleteFile(g, e).writes = g.writes
<1> DEFINE gone == Members(g, e)
           d == [x \in Entries |-> IF x \in gone THEN [g.directory[x] EXCEPT !.user = E5]
                                                 ELSE g.directory[x]]
           alloc == g.alloc \ UNION {BlocksOf(g.directory[x]) : x \in gone}
           r == DeleteFile(g, e)
<1>1. r = [g EXCEPT !.directory = d, !.alloc = alloc]
  BY DEF DeleteFile, Members, FieldNames
<1>2. \A x \in gone : EntrySound(d[x]) /\ d[x].user = E5
  <2> SUFFICES ASSUME NEW x \in gone PROVE EntrySound(d[x]) /\ d[x].user = E5
    OBVIOUS
  <2>1. x \in Entries /\ EntrySound(g.directory[x])
    BY DEF DirectorySound
  <2>2. d[x] = [g.directory[x] EXCEPT !.user = E5]
    BY <2>1
  <2> HIDE DEF d
  <2> QED BY <2>1, <2>2 DEF EntrySound, Nuked
<1>3. DOMAIN d = Entries /\ \A x \in Entries \ gone : d[x] = g.directory[x]
  OBVIOUS
<1> HIDE DEF r, d, gone
<1>4. r.directory = d /\ r.alloc = alloc /\ DOMAIN r = FieldNames /\ r.first = g.first
      /\ r.next = g.next /\ r.user = g.user /\ r.out = g.out /\ r.ret = g.ret /\ r.disk = g.disk
      /\ r.writes = g.writes
  BY <1>1 DEF FieldNames
<1>5. Freed(g, gone, r)
  BY <1>2, <1>3, <1>4 DEF Freed
<1> QED BY <1>4, <1>5 DEF r, gone

\* What holds at first and from round to round holds at the end.
LEMMA AtTheEnd ==
  ASSUME NEW n \in Nat, NEW good, 0 \in good,
         \A k \in 1 .. n : k - 1 \in good => k \in good
  PROVE  n \in good
<1>1. \A k \in 0 .. n : k \in good
  BY CarriedOn
<1>2. n \in 0 .. n
  OBVIOUS
<1> QED BY <1>1, <1>2

LEMMA JoinedIs ==
  ASSUME NEW S, NEW ss \in Seq(Seq(S))
  PROVE  Joined(ss) \in Seq(S)
<1> DEFINE n == Len(ss)
           V == Seq(S)
           T == [p \in V \X (1 .. n) |-> p[1] \o ss[p[2]]]
           Solves(g) == g = [i \in 0 .. n |-> IF i = 0 THEN <<>> ELSE g[i - 1] \o ss[i]]
           join == CHOOSE g : Solves(g)
           good == {k \in 0 .. n : join[k] \in V}
<1>1. n \in Nat /\ <<>> \in V /\ (\A k \in 1 .. n : ss[k] \in V)
  OBVIOUS
<1>2. \A s \in V, k \in 1 .. n : s \o ss[k] \in V
  BY <1>1
<1>3. T \in [V \X (1 .. n) -> V] /\ \A s \in V, k \in 1 .. n : T[<<s, k>>] = s \o ss[k]
  <2> HIDE DEF V, n
  <2> QED BY <1>2
<1>4. PICK g \in [0 .. n -> V] : LoopValues(g, n, <<>>, T)
  <2> HIDE DEF V, T, n
  <2> QED BY <1>1, <1>3, LoopHasValues
<1>5. Solves(g)
  <2>1. ASSUME NEW k \in 0 .. n PROVE g[k] = IF k = 0 THEN <<>> ELSE g[k - 1] \o ss[k]
    <3> HIDE DEF V, T, n
    <3>1. CASE k = 0
      BY <1>4, <3>1 DEF LoopValues
    <3>2. CASE k # 0
      <4>1. k \in 1 .. n /\ k - 1 \in 0 .. n
        BY <1>1, <3>2
      <4>2. g[k] = T[<<g[k - 1], k>>] /\ g[k - 1] \in V
        BY <1>4, <3>2, <4>1 DEF LoopValues
      <4> QED BY <1>3, <3>2, <4>1, <4>2
    <3> QED BY <3>1, <3>2
  <2>2. g = [k \in 0 .. n |-> g[k]]
    BY <1>4
  <2> HIDE DEF V, T, n
  <2> QED BY <2>1, <2>2
<1>6. Solves(join)
  <2> HIDE DEF Solves
  <2> QED BY <1>5
<1>7. Joined(ss) = join[n]
  BY DEF Joined
<1> HIDE DEF join
<1>8. \A k \in 0 .. n : join[k] = IF k = 0 THEN <<>> ELSE join[k - 1] \o ss[k]
  BY <1>6
<1> HIDE DEF V, T, n, Solves
<1>9. join[0] = <<>> /\ \A k \in 1 .. n : join[k] = join[k - 1] \o ss[k]
  <2>1. 0 \in 0 .. n /\ \A k \in 1 .. n : k \in 0 .. n /\ k # 0
    BY <1>1
  <2> QED BY <1>8, <2>1
<1>10. 0 \in good /\ \A k \in 1 .. n : k - 1 \in good => k \in good
  <2>1. 0 \in good
    BY <1>1, <1>9
  <2>2. ASSUME NEW k \in 1 .. n, k - 1 \in good PROVE k \in good
    <3>1. join[k - 1] \in V /\ join[k] = join[k - 1] \o ss[k] /\ k \in 0 .. n
      BY <1>1, <1>9, <2>2
    <3>2. join[k] \in V
      BY <1>2, <3>1
    <3> QED BY <3>1, <3>2
  <2> QED BY <2>1, <2>2
<1>11. n \in good
  <2> HIDE DEF good
  <2> QED BY <1>1, <1>10, AtTheEnd
<1> QED BY <1>7, <1>11 DEF V

\* A command that leaves the memory as it is while it writes blocks of data.
Kept(f, g) == Unlinked(g) /\ Alike(f, g) /\ g.out = f.out /\ g.ret = f.ret /\ g.why = f.why

LEMMA NukeBlocksOK ==
  ASSUME NEW f, NEW order, Unlinked(f), IsSeq(order),
         \A i \in 1 .. Len(order) : order[i] \in Blocks /\ order[i] \notin 0 .. DBL - 1
  PROVE  Kept(f, nuke_blocks(f, order))
<1> DEFINE n == Len(order)
           W(g, i) == write_block(g, order[i], Filler)
           Run(h, m) == h = [i \in 0 .. m |-> IF i = 0 THEN f ELSE W(h[i - 1], i)]
           has == {m \in 0 .. n : \E h : Run(h, m)}
           loop == CHOOSE h : Run(h, n)
           good == {m \in 0 .. n : Kept(f, loop[m])}
<1>1. n \in Nat /\ 0 \in 0 .. n
  BY SeqHasLength
<1>2. ASSUME NEW g, Kept(f, g), NEW i \in 1 .. n PROVE Kept(f, W(g, i))
  <2>1. Unlinked(g) /\ DOMAIN g = FieldNames
    BY <1>2 DEF Kept, Unlinked
  <2>2. Unlinked(W(g, i)) /\ Alike(g, W(g, i))
    BY <1>2, <2>1, WriteBlockOK
  <2>3. W(g, i).out = g.out /\ W(g, i).ret = g.ret /\ W(g, i).why = g.why
    <3>1. BlockWritten(g, order[i], AsWritten(order[i], Filler), W(g, i))
      BY <2>1, WriteBlockIs
    <3> HIDE DEF W
    <3> QED BY <3>1 DEF BlockWritten
  <2> HIDE DEF W
  <2> QED BY <1>2, <2>2, <2>3, AlikeAgain DEF Kept
<1>3. nuke_blocks(f, order) = loop[n]
  BY DEF nuke_blocks
<1> HIDE DEF W, n
<1>4. n \in has
  <2>1. 0 \in has
    <3>1. Run([i \in 0 .. 0 |-> f], 0)
      OBVIOUS
    <3> HIDE DEF Run
    <3> QED BY <1>1, <3>1
  <2>2. ASSUME NEW m \in 1 .. n, m - 1 \in has PROVE m \in has
    <3>1. PICK h : Run(h, m - 1)
      BY <2>2
    <3> DEFINE g == [i \in 0 .. m |-> IF i = m THEN W(h[m - 1], m) ELSE h[i]]
    <3>2. ASSUME NEW i \in 0 .. m PROVE g[i] = IF i = 0 THEN f ELSE W(g[i - 1], i)
      <4>1. i # m => i \in 0 .. m - 1
        BY <1>1
      <4>2. i # 0 => i - 1 \in 0 .. m /\ i - 1 # m
        BY <1>1
      <4> QED BY <3>1, <4>1, <4>2
    <3>3. Run(g, m)
      BY <3>2
    <3>4. m \in 0 .. n
      BY <1>1
    <3> HIDE DEF g, Run
    <3> QED BY <3>3, <3>4
  <2> HIDE DEF has
  <2> QED BY <1>1, <2>1, <2>2, AtTheEnd
<1>5. Run(loop, n)
  <2> HIDE DEF Run
  <2> QED BY <1>4
<1> HIDE DEF loop
<1>6. loop[0] = f /\ \A i \in 1 .. n : loop[i] = W(loop[i - 1], i)
  <2>1. \A i \in 0 .. n : loop[i] = IF i = 0 THEN f ELSE W(loop[i - 1], i)
    BY <1>5
  <2>2. \A i \in 1 .. n : i \in 0 .. n /\ i # 0
    BY <1>1
  <2> QED BY <1>1, <2>1, <2>2
<1> HIDE DEF has, Run
<1>7. Kept(f, f)
  BY DEF Kept, Alike, Unlinked
<1>8. 0 \in good /\ \A m \in 1 .. n : m - 1 \in good => m \in good
  BY <1>1, <1>2, <1>6, <1>7
<1>9. n \in good
  <2> HIDE DEF good
  <2> QED BY <1>1, <1>8, AtTheEnd
<1> QED BY <1>3, <1>9

-----------------------------------------------------------------------------
(* Numbers in increasing order.                                            *)

\* The numbers of S below n, in increasing order.
Ascending(s, S, n) ==
  /\ s \in Seq(S) /\ Len(s) \in Nat /\ DOMAIN s = 1 .. Len(s)
  /\ \A i \in 1 .. Len(s) : s[i] \in Nat /\ s[i] < n
  /\ \A i, j \in 1 .. Len(s) : s[i] = s[j] => i = j

NextNumber(s, S, n) == IF n - 1 \in S THEN Append(s, n - 1) ELSE s

LEMMA AscendingOn ==
  ASSUME NEW S, NEW n \in Nat \ {0}, NEW s, Ascending(s, S, n - 1)
  PROVE  Ascending(NextNumber(s, S, n), S, n)
<1>1. CASE n - 1 \notin S
  BY <1>1 DEF Ascending, NextNumber
<1>2. CASE n - 1 \in S
  <2> DEFINE a == Append(s, n - 1)
  <2>1. /\ s \in Seq(S) /\ Len(s) \in Nat
        /\ \A i \in 1 .. Len(s) : s[i] \in Nat /\ s[i] < n - 1
        /\ \A i, j \in 1 .. Len(s) : s[i] = s[j] => i = j
    BY DEF Ascending
  <2>2. /\ a \in Seq(S) /\ Len(a) = Len(s) + 1 /\ DOMAIN a = 1 .. Len(a)
        /\ a[Len(s) + 1] = n - 1 /\ \A i \in 1 .. Len(s) : a[i] = s[i]
    BY <1>2, <2>1
  <2> HIDE DEF a
  <2>3. \A i \in 1 .. Len(a) : i = Len(s) + 1 \/ i \in 1 .. Len(s)
    BY <2>1, <2>2
  <2>4. \A i \in 1 .. Len(a) : a[i] \in Nat /\ a[i] < n
    BY <2>1, <2>2, <2>3
  <2>5. \A i, j \in 1 .. Len(a) : a[i] = a[j] => i = j
    BY <2>1, <2>2, <2>3
  <2>6. Ascending(a, S, n)
    BY <2>1, <2>2, <2>4, <2>5 DEF Ascending
  <2> QED BY <1>2, <2>6 DEF NextNumber, a
<1> QED BY <1>1, <1>2

LEMMA IncreasingIs ==
  ASSUME NEW S
  PROVE  /\ Increasing(S) \in Seq(S) /\ IsSeq(Increasing(S)) /\ Len(Increasing(S)) \in Nat
         /\ \A i \in 1 .. Len(Increasing(S)) : Increasing(S)[i] \in S
         /\ \A i, j \in 1 .. Len(Increasing(S)) : Increasing(S)[i] = Increasing(S)[j] => i = j
<1> DEFINE n == DRM + DSM + 1
           V == Seq(S)
           T == [p \in V \X (1 .. n) |-> NextNumber(p[1], S, p[2])]
           Solves(g) == g = [k \in 0 .. n |->
                               IF k = 0 THEN <<>>
                               ELSE IF k - 1 \in S THEN Append(g[k - 1], k - 1) ELSE g[k - 1]]
           loop == CHOOSE g : Solves(g)
           good == {k \in 0 .. n : Ascending(loop[k], S, k)}
<1>1. n \in Nat /\ 0 \in 0 .. n /\ <<>> \in V
  BY Sizes
<1>2. \A s \in V, k \in 1 .. n : NextNumber(s, S, k) \in V
  BY DEF NextNumber
<1>3. T \in [V \X (1 .. n) -> V] /\ \A s \in V, k \in 1 .. n : T[<<s, k>>] = NextNumber(s, S, k)
  <2> HIDE DEF V, n
  <2> QED BY <1>2
<1>4. PICK g \in [0 .. n -> V] : LoopValues(g, n, <<>>, T)
  <2> HIDE DEF V, T, n
  <2> QED BY <1>1, <1>3, LoopHasValues
<1>5. Solves(g)
  <2>1. ASSUME NEW k \in 0 .. n PROVE g[k] = IF k = 0 THEN <<>> ELSE NextNumber(g[k - 1], S, k)
    <3> HIDE DEF V, T, n
    <3>1. CASE k = 0
      BY <1>4, <3>1 DEF LoopValues
    <3>2. CASE k # 0
      <4>1. k \in 1 .. n /\ k - 1 \in 0 .. n
        BY <1>1, <3>2
      <4>2. g[k] = T[<<g[k - 1], k>>] /\ g[k - 1] \in V
        BY <1>4, <3>2, <4>1 DEF LoopValues
      <4> QED BY <1>3, <3>2, <4>1, <4>2
    <3> QED BY <3>1, <3>2
  <2>2. g = [k \in 0 .. n |-> g[k]]
    BY <1>4
  <2> HIDE DEF V, T, n
  <2> QED BY <2>1, <2>2 DEF NextNumber
<1>6. Solves(loop)
  <2> HIDE DEF Solves
  <2> QED BY <1>5
<1>7. Increasing(S) = loop[n]
  BY DEF Increasing
<1> HIDE DEF loop
<1>8. loop[0] = <<>> /\ \A k \in 1 .. n : loop[k] = NextNumber(loop[k - 1], S, k)
  <2>1. \A k \in 0 .. n : loop[k] = IF k = 0 THEN <<>> ELSE NextNumber(loop[k - 1], S, k)
    BY <1>6 DEF NextNumber
  <2> HIDE DEF n
  <2>2. \A k \in 1 .. n : k \in 0 .. n /\ k # 0
    BY <1>1
  <2> QED BY <1>1, <2>1, <2>2
<1> HIDE DEF V, T, n, Solves
<1>9. 0 \in good
  <2>1. Ascending(<<>>, S, 0)
    BY DEF Ascending
  <2> QED BY <1>1, <1>8, <2>1
<1>10. ASSUME NEW k \in 1 .. n, k - 1 \in good PROVE k \in good
  <2>1. k \in Nat \ {0} /\ k \in 0 .. n /\ Ascending(loop[k - 1], S, k - 1)
    BY <1>1, <1>10
  <2>2. Ascending(loop[k], S, k)
    BY <1>8, <2>1, AscendingOn
  <2> QED BY <2>1, <2>2
<1>11. n \in good
  <2> HIDE DEF good
  <2> QED BY <1>1, <1>9, <1>10, AtTheEnd
<1>12. Ascending(loop[n], S, n)
  BY <1>11
<1>13. Ascending(Increasing(S), S, n)
  BY <1>7, <1>12
<1> DEFINE s == Increasing(S)
<1> HIDE DEF s
<1>14. s \in Seq(S) /\ Len(s) \in Nat /\ DOMAIN s = 1 .. Len(s)
       /\ \A i, j \in 1 .. Len(s) : s[i] = s[j] => i = j
  BY <1>13 DEF Ascending, s
<1> QED BY <1>14 DEF IsSeq, s

-----------------------------------------------------------------------------
(* delete, nuke and clean.                                                 *)

\* The same but for entries that are not in use.
Idle(g, r) ==
  /\ DOMAIN r = FieldNames
  /\ r.alloc = g.alloc /\ r.user = g.user /\ r.disk = g.disk /\ r.writes = g.writes
  /\ r.out = g.out /\ r.ret = g.ret
  /\ DOMAIN r.directory = Entries
  /\ \A x \in Entries : \/ r.directory[x] = g.directory[x]
                        \/ /\ x \notin InUse(g.directory)
                           /\ EntrySound(r.directory[x]) /\ r.directory[x].user = E5

LEMMA IdleOK ==
  ASSUME NEW g, NEW r, Unlinked(g), Idle(g, r)
  PROVE  Unlinked(r) /\ InUse(r.directory) = InUse(g.directory)
<1>1. InUse(r.directory) = InUse(g.directory)
  BY DEF Idle, InUse
<1>2. \A x \in InUse(g.directory) : r.directory[x] = g.directory[x]
  BY DEF Idle, InUse
<1>3. DirectorySound(r.directory)
  <2>1. \A e \in Entries : EntrySound(r.directory[e])
    BY DEF Idle, Unlinked, DirectorySound
  <2>2. \A x, y \in InUse(r.directory) :
          x # y => BlocksOf(r.directory[x]) \cap BlocksOf(r.directory[y]) = {}
    BY <1>1, <1>2 DEF Unlinked, DirectorySound
  <2> QED BY <2>1, <2>2 DEF Idle, DirectorySound
<1>4. Owned(r)
  BY <1>1, <1>2 DEF Idle, Unlinked, Owned
<1> QED BY <1>1, <1>3, <1>4 DEF Idle, Unlinked

\* A file that is given up.
Erased(g, e, r) ==
  /\ Unlinked(r) /\ r.first = g.first /\ r.next = g.next
  /\ InUse(r.directory) = InUse(g.directory) \ Members(g, e)

LEMMA DeleteFileOK ==
  ASSUME NEW g, NEW e, Unlinked(g), Members(g, e) \subseteq InUse(g.directory)
  PROVE  Erased(g, e, DeleteFile(g, e))
<1> DEFINE r == DeleteFile(g, e)
<1>1. Members(g, e) \subseteq Entries
  BY DEF InUse
<1>2. Freed(g, Members(g, e), r) /\ r.disk = g.disk /\ r.writes = g.writes
  BY <1>1, DeleteFileIs DEF Unlinked
<1> HIDE DEF r
<1>3. /\ DirectorySound(r.directory) /\ Owned(r)
      /\ InUse(r.directory) = InUse(g.directory) \ Members(g, e)
  BY <1>2, FreedSound DEF Unlinked
<1>4. /\ DOMAIN r = FieldNames /\ r.first = g.first /\ r.next = g.next /\ r.user = g.user
      /\ r.out = g.out /\ r.ret = g.ret
  BY <1>2 DEF Freed
<1>5. Unlinked(r)
  BY <1>2, <1>3, <1>4 DEF Unlinked
<1> QED BY <1>3, <1>4, <1>5 DEF Erased, r

LEMMA NukedIsSound == EntrySound(Nuked) /\ Nuked.user = E5
<1>1. <<>> \in Seq(DataBlocks)
  OBVIOUS
<1> QED BY <1>1 DEF EntrySound, Nuked, E5

LEMMA NukeFileOK ==
  ASSUME NEW f, NEW e, Unlinked(f), Members(f, e) \subseteq InUse(f.directory), NEW c,
         c = Chain(f, e), c \in Seq(Entries)
  PROVE  Erased(f, e, NukeFile(f, e))
<1> DEFINE gone == Members(f, e)
           h == DeleteFile(f, e)
           order == Joined([i \in DOMAIN c |-> f.directory[c[i]].blk])
           g == nuke_blocks(h, order)
           d == [x \in Entries |-> IF x \in gone THEN Nuked ELSE g.directory[x]]
           r == NukeFile(f, e)
<1>1. Erased(f, e, h)
  BY DeleteFileOK
<1>2. order \in Seq(DataBlocks)
  <2> DEFINE ss == [i \in DOMAIN c |-> f.directory[c[i]].blk]
  <2>1. Len(c) \in Nat /\ DOMAIN c = 1 .. Len(c) /\ \A i \in 1 .. Len(c) : c[i] \in Entries
    OBVIOUS
  <2>2. \A i \in 1 .. Len(c) : f.directory[c[i]].blk \in Seq(DataBlocks)
    BY <2>1 DEF Unlinked, DirectorySound, EntrySound
  <2>3. ss \in Seq(Seq(DataBlocks))
    BY <2>1, <2>2
  <2> HIDE DEF ss
  <2> QED BY <2>3, JoinedIs DEF ss
<1>3. r = [g EXCEPT !.directory = d]
  BY DEF NukeFile, Members
<1> HIDE DEF order, h, r
<1>4. Kept(h, g)
  <2>1. IsSeq(order) /\ DOMAIN order = 1 .. Len(order)
    BY <1>2 DEF IsSeq
  <2>2. \A i \in 1 .. Len(order) : order[i] \in DataBlocks
    BY <1>2
  <2>3. Unlinked(h)
    BY <1>1 DEF Erased
  <2> HIDE DEF g
  <2> QED BY <2>1, <2>2, <2>3, DataBlocksAre, NukeBlocksOK DEF g
<1> HIDE DEF g
<1>5. /\ Unlinked(g) /\ g.first = f.first /\ g.next = f.next
      /\ InUse(g.directory) = InUse(f.directory) \ gone
  BY <1>1, <1>4 DEF Kept, Alike, Erased
<1>6. DOMAIN d = Entries /\ \A x \in Entries : d[x] = IF x \in gone THEN Nuked ELSE g.directory[x]
  OBVIOUS
<1> HIDE DEF d, gone
<1>7. /\ DOMAIN r = FieldNames /\ r.directory = d /\ r.first = g.first /\ r.next = g.next
      /\ r.alloc = g.alloc /\ r.user = g.user /\ r.disk = g.disk /\ r.writes = g.writes
      /\ r.out = g.out /\ r.ret = g.ret
  BY <1>3, <1>5 DEF Unlinked, FieldNames
<1>8. Idle(g, r)
  BY <1>5, <1>6, <1>7, NukedIsSound DEF Idle
<1>9. Unlinked(r) /\ InUse(r.directory) = InUse(g.directory)
  BY <1>5, <1>8, IdleOK
<1>10. Erased(f, e, r)
  BY <1>5, <1>7, <1>9 DEF Erased, gone
<1> QED BY <1>10 DEF r

LEMMA ChainSame ==
  ASSUME NEW f, NEW g, g.next = f.next, NEW e
  PROVE  Chain(g, e) = Chain(f, e) /\ Members(g, e) = Members(f, e)
<1>1. Chain(g, e) = Chain(f, e)
  BY DEF Chain
<1> QED BY <1>1 DEF Members

\* While files are given up, the entries of those from n on are in use.
Erasing(f, g, n) ==
  /\ Unlinked(g) /\ g.first = f.first /\ g.next = f.next
  /\ \A x \in f.first : x >= n => Members(f, x) \subseteq InUse(g.directory)

LEMMA ErasingOn ==
  ASSUME NEW f, Threads(f), NEW g, NEW e \in f.first, Erasing(f, g, e), NEW nuking
  PROVE  Erasing(f, EraseFile(g, e, nuking), e + 1)
<1> DEFINE r == EraseFile(g, e, nuking)
<1>1. f.first \subseteq Entries /\ \A x \in f.first : x \in Nat
  BY EntriesAre DEF Threads, InUse
<1>2. Chain(g, e) = Chain(f, e) /\ Members(g, e) = Members(f, e)
  BY ChainSame DEF Erasing
<1>3. Chain(f, e) \in Seq(Entries)
  BY <1>1, ChainIs DEF Thread
<1>4. Members(g, e) \subseteq InUse(g.directory)
  BY <1>1, <1>2 DEF Erasing
<1>5. Erased(g, e, r)
  <2>1. CASE nuking
    BY <1>2, <1>3, <1>4, <2>1, NukeFileOK DEF EraseFile, Erasing
  <2>2. CASE ~ nuking
    BY <1>4, <2>2, DeleteFileOK DEF EraseFile, Erasing
  <2> QED BY <2>1, <2>2
<1> HIDE DEF r
<1>6. ASSUME NEW x \in f.first, x >= e + 1
      PROVE  Members(f, x) \subseteq InUse(r.directory)
  <2>1. x # e /\ x >= e
    BY <1>1, <1>6
  <2>2. Members(f, x) \cap Members(f, e) = {}
    BY <2>1, MembersApart
  <2>3. Members(f, x) \subseteq InUse(g.directory)
    BY <2>1 DEF Erasing
  <2>4. InUse(r.directory) = InUse(g.directory) \ Members(f, e)
    BY <1>2, <1>5 DEF Erased
  <2> QED BY <2>2, <2>3, <2>4
<1>7. Unlinked(r) /\ r.first = f.first /\ r.next = f.next
  BY <1>5 DEF Erased, Erasing
<1> QED BY <1>6, <1>7 DEF Erasing, r

LEMMA ErasingSkips ==
  ASSUME NEW f, Threads(f), NEW g, NEW e \in Nat, Erasing(f, g, e)
  PROVE  Erasing(f, g, e + 1)
<1>1. \A x \in f.first : x \in Nat
  BY EntriesAre DEF Threads, InUse
<1> QED BY <1>1 DEF Erasing

LEMMA EraseOK ==
  ASSUME NEW f, OK(f), NEW pat, NEW silent, NEW yes, NEW nuking
  PROVE  OK(Erase(f, pat, silent, yes, nuking))
<1> DEFINE n == DRM + 1
           pattern == Pattern(f, pat)
           D(g, e) == IF g.directory[e].readonly /\ ~silent /\ ~yes THEN g ELSE EraseFile(g, e, nuking)
           W(g, i) == IF i - 1 \in g.first /\ Matches(g, pattern, i - 1) THEN D(g, i - 1) ELSE g
           Run(h, m) == h = [i \in 0 .. m |-> IF i = 0 THEN f ELSE W(h[i - 1], i)]
           has == {m \in 0 .. n : \E h : Run(h, m)}
           loop == CHOOSE h : Run(h, n)
           good == {m \in 0 .. n : Erasing(f, loop[m], m)}
<1>1. n \in Nat /\ 0 \in 0 .. n
  BY Sizes
<1>2. ASSUME NEW i \in 1 .. n, NEW g, Erasing(f, g, i - 1) PROVE Erasing(f, W(g, i), i)
  <2> DEFINE e == i - 1
  <2>1. e \in Nat /\ i = e + 1
    BY <1>1
  <2> HIDE DEF e
  <2>2. CASE e \in g.first /\ Matches(g, pattern, e) /\ ~ (g.directory[e].readonly /\ ~silent /\ ~yes)
    <3>1. e \in f.first /\ Erasing(f, g, e)
      BY <1>2, <2>2 DEF Erasing, e
    <3>2. Erasing(f, EraseFile(g, e, nuking), e + 1)
      BY <3>1, ErasingOn DEF OK
    <3>3. W(g, i) = EraseFile(g, e, nuking)
      BY <2>2 DEF e
    <3> QED BY <2>1, <3>2, <3>3
  <2>3. CASE ~ (e \in g.first /\ Matches(g, pattern, e) /\ ~ (g.directory[e].readonly /\ ~silent /\ ~yes))
    <3>1. W(g, i) = g
      BY <2>3 DEF e
    <3>2. Erasing(f, g, e + 1)
      BY <1>2, <2>1, ErasingSkips DEF OK, e
    <3> QED BY <2>1, <3>1, <3>2
  <2> QED BY <2>2, <2>3
<1>3. \/ Erase(f, pat, silent, yes, nuking) = f
      \/ Erase(f, pat, silent, yes, nuking) = Updated(loop[n])
  BY DEF Erase, ForEach
<1> HIDE DEF W, n
<1>4. n \in has
  <2>1. 0 \in has
    <3>1. Run([i \in 0 .. 0 |-> f], 0)
      OBVIOUS
    <3> HIDE DEF Run
    <3> QED BY <1>1, <3>1
  <2>2. ASSUME NEW m \in 1 .. n, m - 1 \in has PROVE m \in has
    <3>1. PICK h : Run(h, m - 1)
      BY <2>2
    <3> DEFINE g == [i \in 0 .. m |-> IF i = m THEN W(h[m - 1], m) ELSE h[i]]
    <3>2. ASSUME NEW i \in 0 .. m PROVE g[i] = IF i = 0 THEN f ELSE W(g[i - 1], i)
      <4>1. i # m => i \in 0 .. m - 1
        BY <1>1
      <4>2. i # 0 => i - 1 \in 0 .. m /\ i - 1 # m
        BY <1>1
      <4> QED BY <3>1, <4>1, <4>2
    <3>3. Run(g, m)
      BY <3>2
    <3>4. m \in 0 .. n
      BY <1>1
    <3> HIDE DEF g, Run
    <3> QED BY <3>3, <3>4
  <2> HIDE DEF has
  <2> QED BY <1>1, <2>1, <2>2, AtTheEnd
<1>5. Run(loop, n)
  <2> HIDE DEF Run
  <2> QED BY <1>4
<1> HIDE DEF loop
<1>6. loop[0] = f /\ \A i \in 1 .. n : loop[i] = W(loop[i - 1], i)
  <2>1. \A i \in 0 .. n : loop[i] = IF i = 0 THEN f ELSE W(loop[i - 1], i)
    BY <1>5
  <2>2. \A i \in 1 .. n : i \in 0 .. n /\ i # 0
    BY <1>1
  <2> QED BY <1>1, <2>1, <2>2
<1> HIDE DEF has, Run
<1>7. Erasing(f, f, 0)
  BY MembersInUse DEF Erasing, OK
<1>8. 0 \in good /\ \A m \in 1 .. n : m - 1 \in good => m \in good
  BY <1>1, <1>2, <1>6, <1>7
<1>9. n \in good
  <2> HIDE DEF good
  <2> QED BY <1>1, <1>8, AtTheEnd
<1>10. Unlinked(loop[n])
  BY <1>9 DEF Erasing
<1> QED BY <1>3, <1>10, UpdatedOK

LEMMA CleanOK == ASSUME NEW f, OK(f) PROVE OK(clean(f))
<1> DEFINE used == AL \cup UNION {BlocksOf(f.directory[e]) : e \in InUse(f.directory)}
           order == Increasing(Blocks \ used)
           g == nuke_blocks(f, order)
           d == [e \in Entries |-> IF g.directory[e].user = E5 THEN Nuked ELSE g.directory[e]]
           r == [g EXCEPT !.directory = d]
<1>1. clean(f) = Updated(r)
  BY DEF clean
<1>2. Kept(f, g)
  <2>1. IsSeq(order) /\ \A i \in 1 .. Len(order) : order[i] \in Blocks \ used
    BY IncreasingIs
  <2>2. \A b \in Blocks \ used : b \notin 0 .. DBL - 1
    BY Sizes
  <2> HIDE DEF order, used
  <2> QED BY <2>1, <2>2, NukeBlocksOK DEF OK
<1> HIDE DEF g
<1>3. Unlinked(g)
  BY <1>2 DEF Kept
<1>4. DOMAIN d = Entries /\ \A x \in Entries : d[x] = IF g.directory[x].user = E5 THEN Nuked ELSE g.directory[x]
  OBVIOUS
<1> HIDE DEF d
<1>5. /\ DOMAIN r = FieldNames /\ r.directory = d
      /\ r.alloc = g.alloc /\ r.user = g.user /\ r.disk = g.disk /\ r.writes = g.writes
      /\ r.out = g.out /\ r.ret = g.ret
  BY <1>3 DEF Unlinked, FieldNames
<1> HIDE DEF r
<1>6. Idle(g, r)
  BY <1>4, <1>5, NukedIsSound DEF Idle, InUse
<1>7. Unlinked(r)
  BY <1>3, <1>6, IdleOK
<1> QED BY <1>1, <1>7, UpdatedOK

-----------------------------------------------------------------------------
(* put_directory.                                                          *)

LEMMA PartSound ==
  ASSUME NEW d, NEW s, DirectorySound(d), DOMAIN s = Entries,
         \A e \in Entries : s[e] = d[e] \/ s[e] = Nuked
  PROVE  DirectorySound(s)
<1>1. \A e \in InUse(s) : e \in InUse(d) /\ s[e] = d[e]
  BY NukedIsSound DEF InUse
<1>2. \A e \in Entries : EntrySound(s[e])
  BY NukedIsSound DEF DirectorySound
<1> QED BY <1>1, <1>2 DEF DirectorySound

\* While the directory d is saved: its first n blocks are written, or what a
\* failed write leaves.
Saved(d, image, n) ==
  /\ DOMAIN image = Blocks
  /\ \A x \in 0 .. n - 1 : image[x] \in {Damaged, DirBlock(d, x)}

LEMMA SavedIsSound ==
  ASSUME NEW d, NEW image, DirectorySound(d), Saved(d, image, DBL)
  PROVE  ImageSound(image)
<1> DEFINE s == StoredEntries(image)
<1>1. ASSUME NEW e \in Entries PROVE s[e] = d[e] \/ s[e] = Nuked
  <2> DEFINE q == e \div PerBlock
             t == e % PerBlock
  <2>1. q \in 0 .. DBL - 1 /\ t \in 0 .. PerBlock - 1 /\ q * PerBlock + t = e
    BY PlaceOf
  <2>2. s[e] = IF image[q].kind = "directory" THEN image[q].entry[t] ELSE Nuked
    BY DEF StoredEntries
  <2> HIDE DEF q, t, s
  <2>3. CASE image[q] = Damaged
    BY <2>2, <2>3 DEF Damaged
  <2>4. CASE image[q] = DirBlock(d, q)
    <3>1. DirBlock(d, q).entry[t] = d[e]
      BY <2>1 DEF DirBlock
    <3> QED BY <2>2, <2>4, <3>1
  <2> QED BY <2>1, <2>3, <2>4 DEF Saved
<1>2. DOMAIN s = Entries
  BY DEF StoredEntries
<1> HIDE DEF s
<1>3. DirectorySound(s)
  BY <1>1, <1>2, PartSound
<1> QED BY <1>3 DEF ImageSound, Saved, s

Saving(f, g, n) ==
  /\ DOMAIN g = FieldNames /\ Alike(f, g) /\ g.out = f.out /\ g.ret = f.ret
  /\ Way(disk, g.writes, g.disk) /\ Saved(f.directory, g.disk, n)
  /\ n = 0 => ImageSound(g.disk)

LEMMA SavingOn ==
  ASSUME NEW f, NEW n \in 0 .. DBL - 1, NEW g, Saving(f, g, n), NEW r,
         r = write_block(g, n, DirBlock(f.directory, n))
  PROVE  Saving(f, r, n + 1)
<1> DEFINE written == AsWritten(n, DirBlock(f.directory, n))
<1>1. n \in Blocks /\ n \in Nat /\ (n \notin 1 .. DBL - 1 => n = 0)
  BY Sizes DEF Blocks
<1>2. BlockWritten(g, n, written, r)
  BY WriteBlockIs DEF Saving
<1>3. written \in {Damaged, DirBlock(f.directory, n)}
  BY DEF AsWritten
<1> HIDE DEF written
<1>4. /\ Alike(g, r) /\ r.out = g.out /\ r.ret = g.ret
      /\ r.disk = [g.disk EXCEPT ![n] = written] /\ r.writes = Append(g.writes, <<n, written>>)
  BY <1>2 DEF BlockWritten
<1>5. Way(disk, r.writes, r.disk)
  BY <1>1, <1>4, WayOn DEF Saving, ImageSound
<1>6. Saved(f.directory, r.disk, n + 1)
  <2>1. DOMAIN r.disk = Blocks
    BY <1>4 DEF Saving, Saved
  <2>2. ASSUME NEW x \in 0 .. (n + 1) - 1 PROVE r.disk[x] \in {Damaged, DirBlock(f.directory, x)}
    <3>1. CASE x = n
      BY <1>1, <1>3, <1>4, <3>1 DEF Saving, Saved
    <3>2. CASE x # n
      <4>1. x \in 0 .. n - 1
        BY <1>1, <3>2
      <4>2. r.disk[x] = g.disk[x]
        BY <1>4, <3>2
      <4> QED BY <4>1, <4>2 DEF Saving, Saved
    <3> QED BY <3>1, <3>2
  <2> QED BY <2>1, <2>2 DEF Saved
<1>7. Alike(f, r) /\ DOMAIN r = FieldNames /\ r.out = f.out /\ r.ret = f.ret
  BY <1>4, AlikeAgain DEF Saving, Alike
<1>8. n + 1 # 0
  BY <1>1
<1> QED BY <1>5, <1>6, <1>7, <1>8 DEF Saving

LEMMA PutDirectoryOK == ASSUME NEW f, OK(f) PROVE OK(put_directory(f))
<1> DEFINE n == DBL
           c == [f EXCEPT !.dirty = FALSE]
           W(g, i) == write_block(g, i - 1, DirBlock(f.directory, i - 1))
           Run(h, m) == h = [i \in 0 .. m |-> IF i = 0 THEN c ELSE W(h[i - 1], i)]
           has == {m \in 0 .. n : \E h : Run(h, m)}
           loop == CHOOSE h : Run(h, n)
           good == {m \in 0 .. n : Saving(f, loop[m], m)}
<1>1. n \in Nat /\ 0 \in 0 .. n
  BY Sizes
<1>2. ASSUME NEW i \in 1 .. n, NEW g, Saving(f, g, i - 1) PROVE Saving(f, W(g, i), i)
  <2> DEFINE b == i - 1
             r == W(g, i)
  <2>1. b \in 0 .. DBL - 1 /\ i = b + 1
    BY <1>1
  <2>2. r = write_block(g, b, DirBlock(f.directory, b)) /\ Saving(f, g, b)
    BY <1>2
  <2> HIDE DEF b, r
  <2>3. Saving(f, r, b + 1)
    BY <2>1, <2>2, SavingOn
  <2> QED BY <2>1, <2>3 DEF r
<1>3. put_directory(f) = f \/ put_directory(f) = loop[n]
  BY DEF put_directory
<1>4. Saving(f, c, 0)
  <2>1. DOMAIN f = FieldNames
    BY DEF OK, Unlinked
  <2>2. /\ DOMAIN c = FieldNames /\ Alike(f, c) /\ c.out = f.out /\ c.ret = f.ret
        /\ c.disk = f.disk /\ c.writes = f.writes
    BY <2>1 DEF Alike, FieldNames
  <2> HIDE DEF c
  <2> QED BY <2>2 DEF Saving, Saved, OK, Unlinked, ImageSound
<1> HIDE DEF W, n, c
<1>5. n \in has
  <2>1. 0 \in has
    <3>1. Run([i \in 0 .. 0 |-> c], 0)
      OBVIOUS
    <3> HIDE DEF Run
    <3> QED BY <1>1, <3>1
  <2>2. ASSUME NEW m \in 1 .. n, m - 1 \in has PROVE m \in has
    <3>1. PICK h : Run(h, m - 1)
      BY <2>2
    <3> DEFINE g == [i \in 0 .. m |-> IF i = m THEN W(h[m - 1], m) ELSE h[i]]
    <3>2. ASSUME NEW i \in 0 .. m PROVE g[i] = IF i = 0 THEN c ELSE W(g[i - 1], i)
      <4>1. i # m => i \in 0 .. m - 1
        BY <1>1
      <4>2. i # 0 => i - 1 \in 0 .. m /\ i - 1 # m
        BY <1>1
      <4> QED BY <3>1, <4>1, <4>2
    <3>3. Run(g, m)
      BY <3>2
    <3>4. m \in 0 .. n
      BY <1>1
    <3> HIDE DEF g, Run
    <3> QED BY <3>3, <3>4
  <2> HIDE DEF has
  <2> QED BY <1>1, <2>1, <2>2, AtTheEnd
<1>6. Run(loop, n)
  <2> HIDE DEF Run
  <2> QED BY <1>5
<1> HIDE DEF loop
<1>7. loop[0] = c /\ \A i \in 1 .. n : loop[i] = W(loop[i - 1], i)
  <2>1. \A i \in 0 .. n : loop[i] = IF i = 0 THEN c ELSE W(loop[i - 1], i)
    BY <1>6
  <2>2. \A i \in 1 .. n : i \in 0 .. n /\ i # 0
    BY <1>1
  <2> QED BY <1>1, <2>1, <2>2
<1> HIDE DEF has, Run
<1>8. 0 \in good /\ \A m \in 1 .. n : m - 1 \in good => m \in good
  BY <1>1, <1>2, <1>4, <1>7
<1>9. n \in good
  <2> HIDE DEF good
  <2> QED BY <1>1, <1>8, AtTheEnd
<1> DEFINE r == loop[n]
<1>10. Saving(f, r, DBL)
  BY <1>9 DEF n
<1> HIDE DEF r
<1>11. ImageSound(r.disk)
  BY <1>10, SavedIsSound DEF Saving, OK, Unlinked
<1>12. OK(r)
  BY <1>10, <1>11, AlikeThreads, AlikeOwned DEF Saving, OK, Unlinked, Alike
<1> QED BY <1>3, <1>12 DEF r

-----------------------------------------------------------------------------
(* put.                                                                    *)

\* The entry e of g becomes x, the blocks that are allocated become those of
\* alloc, and the image and the writes stay or one block of data is written.
Changed(g, e, x, alloc, r) ==
  /\ DOMAIN r = FieldNames /\ r.directory = [g.directory EXCEPT ![e] = x]
  /\ r.alloc = alloc /\ r.first = g.first /\ r.next = g.next /\ r.user = g.user
  /\ r.out = g.out /\ r.ret = g.ret
  /\ ImageSound(r.disk) /\ Way(disk, r.writes, r.disk)

\* A step of the filling: what is allocated and which entries are in use behind it.
Altered(g, r, alloc, used) ==
  /\ Unlinked(r) /\ r.first = g.first /\ r.next = g.next
  /\ r.alloc = alloc /\ InUse(r.directory) = used

LEMMA BegunOK ==
  ASSUME NEW g, Unlinked(g), NEW e \in Entries, e \notin InUse(g.directory),
         NEW key, key[1] # E5
  PROVE  Altered(g, Begun(g, e, key), g.alloc, InUse(g.directory) \cup {e})
<1> DEFINE r == Begun(g, e, key)
<1> HIDE DEF r
<1> DEFINE x == [g.directory[e] EXCEPT !.user = key[1], !.root = key[2], !.ext = key[3],
                                       !.readonly = FALSE, !.blk = <<>>]
<1>1. DOMAIN g = FieldNames /\ DirectorySound(g.directory) /\ Owned(g)
  BY DEF Unlinked
<1>2. /\ Changed(g, e, x, g.alloc, r) /\ r.why = g.why
  <2>1. r = [g EXCEPT !.directory = [g.directory EXCEPT ![e] = x]]
    BY <1>1 DEF r, Begun, FieldNames
  <2> HIDE DEF x
  <2> QED BY <1>1, <2>1 DEF Changed, FieldNames, Unlinked
<1>3. EntrySound(g.directory[e])
  BY <1>1 DEF DirectorySound
<1>4. EntrySound(x) /\ x.user # E5 /\ BlocksOf(x) = {}
  <2>1. <<>> \in Seq(DataBlocks) /\ DOMAIN <<>> = {}
    OBVIOUS
  <2>2. /\ DOMAIN x = DOMAIN g.directory[e] /\ x.extent = g.directory[e].extent
        /\ x.rec = g.directory[e].rec /\ x.blk = <<>> /\ x.user = key[1]
    BY <1>3 DEF EntrySound, Nuked
  <2> HIDE DEF x
  <2> QED BY <1>3, <2>1, <2>2 DEF EntrySound, BlocksOf
<1> HIDE DEF x
<1>5. /\ DOMAIN r.directory = Entries /\ r.directory[e] = x
      /\ \A y \in Entries : y # e => r.directory[y] = g.directory[y]
  BY <1>1, <1>2 DEF Changed, DirectorySound
<1>6. InUse(r.directory) = InUse(g.directory) \cup {e}
  BY <1>4, <1>5 DEF InUse
<1>7. \A y \in InUse(g.directory) : y \in Entries /\ y # e /\ r.directory[y] = g.directory[y]
  BY <1>5 DEF InUse
<1>8. DirectorySound(r.directory)
  <2>1. \A y \in Entries : EntrySound(r.directory[y])
    BY <1>1, <1>4, <1>5 DEF DirectorySound
  <2>2. ASSUME NEW y \in InUse(r.directory), NEW z \in InUse(r.directory), y # z
        PROVE  BlocksOf(r.directory[y]) \cap BlocksOf(r.directory[z]) = {}
    <3>1. CASE y = e \/ z = e
      BY <1>4, <1>5, <3>1
    <3>2. CASE y # e /\ z # e
      <4>1. y \in InUse(g.directory) /\ z \in InUse(g.directory)
        BY <1>6, <3>2
      <4> QED BY <1>1, <1>7, <2>2, <4>1 DEF DirectorySound
    <3> QED BY <3>1, <3>2
  <2> QED BY <1>5, <2>1, <2>2 DEF DirectorySound
<1>9. Owned(r)
  <2> SUFFICES ASSUME NEW b
               PROVE  b \in r.alloc <=> \/ b \in AL
                                        \/ \E y \in InUse(r.directory) : b \in BlocksOf(r.directory[y])
    BY DEF Owned
  <2>1. b \in g.alloc <=> b \in AL \/ \E y \in InUse(g.directory) : b \in BlocksOf(g.directory[y])
    BY <1>1 DEF Owned
  <2>2. r.alloc = g.alloc
    BY <1>2 DEF Changed
  <2> QED BY <1>4, <1>5, <1>6, <1>7, <2>1, <2>2
<1> QED BY <1>1, <1>2, <1>6, <1>8, <1>9 DEF Changed, Unlinked, Altered, r

LEMMA WrittenOK ==
  ASSUME NEW g, Unlinked(g), NEW e \in InUse(g.directory), NEW b \in DataBlocks, b \notin g.alloc,
         NEW part
  PROVE  Altered(g, Written(g, e, b, part), g.alloc \cup {b}, InUse(g.directory))
<1> DEFINE r == Written(g, e, b, part)
<1> HIDE DEF r
<1> DEFINE w == write_block(g, b, part)
           x == [g.directory[e] EXCEPT !.blk = Append(g.directory[e].blk, b)]
<1>1. /\ DOMAIN g = FieldNames /\ DirectorySound(g.directory) /\ Owned(g)
      /\ b \in Blocks /\ b \notin 0 .. DBL - 1
  BY DataBlocksAre DEF Unlinked
<1>2. BlockWritten(g, b, AsWritten(b, part), w) /\ Unlinked(w) /\ Alike(g, w)
  BY <1>1, WriteBlockIs, WriteBlockOK
<1>3. r = [w EXCEPT !.directory[e].blk = Append(@, b), !.alloc = @ \cup {b},
                    !.why = IF b \in Bad THEN "write error" ELSE "done"]
  BY DEF r, Written
<1> HIDE DEF w
<1>4. /\ DOMAIN w = FieldNames /\ w.directory = g.directory /\ w.alloc = g.alloc
      /\ w.first = g.first /\ w.next = g.next /\ w.user = g.user /\ w.out = g.out /\ w.ret = g.ret
      /\ ImageSound(w.disk) /\ Way(disk, w.writes, w.disk)
  BY <1>2 DEF Alike, BlockWritten, Unlinked
<1>5. Changed(g, e, x, g.alloc \cup {b}, r)
  <2> DEFINE d == [g.directory EXCEPT ![e] = x]
             why == IF b \in Bad THEN "write error" ELSE "done"
  <2>1. r = [w EXCEPT !.directory = d, !.alloc = g.alloc \cup {b}, !.why = why]
    BY <1>3, <1>4 DEF FieldNames
  <2> HIDE DEF d, why
  <2>2. /\ DOMAIN r = FieldNames /\ r.directory = d /\ r.alloc = g.alloc \cup {b}
        /\ r.first = w.first /\ r.next = w.next /\ r.user = w.user /\ r.out = w.out /\ r.ret = w.ret
        /\ r.disk = w.disk /\ r.writes = w.writes
    BY <1>4, <2>1 DEF FieldNames
  <2> HIDE DEF x
  <2> QED BY <1>4, <2>2 DEF Changed, d
<1>6. EntrySound(g.directory[e]) /\ e \in Entries /\ g.directory[e].user # E5
  BY <1>1 DEF DirectorySound, InUse
<1>7. EntrySound(x) /\ x.user # E5 /\ BlocksOf(x) = BlocksOf(g.directory[e]) \cup {b}
  <2> DEFINE s == g.directory[e].blk
             t == Append(s, b)
  <2>1. /\ DOMAIN x = DOMAIN g.directory[e] /\ x.extent = g.directory[e].extent
        /\ x.rec = g.directory[e].rec /\ x.blk = t /\ x.user = g.directory[e].user
    BY <1>6 DEF EntrySound, Nuked
  <2>2. s \in Seq(DataBlocks)
    BY <1>6 DEF EntrySound
  <2> HIDE DEF s, x
  <2>3. /\ t \in Seq(DataBlocks) /\ Len(s) \in Nat /\ DOMAIN s = 1 .. Len(s)
        /\ DOMAIN t = 1 .. Len(s) + 1 /\ t[Len(s) + 1] = b /\ \A i \in 1 .. Len(s) : t[i] = s[i]
    BY <2>2
  <2> HIDE DEF t
  <2>4. {t[i] : i \in DOMAIN t} = {s[i] : i \in DOMAIN s} \cup {b}
    <3>1. \A i \in 1 .. Len(s) + 1 : i = Len(s) + 1 \/ i \in 1 .. Len(s)
      BY <2>3
    <3>2. Len(s) + 1 \in 1 .. Len(s) + 1 /\ \A i \in 1 .. Len(s) : i \in 1 .. Len(s) + 1
      BY <2>3
    <3> QED BY <2>3, <3>1, <3>2
  <2> QED BY <1>6, <2>1, <2>3, <2>4 DEF EntrySound, BlocksOf, s
<1> HIDE DEF x
<1>8. /\ DOMAIN r.directory = Entries /\ r.directory[e] = x
      /\ \A y \in Entries : y # e => r.directory[y] = g.directory[y]
  BY <1>1, <1>5, <1>6 DEF Changed, DirectorySound
<1>9. InUse(r.directory) = InUse(g.directory)
  BY <1>6, <1>7, <1>8 DEF InUse
<1>10. \A y \in InUse(g.directory) : y \in Entries /\ b \notin BlocksOf(g.directory[y])
  BY <1>1 DEF InUse, Owned
<1>11. DirectorySound(r.directory)
  <2>1. \A y \in Entries : EntrySound(r.directory[y])
    BY <1>1, <1>7, <1>8 DEF DirectorySound
  <2>2. ASSUME NEW y \in InUse(r.directory), NEW z \in InUse(r.directory), y # z
        PROVE  BlocksOf(r.directory[y]) \cap BlocksOf(r.directory[z]) = {}
    <3>1. /\ y \in InUse(g.directory) /\ z \in InUse(g.directory)
          /\ BlocksOf(g.directory[y]) \cap BlocksOf(g.directory[z]) = {}
      BY <1>1, <1>9, <2>2 DEF DirectorySound
    <3>2. CASE y = e
      BY <1>7, <1>8, <1>10, <2>2, <3>1, <3>2
    <3>3. CASE z = e
      BY <1>7, <1>8, <1>10, <2>2, <3>1, <3>3
    <3>4. CASE y # e /\ z # e
      BY <1>8, <1>10, <3>1, <3>4
    <3> QED BY <3>2, <3>3, <3>4
  <2> QED BY <1>8, <2>1, <2>2 DEF DirectorySound
<1>12. Owned(r)
  <2> SUFFICES ASSUME NEW a
               PROVE  a \in r.alloc <=> \/ a \in AL
                                        \/ \E y \in InUse(r.directory) : a \in BlocksOf(r.directory[y])
    BY DEF Owned
  <2>1. a \in g.alloc <=> a \in AL \/ \E y \in InUse(g.directory) : a \in BlocksOf(g.directory[y])
    BY <1>1 DEF Owned
  <2>2. r.alloc = g.alloc \cup {b}
    BY <1>5 DEF Changed
  <2>3. \A y \in InUse(g.directory) : a \in BlocksOf(r.directory[y])
                                        <=> a \in BlocksOf(g.directory[y]) \/ (y = e /\ a = b)
    BY <1>7, <1>8, <1>10
  <2> QED BY <1>9, <2>1, <2>2, <2>3
<1> QED BY <1>1, <1>5, <1>9, <1>11, <1>12 DEF Changed, Unlinked, Altered, r

LEMMA CountedOK ==
  ASSUME NEW g, Unlinked(g), NEW e \in Entries, NEW n \in Nat \ {0}, NEW records \in Int
  PROVE  Altered(g, Counted(g, e, n, records), g.alloc, InUse(g.directory))
<1> DEFINE r == Counted(g, e, n, records)
<1> HIDE DEF r
<1> DEFINE rec == Smaller(records - (n - 1) * BLKNR * RPB, BLKNR * RPB)
           x == [g.directory[e] EXCEPT !.extent = n - 1, !.rec = rec]
           d == [g.directory EXCEPT ![e] = x]
<1>1. DOMAIN g = FieldNames /\ DirectorySound(g.directory) /\ Owned(g)
  BY DEF Unlinked
<1>2. EntrySound(g.directory[e]) /\ DOMAIN g.directory = Entries
  BY <1>1 DEF DirectorySound
<1>3. n - 1 \in Nat /\ rec \in Int
  <2>1. (n - 1) * BLKNR * RPB \in Int /\ BLKNR * RPB \in Int
    BY Sizes
  <2> QED BY <2>1 DEF Smaller
<1>4. r = [g EXCEPT !.directory[e].extent = n - 1, !.directory[e].rec = rec]
  BY DEF r, Counted
<1> HIDE DEF rec
<1>5. r = [g EXCEPT !.directory = d]
  BY <1>1, <1>2, <1>4 DEF FieldNames
<1>6. /\ DOMAIN x = DOMAIN g.directory[e] /\ x.extent = n - 1 /\ x.rec = rec
      /\ x.blk = g.directory[e].blk /\ x.user = g.directory[e].user
  BY <1>2 DEF EntrySound, Nuked
<1> HIDE DEF x
<1>7. EntrySound(x) /\ BlocksOf(x) = BlocksOf(g.directory[e])
  BY <1>2, <1>3, <1>6 DEF EntrySound, BlocksOf
<1>8. /\ DOMAIN d = Entries /\ d[e] = x /\ \A y \in Entries : y # e => d[y] = g.directory[y]
  BY <1>2
<1> HIDE DEF d
<1>9. /\ DOMAIN r = FieldNames /\ r.directory = d
      /\ r.first = g.first /\ r.next = g.next /\ r.alloc = g.alloc /\ r.user = g.user
      /\ r.disk = g.disk /\ r.writes = g.writes /\ r.out = g.out /\ r.ret = g.ret /\ r.why = g.why
  BY <1>1, <1>5 DEF FieldNames
<1>10. InUse(d) = InUse(g.directory)
  BY <1>6, <1>8 DEF InUse
<1>11. \A y \in Entries : BlocksOf(d[y]) = BlocksOf(g.directory[y]) /\ EntrySound(d[y])
  BY <1>1, <1>7, <1>8 DEF DirectorySound
<1>12. \A y \in InUse(d) : y \in Entries
  BY DEF InUse
<1>13. DirectorySound(d)
  BY <1>1, <1>8, <1>10, <1>11, <1>12 DEF DirectorySound
<1>14. Owned(r)
  BY <1>1, <1>9, <1>10, <1>11, <1>12 DEF Owned
<1> QED BY <1>1, <1>9, <1>10, <1>13, <1>14 DEF Unlinked, Altered, r

\* The extent that part k of a file belongs to, and when it begins.
LEMMA ExtentBegins ==
  ASSUME NEW k \in Nat \ {0}
  PROVE  LET n == (k - 1) \div BLKNR + 1 IN
         /\ n \in Nat \ {0} /\ (n - 1) * BLKNR < k
         /\ \A m \in Nat \ {0} : (m - 1) * BLKNR < k
              <=> (m - 1) * BLKNR < k - 1 \/ ((k % BLKNR = 1 \/ BLKNR = 1) /\ m = n)
         /\ (k % BLKNR = 1 \/ BLKNR = 1) => ~ ((n - 1) * BLKNR < k - 1)
<1> DEFINE n == (k - 1) \div BLKNR + 1
           B == BLKNR
           s == (k - 1) % B
           q == (k - 1) \div B
<1>1. q \in Nat /\ s \in 0 .. B - 1 /\ k - 1 = q * B + s /\ B \in Nat \ {0}
  <2>1. k - 1 \in Nat /\ BLKNR \in Nat \ {0}
    BY Sizes
  <2> QED BY <2>1, Divides
<1>2. n = q + 1 /\ n \in Nat \ {0} /\ n - 1 = q
  BY <1>1
<1>3. (k % B = 1 \/ B = 1) <=> s = 0
  <2>1. CASE B = 1
    BY <1>1, <2>1
  <2>2. ASSUME B # 1, s = 0 PROVE k % B = 1
    <3> DEFINE t == 1
    <3>1. k = q * B + t /\ t \in 0 .. B - 1
      BY <1>1, <2>2
    <3>2. B \in Nat \ {0} /\ q \in Nat /\ k \in Nat
      BY <1>1
    <3> HIDE DEF q, s, t
    <3>3. k % B = t
      BY <3>1, <3>2, DividedIs
    <3> QED BY <3>3 DEF t
  <2>3. ASSUME k % B = 1 PROVE s = 0
    <3> DEFINE p == k \div B
    <3>1. p \in Nat /\ k = p * B + (k % B)
      BY <1>1, Divides
    <3> HIDE DEF p
    <3>2. k - 1 = p * B + 0 /\ 0 \in 0 .. B - 1 /\ k - 1 \in Nat
      <4>1. p * B \in Nat
        BY <1>1, <3>1
      <4> QED BY <1>1, <2>3, <3>1, <4>1
    <3>3. (k - 1) % B = 0
      <4>1. B \in Nat \ {0} /\ p \in Nat /\ 0 \in 0 .. B - 1
        BY <1>1, <3>1
      <4> QED BY <3>2, <4>1, DividedIs
    <3> QED BY <3>3
  <2> QED BY <2>1, <2>2, <2>3
<1> HIDE DEF q, s
<1>4. q * B \in Nat
  BY <1>1
<1>5. ASSUME NEW m \in Nat \ {0}
      PROVE  (m - 1) * B < k <=> (m - 1) * B < k - 1 \/ (s = 0 /\ m = n)
  <2>1. (m - 1) * B \in Nat
    BY <1>1
  <2>2. (m - 1) * B < k <=> (m - 1) * B < k - 1 \/ (m - 1) * B = k - 1
    BY <2>1
  <2>3. ASSUME (m - 1) * B = k - 1 PROVE s = 0 /\ m = n
    <3>1. (m - 1) * B + 0 = q * B + s /\ 0 \in 0 .. B - 1 /\ m - 1 \in Int /\ q \in Int
      BY <1>1, <2>1, <2>3
    <3>2. m - 1 = q /\ 0 = s
      BY <1>1, <3>1, PlacesApart
    <3> QED BY <1>2, <3>2
  <2>4. ASSUME s = 0, m = n PROVE (m - 1) * B = k - 1
    <3>1. m - 1 = q
      BY <1>2, <2>4
    <3>2. (m - 1) * B = q * B
      BY <3>1
    <3> QED BY <1>1, <1>4, <2>4, <3>2
  <2> QED BY <2>2, <2>3, <2>4
<1>6. (n - 1) * B = q * B /\ q * B <= k - 1
  BY <1>1, <1>2, <1>4
<1>7. (n - 1) * B < k
  BY <1>4, <1>6
<1>8. s = 0 => ~ ((n - 1) * B < k - 1)
  BY <1>1, <1>4, <1>6
<1> HIDE DEF n
<1>9. /\ n \in Nat \ {0} /\ (n - 1) * BLKNR < k
      /\ \A m \in Nat \ {0} : (m - 1) * BLKNR < k
           <=> (m - 1) * BLKNR < k - 1 \/ ((k % BLKNR = 1 \/ BLKNR = 1) /\ m = n)
      /\ (k % BLKNR = 1 \/ BLKNR = 1) => ~ ((n - 1) * BLKNR < k - 1)
  BY <1>2, <1>3, <1>5, <1>7, <1>8
<1> QED BY <1>9 DEF n

\* The free entries and blocks that a file is put to.
Listed(f, entry, blk) ==
  /\ Len(entry) \in Nat /\ Len(blk) \in Nat
  /\ \A m \in 1 .. Len(entry) : entry[m] \in Entries /\ entry[m] \notin InUse(f.directory)
  /\ \A m, j \in 1 .. Len(entry) : entry[m] = entry[j] => m = j
  /\ \A m \in 1 .. Len(blk) : blk[m] \in DataBlocks /\ blk[m] \notin f.alloc
  /\ \A m, j \in 1 .. Len(blk) : blk[m] = blk[j] => m = j

\* k parts are put: as many entries as they need are in use, and the blocks
\* behind are free.
Begins(g, entry, k) ==
  \A m \in 1 .. Len(entry) : entry[m] \in InUse(g.directory) <=> (m - 1) * BLKNR < k
Unused(g, blk, k) == \A j \in 1 .. Len(blk) : j > k => blk[j] \notin g.alloc

Grown(f, g) ==
  /\ Unlinked(g) /\ g.first = f.first /\ g.next = f.next
  /\ InUse(f.directory) \subseteq InUse(g.directory)

Filling(f, g, entry, blk, k) ==
  Grown(f, g) /\ (g.why = "done" => Begins(g, entry, k) /\ Unused(g, blk, k))

LEMMA ChunkBegun ==
  ASSUME NEW f, NEW g, NEW entry, NEW blk, Listed(f, entry, blk), NEW k \in Nat \ {0},
         Filling(f, g, entry, blk, k - 1), g.why = "done",
         NEW n, n = (k - 1) \div BLKNR + 1, n <= Len(entry), NEW key, key[1] # E5,
         NEW r, r = BeginExtent(g, entry[n], key, k)
  PROVE  Grown(f, r) /\ Begins(r, entry, k) /\ r.alloc = g.alloc /\ entry[n] \in InUse(r.directory)
<1>0. Len(entry) \in Nat /\ \A m \in 1 .. Len(entry) : m \in Nat \ {0}
  BY DEF Listed
<1>1. /\ n \in 1 .. Len(entry) /\ (n - 1) * BLKNR < k
      /\ \A m \in 1 .. Len(entry) : (m - 1) * BLKNR < k
           <=> (m - 1) * BLKNR < k - 1 \/ ((k % BLKNR = 1 \/ BLKNR = 1) /\ m = n)
      /\ (k % BLKNR = 1 \/ BLKNR = 1) => ~ ((n - 1) * BLKNR < k - 1)
  <2>1. n \in Nat \ {0}
    BY ExtentBegins
  <2>2. n \in 1 .. Len(entry)
    BY <1>0, <2>1
  <2> QED BY <1>0, <2>2, ExtentBegins
<1>2. Grown(f, g) /\ Begins(g, entry, k - 1) /\ Unlinked(g)
  BY DEF Filling, Grown
<1>3. Grown(f, r) /\ Begins(r, entry, k) /\ r.alloc = g.alloc
  <2>1. CASE k % BLKNR = 1 \/ BLKNR = 1
    <3>1. entry[n] \in Entries /\ entry[n] \notin InUse(g.directory)
      BY <1>1, <1>2, <2>1 DEF Listed, Begins
    <3>2. r = Begun(g, entry[n], key)
      BY <2>1 DEF BeginExtent
    <3>3. /\ Unlinked(r) /\ r.first = g.first /\ r.next = g.next /\ r.alloc = g.alloc
          /\ InUse(r.directory) = InUse(g.directory) \cup {entry[n]}
      <4>1. Altered(g, Begun(g, entry[n], key), g.alloc, InUse(g.directory) \cup {entry[n]})
        BY <1>2, <3>1, BegunOK
      <4> QED BY <3>2, <4>1 DEF Altered
    <3>4. \A m \in 1 .. Len(entry) : entry[m] = entry[n] <=> m = n
      BY <1>1 DEF Listed
    <3>5. Grown(f, r)
      BY <1>2, <3>3 DEF Grown
    <3>6. ASSUME NEW m \in 1 .. Len(entry)
          PROVE  entry[m] \in InUse(r.directory) <=> (m - 1) * BLKNR < k
      <4>1. entry[m] \in InUse(g.directory) <=> (m - 1) * BLKNR < k - 1
        BY <1>2 DEF Begins
      <4> QED BY <1>1, <2>1, <3>3, <3>4, <4>1
    <3> QED BY <3>3, <3>5, <3>6 DEF Begins
  <2>2. CASE ~ (k % BLKNR = 1 \/ BLKNR = 1)
    <3>1. r = g
      BY <2>2 DEF BeginExtent
    <3>2. Begins(g, entry, k)
      BY <1>1, <1>2, <2>2 DEF Begins
    <3> QED BY <1>2, <3>1, <3>2
  <2> QED BY <2>1, <2>2
<1> QED BY <1>1, <1>3 DEF Begins

LEMMA ChunkPut ==
  ASSUME NEW f, NEW g, NEW entry, NEW blk, Listed(f, entry, blk), NEW k \in Nat \ {0},
         Filling(f, g, entry, blk, k - 1), g.why = "done", NEW key, key[1] # E5,
         NEW source, source.records \in Int
  PROVE  Filling(f, PutChunk(g, source, key, entry, blk, k), entry, blk, k)
<1> DEFINE n == (k - 1) \div BLKNR + 1
           b == BeginExtent(g, entry[n], key, k)
           w == Written(b, entry[n], blk[k], source.parts[k])
           r == PutChunk(g, source, key, entry, blk, k)
<1>1. n \in Nat \ {0} /\ Len(entry) \in Nat /\ Len(blk) \in Nat
  <2>1. n = (k - 1) \div BLKNR + 1
    OBVIOUS
  <2> HIDE DEF n
  <2> QED BY <2>1, ExtentBegins DEF Listed
<1>2. r = PutPart(g, source, key, entry, blk, k, n)
  BY DEF PutChunk
<1>3. n <= Len(entry) => Grown(f, b) /\ Begins(b, entry, k) /\ b.alloc = g.alloc
                         /\ entry[n] \in InUse(b.directory)
  <2> HIDE DEF b
  <2> QED BY ChunkBegun DEF b
<1> HIDE DEF r, n
<1>4. CASE n > Len(entry)
  <2>1. r = [g EXCEPT !.why = "directory full"]
    BY <1>2, <1>4 DEF PutPart, NoEntry
  <2>2. /\ DOMAIN r = FieldNames /\ r.directory = g.directory
        /\ r.first = g.first /\ r.next = g.next /\ r.alloc = g.alloc /\ r.user = g.user
        /\ r.disk = g.disk /\ r.writes = g.writes /\ r.out = g.out /\ r.ret = g.ret
        /\ r.why = "directory full"
    BY <2>1 DEF Filling, Grown, Unlinked, FieldNames
  <2>3. Filling(f, r, entry, blk, k)
    BY <2>2 DEF Filling, Grown, Unlinked, Owned
  <2> QED BY <2>3 DEF r
<1>5. CASE n <= Len(entry) /\ k > Len(blk)
  <2>1. r = NoRoom(b, source.parts[k])
    BY <1>1, <1>2, <1>5 DEF PutPart
  <2> HIDE DEF b
  <2>2. /\ DOMAIN r = FieldNames /\ r.directory = b.directory
        /\ r.first = b.first /\ r.next = b.next /\ r.alloc = b.alloc /\ r.user = b.user
        /\ r.disk = b.disk /\ r.writes = b.writes /\ r.out = b.out /\ r.ret = b.ret
        /\ r.why = "disk full"
    BY <1>3, <1>5, <2>1 DEF Grown, Unlinked, FieldNames, NoRoom
  <2>3. Filling(f, r, entry, blk, k)
    BY <1>3, <1>5, <2>2 DEF Filling, Grown, Unlinked, Owned
  <2> QED BY <2>3 DEF r
<1>6. CASE n <= Len(entry) /\ ~ k > Len(blk)
  <2>1. r = CountExtent(w, entry[n], n, source, k)
    BY <1>1, <1>2, <1>6 DEF PutPart
  <2>2. Grown(f, b) /\ Begins(b, entry, k) /\ b.alloc = g.alloc /\ entry[n] \in InUse(b.directory)
    BY <1>3, <1>6
  <2> HIDE DEF b
  <2>3. k \in 1 .. Len(blk) /\ blk[k] \in DataBlocks /\ blk[k] \notin b.alloc
    <3>1. k \in 1 .. Len(blk) /\ k > k - 1
      BY <1>1, <1>6
    <3> QED BY <2>2, <3>1 DEF Listed, Filling, Unused
  <2>4. /\ Unlinked(w) /\ w.first = b.first /\ w.next = b.next /\ w.alloc = b.alloc \cup {blk[k]}
        /\ InUse(w.directory) = InUse(b.directory)
    <3>1. Unlinked(b)
      BY <2>2 DEF Grown
    <3>2. Altered(b, w, b.alloc \cup {blk[k]}, InUse(b.directory))
      BY <2>2, <2>3, <3>1, WrittenOK
    <3> QED BY <3>2 DEF Altered
  <2> HIDE DEF w
  <2>5. entry[n] \in Entries
    BY <2>2 DEF InUse
  <2>6. /\ Unlinked(r) /\ r.first = w.first /\ r.next = w.next /\ r.alloc = w.alloc
        /\ InUse(r.directory) = InUse(w.directory)
    <3>1. CASE r = w
      BY <2>4, <3>1
    <3>2. CASE r = Counted(w, entry[n], n, source.records)
      <4>1. Altered(w, Counted(w, entry[n], n, source.records), w.alloc, InUse(w.directory))
        BY <1>1, <2>4, <2>5, CountedOK
      <4> QED BY <3>2, <4>1 DEF Altered
    <3> QED BY <2>1, <3>1, <3>2 DEF CountExtent
  <2>7. \A j \in 1 .. Len(blk) : j > k => blk[j] \notin g.alloc /\ blk[j] # blk[k]
    <3>1. \A j \in 1 .. Len(blk) : j > k => j > k - 1 /\ j # k
      BY <1>1
    <3> QED BY <2>3, <3>1 DEF Listed, Filling, Unused
  <2>8. Grown(f, r) /\ Begins(r, entry, k) /\ Unused(r, blk, k)
    BY <2>2, <2>4, <2>6, <2>7 DEF Grown, Begins, Unused
  <2> QED BY <2>8 DEF Filling, r
<1> QED BY <1>1, <1>4, <1>5, <1>6

LEMMA FillStarts ==
  ASSUME NEW f, Unlinked(f), NEW entry, NEW blk, Listed(f, entry, blk), NEW records \in Int,
         NEW c, c = [f EXCEPT !.why = "done", !.ret = records]
  PROVE  Filling(f, c, entry, blk, 0)
<1>1. /\ DOMAIN c = FieldNames /\ c.directory = f.directory
      /\ c.first = f.first /\ c.next = f.next /\ c.alloc = f.alloc /\ c.user = f.user
      /\ c.disk = f.disk /\ c.writes = f.writes /\ c.out = f.out /\ c.ret = records
  BY DEF Unlinked, FieldNames
<1>2. Grown(f, c)
  BY <1>1 DEF Grown, Unlinked, Owned
<1>3. \A m \in 1 .. Len(entry) : ~ ((m - 1) * BLKNR < 0)
  <2>1. ASSUME NEW m \in 1 .. Len(entry) PROVE (m - 1) * BLKNR \in Nat
    <3>1. m - 1 \in Nat /\ BLKNR \in Nat
      BY Sizes DEF Listed
    <3> QED BY <3>1
  <2> QED BY <2>1
<1>4. Begins(c, entry, 0)
  BY <1>1, <1>3 DEF Begins, Listed
<1>5. Unused(c, blk, 0)
  BY <1>1 DEF Unused, Listed
<1> QED BY <1>2, <1>4, <1>5 DEF Filling

LEMMA FillOK ==
  ASSUME NEW f, Unlinked(f), NEW source, IsSeq(source.parts), source.records \in Int,
         NEW key, key[1] # E5, NEW entry, NEW blk, Listed(f, entry, blk)
  PROVE  Grown(f, Fill(f, source, key, entry, blk))
<1> DEFINE n == Chunks(source)
           c == [f EXCEPT !.why = "done", !.ret = source.records]
           W(g, k) == IF g.why = "done" THEN PutChunk(g, source, key, entry, blk, k) ELSE g
           Run(h, m) == h = [k \in 0 .. m |-> IF k = 0 THEN c ELSE W(h[k - 1], k)]
           has == {m \in 0 .. n : \E h : Run(h, m)}
           loop == CHOOSE h : Run(h, n)
           good == {m \in 0 .. n : Filling(f, loop[m], entry, blk, m)}
           r == Fill(f, source, key, entry, blk)
<1>1. n \in Nat /\ 0 \in 0 .. n
  BY SeqHasLength DEF Chunks
<1>2. ASSUME NEW k \in 1 .. n, NEW g, Filling(f, g, entry, blk, k - 1)
      PROVE  Filling(f, W(g, k), entry, blk, k)
  <2>1. k \in Nat \ {0}
    BY <1>1
  <2>2. CASE g.why = "done"
    <3>1. W(g, k) = PutChunk(g, source, key, entry, blk, k)
      BY <2>2
    <3>2. Filling(f, PutChunk(g, source, key, entry, blk, k), entry, blk, k)
      BY <1>2, <2>1, <2>2, ChunkPut
    <3> QED BY <3>1, <3>2
  <2>3. CASE g.why # "done"
    <3>1. W(g, k) = g
      BY <2>3
    <3> HIDE DEF W
    <3> QED BY <1>2, <2>3, <3>1 DEF Filling
  <2> QED BY <2>2, <2>3
<1>3. \/ r = [f EXCEPT !.why = "done", !.ret = 0]
      \/ r = loop[n]
      \/ r = NoEntry(loop[n])
  BY DEF Fill
<1>4. Filling(f, c, entry, blk, 0)
  BY FillStarts
<1>5. Grown(f, [f EXCEPT !.why = "done", !.ret = 0])
  <2> DEFINE z == [f EXCEPT !.why = "done", !.ret = 0]
  <2>1. 0 \in Int
    OBVIOUS
  <2>2. Filling(f, z, entry, blk, 0)
    BY <2>1, FillStarts
  <2> QED BY <2>2 DEF Filling
<1> HIDE DEF W, n, c, r
<1>6. n \in has
  <2>1. 0 \in has
    <3>1. Run([i \in 0 .. 0 |-> c], 0)
      OBVIOUS
    <3> HIDE DEF Run
    <3> QED BY <1>1, <3>1
  <2>2. ASSUME NEW m \in 1 .. n, m - 1 \in has PROVE m \in has
    <3>1. PICK h : Run(h, m - 1)
      BY <2>2
    <3> DEFINE g == [i \in 0 .. m |-> IF i = m THEN W(h[m - 1], m) ELSE h[i]]
    <3>2. ASSUME NEW i \in 0 .. m PROVE g[i] = IF i = 0 THEN c ELSE W(g[i - 1], i)
      <4>1. i # m => i \in 0 .. m - 1
        BY <1>1
      <4>2. i # 0 => i - 1 \in 0 .. m /\ i - 1 # m
        BY <1>1
      <4> QED BY <3>1, <4>1, <4>2
    <3>3. Run(g, m)
      BY <3>2
    <3>4. m \in 0 .. n
      BY <1>1
    <3> HIDE DEF g, Run
    <3> QED BY <3>3, <3>4
  <2> HIDE DEF has
  <2> QED BY <1>1, <2>1, <2>2, AtTheEnd
<1>7. Run(loop, n)
  <2> HIDE DEF Run
  <2> QED BY <1>6
<1> HIDE DEF loop
<1>8. loop[0] = c /\ \A i \in 1 .. n : loop[i] = W(loop[i - 1], i)
  <2>1. \A i \in 0 .. n : loop[i] = IF i = 0 THEN c ELSE W(loop[i - 1], i)
    BY <1>7
  <2>2. \A i \in 1 .. n : i \in 0 .. n /\ i # 0
    BY <1>1
  <2> QED BY <1>1, <2>1, <2>2
<1> HIDE DEF has, Run
<1>9. 0 \in good /\ \A m \in 1 .. n : m - 1 \in good => m \in good
  BY <1>1, <1>2, <1>4, <1>8
<1>10. n \in good
  <2> HIDE DEF good
  <2> QED BY <1>1, <1>9, AtTheEnd
<1> DEFINE e == loop[n]
<1>11. Grown(f, e)
  BY <1>10 DEF Filling
<1> HIDE DEF e
<1>12. Grown(f, NoEntry(e))
  <2> DEFINE z == NoEntry(e)
  <2>1. /\ DOMAIN z = FieldNames /\ z.directory = e.directory
        /\ z.first = e.first /\ z.next = e.next /\ z.alloc = e.alloc /\ z.user = e.user
        /\ z.disk = e.disk /\ z.writes = e.writes /\ z.out = e.out /\ z.ret = e.ret
    BY <1>11 DEF NoEntry, Grown, Unlinked, FieldNames
  <2> HIDE DEF z
  <2>2. Grown(f, z)
    BY <1>11, <2>1 DEF Grown, Unlinked, Owned
  <2> QED BY <2>2 DEF z
<1>13. r = [f EXCEPT !.why = "done", !.ret = 0] \/ r = e \/ r = NoEntry(e)
  BY <1>3 DEF e
<1>14. Grown(f, r)
  BY <1>5, <1>11, <1>12, <1>13
<1> QED BY <1>14 DEF r

LEMMA GrownThreads == ASSUME NEW f, NEW g, OK(f), Grown(f, g) PROVE OK(g)
BY DEF OK, Grown, Threads

\* A state in which a command only answers something else.
LEMMA AnswerOK ==
  ASSUME NEW f, OK(f), NEW ret \in Int
  PROVE  OK([f EXCEPT !.ret = ret])
<1> DEFINE r == [f EXCEPT !.ret = ret]
<1>1. /\ DOMAIN r = FieldNames /\ r.directory = f.directory
      /\ r.first = f.first /\ r.next = f.next /\ r.alloc = f.alloc /\ r.user = f.user
      /\ r.disk = f.disk /\ r.writes = f.writes /\ r.out = f.out /\ r.ret = ret
  BY DEF OK, Unlinked, FieldNames
<1> HIDE DEF r
<1>2. OK(r)
  BY <1>1 DEF OK, Unlinked, Owned, Threads
<1> QED BY <1>2 DEF r

LEMMA PutEndOK == ASSUME NEW f, OK(f), NEW trg PROVE OK(PutEnd(f, trg))
<1>1. Unlinked(f) /\ -2 \in Int
  BY DEF OK
<1>2. CASE f.why = "write error"
  <2>1. PutEnd(f, trg) = [f EXCEPT !.ret = -2]
    BY <1>2 DEF PutEnd
  <2> QED BY <1>1, <2>1, AnswerOK
<1>3. CASE f.why = "done"
  <2>1. PutEnd(f, trg) = put_directory(Updated(f))
    BY <1>3 DEF PutEnd
  <2>2. OK(Updated(f))
    BY <1>1, UpdatedOK
  <2> QED BY <2>1, <2>2, PutDirectoryOK
<1>4. CASE f.why # "write error" /\ f.why # "done"
  <2>1. PutEnd(f, trg) = [delete(Updated(f), trg, TRUE, TRUE) EXCEPT !.ret = -2]
    BY <1>4 DEF PutEnd
  <2>2. OK(Updated(f))
    BY <1>1, UpdatedOK
  <2>3. OK(delete(Updated(f), trg, TRUE, TRUE))
    BY <2>2, EraseOK DEF delete
  <2> QED BY <1>1, <2>1, <2>3, AnswerOK
<1> QED BY <1>2, <1>3, <1>4

LEMMA FreeIsListed ==
  ASSUME NEW f, OK(f), NEW entry, NEW blk,
         entry = Increasing({e \in Entries : f.directory[e].user = E5}),
         blk = Increasing(FreeBlocks(f))
  PROVE  Listed(f, entry, blk)
<1> DEFINE S == {e \in Entries : f.directory[e].user = E5}
           B == FreeBlocks(f)
<1>1. \A e \in S : e \in Entries /\ e \notin InUse(f.directory)
  BY DEF InUse
<1>2. \A b \in B : b \in DataBlocks /\ b \notin f.alloc
  BY DEF FreeBlocks, DataBlocks, OK, Unlinked, Owned
<1> HIDE DEF S, B
<1>3. entry = Increasing(S) /\ blk = Increasing(B)
  BY DEF S, B
<1>4. /\ Len(entry) \in Nat /\ \A m \in 1 .. Len(entry) : entry[m] \in S
      /\ \A m, j \in 1 .. Len(entry) : entry[m] = entry[j] => m = j
  BY <1>3, IncreasingIs
<1>5. /\ Len(blk) \in Nat /\ \A m \in 1 .. Len(blk) : blk[m] \in B
      /\ \A m, j \in 1 .. Len(blk) : blk[m] = blk[j] => m = j
  BY <1>3, IncreasingIs
<1> QED BY <1>1, <1>2, <1>4, <1>5 DEF Listed

LEMMA PutIntoOK ==
  ASSUME NEW f, OK(f), NEW source, IsSeq(source.parts), source.records \in Int, NEW trg,
         NEW key, key[1] # E5
  PROVE  OK(PutInto(f, source, trg, key))
<1> DEFINE entry == Increasing({e \in Entries : f.directory[e].user = E5})
           blk == Increasing(FreeBlocks(f))
           g == Fill(f, source, key, entry, blk)
<1>1. PutInto(f, source, trg, key) = PutEnd(g, trg)
  BY DEF PutInto
<1>2. Listed(f, entry, blk)
  BY FreeIsListed
<1> HIDE DEF entry, blk
<1>3. Grown(f, g)
  BY <1>2, FillOK DEF OK
<1> HIDE DEF g
<1>4. OK(g)
  BY <1>3, GrownThreads
<1> QED BY <1>1, <1>4, PutEndOK

\* The user number of a name that is typed is none of 229.
LEMMA TypedUser ==
  ASSUME NEW name
  PROVE  parse_cpm_filename(name).user # E5
<1>1. ASSUME NEW u, u # E5, NEW s PROVE SplitRest(u, s).user # E5
  BY <1>1 DEF SplitRest, SplitName, SplitAt
<1>2. NoUser # E5 /\ AnyUser # E5 /\ 0 # E5 /\ IllegalName.user # E5
  BY DEF NoUser, AnyUser, E5, IllegalName
<1>3. ASSUME NEW c \in DOMAIN Digit PROVE Digit[c] # E5
  BY DEF Digit, E5
<1> DEFINE colon == strchr(name, 1, ":")
<1>4. parse_cpm_filename(name) = ParseFrom(name, colon)
  BY DEF parse_cpm_filename
<1> HIDE DEF colon
<1>5. CASE colon = 0
  <2>1. ParseFrom(name, colon) = SplitRest(NoUser, name)
    BY <1>5 DEF ParseFrom
  <2> QED BY <1>1, <1>2, <1>4, <2>1
<1>6. CASE colon = 1
  <2>1. ParseFrom(name, colon) = SplitRest(0, Tail(name))
    BY <1>6 DEF ParseFrom
  <2> QED BY <1>1, <1>2, <1>4, <2>1
<1>7. CASE colon = 2 /\ name[1] = "*"
  <2>1. "*" \notin DOMAIN Digit
    BY DEF Digit
  <2>2. ParseFrom(name, colon) = SplitRest(AnyUser, SubSeq(name, 3, Len(name)))
    BY <1>7, <2>1 DEF ParseFrom
  <2> QED BY <1>1, <1>2, <1>4, <2>2
<1>8. CASE colon = 2 /\ name[1] # "*" /\ name[1] \in DOMAIN Digit
  <2>1. ParseFrom(name, colon) = SplitRest(Digit[name[1]], SubSeq(name, 3, Len(name)))
    BY <1>8 DEF ParseFrom
  <2> QED BY <1>1, <1>3, <1>4, <1>8, <2>1
<1>9. CASE colon # 0 /\ colon # 1 /\ ~ (colon = 2 /\ name[1] = "*")
           /\ ~ (colon = 2 /\ name[1] \in DOMAIN Digit)
  <2>1. ParseFrom(name, colon) = IllegalName
    BY <1>9 DEF ParseFrom
  <2> QED BY <1>2, <1>4, <2>1
<1> QED BY <1>5, <1>6, <1>7, <1>8, <1>9

LEMMA PutOK ==
  ASSUME NEW f, OK(f), NEW source, source # NoFile => IsSeq(source.parts) /\ source.records \in Int,
         NEW trg, NEW yes
  PROVE  OK(put(f, source, trg, yes))
<1> DEFINE p == parse_cpm_filename(trg)
           key == FileKey(f, p)
<1>1. p.user # E5
  BY TypedUser
<1> HIDE DEF p
<1>2. key[1] # E5
  BY <1>1 DEF FileKey, OK, Unlinked
<1> HIDE DEF key
<1>3. OK([f EXCEPT !.ret = -1]) /\ OK([f EXCEPT !.ret = -2])
  <2>1. -1 \in Int /\ -2 \in Int
    OBVIOUS
  <2> QED BY <2>1, AnswerOK
<1>4. ASSUME source # NoFile PROVE OK(PutParsed(f, source, trg, p, yes))
  <2>1. CASE Chunks(source) > DSM + 1 \/ p.error
    BY <1>3, <2>1 DEF PutParsed
  <2>2. CASE ~ (Chunks(source) > DSM + 1) /\ ~ p.error /\ p.root = <<>>
    <3>1. Chunks(source) <= DSM + 1
      <4>1. Chunks(source) \in Nat /\ DSM \in Nat
        BY <1>4, SeqHasLength, Sizes DEF Chunks
      <4> QED BY <2>2, <4>1
    <3> QED BY <1>3, <2>2, <3>1 DEF PutParsed
  <2>3. CASE ~ (Chunks(source) > DSM + 1) /\ ~ p.error /\ p.root # <<>>
    <3> DEFINE d == delete(f, trg, TRUE, yes)
    <3>1. \/ PutParsed(f, source, trg, p, yes) = PutInto(f, source, trg, key)
          \/ PutParsed(f, source, trg, p, yes) = PutInto(d, source, trg, key)
          \/ PutParsed(f, source, trg, p, yes) = [f EXCEPT !.ret = -1]
      BY <2>3 DEF PutParsed, key
    <3>2. OK(d)
      BY EraseOK DEF delete
    <3> HIDE DEF d
    <3> QED BY <1>2, <1>3, <1>4, <3>1, <3>2, PutIntoOK
  <2> QED BY <2>1, <2>2, <2>3
<1>5. CASE has_wildcards("c", trg) \/ source = NoFile
  BY <1>3, <1>5 DEF put
<1>6. CASE ~ (has_wildcards("c", trg) \/ source = NoFile)
  <2>1. put(f, source, trg, yes) = PutParsed(f, source, trg, p, yes)
    BY <1>6 DEF put, p
  <2> QED BY <1>4, <1>6, <2>1
<1> QED BY <1>5, <1>6

-----------------------------------------------------------------------------
(* get and copy_file.                                                      *)

LEMMA PortionsAre ==
  ASSUME NEW f, DirectorySound(f.directory), NEW c \in Seq(Entries)
  PROVE  Portions(f, c).list \in Seq([blk : DataBlocks, records : Int])
<1> DEFINE S == [blk : DataBlocks, records : Int]
           full == {i \in DOMAIN c : i < Len(c) /\ Len(f.directory[c[i]].blk) < BLKNR}
           ends == IF full = {} THEN Len(c) ELSE FirstOf(full)
           portion(i, k) ==
             LET x == f.directory[c[i]]
             IN [blk |-> x.blk[k],
                 records |-> IF i = Len(c) /\ k = Len(x.blk) THEN x.rec - (k - 1) * RPB ELSE RPB]
           ss == [i \in 1 .. ends |-> [k \in DOMAIN f.directory[c[i]].blk |-> portion(i, k)]]
<1>1. Len(c) \in Nat /\ DOMAIN c = 1 .. Len(c) /\ \A i \in 1 .. Len(c) : c[i] \in Entries
  OBVIOUS
<1>2. ends \in Nat /\ \A i \in 1 .. ends : i \in 1 .. Len(c)
  <2>1. full \in SUBSET Nat /\ \A i \in full : i \in 1 .. Len(c)
    BY <1>1
  <2> HIDE DEF full
  <2>2. full # {} => FirstOf(full) \in full
    BY <2>1, FirstIsLeast
  <2>3. CASE full = {}
    BY <1>1, <2>3
  <2>4. CASE full # {}
    <3>1. ends = FirstOf(full) /\ FirstOf(full) \in 1 .. Len(c)
      BY <2>1, <2>2, <2>4
    <3> HIDE DEF ends
    <3> QED BY <1>1, <3>1
  <2> QED BY <2>3, <2>4
<1> HIDE DEF ends
<1>3. ASSUME NEW i \in 1 .. ends PROVE ss[i] \in Seq(S)
  <2> DEFINE x == f.directory[c[i]]
             s == [k \in DOMAIN x.blk |-> portion(i, k)]
  <2>1. x.blk \in Seq(DataBlocks) /\ x.rec \in Int
    BY <1>1, <1>2 DEF DirectorySound, EntrySound
  <2>2. Len(x.blk) \in Nat /\ DOMAIN x.blk = 1 .. Len(x.blk)
        /\ \A k \in 1 .. Len(x.blk) : x.blk[k] \in DataBlocks
    <3> HIDE DEF x
    <3> QED BY <2>1, SeqElements
  <2>3. ASSUME NEW k \in 1 .. Len(x.blk) PROVE portion(i, k) \in S
    <3>1. (k - 1) * RPB \in Int /\ RPB \in Int
      BY <2>2, Sizes
    <3> QED BY <2>1, <2>2, <3>1
  <2> HIDE DEF S, portion
  <2>4. s \in Seq(S)
    BY <2>2, <2>3
  <2> QED BY <2>4
<1>4. ss \in Seq(Seq(S))
  <2> DEFINE V == Seq(S)
  <2>1. DOMAIN ss = 1 .. ends /\ ss = [i \in 1 .. ends |-> ss[i]]
    OBVIOUS
  <2>2. \A i \in 1 .. ends : ss[i] \in V
    BY <1>3
  <2> HIDE DEF ss, V
  <2>3. ss \in [1 .. ends -> V]
    BY <2>1, <2>2
  <2>4. ss \in Seq(V)
    BY <1>2, <2>3
  <2> QED BY <2>4 DEF V
<1>5. Portions(f, c).list = Joined(ss)
  BY DEF Portions, ends
<1> HIDE DEF ss, S
<1>6. Portions(f, c).list \in Seq(S)
  BY <1>4, <1>5, JoinedIs
<1> QED BY <1>6 DEF S

LEMMA DeliveredIs ==
  ASSUME NEW buffer, NEW records \in Nat
  PROVE  IsSeq(Delivered(buffer, records))
<1>1. CASE records = 0
  BY <1>1, EmptySeq DEF Delivered
<1>2. CASE records # 0
  <2> DEFINE n == (records - 1) \div RPB
             s == [k \in 1 .. n |-> Beyond]
  <2>1. n \in Nat
    <3>1. records - 1 \in Nat /\ RPB \in Nat \ {0}
      BY <1>2, Sizes
    <3> QED BY <3>1, Divides
  <2> HIDE DEF n
  <2>2. s \in Seq({Beyond})
    BY <2>1
  <2>3. <<buffer>> \in Seq({buffer})
    OBVIOUS
  <2> HIDE DEF s
  <2>4. IsSeq(s) /\ IsSeq(<<buffer>>)
    BY <2>2, <2>3 DEF IsSeq
  <2>5. IsSeq(<<buffer>> \o s)
    BY <2>4, SeqConcat
  <2> QED BY <1>2, <2>5 DEF Delivered, s, n
<1> QED BY <1>1, <1>2

\* A command that changes nothing but the buffer, and answers.
Reading(f, g) == Unlinked(g) /\ Alike(f, g)

LEMMA AnsweredReading ==
  ASSUME NEW f, NEW g, Reading(f, g), NEW ret \in Int, NEW out, IsSeq(out)
  PROVE  Reading(f, [g EXCEPT !.ret = ret, !.out = out])
<1> DEFINE r == [g EXCEPT !.ret = ret, !.out = out]
<1>1. /\ Alike(g, r) /\ DOMAIN r = FieldNames /\ r.out = out /\ r.ret = ret
      /\ r.disk = g.disk /\ r.writes = g.writes
  BY DEF Reading, Unlinked, Alike, FieldNames
<1> HIDE DEF r
<1>2. Unlinked(r)
  BY <1>1, AlikeOwned DEF Unlinked, Alike, Reading
<1>3. Reading(f, r)
  BY <1>1, <1>2, AlikeAgain DEF Reading
<1> QED BY <1>3 DEF r

LEMMA ReadPortionOK ==
  ASSUME NEW f, NEW g, Reading(f, g), NEW portion, portion.records \in Int
  PROVE  Reading(f, ReadPortion(g, portion, read_block(g, portion.blk)))
<1> DEFINE h == read_block(g, portion.blk)
<1>1. Reading(f, h) /\ Reading(f, g)
  BY ReadBlockOK, AlikeAgain DEF Reading
<1> HIDE DEF h
<1>2. /\ h.ret \in Int /\ IsSeq(h.out) /\ g.ret \in Int /\ DOMAIN h = FieldNames
  BY <1>1 DEF Reading, Unlinked
<1>3. CASE h.ret < 0 \/ portion.records < 0
  <2>1. ReadPortion(g, portion, h) = [h EXCEPT !.ret = -1]
    BY <1>3 DEF ReadPortion
  <2>2. [h EXCEPT !.ret = -1] = [h EXCEPT !.ret = -1, !.out = h.out]
    BY <1>2 DEF FieldNames
  <2>3. -1 \in Int
    OBVIOUS
  <2>4. Reading(f, [h EXCEPT !.ret = -1, !.out = h.out])
    BY <1>1, <1>2, <2>3, AnsweredReading
  <2> QED BY <2>1, <2>2, <2>4 DEF h
<1>4. CASE ~ (h.ret < 0 \/ portion.records < 0)
  <2> DEFINE more == Delivered(h.buffer, portion.records)
  <2>1. IsSeq(more)
    <3>1. portion.records \in Nat
      BY <1>4
    <3> QED BY <3>1, DeliveredIs
  <2>2. ReadPortion(g, portion, h) =
          [h EXCEPT !.ret = g.ret + portion.records, !.out = h.out \o more]
    BY <1>2, <1>4 DEF ReadPortion
  <2> HIDE DEF more
  <2>3. IsSeq(h.out \o more) /\ g.ret + portion.records \in Int
    BY <1>2, <2>1, SeqConcat
  <2>4. Reading(f, [h EXCEPT !.ret = g.ret + portion.records, !.out = h.out \o more])
    BY <1>1, <2>3, AnsweredReading
  <2> QED BY <2>2, <2>4 DEF h
<1> QED BY <1>3, <1>4

LEMMA ReadPortionsOK ==
  ASSUME NEW f, Unlinked(f), NEW p, IsSeq(p.list),
         \A i \in 1 .. Len(p.list) : p.list[i].records \in Int
  PROVE  Reading(f, ReadPortions(f, p))
<1> DEFINE n == Len(p.list)
           c == [f EXCEPT !.ret = 0, !.out = <<>>]
           W(g, i) == IF g.ret < 0 THEN g ELSE ReadPortion(g, p.list[i], read_block(g, p.list[i].blk))
           Run(h, m) == h = [i \in 0 .. m |-> IF i = 0 THEN c ELSE W(h[i - 1], i)]
           has == {m \in 0 .. n : \E h : Run(h, m)}
           loop == CHOOSE h : Run(h, n)
           good == {m \in 0 .. n : Reading(f, loop[m])}
           r == ReadPortions(f, p)
<1>1. n \in Nat /\ 0 \in 0 .. n
  BY SeqHasLength
<1>2. ASSUME NEW i \in 1 .. n, NEW g, Reading(f, g) PROVE Reading(f, W(g, i))
  <2>1. Reading(f, ReadPortion(g, p.list[i], read_block(g, p.list[i].blk)))
    BY <1>2, ReadPortionOK
  <2> QED BY <1>2, <2>1
<1>3. r = loop[n] \/ r = [loop[n] EXCEPT !.ret = -1]
  BY DEF ReadPortions
<1>4. Reading(f, c)
  <2>1. Reading(f, f) /\ 0 \in Int
    BY DEF Reading, Alike, Unlinked
  <2> QED BY <2>1, EmptySeq, AnsweredReading
<1> HIDE DEF W, n, c, r
<1>5. n \in has
  <2>1. 0 \in has
    <3>1. Run([i \in 0 .. 0 |-> c], 0)
      OBVIOUS
    <3> HIDE DEF Run
    <3> QED BY <1>1, <3>1
  <2>2. ASSUME NEW m \in 1 .. n, m - 1 \in has PROVE m \in has
    <3>1. PICK h : Run(h, m - 1)
      BY <2>2
    <3> DEFINE g == [i \in 0 .. m |-> IF i = m THEN W(h[m - 1], m) ELSE h[i]]
    <3>2. ASSUME NEW i \in 0 .. m PROVE g[i] = IF i = 0 THEN c ELSE W(g[i - 1], i)
      <4>1. i # m => i \in 0 .. m - 1
        BY <1>1
      <4>2. i # 0 => i - 1 \in 0 .. m /\ i - 1 # m
        BY <1>1
      <4> QED BY <3>1, <4>1, <4>2
    <3>3. Run(g, m)
      BY <3>2
    <3>4. m \in 0 .. n
      BY <1>1
    <3> HIDE DEF g, Run
    <3> QED BY <3>3, <3>4
  <2> HIDE DEF has
  <2> QED BY <1>1, <2>1, <2>2, AtTheEnd
<1>6. Run(loop, n)
  <2> HIDE DEF Run
  <2> QED BY <1>5
<1> HIDE DEF loop
<1>7. loop[0] = c /\ \A i \in 1 .. n : loop[i] = W(loop[i - 1], i)
  <2>1. \A i \in 0 .. n : loop[i] = IF i = 0 THEN c ELSE W(loop[i - 1], i)
    BY <1>6
  <2>2. \A i \in 1 .. n : i \in 0 .. n /\ i # 0
    BY <1>1
  <2> QED BY <1>1, <2>1, <2>2
<1> HIDE DEF has, Run
<1>8. 0 \in good /\ \A m \in 1 .. n : m - 1 \in good => m \in good
  BY <1>1, <1>2, <1>4, <1>7
<1>9. n \in good
  <2> HIDE DEF good
  <2> QED BY <1>1, <1>8, AtTheEnd
<1> DEFINE e == loop[n]
<1>10. Reading(f, e)
  BY <1>9
<1> HIDE DEF e
<1>11. Reading(f, [e EXCEPT !.ret = -1])
  <2>1. [e EXCEPT !.ret = -1] = [e EXCEPT !.ret = -1, !.out = e.out]
    BY <1>10 DEF FieldNames, Reading, Unlinked
  <2>2. -1 \in Int /\ IsSeq(e.out)
    BY <1>10 DEF Reading, Unlinked
  <2>3. Reading(f, [e EXCEPT !.ret = -1, !.out = e.out])
    BY <1>10, <2>2, AnsweredReading
  <2> QED BY <2>1, <2>3
<1>12. r = e \/ r = [e EXCEPT !.ret = -1]
  BY <1>3 DEF e
<1>13. Reading(f, r)
  BY <1>10, <1>11, <1>12
<1> QED BY <1>13 DEF r

LEMMA ReadingIsOK == ASSUME NEW f, NEW g, OK(f), Reading(f, g) PROVE OK(g)
BY AlikeThreads DEF OK, Reading

LEMMA GetOK == ASSUME NEW f, OK(f), NEW src, NEW yes PROVE OK(get(f, src, yes))
<1> DEFINE r == get(f, src, yes)
<1>1. CASE has_wildcards("c", src) \/ Found(f, src) = {} \/ ~ yes
  <2>1. r = [f EXCEPT !.ret = -1, !.out = <<>>]
    BY <1>1 DEF get
  <2>2. Reading(f, f) /\ -1 \in Int
    BY DEF Reading, Alike, OK, Unlinked
  <2>3. Reading(f, [f EXCEPT !.ret = -1, !.out = <<>>])
    BY <2>2, EmptySeq, AnsweredReading
  <2> QED BY <2>1, <2>3, ReadingIsOK
<1>2. CASE ~ (has_wildcards("c", src) \/ Found(f, src) = {} \/ ~ yes)
  <2> DEFINE e == FirstOf(Found(f, src))
             p == Portions(f, Chain(f, e))
  <2>1. r = ReadPortions(f, p)
    BY <1>2 DEF get
  <2>2. Found(f, src) \subseteq f.first /\ f.first \subseteq Entries
    BY DEF Found, FoundBy, OK, Threads, InUse
  <2>3. e \in Entries
    <3>1. Found(f, src) \in SUBSET Nat
      BY <2>2, EntriesAre
    <3>2. e \in Found(f, src)
      BY <1>2, <3>1, FirstIsLeast
    <3> QED BY <2>2, <3>2
  <2> HIDE DEF e
  <2>4. Chain(f, e) \in Seq(Entries)
    BY <2>3, ChainIs DEF Thread, OK
  <2>5. p.list \in Seq([blk : DataBlocks, records : Int])
    BY <2>4, PortionsAre DEF OK, Unlinked
  <2> HIDE DEF p
  <2> DEFINE S == [blk : DataBlocks, records : Int]
  <2>6. IsSeq(p.list) /\ \A i \in 1 .. Len(p.list) : p.list[i].records \in Int
    <3>1. \A x \in S : x.records \in Int
      OBVIOUS
    <3>2. p.list \in Seq(S)
      BY <2>5
    <3> HIDE DEF S
    <3>3. IsSeq(p.list)
      BY <3>2 DEF IsSeq
    <3> QED BY <3>1, <3>2, <3>3
  <2>7. Reading(f, ReadPortions(f, p))
    BY <2>6, ReadPortionsOK DEF OK
  <2> QED BY <2>1, <2>7, ReadingIsOK
<1> QED BY <1>1, <1>2

LEMMA CopyFileOK == ASSUME NEW f, OK(f), NEW from, NEW to, NEW yes PROVE OK(copy_file(f, from, to, yes))
<1> DEFINE g == get(f, from, TRUE)
           source == [records |-> g.ret, parts |-> g.out]
<1>1. OK(g)
  BY GetOK
<1>2. copy_file(f, from, to, yes) = IF g.ret = -1 THEN g ELSE put(g, source, to, yes)
  BY DEF copy_file, PutGot
<1> HIDE DEF g
<1>3. IsSeq(source.parts) /\ source.records \in Int
  BY <1>1 DEF OK, Unlinked
<1> HIDE DEF source
<1>4. OK(put(g, source, to, yes))
  BY <1>1, <1>3, PutOK
<1> QED BY <1>1, <1>2, <1>4

-----------------------------------------------------------------------------
(* ren_file, change_attrib, and what is done for every file of a pattern.  *)

\* Entries get another name or attribute, and stay in use or free.
Relabelled(f, r) ==
  /\ DOMAIN r = FieldNames /\ r.first = f.first /\ r.next = f.next
  /\ r.alloc = f.alloc /\ r.user = f.user /\ r.disk = f.disk /\ r.writes = f.writes
  /\ r.out = f.out /\ r.ret = f.ret
  /\ DOMAIN r.directory = Entries
  /\ \A x \in Entries : /\ EntrySound(r.directory[x]) /\ r.directory[x].blk = f.directory[x].blk
                        /\ r.directory[x].user = E5 <=> f.directory[x].user = E5

LEMMA RelabelledOK == ASSUME NEW f, NEW r, OK(f), Relabelled(f, r) PROVE OK(r)
<1>1. InUse(r.directory) = InUse(f.directory)
  BY DEF Relabelled, InUse
<1>2. \A x \in Entries : BlocksOf(r.directory[x]) = BlocksOf(f.directory[x])
  BY DEF Relabelled, BlocksOf
<1>3. \A x \in InUse(f.directory) : x \in Entries
  BY DEF InUse
<1>4. DirectorySound(r.directory)
  BY <1>1, <1>2, <1>3 DEF Relabelled, DirectorySound, OK, Unlinked
<1>5. Owned(r)
  BY <1>1, <1>2, <1>3 DEF Relabelled, Owned, OK, Unlinked
<1>6. Threads(r)
  BY <1>1 DEF Relabelled, Threads, OK
<1> QED BY <1>4, <1>5, <1>6 DEF Relabelled, OK, Unlinked

LEMMA RenamedOK ==
  ASSUME NEW f, OK(f), NEW chain, \A i \in DOMAIN chain : chain[i] \in InUse(f.directory),
         NEW new, new.user # E5
  PROVE  OK(Renamed(f, chain, new))
<1> DEFINE S == {chain[i] : i \in DOMAIN chain}
           named(x) == [x EXCEPT !.user = new.user, !.root = new.root,
                                 !.ext = str2mem(new.ext, ExtSize)]
           d == [e \in Entries |-> IF e \in S THEN named(f.directory[e]) ELSE f.directory[e]]
           r == [f EXCEPT !.directory = d]
<1>1. Renamed(f, chain, new) = r
  BY DEF Renamed, OK, Unlinked, FieldNames
<1>2. ASSUME NEW x, EntrySound(x)
      PROVE  EntrySound(named(x)) /\ named(x).blk = x.blk /\ named(x).user = new.user
  BY <1>2 DEF EntrySound, Nuked
<1> HIDE DEF named
<1>3. \A e \in Entries : d[e] = IF e \in S THEN named(f.directory[e]) ELSE f.directory[e]
  OBVIOUS
<1>4. DOMAIN d = Entries
  OBVIOUS
<1>5. \A e \in S : f.directory[e].user # E5
  BY DEF InUse
<1> HIDE DEF d, S
<1>6. ASSUME NEW e \in Entries
      PROVE  /\ EntrySound(d[e]) /\ d[e].blk = f.directory[e].blk
             /\ d[e].user = E5 <=> f.directory[e].user = E5
  <2>1. EntrySound(f.directory[e])
    BY DEF OK, Unlinked, DirectorySound
  <2> QED BY <1>2, <1>3, <1>5, <2>1
<1>7. Relabelled(f, r)
  BY <1>4, <1>6 DEF Relabelled, OK, Unlinked, FieldNames
<1> HIDE DEF r
<1>8. OK(r)
  BY <1>7, RelabelledOK
<1> QED BY <1>1, <1>8

LEMMA RenFoundOK ==
  ASSUME NEW f, OK(f), NEW from_full, NEW new, new.user # E5
  PROVE  OK(RenFound(f, from_full, new))
<1>1. CASE Found(f, from_full) = {}
  BY <1>1 DEF RenFound
<1>2. CASE Found(f, from_full) # {}
  <2> DEFINE e == FirstOf(Found(f, from_full))
  <2>1. Found(f, from_full) \subseteq f.first /\ f.first \subseteq Entries
    BY DEF Found, FoundBy, OK, Threads, InUse
  <2>2. e \in f.first
    <3>1. Found(f, from_full) \in SUBSET Nat
      BY <2>1, EntriesAre
    <3> QED BY <1>2, <2>1, <3>1, FirstIsLeast
  <2>3. RenFound(f, from_full, new) = Renamed(f, Chain(f, e), new)
    BY <1>2 DEF RenFound
  <2> HIDE DEF e
  <2>4. Members(f, e) \subseteq InUse(f.directory)
    BY <2>2, MembersInUse DEF OK
  <2>5. \A i \in DOMAIN Chain(f, e) : Chain(f, e)[i] \in InUse(f.directory)
    BY <2>4 DEF Members
  <2> QED BY <2>3, <2>5, RenamedOK
<1> QED BY <1>1, <1>2

LEMMA RenFileOK ==
  ASSUME NEW f, OK(f), NEW from, NEW to, NEW yes
  PROVE  OK(ren_file(f, from, to, yes))
<1>1. ASSUME NEW from_full, NEW to_full, NEW new, new.user # E5
      PROVE  OK(RenFull(f, from_full, to_full, new, yes))
  <2>1. CASE to_full = from_full
    BY <2>1 DEF RenFull
  <2>2. CASE to_full # from_full /\ Found(f, to_full) # {}
    <3> DEFINE g == delete(f, to_full, TRUE, yes)
    <3>1. OK(g)
      BY EraseOK DEF delete
    <3>2. RenFull(f, from_full, to_full, new, yes) = IF yes THEN RenFound(g, from_full, new) ELSE f
      BY <2>2 DEF RenFull
    <3> HIDE DEF g
    <3> QED BY <1>1, <3>1, <3>2, RenFoundOK
  <2>3. CASE to_full # from_full /\ Found(f, to_full) = {}
    <3>1. RenFull(f, from_full, to_full, new, yes) = RenFound(f, from_full, new)
      BY <2>3 DEF RenFull
    <3> QED BY <1>1, <3>1, RenFoundOK
  <2> QED BY <2>1, <2>2, <2>3
<1>2. ASSUME NEW p, NEW q, q.user # E5 PROVE OK(RenParsed(f, p, q, yes))
  <2> DEFINE new == [user |-> IF q.user = NoUser THEN f.user ELSE q.user,
                     root |-> IF q.root = <<>> THEN p.root ELSE q.root,
                     ext |-> IF q.root = <<>> THEN p.ext ELSE q.ext]
  <2>1. RenParsed(f, p, q, yes) = IF p.root = <<>> THEN f
                                  ELSE RenFull(f, Full(f, p), Full(f, new), new, yes)
    BY DEF RenParsed
  <2>2. new.user # E5
    BY <1>2 DEF OK, Unlinked
  <2> HIDE DEF new
  <2> QED BY <1>1, <2>1, <2>2
<1>3. parse_cpm_filename(to).user # E5
  BY TypedUser
<1>4. \/ ren_file(f, from, to, yes) = f
      \/ ren_file(f, from, to, yes) = RenParsed(f, parse_cpm_filename(from), parse_cpm_filename(to), yes)
  BY DEF ren_file
<1> QED BY <1>2, <1>3, <1>4

LEMMA RenWildOK ==
  ASSUME NEW f, OK(f), NEW pat, NEW us, NEW yes
  PROVE  OK(ren_wild(f, pat, us, yes))
<1> DEFINE n == DRM + 1
           pattern == Pattern(f, pat)
           D(g, e) == ren_file(g, Name(g.directory[e]), InUser(us, g.directory[e]), yes)
           W(g, i) == IF i - 1 \in g.first /\ Matches(g, pattern, i - 1) THEN D(g, i - 1) ELSE g
           Run(h, m) == h = [i \in 0 .. m |-> IF i = 0 THEN f ELSE W(h[i - 1], i)]
           has == {m \in 0 .. n : \E h : Run(h, m)}
           loop == CHOOSE h : Run(h, n)
           good == {m \in 0 .. n : OK(loop[m])}
<1>1. n \in Nat /\ 0 \in 0 .. n
  BY Sizes
<1>2. ASSUME NEW g, OK(g), NEW e PROVE OK(D(g, e))
  BY <1>2, RenFileOK
<1>3. ren_wild(f, pat, us, yes) = loop[n]
  BY DEF ren_wild, ForEach
<1> HIDE DEF D
<1>4. ASSUME NEW g, OK(g), NEW i PROVE OK(W(g, i))
  BY <1>2, <1>4
<1> HIDE DEF W, n
<1>5. n \in has
  <2>1. 0 \in has
    <3>1. Run([i \in 0 .. 0 |-> f], 0)
      OBVIOUS
    <3> HIDE DEF Run
    <3> QED BY <1>1, <3>1
  <2>2. ASSUME NEW m \in 1 .. n, m - 1 \in has PROVE m \in has
    <3>1. PICK h : Run(h, m - 1)
      BY <2>2
    <3> DEFINE g == [i \in 0 .. m |-> IF i = m THEN W(h[m - 1], m) ELSE h[i]]
    <3>2. ASSUME NEW i \in 0 .. m PROVE g[i] = IF i = 0 THEN f ELSE W(g[i - 1], i)
      <4>1. i # m => i \in 0 .. m - 1
        BY <1>1
      <4>2. i # 0 => i - 1 \in 0 .. m /\ i - 1 # m
        BY <1>1
      <4> QED BY <3>1, <4>1, <4>2
    <3>3. Run(g, m)
      BY <3>2
    <3>4. m \in 0 .. n
      BY <1>1
    <3> HIDE DEF g, Run
    <3> QED BY <3>3, <3>4
  <2> HIDE DEF has
  <2> QED BY <1>1, <2>1, <2>2, AtTheEnd
<1>6. Run(loop, n)
  <2> HIDE DEF Run
  <2> QED BY <1>5
<1> HIDE DEF loop
<1>7. loop[0] = f /\ \A i \in 1 .. n : loop[i] = W(loop[i - 1], i)
  <2>1. \A i \in 0 .. n : loop[i] = IF i = 0 THEN f ELSE W(loop[i - 1], i)
    BY <1>6
  <2>2. \A i \in 1 .. n : i \in 0 .. n /\ i # 0
    BY <1>1
  <2> QED BY <1>1, <2>1, <2>2
<1> HIDE DEF has, Run
<1>8. 0 \in good /\ \A m \in 1 .. n : m - 1 \in good => m \in good
  BY <1>1, <1>4, <1>7
<1>9. n \in good
  <2> HIDE DEF good
  <2> QED BY <1>1, <1>8, AtTheEnd
<1> QED BY <1>3, <1>9

LEMMA CopyWildOK ==
  ASSUME NEW f, OK(f), NEW pat, NEW us, NEW yes
  PROVE  OK(copy_wild(f, pat, us, yes))
<1> DEFINE n == DRM + 1
           pattern == Pattern(f, pat)
           D(g, e) == copy_file(g, Name(g.directory[e]), InUser(us, g.directory[e]), yes)
           W(g, i) == IF i - 1 \in g.first /\ Matches(g, pattern, i - 1) THEN D(g, i - 1) ELSE g
           Run(h, m) == h = [i \in 0 .. m |-> IF i = 0 THEN f ELSE W(h[i - 1], i)]
           has == {m \in 0 .. n : \E h : Run(h, m)}
           loop == CHOOSE h : Run(h, n)
           good == {m \in 0 .. n : OK(loop[m])}
<1>1. n \in Nat /\ 0 \in 0 .. n
  BY Sizes
<1>2. ASSUME NEW g, OK(g), NEW e PROVE OK(D(g, e))
  BY <1>2, CopyFileOK
<1>3. copy_wild(f, pat, us, yes) = loop[n]
  BY DEF copy_wild, ForEach
<1> HIDE DEF D
<1>4. ASSUME NEW g, OK(g), NEW i PROVE OK(W(g, i))
  BY <1>2, <1>4
<1> HIDE DEF W, n
<1>5. n \in has
  <2>1. 0 \in has
    <3>1. Run([i \in 0 .. 0 |-> f], 0)
      OBVIOUS
    <3> HIDE DEF Run
    <3> QED BY <1>1, <3>1
  <2>2. ASSUME NEW m \in 1 .. n, m - 1 \in has PROVE m \in has
    <3>1. PICK h : Run(h, m - 1)
      BY <2>2
    <3> DEFINE g == [i \in 0 .. m |-> IF i = m THEN W(h[m - 1], m) ELSE h[i]]
    <3>2. ASSUME NEW i \in 0 .. m PROVE g[i] = IF i = 0 THEN f ELSE W(g[i - 1], i)
      <4>1. i # m => i \in 0 .. m - 1
        BY <1>1
      <4>2. i # 0 => i - 1 \in 0 .. m /\ i - 1 # m
        BY <1>1
      <4> QED BY <3>1, <4>1, <4>2
    <3>3. Run(g, m)
      BY <3>2
    <3>4. m \in 0 .. n
      BY <1>1
    <3> HIDE DEF g, Run
    <3> QED BY <3>3, <3>4
  <2> HIDE DEF has
  <2> QED BY <1>1, <2>1, <2>2, AtTheEnd
<1>6. Run(loop, n)
  <2> HIDE DEF Run
  <2> QED BY <1>5
<1> HIDE DEF loop
<1>7. loop[0] = f /\ \A i \in 1 .. n : loop[i] = W(loop[i - 1], i)
  <2>1. \A i \in 0 .. n : loop[i] = IF i = 0 THEN f ELSE W(loop[i - 1], i)
    BY <1>6
  <2>2. \A i \in 1 .. n : i \in 0 .. n /\ i # 0
    BY <1>1
  <2> QED BY <1>1, <2>1, <2>2
<1> HIDE DEF has, Run
<1>8. 0 \in good /\ \A m \in 1 .. n : m - 1 \in good => m \in good
  BY <1>1, <1>4, <1>7
<1>9. n \in good
  <2> HIDE DEF good
  <2> QED BY <1>1, <1>8, AtTheEnd
<1> QED BY <1>3, <1>9

LEMMA AttributesOK ==
  ASSUME NEW f, OK(f), NEW S, NEW set
  PROVE  OK([f EXCEPT !.directory =
               [x \in Entries |-> IF x \in S THEN [@[x] EXCEPT !.readonly = set] ELSE @[x]]])
<1> DEFINE marked(x) == [x EXCEPT !.readonly = set]
           d == [e \in Entries |-> IF e \in S THEN marked(f.directory[e]) ELSE f.directory[e]]
           r == [f EXCEPT !.directory = d]
<1>1. r = [f EXCEPT !.directory =
               [x \in Entries |-> IF x \in S THEN [@[x] EXCEPT !.readonly = set] ELSE @[x]]]
  BY DEF OK, Unlinked, FieldNames
<1>2. ASSUME NEW x, EntrySound(x)
      PROVE  EntrySound(marked(x)) /\ marked(x).blk = x.blk /\ marked(x).user = x.user
  BY <1>2 DEF EntrySound, Nuked
<1> HIDE DEF marked
<1>3. \A e \in Entries : d[e] = IF e \in S THEN marked(f.directory[e]) ELSE f.directory[e]
  OBVIOUS
<1>4. DOMAIN d = Entries
  OBVIOUS
<1> HIDE DEF d
<1>5. ASSUME NEW e \in Entries
      PROVE  /\ EntrySound(d[e]) /\ d[e].blk = f.directory[e].blk
             /\ d[e].user = E5 <=> f.directory[e].user = E5
  <2>1. EntrySound(f.directory[e])
    BY DEF OK, Unlinked, DirectorySound
  <2> QED BY <1>2, <1>3, <2>1
<1>6. Relabelled(f, r)
  BY <1>4, <1>5 DEF Relabelled, OK, Unlinked, FieldNames
<1> HIDE DEF r
<1>7. OK(r)
  BY <1>6, RelabelledOK
<1> QED BY <1>1, <1>7

LEMMA ChangeAttribOK ==
  ASSUME NEW f, OK(f), NEW pat, NEW set
  PROVE  OK(change_attrib(f, pat, set))
<1> DEFINE n == DRM + 1
           pattern == Pattern(f, pat)
           D(g, e) == [g EXCEPT !.directory = [x \in Entries |->
                        IF x \in {Chain(g, e)[i] : i \in DOMAIN Chain(g, e)}
                        THEN [@[x] EXCEPT !.readonly = set] ELSE @[x]]]
           W(g, i) == IF i - 1 \in g.first /\ Matches(g, pattern, i - 1) THEN D(g, i - 1) ELSE g
           Run(h, m) == h = [i \in 0 .. m |-> IF i = 0 THEN f ELSE W(h[i - 1], i)]
           has == {m \in 0 .. n : \E h : Run(h, m)}
           loop == CHOOSE h : Run(h, n)
           good == {m \in 0 .. n : OK(loop[m])}
<1>1. n \in Nat /\ 0 \in 0 .. n
  BY Sizes
<1>2. ASSUME NEW g, OK(g), NEW e PROVE OK(D(g, e))
  <2> DEFINE S == {Chain(g, e)[i] : i \in DOMAIN Chain(g, e)}
  <2>1. OK([g EXCEPT !.directory =
              [x \in Entries |-> IF x \in S THEN [@[x] EXCEPT !.readonly = set] ELSE @[x]]])
    <3> HIDE DEF S
    <3> QED BY <1>2, AttributesOK
  <2> QED BY <2>1
<1>3. change_attrib(f, pat, set) = loop[n]
  BY DEF change_attrib, ForEach
<1> HIDE DEF D
<1>4. ASSUME NEW g, OK(g), NEW i PROVE OK(W(g, i))
  BY <1>2, <1>4
<1> HIDE DEF W, n
<1>5. n \in has
  <2>1. 0 \in has
    <3>1. Run([i \in 0 .. 0 |-> f], 0)
      OBVIOUS
    <3> HIDE DEF Run
    <3> QED BY <1>1, <3>1
  <2>2. ASSUME NEW m \in 1 .. n, m - 1 \in has PROVE m \in has
    <3>1. PICK h : Run(h, m - 1)
      BY <2>2
    <3> DEFINE g == [i \in 0 .. m |-> IF i = m THEN W(h[m - 1], m) ELSE h[i]]
    <3>2. ASSUME NEW i \in 0 .. m PROVE g[i] = IF i = 0 THEN f ELSE W(g[i - 1], i)
      <4>1. i # m => i \in 0 .. m - 1
        BY <1>1
      <4>2. i # 0 => i - 1 \in 0 .. m /\ i - 1 # m
        BY <1>1
      <4> QED BY <3>1, <4>1, <4>2
    <3>3. Run(g, m)
      BY <3>2
    <3>4. m \in 0 .. n
      BY <1>1
    <3> HIDE DEF g, Run
    <3> QED BY <3>3, <3>4
  <2> HIDE DEF has
  <2> QED BY <1>1, <2>1, <2>2, AtTheEnd
<1>6. Run(loop, n)
  <2> HIDE DEF Run
  <2> QED BY <1>5
<1> HIDE DEF loop
<1>7. loop[0] = f /\ \A i \in 1 .. n : loop[i] = W(loop[i - 1], i)
  <2>1. \A i \in 0 .. n : loop[i] = IF i = 0 THEN f ELSE W(loop[i - 1], i)
    BY <1>6
  <2>2. \A i \in 1 .. n : i \in 0 .. n /\ i # 0
    BY <1>1
  <2> QED BY <1>1, <2>1, <2>2
<1> HIDE DEF has, Run
<1>8. 0 \in good /\ \A m \in 1 .. n : m - 1 \in good => m \in good
  BY <1>1, <1>4, <1>7
<1>9. n \in good
  <2> HIDE DEF good
  <2> QED BY <1>1, <1>8, AtTheEnd
<1> QED BY <1>3, <1>9

LEMMA DirOK ==
  ASSUME NEW f, OK(f), NEW pat
  PROVE  OK(dir(f, pat))
<1> DEFINE n == DRM + 1
           pattern == Pattern(f, pat)
           D(g, e) == get_amshead(g, e)
           W(g, i) == IF i - 1 \in g.first /\ Matches(g, pattern, i - 1) THEN D(g, i - 1) ELSE g
           Run(h, m) == h = [i \in 0 .. m |-> IF i = 0 THEN f ELSE W(h[i - 1], i)]
           has == {m \in 0 .. n : \E h : Run(h, m)}
           loop == CHOOSE h : Run(h, n)
           good == {m \in 0 .. n : OK(loop[m])}
<1>1. n \in Nat /\ 0 \in 0 .. n
  BY Sizes
<1>2. ASSUME NEW g, OK(g), NEW e PROVE OK(D(g, e))
  <2>1. OK(read_block(g, g.directory[e].blk[1]))
    BY <1>2, ReadBlockOK, ReadingIsOK DEF Reading, OK
  <2> QED BY <1>2, <2>1 DEF get_amshead
<1>3. dir(f, pat) = loop[n]
  BY DEF dir, ForEach
<1> HIDE DEF D
<1>4. ASSUME NEW g, OK(g), NEW i PROVE OK(W(g, i))
  BY <1>2, <1>4
<1> HIDE DEF W, n
<1>5. n \in has
  <2>1. 0 \in has
    <3>1. Run([i \in 0 .. 0 |-> f], 0)
      OBVIOUS
    <3> HIDE DEF Run
    <3> QED BY <1>1, <3>1
  <2>2. ASSUME NEW m \in 1 .. n, m - 1 \in has PROVE m \in has
    <3>1. PICK h : Run(h, m - 1)
      BY <2>2
    <3> DEFINE g == [i \in 0 .. m |-> IF i = m THEN W(h[m - 1], m) ELSE h[i]]
    <3>2. ASSUME NEW i \in 0 .. m PROVE g[i] = IF i = 0 THEN f ELSE W(g[i - 1], i)
      <4>1. i # m => i \in 0 .. m - 1
        BY <1>1
      <4>2. i # 0 => i - 1 \in 0 .. m /\ i - 1 # m
        BY <1>1
      <4> QED BY <3>1, <4>1, <4>2
    <3>3. Run(g, m)
      BY <3>2
    <3>4. m \in 0 .. n
      BY <1>1
    <3> HIDE DEF g, Run
    <3> QED BY <3>3, <3>4
  <2> HIDE DEF has
  <2> QED BY <1>1, <2>1, <2>2, AtTheEnd
<1>6. Run(loop, n)
  <2> HIDE DEF Run
  <2> QED BY <1>5
<1> HIDE DEF loop
<1>7. loop[0] = f /\ \A i \in 1 .. n : loop[i] = W(loop[i - 1], i)
  <2>1. \A i \in 0 .. n : loop[i] = IF i = 0 THEN f ELSE W(loop[i - 1], i)
    BY <1>6
  <2>2. \A i \in 1 .. n : i \in 0 .. n /\ i # 0
    BY <1>1
  <2> QED BY <1>1, <2>1, <2>2
<1> HIDE DEF has, Run
<1>8. 0 \in good /\ \A m \in 1 .. n : m - 1 \in good => m \in good
  BY <1>1, <1>4, <1>7
<1>9. n \in good
  <2> HIDE DEF good
  <2> QED BY <1>1, <1>8, AtTheEnd
<1> QED BY <1>3, <1>9

LEMMA TypeCommandOK == ASSUME NEW f, OK(f), NEW src PROVE OK(type(f, src))
<1> DEFINE g == get(f, src, TRUE)
           r == [g EXCEPT !.buffer = g.out[Len(g.out)]]
<1>1. OK(g)
  BY GetOK
<1>2. type(f, src) = g \/ type(f, src) = r
  BY DEF type
<1> HIDE DEF g
<1>3. Reading(g, r)
  <2>1. Alike(g, r) /\ r.disk = g.disk /\ r.writes = g.writes /\ r.out = g.out /\ r.ret = g.ret
    BY <1>1 DEF OK, Unlinked, Alike, FieldNames
  <2> HIDE DEF r
  <2> QED BY <1>1, <2>1, AlikeOwned DEF Reading, OK, Unlinked, Alike
<1> HIDE DEF r
<1> QED BY <1>1, <1>2, <1>3, ReadingIsOK

-----------------------------------------------------------------------------
(***************************************************************************)
(* The invariant: the memory of an open image is sound, and so is every    *)
(* image that the writes pass through, except while the directory is being *)
(* written.                                                                *)
(***************************************************************************)
IInv ==
  /\ status \in {"open", "closed"} /\ DOMAIN disk = Blocks
  /\ cur_user \in Nat /\ cur_user # E5
  /\ status = "open" => Memory(Fields)
  /\ ~torn => Way(disk, todo, final) /\ ImageSound(final)
  /\ torn => status = "closed" /\ todo = <<>>

LEMMA NoWrites ==
  ASSUME NEW d, NEW e
  PROVE  Way(d, <<>>, e) <=> d = e
<1>1. IsSeq(<<>>) /\ Len(<<>>) = 0
  BY EmptySeq
<1>2. ASSUME Way(d, <<>>, e) PROVE d = e
  BY <1>1, <1>2 DEF Way, Passes
<1>3. ASSUME d = e PROVE Way(d, <<>>, e)
  <2> DEFINE h == [i \in 0 .. 0 |-> d]
  <2>1. DOMAIN h = 0 .. 0 /\ h[0] = d
    OBVIOUS
  <2> HIDE DEF h
  <2>2. Passes(h, d, <<>>, e)
    BY <1>1, <1>3, <2>1 DEF Passes
  <2> QED BY <2>2 DEF Way
<1> QED BY <1>2, <1>3

LEMMA ReadyIsOK == ASSUME IInv, Ready PROVE OK(Fields)
<1>1. disk = final /\ ImageSound(disk) /\ Way(disk, <<>>, disk)
  BY NoWrites DEF IInv, Ready
<1>2. Memory(Fields)
  BY DEF IInv, Ready
<1>3. Fields.disk = disk /\ Fields.writes = <<>> /\ Fields.out = <<>> /\ Fields.ret = 0
  BY DEF Fields
<1> QED BY <1>1, <1>2, <1>3, EmptySeq DEF OK, Unlinked, Memory

LEMMA SetMemoryIs ==
  ASSUME NEW f, OK(f), SetMemory(f)
  PROVE  Memory(Fields)' /\ cur_user' \in Nat /\ cur_user' # E5
<1>1. /\ directory' = f.directory /\ first' = f.first /\ next' = f.next
      /\ blk_alloc' = f.alloc /\ cur_user' = f.user
  BY DEF SetMemory
<1> DEFINE g == Fields'
<1>2. /\ DOMAIN g = FieldNames /\ g.directory = f.directory /\ g.first = f.first
      /\ g.next = f.next /\ g.alloc = f.alloc /\ g.user = f.user
  BY <1>1 DEF Fields, FieldNames
<1> HIDE DEF g
<1>3. Memory(g)
  BY <1>2 DEF Memory, OK, Unlinked, Owned, Threads
<1>4. Memory(Fields)' <=> Memory(g)
  BY DEF g, Memory, DirectorySound, Owned, Threads
<1> QED BY <1>1, <1>3, <1>4 DEF OK, Unlinked

LEMMA AppliedOK ==
  ASSUME IInv, Ready, NEW f, OK(f), NEW names, NEW res, Apply(f, names, res)
  PROVE  IInv'
<1>1. SetMemory(f) /\ todo' = f.writes /\ final' = f.disk /\ disk' = disk /\ status' = status
      /\ torn' = torn
  BY DEF Apply
<1>2. Memory(Fields)' /\ cur_user' \in Nat /\ cur_user' # E5
  BY <1>1, SetMemoryIs
<1>3. status = "open" /\ ~torn
  BY DEF IInv, Ready
<1>4. Way(disk, f.writes, f.disk) /\ ImageSound(f.disk)
  BY DEF OK, Unlinked
<1>5. Way(disk, todo, final)' /\ ImageSound(final)'
  BY <1>1, <1>4
<1> QED BY <1>1, <1>2, <1>3, <1>5 DEF IInv

LEMMA NoMemoryIs ==
  ASSUME SetMemory(NoMemory)
  PROVE  cur_user' \in Nat /\ cur_user' # E5
BY DEF SetMemory, NoMemory, E5

LEMMA OpenedOK ==
  ASSUME IInv, cmd_open
  PROVE  IInv'
<1> DEFINE d == StoredEntries(disk)
           alloc == AL \cup UNION {BlocksOf(d[e]) : e \in InUse(d)}
           g == [Fields EXCEPT !.directory = d, !.dirty = FALSE, !.cur = DBL - 1,
                               !.buffer = disk[DBL - 1], !.alloc = alloc]
           r == get_directory(Fields)
<1>1. /\ disk = final /\ ImageSound(disk) /\ Way(disk, <<>>, disk) /\ ~torn /\ todo = <<>>
      /\ SetMemory(r) /\ status' = "open" /\ UNCHANGED <<disk, final, todo, torn>>
  BY NoWrites DEF IInv, cmd_open
<1>2. r = update_directory(g)
  BY DEF get_directory, Fields
<1>3. \A b : b \in alloc <=> b \in AL \/ \E e \in InUse(d) : b \in BlocksOf(d[e])
  OBVIOUS
<1> HIDE DEF alloc, r
<1>4. DirectorySound(d)
  BY <1>1 DEF ImageSound
<1> HIDE DEF d
<1>5. /\ DOMAIN g = FieldNames /\ g.directory = d /\ g.alloc = alloc /\ g.user = cur_user
      /\ g.disk = disk /\ g.writes = <<>> /\ g.out = <<>> /\ g.ret = 0
  BY DEF Fields, FieldNames
<1> HIDE DEF g
<1>6. Unlinked(g)
  BY <1>1, <1>3, <1>4, <1>5, EmptySeq DEF Unlinked, Owned, IInv
<1>7. OK(r)
  BY <1>2, <1>6, UpdatedOK
<1>8. Memory(Fields)' /\ cur_user' \in Nat /\ cur_user' # E5
  BY <1>1, <1>7, SetMemoryIs
<1>9. Way(disk, todo, final)' /\ ImageSound(final)'
  BY <1>1
<1> QED BY <1>1, <1>8, <1>9 DEF IInv

LEMMA ClosedOK == ASSUME IInv, cmd_close \/ cmd_abort PROVE IInv'
<1>1. status' = "closed" /\ SetMemory(NoMemory) /\ UNCHANGED <<disk, torn>> /\ Ready
  BY DEF cmd_close, cmd_abort
<1>2. cur_user' \in Nat /\ cur_user' # E5
  BY <1>1, NoMemoryIs
<1>3. Way(disk, todo, final)' /\ ImageSound(final)' /\ ~torn
  <2>1. CASE cmd_close
    <3> DEFINE r == put_directory(Fields)
    <3>1. OK(r)
      BY <1>1, ReadyIsOK, PutDirectoryOK
    <3>2. todo' = r.writes /\ final' = r.disk
      BY <2>1 DEF cmd_close
    <3> HIDE DEF r
    <3>3. Way(disk, todo', final') /\ ImageSound(final')
      BY <3>1, <3>2 DEF OK, Unlinked
    <3> QED BY <1>1, <3>3 DEF IInv, Ready
  <2>2. CASE cmd_abort
    <3>1. UNCHANGED <<disk, final, todo>> /\ ~torn
      BY <1>1, <2>2 DEF cmd_abort, IInv, Ready
    <3>2. Way(disk, todo, final) /\ ImageSound(final)
      BY <3>1 DEF IInv
    <3> QED BY <3>1, <3>2
  <2> QED BY <2>1, <2>2
<1> QED BY <1>1, <1>2, <1>3 DEF IInv

LEMMA WriteBlockStepOK == ASSUME IInv, WriteBlock PROVE IInv'
<1>1. /\ todo # <<>> /\ disk' = [disk EXCEPT ![todo[1][1]] = todo[1][2]] /\ todo' = Tail(todo)
      /\ UNCHANGED <<final, status, torn>> /\ UNCHANGED memory
  BY DEF WriteBlock
<1>2. ~torn /\ ImageSound(final) /\ Way(disk, todo, final)
  BY <1>1 DEF IInv
<1>3. PICK h : Passes(h, disk, todo, final)
  BY <1>2 DEF Way
<1> DEFINE w == Tail(todo)
           n == Len(todo)
           g == [i \in 0 .. n - 1 |-> h[i + 1]]
<1>4. /\ IsSeq(w) /\ n > 0 /\ n \in Nat /\ Len(w) = n - 1
      /\ \A i \in 1 .. n - 1 : w[i] = todo[i + 1]
  <2>1. IsSeq(todo)
    BY <1>3 DEF Passes
  <2> QED BY <1>1, <2>1, SeqTail, SeqHasLength
<1> HIDE DEF w, n
<1>5. DOMAIN g = 0 .. n - 1 /\ \A i \in 0 .. n - 1 : g[i] = h[i + 1]
  OBVIOUS
<1> HIDE DEF g
<1>6. /\ h[0] = disk /\ h[n] = final
      /\ \A i \in 1 .. n : todo[i][1] \in Blocks /\ h[i] = [h[i - 1] EXCEPT ![todo[i][1]] = todo[i][2]]
      /\ \A i \in 1 .. n : todo[i][1] \notin 1 .. DBL - 1 => DirectorySound(StoredEntries(h[i - 1]))
  BY <1>3 DEF Passes, n
<1>7. h[1] = disk'
  <2>1. 1 \in 1 .. n /\ 1 - 1 = 0
    BY <1>4
  <2> QED BY <1>1, <1>6, <2>1
<1>8. g[0] = disk' /\ g[n - 1] = final
  <2>1. 0 \in 0 .. n - 1 /\ n - 1 \in 0 .. n - 1 /\ 0 + 1 = 1 /\ (n - 1) + 1 = n
    BY <1>4
  <2> QED BY <1>5, <1>6, <1>7, <2>1
<1>9. ASSUME NEW i \in 1 .. n - 1
      PROVE  /\ w[i][1] \in Blocks /\ g[i] = [g[i - 1] EXCEPT ![w[i][1]] = w[i][2]]
             /\ w[i][1] \notin 1 .. DBL - 1 => DirectorySound(StoredEntries(g[i - 1]))
  <2> DEFINE j == i + 1
  <2>1. j \in 1 .. n /\ i \in 0 .. n - 1 /\ i - 1 \in 0 .. n - 1 /\ (i - 1) + 1 = i /\ j - 1 = i
    BY <1>4
  <2>2. g[i] = h[j] /\ g[i - 1] = h[j - 1] /\ w[i] = todo[j]
    BY <1>4, <1>5, <2>1
  <2> HIDE DEF j
  <2>3. /\ todo[j][1] \in Blocks /\ h[j] = [h[j - 1] EXCEPT ![todo[j][1]] = todo[j][2]]
        /\ todo[j][1] \notin 1 .. DBL - 1 => DirectorySound(StoredEntries(h[j - 1]))
    BY <1>6, <2>1
  <2> QED BY <2>2, <2>3
<1>10. Passes(g, disk', w, final)
  <2>1. \A i \in 1 .. n - 1 :
          w[i][1] \in Blocks /\ g[i] = [g[i - 1] EXCEPT ![w[i][1]] = w[i][2]]
    BY <1>9
  <2>2. \A i \in 1 .. n - 1 :
          w[i][1] \notin 1 .. DBL - 1 => DirectorySound(StoredEntries(g[i - 1]))
    BY <1>9
  <2> QED BY <1>4, <1>5, <1>8, <2>1, <2>2 DEF Passes
<1>11. Way(disk, todo, final)' /\ ImageSound(final)'
  <2>1. Way(disk', w, final)
    BY <1>10 DEF Way
  <2> QED BY <1>1, <1>2, <2>1 DEF w
<1>12. status = "open" => Memory(Fields)'
  <2>1. ASSUME Memory(Fields) PROVE Memory(Fields)'
    <3> DEFINE f == Fields
               r == Fields'
    <3>1. /\ DOMAIN r = FieldNames /\ r.directory = f.directory /\ r.first = f.first
          /\ r.next = f.next /\ r.alloc = f.alloc /\ r.user = f.user
      BY <1>1 DEF Fields, FieldNames, memory
    <3> HIDE DEF f, r
    <3>2. Memory(r)
      BY <2>1, <3>1 DEF Memory, Owned, Threads, f
    <3>3. Memory(Fields)' <=> Memory(r)
      BY DEF r, Memory, DirectorySound, Owned, Threads
    <3> QED BY <3>2, <3>3
  <2> QED BY <2>1 DEF IInv
<1>13. DOMAIN disk' = Blocks /\ cur_user' = cur_user
  BY <1>1 DEF IInv, memory
<1> QED BY <1>1, <1>2, <1>11, <1>12, <1>13 DEF IInv

LEMMA CrashOK == ASSUME IInv, Crash PROVE IInv'
<1>1. /\ SetMemory(NoMemory) /\ status' = "closed" /\ todo' = <<>> /\ final' = disk /\ disk' = disk
      /\ torn' = (torn \/ (todo # <<>> /\ todo[1][1] \in 1 .. DBL - 1))
  BY DEF Crash
<1>2. cur_user' \in Nat /\ cur_user' # E5
  BY <1>1, NoMemoryIs
<1>3. Way(disk, todo, final)'
  BY <1>1, NoWrites
<1>4. ASSUME ~torn' PROVE ImageSound(disk)
  <2>1. ~torn /\ Way(disk, todo, final) /\ ImageSound(final)
    BY <1>1, <1>4 DEF IInv
  <2>2. CASE todo = <<>>
    BY <2>1, <2>2, NoWrites
  <2>3. CASE todo # <<>>
    <3>1. PICK h : Passes(h, disk, todo, final)
      BY <2>1 DEF Way
    <3>2. 1 \in 1 .. Len(todo) /\ 1 - 1 = 0
      <4>1. IsSeq(todo)
        BY <3>1 DEF Passes
      <4> QED BY <2>3, <4>1, SeqTail, SeqHasLength
    <3>3. DirectorySound(StoredEntries(disk))
      BY <1>1, <1>4, <2>3, <3>1, <3>2 DEF Passes
    <3> QED BY <3>3 DEF ImageSound, IInv
  <2> QED BY <2>2, <2>3
<1>5. ~torn' => ImageSound(final)'
  BY <1>1, <1>4
<1> QED BY <1>1, <1>2, <1>3, <1>5 DEF IInv

LEMMA CommandsOK ==
  ASSUME IInv, NEW yes \in BOOLEAN,
         \/ \E n \in Names, s \in Sources : cmd_put(s, n, yes)
         \/ \E n \in Names : cmd_get(n, yes) \/ cmd_type(n)
         \/ \E p \in Patterns : cmd_era(p, yes) \/ cmd_nuke(p, yes) \/ cmd_attrib(p, yes) \/ cmd_dir(p)
         \/ cmd_clean(yes)
         \/ \E u \in {k[1] : k \in Keys} : cmd_user(u)
  PROVE  IInv'
<1>1. CASE \E n \in Names, s \in Sources : cmd_put(s, n, yes)
  <2>1. PICK n \in Names, s \in Sources : cmd_put(s, n, yes)
    BY <1>1
  <2> DEFINE f == put(Fields, s, n, yes)
  <2>2. Ready /\ \E names, res : Apply(f, names, res)
    BY <2>1 DEF cmd_put
  <2>3. IsSeq(s.parts) /\ s.records \in Int
    BY FsAssumption DEF IsSeq
  <2>4. OK(f)
    BY <2>2, <2>3, ReadyIsOK, PutOK
  <2> HIDE DEF f
  <2> QED BY <2>2, <2>4, AppliedOK
<1>2. CASE \E n \in Names : cmd_get(n, yes) \/ cmd_type(n)
  <2>1. PICK n \in Names : cmd_get(n, yes) \/ cmd_type(n)
    BY <1>2
  <2>2. CASE cmd_get(n, yes)
    <3> DEFINE f == get(Fields, n, yes)
    <3>1. Ready /\ \E names, res : Apply(f, names, res)
      BY <2>2 DEF cmd_get
    <3>2. OK(f)
      BY <3>1, ReadyIsOK, GetOK
    <3> HIDE DEF f
    <3> QED BY <3>1, <3>2, AppliedOK
  <2>3. CASE cmd_type(n)
    <3> DEFINE f == type(Fields, n)
    <3>1. Ready /\ \E names, res : Apply(f, names, res)
      BY <2>3 DEF cmd_type
    <3>2. OK(f)
      BY <3>1, ReadyIsOK, TypeCommandOK
    <3> HIDE DEF f
    <3> QED BY <3>1, <3>2, AppliedOK
  <2> QED BY <2>1, <2>2, <2>3
<1>3. CASE \E p \in Patterns : cmd_era(p, yes) \/ cmd_nuke(p, yes) \/ cmd_attrib(p, yes) \/ cmd_dir(p)
  <2>1. PICK p \in Patterns : cmd_era(p, yes) \/ cmd_nuke(p, yes) \/ cmd_attrib(p, yes) \/ cmd_dir(p)
    BY <1>3
  <2>2. CASE cmd_era(p, yes)
    <3> DEFINE f == put_directory(delete(Fields, p, FALSE, yes))
    <3>1. Ready /\ \E names, res : Apply(f, names, res)
      BY <2>2 DEF cmd_era
    <3>2. OK(delete(Fields, p, FALSE, yes))
      BY <3>1, ReadyIsOK, EraseOK DEF delete
    <3>3. OK(f)
      BY <3>2, PutDirectoryOK
    <3> HIDE DEF f
    <3> QED BY <3>1, <3>3, AppliedOK
  <2>3. CASE cmd_nuke(p, yes)
    <3> DEFINE f == put_directory(nuke(Fields, p, yes))
    <3>1. Ready /\ \E names, res : Apply(f, names, res)
      BY <2>3 DEF cmd_nuke
    <3>2. OK(nuke(Fields, p, yes))
      BY <3>1, ReadyIsOK, EraseOK DEF nuke
    <3>3. OK(f)
      BY <3>2, PutDirectoryOK
    <3> HIDE DEF f
    <3> QED BY <3>1, <3>3, AppliedOK
  <2>4. CASE cmd_attrib(p, yes)
    <3> DEFINE f == change_attrib(Fields, p, yes)
    <3>1. Ready /\ \E names, res : Apply(f, names, res)
      BY <2>4 DEF cmd_attrib
    <3>2. OK(f)
      BY <3>1, ReadyIsOK, ChangeAttribOK
    <3> HIDE DEF f
    <3> QED BY <3>1, <3>2, AppliedOK
  <2>5. CASE cmd_dir(p)
    <3> DEFINE f == dir(Fields, p)
    <3>1. Ready /\ \E names, res : Apply(f, names, res)
      BY <2>5 DEF cmd_dir
    <3>2. OK(f)
      BY <3>1, ReadyIsOK, DirOK
    <3> HIDE DEF f
    <3> QED BY <3>1, <3>2, AppliedOK
  <2> QED BY <2>1, <2>2, <2>3, <2>4, <2>5
<1>4. CASE cmd_clean(yes)
  <2> DEFINE f == put_directory(IF yes THEN clean(Fields) ELSE Fields)
  <2>1. Ready /\ \E names, res : Apply(f, names, res)
    BY <1>4 DEF cmd_clean
  <2>2. OK(IF yes THEN clean(Fields) ELSE Fields)
    BY <2>1, ReadyIsOK, CleanOK
  <2>3. OK(f)
    BY <2>2, PutDirectoryOK
  <2> HIDE DEF f
  <2> QED BY <2>1, <2>3, AppliedOK
<1>5. CASE \E u \in {k[1] : k \in Keys} : cmd_user(u)
  <2>1. PICK u \in {k[1] : k \in Keys} : cmd_user(u)
    BY <1>5
  <2> DEFINE f == [Fields EXCEPT !.user = u]
  <2>2. Ready /\ \E names, res : Apply(f, names, res)
    BY <2>1 DEF cmd_user
  <2>3. u \in Nat /\ u # E5
    BY FsAssumption
  <2>4. OK(f)
    <3> DEFINE g == Fields
    <3>1. OK(g)
      BY <2>2, ReadyIsOK
    <3>2. f = [g EXCEPT !.user = u]
      OBVIOUS
    <3> HIDE DEF g, f
    <3>3. /\ DOMAIN f = FieldNames /\ f.directory = g.directory
          /\ f.first = g.first /\ f.next = g.next /\ f.alloc = g.alloc /\ f.user = u
          /\ f.disk = g.disk /\ f.writes = g.writes /\ f.out = g.out /\ f.ret = g.ret
      BY <3>1, <3>2 DEF OK, Unlinked, FieldNames
    <3> QED BY <2>3, <3>1, <3>3 DEF OK, Unlinked, Owned, Threads
  <2> HIDE DEF f
  <2> QED BY <2>2, <2>4, AppliedOK
<1> QED BY <1>1, <1>2, <1>3, <1>4, <1>5

LEMMA TransfersOK ==
  ASSUME IInv, NEW from, NEW to, NEW yes \in BOOLEAN, cmd_ren(from, to, yes) \/ cmd_copy(from, to, yes)
  PROVE  IInv'
<1>1. Ready
  BY DEF cmd_ren, cmd_copy
<1>2. OK(Fields)
  BY <1>1, ReadyIsOK
<1>3. CASE cmd_ren(from, to, yes)
  <2> DEFINE f == IF parse_cpm_filename(to).root = <<>>
                  THEN ren_wild(Fields, from, Target(to), yes) ELSE ren_file(Fields, from, to, yes)
             r == put_directory(Updated(f))
  <2>1. \E names, res : Apply(Fields, names, res) \/ Apply(r, names, res)
    BY <1>3 DEF cmd_ren
  <2>2. OK(f)
    BY <1>2, RenWildOK, RenFileOK
  <2> HIDE DEF f
  <2>3. OK(Updated(f))
    BY <2>2, UpdatedOK DEF OK
  <2>4. OK(r)
    BY <2>3, PutDirectoryOK
  <2> HIDE DEF r
  <2> QED BY <1>1, <1>2, <2>1, <2>4, AppliedOK
<1>4. CASE cmd_copy(from, to, yes)
  <2> DEFINE f == IF parse_cpm_filename(to).root = <<>>
                  THEN copy_wild(Fields, from, Target(to), yes) ELSE copy_file(Fields, from, to, yes)
  <2>1. \E names, res : Apply(Fields, names, res) \/ Apply(f, names, res)
    BY <1>4 DEF cmd_copy
  <2>2. OK(f)
    BY <1>2, CopyWildOK, CopyFileOK
  <2> HIDE DEF f
  <2> QED BY <1>1, <1>2, <2>1, <2>2, AppliedOK
<1> QED BY <1>3, <1>4

LEMMA InitInvariant == Init => IInv
<1> SUFFICES ASSUME Init PROVE IInv
  OBVIOUS
<1>1. disk \in Disks /\ final = disk /\ status = "closed" /\ todo = <<>> /\ torn = FALSE /\ cur_user = 0
  BY DEF Init
<1>2. ImageSound(disk)
  BY <1>1, FsAssumption DEF ImageSound
<1>3. Way(disk, todo, final)
  BY <1>1, NoWrites
<1> QED BY <1>1, <1>2, <1>3 DEF IInv, ImageSound, E5

LEMMA NextInvariant == IInv /\ [Next]_vars => IInv'
<1> SUFFICES ASSUME IInv, [Next]_vars PROVE IInv'
  OBVIOUS
<1>1. CASE UNCHANGED vars
  <2>1. UNCHANGED <<disk, final, status, todo, torn, directory, first, next, blk_alloc,
                    block_buffer, cur_blk, directory_dirty, cur_user>>
    BY <1>1 DEF vars, memory
  <2>2. Fields' = Fields
    BY <2>1 DEF Fields
  <2>3. Memory(Fields)' <=> Memory(Fields')
    BY DEF Memory, DirectorySound, Owned, Threads
  <2>4. Way(disk, todo, final)' <=> Way(disk, todo, final)
    BY <2>1
  <2> QED BY <2>1, <2>2, <2>3, <2>4 DEF IInv
<1>2. CASE \E t \in Transfers, yes \in BOOLEAN : cmd_ren(t[1], t[2], yes) \/ cmd_copy(t[1], t[2], yes)
  BY <1>2, TransfersOK
<1>3. CASE cmd_open
  BY <1>3, OpenedOK
<1>4. CASE cmd_close \/ cmd_abort
  BY <1>4, ClosedOK
<1>5. CASE WriteBlock
  BY <1>5, WriteBlockStepOK
<1>6. CASE Crash
  BY <1>6, CrashOK
<1>7. CASE \/ \E n \in Names, s \in Sources, yes \in BOOLEAN : cmd_put(s, n, yes)
           \/ \E n \in Names, yes \in BOOLEAN : cmd_get(n, yes)
           \/ \E n \in Names : cmd_type(n)
           \/ \E p \in Patterns, yes \in BOOLEAN : cmd_era(p, yes) \/ cmd_nuke(p, yes)
           \/ \E yes \in BOOLEAN : cmd_clean(yes)
           \/ \E p \in Patterns, set \in BOOLEAN : cmd_attrib(p, set)
           \/ \E p \in Patterns : cmd_dir(p)
           \/ \E u \in {k[1] : k \in Keys} : cmd_user(u)
  <2>1. TRUE \in BOOLEAN
    OBVIOUS
  <2> QED BY <1>7, <2>1, CommandsOK
<1> QED BY <1>1, <1>2, <1>3, <1>4, <1>5, <1>6, <1>7 DEF Next

\* The directory in memory is sound, exactly the blocks in use are marked, and
\* the links of update_directory are threads: no entry follows two others.  And
\* wherever the program is killed, the image has a sound directory again, unless
\* that was in the middle of put_directory.
THEOREM FsInvariant == Spec => []IInv
<1> QED BY InitInvariant, NextInvariant, PTL DEF Spec

\* However files are stored, replaced, renamed and erased on an image, which
\* blocks cannot be written and wherever the program is killed, no block
\* belongs to two entries, and exactly the blocks of the entries in use and of
\* the directory are marked as allocated (BlocksHaveOneOwner).
THEOREM OneOwner == Spec => []BlocksHaveOneOwner
<1>1. IInv => BlocksHaveOneOwner
  <2> SUFFICES ASSUME IInv, status = "open" PROVE BlocksHaveOneOwner
    BY DEF BlocksHaveOneOwner
  <2>1. DirectorySound(directory) /\ Owned(Fields)
    BY DEF IInv, Memory, Fields
  <2>2. \A b : b \in blk_alloc <=> b \in AL \/ \E e \in InUse(directory) : b \in BlocksOf(directory[e])
    BY <2>1 DEF Owned, Fields
  <2>3. blk_alloc = AL \cup UNION {BlocksOf(directory[e]) : e \in InUse(directory)}
    BY <2>2
  <2> QED BY <2>1, <2>3 DEF BlocksHaveOneOwner, DirectorySound
<1> QED BY <1>1, FsInvariant, PTL

=============================================================================
