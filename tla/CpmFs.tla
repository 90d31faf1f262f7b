------------------------------- MODULE CpmFs -------------------------------
(***************************************************************************)
(* The CP/M file system of cpcxfs: the directory in memory, the blocks of  *)
(* the image, and the commands that work on them.                          *)
(*                                                                         *)
(* A command computes its changes at once, in the order the code makes     *)
(* them; the blocks it writes are in todo and reach the image one by one,  *)
(* with a crash possible before each.  A block holds a part of a file, a   *)
(* part of the directory, filler bytes, or what a failed access left.      *)
(* Lengths are counted in records; an entry describes one extent (EXM is   *)
(* 0).  Reads are in binary mode.  What the user answers when asked is the *)
(* parameter yes of a command; -f and FORCE stand for TRUE.                *)
(***************************************************************************)
EXTENDS CpmNames, FiniteSets, TLC

CONSTANTS
  DRM, DSM,       \* the last entry of the directory, the last block
  PerBlock,       \* entries in a block of the directory
  AL,             \* blocks that AL0 and AL1 reserve for the directory
  DBL,            \* number of blocks of the directory
  BLKNR,          \* blocks of an entry
  RPB,            \* records of a block
  Bad,            \* blocks with a sector that is not in the image
  Keys,           \* names of files that may come to exist, <<user, root, ext>>
  Sources,        \* local files: the records they have and the parts of them
  Names, Patterns, \* names and patterns that are typed
  Transfers,      \* what REN and COPY are asked, <<from, to>>
  Disks,          \* what the blocks of an image may hold at first
  MaxCalls        \* bound on the number of commands

\* No name that is typed for a new file runs beyond the name of an entry.
ASSUME NamesHold ==
  \A text \in Names \cup {t[2] : t \in Transfers} :
    Len(parse_cpm_filename(text).ext) <= ExtSize + NameRoom

VARIABLES disk, final, status, directory, first, next, blk_alloc, block_buffer, cur_blk,
          directory_dirty, cur_user, todo, result, touched, torn, calls

memory == <<directory, first, next, blk_alloc, block_buffer, cur_blk, directory_dirty, cur_user>>
vars == <<disk, final, status, memory, todo, result, touched, torn, calls>>

Entries == 0 .. DRM
Blocks == 0 .. DSM
E5 == 229
Filler == [kind |-> "filler"]
Damaged == [kind |-> "damaged"]
Beyond == [kind |-> "beyond"]          \* memory behind the block buffer
NoBlock == [kind |-> "none"]
Part(source, k) == [kind |-> "part", source |-> source, part |-> k]
NoFile == [records |-> -1, parts |-> <<>>]
Nuked == [user |-> E5, root |-> <<>>, ext |-> <<>>, extent |-> E5, rec |-> E5,
          readonly |-> FALSE, blk |-> <<>>]

FirstOf(S) == CHOOSE x \in S : \A y \in S : x <= y
Increasing(S) ==
  LET upto[n \in 0 .. DRM + DSM + 1] ==
        IF n = 0 THEN <<>>
        ELSE IF n - 1 \in S THEN Append(upto[n - 1], n - 1) ELSE upto[n - 1]
  IN upto[DRM + DSM + 1]
BlocksOf(e) == {e.blk[i] : i \in DOMAIN e.blk}
Joined(ss) ==
  LET join[i \in 0 .. Len(ss)] == IF i = 0 THEN <<>> ELSE join[i - 1] \o ss[i]
  IN join[Len(ss)]

\* The state a command works on: f is its fields; disk as it will be when the
\* writes are done, ret and out what the last call answered and delivered.
Fields == [directory |-> directory, first |-> first, next |-> next, alloc |-> blk_alloc,
           buffer |-> block_buffer, cur |-> cur_blk, dirty |-> directory_dirty, user |-> cur_user,
           disk |-> disk, writes |-> <<>>, ret |-> 0, out |-> <<>>, why |-> ""]

-----------------------------------------------------------------------------
\* Blocks.
read_block(f, b) ==
  CASE b = f.cur -> [f EXCEPT !.ret = 0]
    [] b # f.cur /\ b \notin Blocks -> [f EXCEPT !.ret = -1]
    [] b # f.cur /\ b \in Bad -> [f EXCEPT !.ret = -1, !.buffer = Damaged]
    [] OTHER -> [f EXCEPT !.ret = 0, !.buffer = f.disk[b], !.cur = b]

\* The data are put into the buffer first, and cur_blk is not changed.
write_block(f, b, data) ==
  LET written == IF b \in Bad THEN Damaged ELSE data
  IN [f EXCEPT !.buffer = data, !.disk = [@ EXCEPT ![b] = written],
               !.writes = Append(@, <<b, written>>)]

FreeBlocks(f) == {b \in DBL .. DSM : b \notin f.alloc}

-----------------------------------------------------------------------------
\* Files in the directory.
Key(e) == <<e.user, e.root, e.ext>>
Name(e) == build_cpm_name(e.user, e.root, e.ext)
InUse(d) == {e \in Entries : d[e].user # E5}
Extents(d, e) == {x \in InUse(d) : Key(d[x]) = Key(d[e])}
BeforeByEntry(d, x, y) == x < y        \* the code changed: extents are not sorted
Before(d, x, y) == d[x].extent < d[y].extent \/ (d[x].extent = d[y].extent /\ x < y)

\* The first entry of every file, and the entry that follows an entry.
update_directory(f) ==
  LET d == f.directory
      behind(e) == {x \in Extents(d, e) : Before(d, e, x)}
  IN [f EXCEPT
       !.first = {e \in InUse(d) : \A x \in Extents(d, e) : ~Before(d, x, e)},
       !.next = [e \in Entries |->
                   IF e \notin InUse(d) \/ behind(e) = {} THEN -1
                   ELSE CHOOSE x \in behind(e) : \A y \in behind(e) : ~Before(d, y, x)]]

Updated(f) == [update_directory(f) EXCEPT !.dirty = TRUE]

DirBlock(d, b) ==
  [kind |-> "directory", entry |-> [i \in 0 .. PerBlock - 1 |-> d[b * PerBlock + i]]]

put_directory(f) ==
  LET put[b \in 0 .. DBL] ==
        IF b = 0 THEN [f EXCEPT !.dirty = FALSE]
        ELSE LET g == put[b - 1] IN write_block(g, b - 1, DirBlock(f.directory, b - 1))
  IN IF f.dirty THEN put[DBL] ELSE f

\* A block of a new image holds filler bytes, which read as free entries.
StoredEntries(d) ==
  [e \in Entries |-> IF d[e \div PerBlock].kind = "directory"
                     THEN d[e \div PerBlock].entry[e % PerBlock] ELSE Nuked]

\* The code changed: only the first entries mark their blocks.
get_directory_first(f) ==
  LET g == update_directory([f EXCEPT !.directory = StoredEntries(f.disk), !.dirty = FALSE,
                                      !.cur = DBL - 1, !.buffer = f.disk[DBL - 1]])
  IN [g EXCEPT !.alloc = AL \cup UNION {BlocksOf(g.directory[e]) : e \in g.first}]

get_directory(f) ==
  LET d == StoredEntries(f.disk)
  IN update_directory(
       [f EXCEPT !.directory = d, !.dirty = FALSE, !.cur = DBL - 1, !.buffer = f.disk[DBL - 1],
                 !.alloc = AL \cup UNION {BlocksOf(d[e]) : e \in InUse(d)}])

\* A directory whose entries do not share a block.
DataBlocks == (DBL .. DSM) \ AL
EntrySound(r) == DOMAIN r = DOMAIN Nuked /\ r.extent \in Nat /\ r.rec \in Int
                 /\ r.blk \in Seq(DataBlocks)
DirectorySound(d) ==
  /\ DOMAIN d = Entries /\ \A e \in Entries : EntrySound(d[e])
  /\ \A x, y \in InUse(d) : x # y => BlocksOf(d[x]) \cap BlocksOf(d[y]) = {}

\* The directory fills whole blocks, which are reserved; images are sound when
\* they are first opened.
ASSUME FsAssumption ==
  /\ DRM \in Nat /\ DSM \in Nat /\ PerBlock \in Nat \ {0} /\ DBL \in 1 .. DSM + 1
  /\ BLKNR \in Nat \ {0} /\ RPB \in Nat \ {0}
  /\ DRM + 1 = DBL * PerBlock /\ 0 .. DBL - 1 \subseteq AL
  /\ \A k \in Keys : k[1] \in Nat /\ k[1] # E5
  /\ \A s \in Sources :
       s.records \in Int /\ s.parts \in Seq({s.parts[i] : i \in DOMAIN s.parts})
  /\ \A d \in Disks : DOMAIN d = Blocks /\ DirectorySound(StoredEntries(d))

ChainFirst(f, e) == <<e>>               \* the code changed: next is not followed

\* The entries of the file that starts with e.
Chain(f, e) ==
  LET chain[k \in Entries] ==
        IF k = 0 THEN <<e>>
        ELSE LET c == chain[k - 1]
             IN IF f.next[c[Len(c)]] = -1 THEN c ELSE Append(c, f.next[c[Len(c)]])
  IN chain[DRM]

-----------------------------------------------------------------------------
\* glob_cpm_file and glob_cpm_next.
NoPattern == <<>>

PatternOf(user, p) ==
  CASE p.error \/ (p.root = <<>> /\ p.user < 0) -> NoPattern
    [] ~p.error /\ p.root = <<>> /\ p.user >= 0 -> build_cpm_name(p.user, <<"*">>, <<"*">>)
    [] OTHER -> build_cpm_name(IF p.user = NoUser THEN user ELSE p.user, p.root, p.ext)

Pattern(f, pat) == PatternOf(f.user, parse_cpm_filename(pat))

Matches(f, pattern, e) == pattern # NoPattern /\ match(pattern, Name(f.directory[e]))
FoundBy(f, pattern) == {e \in f.first : Matches(f, pattern, e)}
Found(f, pat) == FoundBy(f, Pattern(f, pat))

\* A command on every file that is found, in the order of their first entries;
\* what the command changes counts for the files behind.
ForEach(f, pattern, Do(_, _)) ==
  LET loop[e \in 0 .. DRM + 1] ==
        IF e = 0 THEN f
        ELSE LET g == loop[e - 1]
             IN IF e - 1 \in g.first /\ Matches(g, pattern, e - 1) THEN Do(g, e - 1) ELSE g
  IN loop[DRM + 1]

SweepingUser(pat) == match(<<"*", ":">>, pat)  \* the code changed: *.* is not questioned

\* The patterns that are questioned: *.* and a user number alone.
Sweeping(pat) ==
  match(<<"*", "\\", "*", ".", "\\", "*", "*">>, pat) \/ match(<<"*", ":">>, pat)

-----------------------------------------------------------------------------
\* delete, nuke and clean.
\* The code changed: only the first entry is freed.
DeleteFirstEntry(f, e) ==
  [f EXCEPT !.directory = [@ EXCEPT ![e].user = E5], !.alloc = @ \ BlocksOf(f.directory[e])]

DeleteFile(f, e) ==
  LET gone == {Chain(f, e)[i] : i \in DOMAIN Chain(f, e)}
  IN [f EXCEPT !.directory = [x \in Entries |->
                               IF x \in gone THEN [@[x] EXCEPT !.user = E5] ELSE @[x]],
               !.alloc = @ \ UNION {BlocksOf(f.directory[x]) : x \in gone}]

nuke_blocks(f, order) ==
  LET nuke[i \in 0 .. Len(order)] ==
        IF i = 0 THEN f ELSE LET g == nuke[i - 1] IN write_block(g, order[i], Filler)
  IN nuke[Len(order)]

NukeFile(f, e) ==
  LET gone == {Chain(f, e)[i] : i \in DOMAIN Chain(f, e)}
      g == nuke_blocks(DeleteFile(f, e),
                       Joined([i \in DOMAIN Chain(f, e) |-> f.directory[Chain(f, e)[i]].blk]))
  IN [g EXCEPT !.directory = [x \in Entries |-> IF x \in gone THEN Nuked ELSE @[x]]]

EraseFile(f, e, nuking) == IF nuking THEN NukeFile(f, e) ELSE DeleteFile(f, e)

Erase(f, pat, silent, yes, nuking) ==
  LET do(g, e) == IF g.directory[e].readonly /\ ~silent /\ ~yes THEN g ELSE EraseFile(g, e, nuking)
  IN IF (Sweeping(pat) /\ ~silent /\ ~yes) \/ Found(f, pat) = {} THEN f
     ELSE Updated(ForEach(f, Pattern(f, pat), do))

delete(f, pat, silent, yes) == Erase(f, pat, silent, yes, FALSE)
nuke(f, pat, yes) == Erase(f, pat, FALSE, yes, TRUE)

\* The code changed: the blocks of the directory count as unused.
clean_all(f) ==
  LET used == UNION {BlocksOf(f.directory[e]) : e \in InUse(f.directory)}
      g == nuke_blocks(f, Increasing(Blocks \ used))
  IN Updated([g EXCEPT !.directory = [e \in Entries |-> IF @[e].user = E5 THEN Nuked ELSE @[e]]])

clean(f) ==
  LET used == AL \cup UNION {BlocksOf(f.directory[e]) : e \in InUse(f.directory)}
      g == nuke_blocks(f, Increasing(Blocks \ used))
  IN Updated([g EXCEPT !.directory = [e \in Entries |-> IF @[e].user = E5 THEN Nuked ELSE @[e]]])

-----------------------------------------------------------------------------
\* get(): the blocks of the file and how many records of each, up to where an
\* entry but the last is not full; negative after the end of a file that was
\* cut short, and, with nothing read, when there is no such file or a local
\* file is in the way that the user keeps.
Portions(f, c) ==
  LET full == {i \in DOMAIN c : i < Len(c) /\ Len(f.directory[c[i]].blk) < BLKNR}
      ends == IF full = {} THEN Len(c) ELSE FirstOf(full)
      portion(i, k) ==
        LET x == f.directory[c[i]]
        IN [blk |-> x.blk[k],
            records |-> IF i = Len(c) /\ k = Len(x.blk) THEN x.rec - (k - 1) * RPB ELSE RPB]
  IN [list |-> Joined([i \in 1 .. ends |->
                            [k \in DOMAIN f.directory[c[i]].blk |-> portion(i, k)]]),
      corrupt |-> full # {}]

\* Records that the block buffer does not hold are taken from behind it.
Delivered(buffer, records) ==
  IF records = 0 THEN <<>> ELSE <<buffer>> \o [k \in 1 .. ((records - 1) \div RPB) |-> Beyond]

ReadPortion(f, portion, g) ==
  IF g.ret < 0 \/ portion.records < 0 THEN [g EXCEPT !.ret = -1]
  ELSE [g EXCEPT !.ret = f.ret + portion.records, !.out = @ \o Delivered(g.buffer, portion.records)]

ReadPortions(f, p) ==
  LET read[i \in 0 .. Len(p.list)] ==
        IF i = 0 THEN [f EXCEPT !.ret = 0, !.out = <<>>]
        ELSE LET g == read[i - 1]
             IN IF g.ret < 0 THEN g ELSE ReadPortion(g, p.list[i], read_block(g, p.list[i].blk))
  IN IF p.corrupt THEN [read[Len(p.list)] EXCEPT !.ret = -1] ELSE read[Len(p.list)]

get(f, src, yes) ==
  IF has_wildcards("c", src) \/ Found(f, src) = {} \/ ~yes THEN [f EXCEPT !.ret = -1, !.out = <<>>]
  ELSE ReadPortions(f, Portions(f, Chain(f, FirstOf(Found(f, src)))))

\* put(): the parts go to the free blocks from the lowest on, BLKNR to a free
\* entry; it stops at a block that cannot be written and when no block is left.
Chunks(source) == Len(source.parts)

Begun(f, e, key) ==
  [f EXCEPT !.directory[e] = [@ EXCEPT !.user = key[1], !.root = key[2], !.ext = key[3],
                                       !.readonly = FALSE, !.blk = <<>>]]

Written(f, e, b, part) ==
  [write_block(f, b, part) EXCEPT !.directory[e].blk = Append(@, b), !.alloc = @ \cup {b},
                                  !.why = IF b \in Bad THEN "write error" ELSE "done"]

Counted(f, e, n, records) ==
  [f EXCEPT !.directory[e].extent = n - 1,
            !.directory[e].rec = Smaller(records - (n - 1) * BLKNR * RPB, BLKNR * RPB)]

BeginExtent(f, e, key, k) == IF k % BLKNR = 1 \/ BLKNR = 1 THEN Begun(f, e, key) ELSE f

CountExtent(f, e, n, source, k) ==
  IF f.why = "done" /\ (k % BLKNR = 0 \/ k = Chunks(source))
  THEN Counted(f, e, n, source.records) ELSE f

NoEntry(f) == [f EXCEPT !.why = "directory full"]
NoRoom(f, part) == [f EXCEPT !.why = "disk full", !.buffer = part]

\* The part k, in the n-th extent.
PutPart(f, source, key, entry, blk, k, n) ==
  IF n > Len(entry) THEN NoEntry(f)
  ELSE LET g == BeginExtent(f, entry[n], key, k)
       IN IF k > Len(blk) THEN NoRoom(g, source.parts[k])
          ELSE CountExtent(Written(g, entry[n], blk[k], source.parts[k]), entry[n], n, source, k)

PutChunk(f, source, key, entry, blk, k) ==
  PutPart(f, source, key, entry, blk, k, (k - 1) \div BLKNR + 1)

\* A directory without a free entry takes nothing and all is well; one that is
\* just filled counts as too small.
Fill(f, source, key, entry, blk) ==
  LET fill[k \in 0 .. Chunks(source)] ==
        IF k = 0 THEN [f EXCEPT !.why = "done", !.ret = source.records]
        ELSE LET g == fill[k - 1]
             IN IF g.why = "done" THEN PutChunk(g, source, key, entry, blk, k) ELSE g
      full(g) == IF g.why = "done" /\ Chunks(source) >= Len(entry) * BLKNR
                 THEN NoEntry(g) ELSE g
  IN IF entry = <<>> THEN [f EXCEPT !.why = "done", !.ret = 0] ELSE full(fill[Chunks(source)])

PutEnd(f, trg) ==
  CASE f.why = "write error" -> [f EXCEPT !.ret = -2]
    [] f.why = "done" -> put_directory(Updated(f))
    [] OTHER -> [delete(Updated(f), trg, TRUE, TRUE) EXCEPT !.ret = -2]

PutInto(f, source, trg, key) ==
  PutEnd(Fill(f, source, key, Increasing({e \in Entries : f.directory[e].user = E5}),
              Increasing(FreeBlocks(f))), trg)

FileKey(f, p) == <<IF p.user = NoUser THEN f.user ELSE p.user, p.root, str2mem(p.ext, ExtSize)>>

PutParsed(f, source, trg, p, yes) ==
  CASE Chunks(source) > DSM + 1 \/ p.error -> [f EXCEPT !.ret = -1]
    [] Chunks(source) <= DSM + 1 /\ ~p.error /\ p.root = <<>> -> [f EXCEPT !.ret = -2]
    [] OTHER -> IF Found(f, trg) = {} THEN PutInto(f, source, trg, FileKey(f, p))
                ELSE IF yes THEN PutInto(delete(f, trg, TRUE, yes), source, trg, FileKey(f, p))
                ELSE [f EXCEPT !.ret = -1]

put(f, source, trg, yes) ==
  IF has_wildcards("c", trg) \/ source = NoFile THEN [f EXCEPT !.ret = -2]
  ELSE PutParsed(f, source, trg, parse_cpm_filename(trg), yes)

-----------------------------------------------------------------------------
\* copy_file: through a temporary file of a new name; ren_file: a file of the new name is
\* deleted before the old name is looked for.
PutGot(g, to, yes) == IF g.ret = -1 THEN g ELSE put(g, [records |-> g.ret, parts |-> g.out], to, yes)
copy_file(f, from, to, yes) == PutGot(get(f, from, TRUE), to, yes)

Renamed(f, chain, new) ==
  [f EXCEPT !.directory = [e \in Entries |->
     IF e \in {chain[i] : i \in DOMAIN chain}
     THEN [@[e] EXCEPT !.user = new.user, !.root = new.root, !.ext = str2mem(new.ext, ExtSize)]
     ELSE @[e]]]

RenFound(f, from_full, new) ==
  IF Found(f, from_full) = {} THEN f ELSE Renamed(f, Chain(f, FirstOf(Found(f, from_full))), new)

RenFull(f, from_full, to_full, new, yes) ==
  CASE to_full = from_full -> f
    [] to_full # from_full /\ Found(f, to_full) # {} ->
         IF yes THEN RenFound(delete(f, to_full, TRUE, yes), from_full, new) ELSE f
    [] OTHER -> RenFound(f, from_full, new)

Full(f, p) == build_cpm_name(IF p.user = NoUser THEN f.user ELSE p.user, p.root, p.ext)

RenParsed(f, p, q, yes) ==
  LET new == [user |-> IF q.user = NoUser THEN f.user ELSE q.user,
              root |-> IF q.root = <<>> THEN p.root ELSE q.root,
              ext |-> IF q.root = <<>> THEN p.ext ELSE q.ext]
  IN IF p.root = <<>> THEN f ELSE RenFull(f, Full(f, p), Full(f, new), new, yes)

ren_file(f, from, to, yes) ==
  IF has_wildcards("c", from) \/ has_wildcards("c", to) THEN f
  ELSE RenParsed(f, parse_cpm_filename(from), parse_cpm_filename(to), yes)

\* Of a pattern: every file into another user's area.
InUser(u, e) == build_cpm_name(u, e.root, e.ext)
ren_wild(f, pat, us, yes) ==
  LET do(g, e) == ren_file(g, Name(g.directory[e]), InUser(us, g.directory[e]), yes)
  IN ForEach(f, Pattern(f, pat), do)
copy_wild(f, pat, us, yes) ==
  LET do(g, e) == copy_file(g, Name(g.directory[e]), InUser(us, g.directory[e]), yes)
  IN ForEach(f, Pattern(f, pat), do)

change_attrib(f, pat, set) ==
  LET do(g, e) == [g EXCEPT !.directory = [x \in Entries |->
                     IF x \in {Chain(g, e)[i] : i \in DOMAIN Chain(g, e)}
                     THEN [@[x] EXCEPT !.readonly = set] ELSE @[x]]]
  IN ForEach(f, Pattern(f, pat), do)

\* DIR with the headers of the files, and TYPE, which reads its temporary file
\* into the block buffer.
get_amshead(f, e) == IF f.directory[e].blk = <<>> THEN f ELSE read_block(f, f.directory[e].blk[1])
dir(f, pat) == ForEach(f, Pattern(f, pat), get_amshead)

type(f, src) ==
  LET shown(g) == IF g.ret = -1 \/ g.out = <<>> THEN g ELSE [g EXCEPT !.buffer = g.out[Len(g.out)]]
  IN shown(get(f, src, TRUE))

-----------------------------------------------------------------------------
(***************************************************************************)
(* What the user meant: the files a typed text denotes, read part by part. *)
(* A class [..] lists its members here.                                    *)
(***************************************************************************)
Glob(p, t) ==
  LET g[i \in 1 .. Len(p) + 1, j \in 1 .. Len(t) + 1] ==
        LET close == strchr(p, i, "]")
        IN CASE i > Len(p) -> j > Len(t)
             [] i <= Len(p) /\ p[i] = "*" -> \E k \in j .. Len(t) + 1 : g[i + 1, k]
             [] OTHER -> /\ j <= Len(t)
                         /\ CASE p[i] = "?" -> g[i + 1, j + 1]
                              [] p[i] = "[" -> /\ t[j] \in {p[k] : k \in i + 1 .. close - 1}
                                               /\ g[close + 1, j + 1]
                              [] OTHER -> p[i] = t[j] /\ g[i + 1, j + 1]
  IN g[1, 1]

Spelt(text) ==
  LET colon == strchr(text, 1, ":")
      dot == strchr(text, 1, ".")
      stop == IF dot = 0 THEN Len(text) + 1 ELSE dot
  IN [user |-> SubSeq(text, 1, colon - 1), root |-> SubSeq(text, colon + 1, stop - 1),
      ext |-> SubSeq(text, stop + 1, Len(text))]

Denoted(text, user) ==
  LET s == Spelt(text)
  IN {k \in Keys : /\ IF s.user = <<>> THEN k[1] = user ELSE s.user \in {<<"*">>, <<Numeral[k[1]]>>}
                   /\ s.root = <<>> \/ (Glob(s.root, k[2]) /\ Glob(s.ext, k[3]))}

\* The name a file gets that is stored under the text.
Stored(text, user) ==
  LET s == Spelt(text)
  IN <<IF s.user = <<>> THEN user ELSE Digit[s.user[1]], s.root, str2mem(s.ext, ExtSize)>>

Asked(text) ==
  \/ text # <<>> /\ text[Len(text)] = ":"
  \/ \E i \in 1 .. Len(text) - 2 : SubSeq(text, i, i + 2) = <<"*", ".", "*">>

-----------------------------------------------------------------------------
\* The contents of a file: what every one of its entries describes.
NoContents == <<>>

Contents(d, blocks, k) ==
  [e \in {x \in Entries : d[x].user # E5 /\ Key(d[x]) = k} |->
     [extent |-> d[e].extent, rec |-> d[e].rec,
      parts |-> [i \in DOMAIN d[e].blk |-> blocks[d[e].blk[i]]]]]

\* A file that is neither cut off, nor mixed up with an entry that a failed PUT
\* left, nor spoilt: the extents are numbered, and all but the last are full.
Last(c) == Cardinality(DOMAIN c) - 1
Numbered(c, n) == c[CHOOSE e \in DOMAIN c : c[e].extent = n]
Whole(c) ==
  /\ {c[e].extent : e \in DOMAIN c} = 0 .. Last(c)
  /\ \A e \in DOMAIN c :
       /\ Len(c[e].parts) = (c[e].rec + RPB - 1) \div RPB
       /\ c[e].rec \in IF c[e].extent = Last(c) THEN 1 .. BLKNR * RPB ELSE {BLKNR * RPB}
       /\ \A i \in DOMAIN c[e].parts : c[e].parts[i] # Damaged

Text(c) == Joined([n \in 1 .. Last(c) + 1 |-> Numbered(c, n - 1).parts])
Length(c) == Last(c) * BLKNR * RPB + Numbered(c, Last(c)).rec

LiveDirectory == IF status = "open" THEN directory ELSE StoredEntries(final)
LiveFiles == [k \in Keys |-> Contents(LiveDirectory, final, k)]
KeptFiles == [k \in Keys |-> Contents(StoredEntries(disk), disk, k)]
Live(k) == Contents(LiveDirectory, final, k)

\* No entry of the file was left by a failed PUT, which does not link it.
Linked(k) == \A e \in InUse(directory) : Key(directory[e]) = k => \/ e \in first
                                                                  \/ \E x \in Entries : next[x] = e

-----------------------------------------------------------------------------
(***************************************************************************)
(* The commands.  touched and result are history variables: the files that *)
(* were named since the last save, and the command that was just done;     *)
(* final is the image as it will be when the writes of todo are done.      *)
(***************************************************************************)
NoResult == [op |-> "none"]
NoMemory == [directory |-> [e \in Entries |-> Nuked], first |-> {}, next |-> [e \in Entries |-> -1],
             alloc |-> {}, buffer |-> NoBlock, cur |-> -1, dirty |-> FALSE, user |-> 0]

SetMemory(f) ==
  /\ directory' = f.directory /\ first' = f.first /\ next' = f.next
  /\ blk_alloc' = f.alloc /\ block_buffer' = f.buffer /\ cur_blk' = f.cur
  /\ directory_dirty' = f.dirty /\ cur_user' = f.user

Ready == status = "open" /\ todo = <<>> /\ calls < MaxCalls

Apply(f, names, res) ==
  /\ SetMemory(f)
  /\ todo' = f.writes /\ final' = f.disk
  /\ touched' = IF f.directory = directory /\ f.writes = <<>> THEN touched ELSE touched \cup names
  /\ result' = res
  /\ calls' = calls + 1
  /\ UNCHANGED <<disk, status, torn>>

cmd_put(source, name, yes) ==
  /\ Ready
  /\ LET k == Stored(name, cur_user)
         done(f) == Apply(f, {k}, [op |-> "put", text |-> name, source |-> source, ret |-> f.ret,
                                   linked |-> Linked(k)])
     IN done(put(Fields, source, name, yes))

\* yes is also said of a local file that is not there yet.
cmd_get(name, yes) ==
  /\ Ready
  /\ LET done(f) == Apply(f, {}, [op |-> "get", text |-> name, ret |-> f.ret, out |-> f.out,
                                  cached |-> cur_blk, yes |-> yes])
     IN done(get(Fields, name, yes))

cmd_era(pat, yes) ==
  /\ Ready
  /\ Apply(put_directory(delete(Fields, pat, FALSE, yes)), Denoted(pat, cur_user),
           [op |-> "erase", text |-> pat, yes |-> yes])

cmd_nuke(pat, yes) ==
  /\ Ready
  /\ Apply(put_directory(nuke(Fields, pat, yes)), Denoted(pat, cur_user),
           [op |-> "erase", text |-> pat, yes |-> yes])

cmd_clean(yes) ==
  /\ Ready
  /\ Apply(put_directory(IF yes THEN clean(Fields) ELSE Fields), {}, NoResult)

Target(text) == LET p == parse_cpm_filename(text) IN IF p.user = NoUser THEN cur_user ELSE p.user
Moved(pat, us) == {k \in Keys : k[1] = us /\ \E x \in Denoted(pat, cur_user) : Tail(x) = Tail(k)}

\* To a name, or every file of a pattern to a user's area.
cmd_ren(from, to, yes) ==
  /\ Ready
  /\ LET wild == parse_cpm_filename(to).root = <<>>
         f == IF wild THEN ren_wild(Fields, from, Target(to), yes)
                      ELSE ren_file(Fields, from, to, yes)
     IN IF wild /\ Target(to) = AnyUser THEN Apply(Fields, {}, NoResult)
        ELSE Apply(put_directory(Updated(f)),
                   Denoted(from, cur_user)
                     \cup IF wild THEN Moved(from, Target(to)) ELSE {Stored(to, cur_user)},
                   [op |-> IF wild THEN "ren_wild" ELSE "ren", text |-> from, to |-> to,
                    yes |-> yes])

cmd_copy(from, to, yes) ==
  /\ Ready
  /\ LET wild == parse_cpm_filename(to).root = <<>>
         f == IF wild THEN copy_wild(Fields, from, Target(to), yes)
                      ELSE copy_file(Fields, from, to, yes)
     IN IF wild /\ Target(to) = AnyUser THEN Apply(Fields, {}, NoResult)
        ELSE Apply(f, IF wild THEN Moved(from, Target(to)) ELSE {Stored(to, cur_user)}, NoResult)

cmd_attrib(pat, set) ==
  /\ Ready
  /\ Apply(change_attrib(Fields, pat, set), Denoted(pat, cur_user), NoResult)

cmd_type(name) == Ready /\ Apply(type(Fields, name), {}, NoResult)
cmd_dir(pat) == Ready /\ Apply(dir(Fields, pat), {}, NoResult)
cmd_user(u) == Ready /\ Apply([Fields EXCEPT !.user = u], {}, NoResult)

\* The directory is saved when it is dirty; then the memory is freed.
cmd_close ==
  /\ Ready
  /\ LET saved(f) == /\ todo' = f.writes /\ final' = f.disk
                     /\ touched' = IF f.writes = <<>> THEN {} ELSE touched
     IN saved(put_directory(Fields))
  /\ SetMemory(NoMemory)
  /\ status' = "closed" /\ result' = NoResult /\ calls' = calls + 1
  /\ UNCHANGED <<disk, torn>>

cmd_abort ==
  /\ Ready
  /\ SetMemory(NoMemory)
  /\ status' = "closed" /\ result' = NoResult /\ touched' = {} /\ calls' = calls + 1
  /\ UNCHANGED <<disk, final, todo, torn>>

\* An image with half a directory is not opened again (bound of the model).
cmd_open ==
  /\ status = "closed" /\ todo = <<>> /\ calls < MaxCalls /\ ~torn
  /\ SetMemory(get_directory(Fields))
  /\ status' = "open" /\ result' = NoResult /\ calls' = calls + 1
  /\ UNCHANGED <<disk, final, todo, touched, torn>>

IsLast(w) == w[1] = DBL - 1 /\ w[2].kind = "directory"

WriteBlock ==
  /\ todo # <<>>
  /\ disk' = [disk EXCEPT ![todo[1][1]] = todo[1][2]]
  /\ todo' = Tail(todo)
  /\ touched' = IF Len(todo) = 1 /\ IsLast(todo[1]) /\ ~directory_dirty THEN {} ELSE touched
  /\ result' = NoResult
  /\ UNCHANGED <<final, status, memory, torn, calls>>

\* The program is stopped.
Crash ==
  /\ status = "open" \/ todo # <<>>
  /\ SetMemory(NoMemory)
  /\ status' = "closed" /\ todo' = <<>> /\ result' = NoResult /\ touched' = {}
  /\ final' = disk
  /\ torn' = (torn \/ (todo # <<>> /\ todo[1][1] \in 1 .. DBL - 1))
  /\ UNCHANGED <<disk, calls>>

Init ==
  /\ disk \in Disks /\ final = disk
  /\ status = "closed" /\ todo = <<>> /\ result = NoResult
  /\ touched = {} /\ torn = FALSE /\ calls = 0
  /\ directory = NoMemory.directory /\ first = {} /\ next = NoMemory.next /\ blk_alloc = {}
  /\ block_buffer = NoBlock /\ cur_blk = -1 /\ directory_dirty = FALSE /\ cur_user = 0

Next ==
  \/ \E n \in Names, s \in Sources, yes \in BOOLEAN : cmd_put(s, n, yes)
  \/ \E n \in Names, yes \in BOOLEAN : cmd_get(n, yes)
  \/ \E n \in Names : cmd_type(n)
  \/ \E p \in Patterns, yes \in BOOLEAN : cmd_era(p, yes) \/ cmd_nuke(p, yes)
  \/ \E yes \in BOOLEAN : cmd_clean(yes)
  \/ \E t \in Transfers, yes \in BOOLEAN : cmd_ren(t[1], t[2], yes) \/ cmd_copy(t[1], t[2], yes)
  \/ \E p \in Patterns, set \in BOOLEAN : cmd_attrib(p, set)
  \/ \E p \in Patterns : cmd_dir(p)
  \/ \E u \in {k[1] : k \in Keys} : cmd_user(u)
  \/ cmd_close \/ cmd_abort \/ cmd_open \/ WriteBlock \/ Crash

Spec == Init /\ [][Next]_vars

-----------------------------------------------------------------------------
(***************************************************************************)
(* Properties.                                                             *)
(***************************************************************************)

\* However files are stored, replaced, renamed and erased, no block belongs to
\* two entries, and exactly the blocks of the entries in use and of the
\* directory are marked as allocated.
BlocksHaveOneOwner ==
  status = "open" =>
    /\ blk_alloc = AL \cup UNION {BlocksOf(directory[e]) : e \in InUse(directory)}
    /\ \A x, y \in InUse(directory) :
         x # y => BlocksOf(directory[x]) \cap BlocksOf(directory[y]) = {}

\* GET, where it may write the local file, delivers a file as it is on the
\* image: all of it, in order, as long as its records are.
Delivers(c, right(_)) ==
  /\ result.ret = Length(c)
  /\ Len(result.out) = Len(Text(c))
  /\ \A i \in DOMAIN Text(c) : result.out[i] = Text(c)[i] \/ right(i)

GetDelivers ==
  result.op = "get" /\ result.yes =>
    \A k \in Denoted(result.text, cur_user) :
      Live(k) # NoContents /\ Whole(Live(k)) => Delivers(Live(k), LAMBDA i : FALSE)

\* So it does but for the first block, which it may take from the block buffer.
GetDeliversBehind ==
  result.op = "get" /\ result.yes =>
    \A k \in Denoted(result.text, cur_user) :
      Live(k) # NoContents /\ Whole(Live(k)) =>
        Delivers(Live(k), LAMBDA i : /\ i = 1
                                     /\ \E e \in first : /\ Key(directory[e]) = k
                                                         /\ directory[e].blk[1] = result.cached)

\* When PUT answers that it stored a file, the file is the source, under the
\* name that was given; unless a failed PUT had left an entry of that name, or
\* the extension was too long.
PutStores ==
  result.op = "put" =>
    (result.ret > 0 /\ result.linked /\ Len(Spelt(result.text).ext) <= ExtSize
       => LET c == Live(Stored(result.text, cur_user))
          IN Whole(c) /\ Text(c) = result.source.parts /\ Length(c) = result.source.records)

\* ERA and NUKE erase the files the text denotes, except when a text that means
\* every file, or a read-only file, was not confirmed; and no other file
\* changes.  Nothing is said of a file with an entry that a failed PUT left.
EraseExact ==
  [][result'.op = "erase" =>
       \A k \in Keys :
         LET entry == {e \in first : Key(directory[e]) = k}
         IN Linked(k) =>
            IF /\ entry # {} /\ k \in Denoted(result'.text, cur_user)
               /\ result'.yes \/ ~(Asked(result'.text) \/ \E e \in entry : directory[e].readonly)
            THEN Live(k)' = NoContents ELSE Live(k)' = Live(k)]_vars

\* REN of a file to a free name, or to a file that may be overwritten, gives
\* the new name the contents and the old name none.
RenMoves ==
  [][result'.op = "ren" =>
       \A k \in Denoted(result'.text, cur_user), to \in Keys :
         /\ to = Stored(result'.to, cur_user) /\ to # k
         /\ \E e \in first : Key(directory[e]) = k
         /\ Linked(k) /\ Linked(to) /\ (Live(to) = NoContents \/ result'.yes)
         => Live(to)' = Live(k) /\ Live(k)' = NoContents]_vars

\* The promise of the module CpmStore: commands change only the files they
\* name, and a crash at any block, ABANDON or CLOSE loses nothing else.
Store == INSTANCE CpmStore WITH
  Files <- Keys,
  live <- LiveFiles, kept <- KeptFiles
StoreSpec == Store!Spec

=============================================================================
