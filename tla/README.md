# The Amstrad CPC file selector of the HxC floppy emulator, in TLA+

The repository holds two programs. The *selector* is a Z80 application that a
CPC boots from the floppy emulator: it browses the FAT32 SD card behind the
emulator and puts disk images into the emulator's slots. `cpcxfs` is the tool
that the build uses on a PC to put the selector on its distribution disk: it
reads and writes CP/M file systems in disk image files.

Both are single-threaded, with everything they know in global variables. What
makes them hard is not threads but state that outlives the call that made it: a
ring of saved listing statuses, a cluster cache shared by all directories, a
window into the card that the program remembers and does not ask for, one sector
buffer used for every record, a configuration file rewritten in place on a
machine that the user may switch off; and in `cpcxfs` a cached track, a block
buffer with several users, a directory kept in memory and saved late, and links
between its entries that are built anew after every change.

## Components

| Component | Source | State | Operations | Modules |
|---|---|---|---|---|
| Browser | `fectrl.c` `main`, `enter_sub_dir`, `backup_flstatus`, `restore_flstatus`, `next_slot`; `gui_utils.c` `show_parameters` | path, listing status, ring of statuses, page number, selector, page of entries, slots | one per key, and the reading of a page | `CardTree`, `Browser`, `BrowserRing`, `Pager`, `BrowserPager` |
| Directory reading | `fat32/fat_access.c`, `fat_cache.c`, `fat_table.c`, `fat_filelib.c` (`_open_directory`, `fl_list_*`) | browse cluster cache, FAT buffer, working buffer, listing status | open, next entry, find a name | `FatAccess`, `DirList`, `FatTree` |
| File access | `fat_filelib.c` (`fl_fopen`, `fl_fread`, `fl_fseek`, `fl_fswrite`, `fl_fclose`) | one handle: position, sector buffer, last cluster looked up | the calls | `FileLib` (partly) |
| Card access | `fectrl.c` `media_init`, `media_read`, `media_write`, `setlbabase` | drive, `last_setlbabase`; the emulator's window | find the emulator, read, write a sector | `Media`, `BlockStore` |
| Mounting | `fat_access.c` `fatfs_init` | parameters of the file system | run once | `Volume` (partly) |
| Configuration file | `fectrl.c` `read_cfg_file`, `save_cfg_file` | slots, settings, sector buffer; the file | load, save | `CfgFile` |
| Names and paths | `fat_string.c`, `fat_misc.c`, `enter_sub_dir` | current path | edit, split, walk a path | in `CardTree`, `Browser`, `FatTree` (partly) |
| `cpcxfs`: disk images | `cpcxfs/src/fs.c`, lower half | cached track, block buffer, file | read and write blocks, labels, flush | `CpmGeometry`, `CpmDisk` |
| `cpcxfs`: formats and sessions | `readdef.c`, `cpcfs.c`, `fs.c`, `ui.c` | list of formats, format and image in use | definition file, `NEW`, `OPEN`, `CLOSE`, `ABANDON`, `FORMAT` | `DefFile`, `CpmSession` |
| `cpcxfs`: CP/M file system | `fs.c`, `ui.c` | directory, links, allocated blocks, block buffer, user | one per command | `CpmFs`, `CpmStore` (partly) |
| `cpcxfs`: names and patterns | `Tools.c`, `match.c` | none | parse, build, match | `CpmNames` |
| `cpcxfs`: shell | `ui.c`, `Tools.c`, `dos.c` | settings | commands | in `CpmFs`, `CpmSession` (partly) |
| Screen, BIOS calls, start-up | `gui_utils.c`, `*.s` | screen | output, firmware calls | not modelled |
| FAT writing, formatting | `fat_write.c`, `fat_format.c` | - | compiled out | not modelled |

How they interact. In the selector, `main` finds the emulator (`media_init`),
attaches `media_read` and `media_write` to the FAT library as callbacks
(`fl_attach_media`, `fatfs_init`), reads the configuration (`fl_fopen`,
`fl_fread`) and then loops: it reads a page with `fl_list_readdir`, handles keys
until one asks for another page, and on leaving saves the configuration
(`fl_fopen`, `fl_fswrite`) and reboots. The browser and the FAT library share
`file_list_status`, which the browser copies into and out of its ring; the
listing, the path walk and `fl_fopen` share the browse cache and the working
buffer; all of them go through the window of `Media`. In `cpcxfs` the shell
reads the definitions, chooses a format for an image (`CpmSession`), and the
commands work on files (`CpmFs`) through `read_block` and `write_block`
(`CpmDisk`), whose places come from the format (`CpmGeometry`).

What makes each component correct; what is hard in it is listed line by line
under `hazards` in `PROJECT.json`:

- **Browser**: the page on screen is one of the directory the path names, and
  the one the page number stands for; going forward skips and repeats nothing;
  the selector indexes an entry; slots change only by the key that changes them.
- **Directory reading**: a listing reads the sectors of its own directory,
  returns the next entry and ends; a name reported missing is missing.
- **File access**: a read delivers the file's bytes; a write changes the
  file's sector.
- **Card access and mounting**: the sector read or written is the one asked
  for; two clusters share no sector.
- **Configuration file**: an interrupted save leaves no slot torn; a complete
  one is loaded again as it was.
- **Disk images**: the file only gets what it was asked to hold, where it was
  asked, whatever fails.
- **Formats**: none is lost; no image is read under another format than it was
  made with; in an image every block and sector has its own place.
- **CP/M file system**: no block has two owners; commands do to the files they
  name what they say, and nothing to others, crashes included.

## Modules

### The selector

`CardTree` is the card as the browser sees it: directories with their entries in
listing order, paths as texts of names and slashes, and their walk with
`fatfs_total_path_levels` and `fatfs_get_substring` (one counts the slashes, the
other cuts at them). Names are opaque; of their characters it keeps what the
code tells apart (`cut`: what `enter_sub_dir` copies; `dots`: leading dots).

`Browser` is the main loop. `pc = "read"` is the top of the page loop,
`pc = "key"` is `wait_key`; `ReadPage` and each `Key...` action is one branch of
the code with all it does, the restored status and the request for another page
included. `EnterSubDir` edits the path and walks it. `file_list_status` is a
directory and a number of entries; that this is what cluster, sector and offset
amount to is `FatTree`'s business. `BrowserRing` adds a history variable: how
much of the ring is good for going back. `Pager` is the abstract pager a user
expects; `BrowserPager` is the refinement mapping to it.

`FatAccess` reads directories from the card: each pass of
`fatfs_sector_reader`'s loop, each sector looked through and each call is a
step. The cache is there entry by entry, starts as zeros (static data before the
first `fl_list_opendir`) and is cleared where the code clears it. The successor
of the end of a chain is read from behind the FAT: any cluster. `phase` is the
order `main` calls the library in: configuration, browsing, configuration. A
record's long-name parts are `skip` records in front of it. `DirList` is what
`Browser` assumes of `fl_list_opendir` and `fl_list_readdir`; `FatTree` maps
`FatAccess` to it, with `CardTree`'s tree computed from the card.

`FileLib` is an open file: the calls, and `fl_fread` sector by sector. The
cluster chain is a function of the index, and the code's way of finding a
cluster (the last one looked up, the one behind it, or from the start) is
`ClusterOf`.

`Media` is the search for the emulator over both drives (`EmulatorFound`,
`TryOtherDrive`, `NoEmulator`) and its window: `Call`, `Setlbabase`, `Access` or
`AccessFails` (whose error box never returns), and `Restart`, after which the
emulator's window is where it was and the program knows nothing of it.
`BlockStore` is what the FAT library is promised. `Volume` is `fatfs_init` as
operators: which boot sectors are mounted, with which parameters, and where
clusters and the FAT then lie.

`CfgFile` is the configuration file: `ReadHeader`, `LoadSlot` per slot,
`SaveBegin`, one step per slot and sector, `WriteHeader` last. `Restart` may
happen between any two. `before` and `intended` are history.

### cpcxfs

`CpmGeometry` holds the arithmetic of a format and an image as operators: the
place of a block (`calc_t_s_h`, `next_sector`, `blk_calc`), of a track and a
sector in a file, what `format` writes, which format fits a header
(`select_format`), and the length of a file in an entry.

`DefFile` reads a definition file element by element (what `Parse_Get` returns)
into a list of formats, as a fold over a state that holds what the loop in
`parse_def_file` holds. `CpmSession` is the shell's view: `Start` with a
definition file, `cmd_new`, `cmd_open`, `set_format`, `cmd_close`, `cmd_attrib`.
`status` says whether the program still runs: a start that never ends and a null
pointer are states (`"hung"`, `"crashed"`) and not steps left out.

`CpmDisk` is the block layer over a file that may fail: `read_block`,
`write_block`, `write_label` and `dump` go sector by sector (`Step`), a track is
flushed when another one is needed, and `Kill` ends the program between any two
steps. `asked` is history: what each sector was last asked to hold.

`CpmNames` are file names, patterns and their match with the errors it
reports. `CpmFs` is the file system: entries of the directory with their chains,
`first`, `next`, `blk_alloc`, the block buffer with the number it is taken to
hold. A command is one step on memory, and the blocks it writes stand in `todo`;
`WriteBlock` writes one of them and `Crash` may come before each. `CpmStore`
is the promise: which files may change, and what a crash may cost. The answer at a
prompt is an input of the command: `GET` asks before it overwrites a local file,
`PUT`, `ERA`, `NUKE`, `CLEAN`, `REN` and `COPY` before they delete.

Numbers have the widths of the fields they are kept in: those of a format unsigned
characters and shorts (`FieldRange`), the size of a track in a header a signed
short (`Short`), head values and sector ids in a track's header bytes. An element
that `Parse_Get` cannot advance over is delivered again or looped on for ever
(`Again`, `Hung`). `format` leaves an image whose track size came out negative
unusable: `malloc_track` fails, and the shell is back at its prompt without one.

What a format has to be for a session to be right (that an image's headers can
hold its numbers, that its mask is one of those the code can count, that its blocks
fit on its tracks) is stated at the end of `CpmSession`; `parse_def_file` checks
none of it, the theorems assume it. `HeaderHolds` is the first: tracks and sides
in bytes and no more of both than the 204 the table of an extended image has room
for, a track size below 32768, at most 29 sectors (the room in a track's header),
and the id of every sector of both sides at most 255. `SessionAssumption` says that definition files are finite and
no two built-in formats alike.

`MC...` modules hold the instances, `...Proofs` the theorems, `Numbers` the
arithmetic they share.

### Which implements which

| Detailed | Abstract | Mapping | Checked by |
|---|---|---|---|
| `Browser` | `Pager`: pages in order, back to the one before, `.` to the first | `BrowserPager` | TLC and TLAPS (`ImplementsPager`) |
| `FatAccess` | `DirList`: open a directory, next entry, restore | `FatTree` | TLC (`ImplementsDirList`) and TLAPS (`ListsTree`) |
| `Media` | `BlockStore`: sectors that are read as last written | in `Media` | TLC and TLAPS (`ImplementsBlockStore`) |
| `CpmFs` | `CpmStore`: commands change the files they name, a crash costs only these | in `CpmFs` | TLC (`StoreSpec`) |

## Runs

| Run | Instance | Shows |
|---|---|---|
| `browser` | three levels of directories, one of them with a name no path leads to; pages of 2, ring of 4, page number modulo 8, 2 slots | every sequence of keys: `SelectorInBounds`, `PageAnchored`, `ForwardIsContiguous`, `EnterOpensSelected`, `SlotsChangeOnlyByKey`; `RingWindow`: the ring is right as far as the history leaves it |
| `browser_pager` | directories entered from their first pages, none longer than the ring | the browser implements `Pager`, `.` included |
| `fat_access` | clusters of 2 sectors of 2 records, cache of 2, chains of 1, 2 and 4 clusters | the listing reads its own sectors, stays in its chain, returns the next entry, and returns |
| `fat_tree` | two levels of directories, one of them of two clusters | `FatAccess` implements `DirList`; path walks agree with the tree |
| `fat_lookup` | as `fat_access` | *violated*: a lookup takes another directory's clusters from the cache |
| `cfg_file` | 3 slots in sectors of 2 records, an old file with stale records | old or new in every slot at any interruption; a complete save is loaded again |
| `media` | 4 sectors, window of 2, numbers modulo 16, the emulator in the second drive; small volumes for `Volume` | every access hits its sector; `Media` implements `BlockStore`; sectors of a mounted volume differ |
| `file_lib` | 5 sectors, half a sector at the end, in three clusters of 2: two together and one elsewhere | `fl_fread` delivers the file under any order of reads, seeks and writes; `fl_fswrite` changes its sector as far as the file is in one piece |
| `cpm_session` | seven definition files, one image name, formats like those of `cpmdisks.def` on fewer tracks | `FormatsListedOnce`, `DetectedAsMade`, `BlocksHavePlaces`, `SectorsApart`, `TracksWhereWritten`, `LengthsSurvive` |
| `cpm_disk` | 2 tracks with 2 sides of 3 sectors, a missing sector, a track without data, blocks that lie across tracks | `TrackCoherent`, `WriteReachesImage`, `ReadDelivers`, `OnlyAskedChanges`, `CallsReturn` with every failure and kill |
| `cpm_fs` | 5 blocks, one of them bad, 4 directory entries in 2 blocks; an empty and a used image | `BlocksHaveOneOwner`, `GetDeliversBehind`, `PutStores`, `EraseExact`, `RenMoves`, `StoreSpec` |
| `cpm_stale` | as `cpm_fs` | *violated*: `GET` delivers what `PUT` left in the block buffer |

### Bounds

- `browser`: pages of two rows, a ring of four and a page number modulo eight
  keep the relations that matter: a page number goes round the ring before it
  wraps, its modulus is a multiple of the ring's length, a directory can fill
  its last page exactly (so an empty page is reached) or not. The page number
  drifts without bound across directories, so all its values occur although the
  directories are short.
- `fat_access`: the cache of two is wrapped around by a chain of four as the
  real one of 32 is by a directory of 33 clusters.
- `cfg_file`: three slots in sectors of two with slot 0 unused end on a sector
  boundary when full, as fifteen in sectors of four do.
- `media`: the card is seen through windows that overlap, touch and move in both
  directions; the initial base lies as far below the modulus as the window needs,
  as `0xFFFFFF00` does.
- `file_lib`: seeks and reads of every length about a sector, a cluster and the
  end of the file; unsigned longs wrap at 100, so that a seek below 0 wraps.
- `cpm_session`: one image name, because a second differs in nothing; the seven
  files bring about every branch of `parse_def_file` that leads to another list
  of formats.
- `cpm_disk`: `MaxWrites = 2` write requests, so that one can lie in the cache
  when another fails; reads, dumps and labels are not bounded. Blocks -1 and 4
  do not exist.
- `cpm_fs`: `MaxCalls = 4` commands, `OPEN` among them: a file is stored,
  replaced and read, or a failed command is followed by two. `DRM = 3` and
  `DSM = 6` let the directory and the disk fill up in the middle of a `PUT`. A
  prompt gets one answer per command. An image whose directory was torn by a
  crash is not opened again: what it then holds is for the next user to find, not
  for the commands. The bad block is a data block; transfers are in binary mode.

The selector's state spaces, with those of `cpm_session` and `cpm_disk` (but for
`MaxWrites`), are explored completely, with no bound on the number of calls.

### Deadlock and fairness

The browser stops in `"off"` (the machine reboots), `FatAccess` after a save,
`CpmSession` when the program hangs or crashes, and `CpmFs` after `MaxCalls`:
these runs do not check deadlock, the others do. Two liveness properties are
checked. `ReaddirReturns` assumes weak fairness of the steps inside a library
call: the program is a single thread that never waits inside the library.
`CallsReturn` assumes weak fairness of `Alive /\ Step` in `CpmDisk`: a call goes
on as long as the process is not killed. No key has to be pressed, no command to be
given and no call to be made.

## What the violations say

1. `fat_lookup`. The browse cache knows the index in a chain and not the chain.
   After a directory that fills its cluster was listed to its end, `fl_fopen`
   misses a configuration file in the root's second cluster, and the save ends
   in an error box for ever.
2. `cpm_stale`. `read_block` answers from `block_buffer` when `cur_blk` names the
   block asked for, and four functions fill the buffer without telling. A `GET`
   behind a `PUT` may deliver the other file's data in the first block.

### Behaviour the models keep that needs no run

Seen while modelling; the properties are stated so that they hold beside it.

In the selector:

- `.` restores status 0, whose entry of the ring is overwritten when the page
  number has run as far as the ring is long; a program with an empty page keeps
  it. `browser_pager` marks out where this does not happen.
- A directory whose name does not survive the copy into the path (longer than 16
  characters, non-ASCII characters) is shown as an empty listing without `..`.
- On the empty page behind a full last page, Space and Enter put the cleared entry
  into the slot, which empties it; `SlotsChangeOnlyByKey` allows it.
- `media_read` ignores the result of `setlbabase` and may report success with
  another sector (`SetlbabaseMayFail = TRUE`); a drive that answers with another
  signature ends the search although the second was not tried.
- A FAT16 volume is mounted and its FAT read as one of 32-bit entries. (A mounting
  that fails ends in an error box: `fl_fopen` then refuses the configuration.)
- `fl_fswrite` does not follow the chain: behind the end of the file's first piece
  it writes into what lies there.

In `cpcxfs`, images and formats:

- `next_sector` goes on one track too far for the orders `EAGLE` and `CYLINDERS`
  where a block spans two sides (`OrderHolds`): `EAGLE` is right when the blocks,
  which begin behind the reserved tracks, end with each side but the last,
  `CYLINDERS` when they end with the first side.
- Sectors of 1024 bytes get the size code 4; `format` leaves the sectors' sizes 0 in
  extended images, and the table of an extended image truncates tracks that are
  not made of pages; `BPS = 0` is divided by.
- `dump` takes the side number for the head value and shows the last track when one
  cannot be read; the label of a format with `OFS = 0` lies over the directory,
  and is written without a check for an image.
- Sector ids above 255 are written cut to a byte and then looked up in full, so
  such sectors are not found; the model keeps this, though no format of the instance
  has such ids (one has numbers that the fields cut down to fitting ones). More
  than 204 tracks in an extended image make `format` write behind the header,
  which is not modelled.
- A tab or a dash behind a blank in a definition file makes the start hang; right
  behind an element it delivers that element for ever, which ends in an error
  where another one is expected; at the start of a line the element is whatever
  was in it. An error ends the reading of the formats behind it; the defaults of
  `BEGIN` are erased by a `memset`.
- `OPEN -f` of a file that is not there leaves a format without an image in use, or
  none, which `ATTRIB` and `NEW` then use through a null pointer;
  `dpb_list_remove_entry` would not end, and is never called.

In `cpcxfs`, files:

- `PUT` deletes the old file first. With a full directory it then answers 0 and has
  stored nothing; a write error leaves an entry that is in the directory but not
  linked. It prints "directory full" for a file that fits exactly. `GET`, `PUT`,
  `ERA` and `REN` are stated for files without such entries (`Linked`).
- An extension longer than three characters is copied whole and runs into the name
  that lies behind it in the entry, which is composed anew; three characters of
  it count, so that two files may then be named alike. The model cuts it at once,
  and `NamesHold` keeps the texts so short that the copy does not get beyond that
  name (`NameRoom`). A root of more than eight characters without a dot loses one.
- `ATTRIB` is not saved by itself. `REN` deletes the target before it finds the
  source missing.
- `a**` does not match `a`.

## Proofs

Every theorem holds for every value of the constants under the named assumptions
of its module (which TLC evaluates for the instances).

- **Browser** (`BrowserProofs`), for every tree, page size, ring length and number
  of slots:

      IInv == TypeOK /\ StatusesInListing /\ PathListed /\ StatusRestored
              /\ PageLimits /\ PageAnchored

  `PageAnchored` alone is not inductive. A key that turns the page makes the
  reading start from the ring: `StatusRestored` carries the anchor over the state
  in between, `StatusesInListing` keeps the number of entries on a page from
  being negative, `PathListed` ties the listing to the path, and `PageLimits` ties
  `last_file` to the length of the page, which makes the branch of the Down key
  that would leave the selector behind the table dead.

  With the history of `BrowserRing`, `RingIInv` adds to it `RingWindow` and that
  `ahead` is at least 1 while a key is awaited: reading a page spends the entry
  in front of `page_number`, so that turning forwards always gives one back. A
  step of m pages back loses m entries, one page forward wins the entry behind
  it; `RoundTheRing` and the assumption that `UCHAR_MOD` is a multiple of
  `FL_STATUSTABLEN` carry this over the wrap of `page_number` (`RingIsRight`).
- **Directory reading** (`FatAccessProofs`), for every card whose chains end and
  every size of cluster, sector and cache:

      IInv == TypeOK /\ StatusesReached /\ FilesOutside /\ CacheOfListing
              /\ ReaderOfListing /\ NothingLeftOut /\ ReaddirReturnsNext

  While a directory is listed the cache holds clusters of its chain only
  (`CacheOfListing`): lookups of files happen before and after browsing
  (`FilesOutside`), and `fl_list_opendir` clears the cache behind its own walk.
  Every status the browser can restore lies in a sector that the chain reaches
  (`StatusesReached`), so that the reader never asks for the cluster behind the
  end; `NothingLeftOut` carries `ReaddirReturnsNext` through the loop over
  sectors. This is the argument that the reuse of the cache is right for
  listings; `fat_lookup` shows that it is wrong for lookups.

  For every card on which the directories are a tree (`TreeOnCard`, which TLC
  evaluates on the card of `fat_tree`): `OpendirFindsTree` and `ListsTree`, that
  reading directories implements `DirList`. `TreeOnCard` says that nothing is
  recorded behind the end of a directory, that subdirectories are levels of a
  tree, and that each has its record in the first cluster of its parent; without
  the last, a walk can take a cluster of another directory from the cache
  (`fat_lookup`). Directories are of any length otherwise. The invariant
  `WalksOnPath` (`WalksStayOnPath`) says that the names of the current path lead
  along directories of the card and that a walk, at whatever level, has not left
  the first cluster and has not passed the name, so that it asks neither the cache
  nor the FAT. Then the first record of the name is the one `CardTree`'s `SubDir`
  takes (`SubDirIs`), level by level (`WalkIs`). For the listing, a status stands
  for the number of listed records in front of it (`Passed`): skipped records do
  not count (`NothingListedBefore`), the record returned is the next
  (`ItemOfRecord`), and at the end all have been passed (`PassedAll`).
- **Open file** (`FileProofs`): `FileIInv == FileTypeOK /\ LookupRight /\ BufferRight
  /\ ReadSoFar`, for every chain and size. `LookupRight` says that the last lookup is a
  cluster of the file at its index, `BufferRight` that the sector buffer is the
  sector it is taken for, or will not be used. `FswriteInFirstCluster` needs that
  the write stays in the file's first cluster.
- **Configuration** (`FileProofs`), for any number of slots and any number of
  records above one in a sector: `IInv == TypeOK /\ LoadSoFar /\ SaveSoFar /\ RecordsSaved /\
  EachSlotOldOrNew /\ SaveStoresSlots`. `SaveSoFar` says what is in the buffer
  and on the card after so many slots; the compacted table is defined by rank
  (`ImagesUpTo`), not by recursion, so that it can be reasoned about.
- **Card access** (`CardProofs`). `DriveKnown`: no sector is accessed before the
  signature was found in the drive in use. `WindowKnown` says, for each place of the
  program, what it knows of the window; `DiffInWindow` is the arithmetic of the
  unsigned difference. `AccessesAsked` and `MediaIsBlockStore` assume that no
  `setlbabase` is lost; `TypeCorrect` does not.
- **Mounting** (`CardProofs`): `SectorsOfVolumeDiffer`, what `FatAccess` and
  `FileLib` take for granted when they name a sector by its cluster.
- **The browser as a pager** (`BrowserProofs`): `BrowserIsPager`, for every tree
  whose directories are shorter than the ring's pages and are entered from their
  first page (`ShortTree`, which the tree of `browser_pager` satisfies). Then
  page number, ring and listing agree (`RingIsRight` gives the pages before), and
  each key is a step of `Pager` or a stutter.
- **Block layer of cpcxfs** (`CpmDiskProofs`), for every geometry and header under
  `DiskAssumption`. `CacheOK`: each sector of the cached track is as in the file
  or as last asked for, and all are as in the file while it is not dirty; from it
  `CacheCoherent` and `SectorsChangeAsAsked`. `BlockIInv` adds how far a block has
  come: what was copied so far is in the file or in the cache, which is written
  before the walk leaves its track, and the walk never returns to a sector, so
  that no later piece undoes an earlier one. Hence `BlocksReachImage` and
  `ReadsDeliver`. The latter needs `HeadsAsSides` (the head values of the sides
  are their numbers), because `dump` takes the side for the head value; reads of
  blocks do not.
- **Sessions of cpcxfs** (`CpcxfsProofs`), for every definition file, list of
  built-in formats and sequence of commands.
  - `SessionIInv`: types; the list is one that the reader leaves; every image is
    as `format` makes it from a format of the list; the image in use was accepted
    under the format in use. That the reader's state stays in `States` (no two
    formats of the list alike, every ended one listed) is shown branch by branch of
    `parse_def_file`, and carried over lines and elements by `CarriedOn`. This
    gives `TypeCorrect` and `ListedOnce` with no hypothesis on the formats.
  - `DetectedRight` and `TracksFound` assume `FormatsFit`, that `HeaderHolds` for
    every format: what `format` stores is then not cut. What a header says is what
    the format said, and the last sector's id is found in its byte (`IdInByte`,
    `ShortKeeps`), so the format an image was made with fits it: a detection finds
    that one or refuses. With a first id of 257 an image would be taken for one
    whose ids start at 1. The sums that
    `get_track_offset` makes are multiples of the one size of a track.
  - `SectorsDisjoint` (under `FormatsFit` too): the interleave gives every sector a place, and no two the
    same. The walk of `format` takes every skew-th sector, and at the end of the
    track begins again one further than the round before; `Rank` is the place of a
    sector in that order.
    `SizesFit`: sectors of up to 512 bytes are of 128, 256 or 512, whose codes
    are right.
  - `LengthsKept` assumes `MasksFit`: the masks are 0, 1, 3, 7 or 15, those that
    `update_dpb` says it works for, and the block shift is below 8. The extents of
    the entries before are a multiple of those that the mask leaves.
  - `BlocksPlaced` assumes `BlocksFit` as well: blocks are made of whole sectors
    and there are no more of them than the tracks behind the reserved ones hold.
    `Lin` numbers the sectors of the image in the order of the format; the walk
    over block `b` runs through `b * SPB ..`, one by one, behind the reserved
    tracks. That it stays on the tracks at the end of a side is what `OrderHolds`
    is for.
- **The file system of cpcxfs** (`CpmFsProofs`): `OneOwner`, for every size of the
  directory and the disk, every set of bad blocks, names, patterns and local
  files, any sequence of commands and a kill at any block. `FsAssumption` says
  that the directory fills whole blocks, that these are reserved, that no area of
  a user has the number of a free entry, and that an image is sound when it is
  first opened; nothing is assumed of what a pattern matches.

      IInv == ... /\ (status = "open" => Memory(Fields))
                  /\ (~torn => Way(disk, todo, final) /\ ImageSound(final)) /\ ...

  `BlocksHaveOneOwner` alone is not inductive, for two reasons.
  - `delete`, `nuke`, `ren` and `put` walk along `next`. That they free the
    blocks of a file and no others' needs `Threads` in `Memory`: links lead to
    entries in use, no two to the same, none to the first of a file. `delete` goes
    on in the middle of a list of files whose links it has not renewed, and `put`
    leaves an entry that no link knows; both are threads all the same. An entry
    that is freed twice would free the blocks of the file that got them in
    between.
  - `cmd_open` after a kill reads what is on the image. `Way` says that there are
    images between `disk` and `final`, one per block in `todo`, and that each of
    them has a sound directory, except while block 1 or a later one of the directory
    is next. A data block is never one of the directory's (`EntrySound`), because
    `get_free_block` starts behind them and `clean` leaves reserved blocks alone.

  A command is taken through the proof as its functions are nested: each keeps `OK`
  (memory and way), or `Unlinked` until `update_directory` has made the links
  again. The loops over entries, blocks and parts are recursive functions;
  `LoopHasValues` gives each its equation, and `CarriedOn` what holds at its end.
- **The promise of the file system** (`CpcxfsProofs`): `UntouchedIsSafe`. That
  `CpmFs` implements `CpmStore` is model-checked; what this means for a user is
  proved.

Library theorems that take an operator as a parameter cannot be instantiated by
the provers. Where induction is needed (a chain stays at its end, the rank of a
slot, the lines of a file), `Numbers` derives least numbers from the
well-foundedness of `<`, and from them two lemmas over sets and functions:
`CarriedOn` (what holds at first and is kept from each number to the next holds
of all) and `LoopHasValues` (a loop of n rounds has its values, so that the
recursive function that models it satisfies its equation).

Only model-checked: the refinement of `CpmStore`; what the commands of `CpmFs` do to
the file a text means (`GetDeliversBehind`, `PutStores`, `EraseExact`, `RenMoves`), which rests on
what `parse_cpm_filename` and `match` compute on texts of every length, an
induction over data;
`CallsReturn` and `ReaddirReturns`, which are liveness and out of the prover's
reach. `MissingIsMissing` and `GetDelivers` do not hold.

## Not modelled, and why

- A corrupt card: chains end, and directories hold what a card's owner can put
  there. `number_of_slot` in the file is at most 16.
- A failing read inside the FAT library: `media_read` does not return from a
  failure, so the library never sees one.
- The comparison of names and the assembly of long names from their records
  (`fat_string.c`, `fat_cache.c`): names are opaque. The limit of 256 characters
  on a path, and `memcpy` of the wrong record's size (`fectrl.c:895`), lie below
  the level of data. `fatfs_split_path` is applied to one constant.
- The list of free handles, which has one element; in `FileLib` the file is there
  (that it is not found is in `FatAccess`).
- `fat_write.c` and `fat_format.c`, compiled out; code between `#if 0`.
- The screen, the firmware calls, start-up code.
- Of `cpcxfs`: the splitting of command lines, settings, help, paging and printing;
  `MGET` and `MPUT`, which expand names of the host, and `dos.c`, the host's
  directories; `SYSGEN`; text mode; entries of several extents; a break by the
  user; `is_valid_pattern` and the list functions that nothing calls.

## Plan

1. `FileLib` with `fl_fopen` by path and the handle list, composed with `CfgFile`:
   boot, browsing and saving over one card, with the browse cache shared between
   listing and lookup; an abstract slot store that load, edit and save implement.
2. `CpmFs` on several extents in an entry and in text mode.
3. Proofs: `EraseExact` and `RenMoves` from `FsInvariant`, under the hypothesis
   that a text matches the files it denotes; with it, that `CpmFs` implements
   `CpmStore`.
