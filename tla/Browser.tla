------------------------------- MODULE Browser -------------------------------
(***************************************************************************)
(* The main loop of the file selector (fectrl.c): it shows a directory     *)
(* page by page, moves a selector over the page, walks the directory tree  *)
(* and puts files into the slots of the floppy emulator.                   *)
(*                                                                         *)
(* The library lists a directory forwards only, so the loop saves the      *)
(* listing status at each page boundary in a table of FL_STATUSTABLEN      *)
(* entries indexed by the page number and restores it to go back.          *)
(*                                                                         *)
(* The loop alternates between reading a page and waiting for a key; each  *)
(* key's handler is one action.                                            *)
(***************************************************************************)
EXTENDS CardTree

CONSTANTS
  NUMBER_OF_FILE_ON_DISPLAY,  \* entries on a page, 19
  FL_STATUSTABLEN,            \* saved listing statuses, 32
  NUMBER_OF_SLOT,             \* slots 1..NUMBER_OF_SLOT-1 are used, 16
  UCHAR_MOD,                  \* page_number is an unsigned char, 256
  InitSlots,                  \* disks_slot_a as read_cfg_file left it
  InitSettings                \* the g_* settings as read_cfg_file left them

Slots == 1 .. NUMBER_OF_SLOT - 1
Content == Entry \cup {Blank}
Status == [cluster : Dirs \cup {Invalid}, pos : Nat]
Settings == [ihm_sound : 0..255, step_sound : 0..255, buzzer_duty_cycle : 0..255]

ASSUME BrowserAssumption ==
  /\ NUMBER_OF_FILE_ON_DISPLAY \in Nat \ {0, 1}
  /\ FL_STATUSTABLEN \in Nat \ {0, 1}
  /\ NUMBER_OF_SLOT \in Nat \ {0, 1}
  /\ UCHAR_MOD \in Nat \ {0}
  /\ UCHAR_MOD % FL_STATUSTABLEN = 0
  /\ InitSlots \in [Slots -> Content]
  /\ InitSettings \in Settings

VARIABLES
  pc,                   \* "read": top of the page loop; "key": in wait_key;
                        \* "save": in save_cfg_file; "off": rebooted
  currentPath,          \* currentPath, as Slashes and cut names
  file_list_status,     \* where the next fl_list_readdir continues
  file_list_status_tab, \* the saved statuses
  page_number,
  selectorpos,          \* signed char
  numFiles,             \* entries on the page
  last_file,            \* the listing ended within the page
  DirectoryEntry_tab,   \* the entries of the page, cleared ones after them
  slotnumber,
  disks_slot_a,
  settings              \* g_ihm_sound, g_step_sound, g_buzzer_duty_cycle

listVars == << currentPath, file_list_status, file_list_status_tab >>
pageVars == << numFiles, last_file, DirectoryEntry_tab >>
slotVars == << slotnumber, disks_slot_a >>
vars == << pc, listVars, page_number, selectorpos, pageVars, slotVars, settings >>

LastRow == NUMBER_OF_FILE_ON_DISPLAY - 1
Rows == 0 .. LastRow

\* fl_index & (FL_STATUSTABLEN-1), on an index passed as unsigned char
StatusIndex(n) == n % FL_STATUSTABLEN

\* fl_list_opendir on a path: the status at the start of its listing.
Opened(path) == [cluster |-> OpenDirectory(path), pos |-> 0]

\* backup_flstatus(i) for every i of the table.
BackupAll(status) == [i \in 0 .. FL_STATUSTABLEN - 1 |-> status]

\* backup_flstatus(page_number+1), with the status behind the page.
BackupThisPage(status) ==
  [file_list_status_tab EXCEPT ![StatusIndex(page_number)] = status]
BackupStart(status) ==
  [file_list_status_tab EXCEPT ![StatusIndex(page_number + 1)] = file_list_status]
BackupNextPage(status) ==
  [file_list_status_tab EXCEPT ![StatusIndex(page_number + 1)] = status]

-----------------------------------------------------------------------------
(* Helpers shared by the handlers.                                         *)

\* next_slot
UnboundedNextSlot == slotnumber + 1
NextSlot == IF slotnumber + 1 > NUMBER_OF_SLOT - 1 THEN 1 ELSE slotnumber + 1

\* page_number = n; restore_flstatus(page_number); read_entry = 1
TurnTo(n) ==
  /\ page_number' = n
  /\ file_list_status' = file_list_status_tab[StatusIndex(n)]
  /\ pc' = "read"
  /\ UNCHANGED << currentPath, file_list_status_tab, pageVars >>

\* The page and the listing stay as they are; wait for the next key.
SamePage ==
  /\ pc' = "key"
  /\ UNCHANGED << listVars, page_number, pageVars >>

Selected == DirectoryEntry_tab[selectorpos]

\* '..': the last character, a Slash, is dropped and what stands behind the
\* Slash before it; without another one nothing is left.
Slashes == {i \in 1 .. Len(currentPath) - 1 : currentPath[i] = Slash}
FirstSlash(i) == i \in Slashes /\ \A j \in Slashes : i <= j
LastSlash(i) == i \in Slashes /\ \A j \in Slashes : j <= i
ParentPath ==
  IF \E i \in Slashes : LastSlash(i)
  THEN SubSeq(currentPath, 1, CHOOSE i \in Slashes : LastSlash(i))
  ELSE << >>

\* How enter_sub_dir changes the path: '..' leads to the parent, other names
\* with a leading dot change nothing, and what can be copied of any other
\* name is appended with a Slash behind it.
PathInto(e) ==
  IF e.dots = 2 /\ currentPath # << >> THEN ParentPath
  ELSE IF e.dots > 0 THEN currentPath
  ELSE IF e.cut = NoName THEN Append(currentPath, Slash)
  ELSE Append(Append(currentPath, e.cut), Slash)

\* enter_sub_dir: the listing of the new path is opened, its start saved in
\* every entry of the table and the selector put on top; page_number stays.
EnterSubDir(e) ==
  /\ e.is_dir
  /\ currentPath' = PathInto(e)
  /\ file_list_status' = Opened(PathInto(e))
  /\ file_list_status_tab' = BackupAll(Opened(PathInto(e)))
  /\ selectorpos' = 0
  /\ pc' = "read"
  /\ UNCHANGED << page_number, pageVars, slotVars, settings >>

-----------------------------------------------------------------------------
(* One page of the listing.                                                *)

\* The selector, brought onto a page of n entries.
Unclamped(n) == selectorpos
Clamped(n) == IF selectorpos <= n - 1 THEN selectorpos
              ELSE IF n = 0 THEN 0 ELSE n - 1

\* fl_list_readdir until the page is full or the listing ends, the status
\* after the page saved for the next page, the selector brought onto the page.
ReadPage ==
  LET from == file_list_status.pos
      left == Len(Items(file_list_status.cluster)) - from
      n    == IF left < NUMBER_OF_FILE_ON_DISPLAY THEN left
              ELSE NUMBER_OF_FILE_ON_DISPLAY
      after == [file_list_status EXCEPT !.pos = from + n]
  IN /\ pc = "read"
     /\ pc' = "key"
     /\ DirectoryEntry_tab' =
          [i \in Rows |-> IF i < n THEN Items(file_list_status.cluster)[from + i + 1]
                          ELSE Blank]
     /\ numFiles' = n
     /\ last_file' = (left < NUMBER_OF_FILE_ON_DISPLAY)
     /\ file_list_status' = after
     /\ file_list_status_tab' = BackupNextPage(after)
     /\ selectorpos' = Clamped(n)
     /\ UNCHANGED << currentPath, page_number, slotVars, settings >>

-----------------------------------------------------------------------------
(* The keys that move the selector or turn the page.                       *)

KeyUp ==
  /\ pc = "key"
  /\ selectorpos > 0 \/ page_number # 0
  /\ IF selectorpos - 1 < 0
     THEN /\ selectorpos' = LastRow
          /\ TurnTo(page_number - 1)
     ELSE /\ selectorpos' = selectorpos - 1
          /\ SamePage
  /\ UNCHANGED << slotVars, settings >>

\* With last_file set and the selector on the last row, selectorpos would
\* stay behind the page: see SelectorInBounds.
KeyDown ==
  /\ pc = "key"
  /\ selectorpos < numFiles - 1 \/ selectorpos >= LastRow
  /\ IF selectorpos + 1 >= NUMBER_OF_FILE_ON_DISPLAY /\ ~ last_file
     THEN /\ selectorpos' = 0
          /\ TurnTo((page_number + 1) % UCHAR_MOD)
     ELSE /\ selectorpos' = selectorpos + 1
          /\ SamePage
  /\ UNCHANGED << slotVars, settings >>

RightWithoutGuard ==
  /\ pc = "key"
  /\ TurnTo((page_number + 1) % UCHAR_MOD)
  /\ UNCHANGED << selectorpos, slotVars, settings >>
KeyRight ==
  /\ pc = "key"
  /\ ~ last_file
  /\ TurnTo((page_number + 1) % UCHAR_MOD)
  /\ UNCHANGED << selectorpos, slotVars, settings >>

KeyLeft ==
  /\ pc = "key"
  /\ page_number # 0
  /\ TurnTo(page_number - 1)
  /\ UNCHANGED << selectorpos, slotVars, settings >>

\* '.': the help page says "Go to first page".
KeyFirstPage ==
  /\ pc = "key"
  /\ page_number # 0
  /\ selectorpos' = 0
  /\ TurnTo(0)
  /\ UNCHANGED << slotVars, settings >>

\* S and H show another screen, wait for a key and read the page again.
KeyInfoScreen ==
  /\ pc = "key"
  /\ TurnTo(page_number)
  /\ UNCHANGED << selectorpos, slotVars, settings >>

\* show_parameters, and the page read again.
KeyParameters ==
  /\ pc = "key"
  /\ \E ihm, step \in {0, 255} :
       settings' = [settings EXCEPT !.buzzer_duty_cycle = 32,
                                    !.ihm_sound = ihm, !.step_sound = step]
  /\ TurnTo(page_number)
  /\ UNCHANGED << selectorpos, slotVars >>

-----------------------------------------------------------------------------
(* The keys that act on the selected entry or on the slots.                *)

KeyEnterDir ==
  /\ pc = "key"
  /\ EnterSubDir(Selected)

\* The entry under the selector goes into the current slot.
PutAnything ==
  /\ pc = "key"
  /\ disks_slot_a' = [disks_slot_a EXCEPT ![slotnumber] = Selected]
  /\ SamePage
  /\ UNCHANGED << selectorpos, settings >>
PutSelected ==
  /\ pc = "key"
  /\ ~ Selected.is_dir
  /\ disks_slot_a' = [disks_slot_a EXCEPT ![slotnumber] = Selected]
  /\ SamePage
  /\ UNCHANGED << selectorpos, settings >>

KeyInsert == PutSelected /\ UNCHANGED slotnumber

KeyInsertNext == PutSelected /\ slotnumber' = NextSlot

ClearCurrent ==
  /\ pc = "key"
  /\ disks_slot_a' = [disks_slot_a EXCEPT ![slotnumber] = Blank]
  /\ SamePage
  /\ UNCHANGED << selectorpos, settings >>

KeyClear == ClearCurrent /\ UNCHANGED slotnumber

KeyClearNext == ClearCurrent /\ slotnumber' = NextSlot

KeyNextSlot ==
  /\ pc = "key"
  /\ slotnumber' = NextSlot
  /\ SamePage
  /\ UNCHANGED << selectorpos, disks_slot_a, settings >>

-----------------------------------------------------------------------------
(* Leaving the program.                                                    *)

KeySave ==
  /\ pc = "key"
  /\ pc' = "save"
  /\ UNCHANGED << listVars, page_number, selectorpos, pageVars, slotVars, settings >>

\* ESC without saving, or the end of a save: reboot() does not return.
Reboot ==
  /\ pc \in {"key", "save"}
  /\ pc' = "off"
  /\ UNCHANGED << listVars, page_number, selectorpos, pageVars, slotVars, settings >>

-----------------------------------------------------------------------------

Init ==
  /\ pc = "read"
  /\ currentPath = << Slash >>
  /\ file_list_status = Opened(<< Slash >>)
  /\ file_list_status_tab = BackupAll(Opened(<< Slash >>))
  /\ page_number = 0
  /\ selectorpos = 0
  /\ numFiles = 0
  /\ last_file = FALSE
  /\ DirectoryEntry_tab = [i \in Rows |-> Blank]
  /\ slotnumber = 1
  /\ disks_slot_a = InitSlots
  /\ settings = InitSettings

Next ==
  \/ ReadPage
  \/ KeyUp \/ KeyDown \/ KeyRight \/ KeyLeft \/ KeyFirstPage
  \/ KeyInfoScreen \/ KeyParameters
  \/ KeyEnterDir \/ KeyInsert \/ KeyInsertNext
  \/ KeyClear \/ KeyClearNext \/ KeyNextSlot
  \/ KeySave \/ Reboot

Spec == Init /\ [][Next]_vars

-----------------------------------------------------------------------------
(* Properties.                                                             *)

\* Every variable stays in its C type's meaningful range.
TypeOK ==
  /\ pc \in {"read", "key", "save", "off"}
  /\ currentPath \in Seq(Names \cup {Slash})
  /\ file_list_status \in Status
  /\ file_list_status_tab \in [0 .. FL_STATUSTABLEN - 1 -> Status]
  /\ page_number \in 0 .. UCHAR_MOD - 1
  /\ selectorpos \in Int
  /\ numFiles \in 0 .. NUMBER_OF_FILE_ON_DISPLAY
  /\ last_file \in BOOLEAN
  /\ DirectoryEntry_tab \in [Rows -> Content]
  /\ slotnumber \in Slots
  /\ disks_slot_a \in [Slots -> Content]
  /\ settings \in Settings

\* Whenever a key is handled, the selector is on a row of the page, and on a
\* listed entry if there is one: DirectoryEntry_tab[selectorpos] never reads
\* behind the table, although the Down handler has a branch that leaves
\* selectorpos at NUMBER_OF_FILE_ON_DISPLAY.
SelectorInBounds ==
  pc = "key" => /\ selectorpos \in Rows
                /\ numFiles > 0 => selectorpos < numFiles

\* The page on screen is the one whose start is saved under page_number, in
\* the directory that the path on screen leads to, and the status saved under
\* the next page number is exactly where the page ended: whatever keys were
\* pressed, even after page_number has wrapped around the table.
PageAnchored ==
  pc = "key" =>
    LET start == file_list_status_tab[StatusIndex(page_number)]
    IN /\ start.cluster = OpenDirectory(currentPath)
       /\ file_list_status.cluster = OpenDirectory(currentPath)
       /\ start.pos + numFiles = file_list_status.pos
       /\ file_list_status_tab[StatusIndex(page_number + 1)] = file_list_status
       /\ \A i \in 0 .. numFiles - 1 :
            DirectoryEntry_tab[i] = Items(start.cluster)[start.pos + i + 1]

\* Turning to the next page continues the listing where the page on screen
\* ended, so no entry is skipped or shown twice.
ForwardIsContiguous ==
  [][pc = "key" /\ page_number' = (page_number + 1) % UCHAR_MOD
     => file_list_status' = file_list_status]_vars

\* Entering a directory lists the directory the selected entry denotes, from
\* its start: enter_sub_dir does not use the entry's cluster but edits the
\* path as a text, and the library cuts it into names again and walks them
\* from the root.  It holds for the directories whose names survive the copy
\* into the path.  (A name that starts with a dot, '.' and '..' apart, would
\* break it, too.)
EnterOpensSelected ==
  [][KeyEnterDir /\ Selected.cut = Selected.name =>
       file_list_status' = [cluster |-> Selected.cluster, pos |-> 0]]_vars

\* Only the current slot changes, and it receives a file of the directory on
\* screen or is cleared, by P, O or by inserting on an empty page; a directory
\* never ends up in a slot.
SlotsChangeOnlyByKey ==
  [][\A s \in Slots :
       disks_slot_a'[s] # disks_slot_a[s] =>
         /\ pc = "key"
         /\ s = slotnumber
         /\ \/ disks_slot_a'[s] = Blank
            \/ /\ ~ disks_slot_a'[s].is_dir
               /\ \E i \in 1 .. Len(Items(file_list_status.cluster)) :
                    disks_slot_a'[s] = Items(file_list_status.cluster)[i]]_vars

-----------------------------------------------------------------------------
(* What makes SelectorInBounds and PageAnchored inductive.                  *)

\* No saved status lies behind the end of its listing.
StatusesInListing ==
  /\ file_list_status.pos <= Len(Items(file_list_status.cluster))
  /\ \A i \in 0 .. FL_STATUSTABLEN - 1 :
       file_list_status_tab[i].pos <= Len(Items(file_list_status_tab[i].cluster))

\* Every saved status is one of the directory that currentPath leads to.
PathListed ==
  /\ file_list_status.cluster = OpenDirectory(currentPath)
  /\ \A i \in 0 .. FL_STATUSTABLEN - 1 :
       file_list_status_tab[i].cluster = OpenDirectory(currentPath)

\* A page about to be read is the one saved under page_number.
StatusRestored ==
  pc = "read" => file_list_status = file_list_status_tab[StatusIndex(page_number)]

\* A page that is not full is the last one, and the selector stands on an
\* entry or, on an empty page, on the first row.
PageLimits ==
  /\ selectorpos \in Rows
  /\ pc = "key" => /\ last_file <=> numFiles < NUMBER_OF_FILE_ON_DISPLAY
                   /\ selectorpos < numFiles \/ (numFiles = 0 /\ selectorpos = 0)

IInv ==
  /\ TypeOK
  /\ StatusesInListing
  /\ PathListed
  /\ StatusRestored
  /\ PageLimits
  /\ PageAnchored

=============================================================================
