------------------------------- MODULE CfgFile -------------------------------
(***************************************************************************)
(* HXCSDFE.CFG: how read_cfg_file loads the slots and the settings from    *)
(* the card and how save_cfg_file writes them back, one sector at a time,  *)
(* with the machine switched off or reset between any two sectors.         *)
(*                                                                         *)
(* Sector 0 of the file is the header, sector 1 is not touched, and the    *)
(* sectors from 2 on hold the slot records in order, the record of slot 0  *)
(* first.  The emulator's firmware and the program share the layout.       *)
(***************************************************************************)
EXTENDS Integers, Sequences, FiniteSets

CONSTANTS
  Images,           \* directory entries with a size, as they are in slots
  Empty,            \* an entry whose size is 0: an empty file
  Blank,            \* a cleared record
  Values,           \* of the settings
  NUMBER_OF_SLOT,   \* 16
  PerSector,        \* records of 128 bytes in a sector, 4
  InitNumber, InitSectors, InitSettings  \* the file as it is found

Slots == 1 .. NUMBER_OF_SLOT - 1
Content == Images \cup {Empty, Blank}
Places == 0 .. PerSector - 1
Sectors == 2 .. 2 + (NUMBER_OF_SLOT - 1) \div PerSector

ASSUME CfgAssumption ==
  /\ NUMBER_OF_SLOT \in Nat \ {0, 1}
  /\ PerSector \in Nat \ {0, 1}
  /\ Empty \notin Images /\ Blank \notin Images /\ Empty # Blank
  /\ InitNumber \in 1 .. NUMBER_OF_SLOT
  /\ InitSectors \in [Sectors -> [Places -> Content]]
  /\ InitSettings \in Values

VARIABLES
  \* On the card:
  header,          \* number_of_slot, slot_index and the settings
  sectors,         \* the slot records
  \* In memory:
  pc,              \* "boot"; "load": in read_cfg_file; "use": in the main
                   \* loop; "save", "finish": in save_cfg_file; "off"
  disks_slot_a,
  settings,        \* g_step_sound ... g_buzzer_step_duration
  sdfecfg_file,    \* the sector buffer
  i,
  number_of_slot,
  floppyselectorindex,  \* the place in the buffer for the next record
  sect_nb,
  \* History:
  before,          \* the slots the card held when the save began
  intended         \* the slots it is to hold after the save

cardVars == << header, sectors >>
memVars == << disks_slot_a, settings >>
loopVars == << sdfecfg_file, i, number_of_slot, floppyselectorindex, sect_nb >>
history == << before, intended >>
vars == << cardVars, pc, memVars, loopVars, history >>

NoSlots == [s \in Slots |-> Blank]
ClearSector == [p \in Places |-> Blank]

\* DirEnt.size is not 0.
HasSize(c) == c \in Images

-----------------------------------------------------------------------------
(* read_cfg_file.                                                          *)

\* The header is read, and the first sector of records behind it.
ReadHeader ==
  /\ pc = "boot"
  /\ pc' = "load"
  /\ disks_slot_a' = NoSlots
  /\ settings' = header.settings
  /\ number_of_slot' = header.number_of_slot
  /\ sdfecfg_file' = sectors[2]
  /\ i' = 1
  /\ UNCHANGED << cardVars, floppyselectorindex, sect_nb, history >>

\* The buffer, wherever slot i is.
StaleBuffer == sdfecfg_file

\* The sector holding the record of slot i: the next one at its first record.
BufferFor == IF i % PerSector = 0 THEN sectors[2 + i \div PerSector] ELSE sdfecfg_file

\* do { ... } while (i < number_of_slot): slot 1 is read in any case.
LoadSlot ==
  /\ pc = "load"
  /\ sdfecfg_file' = BufferFor
  /\ disks_slot_a' = [disks_slot_a EXCEPT ![i] = BufferFor[i % PerSector]]
  /\ i' = i + 1
  /\ pc' = IF i + 1 < number_of_slot THEN "load" ELSE "use"
  /\ UNCHANGED << cardVars, settings, number_of_slot, floppyselectorindex,
                  sect_nb, history >>

-----------------------------------------------------------------------------
(* The main loop, as far as the slots and settings are concerned.          *)

Edit ==
  /\ pc = "use"
  /\ \/ /\ \E s \in Slots, c \in Content :
             disks_slot_a' = [disks_slot_a EXCEPT ![s] = c]
        /\ UNCHANGED settings
     \/ /\ settings' \in Values
        /\ UNCHANGED disks_slot_a
  /\ UNCHANGED << cardVars, pc, loopVars, history >>

-----------------------------------------------------------------------------
(* What a card's file stands for: the slots read_cfg_file makes of it.     *)

Loaded(n, recs) ==
  [s \in Slots |-> IF s < n \/ s = 1 THEN recs[2 + s \div PerSector][s % PerSector]
                   ELSE Blank]

CardSlots == Loaded(header.number_of_slot, sectors)

\* How many of the slots up to s have an image.
ImagesUpTo(slots, s) == Cardinality({t \in 1 .. s : HasSize(slots[t])})

\* The slots with an image, moved up to close the gaps: the s-th of them.
Compact(slots) ==
  LET IsImage(t, s) == HasSize(slots[t]) /\ ImagesUpTo(slots, t) = s
  IN [s \in Slots |-> IF \E t \in Slots : IsImage(t, s)
                      THEN slots[CHOOSE t \in Slots : IsImage(t, s)] ELSE Blank]

-----------------------------------------------------------------------------
(* save_cfg_file.                                                          *)

\* The header before the records it counts.
SaveBeginHeaderFirst ==
  /\ pc = "use"
  /\ pc' = "save"
  /\ number_of_slot' = 1
  /\ i' = 1
  /\ floppyselectorindex' = 1
  /\ sdfecfg_file' = ClearSector
  /\ sect_nb' = 2
  /\ before' = CardSlots
  /\ intended' = Compact(disks_slot_a)
  /\ header' = [header EXCEPT !.number_of_slot =
                  1 + Cardinality({s \in Slots : HasSize(disks_slot_a[s])})]
  /\ UNCHANGED << sectors, memVars >>

SaveBegin ==
  /\ pc = "use"
  /\ pc' = "save"
  /\ number_of_slot' = 1
  /\ i' = 1
  /\ floppyselectorindex' = 1
  /\ sdfecfg_file' = ClearSector
  /\ sect_nb' = 2
  /\ before' = CardSlots
  /\ intended' = Compact(disks_slot_a)
  /\ UNCHANGED << cardVars, memVars >>

\* A slot without an image is left out.
SkipSlot ==
  /\ pc = "save" /\ i < NUMBER_OF_SLOT
  /\ ~ HasSize(disks_slot_a[i])
  /\ i' = i + 1
  /\ UNCHANGED << cardVars, pc, memVars, sdfecfg_file, number_of_slot,
                  floppyselectorindex, sect_nb, history >>

\* A full buffer is written and cleared; the place for a record goes round
\* with the buffer.
SectorFullLate(n) == n % PerSector = 1
SectorFull(n) == n % PerSector = 0
NextPlace == (floppyselectorindex + 1) % PerSector

CopySlot ==
  LET filled == [sdfecfg_file EXCEPT ![floppyselectorindex] = disks_slot_a[i]]
  IN /\ pc = "save" /\ i < NUMBER_OF_SLOT
     /\ HasSize(disks_slot_a[i])
     /\ number_of_slot' = number_of_slot + 1
     /\ floppyselectorindex' = NextPlace
     /\ IF SectorFull(number_of_slot + 1)
        THEN /\ sectors' = [sectors EXCEPT ![sect_nb] = filled]
             /\ sect_nb' = sect_nb + 1
             /\ sdfecfg_file' = ClearSector
        ELSE /\ sdfecfg_file' = filled
             /\ UNCHANGED << sectors, sect_nb >>
     /\ i' = i + 1
     /\ UNCHANGED << header, pc, memVars, history >>

\* Behind the last slot the rest of the buffer is written.
FlushBuffer ==
  /\ pc = "save" /\ i = NUMBER_OF_SLOT
  /\ sectors' = IF SectorFull(number_of_slot) THEN sectors
                ELSE [sectors EXCEPT ![sect_nb] = sdfecfg_file]
  /\ pc' = "finish"
  /\ UNCHANGED << header, memVars, loopVars, history >>

\* slot_index, 1 unless it would lie behind the slots.
SlotIndex == IF 1 >= number_of_slot THEN number_of_slot - 1 ELSE 1

\* The header is read, updated and written last; then the machine reboots.
WriteHeader ==
  /\ pc = "finish"
  /\ header' = [number_of_slot |-> number_of_slot, slot_index |-> SlotIndex,
                settings |-> settings]
  /\ pc' = "off"
  /\ UNCHANGED << sectors, memVars, loopVars, history >>

-----------------------------------------------------------------------------

\* The machine is reset, switched off, or left without saving: memory is
\* lost, the card stays as it is.
Restart ==
  /\ pc # "boot"
  /\ pc' = "boot"
  /\ disks_slot_a' = NoSlots
  /\ settings' = InitSettings
  /\ sdfecfg_file' = ClearSector
  /\ i' = 1 /\ number_of_slot' = 1 /\ floppyselectorindex' = 1 /\ sect_nb' = 2
  /\ UNCHANGED << cardVars, history >>

Init ==
  /\ header = [number_of_slot |-> InitNumber, slot_index |-> 0, settings |-> InitSettings]
  /\ sectors = InitSectors
  /\ pc = "boot"
  /\ disks_slot_a = NoSlots
  /\ settings = InitSettings
  /\ sdfecfg_file = ClearSector
  /\ i = 1 /\ number_of_slot = 1 /\ floppyselectorindex = 1 /\ sect_nb = 2
  /\ before = CardSlots
  /\ intended = CardSlots

Load == ReadHeader \/ LoadSlot
Save == SkipSlot \/ CopySlot \/ FlushBuffer \/ WriteHeader

Next == Load \/ Edit \/ SaveBegin \/ Save \/ Restart

Spec == Init /\ [][Next]_vars

-----------------------------------------------------------------------------
(* Properties.                                                             *)

TypeOK ==
  /\ header \in [number_of_slot : 1 .. NUMBER_OF_SLOT, slot_index : 0 .. 1,
                 settings : Values]
  /\ sectors \in [Sectors -> [Places -> Content]]
  /\ pc \in {"boot", "load", "use", "save", "finish", "off"}
  /\ disks_slot_a \in [Slots -> Content]
  /\ settings \in Values
  /\ sdfecfg_file \in [Places -> Content]
  /\ i \in 1 .. NUMBER_OF_SLOT
  /\ number_of_slot \in 1 .. NUMBER_OF_SLOT
  /\ floppyselectorindex \in Places
  /\ sect_nb \in 2 .. 2 + NUMBER_OF_SLOT \div PerSector
  /\ before \in [Slots -> Content] /\ intended \in [Slots -> Content]

\* Wherever a save is interrupted, a restart finds in every slot either what
\* was in it before or what was to be in it after the save: no slot is torn,
\* and the header never counts records that are not yet written.
EachSlotOldOrNew ==
  pc \in {"save", "finish"} =>
    \A s \in Slots : CardSlots[s] \in {before[s], intended[s]}

\* A save that is not interrupted leaves the images of all slots on the card,
\* without gaps, and the settings; slot_index is a slot that is there.
SaveStoresSlots ==
  pc = "off" => /\ CardSlots = intended
                /\ header.settings = settings
                /\ header.slot_index < header.number_of_slot

\* Starting the program loads exactly the records the header counts.
LoadReadsCard ==
  [][pc = "load" /\ pc' = "use" => disks_slot_a' = CardSlots]_vars

\* What makes these inductive: a load has filled the slots before i and holds
\* the sector of the slot before i;
LoadSoFar ==
  pc = "load" =>
    /\ number_of_slot = header.number_of_slot
    /\ i \in Slots /\ (i < number_of_slot \/ i = 1)
    /\ sdfecfg_file = sectors[2 + (i - 1) \div PerSector]
    /\ \A s \in Slots : disks_slot_a[s] = IF s < i THEN CardSlots[s] ELSE Blank

\* a save has put the images of the slots before i into the sectors before
\* sect_nb and into the buffer, which is clear behind them;
Record(s) ==
  IF 2 + s \div PerSector < sect_nb THEN sectors[2 + s \div PerSector][s % PerSector]
  ELSE sdfecfg_file[s % PerSector]

SaveSoFar ==
  pc = "save" =>
    /\ intended = Compact(disks_slot_a)
    /\ number_of_slot = 1 + ImagesUpTo(disks_slot_a, i - 1)
    /\ floppyselectorindex = number_of_slot % PerSector
    /\ sect_nb = 2 + number_of_slot \div PerSector
    /\ \A s \in Slots : s < number_of_slot => Record(s) = intended[s]
    /\ \A p \in Places : p >= floppyselectorindex => sdfecfg_file[p] = Blank

\* and before the header is written all records are.
RecordsSaved ==
  pc = "finish" =>
    \A s \in Slots :
      /\ s < number_of_slot \/ s = 1 =>
           sectors[2 + s \div PerSector][s % PerSector] = intended[s]
      /\ s >= number_of_slot => intended[s] = Blank

IInv ==
  /\ TypeOK /\ LoadSoFar /\ SaveSoFar /\ RecordsSaved
  /\ EachSlotOldOrNew /\ SaveStoresSlots

=============================================================================
