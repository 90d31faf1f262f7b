-------------------------------- MODULE Media --------------------------------
(***************************************************************************)
(* Access to the card through the floppy emulator: media_init, media_read  *)
(* and media_write of fectrl.c.  The emulator is one of two drives and is  *)
(* known by the signature in sector 0.  It shows a window of the card as   *)
(* the sectors 1..8 of track 255; a command written to sector 0 moves the  *)
(* window (setlbabase).  The program remembers where it put the window and *)
(* moves it only for sectors outside it.                                   *)
(*                                                                         *)
(* The window is the emulator's state, outside the program: it is modelled *)
(* from how the code uses it, and is anywhere when the program starts.  So *)
(* is the drive the firmware hands over: the one last used.                *)
(***************************************************************************)
EXTENDS Integers

CONSTANTS
  SECTORS,          \* sectors on the card
  WINDOW,           \* sectors in the window, 8
  WORD_MOD,         \* values of an unsigned long, 2^32
  NO_LBABASE,       \* last_setlbabase after media_init, 0xFFFFFF00
  EmulatorDrive,    \* 0 or 1
  Data,             \* contents of a sector
  SetlbabaseMayFail \* the command that moves the window can be lost

Lbas == 0 .. SECTORS - 1
Drives == 0 .. 1

\* The card ends so far below NO_LBABASE that no sector is in the window the
\* initial value stands for.
ASSUME MediaAssumption ==
  /\ SECTORS \in Nat \ {0} /\ WINDOW \in Nat \ {0}
  /\ WORD_MOD \in Nat /\ NO_LBABASE \in Nat
  /\ SECTORS <= NO_LBABASE /\ NO_LBABASE + WINDOW <= WORD_MOD
  /\ EmulatorDrive \in Drives
  /\ SetlbabaseMayFail \in BOOLEAN

VARIABLES
  pc,              \* "first", "second": media_init tries a drive; "none": it
                   \* shows an error box, for ever; "idle"; "set": setlbabase;
                   \* "access": the read or write of track 255; "box": its
                   \* error box, for ever
  floppydrive,
  call,            \* the parameters of media_read or media_write
  last_setlbabase,
  buffer,          \* what the last read delivered, or NoData
  lba_base,        \* of the emulator
  card

vars == << pc, floppydrive, call, last_setlbabase, buffer, lba_base, card >>

NoData == "no data"

Calls == [kind : {"read", "write"}, lba : Lbas, data : Data]

\* lba_sector - last_setlbabase, of unsigned longs.
SignedDiff(lba) == lba - last_setlbabase
Diff(lba) ==
  IF lba >= last_setlbabase THEN lba - last_setlbabase
  ELSE lba - last_setlbabase + WORD_MOD

InWindow == Diff(call.lba) < WINDOW

\* The sector of track 255 that is accessed, counted from 0.
Place == IF InWindow THEN Diff(call.lba) ELSE 0

\* last_setlbabase after the access: set after it, even if it has failed.
BaseOfEveryCall == call.lba
BaseBehindCall == IF InWindow THEN last_setlbabase ELSE call.lba + 1
NextLbaBase == IF InWindow THEN last_setlbabase ELSE call.lba

-----------------------------------------------------------------------------
(* media_init.                                                             *)

\* The drive that is tried has the signature of the emulator.
AnyDrive == TRUE
Signature == floppydrive = EmulatorDrive

EmulatorFound ==
  /\ pc \in {"first", "second"}
  /\ Signature
  /\ pc' = "idle"
  /\ UNCHANGED << floppydrive, call, last_setlbabase, buffer, lba_base, card >>

\* The drive cannot be read: the other one is tried, once.
TryOtherDrive ==
  /\ pc = "first"
  /\ pc' = "second"
  /\ floppydrive' = 1 - floppydrive
  /\ UNCHANGED << call, last_setlbabase, buffer, lba_base, card >>

\* Neither drive can be read, or one answers with another signature: the
\* error box comes before the other drive is tried.
NoEmulator ==
  /\ pc = "second" \/ (pc = "first" /\ ~ Signature)
  /\ pc' = "none"
  /\ UNCHANGED << floppydrive, call, last_setlbabase, buffer, lba_base, card >>

-----------------------------------------------------------------------------
(* media_read and media_write.                                             *)

Call ==
  /\ pc = "idle"
  /\ call' \in Calls
  /\ buffer' = NoData
  /\ pc' = IF Diff(call'.lba) < WINDOW THEN "access" ELSE "set"
  /\ UNCHANGED << floppydrive, last_setlbabase, lba_base, card >>

\* The result of setlbabase is not looked at.
Setlbabase ==
  /\ pc = "set"
  /\ pc' = "access"
  /\ \/ floppydrive = EmulatorDrive /\ lba_base' = call.lba
     \/ (SetlbabaseMayFail \/ floppydrive # EmulatorDrive) /\ UNCHANGED lba_base
  /\ UNCHANGED << floppydrive, call, last_setlbabase, buffer, card >>

Access ==
  /\ pc = "access"
  /\ floppydrive = EmulatorDrive
  /\ lba_base + Place \in Lbas
  /\ pc' = "idle"
  /\ IF call.kind = "read"
     THEN buffer' = card[lba_base + Place] /\ UNCHANGED card
     ELSE card' = [card EXCEPT ![lba_base + Place] = call.data] /\ UNCHANGED buffer
  /\ last_setlbabase' = NextLbaBase
  /\ UNCHANGED << floppydrive, call, lba_base >>

AccessFails ==
  /\ pc = "access"
  /\ pc' = "box"
  /\ last_setlbabase' = NextLbaBase
  /\ UNCHANGED << floppydrive, call, buffer, lba_base, card >>

\* The machine is reset and media_init called, with the emulator left on.
Restart ==
  /\ pc' = "first"
  /\ floppydrive' \in Drives
  /\ last_setlbabase' = NO_LBABASE
  /\ buffer' = NoData
  /\ UNCHANGED << call, lba_base, card >>

Init ==
  /\ pc = "first"
  /\ floppydrive \in Drives
  /\ call \in Calls
  /\ last_setlbabase = NO_LBABASE
  /\ buffer = NoData
  /\ lba_base \in Lbas
  /\ card \in [Lbas -> Data]

Mount == EmulatorFound \/ TryOtherDrive \/ NoEmulator

Next == Mount \/ Call \/ Setlbabase \/ Access \/ AccessFails \/ Restart

Spec == Init /\ [][Next]_vars

-----------------------------------------------------------------------------
(* Properties.                                                             *)

TypeOK ==
  /\ pc \in {"first", "second", "none", "idle", "set", "access", "box"}
  /\ floppydrive \in Drives
  /\ call \in Calls
  /\ last_setlbabase \in Lbas \cup {NO_LBABASE}
  /\ buffer \in Data \cup {NoData}
  /\ lba_base \in Lbas
  /\ card \in [Lbas -> Data]

\* The sector read or written is the one asked for, and on the emulator's
\* drive, whichever drive the firmware used before, wherever the window was
\* left by the calls before, by a failed access or before a restart, and with
\* the difference of the sector numbers taken in unsigned longs.
AccessesSectorAsked ==
  pc = "access" => floppydrive = EmulatorDrive /\ lba_base + Place = call.lba

\* What makes AccessesSectorAsked inductive, as long as no setlbabase is lost:
\* behind media_init the drive is the emulator's, and the program's idea of
\* the window is the emulator's, unless it has none.
DriveKnown ==
  pc \in {"idle", "set", "access", "box"} => floppydrive = EmulatorDrive
WindowKnown ==
  CASE pc = "set"    -> ~ InWindow
    [] pc = "access" -> IF InWindow THEN lba_base = last_setlbabase
                        ELSE lba_base = call.lba
    [] OTHER         -> last_setlbabase \in {NO_LBABASE, lba_base}

Store == INSTANCE BlockStore WITH
  Stores  <- [Lbas -> Data],
  NoCall  <- [kind |-> "none"],
  Nothing <- NoData,
  store   <- card,
  call    <- IF pc \in {"set", "access", "box"} THEN call ELSE [kind |-> "none"],
  answer  <- buffer

\* media_read and media_write are reads and writes of the sectors asked for:
\* the window is not visible to the file library.
ImplementsBlockStore == Store!Spec

=============================================================================
