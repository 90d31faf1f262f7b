---------------------------- MODULE BrowserProofs ----------------------------
(***************************************************************************)
(* Proofs about Browser and BrowserRing for every directory tree, page     *)
(* size, table size and number of slots that CardTree and Browser assume.  *)
(***************************************************************************)
EXTENDS BrowserRing, BrowserPager, Numbers, FiniteSetTheorems, TLAPS

-----------------------------------------------------------------------------
(* The operators the actions are built from.                               *)

\* Table indices stay inside the table, whatever number they are made of.
LEMMA StatusIndexRange ==
  ASSUME NEW n \in Int
  PROVE  StatusIndex(n) \in 0 .. FL_STATUSTABLEN - 1
BY BrowserAssumption DEF StatusIndex

\* A listing is a sequence of entries, also the one of no directory.
LEMMA ItemsType ==
  ASSUME NEW d
  PROVE  Items(d) \in Seq(Entry)
<1>1. CASE d \in Dirs
  BY <1>1, TreeAssumption DEF Items
<1>2. CASE d \notin Dirs
  BY <1>2 DEF Items
<1> QED BY <1>1, <1>2

\* fl_list_opendir always gives a status from which the listing can be read.
LEMMA OpenedType ==
  ASSUME NEW path
  PROVE  Opened(path) \in Status
<1>1. OpenDirectory(path) \in Dirs \cup {Invalid}
  BY DEF OpenDirectory
<1> QED BY <1>1 DEF Opened, Status

\* next_slot keeps to the slots 1..NUMBER_OF_SLOT-1.
LEMMA NextSlotType ==
  ASSUME slotnumber \in Slots
  PROVE  NextSlot \in Slots
BY BrowserAssumption DEF NextSlot, Slots

\* Selecting a directory appends what can be copied of its name and a Slash to
\* the path, or drops its last component.
LEMMA PathIntoType ==
  ASSUME currentPath \in Seq(Names \cup {Slash}), NEW e \in Entry
  PROVE  PathInto(e) \in Seq(Names \cup {Slash})
<1> DEFINE Texts == Seq(Names \cup {Slash})
<1>1. e.cut \in Names \cup {NoName}
  BY DEF Entry
<1>2. ParentPath \in Texts
  <2>1. ASSUME \E i \in Slashes : LastSlash(i)
        PROVE  (CHOOSE i \in Slashes : LastSlash(i)) \in Slashes
    BY <2>1
  <2>2. ASSUME NEW i \in Slashes
        PROVE  SubSeq(currentPath, 1, i) \in Texts
    BY DEF Slashes
  <2> QED BY <2>1, <2>2 DEF ParentPath
<1>3. Append(currentPath, Slash) \in Texts
  OBVIOUS
<1>4. ASSUME NEW n \in Names
      PROVE  Append(Append(currentPath, n), Slash) \in Texts
  OBVIOUS
<1> QED BY <1>1, <1>2, <1>3, <1>4 DEF PathInto

\* Two numbers less than a round apart use different entries.
LEMMA WithinARound ==
  ASSUME NEW n \in Int, NEW m \in Int, n - m \in 1 .. FL_STATUSTABLEN - 1
  PROVE  StatusIndex(n) # StatusIndex(m)
<1> DEFINE T == FL_STATUSTABLEN
           d == n - m
           q == n \div T
           p == m \div T
           r == n % T
<1>1. T \in Nat \ {0} /\ T \in Int /\ T > 0 /\ m \in Int /\ d \in Int
  BY BrowserAssumption
<1>2. n = T * q + r /\ m = T * p + (m % T) /\ q \in Int /\ p \in Int /\ r \in Int
  BY <1>1, Division
<1>3. SUFFICES ASSUME r = m % T PROVE FALSE
  BY DEF StatusIndex
<1>4. d = T * (q - p) /\ q - p \in Int
  <2>1. n = T * q + r /\ n - d = T * p + r
    BY <1>1, <1>2, <1>3
  <2> HIDE DEF q, p, r, T, d
  <2> QED BY <1>1, <1>2, <2>1
<1>5. d >= 1 /\ d < T
  BY <1>1
<1> HIDE DEF q, p, T, d
<1>6. CASE q - p <= 0
  BY <1>1, <1>4, <1>5, <1>6
<1>7. CASE q - p >= 1
  BY <1>1, <1>4, <1>5, <1>7
<1> QED BY <1>4, <1>6, <1>7

\* So do neighbouring page numbers.
LEMMA NeighboursDiffer ==
  ASSUME NEW n \in Nat
  PROVE  StatusIndex(n) # StatusIndex(n + 1)
<1>1. n + 1 \in Int /\ n \in Int /\ (n + 1) - n \in 1 .. FL_STATUSTABLEN - 1
  BY BrowserAssumption
<1> QED BY <1>1, WithinARound

\* Wrapping page_number at UCHAR_MOD does not change the entry it selects.
LEMMA WrapKeepsIndex ==
  ASSUME NEW n \in 0 .. UCHAR_MOD - 1
  PROVE  /\ (n + 1) % UCHAR_MOD \in 0 .. UCHAR_MOD - 1
         /\ StatusIndex((n + 1) % UCHAR_MOD) = StatusIndex(n + 1)
<1>1. UCHAR_MOD \in Nat \ {0} /\ FL_STATUSTABLEN \in Nat \ {0}
  BY BrowserAssumption
<1>2. CASE n + 1 < UCHAR_MOD
  <2>1. (n + 1) % UCHAR_MOD = n + 1
    BY <1>1, <1>2
  <2> QED BY <1>1, <1>2, <2>1
<1>3. CASE n + 1 = UCHAR_MOD
  <2>1. (n + 1) % UCHAR_MOD = 0
    BY <1>1, <1>3
  <2>2. StatusIndex(0) = 0
    BY <1>1 DEF StatusIndex
  <2>3. StatusIndex(n + 1) = 0
    BY <1>3, BrowserAssumption DEF StatusIndex
  <2> QED BY <1>1, <2>1, <2>2, <2>3
<1> QED BY <1>1, <1>2, <1>3

-----------------------------------------------------------------------------
(* The inductive invariant.                                                *)

\* Turning to a page keeps the invariant.
LEMMA TurnToKeepsIInv ==
  ASSUME IInv, NEW n \in 0 .. UCHAR_MOD - 1, TurnTo(n), selectorpos' \in Rows,
         slotnumber' \in Slots, disks_slot_a' \in [Slots -> Content],
         settings' \in Settings
  PROVE  IInv'
<1> USE DEF IInv
<1>1. StatusIndex(n) \in 0 .. FL_STATUSTABLEN - 1
  BY StatusIndexRange, BrowserAssumption
<1>2. TypeOK'
  BY <1>1 DEF TypeOK, TurnTo, pageVars
<1>3. StatusesInListing'
  BY <1>1 DEF TypeOK, TurnTo, StatusesInListing
<1>4. StatusRestored'
  BY DEF TurnTo, StatusRestored, StatusIndex
<1>5. PageLimits' /\ PageAnchored'
  BY DEF TurnTo, PageLimits, PageAnchored
<1>6. PathListed'
  BY <1>1 DEF PathListed, TurnTo
<1> QED BY <1>2, <1>3, <1>4, <1>5, <1>6

\* A key that stays on the page keeps the invariant if it keeps the selector
\* on it.
LEMMA SamePageKeepsIInv ==
  ASSUME IInv, pc = "key", SamePage, selectorpos' \in Rows,
         selectorpos' < numFiles \/ (numFiles = 0 /\ selectorpos' = 0),
         slotnumber' \in Slots, disks_slot_a' \in [Slots -> Content],
         settings' \in Settings
  PROVE  IInv'
<1> USE DEF IInv, SamePage, listVars, pageVars
<1>1. TypeOK'
  <2>1. selectorpos' \in Int
    BY BrowserAssumption DEF Rows, LastRow
  <2> QED BY <2>1 DEF TypeOK
<1>2. StatusesInListing'
  BY DEF StatusesInListing
<1>3. StatusRestored'
  BY DEF StatusRestored
<1>4. PageLimits'
  BY DEF PageLimits
<1>5. PageAnchored' /\ PathListed'
  BY DEF PageAnchored, PathListed, StatusIndex
<1> QED BY <1>1, <1>2, <1>3, <1>4, <1>5

\* A status moved along its listing keeps the directory.
LEMMA MovedStatus ==
  ASSUME NEW s \in Status, NEW p \in Nat
  PROVE  /\ [s EXCEPT !.pos = p] \in Status
         /\ [s EXCEPT !.pos = p].cluster = s.cluster
         /\ [s EXCEPT !.pos = p].pos = p
BY DEF Status

\* Reading a page establishes what holds while it is shown.
LEMMA ReadPageKeepsIInv ==
  ASSUME IInv, ReadPage
  PROVE  IInv'
<1> DEFINE from  == file_list_status.pos
           dir   == file_list_status.cluster
           left  == Len(Items(dir)) - from
           n     == IF left < NUMBER_OF_FILE_ON_DISPLAY THEN left
                    ELSE NUMBER_OF_FILE_ON_DISPLAY
           after == [file_list_status EXCEPT !.pos = from + n]
           here  == StatusIndex(page_number)
           next  == StatusIndex(page_number + 1)
<1>1. /\ TypeOK /\ StatusesInListing /\ PathListed /\ StatusRestored /\ PageLimits
      /\ pc = "read" /\ pc' = "key"
      /\ numFiles' = n
      /\ last_file' = (left < NUMBER_OF_FILE_ON_DISPLAY)
      /\ file_list_status' = after
      /\ file_list_status_tab' = [file_list_status_tab EXCEPT ![next] = after]
      /\ selectorpos' = Clamped(n)
      /\ UNCHANGED << currentPath, page_number, slotVars, settings >>
  BY DEF IInv, ReadPage, BackupNextPage
<1>2. DirectoryEntry_tab' =
        [i \in Rows |-> IF i < n THEN Items(dir)[from + i + 1] ELSE Blank]
  BY DEF ReadPage
<1>3. /\ from \in Nat /\ left \in Nat /\ n \in 0 .. NUMBER_OF_FILE_ON_DISPLAY
      /\ n <= left /\ dir \in Dirs \cup {Invalid}
      /\ NUMBER_OF_FILE_ON_DISPLAY \in Nat \ {0, 1}
      /\ Items(dir) \in Seq(Entry)
  <2>1. Items(dir) \in Seq(Entry)
    BY ItemsType
  <2>2. from \in Nat /\ dir \in Dirs \cup {Invalid} /\ from <= Len(Items(dir))
    BY <1>1 DEF TypeOK, Status, StatusesInListing
  <2> QED BY <2>1, <2>2, BrowserAssumption
<1>4. after \in Status /\ after.cluster = dir /\ after.pos = from + n
  <2>1. from + n \in Nat
    BY <1>3
  <2>2. file_list_status \in Status
    BY <1>1 DEF TypeOK
  <2> HIDE DEF n
  <2> QED BY <2>1, <2>2, MovedStatus
<1>5. here \in 0 .. FL_STATUSTABLEN - 1 /\ next \in 0 .. FL_STATUSTABLEN - 1
  BY <1>1, StatusIndexRange DEF TypeOK
<1>6. here # next
  BY <1>1, NeighboursDiffer DEF TypeOK
<1>7. \A i \in Rows : i < n => Items(dir)[from + i + 1] \in Entry
  BY <1>3 DEF Rows, LastRow
<1>8. Clamped(n) \in Rows /\ (Clamped(n) < n \/ (n = 0 /\ Clamped(n) = 0))
  BY <1>1, <1>3 DEF Clamped, PageLimits, Rows, LastRow
<1>9. TypeOK'
  <2>1. DirectoryEntry_tab' \in [Rows -> Content]
    BY <1>2, <1>7 DEF Content
  <2>2. file_list_status_tab' \in [0 .. FL_STATUSTABLEN - 1 -> Status]
    BY <1>1, <1>4, <1>5 DEF TypeOK
  <2>3. selectorpos' \in Int
    BY <1>1, <1>3, <1>8 DEF Rows, LastRow
  <2> QED BY <1>1, <1>3, <1>4, <2>1, <2>2, <2>3 DEF TypeOK, slotVars
<1>10. StatusesInListing'
  <2>1. from + n <= Len(Items(dir))
    BY <1>3
  <2>2. ASSUME NEW i \in 0 .. FL_STATUSTABLEN - 1
        PROVE  file_list_status_tab'[i].pos <= Len(Items(file_list_status_tab'[i].cluster))
    <3>1. CASE i = next
      <4>1. file_list_status_tab'[i] = after
        BY <1>1, <3>1 DEF TypeOK
      <4> QED BY <1>4, <2>1, <4>1
    <3>2. CASE i # next
      <4>1. file_list_status_tab'[i] = file_list_status_tab[i]
        BY <1>1, <3>2 DEF TypeOK
      <4> QED BY <1>1, <4>1 DEF StatusesInListing
    <3> QED BY <3>1, <3>2
  <2>3. file_list_status'.pos <= Len(Items(file_list_status'.cluster))
    BY <1>1, <1>4, <2>1
  <2> QED BY <2>2, <2>3 DEF StatusesInListing
<1>11. StatusRestored'
  BY <1>1 DEF StatusRestored
<1>12. PageLimits'
  <2>1. last_file' <=> numFiles' < NUMBER_OF_FILE_ON_DISPLAY
    <3>1. left < NUMBER_OF_FILE_ON_DISPLAY <=> n < NUMBER_OF_FILE_ON_DISPLAY
      BY <1>3
    <3> HIDE DEF n, left
    <3> QED BY <1>1, <3>1, Zenon
  <2>2. /\ selectorpos' \in Rows
        /\ selectorpos' < numFiles' \/ (numFiles' = 0 /\ selectorpos' = 0)
    BY <1>1, <1>8
  <2> QED BY <2>1, <2>2 DEF PageLimits, Rows, LastRow
<1>13. PathListed' /\ OpenDirectory(currentPath)' = dir
  <2>1. dir = OpenDirectory(currentPath) /\ OpenDirectory(currentPath)' = dir
    BY <1>1 DEF PathListed
  <2>2. ASSUME NEW i \in 0 .. FL_STATUSTABLEN - 1
        PROVE  file_list_status_tab'[i].cluster = dir
    <3>1. CASE i = next
      BY <1>1, <1>4, <3>1 DEF TypeOK
    <3>2. CASE i # next
      BY <1>1, <2>1, <3>2 DEF TypeOK, PathListed
    <3> QED BY <3>1, <3>2
  <2>3. file_list_status'.cluster = dir
    BY <1>1, <1>4
  <2> QED BY <2>1, <2>2, <2>3 DEF PathListed
<1>14. PageAnchored'
  <2>1. StatusIndex(page_number)' = here /\ StatusIndex(page_number + 1)' = next
    BY <1>1 DEF StatusIndex
  <2>2. /\ file_list_status_tab'[here] = file_list_status
        /\ file_list_status_tab'[next] = after
    BY <1>1, <1>5, <1>6 DEF StatusRestored, TypeOK
  <2>3. \A i \in 0 .. n - 1 : DirectoryEntry_tab'[i] = Items(dir)[from + i + 1]
    BY <1>2, <1>3 DEF Rows, LastRow
  <2>4. /\ file_list_status_tab'[here] = file_list_status
        /\ file_list_status_tab'[next] = file_list_status'
        /\ file_list_status'.cluster = dir /\ file_list_status'.pos = from + n
        /\ numFiles' = n
    BY <1>1, <1>4, <2>2
  <2> HIDE DEF n, here, next, after
  <2> QED BY <1>13, <2>1, <2>3, <2>4 DEF PageAnchored
<1> QED BY <1>9, <1>10, <1>11, <1>12, <1>13, <1>14 DEF IInv

-----------------------------------------------------------------------------
(* Every action keeps the invariant, and so does the program.              *)

LEMMA InitEstablishesIInv ==
  ASSUME Init
  PROVE  IInv
<1>1. Opened(<< Slash >>) \in Status
  BY OpenedType
<1>2. 0 \in 0 .. FL_STATUSTABLEN - 1 /\ StatusIndex(0) \in 0 .. FL_STATUSTABLEN - 1
  BY StatusIndexRange, BrowserAssumption
<1>3. Opened(<< Slash >>).pos <= Len(Items(Opened(<< Slash >>).cluster))
  BY ItemsType DEF Opened
<1>4. TypeOK
  <2>1. /\ pc \in {"read", "key", "save", "off"}
        /\ currentPath \in Seq(Names \cup {Slash})
        /\ file_list_status \in Status
        /\ file_list_status_tab \in [0 .. FL_STATUSTABLEN - 1 -> Status]
    BY <1>1 DEF Init, BackupAll
  <2>2. /\ page_number \in 0 .. UCHAR_MOD - 1 /\ selectorpos \in Int
        /\ numFiles \in 0 .. NUMBER_OF_FILE_ON_DISPLAY
        /\ slotnumber \in Slots
    <3>1. /\ NUMBER_OF_FILE_ON_DISPLAY \in Nat /\ NUMBER_OF_SLOT \in Nat \ {0, 1}
          /\ UCHAR_MOD \in Nat \ {0}
      BY BrowserAssumption
    <3>2. page_number = 0 /\ selectorpos = 0 /\ numFiles = 0 /\ slotnumber = 1
      BY DEF Init
    <3> QED BY <3>1, <3>2 DEF Slots
  <2>3. DirectoryEntry_tab \in [Rows -> Content]
    BY DEF Init, Content
  <2>4. /\ disks_slot_a \in [Slots -> Content] /\ settings \in Settings
        /\ last_file \in BOOLEAN
    BY BrowserAssumption DEF Init
  <2> QED BY <2>1, <2>2, <2>3, <2>4 DEF TypeOK
<1>5. StatusesInListing /\ StatusRestored
  BY <1>2, <1>3 DEF Init, StatusesInListing, StatusRestored, BackupAll
<1>6. PageLimits /\ PageAnchored
  BY BrowserAssumption DEF Init, PageLimits, PageAnchored, Rows, LastRow
<1>7. PathListed
  <2>1. Opened(<< Slash >>).cluster = OpenDirectory(<< Slash >>)
    BY DEF Opened
  <2> QED BY <2>1 DEF Init, PathListed, BackupAll
<1> QED BY <1>4, <1>5, <1>6, <1>7 DEF IInv

LEMMA EnterDirKeepsIInv ==
  ASSUME IInv, KeyEnterDir
  PROVE  IInv'
<1> USE DEF IInv, KeyEnterDir, EnterSubDir, pageVars, slotVars
<1>1. Selected \in Entry
  BY DEF TypeOK, PageLimits, Selected, Content, Blank
<1>2. PathInto(Selected) \in Seq(Names \cup {Slash})
  BY <1>1, PathIntoType DEF TypeOK
<1> DEFINE start == Opened(PathInto(Selected))
<1>3. start \in Status /\ start.pos <= Len(Items(start.cluster))
  BY OpenedType, ItemsType DEF Opened
<1>4. /\ file_list_status' = start
      /\ file_list_status_tab' = [i \in 0 .. FL_STATUSTABLEN - 1 |-> start]
  BY DEF BackupAll
<1>5. StatusIndex(page_number) \in 0 .. FL_STATUSTABLEN - 1
  BY StatusIndexRange DEF TypeOK
<1>6. TypeOK'
  BY <1>2, <1>3, <1>4 DEF TypeOK
<1>7. StatusesInListing' /\ StatusRestored'
  BY <1>3, <1>4, <1>5 DEF StatusesInListing, StatusRestored, StatusIndex
<1>8. PageLimits' /\ PageAnchored'
  BY BrowserAssumption DEF PageLimits, PageAnchored, Rows, LastRow
<1>9. PathListed'
  <2>1. start.cluster = OpenDirectory(PathInto(Selected))
    BY DEF Opened
  <2>2. OpenDirectory(currentPath)' = OpenDirectory(PathInto(Selected))
    OBVIOUS
  <2> QED BY <1>4, <2>1, <2>2 DEF PathListed
<1> QED BY <1>6, <1>7, <1>8, <1>9

\* Every step of the program keeps the invariant.
LEMMA NextKeepsIInv ==
  ASSUME IInv, [Next]_vars
  PROVE  IInv'
<1> USE DEF IInv
<1>1. /\ page_number \in 0 .. UCHAR_MOD - 1 /\ slotnumber \in Slots
      /\ disks_slot_a \in [Slots -> Content] /\ settings \in Settings
      /\ selectorpos \in Rows /\ NextSlot \in Slots
      /\ NUMBER_OF_FILE_ON_DISPLAY \in Nat \ {0, 1}
      /\ UCHAR_MOD \in Nat \ {0}
  BY NextSlotType, BrowserAssumption DEF TypeOK, PageLimits
<1>2. CASE ReadPage
  BY <1>2, ReadPageKeepsIInv
<1>3. CASE KeyUp
  <2>1. CASE selectorpos - 1 < 0
    BY <1>1, <1>3, <2>1, TurnToKeepsIInv DEF KeyUp, slotVars, Rows, LastRow
  <2>2. CASE ~ (selectorpos - 1 < 0)
    BY <1>1, <1>3, <2>2, SamePageKeepsIInv DEF KeyUp, slotVars, Rows, LastRow, PageLimits, TypeOK
  <2> QED BY <2>1, <2>2
<1>4. CASE KeyDown
  <2>1. CASE selectorpos + 1 >= NUMBER_OF_FILE_ON_DISPLAY /\ ~ last_file
    BY <1>1, <1>4, <2>1, TurnToKeepsIInv, WrapKeepsIndex DEF KeyDown, slotVars, Rows, LastRow
  <2>2. CASE ~ (selectorpos + 1 >= NUMBER_OF_FILE_ON_DISPLAY /\ ~ last_file)
    <3>1. selectorpos + 1 < numFiles
      BY <1>1, <1>4, <2>2 DEF KeyDown, Rows, LastRow, PageLimits, TypeOK
    <3>2. selectorpos + 1 \in Rows
      BY <1>1, <3>1 DEF Rows, LastRow, TypeOK
    <3> QED BY <1>1, <1>4, <2>2, <3>1, <3>2, SamePageKeepsIInv DEF KeyDown, slotVars
  <2> QED BY <2>1, <2>2
<1>5. CASE KeyRight
  BY <1>1, <1>5, TurnToKeepsIInv, WrapKeepsIndex DEF KeyRight, slotVars
<1>6. CASE KeyLeft
  BY <1>1, <1>6, TurnToKeepsIInv DEF KeyLeft, slotVars
<1>7. CASE KeyFirstPage
  BY <1>1, <1>7, TurnToKeepsIInv DEF KeyFirstPage, slotVars, Rows, LastRow
<1>8. CASE KeyInfoScreen
  BY <1>1, <1>8, TurnToKeepsIInv DEF KeyInfoScreen, slotVars
<1>9. CASE KeyParameters
  <2>1. PICK ihm \in {0, 255}, step \in {0, 255} :
          settings' = [settings EXCEPT !.buzzer_duty_cycle = 32,
                                       !.ihm_sound = ihm, !.step_sound = step]
    BY <1>9 DEF KeyParameters
  <2>2. ihm \in 0 .. 255 /\ step \in 0 .. 255 /\ 32 \in 0 .. 255
    OBVIOUS
  <2>3. settings' \in Settings
    BY <1>1, <2>1, <2>2 DEF Settings
  <2> QED BY <1>1, <1>9, <2>3, TurnToKeepsIInv DEF KeyParameters, slotVars
<1>10. CASE KeyEnterDir
  BY <1>10, EnterDirKeepsIInv
<1>11. CASE KeyInsert \/ KeyInsertNext
  <2>1. Selected \in Content
    BY <1>1 DEF Selected, TypeOK
  <2>2. disks_slot_a' \in [Slots -> Content] /\ slotnumber' \in Slots
    BY <1>1, <1>11, <2>1 DEF KeyInsert, KeyInsertNext, PutSelected
  <2> QED BY <1>1, <1>11, <2>2, SamePageKeepsIInv
          DEF KeyInsert, KeyInsertNext, PutSelected, PageLimits
<1>12. CASE KeyClear \/ KeyClearNext
  <2>1. disks_slot_a' \in [Slots -> Content] /\ slotnumber' \in Slots
    BY <1>1, <1>12 DEF KeyClear, KeyClearNext, ClearCurrent, Content
  <2> QED BY <1>1, <1>12, <2>1, SamePageKeepsIInv
          DEF KeyClear, KeyClearNext, ClearCurrent, PageLimits
<1>13. CASE KeyNextSlot
  BY <1>1, <1>13, SamePageKeepsIInv DEF KeyNextSlot, PageLimits
<1>14. CASE KeySave \/ Reboot
  BY <1>14 DEF KeySave, Reboot, listVars, pageVars, slotVars, TypeOK,
     StatusesInListing, PathListed, StatusRestored, PageLimits, PageAnchored
<1>15. CASE UNCHANGED vars
  BY <1>15 DEF vars, listVars, pageVars, slotVars, TypeOK, StatusIndex,
     StatusesInListing, PathListed, StatusRestored, PageLimits, PageAnchored
<1> QED BY <1>2, <1>3, <1>4, <1>5, <1>6, <1>7, <1>8, <1>9, <1>10, <1>11,
           <1>12, <1>13, <1>14, <1>15 DEF Next

\* The inductive invariant holds of every state of the main loop.
THEOREM InductiveInvariant == Spec => []IInv
<1>1. Init => IInv
  BY InitEstablishesIInv
<1>2. IInv /\ [Next]_vars => IInv'
  BY NextKeepsIInv
<1> QED BY <1>1, <1>2, PTL DEF Spec

\* No variable of the main loop ever leaves its type.
THEOREM TypeCorrect == Spec => []TypeOK
BY InductiveInvariant, PTL DEF IInv

\* No key is ever handled with the selector off the page, so that
\* DirectoryEntry_tab[selectorpos] never reads behind the table.
THEOREM SelectorStaysInBounds == Spec => []SelectorInBounds
<1>1. IInv => SelectorInBounds
  BY DEF IInv, PageLimits, SelectorInBounds
<1> QED BY <1>1, InductiveInvariant, PTL

\* The page on screen always agrees with the statuses saved for it and for
\* the page behind it, for every tree and every length of the table.
THEOREM PageStaysAnchored == Spec => []PageAnchored
BY InductiveInvariant, PTL DEF IInv

\* Turning forwards continues the listing where the page ended: whichever key
\* makes the next page number current, it restores the status the page left.
THEOREM ForwardContiguous == Spec => ForwardIsContiguous
<1> DEFINE onward == (page_number + 1) % UCHAR_MOD
<1>1. ASSUME IInv, Next, pc = "key", page_number' = onward
      PROVE  file_list_status' = file_list_status
  <2>1. page_number \in 0 .. UCHAR_MOD - 1 /\ page_number \in Int
    BY <1>1 DEF IInv, TypeOK
  <2>2. onward # page_number
    <3>1. UCHAR_MOD \in Nat /\ UCHAR_MOD > 1
      <4>1. UCHAR_MOD # 1
        BY BrowserAssumption
      <4> QED BY <4>1, BrowserAssumption
    <3> QED BY <2>1, <3>1
  <2>3. file_list_status_tab[StatusIndex(onward)] = file_list_status
    BY <1>1, <2>1, WrapKeepsIndex DEF IInv, PageAnchored
  <2>4. ASSUME NEW n, TurnTo(n)
        PROVE  file_list_status' = file_list_status
    BY <1>1, <2>3, <2>4 DEF TurnTo
  <2>5. CASE KeyUp \/ KeyDown
    BY <2>4, <2>5 DEF KeyUp, KeyDown, SamePage, listVars
  <2>6. CASE KeyRight \/ KeyLeft \/ KeyFirstPage \/ KeyInfoScreen \/ KeyParameters
    BY <2>4, <2>6 DEF KeyRight, KeyLeft, KeyFirstPage, KeyInfoScreen, KeyParameters
  <2>7. CASE KeyEnterDir
    BY <1>1, <2>2, <2>7 DEF KeyEnterDir, EnterSubDir
  <2>8. CASE KeyInsert \/ KeyInsertNext \/ KeyClear \/ KeyClearNext \/ KeyNextSlot
    BY <2>8 DEF KeyInsert, KeyInsertNext, PutSelected, KeyClear, KeyClearNext,
       ClearCurrent, KeyNextSlot, SamePage, listVars
  <2>9. CASE ReadPage \/ KeySave \/ Reboot
    BY <1>1, <2>9 DEF ReadPage, KeySave, Reboot, listVars
  <2> QED BY <1>1, <2>5, <2>6, <2>7, <2>8, <2>9 DEF Next
<1>2. IInv /\ [Next]_vars =>
        [pc = "key" /\ page_number' = (page_number + 1) % UCHAR_MOD
         => file_list_status' = file_list_status]_vars
  BY <1>1
<1> QED BY <1>2, InductiveInvariant, PTL DEF Spec, ForwardIsContiguous

-----------------------------------------------------------------------------
(* How far back the ring is right.                                         *)

\* Going round the ring leads to the same entry.
LEMMA RoundTheRing ==
  ASSUME NEW n \in Int, NEW k \in Int
  PROVE  StatusIndex(n + k * FL_STATUSTABLEN) = StatusIndex(n)
<1> DEFINE T == FL_STATUSTABLEN
           m == n + k * T
<1>1. T \in Nat \ {0} /\ T \in Int /\ T > 0 /\ m \in Int
  BY BrowserAssumption
<1>2. n = T * (n \div T) + (n % T) /\ m = T * (m \div T) + (m % T)
  BY <1>1, Division
<1>3. /\ n \div T \in Int /\ m \div T \in Int
      /\ n % T \in 0 .. T - 1 /\ m % T \in 0 .. T - 1
  BY <1>1
<1> DEFINE q == n \div T
           p == m \div T
           r == n % T
           t == m % T
           qk == q + k
<1>4. qk * T + r = p * T + t
  <2>1. n = T * q + r /\ n + k * T = T * p + t
    BY <1>2
  <2>2. q \in Int /\ p \in Int /\ r \in Int /\ t \in Int /\ T \in Int
    BY <1>1, <1>3
  <2> HIDE DEF q, p, r, t, T, m
  <2> QED BY <2>1, <2>2
<1>5. qk \in Int /\ p \in Int /\ r \in 0 .. T - 1 /\ t \in 0 .. T - 1
  BY <1>3
<1>6. r = t
  <2> HIDE DEF q, p, r, t, m, T, qk
  <2> QED BY <1>1, <1>4, <1>5, PlacesApart
<1> QED BY <1>6 DEF StatusIndex

\* The wrap of page_number at UCHAR_MOD does not show behind it either.
LEMMA WrapKeepsWindow ==
  ASSUME NEW n \in 0 .. UCHAR_MOD - 1, NEW d \in Int
  PROVE  StatusIndex(((n + 1) % UCHAR_MOD) - d) = StatusIndex(n + 1 - d)
<1>1. UCHAR_MOD \in Nat \ {0} /\ FL_STATUSTABLEN \in Nat \ {0} /\ n \in Int
  BY BrowserAssumption
<1>2. CASE n + 1 < UCHAR_MOD
  <2>1. (n + 1) % UCHAR_MOD = n + 1
    BY <1>1, <1>2
  <2> QED BY <2>1
<1>3. CASE n + 1 = UCHAR_MOD
  <2> DEFINE k == UCHAR_MOD \div FL_STATUSTABLEN
  <2>1. ((n + 1) % UCHAR_MOD) - d = 0 - d
    BY <1>1, <1>3
  <2>2. k \in Int /\ n + 1 = k * FL_STATUSTABLEN
    <3>1. UCHAR_MOD = k * FL_STATUSTABLEN + (UCHAR_MOD % FL_STATUSTABLEN) /\ k \in Nat
      BY <1>1, Divides
    <3>2. UCHAR_MOD % FL_STATUSTABLEN = 0
      BY BrowserAssumption
    <3> HIDE DEF k
    <3> QED BY <1>1, <1>3, <3>1, <3>2
  <2>3. n + 1 - d = (0 - d) + k * FL_STATUSTABLEN
    <3> HIDE DEF k
    <3> QED BY <1>1, <2>2
  <2>4. 0 - d \in Int
    OBVIOUS
  <2> HIDE DEF k
  <2> QED BY <2>1, <2>2, <2>3, <2>4, RoundTheRing
<1> QED BY <1>1, <1>2, <1>3

\* Pages back from a page some pages back, also past the first one.
LEMMA PagesBackFurther ==
  ASSUME NEW s \in Nat, NEW a \in Nat, NEW b \in Nat
  PROVE  PagesBack(PagesBack(s, a), b) = PagesBack(s, a + b)
<1> DEFINE size == NUMBER_OF_FILE_ON_DISPLAY
           x == a * size
           y == b * size
<1>1. size \in Nat /\ x \in Nat /\ y \in Nat
  BY BrowserAssumption
<1>2. (a + b) * size = x + y
  BY <1>1
<1>3. PagesBack(s, a) = IF x > s THEN 0 ELSE s - x
  BY DEF PagesBack
<1>4. PagesBack(s, a + b) = IF x + y > s THEN 0 ELSE s - (x + y)
  BY <1>2 DEF PagesBack
<1>5. \A c : PagesBack(c, b) = IF y > c THEN 0 ELSE c - y
  BY DEF PagesBack
<1> HIDE DEF x, y, size
<1> QED BY <1>1, <1>3, <1>4, <1>5

\* Seen from the next page, every page is one further back.
LEMMA PagesBackFromNext ==
  ASSUME NEW s \in Nat, NEW d \in Nat \ {0}
  PROVE  PagesBack(s + NUMBER_OF_FILE_ON_DISPLAY, d) = PagesBack(s, d - 1)
<1> DEFINE size == NUMBER_OF_FILE_ON_DISPLAY
           y == (d - 1) * size
<1>1. size \in Nat /\ y \in Nat /\ d * size = y + size
  BY BrowserAssumption
<1>2. PagesBack(s + size, d) = IF y + size > s + size THEN 0 ELSE (s + size) - (y + size)
  BY <1>1 DEF PagesBack
<1>3. PagesBack(s, d - 1) = IF y > s THEN 0 ELSE s - y
  BY DEF PagesBack
<1> HIDE DEF y
<1> QED BY <1>1, <1>2, <1>3

\* The page itself, and what RingWindow says of each entry.
LEMMA WindowEntry ==
  ASSUME RingWindow, pc \in {"read", "key"}, IInv, ahead \in Nat,
         NEW d \in 0 .. FL_STATUSTABLEN - 1, d + ahead < FL_STATUSTABLEN
  PROVE  /\ file_list_status_tab[StatusIndex(page_number - d)].pos = PagesBack(Start, d)
         /\ Start \in Nat
<1>1. Start \in Nat
  BY StatusIndexRange DEF Start, IInv, TypeOK, Status
<1>2. file_list_status_tab[StatusIndex(page_number - d)] =
        [cluster |-> file_list_status.cluster, pos |-> PagesBack(Start, d)]
  BY DEF RingWindow
<1> QED BY <1>1, <1>2

\* A status of the directory on screen is known by its position.
LEMMA StatusIsPosition ==
  ASSUME IInv, NEW n \in Int
  PROVE  /\ file_list_status_tab[StatusIndex(n)] \in Status
         /\ file_list_status_tab[StatusIndex(n)].cluster = file_list_status.cluster
         /\ file_list_status_tab[StatusIndex(n)] =
              [cluster |-> file_list_status.cluster,
               pos |-> file_list_status_tab[StatusIndex(n)].pos]
<1>1. StatusIndex(n) \in 0 .. FL_STATUSTABLEN - 1
  BY StatusIndexRange
<1>2. /\ file_list_status_tab[StatusIndex(n)] \in Status
      /\ file_list_status_tab[StatusIndex(n)].cluster = file_list_status.cluster
  BY <1>1 DEF IInv, TypeOK, PathListed
<1> QED BY <1>2 DEF Status

\* What makes RingWindow inductive: going forwards always leaves an entry of
\* the ring for the page left.
RingIInv ==
  /\ IInv
  /\ RingWindow
  /\ ahead \in 0 .. FL_STATUSTABLEN
  /\ pc = "key" => ahead >= 1

\* Turning m pages back loses m entries of the ring.
LEMMA TurnBackKeepsWindow ==
  ASSUME RingIInv, pc = "key", NEW m \in 0 .. page_number,
         TurnTo(page_number - m), ahead' = AtMost(ahead + m)
  PROVE  /\ RingWindow' /\ ahead' \in 0 .. FL_STATUSTABLEN
         /\ pc' # "key"
<1> DEFINE T == FL_STATUSTABLEN
<1>1. T \in Nat /\ ahead \in Nat /\ ahead <= T /\ page_number \in Nat /\ m \in Nat
  BY BrowserAssumption DEF RingIInv, IInv, TypeOK
<1>2. ahead' \in 0 .. T
  BY <1>1 DEF AtMost
<1>3. ASSUME NEW d \in 0 .. T - 1, d + ahead' < T
      PROVE  file_list_status_tab'[StatusIndex(page_number' - d)] =
               [cluster |-> file_list_status'.cluster,
                pos |-> PagesBack(file_list_status_tab'[StatusIndex(page_number')].pos, d)]
  <2> DEFINE at(k) == file_list_status_tab[StatusIndex(page_number - k)]
  <2>1. /\ ahead' = ahead + m /\ m + d \in 0 .. T - 1 /\ m \in 0 .. T - 1
        /\ (m + d) + ahead < T /\ m + ahead < T /\ d \in Nat
    BY <1>1, <1>3 DEF AtMost
  <2>2. /\ at(m).pos = PagesBack(Start, m)
        /\ at(m + d).pos = PagesBack(Start, m + d)
        /\ Start \in Nat
    <3> HIDE DEF at
    <3> QED BY <1>1, <2>1, WindowEntry DEF RingIInv, at
  <2>3. at(m + d).pos = PagesBack(at(m).pos, d)
    BY <1>1, <2>1, <2>2, PagesBackFurther
  <2>4. at(m) \in Status /\ at(m).cluster = file_list_status.cluster
    <3>1. page_number - m \in Int
      BY <1>1
    <3> QED BY <3>1, StatusIsPosition DEF RingIInv
  <2>5. at(m + d) = [cluster |-> file_list_status.cluster, pos |-> at(m + d).pos]
    <3>1. page_number - (m + d) \in Int
      BY <1>1, <2>1
    <3> QED BY <3>1, StatusIsPosition DEF RingIInv
  <2>6. /\ file_list_status_tab' = file_list_status_tab
        /\ page_number' = page_number - m /\ file_list_status' = at(m)
    BY DEF TurnTo
  <2>7. page_number' - d = page_number - (m + d)
    BY <1>1, <2>1, <2>6
  <2> HIDE DEF at
  <2>8. /\ file_list_status_tab'[StatusIndex(page_number' - d)] = at(m + d)
        /\ file_list_status_tab'[StatusIndex(page_number')] = at(m)
    BY <2>6, <2>7 DEF at
  <2> QED BY <2>3, <2>4, <2>5, <2>6, <2>8
<1> QED BY <1>2, <1>3 DEF RingWindow, Start, StatusIndex, PagesBack, TurnTo

\* Turning to the next page takes the entry it left behind into the window.
LEMMA TurnForwardKeepsWindow ==
  ASSUME RingIInv, pc = "key", ~ last_file,
         TurnTo((page_number + 1) % UCHAR_MOD), ahead' = ahead - 1
  PROVE  /\ RingWindow' /\ ahead' \in 0 .. FL_STATUSTABLEN
         /\ pc' # "key"
<1> DEFINE T == FL_STATUSTABLEN
           size == NUMBER_OF_FILE_ON_DISPLAY
<1>1. /\ T \in Nat /\ ahead \in Nat /\ ahead >= 1 /\ ahead <= T
      /\ page_number \in 0 .. UCHAR_MOD - 1 /\ page_number \in Int
  BY BrowserAssumption DEF RingIInv, IInv, TypeOK
<1>2. /\ file_list_status_tab' = file_list_status_tab
      /\ page_number' = (page_number + 1) % UCHAR_MOD
      /\ file_list_status' = file_list_status
      /\ Start \in Nat
      /\ file_list_status_tab[StatusIndex(page_number')] = file_list_status
      /\ file_list_status.pos = Start + size
  <2>1. numFiles = size
    BY BrowserAssumption DEF RingIInv, IInv, TypeOK, PageLimits
  <2>2. Start \in Nat
    BY <1>1, StatusIndexRange DEF Start, RingIInv, IInv, TypeOK, Status
  <2>3. StatusIndex((page_number + 1) % UCHAR_MOD) = StatusIndex(page_number + 1)
    BY <1>1, WrapKeepsIndex
  <2>4. /\ file_list_status_tab[StatusIndex(page_number + 1)] = file_list_status
        /\ Start + numFiles = file_list_status.pos
    BY DEF RingIInv, IInv, PageAnchored, Start
  <2> QED BY <2>1, <2>2, <2>3, <2>4 DEF TurnTo
<1>3. ASSUME NEW d \in 0 .. T - 1, d + ahead' < T
      PROVE  file_list_status_tab'[StatusIndex(page_number' - d)] =
               [cluster |-> file_list_status'.cluster,
                pos |-> PagesBack(file_list_status_tab'[StatusIndex(page_number')].pos, d)]
  <2> DEFINE entry == file_list_status_tab[StatusIndex(page_number + 1 - d)]
  <2>1. StatusIndex(page_number' - d) = StatusIndex(page_number + 1 - d)
    BY <1>1, <1>2, WrapKeepsWindow
  <2>2. entry = [cluster |-> file_list_status.cluster, pos |-> entry.pos]
    BY <1>1, StatusIsPosition DEF RingIInv
  <2>3. entry.pos = PagesBack(Start + size, d)
    <3>1. CASE d = 0
      <4>1. PagesBack(Start + size, 0) = Start + size
        BY <1>2, BrowserAssumption DEF PagesBack
      <4>2. entry = file_list_status
        BY <1>1, <1>2, <2>1, <3>1, WrapKeepsIndex
      <4> QED BY <1>2, <3>1, <4>1, <4>2
    <3>2. CASE d # 0
      <4>1. /\ d - 1 \in 0 .. T - 1 /\ (d - 1) + ahead < T /\ d \in Nat \ {0}
            /\ page_number + 1 - d = page_number - (d - 1)
        BY <1>1, <1>3, <3>2
      <4>2. entry.pos = PagesBack(Start, d - 1)
        BY <1>1, <4>1, WindowEntry DEF RingIInv
      <4> QED BY <1>2, <4>1, <4>2, PagesBackFromNext
    <3> QED BY <3>1, <3>2
  <2> QED BY <1>2, <2>1, <2>2, <2>3
<1> QED BY <1>1, <1>2, <1>3 DEF RingWindow, Start, StatusIndex, PagesBack, TurnTo

\* Reading the page saves its end in the entry in front of page_number, which
\* is then no longer one that going back can use.
LEMMA ReadPageKeepsWindow ==
  ASSUME RingIInv, ReadPage, ahead' = (IF ahead = 0 THEN 1 ELSE ahead)
  PROVE  RingWindow' /\ ahead' \in 1 .. FL_STATUSTABLEN
<1> DEFINE T == FL_STATUSTABLEN
<1>1. /\ T \in Nat /\ T > 1 /\ ahead \in Nat /\ ahead <= T
      /\ page_number \in Int /\ pc = "read" /\ page_number' = page_number
      /\ file_list_status'.cluster = file_list_status.cluster
  <2>1. file_list_status \in Status
    BY DEF RingIInv, IInv, TypeOK
  <2> QED BY <2>1, BrowserAssumption DEF RingIInv, IInv, TypeOK, ReadPage, Status
<1>2. ahead' \in 1 .. T /\ ahead <= ahead' /\ ahead' \in Nat
  BY <1>1
<1>3. ASSUME NEW d \in 0 .. T - 1, d + ahead' < T
      PROVE  file_list_status_tab'[StatusIndex(page_number - d)] =
             file_list_status_tab[StatusIndex(page_number - d)]
  <2>1. d + 1 \in 1 .. T - 1 /\ (page_number + 1) - (page_number - d) = d + 1
    BY <1>1, <1>2, <1>3
  <2>2. StatusIndex(page_number + 1) # StatusIndex(page_number - d)
    <3>1. page_number + 1 \in Int
      BY <1>1
    <3>2. page_number - d \in Int /\ (page_number + 1) - (page_number - d) \in 1 .. T - 1
      BY <1>1, <2>1
    <3> QED BY <3>1, <3>2, WithinARound
  <2>3. StatusIndex(page_number - d) \in 0 .. T - 1
    BY <1>1, StatusIndexRange
  <2> QED BY <2>2, <2>3 DEF ReadPage, BackupNextPage, RingIInv, IInv, TypeOK
<1>4. ASSUME NEW d \in 0 .. T - 1, d + ahead' < T
      PROVE  file_list_status_tab'[StatusIndex(page_number' - d)] =
               [cluster |-> file_list_status'.cluster,
                pos |-> PagesBack(file_list_status_tab'[StatusIndex(page_number')].pos, d)]
  <2>1. 0 \in 0 .. T - 1 /\ 0 + ahead' < T /\ page_number - 0 = page_number
    BY <1>1, <1>2, <1>4
  <2>2. file_list_status_tab'[StatusIndex(page_number)] =
        file_list_status_tab[StatusIndex(page_number)]
    BY <1>3, <2>1
  <2>3. d + ahead < T
    BY <1>1, <1>2, <1>4
  <2>4. file_list_status_tab[StatusIndex(page_number - d)] =
          [cluster |-> file_list_status.cluster, pos |-> PagesBack(Start, d)]
    BY <1>1, <2>3 DEF RingIInv, RingWindow
  <2> QED BY <1>1, <1>3, <1>4, <2>2, <2>4 DEF Start
<1> QED BY <1>2, <1>4 DEF RingWindow, Start, StatusIndex, PagesBack

\* A ring filled with one status at the start of a listing is right all round.
LEMMA FreshRing ==
  ASSUME NEW n \in Int, NEW d \in 0 .. FL_STATUSTABLEN - 1, NEW path
  PROVE  /\ BackupAll(Opened(path))[StatusIndex(n)] = Opened(path)
         /\ Opened(path) = [cluster |-> Opened(path).cluster,
                            pos |-> PagesBack(Opened(path).pos, d)]
<1>1. d * NUMBER_OF_FILE_ON_DISPLAY \in Nat
  BY BrowserAssumption
<1>2. PagesBack(0, d) = 0
  BY <1>1 DEF PagesBack
<1> QED BY <1>2, StatusIndexRange DEF BackupAll, Opened

\* The ring starts filled with the start of the root directory.
LEMMA RingInitEstablishes ==
  ASSUME RingInit
  PROVE  RingIInv
<1>1. IInv /\ page_number = 0 /\ pc = "read" /\ ahead = 0
  BY InitEstablishesIInv DEF RingInit, Init
<1>2. RingWindow
  BY <1>1, FreshRing DEF RingInit, Init, RingWindow, Start
<1> QED BY <1>1, <1>2, BrowserAssumption DEF RingIInv

\* Every step keeps the window.
LEMMA RingNextKeeps ==
  ASSUME RingIInv, [RingNext]_ringVars
  PROVE  RingIInv'
<1>1. [Next]_vars
  BY DEF RingNext, ringVars, Next
<1>2. IInv'
  BY <1>1, NextKeepsIInv DEF RingIInv
<1>3. /\ FL_STATUSTABLEN \in Nat /\ ahead \in 0 .. FL_STATUSTABLEN
      /\ page_number \in Nat /\ page_number - 0 = page_number
      /\ AtMost(ahead + 0) = ahead /\ page_number - page_number = 0
      /\ pc = "key" => ahead >= 1
  BY BrowserAssumption DEF RingIInv, IInv, TypeOK, AtMost
<1> DEFINE Kept == /\ RingWindow' /\ ahead' \in 0 .. FL_STATUSTABLEN
                   /\ pc' = "key" => ahead' >= 1
<1>4. SUFFICES Kept
  BY <1>2 DEF RingIInv
\* A step that turns no page.
<1>5. ASSUME UNCHANGED << listVars, page_number, ahead >>, pc' = "key" => pc = "key",
             pc' \in {"read", "key"} => pc \in {"read", "key"}
      PROVE  Kept
  BY <1>3, <1>5 DEF RingIInv, RingWindow, Start, StatusIndex, PagesBack, listVars
<1>6. ASSUME SamePage, pc = "key", Turned(ahead - 1) \/ Turned(AtMost(ahead + 1))
                                   \/ UNCHANGED ahead
      PROVE  Kept
  <2>1. ahead' = ahead /\ pc' = "key"
    BY <1>6 DEF SamePage, Turned
  <2> QED BY <1>5, <1>6, <2>1 DEF SamePage
<1>7. CASE ReadPage /\ ahead' = (IF ahead = 0 THEN 1 ELSE ahead)
  BY <1>7, ReadPageKeepsWindow
<1>8. CASE (KeyRight \/ KeyDown) /\ Turned(ahead - 1)
  <2>1. CASE TurnTo((page_number + 1) % UCHAR_MOD) /\ ~ last_file /\ pc = "key"
    <3>1. ahead' = ahead - 1
      BY <1>8, <2>1 DEF TurnTo, Turned
    <3> QED BY <2>1, <3>1, TurnForwardKeepsWindow
  <2>2. CASE SamePage /\ pc = "key"
    BY <1>6, <1>8, <2>2
  <2> QED BY <1>8, <2>1, <2>2 DEF KeyRight, KeyDown
<1>9. CASE (KeyLeft \/ KeyUp) /\ Turned(AtMost(ahead + 1))
  <2>1. CASE TurnTo(page_number - 1) /\ page_number # 0 /\ pc = "key"
    <3>1. ahead' = AtMost(ahead + 1) /\ 1 \in 0 .. page_number
      BY <1>3, <1>9, <2>1 DEF TurnTo, Turned
    <3> QED BY <2>1, <3>1, TurnBackKeepsWindow
  <2>2. CASE SamePage /\ pc = "key"
    BY <1>6, <1>9, <2>2
  <2>3. selectorpos \in Nat
    BY BrowserAssumption DEF RingIInv, IInv, PageLimits, Rows, LastRow
  <2> QED BY <1>9, <2>1, <2>2, <2>3 DEF KeyLeft, KeyUp
<1>10. CASE KeyFirstPage /\ Turned(AtMost(ahead + page_number))
  <2>1. /\ TurnTo(page_number - page_number) /\ pc = "key"
        /\ ahead' = AtMost(ahead + page_number) /\ page_number \in 0 .. page_number
    BY <1>3, <1>10 DEF KeyFirstPage, TurnTo, Turned
  <2> QED BY <2>1, TurnBackKeepsWindow
<1>11. CASE KeyEnterDir /\ Turned(0)
  <2> DEFINE path == PathInto(Selected)
  <2>1. /\ file_list_status' = Opened(path) /\ page_number' = page_number
        /\ file_list_status_tab' = BackupAll(Opened(path))
        /\ pc' = "read" /\ ahead' = 0
    BY <1>11 DEF KeyEnterDir, EnterSubDir, Turned
  <2> HIDE DEF path
  <2>2. ASSUME NEW d \in 0 .. FL_STATUSTABLEN - 1
        PROVE  file_list_status_tab'[StatusIndex(page_number' - d)] =
                 [cluster |-> file_list_status'.cluster,
                  pos |-> PagesBack(file_list_status_tab'[StatusIndex(page_number')].pos, d)]
    <3>1. page_number' \in Int /\ page_number' - d \in Int
      BY <1>3, <2>1
    <3> QED BY <2>1, <3>1, FreshRing
  <2>3. RingWindow'
    BY <2>2 DEF RingWindow, Start, StatusIndex, PagesBack
  <2> QED BY <1>3, <2>1, <2>3
<1>12. CASE (KeyInfoScreen \/ KeyParameters) /\ UNCHANGED ahead
  <2>1. /\ TurnTo(page_number - 0) /\ pc = "key" /\ ahead' = AtMost(ahead + 0)
        /\ 0 \in 0 .. page_number
    BY <1>3, <1>12 DEF KeyInfoScreen, KeyParameters
  <2> QED BY <2>1, TurnBackKeepsWindow
<1>13. CASE /\ \/ KeyInsert \/ KeyInsertNext \/ KeyClear \/ KeyClearNext \/ KeyNextSlot
            /\ UNCHANGED ahead
  <2>1. SamePage /\ pc = "key"
    BY <1>13 DEF KeyInsert, KeyInsertNext, PutSelected, KeyClear, KeyClearNext,
       ClearCurrent, KeyNextSlot
  <2> QED BY <1>6, <1>13, <2>1
<1>14. CASE (KeySave \/ Reboot) /\ UNCHANGED ahead
  BY <1>5, <1>14 DEF KeySave, Reboot
<1>15. CASE UNCHANGED ringVars
  BY <1>5, <1>15 DEF ringVars, vars
<1> QED BY <1>7, <1>8, <1>9, <1>10, <1>11, <1>12, <1>13, <1>14, <1>15 DEF RingNext

\* The entries behind page_number are the preceding pages of the directory on
\* screen, as far as the pages shown since it was entered have not gone round
\* the ring, for every tree, page size and length of the ring.
THEOREM RingIsRight == RingSpec => []RingWindow
<1>1. RingInit => RingIInv
  BY RingInitEstablishes
<1>2. RingIInv /\ [RingNext]_ringVars => RingIInv'
  BY RingNextKeeps
<1>3. RingIInv => RingWindow
  BY DEF RingIInv
<1> QED BY <1>1, <1>2, <1>3, PTL DEF RingSpec

-----------------------------------------------------------------------------
(* The browser as a pager.                                                 *)

\* In a short tree page_number counts the pages from the start of the
\* directory, and the ring still has the start of each.
PagesCounted ==
  /\ page_number + 1 < FL_STATUSTABLEN
  /\ \A k \in 0 .. page_number :
       file_list_status_tab[k].pos = k * NUMBER_OF_FILE_ON_DISPLAY

\* Behind the entries of the page its rows are cleared.
BlankBehind ==
  pc = "key" => \A i \in Rows : i >= numFiles => DirectoryEntry_tab[i] = Blank

PagerInv == IInv /\ PagesCounted /\ BlankBehind

PageStart == file_list_status_tab[StatusIndex(page_number)].pos

\* What the pager needs of the numbers of a short tree.
LEMMA PagesOfTree ==
  ASSUME PagerInv
  PROVE  /\ page_number \in Nat /\ StatusIndex(page_number) = page_number
         /\ StatusIndex(page_number + 1) = page_number + 1
         /\ (page_number + 1) % UCHAR_MOD = page_number + 1
         /\ PageStart = page_number * NUMBER_OF_FILE_ON_DISPLAY
         /\ PageStart \in Nat
         /\ file_list_status.cluster \in Dirs \cup {Invalid}
<1> DEFINE T == FL_STATUSTABLEN
<1>1. /\ T \in Nat \ {0} /\ UCHAR_MOD \in Nat \ {0} /\ page_number \in Nat
      /\ page_number + 1 < T /\ NUMBER_OF_FILE_ON_DISPLAY \in Nat
  BY BrowserAssumption DEF PagerInv, PagesCounted, IInv, TypeOK
<1>2. T <= UCHAR_MOD
  <2>1. UCHAR_MOD % T = 0 /\ (UCHAR_MOD < T => UCHAR_MOD % T = UCHAR_MOD)
    BY <1>1, BrowserAssumption, SmallRest
  <2> QED BY <1>1, <2>1
<1>3. /\ page_number % T = page_number /\ (page_number + 1) % T = page_number + 1
      /\ (page_number + 1) % UCHAR_MOD = page_number + 1
  BY <1>1, <1>2, SmallRest
<1>4. page_number * NUMBER_OF_FILE_ON_DISPLAY \in Nat
  BY <1>1
<1>5. PageStart = page_number * NUMBER_OF_FILE_ON_DISPLAY
  BY <1>1, <1>3 DEF PageStart, PagerInv, PagesCounted, StatusIndex
<1>6. file_list_status.cluster \in Dirs \cup {Invalid}
  BY DEF PagerInv, IInv, TypeOK, Status
<1> QED BY <1>1, <1>3, <1>4, <1>5, <1>6 DEF StatusIndex

\* A page that ends in front of the end of its directory is not the last one
\* the ring has room for.
LEMMA NextPageInRing ==
  ASSUME PagerInv, ShortTree, NEW d \in Dirs,
         (page_number + 1) * NUMBER_OF_FILE_ON_DISPLAY <= Len(Listing[d])
  PROVE  page_number + 2 < FL_STATUSTABLEN
<1> DEFINE size == NUMBER_OF_FILE_ON_DISPLAY
           n == page_number + 1
           m == FL_STATUSTABLEN - 1
<1>1. /\ size \in Nat /\ size > 1 /\ FL_STATUSTABLEN \in Nat
      /\ page_number \in Nat /\ Len(Listing[d]) \in Nat
  BY PagesOfTree, BrowserAssumption, TreeAssumption
<1>2. Len(Listing[d]) < m * size /\ n * size <= Len(Listing[d]) /\ n \in Int /\ m \in Int
  BY <1>1 DEF ShortTree
<1>3. n * size < m * size
  <2>1. n * size \in Int /\ m * size \in Int
    BY <1>1, <1>2
  <2> HIDE DEF n, m, size
  <2> QED BY <1>1, <1>2, <2>1
<1>4. n < m
  <2> HIDE DEF n, m, size
  <2>1. SUFFICES ASSUME n >= m PROVE FALSE
    BY <1>2
  <2>2. (n - m) * size >= 0 /\ (n - m) * size = n * size - m * size
    BY <1>1, <1>2, <2>1
  <2>3. n * size \in Int /\ m * size \in Int
    BY <1>1, <1>2
  <2> QED BY <1>3, <2>2, <2>3
<1> QED BY <1>1, <1>4

\* Restoring the status of a page that the ring has.
LEMMA TurnToCounted ==
  ASSUME PagerInv, NEW n \in Nat, TurnTo(n), n <= page_number
  PROVE  PagesCounted' /\ BlankBehind'
<1>1. /\ page_number' = n /\ file_list_status_tab' = file_list_status_tab /\ pc' = "read"
  BY DEF TurnTo
<1>2. page_number \in Nat /\ FL_STATUSTABLEN \in Nat
  BY PagesOfTree, BrowserAssumption
<1> QED BY <1>1, <1>2 DEF PagerInv, PagesCounted, BlankBehind

\* Turning back shows the start of the page with that number, of the same
\* directory.
LEMMA TurnBackShows ==
  ASSUME PagerInv, NEW n \in Nat, TurnTo(n), n <= page_number
  PROVE  /\ PageStart' = n * NUMBER_OF_FILE_ON_DISPLAY
         /\ file_list_status'.cluster = file_list_status.cluster
<1>1. /\ page_number \in Nat /\ FL_STATUSTABLEN \in Nat \ {0}
      /\ page_number + 1 < FL_STATUSTABLEN
  BY PagesOfTree, BrowserAssumption DEF PagerInv, PagesCounted
<1>2. n % FL_STATUSTABLEN = n /\ n \in 0 .. FL_STATUSTABLEN - 1 /\ n \in 0 .. page_number
  BY <1>1, SmallRest
<1>3. /\ page_number' = n /\ file_list_status_tab' = file_list_status_tab
      /\ file_list_status' = file_list_status_tab[n]
  BY <1>2 DEF TurnTo, StatusIndex
<1>4. PageStart' = file_list_status_tab[n].pos
  BY <1>2, <1>3 DEF PageStart, StatusIndex
<1> QED BY <1>2, <1>3, <1>4 DEF PagerInv, PagesCounted, IInv, PathListed

\* Turning forwards shows what is behind a full page.
LEMMA TurnForwardShows ==
  ASSUME PagerInv, ShortTree, pc = "key", ~ last_file,
         TurnTo((page_number + 1) % UCHAR_MOD)
  PROVE  /\ PagesCounted' /\ BlankBehind' /\ P!Forward
<1> DEFINE size == NUMBER_OF_FILE_ON_DISPLAY
           d == file_list_status.cluster
<1>1. /\ page_number \in Nat /\ size \in Nat /\ PageStart = page_number * size
      /\ PageStart \in Nat /\ FL_STATUSTABLEN \in Nat \ {0}
      /\ d \in Dirs \cup {Invalid} /\ Items(d) \in Seq(Entry)
  BY PagesOfTree, BrowserAssumption, ItemsType
<1>2. /\ page_number' = page_number + 1 /\ pc' = "read"
      /\ file_list_status_tab' = file_list_status_tab
      /\ file_list_status' = file_list_status
      /\ file_list_status_tab[page_number + 1] = file_list_status
      /\ file_list_status.pos = PageStart + size
  <2>1. numFiles = size
    BY BrowserAssumption DEF PagerInv, IInv, TypeOK, PageLimits
  <2>2. /\ file_list_status_tab[StatusIndex(page_number + 1)] = file_list_status
        /\ PageStart + numFiles = file_list_status.pos
    BY DEF PagerInv, IInv, PageAnchored, PageStart
  <2> QED BY <2>1, <2>2, PagesOfTree DEF TurnTo
<1>3. PageStart + size <= Len(Items(d))
  BY <1>2 DEF PagerInv, IInv, StatusesInListing
<1>4. d \in Dirs
  <2>1. size > 1
    BY BrowserAssumption
  <2>2. CASE d \notin Dirs
    BY <1>1, <1>3, <2>1, <2>2 DEF Items
  <2> QED BY <2>2
<1>5. (page_number + 1) * size = PageStart + size
  BY <1>1
<1>6. page_number' + 1 < FL_STATUSTABLEN
  <2>1. page_number + 2 < FL_STATUSTABLEN
    BY <1>3, <1>4, <1>5, NextPageInRing DEF Items
  <2> QED BY <1>1, <1>2, <2>1
<1>7. ASSUME NEW k \in 0 .. page_number'
      PROVE  file_list_status_tab'[k].pos = k * size
  <2>1. CASE k <= page_number
    BY <1>1, <1>2, <2>1 DEF PagerInv, PagesCounted
  <2>2. CASE k = page_number + 1
    BY <1>2, <1>5, <2>2
  <2> QED BY <1>1, <1>2, <2>1, <2>2
<1>8. PageStart' = PageStart + size
  <2>1. (page_number + 1) % FL_STATUSTABLEN = page_number + 1
    BY PagesOfTree DEF StatusIndex
  <2> QED BY <1>2, <2>1 DEF PageStart, StatusIndex
<1>9. P!Forward
  BY <1>2, <1>3, <1>4, <1>8 DEF P!Forward, PageStart
<1> QED BY <1>2, <1>6, <1>7, <1>9 DEF PagesCounted, BlankBehind

\* A sub-directory that can be selected is on the first page.
LEMMA EnteredFromFront ==
  ASSUME PagerInv, ShortTree, pc = "key", Selected.is_dir
  PROVE  page_number = 0
<1> DEFINE size == NUMBER_OF_FILE_ON_DISPLAY
           d == file_list_status.cluster
           i == PageStart + selectorpos + 1
<1>1. /\ page_number \in Nat /\ size \in Nat /\ size > 1
      /\ PageStart = page_number * size /\ PageStart \in Nat
      /\ selectorpos \in Rows /\ numFiles \in Nat /\ selectorpos \in Nat
  BY PagesOfTree, BrowserAssumption DEF PagerInv, IInv, TypeOK, PageLimits, Rows, LastRow
<1>2. selectorpos < numFiles
  <2>1. CASE selectorpos >= numFiles
    <3>1. Selected = Blank
      BY <1>1, <2>1 DEF PagerInv, BlankBehind, Selected
    <3> QED BY <3>1 DEF Blank
  <2> QED BY <1>1, <2>1
<1>3. /\ Selected = Items(d)[i] /\ PageStart + numFiles <= Len(Items(d))
  <2>1. /\ file_list_status_tab[StatusIndex(page_number)].cluster = d
        /\ PageStart + numFiles = file_list_status.pos
        /\ selectorpos \in 0 .. numFiles - 1
    BY <1>1, <1>2 DEF PagerInv, IInv, PageAnchored, PageStart
  <2> QED BY <2>1 DEF PagerInv, IInv, PageAnchored, StatusesInListing, Selected, PageStart
<1>4. d \in Dirs /\ i \in DOMAIN Items(d)
  <2>1. Items(d) \in Seq(Entry)
    BY ItemsType
  <2>2. i \in 1 .. Len(Items(d))
    BY <1>1, <1>2, <1>3, <2>1
  <2>3. CASE d \notin Dirs
    BY <2>2, <2>3 DEF Items
  <2> QED BY <2>1, <2>2, <2>3
<1>5. i <= size
  BY <1>3, <1>4 DEF ShortTree, Items
<1>6. page_number * size < size
  BY <1>1, <1>5
<1>7. CASE page_number >= 1
  <2>1. page_number * size >= size
    BY <1>1, <1>7, ProductGrows
  <2>2. page_number * size \in Int
    BY <1>1
  <2> QED BY <1>1, <1>6, <2>1, <2>2
<1> QED BY <1>1, <1>7

LEMMA ReadPageCounted ==
  ASSUME PagerInv, ReadPage
  PROVE  /\ PagesCounted' /\ BlankBehind'
         /\ PageStart' = PageStart
         /\ file_list_status'.cluster = file_list_status.cluster
<1>1. /\ page_number' = page_number /\ page_number \in Nat
      /\ file_list_status_tab' = [file_list_status_tab EXCEPT
                                    ![page_number + 1] = file_list_status']
      /\ file_list_status'.cluster = file_list_status.cluster
      /\ StatusIndex(page_number) = page_number
  <2>1. file_list_status \in Status
    BY DEF PagerInv, IInv, TypeOK
  <2> QED BY <2>1, PagesOfTree DEF ReadPage, BackupNextPage, Status
<1>2. \A k \in 0 .. page_number : file_list_status_tab'[k] = file_list_status_tab[k]
  BY <1>1, BrowserAssumption DEF PagerInv, PagesCounted, IInv, TypeOK
<1>3. PageStart' = PageStart
  <2>1. page_number % FL_STATUSTABLEN = page_number /\ page_number \in 0 .. page_number
    BY <1>1 DEF StatusIndex
  <2> QED BY <1>1, <1>2, <2>1 DEF PageStart, StatusIndex
<1>4. BlankBehind'
  <2>1. ASSUME NEW i \in Rows, i >= numFiles'
        PROVE  DirectoryEntry_tab'[i] = Blank
    <3> DEFINE from == file_list_status.pos
               dir  == file_list_status.cluster
               left == Len(Items(dir)) - from
               n    == IF left < NUMBER_OF_FILE_ON_DISPLAY THEN left
                       ELSE NUMBER_OF_FILE_ON_DISPLAY
    <3>1. /\ numFiles' = n
          /\ DirectoryEntry_tab' =
               [k \in Rows |-> IF k < n THEN Items(dir)[from + k + 1] ELSE Blank]
      BY DEF ReadPage
    <3>2. i \in Int /\ n \in Int
      <4>1. file_list_status.pos \in Nat
        BY DEF PagerInv, IInv, TypeOK, Status
      <4>2. Items(dir) \in Seq(Entry)
        BY ItemsType
      <4> QED BY <4>1, <4>2, BrowserAssumption DEF Rows, LastRow
    <3> HIDE DEF n, from, dir
    <3> QED BY <2>1, <3>1, <3>2
  <2> QED BY <2>1 DEF BlankBehind
<1> QED BY <1>1, <1>2, <1>3, <1>4 DEF PagerInv, PagesCounted

\* The path "/" has no levels to walk: it leads to the root.
LEMMA RootOpens ==
  OpenDirectory(<< Slash >>) = Root
<1> DEFINE path == << Slash >>
           step(before, level) ==
             IF level = 0 THEN Root ELSE SubDir(before[level - 1], GetSubstring(path, level - 1))
           only == [level \in 0 .. 0 |-> Root]
           before == CHOOSE f : f = [level \in 0 .. 0 |-> step(f, level)]
<1>1. TotalPathLevels(path) + 1 = 0
  <2>1. {i \in 2 .. Len(path) : path[i] = Slash \/ i = Len(path)} = {}
    OBVIOUS
  <2>2. Cardinality({}) = 0
    BY FS_EmptySet
  <2> QED BY <2>1, <2>2 DEF TotalPathLevels
<1>2. only = [level \in 0 .. 0 |-> step(only, level)]
  OBVIOUS
<1>3. before = [level \in 0 .. 0 |-> step(before, level)]
  <2> HIDE DEF step, only
  <2> QED BY <1>2
<1>4. before[0] = Root
  BY <1>3
<1>5. Walk(path) = before[0]
  BY <1>1 DEF Walk
<1> QED BY <1>4, <1>5, TreeAssumption DEF OpenDirectory

\* Every key turns a page, enters a directory, or shows the same page.
LEMMA PagerNext ==
  ASSUME PagerInv, ShortTree, [Next]_vars
  PROVE  /\ PagerInv'
         /\ [P!Next]_<< file_list_status.cluster, PageStart >>
<1> DEFINE Shown == << file_list_status.cluster, PageStart >>
           Kept == PagesCounted' /\ BlankBehind' /\ [P!Next]_Shown
<1>1. IInv'
  BY NextKeepsIInv DEF PagerInv
<1>2. SUFFICES Kept
  BY <1>1 DEF PagerInv
<1>3. /\ page_number \in Nat /\ PageStart = page_number * NUMBER_OF_FILE_ON_DISPLAY
      /\ PageStart \in Nat /\ NUMBER_OF_FILE_ON_DISPLAY \in Nat
  BY PagesOfTree, BrowserAssumption
<1>4. ASSUME SamePage, pc = "key"
      PROVE  Kept
  <2>1. PagesCounted' /\ BlankBehind' /\ PageStart' = PageStart
        /\ file_list_status' = file_list_status
    BY <1>4 DEF SamePage, listVars, pageVars, PagerInv, PagesCounted, BlankBehind,
       PageStart, StatusIndex
  <2> QED BY <2>1
<1>5. CASE ReadPage
  BY <1>5, ReadPageCounted
<1>6. CASE KeyRight \/ KeyDown
  <2>1. CASE TurnTo((page_number + 1) % UCHAR_MOD) /\ ~ last_file /\ pc = "key"
    BY <2>1, TurnForwardShows DEF P!Next
  <2>2. CASE SamePage /\ pc = "key"
    BY <1>4, <2>2
  <2> QED BY <1>6, <2>1, <2>2 DEF KeyRight, KeyDown
<1>7. CASE KeyLeft \/ KeyUp
  <2>1. CASE TurnTo(page_number - 1) /\ page_number # 0
    <3>1. page_number - 1 \in Nat /\ page_number - 1 <= page_number
      BY <1>3, <2>1
    <3>2. /\ PageStart' = (page_number - 1) * NUMBER_OF_FILE_ON_DISPLAY
          /\ file_list_status'.cluster = file_list_status.cluster
      BY <2>1, <3>1, TurnBackShows
    <3>3. PageStart' = PageStart - NUMBER_OF_FILE_ON_DISPLAY /\ PageStart' \in Nat
      BY <1>3, <3>1, <3>2
    <3>4. P!Back
      BY <1>3, <3>2, <3>3 DEF P!Back, PageStart
    <3>5. PagesCounted' /\ BlankBehind'
      BY <2>1, <3>1, TurnToCounted
    <3> QED BY <3>4, <3>5 DEF P!Next
  <2>2. CASE SamePage /\ pc = "key"
    BY <1>4, <2>2
  <2>3. selectorpos \in Nat
    BY BrowserAssumption DEF PagerInv, IInv, PageLimits, Rows, LastRow
  <2> QED BY <1>7, <2>1, <2>2, <2>3 DEF KeyLeft, KeyUp
<1>8. CASE KeyFirstPage
  <2>1. TurnTo(0) /\ 0 \in Nat /\ 0 <= page_number
    BY <1>3, <1>8 DEF KeyFirstPage
  <2>2. /\ PageStart' = 0 * NUMBER_OF_FILE_ON_DISPLAY
        /\ file_list_status'.cluster = file_list_status.cluster
    BY <2>1, TurnBackShows
  <2>3. P!FirstPage
    BY <1>3, <2>2 DEF P!FirstPage, PageStart
  <2> QED BY <2>1, <2>3, TurnToCounted DEF P!Next
<1>9. CASE KeyInfoScreen \/ KeyParameters
  <2>1. TurnTo(page_number) /\ page_number <= page_number
    BY <1>3, <1>9 DEF KeyInfoScreen, KeyParameters
  <2> QED BY <1>3, <2>1, TurnToCounted, TurnBackShows
<1>10. CASE KeyEnterDir
  <2>1. page_number = 0 /\ page_number' = 0 /\ pc' = "read"
    BY <1>10, EnteredFromFront DEF KeyEnterDir, EnterSubDir
  <2>2. PICK path : /\ file_list_status' = Opened(path)
                    /\ file_list_status_tab' = BackupAll(Opened(path))
    BY <1>10 DEF KeyEnterDir, EnterSubDir
  <2>3. /\ StatusIndex(0) = 0 /\ 0 \in 0 .. FL_STATUSTABLEN - 1
    BY <2>1, PagesOfTree, BrowserAssumption
  <2>4. file_list_status_tab'[0].pos = 0
    BY <2>2, <2>3 DEF BackupAll, Opened
  <2>5. PagesCounted' /\ BlankBehind'
    BY <1>3, <2>1, <2>4 DEF PagerInv, PagesCounted, BlankBehind
  <2>6. P!Enter
    <3>1. file_list_status'.cluster \in Dirs \cup {Invalid}
      BY <1>1 DEF IInv, TypeOK, Status
    <3>2. 0 % FL_STATUSTABLEN = 0
      BY <2>3 DEF StatusIndex
    <3> QED BY <2>1, <2>4, <3>1, <3>2 DEF P!Enter, StatusIndex
  <2> QED BY <2>5, <2>6 DEF P!Next
<1>11. CASE KeyInsert \/ KeyInsertNext \/ KeyClear \/ KeyClearNext \/ KeyNextSlot
  <2>1. SamePage /\ pc = "key"
    BY <1>11 DEF KeyInsert, KeyInsertNext, PutSelected, KeyClear, KeyClearNext,
       ClearCurrent, KeyNextSlot
  <2> QED BY <1>4, <2>1
<1>12. CASE KeySave \/ Reboot \/ UNCHANGED vars
  <2>1. /\ UNCHANGED << listVars, page_number, pageVars >>
        /\ pc' = "key" => pc = "key"
    BY <1>12 DEF KeySave, Reboot, vars
  <2>2. PagesCounted' /\ BlankBehind' /\ PageStart' = PageStart
        /\ file_list_status' = file_list_status
    BY <2>1 DEF listVars, pageVars, PagerInv, PagesCounted, BlankBehind, PageStart, StatusIndex
  <2> QED BY <2>2
<1> QED BY <1>5, <1>6, <1>7, <1>8, <1>9, <1>10, <1>11, <1>12 DEF Next

\* Where no directory has more pages than the ring has room for and
\* sub-directories stand on first pages, the browser is the pager: what the
\* user sees does not depend on the ring, for every such tree, page size and
\* length of the ring.
THEOREM BrowserIsPager == ShortTree => (Spec => ImplementsPager)
<1> SUFFICES ASSUME ShortTree PROVE Spec => ImplementsPager
  OBVIOUS
<1>1. Init => PagerInv /\ P!Init
  <2> SUFFICES ASSUME Init PROVE PagerInv /\ P!Init
    OBVIOUS
  <2>1. IInv /\ page_number = 0 /\ pc = "read"
    BY InitEstablishesIInv DEF Init
  <2>2. FL_STATUSTABLEN \in Nat /\ FL_STATUSTABLEN > 1 /\ 0 % FL_STATUSTABLEN = 0
    BY BrowserAssumption
  <2>3. file_list_status_tab[0].pos = 0
    BY <2>2 DEF Init, BackupAll, Opened
  <2>4. PagerInv
    BY <2>1, <2>2, <2>3, BrowserAssumption DEF PagerInv, PagesCounted, BlankBehind
  <2>5. OpenDirectory(<< Slash >>) = Root
    BY RootOpens
  <2> QED BY <2>1, <2>2, <2>3, <2>4, <2>5 DEF P!Init, Init, Opened, StatusIndex
<1>2. PagerInv /\ [Next]_vars =>
        PagerInv' /\ [P!Next]_<< file_list_status.cluster,
                                 file_list_status_tab[StatusIndex(page_number)].pos >>
  BY PagerNext DEF PageStart
<1> QED BY <1>1, <1>2, PTL DEF Spec, ImplementsPager, P!Spec

=============================================================================
