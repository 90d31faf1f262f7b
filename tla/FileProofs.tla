----------------------------- MODULE FileProofs -----------------------------
(***************************************************************************)
(* The files of the card.  CfgFile, for every number of slots and of       *)
(* records in a sector: a load reads what the header counts, a save stores *)
(* the images, and one that is interrupted leaves every slot old or new.   *)
(* FileLib: fl_fread delivers the bytes of the file, for every file, every *)
(* chain of clusters, every size of sectors and clusters and any sequence  *)
(* of calls.                                                               *)
(***************************************************************************)
EXTENDS CfgFile, FileLib, FiniteSetTheorems, Numbers

-----------------------------------------------------------------------------
(* Counting and moving up the images.                                      *)

LEMMA CountFinite ==
  ASSUME NEW slots, NEW s \in Nat
  PROVE  IsFiniteSet({t \in 1 .. s : HasSize(slots[t])})
<1>1. IsFiniteSet(1 .. s)
  BY FS_Interval
<1> QED BY <1>1, FS_Subset

LEMMA CountIsNumber ==
  ASSUME NEW slots, NEW s \in Nat
  PROVE  ImagesUpTo(slots, s) \in Nat /\ ImagesUpTo(slots, s) <= s
<1> DEFINE S == {t \in 1 .. s : HasSize(slots[t])}
<1>1. IsFiniteSet(1 .. s) /\ Cardinality(1 .. s) = s
  BY FS_Interval
<1>2. S \subseteq 1 .. s /\ IsFiniteSet(S)
  BY CountFinite
<1> HIDE DEF S
<1>3. Cardinality(S) <= s
  BY <1>1, <1>2, FS_Subset
<1>4. Cardinality(S) \in Nat
  BY <1>2, FS_CardinalityType
<1> QED BY <1>3, <1>4 DEF ImagesUpTo, S

\* Every slot adds itself to the count or nothing.
LEMMA CountNext ==
  ASSUME NEW slots, NEW s \in Nat \ {0}
  PROVE  ImagesUpTo(slots, s) = IF HasSize(slots[s]) THEN ImagesUpTo(slots, s - 1) + 1
                                ELSE ImagesUpTo(slots, s - 1)
<1> DEFINE S == {t \in 1 .. s : HasSize(slots[t])}
           R == {t \in 1 .. s - 1 : HasSize(slots[t])}
<1>1. IsFiniteSet(R)
  <2>1. s - 1 \in Nat
    OBVIOUS
  <2> QED BY <2>1, CountFinite
<1>2. CASE HasSize(slots[s])
  <2>1. S = R \cup {s} /\ s \notin R
    BY <1>2
  <2>2. Cardinality(S) = Cardinality(R) + 1
    BY <1>1, <2>1, FS_AddElement
  <2> QED BY <1>2, <2>2 DEF ImagesUpTo
<1>3. CASE ~ HasSize(slots[s])
  <2>1. S = R
    BY <1>3
  <2> QED BY <1>3, <2>1 DEF ImagesUpTo
<1> QED BY <1>2, <1>3

LEMMA CountMonotone ==
  ASSUME NEW slots, NEW s \in Nat, NEW u \in Nat, s <= u
  PROVE  ImagesUpTo(slots, s) <= ImagesUpTo(slots, u)
<1> DEFINE S == {t \in 1 .. s : HasSize(slots[t])}
           U == {t \in 1 .. u : HasSize(slots[t])}
<1>1. S \subseteq U /\ IsFiniteSet(U)
  BY CountFinite
<1>2. Cardinality(S) <= Cardinality(U)
  BY <1>1, FS_Subset
<1> QED BY <1>2 DEF ImagesUpTo

LEMMA SlotsAreNumbers == NUMBER_OF_SLOT \in Nat /\ Slots \subseteq Nat \ {0} /\ 1 \in Slots
BY CfgAssumption DEF Slots

\* No two images are moved to the same slot.
LEMMA MovedApart ==
  ASSUME NEW slots, NEW t \in Nat \ {0}, NEW u \in Nat \ {0},
         HasSize(slots[t]), HasSize(slots[u]),
         ImagesUpTo(slots, t) = ImagesUpTo(slots, u)
  PROVE  t = u
<1>1. ASSUME NEW v \in Nat \ {0}, NEW w \in Nat \ {0}, v < w, HasSize(slots[w])
      PROVE  ImagesUpTo(slots, v) < ImagesUpTo(slots, w)
  <2>1. ImagesUpTo(slots, v) <= ImagesUpTo(slots, w - 1)
    BY <1>1, CountMonotone
  <2>2. ImagesUpTo(slots, w) = ImagesUpTo(slots, w - 1) + 1
    BY <1>1, CountNext
  <2>3. ImagesUpTo(slots, w - 1) \in Nat /\ ImagesUpTo(slots, v) \in Nat
    <3>1. w - 1 \in Nat /\ v \in Nat
      OBVIOUS
    <3> QED BY <3>1, CountIsNumber
  <2> QED BY <2>1, <2>2, <2>3
<1>2. ImagesUpTo(slots, t) \in Nat
  BY CountIsNumber
<1>3. ~ (t < u) /\ ~ (u < t)
  <2>1. t < u => ImagesUpTo(slots, t) < ImagesUpTo(slots, u)
    BY <1>1
  <2>2. u < t => ImagesUpTo(slots, u) < ImagesUpTo(slots, t)
    BY <1>1
  <2> QED BY <1>2, <2>1, <2>2
<1> QED BY <1>3

LEMMA CompactIs ==
  ASSUME NEW slots, NEW t \in Slots, HasSize(slots[t]), ImagesUpTo(slots, t) \in Slots
  PROVE  Compact(slots)[ImagesUpTo(slots, t)] = slots[t]
<1> DEFINE s == ImagesUpTo(slots, t)
           P(u) == HasSize(slots[u]) /\ ImagesUpTo(slots, u) = s
<1>1. ASSUME NEW u \in Slots, P(u) PROVE u = t
  <2>1. u \in Nat \ {0} /\ t \in Nat \ {0}
    BY SlotsAreNumbers
  <2> QED BY <1>1, <2>1, MovedApart
<1>2. P(t)
  OBVIOUS
<1>3. (CHOOSE u \in Slots : P(u)) = t
  BY <1>1, <1>2
<1> QED BY <1>2, <1>3 DEF Compact

LEMMA CompactBlank ==
  ASSUME NEW slots, NEW s \in Slots, s > ImagesUpTo(slots, NUMBER_OF_SLOT - 1)
  PROVE  Compact(slots)[s] = Blank
<1>1. ASSUME NEW t \in Slots PROVE ImagesUpTo(slots, t) # s
  <2>1. t \in Nat /\ NUMBER_OF_SLOT - 1 \in Nat /\ t <= NUMBER_OF_SLOT - 1 /\ s \in Nat
    BY CfgAssumption DEF Slots
  <2>2. ImagesUpTo(slots, t) <= ImagesUpTo(slots, NUMBER_OF_SLOT - 1)
    BY <2>1, CountMonotone
  <2>3. ImagesUpTo(slots, t) \in Nat /\ ImagesUpTo(slots, NUMBER_OF_SLOT - 1) \in Nat
    BY <2>1, CountIsNumber
  <2> QED BY <2>1, <2>2, <2>3
<1> QED BY <1>1 DEF Compact

LEMMA CompactTyped ==
  ASSUME NEW slots \in [Slots -> Content] PROVE Compact(slots) \in [Slots -> Content]
<1>1. ASSUME NEW s \in Slots PROVE Compact(slots)[s] \in Content
  <2> DEFINE P(u) == HasSize(slots[u]) /\ ImagesUpTo(slots, u) = s
  <2>1. CASE \E t \in Slots : P(t)
    <3>1. (CHOOSE u \in Slots : P(u)) \in Slots
      BY <2>1
    <3> QED BY <2>1, <3>1 DEF Compact
  <2>2. CASE ~ \E t \in Slots : P(t)
    BY <2>2 DEF Compact, Content
  <2> QED BY <2>1, <2>2
<1>2. Compact(slots) = [s \in Slots |-> Compact(slots)[s]]
  BY DEF Compact
<1> QED BY <1>1, <1>2

-----------------------------------------------------------------------------
(* Sectors and places of records.                                          *)

LEMMA Places0 == PerSector \in Nat \ {0, 1} /\ 0 \in Places /\ 1 \in Places
BY CfgAssumption DEF Places

LEMMA PlaceOf ==
  ASSUME NEW s \in Nat
  PROVE  /\ s \div PerSector \in Nat /\ s % PerSector \in Places
         /\ s = (s \div PerSector) * PerSector + (s % PerSector)
BY Places0, Divides DEF Places

LEMMA SectorsGrow ==
  ASSUME NEW s \in Nat, NEW n \in Nat, s <= n
  PROVE  s \div PerSector <= n \div PerSector
BY Places0, QuotientsInOrder

\* The sectors hold all the slots.
LEMMA PlaceOfSlot ==
  ASSUME NEW s \in 0 .. NUMBER_OF_SLOT - 1
  PROVE  2 + s \div PerSector \in Sectors /\ s % PerSector \in Places
<1>1. NUMBER_OF_SLOT - 1 \in Nat /\ s \in Nat /\ s <= NUMBER_OF_SLOT - 1
  BY CfgAssumption
<1>2. /\ s \div PerSector \in Nat /\ (NUMBER_OF_SLOT - 1) \div PerSector \in Nat
      /\ s % PerSector \in Places
      /\ s \div PerSector <= (NUMBER_OF_SLOT - 1) \div PerSector
  BY <1>1, PlaceOf, SectorsGrow
<1> QED BY <1>2 DEF Sectors

LEMMA SamePlace ==
  ASSUME NEW s \in Nat, NEW n \in Nat,
         s \div PerSector = n \div PerSector, s % PerSector = n % PerSector
  PROVE  s = n
<1>1. /\ s = (s \div PerSector) * PerSector + (s % PerSector)
      /\ n = (n \div PerSector) * PerSector + (n % PerSector)
  BY PlaceOf
<1> QED BY <1>1

\* The place behind a record's is in the same sector, or the first of the next.
LEMMA NextRecord ==
  ASSUME NEW n \in Nat
  PROVE  /\ (n + 1) % PerSector = ((n % PerSector) + 1) % PerSector
         /\ IF (n + 1) % PerSector = 0
            THEN /\ (n + 1) \div PerSector = (n \div PerSector) + 1
                 /\ \A s \in Nat : s \div PerSector = n \div PerSector => s <= n
            ELSE /\ (n + 1) \div PerSector = n \div PerSector
                 /\ (n + 1) % PerSector = (n % PerSector) + 1
<1> DEFINE q == n \div PerSector
           r == n % PerSector
           P == PerSector
<1>1. q \in Nat /\ r \in 0 .. P - 1 /\ n = q * P + r /\ P \in Nat \ {0, 1}
  BY PlaceOf, Places0 DEF Places
<1>2. CASE r < P - 1
  <2>1. n + 1 = q * P + (r + 1) /\ r + 1 \in 0 .. P - 1 /\ n + 1 \in Nat
    BY <1>1, <1>2
  <2>2. (n + 1) \div P = q /\ (n + 1) % P = r + 1
    <3> DEFINE a == n + 1
               t == r + 1
    <3>1. a \in Nat /\ t \in 0 .. P - 1 /\ a = q * P + t
      BY <2>1
    <3> HIDE DEF a, t, q, r
    <3>2. a \div P = q /\ a % P = t
      BY <1>1, <3>1, DividedIs
    <3> QED BY <3>2 DEF a, t
  <2>3. (r + 1) % P = r + 1
    BY <1>1, <1>2, SmallRest
  <2>4. r + 1 # 0
    BY <1>1
  <2> QED BY <2>2, <2>3, <2>4
<1>3. CASE r = P - 1
  <2>1. n + 1 = (q + 1) * P + 0
    BY <1>1, <1>3
  <2>2. (n + 1) \div P = q + 1 /\ (n + 1) % P = 0
    <3> DEFINE a == n + 1
               t == q + 1
    <3>1. a \in Nat /\ t \in Nat /\ a = t * P + 0 /\ 0 \in 0 .. P - 1
      BY <1>1, <2>1
    <3> HIDE DEF a, t, q, r
    <3>2. a \div P = t /\ a % P = 0
      BY <1>1, <3>1, DividedIs
    <3> QED BY <3>2 DEF a, t
  <2>3. (r + 1) % P = 0
    <3>1. r + 1 = 1 * P + 0 /\ r + 1 \in Nat /\ 0 \in 0 .. P - 1
      BY <1>1, <1>3
    <3> DEFINE t == r + 1
    <3>2. t \in Nat /\ t = 1 * P + 0
      BY <3>1
    <3> HIDE DEF t, r
    <3>3. t % P = 0
      BY <1>1, <3>1, <3>2, DividedIs
    <3> QED BY <3>3 DEF t
  <2>4. ASSUME NEW s \in Nat, s \div P = q PROVE s <= n
    <3> DEFINE t == s % P
    <3>1. s = q * P + t /\ t \in 0 .. P - 1
      BY <2>4, PlaceOf DEF Places
    <3> HIDE DEF t, q, r
    <3>2. q * P \in Nat
      BY <1>1
    <3> QED BY <1>1, <1>3, <3>1, <3>2
  <2> QED BY <2>2, <2>3, <2>4
<1> QED BY <1>1, <1>2, <1>3

\* What the header and the sectors make of a slot.
LEMMA CardSlotIs ==
  ASSUME NEW s \in Slots
  PROVE  CardSlots[s] = IF s < header.number_of_slot \/ s = 1
                        THEN sectors[2 + s \div PerSector][s % PerSector] ELSE Blank
BY DEF CardSlots, Loaded

LEMMA CardSlotsTyped ==
  ASSUME sectors \in [Sectors -> [Places -> Content]]
  PROVE  CardSlots \in [Slots -> Content]
<1>1. ASSUME NEW s \in Slots PROVE CardSlots[s] \in Content
  <2>1. s \in 0 .. NUMBER_OF_SLOT - 1
    BY CfgAssumption DEF Slots
  <2>2. sectors[2 + s \div PerSector][s % PerSector] \in Content
    BY <2>1, PlaceOfSlot
  <2> QED BY <2>2, CardSlotIs DEF Content
<1>2. CardSlots = [s \in Slots |-> CardSlots[s]]
  BY DEF CardSlots, Loaded
<1> QED BY <1>1, <1>2

-----------------------------------------------------------------------------
(* The steps.                                                              *)

LEMMA InitInvariant == Init => IInv
<1> SUFFICES ASSUME Init PROVE IInv
  OBVIOUS
<1>1. /\ NoSlots \in [Slots -> Content] /\ ClearSector \in [Places -> Content]
      /\ 1 \in 1 .. NUMBER_OF_SLOT /\ 0 \in 0 .. 1
  BY CfgAssumption DEF NoSlots, ClearSector, Content
<1>2. header \in [number_of_slot : 1 .. NUMBER_OF_SLOT, slot_index : 0 .. 1, settings : Values]
  BY <1>1, CfgAssumption DEF Init
<1>3. sectors \in [Sectors -> [Places -> Content]]
  BY CfgAssumption DEF Init
<1>4. 2 \in 2 .. 2 + NUMBER_OF_SLOT \div PerSector
  <2>1. NUMBER_OF_SLOT \div PerSector \in Nat
    BY PlaceOf, SlotsAreNumbers
  <2> QED BY <2>1
<1>5. CardSlots \in [Slots -> Content]
  BY <1>3, CardSlotsTyped
<1>6. TypeOK
  BY <1>1, <1>2, <1>3, <1>4, <1>5, Places0, CfgAssumption DEF Init, TypeOK
<1>7. LoadSoFar /\ SaveSoFar /\ RecordsSaved /\ EachSlotOldOrNew /\ SaveStoresSlots
  BY DEF Init, LoadSoFar, SaveSoFar, RecordsSaved, EachSlotOldOrNew, SaveStoresSlots
<1> QED BY <1>6, <1>7 DEF IInv

LEMMA ReadHeaderKeeps == ASSUME IInv, ReadHeader PROVE IInv'
<1>0. TypeOK /\ PerSector \in Nat \ {0, 1}
  BY CfgAssumption DEF IInv
<1>1. /\ pc' = "load" /\ disks_slot_a' = NoSlots /\ i' = 1
      /\ settings' = header.settings /\ number_of_slot' = header.number_of_slot
      /\ sdfecfg_file' = sectors[2]
      /\ UNCHANGED << header, sectors, floppyselectorindex, sect_nb, before, intended >>
  BY DEF ReadHeader, cardVars, history
<1>2. 2 \in Sectors /\ 2 + (1 - 1) \div PerSector = 2
  <2>1. 0 \in 0 .. NUMBER_OF_SLOT - 1 /\ 0 \div PerSector = 0 /\ 1 - 1 = 0
    BY <1>0, CfgAssumption
  <2>2. 2 + 0 \div PerSector \in Sectors
    BY <2>1, PlaceOfSlot
  <2> QED BY <2>1, <2>2
<1>3. TypeOK'
  <2>1. NoSlots \in [Slots -> Content] /\ 1 \in 1 .. NUMBER_OF_SLOT
    BY CfgAssumption DEF NoSlots, Content
  <2>2. sdfecfg_file' \in [Places -> Content]
    BY <1>0, <1>1, <1>2 DEF TypeOK
  <2>3. settings' \in Values /\ number_of_slot' \in 1 .. NUMBER_OF_SLOT
    BY <1>0, <1>1 DEF TypeOK
  <2> QED BY <1>0, <1>1, <2>1, <2>2, <2>3 DEF TypeOK
<1>4. LoadSoFar'
  <2>1. \A s \in Slots : disks_slot_a'[s] = IF s < i' THEN CardSlots'[s] ELSE Blank
    BY <1>1, SlotsAreNumbers DEF NoSlots
  <2>2. sdfecfg_file' = sectors'[2 + (i' - 1) \div PerSector]
    BY <1>1, <1>2
  <2> QED BY <1>1, <2>1, <2>2, SlotsAreNumbers DEF LoadSoFar
<1>5. SaveSoFar' /\ RecordsSaved' /\ EachSlotOldOrNew' /\ SaveStoresSlots'
  BY <1>1 DEF SaveSoFar, RecordsSaved, EachSlotOldOrNew, SaveStoresSlots
<1> QED BY <1>3, <1>4, <1>5 DEF IInv

\* The buffer holds the sector of slot i when its record is taken.
LEMMA BufferIs ==
  ASSUME IInv, pc = "load"
  PROVE  i \in Slots /\ BufferFor = sectors[2 + i \div PerSector]
<1>1. i \in Slots /\ sdfecfg_file = sectors[2 + (i - 1) \div PerSector]
  BY DEF IInv, LoadSoFar
<1>2. i - 1 \in Nat /\ (i - 1) + 1 = i
  BY <1>1, SlotsAreNumbers
<1>3. i % PerSector # 0 => i \div PerSector = (i - 1) \div PerSector
  BY <1>2, NextRecord
<1> QED BY <1>1, <1>3 DEF BufferFor

LEMMA LoadSlotKeeps ==
  ASSUME IInv, LoadSlot
  PROVE  IInv' /\ (pc' = "use" => disks_slot_a' = CardSlots)
<1>0. /\ pc = "load" /\ TypeOK /\ i \in Slots
      /\ BufferFor = sectors[2 + i \div PerSector]
  BY BufferIs DEF LoadSlot, IInv
<1>1. /\ sdfecfg_file' = sectors[2 + i \div PerSector]
      /\ disks_slot_a' = [disks_slot_a EXCEPT ![i] = sectors[2 + i \div PerSector][i % PerSector]]
      /\ i' = i + 1
      /\ pc' = IF i + 1 < number_of_slot THEN "load" ELSE "use"
      /\ UNCHANGED << header, sectors, settings, number_of_slot, floppyselectorindex,
                      sect_nb, before, intended >>
  BY <1>0 DEF LoadSlot, cardVars, history
<1>2. /\ i \in 1 .. NUMBER_OF_SLOT - 1 /\ NUMBER_OF_SLOT \in Nat
      /\ i \in 0 .. NUMBER_OF_SLOT - 1
  BY <1>0, CfgAssumption DEF Slots
<1>3. sectors[2 + i \div PerSector] \in [Places -> Content]
      /\ sectors[2 + i \div PerSector][i % PerSector] \in Content
  BY <1>0, <1>2, PlaceOfSlot DEF TypeOK
<1>4. /\ number_of_slot = header.number_of_slot /\ (i < number_of_slot \/ i = 1)
      /\ number_of_slot \in 1 .. NUMBER_OF_SLOT
      /\ \A s \in Slots : disks_slot_a[s] = IF s < i THEN CardSlots[s] ELSE Blank
  BY <1>0 DEF IInv, LoadSoFar, TypeOK
<1>5. TypeOK'
  <2>1. i' \in 1 .. NUMBER_OF_SLOT
    BY <1>1, <1>2
  <2> QED BY <1>0, <1>1, <1>3, <2>1 DEF TypeOK
<1>6. CardSlots' = CardSlots
  BY <1>1 DEF CardSlots, Loaded
<1>7. \A s \in Slots : disks_slot_a'[s] = IF s < i' THEN CardSlots[s] ELSE Blank
  <2> SUFFICES ASSUME NEW s \in Slots
               PROVE  disks_slot_a'[s] = IF s < i' THEN CardSlots[s] ELSE Blank
    OBVIOUS
  <2>1. disks_slot_a \in [Slots -> Content] /\ s \in Nat /\ i \in Nat
    BY <1>0, <1>2, SlotsAreNumbers DEF TypeOK
  <2>2. CASE s = i
    <3>1. disks_slot_a'[s] = CardSlots[s]
      BY <1>1, <1>4, <2>1, <2>2, CardSlotIs
    <3> QED BY <1>1, <2>1, <2>2, <3>1
  <2>3. CASE s # i
    BY <1>1, <1>4, <2>1, <2>3
  <2> QED BY <2>2, <2>3
<1>8. LoadSoFar'
  <2> SUFFICES ASSUME pc' = "load" PROVE LoadSoFar'
    BY DEF LoadSoFar
  <2>1. i + 1 < number_of_slot
    BY <1>1
  <2>2. i' \in Slots /\ i' < number_of_slot'
    BY <1>1, <1>2, <1>4, <2>1 DEF Slots
  <2>3. i' - 1 = i
    BY <1>1, <1>2
  <2>4. sdfecfg_file' = sectors'[2 + (i' - 1) \div PerSector]
    BY <1>1, <2>3
  <2> QED BY <1>1, <1>4, <1>6, <1>7, <2>2, <2>4 DEF LoadSoFar
<1>9. SaveSoFar' /\ RecordsSaved' /\ EachSlotOldOrNew' /\ SaveStoresSlots'
  BY <1>1 DEF SaveSoFar, RecordsSaved, EachSlotOldOrNew, SaveStoresSlots
<1>10. ASSUME pc' = "use" PROVE disks_slot_a' = CardSlots
  <2>1. ~ (i + 1 < number_of_slot)
    BY <1>1, <1>10
  <2>2. ASSUME NEW s \in Slots PROVE disks_slot_a'[s] = CardSlots[s]
    <3>1. CASE s < i'
      BY <1>7, <3>1
    <3>2. CASE ~ (s < i')
      <4>1. ~ (s < header.number_of_slot) /\ s # 1
        BY <1>1, <1>2, <1>4, <2>1, <3>2, SlotsAreNumbers
      <4>2. CardSlots[s] = Blank
        BY <4>1, CardSlotIs
      <4> QED BY <1>7, <3>2, <4>2
    <3> QED BY <3>1, <3>2
  <2>3. disks_slot_a' \in [Slots -> Content] /\ CardSlots \in [Slots -> Content]
    BY <1>0, <1>5, CardSlotsTyped DEF TypeOK
  <2> QED BY <2>2, <2>3
<1> QED BY <1>5, <1>8, <1>9, <1>10 DEF IInv

\* Outside load and save there is nothing to say of the loops.
LEMMA EditKeeps == ASSUME IInv, Edit PROVE IInv'
<1>0. /\ TypeOK /\ pc' = "use"
      /\ UNCHANGED << header, sectors, sdfecfg_file, i, number_of_slot,
                      floppyselectorindex, sect_nb, before, intended >>
  BY DEF IInv, Edit, cardVars, loopVars, history
<1>1. disks_slot_a' \in [Slots -> Content] /\ settings' \in Values
  BY <1>0 DEF Edit, TypeOK
<1>2. TypeOK'
  BY <1>0, <1>1 DEF TypeOK
<1> QED
  BY <1>0, <1>2
  DEF IInv, LoadSoFar, SaveSoFar, RecordsSaved, EachSlotOldOrNew, SaveStoresSlots

LEMMA RestartKeeps == ASSUME IInv, Restart PROVE IInv'
<1>0. /\ TypeOK /\ pc' = "boot"
      /\ disks_slot_a' = NoSlots /\ settings' = InitSettings
      /\ sdfecfg_file' = ClearSector
      /\ i' = 1 /\ number_of_slot' = 1 /\ floppyselectorindex' = 1 /\ sect_nb' = 2
      /\ UNCHANGED << header, sectors, before, intended >>
  BY DEF IInv, Restart, cardVars, history
<1>1. /\ NoSlots \in [Slots -> Content] /\ ClearSector \in [Places -> Content]
      /\ 1 \in 1 .. NUMBER_OF_SLOT /\ NUMBER_OF_SLOT \in Nat
  BY CfgAssumption DEF NoSlots, ClearSector, Content
<1>2. 2 \in 2 .. 2 + NUMBER_OF_SLOT \div PerSector
  <2>1. NUMBER_OF_SLOT \div PerSector \in Nat
    BY <1>1, PlaceOf
  <2> QED BY <2>1
<1>3. TypeOK'
  BY <1>0, <1>1, <1>2, Places0, CfgAssumption DEF TypeOK
<1> QED
  BY <1>0, <1>3
  DEF IInv, LoadSoFar, SaveSoFar, RecordsSaved, EachSlotOldOrNew, SaveStoresSlots

LEMMA SaveBeginKeeps == ASSUME IInv, SaveBegin PROVE IInv'
<1>0. /\ TypeOK /\ pc' = "save" /\ number_of_slot' = 1 /\ i' = 1
      /\ floppyselectorindex' = 1 /\ sdfecfg_file' = ClearSector /\ sect_nb' = 2
      /\ before' = CardSlots /\ intended' = Compact(disks_slot_a)
      /\ UNCHANGED << header, sectors, disks_slot_a, settings >>
  BY DEF IInv, SaveBegin, cardVars, memVars
<1>1. /\ ClearSector \in [Places -> Content]
      /\ 1 \in 1 .. NUMBER_OF_SLOT /\ NUMBER_OF_SLOT \in Nat
  BY CfgAssumption DEF ClearSector, Content
<1>2. 2 \in 2 .. 2 + NUMBER_OF_SLOT \div PerSector
  <2>1. NUMBER_OF_SLOT \div PerSector \in Nat
    BY <1>1, PlaceOf
  <2> QED BY <2>1
<1>3. TypeOK'
  <2>1. before' \in [Slots -> Content] /\ intended' \in [Slots -> Content]
    BY <1>0, CardSlotsTyped, CompactTyped DEF TypeOK
  <2> QED BY <1>0, <1>1, <1>2, <2>1, Places0 DEF TypeOK
<1>4. 1 % PerSector = 1 /\ 1 \div PerSector = 0
  <2>1. 1 = 0 * PerSector + 1 /\ 1 \in 0 .. PerSector - 1 /\ PerSector \in Nat \ {0}
    BY Places0
  <2> QED BY <2>1, DividedIs
<1>5. SaveSoFar'
  <2>1. ImagesUpTo(disks_slot_a', i' - 1) = 0
    <3>1. ImagesUpTo(disks_slot_a, 0) \in Nat /\ ImagesUpTo(disks_slot_a, 0) <= 0
      BY CountIsNumber
    <3> QED BY <1>0, <3>1
  <2>2. \A s \in Slots : ~ (s < 1)
    BY SlotsAreNumbers
  <2>3. \A p \in Places : sdfecfg_file'[p] = Blank
    BY <1>0 DEF ClearSector
  <2>4. /\ number_of_slot' = 1 + ImagesUpTo(disks_slot_a', i' - 1)
        /\ floppyselectorindex' = number_of_slot' % PerSector
        /\ sect_nb' = 2 + number_of_slot' \div PerSector
        /\ intended' = Compact(disks_slot_a')
    BY <1>0, <1>4, <2>1
  <2> QED BY <1>0, <2>2, <2>3, <2>4 DEF SaveSoFar
<1>6. EachSlotOldOrNew'
  BY <1>0 DEF EachSlotOldOrNew, CardSlots, Loaded
<1> QED BY <1>0, <1>3, <1>5, <1>6 DEF IInv, LoadSoFar, RecordsSaved, SaveStoresSlots

\* What a save knows while it goes through the slots.
LEMMA Saving ==
  ASSUME IInv, pc = "save"
  PROVE  /\ intended = Compact(disks_slot_a) /\ i \in 1 .. NUMBER_OF_SLOT
         /\ number_of_slot = 1 + ImagesUpTo(disks_slot_a, i - 1)
         /\ number_of_slot \in 1 .. i
         /\ floppyselectorindex = number_of_slot % PerSector
         /\ sect_nb = 2 + number_of_slot \div PerSector
         /\ \A s \in Slots : s < number_of_slot => Record(s) = intended[s]
         /\ \A p \in Places : p >= floppyselectorindex => sdfecfg_file[p] = Blank
<1>1. i - 1 \in Nat /\ i \in 1 .. NUMBER_OF_SLOT
  BY CfgAssumption DEF IInv, TypeOK
<1>2. ImagesUpTo(disks_slot_a, i - 1) \in Nat /\ ImagesUpTo(disks_slot_a, i - 1) <= i - 1
  BY <1>1, CountIsNumber
<1>3. number_of_slot = 1 + ImagesUpTo(disks_slot_a, i - 1)
  BY DEF IInv, SaveSoFar
<1>4. number_of_slot \in 1 .. i
  BY <1>1, <1>2, <1>3
<1> QED BY <1>1, <1>3, <1>4 DEF IInv, SaveSoFar

LEMMA SkipSlotKeeps == ASSUME IInv, SkipSlot PROVE IInv'
<1>0. /\ TypeOK /\ pc = "save" /\ pc' = "save" /\ i' = i + 1 /\ i < NUMBER_OF_SLOT
      /\ ~ HasSize(disks_slot_a[i])
      /\ UNCHANGED << header, sectors, disks_slot_a, settings, sdfecfg_file,
                      number_of_slot, floppyselectorindex, sect_nb, before, intended >>
  BY DEF IInv, SkipSlot, cardVars, memVars, history
<1>1. i \in Nat \ {0} /\ i \in 1 .. NUMBER_OF_SLOT /\ NUMBER_OF_SLOT \in Nat
  BY <1>0, CfgAssumption DEF TypeOK
<1>2. TypeOK'
  BY <1>0, <1>1 DEF TypeOK
<1>3. ImagesUpTo(disks_slot_a, i' - 1) = ImagesUpTo(disks_slot_a, i - 1)
  <2>1. i' - 1 = i
    BY <1>0, <1>1
  <2> QED BY <1>0, <1>1, <2>1, CountNext
<1>4. SaveSoFar'
  <2>1. number_of_slot' = 1 + ImagesUpTo(disks_slot_a', i' - 1)
    BY <1>0, <1>3, Saving
  <2>2. \A s \in Slots : Record(s)' = Record(s)
    BY <1>0 DEF Record
  <2> QED BY <1>0, <2>1, <2>2 DEF IInv, SaveSoFar
<1>5. EachSlotOldOrNew'
  BY <1>0 DEF IInv, EachSlotOldOrNew, CardSlots, Loaded
<1> QED BY <1>0, <1>2, <1>4, <1>5 DEF IInv, LoadSoFar, RecordsSaved, SaveStoresSlots

\* The record of the next image is the one that belongs there.
LEMMA ImageMovesUp ==
  ASSUME IInv, pc = "save", i < NUMBER_OF_SLOT, HasSize(disks_slot_a[i])
  PROVE  /\ i \in Slots /\ number_of_slot \in Slots
         /\ intended[number_of_slot] = disks_slot_a[i]
         /\ ImagesUpTo(disks_slot_a, i) = number_of_slot
<1>1. /\ i \in 1 .. NUMBER_OF_SLOT /\ number_of_slot \in 1 .. i
      /\ intended = Compact(disks_slot_a)
      /\ number_of_slot = 1 + ImagesUpTo(disks_slot_a, i - 1)
  BY Saving
<1>2. i \in Slots /\ number_of_slot \in Slots /\ i \in Nat \ {0}
  BY <1>1, CfgAssumption DEF Slots
<1>3. ImagesUpTo(disks_slot_a, i) = number_of_slot
  <2>1. i - 1 \in Nat
    BY <1>2
  <2>2. ImagesUpTo(disks_slot_a, i - 1) \in Nat
    BY <2>1, CountIsNumber
  <2>3. ImagesUpTo(disks_slot_a, i) = ImagesUpTo(disks_slot_a, i - 1) + 1
    BY <1>2, CountNext
  <2> QED BY <1>1, <2>2, <2>3
<1> QED BY <1>1, <1>2, <1>3, CompactIs

LEMMA CopySlotKeeps == ASSUME IInv, CopySlot PROVE IInv'
<1> DEFINE n == number_of_slot
           filled == [sdfecfg_file EXCEPT ![floppyselectorindex] = disks_slot_a[i]]
<1>0. /\ TypeOK /\ pc = "save" /\ pc' = "save" /\ i' = i + 1 /\ i < NUMBER_OF_SLOT
      /\ HasSize(disks_slot_a[i])
      /\ number_of_slot' = n + 1 /\ floppyselectorindex' = (floppyselectorindex + 1) % PerSector
      /\ IF (n + 1) % PerSector = 0
         THEN /\ sectors' = [sectors EXCEPT ![sect_nb] = filled]
              /\ sect_nb' = sect_nb + 1
              /\ sdfecfg_file' = ClearSector
         ELSE /\ sdfecfg_file' = filled
              /\ UNCHANGED << sectors, sect_nb >>
      /\ UNCHANGED << header, disks_slot_a, settings, before, intended >>
  BY DEF IInv, CopySlot, memVars, history, SectorFull, NextPlace
<1>1. /\ intended = Compact(disks_slot_a) /\ i \in 1 .. NUMBER_OF_SLOT
      /\ n \in 1 .. i /\ floppyselectorindex = n % PerSector
      /\ sect_nb = 2 + n \div PerSector
      /\ \A s \in Slots : s < n => Record(s) = intended[s]
      /\ \A p \in Places : p >= floppyselectorindex => sdfecfg_file[p] = Blank
  BY <1>0, Saving
<1>2. /\ i \in Slots /\ n \in Slots /\ intended[n] = disks_slot_a[i]
      /\ ImagesUpTo(disks_slot_a, i) = n
  BY <1>0, ImageMovesUp
<1>3. /\ n \in Nat /\ i \in Nat /\ n \in 0 .. NUMBER_OF_SLOT - 1 /\ NUMBER_OF_SLOT \in Nat
      /\ n \div PerSector \in Nat /\ n % PerSector \in Places
      /\ sect_nb \in Sectors
  <2>1. n \in Nat /\ i \in Nat /\ n \in 0 .. NUMBER_OF_SLOT - 1 /\ NUMBER_OF_SLOT \in Nat
    BY <1>2, CfgAssumption DEF Slots
  <2> QED BY <1>1, <2>1, PlaceOf, PlaceOfSlot
<1>4. /\ sdfecfg_file \in [Places -> Content] /\ sectors \in [Sectors -> [Places -> Content]]
      /\ disks_slot_a[i] \in Content
  BY <1>0, <1>2 DEF TypeOK
<1>5. filled \in [Places -> Content]
  BY <1>1, <1>3, <1>4
<1>6. ASSUME NEW s \in Slots, s <= n, s \div PerSector = n \div PerSector
      PROVE  filled[s % PerSector] = intended[s]
  <2>1. s \in Nat /\ s % PerSector \in Places
    BY SlotsAreNumbers, PlaceOf
  <2>2. CASE s = n
    BY <1>1, <1>2, <1>3, <1>4, <2>2
  <2>3. CASE s # n
    <3>1. s % PerSector # n % PerSector
      BY <1>3, <1>6, <2>1, <2>3, SamePlace
    <3>2. Record(s) = sdfecfg_file[s % PerSector]
      <4>1. ~ (2 + s \div PerSector < sect_nb)
        BY <1>1, <1>3, <1>6
      <4> QED BY <4>1 DEF Record
    <3>3. s < n
      BY <1>3, <1>6, <2>1, <2>3
    <3> QED BY <1>1, <1>4, <2>1, <3>1, <3>2, <3>3
  <2> QED BY <2>2, <2>3
<1>7. ASSUME NEW s \in Slots, s <= n, s \div PerSector # n \div PerSector
      PROVE  2 + s \div PerSector < sect_nb /\ s < n
             /\ sectors[2 + s \div PerSector][s % PerSector] = intended[s]
  <2>1. s \in Nat /\ s \div PerSector \in Nat /\ s \div PerSector <= n \div PerSector
    BY <1>3, <1>7, SlotsAreNumbers, PlaceOf, SectorsGrow
  <2>2. 2 + s \div PerSector < sect_nb
    BY <1>1, <1>3, <1>7, <2>1
  <2>3. s < n
    BY <1>3, <1>7, <2>1
  <2> QED BY <1>1, <2>2, <2>3 DEF Record
<1> HIDE DEF filled
<1>8. /\ (n + 1) % PerSector = ((n % PerSector) + 1) % PerSector
      /\ IF (n + 1) % PerSector = 0
         THEN /\ (n + 1) \div PerSector = (n \div PerSector) + 1
              /\ \A s \in Nat : s \div PerSector = n \div PerSector => s <= n
         ELSE /\ (n + 1) \div PerSector = n \div PerSector
              /\ (n + 1) % PerSector = (n % PerSector) + 1
  BY <1>3, NextRecord
<1>9. /\ sect_nb' = 2 + number_of_slot' \div PerSector
      /\ floppyselectorindex' = number_of_slot' % PerSector
      /\ number_of_slot' = 1 + ImagesUpTo(disks_slot_a', i' - 1)
  <2>1. i' - 1 = i
    BY <1>0, <1>3
  <2>2. sect_nb' = 2 + number_of_slot' \div PerSector
    BY <1>0, <1>1, <1>3, <1>8
  <2>3. number_of_slot' = 1 + ImagesUpTo(disks_slot_a', i' - 1)
    BY <1>0, <1>2, <1>3, <2>1
  <2> QED BY <1>0, <1>1, <1>8, <2>2, <2>3
<1>10. ASSUME (n + 1) % PerSector = 0
       PROVE  /\ SaveSoFar' /\ EachSlotOldOrNew'
              /\ sectors' \in [Sectors -> [Places -> Content]] /\ sdfecfg_file' \in [Places -> Content]
  <2>1. /\ sectors' = [sectors EXCEPT ![sect_nb] = filled] /\ sect_nb' = sect_nb + 1
        /\ sdfecfg_file' = ClearSector
    BY <1>0, <1>10
  <2>2. \A s \in Slots : s < number_of_slot' => Record(s)' = intended'[s]
    <3> SUFFICES ASSUME NEW s \in Slots, s < n + 1 PROVE Record(s)' = intended[s]
      BY <1>0
    <3>1. s <= n /\ s \in Nat /\ s \div PerSector \in Nat
          /\ s \div PerSector <= n \div PerSector
      <4>1. s \in Nat /\ s <= n
        BY <1>3, SlotsAreNumbers
      <4> QED BY <1>3, <4>1, PlaceOf, SectorsGrow
    <3>2. Record(s)' = sectors'[2 + s \div PerSector][s % PerSector]
      <4>1. 2 + s \div PerSector < sect_nb'
        BY <1>1, <1>3, <2>1, <3>1
      <4> QED BY <4>1 DEF Record
    <3>3. CASE s \div PerSector = n \div PerSector
      <4>1. sectors'[2 + s \div PerSector] = filled
        BY <1>1, <1>3, <1>4, <2>1, <3>3
      <4> QED BY <1>6, <3>1, <3>2, <3>3, <4>1
    <3>4. CASE s \div PerSector # n \div PerSector
      <4>1. 2 + s \div PerSector # sect_nb
        BY <1>1, <1>3, <3>1, <3>4
      <4>2. sectors'[2 + s \div PerSector] = sectors[2 + s \div PerSector]
        BY <1>4, <2>1, <4>1
      <4> QED BY <1>7, <3>1, <3>2, <3>4, <4>2
    <3> QED BY <3>3, <3>4
  <2>3. \A p \in Places : sdfecfg_file'[p] = Blank
    BY <2>1 DEF ClearSector
  <2>4. SaveSoFar'
    BY <1>0, <1>1, <1>9, <2>2, <2>3 DEF SaveSoFar
  <2>5. EachSlotOldOrNew'
    <3> SUFFICES ASSUME NEW s \in Slots PROVE CardSlots'[s] \in {before[s], intended[s]}
      BY <1>0 DEF EachSlotOldOrNew
    <3>1. CardSlots[s] \in {before[s], intended[s]}
      BY <1>0 DEF IInv, EachSlotOldOrNew
    <3>2. CardSlots'[s] = IF s < header.number_of_slot \/ s = 1
                          THEN sectors'[2 + s \div PerSector][s % PerSector] ELSE Blank
      BY <1>0 DEF CardSlots, Loaded
    <3>3. s \in Nat /\ s \div PerSector \in Nat
      BY SlotsAreNumbers, PlaceOf
    <3>4. CASE s \div PerSector = n \div PerSector
      <4>1. s <= n
        BY <1>8, <1>10, <3>3, <3>4
      <4>2. sectors'[2 + s \div PerSector] = filled
        BY <1>1, <1>3, <1>4, <2>1, <3>4
      <4>3. sectors'[2 + s \div PerSector][s % PerSector] = intended[s]
        BY <1>6, <3>4, <4>1, <4>2
      <4> QED BY <3>1, <3>2, <4>3, CardSlotIs
    <3>5. CASE s \div PerSector # n \div PerSector
      <4>1. sectors'[2 + s \div PerSector] = sectors[2 + s \div PerSector]
        BY <1>1, <1>3, <1>4, <2>1, <3>3, <3>5
      <4> QED BY <3>1, <3>2, <4>1, CardSlotIs
    <3> QED BY <3>4, <3>5
  <2>6. sectors' \in [Sectors -> [Places -> Content]] /\ sdfecfg_file' \in [Places -> Content]
    BY <1>3, <1>4, <1>5, <2>1 DEF ClearSector, Content
  <2> QED BY <2>4, <2>5, <2>6
<1>11. ASSUME (n + 1) % PerSector # 0
       PROVE  /\ SaveSoFar' /\ EachSlotOldOrNew'
              /\ sectors' \in [Sectors -> [Places -> Content]] /\ sdfecfg_file' \in [Places -> Content]
  <2>1. sdfecfg_file' = filled /\ sectors' = sectors /\ sect_nb' = sect_nb
    BY <1>0, <1>11
  <2>2. \A s \in Slots : s < number_of_slot' => Record(s)' = intended'[s]
    <3> SUFFICES ASSUME NEW s \in Slots, s < n + 1 PROVE Record(s)' = intended[s]
      BY <1>0
    <3>1. s <= n
      BY <1>3, SlotsAreNumbers
    <3>2. CASE s \div PerSector = n \div PerSector
      <4>1. ~ (2 + s \div PerSector < sect_nb')
        BY <1>1, <1>3, <2>1, <3>2
      <4>2. Record(s)' = filled[s % PerSector]
        BY <2>1, <4>1 DEF Record
      <4> QED BY <1>6, <3>1, <3>2, <4>2
    <3>3. CASE s \div PerSector # n \div PerSector
      BY <1>7, <2>1, <3>1, <3>3 DEF Record
    <3> QED BY <3>2, <3>3
  <2>3. \A p \in Places : p >= floppyselectorindex' => sdfecfg_file'[p] = Blank
    <3> SUFFICES ASSUME NEW p \in Places, p >= (n % PerSector) + 1 PROVE filled[p] = Blank
      BY <1>8, <1>9, <1>0, <1>11, <2>1
    <3>1. p > floppyselectorindex /\ p \in Nat /\ floppyselectorindex \in Nat
      BY <1>1, <1>3 DEF Places
    <3> QED BY <1>1, <1>4, <3>1 DEF filled
  <2>4. SaveSoFar'
    BY <1>0, <1>1, <1>9, <2>2, <2>3 DEF SaveSoFar
  <2>5. EachSlotOldOrNew'
    BY <1>0, <2>1 DEF IInv, EachSlotOldOrNew, CardSlots, Loaded
  <2> QED BY <1>4, <1>5, <2>1, <2>4, <2>5
<1>12. TypeOK'
  <2>1. i' \in 1 .. NUMBER_OF_SLOT /\ number_of_slot' \in 1 .. NUMBER_OF_SLOT
    BY <1>0, <1>1, <1>3
  <2>2. sect_nb' \in 2 .. 2 + NUMBER_OF_SLOT \div PerSector
    <3>1. number_of_slot' \in Nat /\ number_of_slot' <= NUMBER_OF_SLOT
      BY <2>1, <1>3
    <3>2. /\ number_of_slot' \div PerSector \in Nat /\ NUMBER_OF_SLOT \div PerSector \in Nat
          /\ number_of_slot' \div PerSector <= NUMBER_OF_SLOT \div PerSector
      <4> DEFINE k == number_of_slot'
      <4>1. k \in Nat /\ k <= NUMBER_OF_SLOT
        BY <3>1
      <4> HIDE DEF k
      <4>2. /\ k \div PerSector \in Nat /\ NUMBER_OF_SLOT \div PerSector \in Nat
            /\ k \div PerSector <= NUMBER_OF_SLOT \div PerSector
        BY <1>3, <4>1, PlaceOf, SectorsGrow
      <4> QED BY <4>2 DEF k
    <3> QED BY <1>9, <3>2
  <2>3. floppyselectorindex' \in Places
    <3>1. (n + 1) % PerSector \in Places
      BY <1>3, PlaceOf
    <3> QED BY <1>0, <1>9, <3>1
  <2> QED BY <1>0, <1>10, <1>11, <2>1, <2>2, <2>3 DEF TypeOK
<1> QED
  BY <1>0, <1>10, <1>11, <1>12 DEF IInv, LoadSoFar, RecordsSaved, SaveStoresSlots

LEMMA FlushBufferKeeps == ASSUME IInv, FlushBuffer PROVE IInv'
<1> DEFINE n == number_of_slot
<1>0. /\ TypeOK /\ pc = "save" /\ pc' = "finish" /\ i = NUMBER_OF_SLOT
      /\ sectors' = IF n % PerSector = 0 THEN sectors
                    ELSE [sectors EXCEPT ![sect_nb] = sdfecfg_file]
      /\ UNCHANGED << header, disks_slot_a, settings, sdfecfg_file, i, number_of_slot,
                      floppyselectorindex, sect_nb, before, intended >>
  BY DEF IInv, FlushBuffer, memVars, loopVars, history, SectorFull
<1>1. /\ intended = Compact(disks_slot_a)
      /\ n = 1 + ImagesUpTo(disks_slot_a, i - 1)
      /\ n \in 1 .. i /\ floppyselectorindex = n % PerSector
      /\ sect_nb = 2 + n \div PerSector
      /\ \A s \in Slots : s < n => Record(s) = intended[s]
      /\ \A p \in Places : p >= floppyselectorindex => sdfecfg_file[p] = Blank
  BY <1>0, Saving
<1>2. /\ n \in Nat /\ NUMBER_OF_SLOT \in Nat /\ n \div PerSector \in Nat
      /\ n % PerSector \in Places
      /\ sdfecfg_file \in [Places -> Content] /\ sectors \in [Sectors -> [Places -> Content]]
  <2>1. n \in Nat /\ NUMBER_OF_SLOT \in Nat
    BY <1>0, CfgAssumption DEF TypeOK
  <2> QED BY <1>0, <2>1, PlaceOf DEF TypeOK
\* Behind the images the slots are to be empty.
<1>3. ASSUME NEW s \in Slots, s >= n PROVE intended[s] = Blank
  <2>1. s > ImagesUpTo(disks_slot_a, NUMBER_OF_SLOT - 1)
    <3>1. NUMBER_OF_SLOT - 1 \in Nat /\ s \in Nat
      BY CfgAssumption, SlotsAreNumbers
    <3>2. ImagesUpTo(disks_slot_a, NUMBER_OF_SLOT - 1) \in Nat
      BY <3>1, CountIsNumber
    <3> QED BY <1>0, <1>1, <1>3, <3>1, <3>2
  <2> QED BY <1>1, <2>1, CompactBlank
\* The records of the sector flushed, behind the images too.
<1>4. ASSUME NEW s \in Slots, s \div PerSector = n \div PerSector
      PROVE  sdfecfg_file[s % PerSector] = intended[s]
  <2>1. s \in Nat /\ s % PerSector \in Places
    BY SlotsAreNumbers, PlaceOf
  <2>2. CASE s < n
    <3>1. ~ (2 + s \div PerSector < sect_nb)
      BY <1>1, <1>2, <1>4
    <3> QED BY <1>1, <2>2, <3>1 DEF Record
  <2>3. CASE s >= n
    <3>1. s % PerSector >= n % PerSector
      <4> DEFINE q == n \div PerSector
                 r == n % PerSector
                 t == s % PerSector
      <4>1. s = q * PerSector + t /\ n = q * PerSector + r
        BY <1>2, <1>4, <2>1, PlaceOf
      <4>2. q \in Nat /\ r \in Nat /\ t \in Nat /\ q * PerSector \in Nat
        BY <1>2, <2>1, Places0 DEF Places
      <4> HIDE DEF q, r, t
      <4>3. t >= r
        BY <2>3, <4>1, <4>2
      <4> QED BY <4>3 DEF t, r
    <3> QED BY <1>1, <1>3, <2>1, <2>3, <3>1
  <2> QED BY <1>2, <2>1, <2>2, <2>3
<1>5. n % PerSector # 0 => sect_nb \in Sectors
  <2> SUFFICES ASSUME n % PerSector # 0 PROVE sect_nb \in Sectors
    OBVIOUS
  <2>1. n - 1 \in 0 .. NUMBER_OF_SLOT - 1 /\ n - 1 \in Nat /\ (n - 1) + 1 = n
    BY <1>0, <1>1, <1>2
  <2>2. n \div PerSector = (n - 1) \div PerSector
    BY <2>1, NextRecord
  <2> QED BY <1>1, <2>1, <2>2, PlaceOfSlot
<1>6. ASSUME NEW s \in Slots
      PROVE  sectors'[2 + s \div PerSector][s % PerSector] =
               IF n % PerSector # 0 /\ s \div PerSector = n \div PerSector
               THEN intended[s] ELSE sectors[2 + s \div PerSector][s % PerSector]
  <2>1. s \in Nat /\ s \div PerSector \in Nat
    BY SlotsAreNumbers, PlaceOf
  <2>2. CASE n % PerSector # 0 /\ s \div PerSector = n \div PerSector
    <3>1. sectors'[2 + s \div PerSector] = sdfecfg_file
      BY <1>0, <1>1, <1>2, <1>5, <2>2
    <3> QED BY <1>4, <2>2, <3>1
  <2>3. CASE ~ (n % PerSector # 0 /\ s \div PerSector = n \div PerSector)
    <3>1. sectors'[2 + s \div PerSector] = sectors[2 + s \div PerSector]
      BY <1>0, <1>1, <1>2, <2>1, <2>3
    <3> QED BY <2>3, <3>1
  <2> QED BY <2>2, <2>3
<1>7. EachSlotOldOrNew'
  <2> SUFFICES ASSUME NEW s \in Slots PROVE CardSlots'[s] \in {before[s], intended[s]}
    BY <1>0 DEF EachSlotOldOrNew
  <2>1. CardSlots[s] \in {before[s], intended[s]}
    BY <1>0 DEF IInv, EachSlotOldOrNew
  <2>2. CardSlots'[s] = IF s < header.number_of_slot \/ s = 1
                        THEN sectors'[2 + s \div PerSector][s % PerSector] ELSE Blank
    BY <1>0 DEF CardSlots, Loaded
  <2> QED BY <1>6, <2>1, <2>2, CardSlotIs
<1>8. RecordsSaved'
  <2>1. ASSUME NEW s \in Slots, s < n \/ s = 1
        PROVE  sectors'[2 + s \div PerSector][s % PerSector] = intended[s]
    <3>1. s \in Nat /\ s \div PerSector \in Nat
      BY SlotsAreNumbers, PlaceOf
    <3>2. CASE s < n
      <4>1. s \div PerSector <= n \div PerSector
        BY <1>2, <3>1, <3>2, SectorsGrow
      <4>2. CASE s \div PerSector = n \div PerSector /\ n % PerSector # 0
        BY <1>6, <4>2
      <4>3. CASE s \div PerSector # n \div PerSector
        <5>1. 2 + s \div PerSector < sect_nb
          BY <1>1, <1>2, <3>1, <4>1, <4>3
        <5> QED BY <1>1, <1>6, <3>2, <4>3, <5>1 DEF Record
      <4>4. CASE s \div PerSector = n \div PerSector /\ n % PerSector = 0
        <5> DEFINE q == n \div PerSector
                   t == s % PerSector
        <5>1. s = q * PerSector + t /\ n = q * PerSector + 0
          BY <1>2, <3>1, <4>4, PlaceOf
        <5>2. q \in Nat /\ t \in Nat /\ q * PerSector \in Nat
          BY <1>2, <3>1, PlaceOf, Places0 DEF Places
        <5> HIDE DEF q, t
        <5> QED BY <3>2, <5>1, <5>2
      <4> QED BY <4>2, <4>3, <4>4
    <3>3. CASE s = 1 /\ ~ (s < n)
      <4>1. n = 1
        BY <1>1, <1>2, <1>0, <3>3
      <4>2. 1 % PerSector = 1
        BY Places0, SmallRest
      <4> QED BY <1>6, <3>3, <4>1, <4>2
    <3> QED BY <2>1, <3>2, <3>3
  <2> QED BY <1>0, <1>3, <2>1 DEF RecordsSaved
<1>9. TypeOK'
  <2>1. sectors' \in [Sectors -> [Places -> Content]]
    BY <1>0, <1>2, <1>5
  <2> QED BY <1>0, <2>1 DEF TypeOK
<1> QED BY <1>0, <1>7, <1>8, <1>9 DEF IInv, LoadSoFar, SaveSoFar, SaveStoresSlots

LEMMA WriteHeaderKeeps == ASSUME IInv, WriteHeader PROVE IInv'
<1>0. /\ TypeOK /\ pc = "finish" /\ pc' = "off"
      /\ header' = [number_of_slot |-> number_of_slot, slot_index |-> SlotIndex,
                    settings |-> settings]
      /\ UNCHANGED << sectors, disks_slot_a, settings, sdfecfg_file, i, number_of_slot,
                      floppyselectorindex, sect_nb, before, intended >>
  BY DEF IInv, WriteHeader, memVars, loopVars, history
<1>1. number_of_slot \in 1 .. NUMBER_OF_SLOT /\ settings \in Values /\ NUMBER_OF_SLOT \in Nat
  BY <1>0, CfgAssumption DEF TypeOK
<1>2. SlotIndex \in 0 .. 1 /\ SlotIndex < number_of_slot
  BY <1>1 DEF SlotIndex
<1>3. /\ header'.number_of_slot = number_of_slot /\ header'.settings = settings
      /\ header'.slot_index = SlotIndex
  BY <1>0
<1>4. TypeOK'
  BY <1>0, <1>1, <1>2 DEF TypeOK
<1>5. CardSlots' = intended
  <2>1. ASSUME NEW s \in Slots PROVE CardSlots'[s] = intended[s]
    <3>1. /\ s < number_of_slot \/ s = 1 =>
               sectors[2 + s \div PerSector][s % PerSector] = intended[s]
          /\ s >= number_of_slot => intended[s] = Blank
      BY <1>0 DEF IInv, RecordsSaved
    <3>2. CardSlots'[s] = IF s < number_of_slot \/ s = 1
                          THEN sectors[2 + s \div PerSector][s % PerSector] ELSE Blank
      BY <1>0, <1>3 DEF CardSlots, Loaded
    <3> QED BY <1>1, <3>1, <3>2, SlotsAreNumbers
  <2>2. CardSlots' = [s \in Slots |-> CardSlots'[s]] /\ intended = [s \in Slots |-> intended[s]]
    BY <1>0 DEF CardSlots, Loaded, TypeOK
  <2> QED BY <2>1, <2>2
<1>6. SaveStoresSlots'
  BY <1>0, <1>2, <1>3, <1>5 DEF SaveStoresSlots
<1> QED
  BY <1>0, <1>4, <1>6 DEF IInv, LoadSoFar, SaveSoFar, RecordsSaved, EachSlotOldOrNew

LEMMA StutterKeeps == ASSUME IInv, UNCHANGED vars PROVE IInv'
<1>0. UNCHANGED << header, sectors, pc, disks_slot_a, settings, sdfecfg_file, i,
                   number_of_slot, floppyselectorindex, sect_nb, before, intended >>
  BY DEF vars, cardVars, memVars, loopVars, history
<1>1. CardSlots' = CardSlots /\ \A s \in Slots : Record(s)' = Record(s)
  BY <1>0 DEF CardSlots, Loaded, Record
<1>2. TypeOK' /\ LoadSoFar'
  BY <1>0, <1>1 DEF IInv, TypeOK, LoadSoFar
<1>3. SaveSoFar' /\ RecordsSaved'
  BY <1>0, <1>1 DEF IInv, SaveSoFar, RecordsSaved
<1>4. EachSlotOldOrNew' /\ SaveStoresSlots'
  BY <1>0, <1>1 DEF IInv, EachSlotOldOrNew, SaveStoresSlots
<1> QED BY <1>2, <1>3, <1>4 DEF IInv

-----------------------------------------------------------------------------
(* The theorems.                                                           *)

\* What holds in the loops of read_cfg_file and save_cfg_file, with the machine
\* reset or switched off at any point.
THEOREM CfgInvariant == Spec => []IInv
<1>1. IInv /\ [Next]_vars => IInv'
  BY ReadHeaderKeeps, LoadSlotKeeps, EditKeeps, RestartKeeps, SaveBeginKeeps, SkipSlotKeeps,
     CopySlotKeeps, FlushBufferKeeps, WriteHeaderKeeps, StutterKeeps DEF Next, Load, Save
<1> QED BY <1>1, InitInvariant, PTL DEF Spec

\* Wherever save_cfg_file is interrupted, every slot is found as it was or as
\* it was to be: for every number of slots and of records in a sector.
THEOREM NoSlotTorn == Spec => []EachSlotOldOrNew
<1>1. IInv => EachSlotOldOrNew
  BY DEF IInv
<1> QED BY <1>1, CfgInvariant, PTL

\* A save_cfg_file that is not interrupted leaves exactly the images of the
\* slots and the settings on the card.
THEOREM SaveStores == Spec => []SaveStoresSlots
<1>1. IInv => SaveStoresSlots
  BY DEF IInv
<1> QED BY <1>1, CfgInvariant, PTL

\* read_cfg_file loads the records that the header counts and no others.
THEOREM LoadReads == Spec => LoadReadsCard
<1>1. IInv /\ [Next]_vars => [pc = "load" /\ pc' = "use" => disks_slot_a' = CardSlots]_vars
  <2> SUFFICES ASSUME IInv, Next, pc = "load", pc' = "use" PROVE disks_slot_a' = CardSlots
    OBVIOUS
  <2>1. LoadSlot
    BY DEF Next, Load, Save, ReadHeader, Edit, SaveBegin, SkipSlot, CopySlot, FlushBuffer,
           WriteHeader, Restart
  <2> QED BY <2>1, LoadSlotKeeps
<1> QED BY <1>1, CfgInvariant, PTL DEF Spec, LoadReadsCard

-----------------------------------------------------------------------------
(* The sectors and the clusters of the file.                               *)

LEMMA SizesArePositive ==
  /\ SectorsPerCluster * BytesPerSector \in Nat \ {0}
  /\ FileLength \in Nat /\ FileLength - 1 \in Nat
  /\ NotUsed \in Nat /\ FileLength - 1 < NotUsed /\ WORD_MOD \in Nat
<1>1. SectorsPerCluster * BytesPerSector >= BytesPerSector
  BY FileAssumption, ProductGrows
<1>2. SectorsPerCluster * BytesPerSector \in Nat
  BY FileAssumption
<1> QED BY <1>1, <1>2, FileAssumption DEF NotUsed

\* The sector of a byte of the file and that sector's cluster are the file's.
LEMMA SectorInFile ==
  ASSUME NEW n \in Nat, n * BytesPerSector <= FileLength - 1
  PROVE  /\ n \in FileSectors /\ n < NotUsed
         /\ n \div SectorsPerCluster \in 0 .. LastCluster
<1>1. n <= (FileLength - 1) \div BytesPerSector
  BY FileAssumption, SizesArePositive, QuotientsGrow
<1>2. n * BytesPerSector >= n
  <2>1. CASE n = 0
    BY <2>1, FileAssumption
  <2>2. CASE n > 0
    <3>1. BytesPerSector * n >= n
      BY FileAssumption, ProductGrows
    <3> QED BY <3>1, FileAssumption
  <2> QED BY <2>1, <2>2
<1>3. n < NotUsed
  <2>1. n * BytesPerSector \in Nat
    BY FileAssumption
  <2> QED BY <1>2, <2>1, SizesArePositive
<1> DEFINE q == n \div SectorsPerCluster
<1>4. q \in Nat /\ q * SectorsPerCluster <= n
  <2> DEFINE r == n % SectorsPerCluster
  <2>1. q \in Nat /\ r \in 0 .. SectorsPerCluster - 1 /\ n = q * SectorsPerCluster + r
    BY FileAssumption, Divides
  <2> HIDE DEF q, r
  <2>2. q * SectorsPerCluster \in Nat
    BY <2>1, FileAssumption
  <2> QED BY <2>1, <2>2
<1> HIDE DEF q
<1>5. q * (SectorsPerCluster * BytesPerSector) <= n * BytesPerSector
  <2>1. (n - q * SectorsPerCluster) * BytesPerSector >= 0
    <3>1. n - q * SectorsPerCluster \in Nat
      BY <1>4, FileAssumption
    <3> QED BY <3>1, FileAssumption
  <2>2. (n - q * SectorsPerCluster) * BytesPerSector
          = n * BytesPerSector - q * (SectorsPerCluster * BytesPerSector)
    BY <1>4, FileAssumption
  <2>3. n * BytesPerSector \in Int /\ q * (SectorsPerCluster * BytesPerSector) \in Int
    BY <1>4, FileAssumption
  <2> QED BY <2>1, <2>2, <2>3
<1>6. q * (SectorsPerCluster * BytesPerSector) <= FileLength - 1
  <2>1. n * BytesPerSector \in Int /\ q * (SectorsPerCluster * BytesPerSector) \in Int
    BY <1>4, FileAssumption
  <2> QED BY <1>5, <2>1, SizesArePositive
<1>7. q <= LastCluster
  BY <1>4, <1>6, SizesArePositive, QuotientsGrow DEF LastCluster
<1>8. q \in 0 .. LastCluster
  <2>1. LastCluster \in Nat
    BY SizesArePositive, Divides DEF LastCluster
  <2> QED BY <1>4, <1>7, <2>1
<1>9. n \in FileSectors
  <2>1. (FileLength - 1) \div BytesPerSector \in Nat
    BY FileAssumption, SizesArePositive, Divides
  <2> QED BY <1>1, <2>1 DEF FileSectors
<1> QED BY <1>3, <1>8, <1>9 DEF q

LEMMA ClustersOfFile ==
  /\ LastCluster \in Nat /\ LastCluster <= FileLength - 1
  /\ \A k \in 0 .. LastCluster : Cluster[k] \in Clusters /\ k \in DOMAIN Cluster
                                 /\ k < NotUsed
<1> DEFINE b == SectorsPerCluster * BytesPerSector
<1>0. b \in Nat \ {0}
  BY SizesArePositive
<1>1. LastCluster \in Nat /\ LastCluster * b <= FileLength - 1
  <2> DEFINE r == (FileLength - 1) % b
  <2>1. /\ LastCluster \in Nat /\ r \in 0 .. b - 1
        /\ FileLength - 1 = LastCluster * b + r
    BY <1>0, SizesArePositive, Divides DEF LastCluster
  <2> HIDE DEF b, r
  <2>2. LastCluster * b \in Nat
    BY <1>0, <2>1
  <2> QED BY <1>0, <2>1, <2>2, SizesArePositive
<1>2. LastCluster <= FileLength - 1
  <2> HIDE DEF b
  <2>1. CASE LastCluster = 0
    BY <2>1, SizesArePositive
  <2>2. CASE LastCluster > 0
    <3>1. b * LastCluster >= LastCluster /\ b * LastCluster = LastCluster * b
      BY <1>0, <1>1, ProductGrows
    <3>2. LastCluster * b \in Nat
      BY <1>0, <1>1
    <3> QED BY <1>1, <3>1, <3>2, SizesArePositive
  <2> QED BY <1>1, <2>1, <2>2
<1>3. ASSUME NEW k \in 0 .. LastCluster
      PROVE  Cluster[k] \in Clusters /\ k \in DOMAIN Cluster /\ k < NotUsed
  <2>1. Cluster[k] \in Clusters
    BY FileAssumption DEF LastCluster
  <2> QED BY <1>1, <1>2, <2>1, FileAssumption, SizesArePositive
<1> QED BY <1>1, <1>2, <1>3

\* The lookup finds the cluster of any index of the file, wherever it starts.
LEMMA ClusterOfIs ==
  ASSUME LookupRight, NEW idx \in 0 .. LastCluster
  PROVE  ClusterOf(idx) = Cluster[idx]
<1> DEFINE last == last_fat_lookup.ClusterIdx
           current == last_fat_lookup.CurrentCluster
<1>1. idx < NotUsed /\ idx \in Nat /\ idx \in DOMAIN Cluster
  BY ClustersOfFile
<1>2. CASE last_fat_lookup = [ClusterIdx |-> NotUsed, CurrentCluster |-> NotUsed]
  <2>1. idx # last
    BY <1>1, <1>2, SizesArePositive
  <2>2. ~ IsNext(idx)
    <3>1. (last + 1) % WORD_MOD = 0
      BY <1>2, FileAssumption DEF NotUsed
    <3> QED BY <3>1 DEF IsNext
  <2> QED BY <2>1, <2>2 DEF ClusterOf
<1>3. CASE last \in 0 .. LastCluster /\ current = Cluster[last]
  <2>1. last < NotUsed /\ last \in Nat /\ last \in DOMAIN Cluster /\ Cluster[last] \in Clusters
    BY <1>3, ClustersOfFile
  <2>2. CASE idx = last
    BY <1>3, <2>2 DEF ClusterOf
  <2>3. CASE idx # last /\ IsNext(idx)
    <3>1. idx = last + 1
      <4>1. last + 1 < WORD_MOD
        BY <2>1, FileAssumption DEF NotUsed
      <4>2. (last + 1) % WORD_MOD = last + 1
        BY <2>1, <4>1, SizesArePositive, SmallRest
      <4> QED BY <2>3, <4>2 DEF IsNext
    <3>2. current # LAST
      BY <1>3, <2>1, FileAssumption
    <3>3. \A n \in DOMAIN Cluster : Cluster[n] = current => n = last
      BY <1>3, <2>1, <3>2, FileAssumption
    <3>4. (CHOOSE n \in DOMAIN Cluster : Cluster[n] = current) = last
      BY <1>3, <2>1, <3>3
    <3>5. Successor(current) = Cluster[last + 1]
      BY <3>2, <3>4 DEF Successor
    <3> QED BY <2>1, <2>3, <3>1, <3>5, SizesArePositive DEF ClusterOf
  <2>4. CASE idx # last /\ ~ IsNext(idx)
    BY <2>4 DEF ClusterOf
  <2> QED BY <2>2, <2>3, <2>4
<1> QED BY <1>2, <1>3 DEF LookupRight

-----------------------------------------------------------------------------
(* The steps.                                                              *)

\* A lookup of any sector of the file leaves LookupRight.
LEMMA FileInitInvariant == FileInit => FileIInv
<1> SUFFICES ASSUME FileInit PROVE FileIInv
  OBVIOUS
<1>1. NotUsed \in Nat /\ 0 \in 0 .. FileLength /\ 0 \in 0 .. BytesPerSector - 1
  BY FileAssumption, SizesArePositive
<1>2. data \in SectorData
  <2>1. Lba(Start, 0) \in Lbas
    BY FileAssumption DEF Lbas
  <2> QED BY <2>1, FileAssumption DEF FileInit
<1>3. FileTypeOK
  <2>1. handle \in {"closed", "open", "read"} /\ written \in BOOLEAN
    BY DEF FileInit
  <2>2. /\ bytenum \in 0 .. FileLength /\ address \in Nat
        /\ want \in Nat /\ sector \in Nat /\ from \in 0 .. FileLength
        /\ offset \in 0 .. BytesPerSector - 1
    BY <1>1 DEF FileInit
  <2>3. last_fat_lookup \in [ClusterIdx : Nat, CurrentCluster : Clusters \cup {NotUsed}]
    BY <1>1 DEF FileInit
  <2>4. buffer \in Seq(Bytes) /\ Len(buffer) <= want
    BY DEF FileInit
  <2>5. card \in [Lbas -> SectorData]
    BY FileAssumption DEF FileInit
  <2> QED BY <1>2, <2>1, <2>2, <2>3, <2>4, <2>5 DEF FileTypeOK
<1>4. LookupRight /\ BufferRight /\ ReadSoFar
  BY DEF FileInit, LookupRight, BufferRight, ReadSoFar
<1> QED BY <1>3, <1>4 DEF FileIInv

\* The sectors of the file are on the card.
LEMMA FileLbas ==
  ASSUME NEW n \in Nat, n * BytesPerSector <= FileLength - 1
  PROVE  FileLba(n) \in Lbas
<1>1. Cluster[n \div SectorsPerCluster] \in Clusters
  BY SectorInFile, ClustersOfFile
<1>2. n % SectorsPerCluster \in 0 .. SectorsPerCluster - 1
  BY FileAssumption, Divides
<1> QED BY <1>1, <1>2 DEF FileLba, Lbas

\* Where a sector of a read is, and how much of it is copied.
LEMMA ReadPlace ==
  ASSUME FileIInv, handle = "read", Len(buffer) < want
  PROVE  /\ sector * BytesPerSector + offset = bytenum
         /\ sector \in FileSectors /\ sector < NotUsed
         /\ sector * BytesPerSector <= FileLength - 1
         /\ ClusterOf(ClusterIdx) = Cluster[ClusterIdx]
         /\ Cluster[ClusterIdx] \in Clusters
         /\ ClusterIdx \in 0 .. LastCluster
         /\ Lba(ClusterOf(ClusterIdx), sector % SectorsPerCluster) = FileLba(sector)
<1>1. /\ sector \in Nat /\ offset \in 0 .. BytesPerSector - 1 /\ Len(buffer) \in Nat
      /\ want \in Nat /\ from \in Nat
  BY FileAssumption, SizesArePositive DEF FileIInv, FileTypeOK
<1>2. /\ sector * BytesPerSector + offset = bytenum /\ bytenum = from + Len(buffer)
      /\ from + want <= FileLength
  BY DEF FileIInv, ReadSoFar
<1>3. sector * BytesPerSector <= FileLength - 1
  <2>1. sector * BytesPerSector \in Nat
    BY <1>1, FileAssumption
  <2> QED BY <1>1, <1>2, <2>1, FileAssumption, SizesArePositive
<1>4. /\ sector \in FileSectors /\ sector < NotUsed
      /\ ClusterIdx \in 0 .. LastCluster
  BY <1>1, <1>3, SectorInFile DEF ClusterIdx
<1>5. ClusterOf(ClusterIdx) = Cluster[ClusterIdx]
  BY <1>4, ClusterOfIs DEF FileIInv
<1>6. Lba(ClusterOf(ClusterIdx), sector % SectorsPerCluster) = FileLba(sector)
  BY <1>5 DEF FileLba, ClusterIdx
<1>7. Cluster[ClusterIdx] \in Clusters
  BY <1>4, ClustersOfFile
<1> QED BY <1>2, <1>3, <1>4, <1>5, <1>6, <1>7

\* The copied bytes of a sector are those of the file.
LEMMA ChunkIsFile ==
  ASSUME FileIInv, handle = "read", Len(buffer) < want,
         NEW j \in 1 .. ChunkSize
  PROVE  /\ offset + j - 1 \in 0 .. BytesPerSector - 1
         /\ FileByte(bytenum + j - 1) = card[FileLba(sector)][offset + j - 1]
<1>1. /\ sector \in Nat /\ offset \in 0 .. BytesPerSector - 1 /\ Len(buffer) \in Nat
      /\ want \in Nat /\ BytesPerSector \in Nat \ {0}
  BY FileAssumption DEF FileIInv, FileTypeOK
<1>2. ChunkSize <= BytesPerSector - offset /\ ChunkSize \in Int
  BY <1>1 DEF ChunkSize
<1>3. offset + j - 1 \in 0 .. BytesPerSector - 1
  BY <1>1, <1>2
<1>4. bytenum = sector * BytesPerSector + offset
  BY ReadPlace
<1> DEFINE b == sector * BytesPerSector
<1>5. b \in Nat
  BY <1>1
<1>6. bytenum = b + offset
  BY <1>4
<1> HIDE DEF b
<1>7. bytenum + j - 1 = b + (offset + j - 1) /\ bytenum + j - 1 \in Nat
  BY <1>1, <1>5, <1>6, <1>3
<1>8. bytenum + j - 1 = sector * BytesPerSector + (offset + j - 1)
  BY <1>7 DEF b
<1> DEFINE a == bytenum + j - 1
           r == offset + j - 1
<1>9. a \div BytesPerSector = sector /\ a % BytesPerSector = r
  <2>1. a \in Nat /\ r \in 0 .. BytesPerSector - 1 /\ a = sector * BytesPerSector + r
    BY <1>3, <1>7, <1>8
  <2> HIDE DEF a, r
  <2> QED BY <1>1, <2>1, DividedIs
<1> QED BY <1>3, <1>9 DEF FileByte

\* One sector of fl_fread.
LEMMA FreadSectorKeeps == ASSUME FileIInv, FreadSector PROVE FileIInv'
<1> DEFINE m == ChunkSize
<1>0. /\ handle = "read" /\ Len(buffer) < want /\ FileTypeOK /\ ReadSoFar
      /\ LookupRight /\ BufferRight
  BY DEF FreadSector, FileIInv
<1>1. /\ sector \in Nat /\ offset \in 0 .. BytesPerSector - 1 /\ Len(buffer) \in Nat
      /\ want \in Nat /\ from \in Nat /\ BytesPerSector \in Nat \ {0}
      /\ buffer \in Seq(Bytes)
  BY <1>0, FileAssumption, SizesArePositive DEF FileTypeOK
<1>2. /\ bytenum = from + Len(buffer) /\ from + want <= FileLength /\ ~ written
      /\ \A k \in 1 .. Len(buffer) : buffer[k] = FileByte(from + k - 1)
  BY <1>0 DEF ReadSoFar
<1>3. /\ m \in 1 .. BytesPerSector - offset /\ Len(buffer) + m <= want
      /\ Len(buffer) + m < want => m = BytesPerSector - offset
  BY <1>0, <1>1 DEF ChunkSize
<1>4. /\ sector * BytesPerSector + offset = bytenum
      /\ sector \in FileSectors /\ sector < NotUsed
      /\ sector * BytesPerSector <= FileLength - 1
      /\ ClusterOf(ClusterIdx) = Cluster[ClusterIdx]
      /\ Cluster[ClusterIdx] \in Clusters
      /\ ClusterIdx \in 0 .. LastCluster
      /\ Lba(ClusterOf(ClusterIdx), sector % SectorsPerCluster) = FileLba(sector)
  BY <1>0, ReadPlace
<1>5. data' = card[FileLba(sector)] /\ address' = sector
  <2>1. CASE Buffered
    <3>1. address # NotUsed
      BY <1>1, <1>4, <2>1, SizesArePositive DEF Buffered
    <3> QED BY <1>0, <1>2, <2>1, <3>1 DEF Buffered, BufferRight, FreadSector
  <2>2. CASE ~ Buffered
    BY <1>4, <2>2 DEF FreadSector
  <2> QED BY <2>1, <2>2
<1>6. card' = card /\ data' \in SectorData
  <2>1. FileLba(sector) \in Lbas
    BY <1>1, <1>4, FileLbas
  <2> QED BY <1>0, <1>5, <2>1 DEF FreadSector, FileTypeOK
<1>7. LookupRight' /\ (last_fat_lookup \in [ClusterIdx : Nat, CurrentCluster : Clusters \cup {NotUsed}])'
  <2>1. CASE Buffered
    BY <1>0, <2>1 DEF FreadSector, LookupRight, FileTypeOK
  <2>2. CASE ~ Buffered
    <3>1. last_fat_lookup' = [ClusterIdx |-> ClusterIdx, CurrentCluster |-> Cluster[ClusterIdx]]
      BY <1>4, <2>2 DEF FreadSector
    <3>2. last_fat_lookup'.ClusterIdx = ClusterIdx
          /\ last_fat_lookup'.CurrentCluster = Cluster[ClusterIdx]
      BY <3>1
    <3>3. LookupRight'
      BY <1>4, <3>2 DEF LookupRight
    <3>4. ClusterIdx \in Nat
      BY <1>4, ClustersOfFile
    <3> QED BY <1>4, <3>1, <3>3, <3>4
  <2> QED BY <2>1, <2>2
<1> DEFINE chunk == Chunk(data')
<1>8. /\ chunk \in Seq(Bytes) /\ Len(chunk) = m
      /\ \A j \in 1 .. m : chunk[j] = FileByte(bytenum + j - 1)
  <2>1. ASSUME NEW j \in 1 .. m
        PROVE  /\ data'[offset + j - 1] \in Bytes
               /\ data'[offset + j - 1] = FileByte(bytenum + j - 1)
    <3>1. /\ offset + j - 1 \in 0 .. BytesPerSector - 1
          /\ FileByte(bytenum + j - 1) = card[FileLba(sector)][offset + j - 1]
      BY <1>0, ChunkIsFile
    <3> QED BY <1>5, <1>6, <3>1 DEF SectorData
  <2>2. chunk = [j \in 1 .. m |-> data'[offset + j - 1]] /\ m \in Nat
    BY <1>1, <1>3 DEF Chunk
  <2> HIDE DEF m, chunk
  <2>3. chunk \in [1 .. m -> Bytes]
    BY <2>1, <2>2
  <2> QED BY <2>1, <2>2, <2>3
<1>9. /\ buffer' = buffer \o chunk /\ bytenum' = bytenum + m
      /\ sector' = sector + 1 /\ offset' = 0
      /\ handle' = handle /\ want' = want /\ written' = written /\ from' = from
  BY DEF FreadSector
<1> HIDE DEF m, chunk
<1>10. /\ buffer' \in Seq(Bytes) /\ Len(buffer') = Len(buffer) + m
       /\ \A k \in 1 .. Len(buffer) : buffer'[k] = buffer[k]
       /\ \A j \in 1 .. m : buffer'[Len(buffer) + j] = chunk[j]
  <2>1. buffer \in Seq(Bytes) /\ chunk \in Seq(Bytes) /\ Len(chunk) = m
    BY <1>0, <1>8 DEF FileTypeOK
  <2>2. buffer' = buffer \o chunk
    BY <1>9
  <2>3. buffer' \in Seq(Bytes) /\ Len(buffer') = Len(buffer) + m
    BY <2>1, <2>2
  <2>4. Len(buffer) \in Nat /\ m \in Nat
    BY <2>1
  <2> QED BY <2>1, <2>2, <2>3, <2>4
<1>11. \A k \in 1 .. Len(buffer') : buffer'[k] = FileByte(from + k - 1)
  <2> SUFFICES ASSUME NEW k \in 1 .. Len(buffer')
               PROVE  buffer'[k] = FileByte(from + k - 1)
    OBVIOUS
  <2>1. CASE k <= Len(buffer)
    BY <1>1, <1>2, <1>10, <2>1
  <2>2. CASE k > Len(buffer)
    <3> DEFINE j == k - Len(buffer)
    <3>1. j \in 1 .. m /\ k = Len(buffer) + j /\ bytenum + j - 1 = from + k - 1
      BY <1>1, <1>2, <1>3, <1>10, <2>2
    <3>2. buffer'[k] = chunk[j]
      BY <1>10, <3>1
    <3>3. chunk[j] = FileByte(bytenum + j - 1)
      BY <1>8, <3>1
    <3> QED BY <3>1, <3>2, <3>3
  <2> QED BY <1>1, <1>10, <2>1, <2>2
<1>12. ReadSoFar'
  <2>1. \A k \in 1 .. Len(buffer') : buffer'[k] = (FileByte(from + k - 1))'
    BY <1>6, <1>9, <1>11 DEF FileByte, FileLba
  <2>2. bytenum' = from' + Len(buffer') /\ Len(buffer') <= want'
    BY <1>1, <1>2, <1>3, <1>9, <1>10
  <2>3. Len(buffer') < want' => sector' * BytesPerSector + offset' = bytenum'
    <3> SUFFICES ASSUME Len(buffer') < want'
                 PROVE  sector' * BytesPerSector + offset' = bytenum'
      OBVIOUS
    <3> DEFINE b == sector * BytesPerSector
    <3>1. m = BytesPerSector - offset
      BY <1>3, <1>9, <1>10
    <3>2. b \in Nat /\ (sector + 1) * BytesPerSector = b + BytesPerSector
      BY <1>1
    <3>3. b + offset = bytenum
      BY <1>4
    <3>4. sector' * BytesPerSector = b + BytesPerSector
      BY <1>9, <3>2
    <3> HIDE DEF b
    <3> QED BY <1>1, <1>9, <3>1, <3>2, <3>3, <3>4
  <2> QED BY <1>2, <1>9, <2>1, <2>2, <2>3 DEF ReadSoFar
<1>13. BufferRight'
  BY <1>4, <1>5, <1>6 DEF BufferRight, FileLba
<1>14. FileTypeOK'
  <2>1. bytenum' \in 0 .. FileLength
    BY <1>1, <1>2, <1>3, <1>9, SizesArePositive
  <2>2. Len(buffer') <= want'
    BY <1>3, <1>9, <1>10
  <2>3. offset' \in 0 .. BytesPerSector - 1 /\ sector' \in Nat
    BY <1>1, <1>9
  <2>4. address' \in Nat
    BY <1>1, <1>5
  <2>5. handle' \in {"closed", "open", "read"} /\ written' \in BOOLEAN /\ card' \in [Lbas -> SectorData]
        /\ want' \in Nat /\ from' \in 0 .. FileLength
    BY <1>0, <1>6, <1>9 DEF FileTypeOK
  <2> QED BY <1>6, <1>7, <1>10, <2>1, <2>2, <2>3, <2>4, <2>5 DEF FileTypeOK
<1> QED BY <1>7, <1>12, <1>13, <1>14 DEF FileIInv

\* A read starts at the position it was called at.
LEMMA FreadBeginKeeps == ASSUME FileIInv, FreadBegin PROVE FileIInv'
<1>0. /\ FileTypeOK /\ LookupRight /\ BufferRight
      /\ bytenum \in Nat /\ FileLength \in Nat /\ BytesPerSector \in Nat \ {0}
  BY FileAssumption, SizesArePositive DEF FileIInv, FileTypeOK
<1>1. PICK count \in Counts : want' = Limited(count)
  BY DEF FreadBegin
<1>2. want' \in Nat /\ bytenum + want' <= FileLength
  <2>1. count \in Nat /\ bytenum < FileLength
    BY FileAssumption DEF FreadBegin
  <2> QED BY <1>0, <1>1, <2>1 DEF Limited
<1>3. /\ sector' \in Nat /\ offset' \in 0 .. BytesPerSector - 1
      /\ sector' * BytesPerSector + offset' = bytenum
  BY <1>0, Divides DEF FreadBegin
<1>4. /\ buffer' = << >> /\ from' = bytenum /\ handle' = "read" /\ bytenum' = bytenum
      /\ UNCHANGED << address, data, last_fat_lookup, card, written >>
  BY DEF FreadBegin
<1>5. FileTypeOK'
  <2>1. buffer' \in Seq(Bytes) /\ Len(buffer') = 0
    BY <1>4
  <2> QED BY <1>0, <1>2, <1>3, <1>4, <2>1 DEF FileTypeOK
<1>6. ReadSoFar'
  <2>1. Len(buffer') = 0
    BY <1>4
  <2>2. \A k \in 1 .. Len(buffer') : buffer'[k] = (FileByte(from + k - 1))'
    BY <2>1
  <2>3. /\ Len(buffer') <= want' /\ bytenum' = from' + Len(buffer')
        /\ from' + want' <= FileLength /\ ~ written'
    <3>1. Len(buffer') <= want'
      BY <1>2, <2>1
    <3>2. bytenum' = from' + Len(buffer')
      BY <1>0, <1>4, <2>1
    <3>3. from' + want' <= FileLength
      BY <1>2, <1>4
    <3>4. ~ written'
      BY DEF FreadBegin
    <3> QED BY <3>1, <3>2, <3>3, <3>4
  <2>4. sector' * BytesPerSector + offset' = bytenum'
    BY <1>3, <1>4
  <2> QED BY <2>2, <2>3, <2>4 DEF ReadSoFar
<1>7. LookupRight' /\ BufferRight'
  BY <1>0, <1>4 DEF LookupRight, BufferRight, FileLba
<1> QED BY <1>5, <1>6, <1>7 DEF FileIInv

LEMMA FseekKeeps == ASSUME FileIInv, Fseek PROVE FileIInv'
<1>0. FileTypeOK /\ LookupRight /\ bytenum \in Int /\ FileLength \in Nat
  BY FileAssumption, SizesArePositive DEF FileIInv, FileTypeOK
<1>1. \A n \in Int : Clamp(n) \in 0 .. FileLength
  BY <1>0 DEF Clamp
<1>2. bytenum' \in 0 .. FileLength
  <2>1. CASE \E o \in Offsets \cap Nat : bytenum' = Clamp(o)
    BY <1>1, <2>1
  <2>2. CASE \E o \in Offsets : bytenum' = Clamp(bytenum + o)
    BY <1>0, <1>1, <2>2, FileAssumption
  <2>3. CASE bytenum' = FileLength
    BY <1>0, <2>3
  <2> QED BY <2>1, <2>2, <2>3 DEF Fseek
<1>3. /\ address' = NotUsed /\ written' = FALSE /\ handle' = "open"
      /\ UNCHANGED << data, last_fat_lookup, want, buffer, offset, sector, from, card >>
  BY DEF Fseek, readVars
<1>4. FileTypeOK'
  BY <1>0, <1>2, <1>3, SizesArePositive DEF FileTypeOK
<1>5. LookupRight' /\ BufferRight' /\ ReadSoFar'
  BY <1>0, <1>3 DEF LookupRight, BufferRight, ReadSoFar
<1> QED BY <1>4, <1>5 DEF FileIInv

\* A write bypasses the buffer, which written records.
LEMMA FswriteKeeps == ASSUME FileIInv, Fswrite PROVE FileIInv'
<1>1. PICK n \in WriteSectors : \E d \in SectorData : FswriteSector(n, d)
  BY DEF Fswrite
<1>2. PICK d \in SectorData : FswriteSector(n, d)
  BY <1>1
<1>3. /\ handle' = "open" /\ written' = TRUE /\ card' = [card EXCEPT ![WriteLba(n)] = d]
      /\ UNCHANGED << bytenum, address, data, last_fat_lookup, want, buffer, offset,
                      sector, from >>
  BY <1>2 DEF FswriteSector, readVars
<1>4. FileTypeOK /\ LookupRight /\ BufferRight
  BY DEF FileIInv
<1>5. FileTypeOK'
  <2>1. card' \in [Lbas -> SectorData]
    BY <1>2, <1>3, <1>4 DEF FileTypeOK
  <2> QED BY <1>3, <1>4, <2>1 DEF FileTypeOK
<1>6. LookupRight' /\ BufferRight' /\ ReadSoFar'
  BY <1>3, <1>4 DEF LookupRight, BufferRight, ReadSoFar
<1> QED BY <1>5, <1>6 DEF FileIInv

LEMMA OthersKeep ==
  ASSUME FileIInv, Fopen \/ Fclose \/ FreadReturns \/ UNCHANGED fileVars PROVE FileIInv'
<1>0. FileTypeOK /\ LookupRight /\ BufferRight /\ ReadSoFar /\ NotUsed \in Nat
      /\ 0 \in 0 .. FileLength
  BY FileAssumption, SizesArePositive DEF FileIInv
<1>1. CASE Fopen
  <2>1. FileTypeOK'
    BY <1>0, <1>1 DEF Fopen, FileTypeOK, readVars
  <2> QED
    BY <1>1, <2>1 DEF Fopen, FileIInv, LookupRight, BufferRight, ReadSoFar
<1>2. CASE Fclose
  <2>1. FileTypeOK'
    BY <1>0, <1>2 DEF Fclose, FileTypeOK, readVars
  <2> QED
    BY <1>0, <1>2, <2>1 DEF Fclose, FileIInv, LookupRight, BufferRight, ReadSoFar
<1>3. CASE FreadReturns
  <2>1. FileTypeOK'
    BY <1>0, <1>3 DEF FreadReturns, FileTypeOK, readVars
  <2> QED
    BY <1>0, <1>3, <2>1
    DEF FreadReturns, FileIInv, LookupRight, BufferRight, ReadSoFar, FileLba
<1>4. CASE UNCHANGED fileVars
  BY <1>0, <1>4 DEF fileVars, readVars, FileIInv, FileTypeOK, LookupRight, BufferRight, ReadSoFar,
                    FileLba, FileByte
<1> QED BY <1>1, <1>2, <1>3, <1>4

-----------------------------------------------------------------------------
(* The theorems.                                                           *)

\* What holds between the calls of fat_filelib.c and between the sectors of
\* fl_fread: the cluster looked up last is the one of its index in the file's
\* chain, the buffer is the sector it is said to be, and a read has copied the
\* bytes from where it began.
THEOREM FileInvariant == FileSpec => []FileIInv
<1>1. FileInit => FileIInv
  BY FileInitInvariant
<1>2. FileIInv /\ [FileNext]_fileVars => FileIInv'
  BY FreadSectorKeeps, FreadBeginKeeps, FseekKeeps, FswriteKeeps, OthersKeep DEF FileNext
<1> QED BY <1>1, <1>2, PTL DEF FileSpec

\* fl_fread delivers the bytes of the file from its position on, as many as
\* asked for or as there are, for every file, card, chain and sequence of
\* reads, seeks and writes: the end of the chain is never met, and a cluster
\* found from the last one looked up is the one counted from the start.
THEOREM FreadDelivers == FileSpec => FreadDeliversFile
<1>1. ASSUME FileIInv, FreadReturns
      PROVE  /\ buffer = [k \in 1 .. want |-> FileByte(from + k - 1)]
             /\ bytenum = from + want
  <2>1. handle = "read"
    BY <1>1 DEF FreadReturns
  <2>2. /\ Len(buffer) <= want /\ bytenum = from + Len(buffer)
        /\ \A k \in 1 .. Len(buffer) : buffer[k] = FileByte(from + k - 1)
        /\ buffer \in Seq(Bytes) /\ want \in Nat /\ from \in Nat /\ Len(buffer) \in Nat
    BY <1>1, <2>1 DEF FileIInv, ReadSoFar, FileTypeOK
  <2>3. Len(buffer) >= want
    <3>1. ASSUME Len(buffer) < want, ClusterOf(ClusterIdx) = LAST PROVE FALSE
      BY <1>1, <2>1, <3>1, ReadPlace, FileAssumption
    <3> QED BY <1>1, <2>2, <3>1 DEF FreadReturns
  <2>4. Len(buffer) = want
    BY <2>2, <2>3
  <2>5. buffer = [k \in 1 .. Len(buffer) |-> buffer[k]]
    BY <2>2
  <2> QED BY <2>2, <2>4, <2>5
<1>2. FileIInv /\ [FileNext]_fileVars =>
        [FreadReturns => /\ buffer = [k \in 1 .. want |-> FileByte(from + k - 1)]
                         /\ bytenum = from + want]_fileVars
  BY <1>1
<1> QED BY <1>2, FileInvariant, PTL DEF FileSpec, FreadDeliversFile

\* fl_fswrite of a sector within the file's first cluster changes that sector
\* of the file and nothing else, for every file and card: fectrl.c writes no
\* other ones as long as the configuration is not longer than a cluster.
THEOREM FswriteInFirstCluster ==
  ASSUME \A n \in WriteSectors : n < SectorsPerCluster
  PROVE  FileSpec => FswriteChangesSector
<1>1. ASSUME NEW n \in WriteSectors PROVE WriteLba(n) = FileLba(n)
  <2>1. n \in Nat /\ SectorsPerCluster \in Nat \ {0} /\ n < SectorsPerCluster
    BY FileAssumption
  <2>2. n = 0 * SectorsPerCluster + n /\ n \in 0 .. SectorsPerCluster - 1
    BY <2>1
  <2>3. n \div SectorsPerCluster = 0 /\ n % SectorsPerCluster = n
    BY <2>1, <2>2, DividedIs
  <2> QED BY <2>3, FileAssumption DEF WriteLba, FileLba
<1>2. [FileNext]_fileVars =>
        [\A n \in WriteSectors, d \in SectorData :
           FswriteSector(n, d) => card' = [card EXCEPT ![FileLba(n)] = d]]_fileVars
  BY <1>1 DEF FswriteSector
<1> QED BY <1>2, PTL DEF FileSpec, FswriteChangesSector

=============================================================================
