---------------------------- MODULE CpcxfsProofs ----------------------------
(***************************************************************************)
(* cpcxfs, for every list of built-in formats and every definition file:   *)
(* its sessions, and where a format says that an image's tracks, sectors   *)
(* and blocks are; and, for every set of files, what CpmStore promises.    *)
(***************************************************************************)
EXTENDS CpmSession, Numbers, FiniteSetTheorems

CONSTANT Files
VARIABLES live, kept, touched

\* What the commands on the files of an image promise.
Store == INSTANCE CpmStore

\* The elements of the definition files, and those delivered over and over for
\* some of them.
Lined == UNION {UNION {{file[i][n] : n \in 1 .. Len(file[i])} : i \in 1 .. Len(file)} : file \in Defs}
Elements == Lined \cup {t.value : t \in {u \in Lined : u.type = "again"}}

BuiltInValues ==
  {BuiltIn[k].ident : k \in DOMAIN BuiltIn}
  \cup UNION {{BuiltIn[k].dpb[f] : f \in DOMAIN EmptyFormat} : k \in DOMAIN BuiltIn}

Values == {t.value : t \in Elements} \cup BuiltInValues \cup Int \cup Orders \cup {""}

Fields == DOMAIN EmptyFormat
FormatRecords == [Fields -> Values]
Entries == [ident : Values, dpb : FormatRecords]

Expected ==
  DOMAIN NumberField \cup DOMAIN Following
  \cup {"BEGIN", "SOFS", "SKEW", "LABEL", "ORDER", "statement", "end of line", "head",
        "first id", "next id", "ids"}

Ids == Int

Readers ==
  [status : {"reading", "quit", "hung", "crashed"}, expect : Expected,
   side : {"", "SIDE1", "SIDE2"}, id : Ids, temp : FormatRecords,
   ident : Values, list : Seq(Entries), ended : Seq(FormatRecords)]

\* No two formats of a list are alike, and those that were ended are in it.
Apart(list) ==
  \A j, k \in DOMAIN list : j # k => ~ SameFormat(list[j].dpb, list[k].dpb)

Covers(list, formats) ==
  \A e \in DOMAIN formats : \E k \in DOMAIN list : SameFormat(list[k].dpb, formats[e])

Sound(st) == Apart(st.list) /\ Covers(st.list, st.ended)

States == {st \in Readers : Sound(st)}

-----------------------------------------------------------------------------
LEMMA FieldsAre ==
  Fields = {"SEC1_side1", "SEC1_side2", "SECS", "TRKS", "HDS", "BPS", "BSH", "BLM", "EXM",
            "DSM", "DRM", "AL0", "AL1", "OFS", "order", "side0_hd", "side1_hd", "skew"}
BY DEF Fields, EmptyFormat

\* What the reader compares is what makes two formats the same,
LEMMA MatchIsSame ==
  ASSUME NEW a, NEW b
  PROVE  dpb_match(a, b) <=> SameFormat(a, b)
BY FieldsAre DEF dpb_match, dpb_compare_sector_id, SameFormat, Fields

\* whichever of the two is looked at first and what they are compared with.
LEMMA SameIsSymmetric ==
  ASSUME NEW a, NEW b, SameFormat(a, b)
  PROVE  SameFormat(b, a)
<1>1. a.HDS = b.HDS
  BY FieldsAre DEF SameFormat, Fields
<1> QED BY <1>1 DEF SameFormat

LEMMA SameIsTransitive ==
  ASSUME NEW a, NEW b, NEW c, SameFormat(a, b), SameFormat(b, c)
  PROVE  SameFormat(a, c)
<1>1. a.HDS = b.HDS
  BY FieldsAre DEF SameFormat, Fields
<1> QED BY <1>1 DEF SameFormat

LEMMA SameAsItself == ASSUME NEW a PROVE SameFormat(a, a)
BY DEF SameFormat

-----------------------------------------------------------------------------
(* The reader of definition files.                                         *)

LEMMA NumbersAreValues == 0 \in Values /\ 1 \in Values /\ Int \subseteq Values
BY DEF Values

LEMMA OrdersAreValues == Orders \subseteq Values
BY DEF Values

LEMMA EmptyIsFormat == EmptyFormat \in FormatRecords
<1>1. \A f \in Fields : EmptyFormat[f] \in {0, "SIDES"}
  BY FieldsAre DEF EmptyFormat
<1>2. {0, "SIDES"} \subseteq Values
  BY NumbersAreValues, OrdersAreValues DEF Orders
<1>3. EmptyFormat = [f \in Fields |-> EmptyFormat[f]]
  BY DEF EmptyFormat, Fields
<1> QED BY <1>1, <1>2, <1>3 DEF FormatRecords

\* What becomes of a reader whose lists change.
LEMMA ReaderWith ==
  ASSUME NEW st \in Readers, NEW d, NEW closed, NEW list, NEW r,
         r = [st EXCEPT !.temp = d, !.ended = closed, !.list = list]
  PROVE  r = [status |-> st.status, expect |-> st.expect, side |-> st.side, id |-> st.id,
              temp |-> d, ident |-> st.ident, list |-> list, ended |-> closed]
BY DEF Readers

LEMMA ValueOf == ASSUME NEW t \in Elements PROVE t.value \in Values
BY DEF Values

\* A number of a definition file, whole or as the field keeps it.
LEMMA NumberOf ==
  ASSUME NEW t \in Elements, t.type = "number"
  PROVE  t.value \in Int /\ \A w \in {UCHAR, USHORT} : t.value % w \in Values
<1>1. ASSUME NEW u \in Lined
      PROVE  NumbersHold(u) /\ (u.type = "again" => NumbersHold(u.value))
  <2>1. PICK file \in Defs : \E i \in 1 .. Len(file) : \E n \in 1 .. Len(file[i]) : u = file[i][n]
    BY <1>1 DEF Lined
  <2>2. PICK i \in 1 .. Len(file) : \E n \in 1 .. Len(file[i]) : u = file[i][n]
    BY <2>1
  <2>3. PICK n \in 1 .. Len(file[i]) : u = file[i][n]
    BY <2>2
  <2>4. LET t1 == file[i][n]
        IN NumbersHold(t1) /\ (t1.type = "again" => NumbersHold(t1.value))
    BY <2>1, <2>2, <2>3, SessionAssumption
  <2> QED BY <2>3, <2>4
<1>2. NumbersHold(t)
  <2>1. CASE t \in Lined
    BY <2>1, <1>1
  <2>2. CASE \E u \in Lined : u.type = "again" /\ t = u.value
    BY <2>2, <1>1
  <2> QED BY <2>1, <2>2 DEF Elements
<1>3. t.value \in Nat
  BY <1>2 DEF NumbersHold
<1>4. \A w \in {UCHAR, USHORT} : t.value % w \in Int
  BY <1>3, SMT DEF UCHAR, USHORT
<1> QED BY <1>3, <1>4, NumbersAreValues

\* A format that is ended is put into the list unless one like it is there.
LEMMA EndKeeps ==
  ASSUME NEW st \in States
  PROVE  EndFormat(st) \in States
<1> DEFINE d == [st.temp EXCEPT !.skew = IF @ = 0 THEN 1 ELSE @]
           closed == Append(st.ended, d)
           new == [ident |-> st.ident, dpb |-> d]
           there == dpb_check_if_matching_format_exists(st.list, d)
           list == IF there THEN st.list ELSE Append(st.list, new)
           r == EndFormat(st)
<1>0. st \in Readers /\ Apart(st.list) /\ Covers(st.list, st.ended)
  BY DEF States, Sound
<1>1. d \in FormatRecords
  <2>1. st.temp \in [Fields -> Values] /\ 1 \in Values
    BY <1>0, NumbersAreValues DEF Readers, FormatRecords
  <2>2. "skew" \in Fields
    BY FieldsAre
  <2> QED BY <2>1, <2>2 DEF FormatRecords
<1>2. r = [status |-> st.status, expect |-> st.expect, side |-> st.side, id |-> st.id,
           temp |-> d, ident |-> st.ident, list |-> list, ended |-> closed]
  <2>1. EndFormat(st) = [st EXCEPT !.temp = d, !.ended = closed, !.list = list]
    BY DEF EndFormat, dpb_list_add_item
  <2> HIDE DEF d, closed, list
  <2> QED BY <1>0, <2>1, ReaderWith, ZenonT(60)
<1> HIDE DEF d, r
<1>3. new \in Entries
  BY <1>0, <1>1 DEF Readers, Entries
<1>4. list \in Seq(Entries) /\ closed \in Seq(FormatRecords)
  <2>1. st.list \in Seq(Entries) /\ st.ended \in Seq(FormatRecords)
    BY <1>0 DEF Readers
  <2> HIDE DEF new, there
  <2> QED BY <1>1, <1>3, <2>1
<1>5. r \in Readers
  BY <1>0, <1>1, <1>2, <1>4 DEF Readers
<1>6. st.list \in Seq(Entries) /\ st.ended \in Seq(FormatRecords)
  BY <1>0 DEF Readers
<1>7. Apart(list) /\ \E k \in DOMAIN list : SameFormat(list[k].dpb, d)
  <2>1. CASE there
    BY <1>0, <2>1, MatchIsSame DEF dpb_check_if_matching_format_exists
  <2>2. CASE ~ there
    <3>1. /\ DOMAIN list = 1 .. Len(st.list) + 1 /\ list[Len(st.list) + 1] = new
          /\ Len(st.list) \in Nat /\ DOMAIN st.list = 1 .. Len(st.list)
          /\ \A k \in 1 .. Len(st.list) : list[k] = st.list[k]
      BY <1>3, <1>6, <2>2
    <3>2. \A k \in 1 .. Len(st.list) : ~ SameFormat(list[k].dpb, d)
      BY <2>2, <3>1, MatchIsSame DEF dpb_check_if_matching_format_exists
    <3> HIDE DEF list, there
    <3>3. \A k \in 1 .. Len(st.list) : ~ SameFormat(d, list[k].dpb)
      BY <3>2, SameIsSymmetric
    <3>4. list[Len(st.list) + 1].dpb = d
      BY <3>1
    <3>5. Apart(list)
      BY <1>0, <3>1, <3>2, <3>3, <3>4, SMTT(30) DEF Apart
    <3> QED BY <3>1, <3>4, <3>5, SameAsItself
  <2> QED BY <2>1, <2>2
<1>8. Covers(list, closed)
  <2> SUFFICES ASSUME NEW e \in DOMAIN closed
               PROVE  \E k \in DOMAIN list : SameFormat(list[k].dpb, closed[e])
    BY DEF Covers
  <2>1. /\ Len(st.ended) \in Nat /\ DOMAIN st.ended = 1 .. Len(st.ended)
        /\ DOMAIN closed = 1 .. Len(st.ended) + 1 /\ closed[Len(st.ended) + 1] = d
        /\ \A k \in 1 .. Len(st.ended) : closed[k] = st.ended[k]
    BY <1>1, <1>6
  <2>2. \A k \in DOMAIN st.list : k \in DOMAIN list /\ list[k] = st.list[k]
    BY <1>3, <1>6
  <2> HIDE DEF list, closed
  <2>3. CASE e = Len(st.ended) + 1
    BY <1>7, <2>1, <2>3
  <2>4. CASE e # Len(st.ended) + 1
    <3>1. e \in DOMAIN st.ended /\ closed[e] = st.ended[e]
      BY <2>1, <2>4
    <3> QED BY <1>0, <2>2, <3>1 DEF Covers
  <2> QED BY <2>3, <2>4
<1>9. r.list = list /\ r.ended = closed
  BY <1>2
<1> QED BY <1>5, <1>7, <1>8, <1>9 DEF States, Sound, r

\* Every other element leaves the lists alone.
Goes(st, r) == r \in Readers /\ r.list = st.list /\ r.ended = st.ended

LEMMA GoneOn ==
  ASSUME NEW st \in States, NEW r, Goes(st, r)
  PROVE  r \in States
BY DEF States, Sound, Goes

LEMMA StatusGoes ==
  ASSUME NEW st \in Readers, NEW v \in {"reading", "quit", "hung", "crashed"},
         NEW r, r = [st EXCEPT !.status = v]
  PROVE  Goes(st, r)
BY DEF Readers, Goes

LEMMA ExpectGoes ==
  ASSUME NEW st \in Readers, NEW v \in Expected, NEW r, r = [st EXCEPT !.expect = v]
  PROVE  Goes(st, r)
BY DEF Readers, Goes

LEMMA FieldGoes ==
  ASSUME NEW st \in Readers, NEW v \in Expected, NEW f, NEW w \in Values,
         NEW r, r = [st EXCEPT !.temp = [@ EXCEPT ![f] = w], !.expect = v]
  PROVE  Goes(st, r)
<1> DEFINE temp == [st.temp EXCEPT ![f] = w]
<1>1. temp \in FormatRecords
  <2>1. st.temp \in [Fields -> Values]
    BY DEF Readers, FormatRecords
  <2> QED BY <2>1 DEF FormatRecords
<1>2. r = [st EXCEPT !.temp = temp, !.expect = v]
  OBVIOUS
<1> HIDE DEF temp
<1> QED BY <1>1, <1>2 DEF Readers, Goes

LEMMA StaysGoes == ASSUME NEW st \in Readers PROVE Goes(st, st)
BY DEF Goes

LEMMA FollowingExpected ==
  ASSUME NEW e \in DOMAIN Following
  PROVE  Following[e] \in Expected
<1>1. /\ "sectors comma" \in DOMAIN Following /\ "density" \in DOMAIN Following
      /\ "density comma" \in DOMAIN Following /\ "BPS" \in DOMAIN NumberField
  BY DEF Following, NumberField
<1> QED BY <1>1 DEF Following, Expected

LEMMA NumberGoes ==
  ASSUME NEW st \in Readers, NEW t \in Elements, st.expect \in DOMAIN NumberField
  PROVE  Goes(st, Number(st, t))
<1> DEFINE v == Following[st.expect]
           r == Number(st, t)
           f == NumberField[st.expect]
<1>1. v \in Expected
  <2>1. st.expect \in DOMAIN Following
    BY DEF Following
  <2> QED BY <2>1, FollowingExpected
<1> DEFINE reduced == t.value % FieldRange[f]
<1>2. /\ t.type # "number" => r = [st EXCEPT !.status = "quit"]
      /\ t.type = "number" => r = [st EXCEPT !.temp = [@ EXCEPT ![f] = reduced], !.expect = v]
  BY DEF Number, Quit, Readers
<1>4. t.type = "number" => reduced \in Values
  <2>1. f \in DOMAIN EmptyFormat
    BY DEF NumberField, EmptyFormat
  <2>2. FieldRange[f] \in {UCHAR, USHORT}
    BY <2>1 DEF FieldRange
  <2> HIDE DEF f
  <2> QED BY <2>2, NumberOf
<1> HIDE DEF v, r, f, reduced
<1>3. Goes(st, r)
  BY <1>1, <1>2, <1>4, StatusGoes, FieldGoes
<1> QED BY <1>3 DEF r

LEMMA FieldNames ==
  DOMAIN NumberField = {"BSH", "BLM", "EXM", "DSM", "DRM", "AL0", "AL1", "OFS", "CYLINDERS",
                        "SIDES", "SECTORS", "BPS"}
BY DEF NumberField

LEMMA StatementKeeps ==
  ASSUME NEW st \in States, NEW t
  PROVE  Statement(st, t) \in States
<1> DEFINE r == Statement(st, t)
<1>1. st \in Readers
  BY DEF States
<1>2. \/ r = EndFormat(st) \/ r = st
      \/ \E v \in Expected : r = [st EXCEPT !.expect = v]
      \/ r = [st EXCEPT !.expect = "head", !.side = t.value] /\ t.value \in {"SIDE1", "SIDE2"}
  <2> DEFINE words == (DOMAIN NumberField \ {"BPS"})
                        \cup {"BEGIN", "SOFS", "SKEW", "LABEL", "DENSITY", "ORDER"}
  <2>1. words \cup {"end of line", "head"} \subseteq Expected
    BY DEF Expected, Following
  <2>2. /\ t.type # "keyword" => r = st
        /\ t.type = "keyword" => r = Keyword(st, t.value)
    BY DEF Statement
  <2> DEFINE k == Keyword(st, t.value)
  <2>3. /\ t.value = "END" => k = EndFormat(st)
        /\ t.value = "NOTE" => k = [st EXCEPT !.expect = "end of line"]
        /\ t.value \in {"SIDE1", "SIDE2"} => k = [st EXCEPT !.expect = "head", !.side = t.value]
    BY FieldNames DEF Keyword
  <2>4. t.value \notin {"END", "NOTE", "SIDE1", "SIDE2"} =>
          k = IF t.value \in words THEN [st EXCEPT !.expect = t.value] ELSE st
    BY DEF Keyword
  <2> HIDE DEF r, words, k
  <2> QED BY <2>1, <2>2, <2>3, <2>4 DEF k
<1> HIDE DEF r
<1>3. ASSUME r = [st EXCEPT !.expect = "head", !.side = t.value], t.value \in {"SIDE1", "SIDE2"}
      PROVE  Goes(st, r)
  <2>1. "head" \in Expected
    BY DEF Expected
  <2> QED BY <1>1, <1>3, <2>1 DEF Readers, Goes
<1>4. r \in States
  <2>1. CASE r = EndFormat(st)
    BY <2>1, EndKeeps
  <2>2. CASE r # EndFormat(st)
    <3>1. Goes(st, r)
      BY <1>1, <1>2, <1>3, <2>2, ExpectGoes, StaysGoes
    <3> QED BY <3>1, GoneOn
  <2> QED BY <2>1, <2>2
<1> QED BY <1>4 DEF r

\* An element that is expected changes the format that is being read and
\* nothing else.
LEMMA SomeExpected ==
  /\ \A e \in {"statement", "end of line", "head", "first id", "next id", "ids"} : e \in Expected
  /\ \A e \in {"sectors comma", "density comma", "DENSITY", "density"} :
       e \in DOMAIN Following /\ Following[e] \in Expected
BY FollowingExpected DEF Expected, Following, NumberField

LEMMA BeginGoes ==
  ASSUME NEW st \in Readers, NEW t \in Elements
  PROVE  Goes(st, BeginFormat(st, t))
<1> DEFINE r == BeginFormat(st, t)
<1>1. \/ r = [st EXCEPT !.status = "crashed"]
      \/ r = [st EXCEPT !.temp = EmptyFormat, !.ident = t.value, !.expect = "end of line"]
  BY DEF BeginFormat
<1> HIDE DEF r
<1>2. ASSUME r = [st EXCEPT !.temp = EmptyFormat, !.ident = t.value, !.expect = "end of line"]
      PROVE  Goes(st, r)
  BY <1>2, SomeExpected, EmptyIsFormat, ValueOf DEF Readers, Goes
<1>3. Goes(st, r)
  BY <1>1, <1>2, StatusGoes
<1> QED BY <1>3 DEF r

LEMMA HeadGoes ==
  ASSUME NEW st \in Readers, NEW t \in Elements
  PROVE  Goes(st, SideHead(st, t))
<1> DEFINE r == SideHead(st, t)
<1> DEFINE reduced == t.value % UCHAR
<1>1. \/ r = [st EXCEPT !.status = "quit"]
      \/ t.type = "number" /\ \E f \in {"side0_hd", "side1_hd"} :
           r = [st EXCEPT !.temp = [@ EXCEPT ![f] = reduced], !.expect = "first id"]
  <2>1. CASE t.type # "number"
    BY <2>1 DEF SideHead, Quit
  <2>2. CASE t.type = "number" /\ st.side = "SIDE1"
    BY <2>2 DEF SideHead
  <2>3. CASE t.type = "number" /\ st.side # "SIDE1"
    BY <2>3 DEF SideHead
  <2> QED BY <2>1, <2>2, <2>3
<1>3. t.type = "number" => reduced \in Values
  BY NumberOf
<1> HIDE DEF r, reduced
<1>2. Goes(st, r)
  BY <1>1, <1>3, StatusGoes, FieldGoes, SomeExpected
<1> QED BY <1>2 DEF r

LEMMA IdGoes ==
  ASSUME NEW st \in Readers, NEW t \in Elements
  PROVE  Goes(st, Id(st, t))
<1> DEFINE r == Id(st, t)
<1>1. \/ r = [st EXCEPT !.status = "quit"]
      \/ t.type = "number" /\ \E v \in {t.value, st.id} : r = [st EXCEPT !.expect = "ids", !.id = v]
  BY DEF Id, Quit
<1> HIDE DEF r
<1>2. ASSUME t.type = "number", NEW v \in {t.value, st.id},
             r = [st EXCEPT !.expect = "ids", !.id = v]
      PROVE  Goes(st, r)
  <2>1. v \in Ids
    BY <1>2, NumberOf DEF Readers, Ids
  <2> QED BY <1>2, <2>1, SomeExpected DEF Readers, Goes
<1>3. Goes(st, r)
  BY <1>1, <1>2, StatusGoes
<1> QED BY <1>3 DEF r

LEMMA IdsEndGoes ==
  ASSUME NEW st \in Readers
  PROVE  Goes(st, IdsEnd(st))
<1> DEFINE r == IdsEnd(st)
           reduced == st.id % USHORT
<1>1. \E f \in {"SEC1_side1", "SEC1_side2"} :
        r = [st EXCEPT !.temp = [@ EXCEPT ![f] = reduced], !.expect = "statement"]
  <2>1. CASE st.side = "SIDE1"
    BY <2>1 DEF IdsEnd, Readers
  <2>2. CASE st.side # "SIDE1"
    BY <2>2 DEF IdsEnd, Readers
  <2> QED BY <2>1, <2>2
<1>2. reduced \in Values
  <2>1. st.id \in Int
    BY DEF Readers, Ids
  <2>2. reduced \in Int
    BY <2>1, SMT DEF USHORT
  <2> QED BY <2>2, NumbersAreValues
<1> HIDE DEF r, reduced
<1>3. Goes(st, r)
  BY <1>1, <1>2, FieldGoes, SomeExpected
<1> QED BY <1>3 DEF r

LEMMA OrderGoes ==
  ASSUME NEW st \in Readers, NEW t \in Elements
  PROVE  Goes(st, Order(st, t))
<1> DEFINE r == Order(st, t)
<1>1. \/ r = [st EXCEPT !.status = "quit"]
      \/ \E v \in Orders :
           r = [st EXCEPT !.temp = [@ EXCEPT !["order"] = v], !.expect = "statement"]
  <2>1. CASE t.type # "keyword"
    BY <2>1 DEF Order, Quit
  <2>2. CASE t.type = "keyword" /\ t.value \in {"CYLINDERS", "EAGLE"}
    BY <2>2 DEF Order, Orders, Readers
  <2>3. CASE t.type = "keyword" /\ t.value \notin {"CYLINDERS", "EAGLE"}
    BY <2>3 DEF Order, Orders, Readers
  <2> QED BY <2>1, <2>2, <2>3
<1> HIDE DEF r
<1>3. Goes(st, r)
  BY <1>1, StatusGoes, FieldGoes, OrdersAreValues, SomeExpected
<1> QED BY <1>3 DEF r

LEMMA ExpectedAre ==
  Expected = DOMAIN NumberField
             \cup {"DENSITY", "density comma", "density", "sectors comma", "BEGIN", "SOFS",
                   "SKEW", "LABEL", "ORDER", "statement", "end of line", "head", "first id",
                   "next id", "ids"}
BY DEF Expected, Following

\* One field of a reader, or one of the format, changes.
Simple(st, t, r) ==
  \/ r = [st EXCEPT !.status = "quit"] \/ r = [st EXCEPT !.status = "hung"]
  \/ r = [st EXCEPT !.status = "crashed"]
  \/ \E v \in Expected : r = [st EXCEPT !.expect = v]
  \/ r = [st EXCEPT !.temp = [@ EXCEPT !["skew"] = t.value], !.expect = "statement"]

LEMMA SimpleGoes ==
  ASSUME NEW st \in Readers, NEW t \in Elements, NEW r, Simple(st, t, r)
  PROVE  Goes(st, r)
BY StatusGoes, ExpectGoes, FieldGoes, ValueOf, SomeExpected DEF Simple

LEMMA ArgumentGoes ==
  ASSUME NEW st \in Readers, NEW t \in Elements,
         st.expect \notin {"statement", "end of line"}
  PROVE  Goes(st, Argument(st, t))
<1> DEFINE r == Argument(st, t)
           e == st.expect
<1>0. e \in Expected
  BY DEF Readers
<1>1. CASE e \in DOMAIN NumberField
  <2>1. r = Number(st, t)
    BY <1>1, FieldNames DEF Argument
  <2> QED BY <1>1, <2>1, NumberGoes
<1>2. CASE e \in {"BEGIN", "head", "first id", "next id"}
  <2>1. r \in {BeginFormat(st, t), SideHead(st, t), Id(st, t)}
    BY <1>2, FieldNames DEF Argument
  <2> HIDE DEF r
  <2>2. Goes(st, r)
    BY <2>1, BeginGoes, HeadGoes, IdGoes
  <2> QED BY <2>2 DEF r
<1>3. CASE e = "ids"
  <2>1. r = IF t.type = "EOL" THEN IdsEnd(st)
            ELSE IF t.type = "comma" THEN [st EXCEPT !.expect = "next id"]
            ELSE [st EXCEPT !.status = "quit"]
    BY <1>3, FieldNames DEF Argument, Quit
  <2> HIDE DEF r
  <2>2. r = IdsEnd(st) \/ Simple(st, t, r)
    BY <2>1, SomeExpected DEF Simple
  <2>3. Goes(st, r)
    BY <2>2, IdsEndGoes, SimpleGoes
  <2> QED BY <2>3 DEF r
<1>4. CASE e \in {"ORDER", "SKEW", "SOFS", "LABEL"}
  <2>1. e = "ORDER" => r = Order(st, t)
    BY FieldNames DEF Argument
  <2>2. e = "SKEW" => r = [st EXCEPT !.expect = "statement", !.temp = [@ EXCEPT !.skew = t.value]]
    BY FieldNames DEF Argument
  <2>3. e = "SOFS" => r = [st EXCEPT !.expect = "statement"]
    BY FieldNames DEF Argument
  <2>4. e = "LABEL" => r = IF t.type # "string" THEN [st EXCEPT !.status = "crashed"]
                           ELSE [st EXCEPT !.expect = "statement"]
    BY FieldNames DEF Argument
  <2>5. [st EXCEPT !.expect = "statement", !.temp = [@ EXCEPT !.skew = t.value]]
        = [st EXCEPT !.temp = [@ EXCEPT !["skew"] = t.value], !.expect = "statement"]
    BY DEF Readers
  <2> HIDE DEF r, e
  <2>6. r = Order(st, t) \/ Simple(st, t, r)
    BY <1>4, <2>1, <2>2, <2>3, <2>4, <2>5, SomeExpected DEF Simple
  <2>7. Goes(st, r)
    BY <2>6, OrderGoes, SimpleGoes
  <2> QED BY <2>7 DEF r
<1>5. CASE e \in {"sectors comma", "density comma", "DENSITY", "density"}
  <2>1. r \in {[st EXCEPT !.status = "quit"], [st EXCEPT !.expect = Following[e]]}
    BY <1>5, FieldNames DEF Argument, Quit, Readers
  <2>2. Following[e] \in Expected
    BY <1>5, SomeExpected
  <2> HIDE DEF r, e
  <2>3. Simple(st, t, r)
    BY <2>1, <2>2 DEF Simple
  <2>4. Goes(st, r)
    BY <2>3, SimpleGoes
  <2> QED BY <2>4 DEF r
<1> QED BY <1>0, <1>1, <1>2, <1>3, <1>4, <1>5, ExpectedAre

LEMMA ElementKeeps ==
  ASSUME NEW st \in States, NEW t \in Elements
  PROVE  Element(st, t) \in States
<1>0. st \in Readers
  BY DEF States
<1> DEFINE r == Element(st, t)
<1>1. CASE st.status # "reading"
  BY <1>1 DEF Element
<1>2. CASE st.status = "reading" /\ st.expect = "end of line"
  <2>1. r = st \/ r = [st EXCEPT !.expect = "statement"]
    BY <1>2 DEF Element
  <2> HIDE DEF r
  <2>2. Goes(st, r)
    BY <1>0, <2>1, ExpectGoes, StaysGoes, SomeExpected
  <2>3. r \in States
    BY <2>2, GoneOn
  <2> QED BY <2>3 DEF r
<1>3. CASE st.status = "reading" /\ st.expect # "end of line" /\ t.type = "other"
  <2>1. r = [st EXCEPT !.status = "hung"]
    BY <1>3 DEF Element, Hung
  <2> HIDE DEF r
  <2>2. r \in States
    BY <1>0, <2>1, StatusGoes, GoneOn
  <2> QED BY <2>2 DEF r
<1>4. CASE st.status = "reading" /\ st.expect = "statement" /\ t.type # "other"
  BY <1>4, StatementKeeps DEF Element
<1>5. CASE st.status = "reading" /\ st.expect \notin {"end of line", "statement"} /\ t.type # "other"
  <2>1. r = Argument(st, t)
    BY <1>5 DEF Element
  <2> QED BY <1>0, <1>5, <2>1, ArgumentGoes, GoneOn
<1> QED BY <1>1, <1>2, <1>3, <1>4, <1>5

\* and one that is delivered over and over,
LEMMA ReadElementKeeps ==
  ASSUME NEW st \in States, NEW t \in Lined
  PROVE  ReadElement(st, t) \in States
<1>1. t \in Elements /\ (t.type = "again" => t.value \in Elements)
  BY DEF Elements
<1>2. CASE t.type # "again"
  BY <1>1, <1>2, ElementKeeps DEF ReadElement
<1>3. CASE t.type = "again"
  <2> DEFINE v == t.value
             first == Element(st, v)
             second == Element(first, v)
             after == Element(second, v)
             r == ReadElement(st, t)
  <2>1. r = after \/ r = [after EXCEPT !.status = "hung"]
    BY <1>3 DEF ReadElement, Again, Hung
  <2>2. v \in Elements
    BY <1>1, <1>3
  <2> HIDE DEF v, first, second, after, r
  <2>3. first \in States
    BY <2>2, ElementKeeps DEF first
  <2>4. second \in States
    BY <2>2, <2>3, ElementKeeps DEF second
  <2>5. after \in States
    BY <2>2, <2>4, ElementKeeps DEF after
  <2>6. after \in Readers
    BY <2>5 DEF States
  <2>7. r \in States
    BY <2>1, <2>5, <2>6, StatusGoes, GoneOn
  <2> QED BY <2>7 DEF r
<1> QED BY <1>2, <1>3

\* So does a line, after any number of its elements,
LEMMA LineKeeps ==
  ASSUME NEW st \in States, NEW line, Len(line) \in Nat,
         \A n \in 1 .. Len(line) : line[n] \in Lined
  PROVE  ReadLine(st, line) \in States
<1> DEFINE n == Len(line)
           T == [x \in States \X (1 .. n) |-> ReadElement(x[1], line[x[2]])]
           Solves(g) == g = [i \in 0 .. n |-> IF i = 0 THEN st ELSE ReadElement(g[i - 1], line[i])]
<1>1. T \in [States \X (1 .. n) -> States]
  BY ReadElementKeeps
<1>2. \A x \in States, k \in 1 .. n : T[<<x, k>>] = ReadElement(x, line[k])
  OBVIOUS
<1>3. PICK g \in [0 .. n -> States] : LoopValues(g, n, st, T)
  <2>1. n \in Nat
    OBVIOUS
  <2> HIDE DEF n, T
  <2> QED BY <1>1, <2>1, LoopHasValues
<1>4. Solves(g)
  <2>1. ASSUME NEW k \in 0 .. n
        PROVE  g[k] = IF k = 0 THEN st ELSE ReadElement(g[k - 1], line[k])
    <3> HIDE DEF T
    <3>1. CASE k = 0
      BY <1>3, <3>1 DEF LoopValues
    <3>2. CASE k # 0
      <4>1. k \in 1 .. n /\ g[k - 1] \in States
        BY <1>3, <3>2
      <4> QED BY <1>2, <1>3, <3>2, <4>1 DEF LoopValues
    <3> QED BY <3>1, <3>2
  <2>2. g = [k \in 0 .. n |-> g[k]]
    BY <1>3
  <2> QED BY <2>1, <2>2
<1> DEFINE after == CHOOSE f : Solves(f)
<1>5. Solves(after)
  <2> HIDE DEF Solves
  <2> QED BY <1>4
<1>6. ASSUME NEW h, Solves(h)
      PROVE  h[n] \in States
  <2> DEFINE good == {k \in 0 .. n : h[k] \in States}
  <2>1. 0 \in good
    BY <1>6
  <2>2. ASSUME NEW k \in 1 .. n, k - 1 \in good
        PROVE  k \in good
    <3>1. h[k] = ReadElement(h[k - 1], line[k])
      BY <1>6
    <3> QED BY <2>2, <3>1, ReadElementKeeps
  <2>3. n \in Nat
    OBVIOUS
  <2> HIDE DEF good, n
  <2>4. \A k \in 0 .. n : k \in good
    BY <2>1, <2>2, <2>3, CarriedOn
  <2>5. n \in good
    BY <2>3, <2>4
  <2> QED BY <2>5 DEF good
<1>7. after[n] \in States
  <2> HIDE DEF after, Solves, n
  <2> QED BY <1>5, <1>6
<1> QED BY <1>7 DEF ReadLine

LEMMA StartSound ==
  ReaderStart(BuiltIn) \in States
<1> DEFINE st == ReaderStart(BuiltIn)
<1>1. /\ \A k \in DOMAIN BuiltIn : BuiltIn[k] \in Entries
  <2> SUFFICES ASSUME NEW k \in DOMAIN BuiltIn PROVE BuiltIn[k] \in Entries
    OBVIOUS
  <2>1. BuiltIn[k].ident \in Values /\ \A f \in Fields : BuiltIn[k].dpb[f] \in Values
    <3>1. /\ BuiltIn[k].ident \in BuiltInValues
          /\ \A f \in Fields : BuiltIn[k].dpb[f] \in BuiltInValues
      BY DEF BuiltInValues, Fields
    <3> QED BY <3>1 DEF Values
  <2>2. BuiltIn[k] = [ident |-> BuiltIn[k].ident,
                      dpb |-> [f \in Fields |-> BuiltIn[k].dpb[f]]]
    BY SessionAssumption DEF Fields
  <2> QED BY <2>1, <2>2 DEF Entries, FormatRecords
<1>2. BuiltIn \in Seq(Entries)
  <2>1. BuiltIn \in Seq({BuiltIn[k] : k \in DOMAIN BuiltIn})
    BY SessionAssumption
  <2> QED BY <1>1, <2>1
<1>3. st \in Readers
  <2>0. 0 \in Ids
    BY DEF Ids
  <2>1. EmptyFormat \in FormatRecords /\ "statement" \in Expected
    BY EmptyIsFormat, SomeExpected
  <2>2. "" \in Values
    BY DEF Values
  <2>3. << >> \in Seq(FormatRecords)
    OBVIOUS
  <2> HIDE DEF st
  <2>4. st = [status |-> "reading", expect |-> "statement", side |-> "", id |-> 0,
              temp |-> EmptyFormat, ident |-> "", list |-> BuiltIn, ended |-> << >>]
    BY DEF st, ReaderStart
  <2> QED BY <1>2, <2>0, <2>1, <2>2, <2>3, <2>4 DEF Readers
<1>4. st.list = BuiltIn /\ st.ended = << >>
  BY DEF ReaderStart
<1>5. Apart(BuiltIn)
  BY SessionAssumption, MatchIsSame DEF Apart
<1> QED BY <1>3, <1>4, <1>5 DEF States, Sound, Covers

\* and so does a whole definition file.
LEMMA ParsedSound ==
  ASSUME NEW file \in Defs
  PROVE  parse_def_file(BuiltIn, file) \in States
<1> DEFINE n == Len(file)
           c == ReaderStart(BuiltIn)
           T == [x \in States \X (1 .. n) |-> ReadLine(x[1], file[x[2]])]
           Solves(g) == g = [i \in 0 .. n |-> IF i = 0 THEN c ELSE ReadLine(g[i - 1], file[i])]
<1>0. n \in Nat
  BY SessionAssumption
<1>1. ASSUME NEW st \in States, NEW i \in 1 .. n
      PROVE  ReadLine(st, file[i]) \in States
  <2>1. Len(file[i]) \in Nat
    BY SessionAssumption
  <2>2. \A k \in 1 .. Len(file[i]) : file[i][k] \in Lined
    BY DEF Lined
  <2> QED BY <2>1, <2>2, LineKeeps
<1>2. T \in [States \X (1 .. n) -> States]
  BY <1>1
<1>3. \A x \in States, k \in 1 .. n : T[<<x, k>>] = ReadLine(x, file[k])
  OBVIOUS
<1>4. PICK g \in [0 .. n -> States] : LoopValues(g, n, c, T)
  <2> HIDE DEF n, T
  <2> QED BY <1>0, <1>2, StartSound, LoopHasValues
<1>5. Solves(g)
  <2>1. ASSUME NEW k \in 0 .. n
        PROVE  g[k] = IF k = 0 THEN c ELSE ReadLine(g[k - 1], file[k])
    <3> HIDE DEF T, c
    <3>1. CASE k = 0
      BY <1>4, <3>1 DEF LoopValues
    <3>2. CASE k # 0
      <4>1. k \in 1 .. n /\ g[k - 1] \in States
        BY <1>0, <1>4, <3>2
      <4> QED BY <1>3, <1>4, <3>2, <4>1 DEF LoopValues
    <3> QED BY <3>1, <3>2
  <2>2. g = [k \in 0 .. n |-> g[k]]
    BY <1>4
  <2> QED BY <2>1, <2>2
<1> DEFINE after == CHOOSE f : Solves(f)
<1>6. Solves(after)
  <2> HIDE DEF Solves
  <2> QED BY <1>5
<1>7. ASSUME NEW h, Solves(h)
      PROVE  h[n] \in States
  <2> DEFINE good == {k \in 0 .. n : h[k] \in States}
  <2>1. 0 \in good
    BY <1>0, <1>7, StartSound
  <2>2. ASSUME NEW k \in 1 .. n, k - 1 \in good
        PROVE  k \in good
    <3>1. h[k] = ReadLine(h[k - 1], file[k])
      BY <1>7
    <3> QED BY <1>1, <2>2, <3>1
  <2> HIDE DEF good, n
  <2>3. \A k \in 0 .. n : k \in good
    BY <1>0, <2>1, <2>2, CarriedOn
  <2>4. n \in good
    BY <1>0, <2>3
  <2> QED BY <2>4 DEF good
<1>8. after[n] \in States
  <2> HIDE DEF after, Solves, n
  <2> QED BY <1>6, <1>7
<1> QED BY <1>8 DEF parse_def_file

-----------------------------------------------------------------------------
(* The session.                                                            *)

Lists ==
  /\ dpb_list \in Seq(Entries) /\ ended \in Seq(FormatRecords)
  /\ Apart(dpb_list) /\ Covers(dpb_list, ended)

\* Every image on the disk was made with a format of the list.
ImagesMade ==
  /\ DOMAIN disk = Images
  /\ \A n \in Images : disk[n] # NoImage =>
       \E k \in Formats, extended \in BOOLEAN, whole \in BOOLEAN :
         disk[n] = Image(k, extended, whole)

\* The image in use was accepted, and the format was found in its header or
\* given by the user.
InUseAccepted ==
  /\ active # NoImage => image_accepted(disk[active])
  /\ auto => active # NoImage /\ dpb = Selected(disk[active])
  /\ Running /\ active # NoImage => dpb_list[dpb].dpb.BPS # 0

SessionIInv == TypeOK /\ Lists /\ ImagesMade /\ InUseAccepted

LEMMA FormatsAre ==
  ASSUME Lists
  PROVE  Len(dpb_list) \in Nat /\ Formats = 1 .. Len(dpb_list)
BY DEF Lists, Formats

LEMMA LeastIsIn ==
  ASSUME NEW S \in SUBSET Nat, S # {}
  PROVE  Least(S) \in S /\ \A k \in S : Least(S) <= k
<1>1. \E m \in S : \A k \in S : m <= k
  BY LeastNumber
<1> QED BY <1>1 DEF Least

\* Choosing a format gives one, or says that there is none or more than one.
LEMMA SelectedIs ==
  ASSUME Lists, NEW image
  PROVE  Selected(image) \in -1 .. Len(dpb_list)
<1> DEFINE list == [k \in Formats |-> dpb_list[k].dpb]
           h == image.header
           t == image.track[0]
           fits == {k \in DOMAIN list :
                      /\ sector_exists(t, list[k].SEC1_side1)
                      /\ t.SPT = list[k].SECS
                      /\ h.nbof_heads = list[k].HDS /\ h.nbof_tracks = list[k].TRKS}
           found == IF fits = {} THEN 0 ELSE IF Cardinality(fits) = 1 THEN Least(fits) ELSE -1
<1>1. Selected(image) = found
  BY DEF Selected, select_format
<1>2. fits \in SUBSET (1 .. Len(dpb_list)) /\ Len(dpb_list) \in Nat
  BY FormatsAre
<1> HIDE DEF fits
<1>3. fits # {} => Least(fits) \in fits
  BY <1>2, LeastIsIn
<1>4. found \in {0, -1} \/ (fits # {} /\ found = Least(fits))
  OBVIOUS
<1> HIDE DEF found
<1>5. found \in -1 .. Len(dpb_list)
  <2>1. CASE found \in {0, -1}
    BY <1>2, <2>1
  <2>2. CASE fits # {} /\ found = Least(fits)
    <3>1. Least(fits) \in 1 .. Len(dpb_list)
      BY <1>2, <1>3, <2>2
    <3> QED BY <1>2, <2>2, <3>1
  <2> QED BY <1>4, <2>1, <2>2
<1> QED BY <1>1, <1>5

LEMMA FieldIs ==
  ASSUME NEW a, NEW k, NEW d \in BOOLEAN, NEW o, o = [active |-> a, dpb |-> k, divided |-> d]
  PROVE  o.active = a /\ o.dpb = k /\ o.divided = d
OBVIOUS

\* An image is in use only when it was accepted, under a format of the list.
OpenedWell(o, files, n, k, auto_detect) ==
  /\ o.dpb \in 0 .. Len(dpb_list) /\ o.active \in {n, NoImage}
  /\ o.active # NoImage =>
       /\ files[n] # NoImage /\ image_accepted(files[n]) /\ o.dpb # 0
       /\ o.dpb = IF auto_detect THEN Selected(files[n]) ELSE k
       /\ o.divided => dpb_list[o.dpb].dpb.BPS # 0

LEMMA OpenedIs ==
  ASSUME Lists, NEW files, NEW n, NEW k \in 0 .. Len(dpb_list),
         NEW auto_detect \in BOOLEAN
  PROVE  OpenedWell(Opened(files, n, k, auto_detect), files, n, k, auto_detect)
<1> DEFINE image == files[n]
           found == IF auto_detect THEN Selected(image) ELSE k
           o == Opened(files, n, k, auto_detect)
<1> SUFFICES OpenedWell(o, files, n, k, auto_detect)
  OBVIOUS
<1>1. found \in -1 .. Len(dpb_list) /\ Len(dpb_list) \in Nat
  BY SelectedIs, FormatsAre
<1>2. o = IF image = NoImage THEN [active |-> NoImage, dpb |-> k, divided |-> TRUE]
          ELSE IF ~ image_accepted(image) THEN [active |-> NoImage, dpb |-> 0, divided |-> TRUE]
          ELSE [active |-> IF found > 0 THEN n ELSE NoImage,
                dpb |-> IF found > 0 THEN found ELSE 0,
                divided |-> found > 0 => dpb_list[found].dpb.BPS # 0]
  BY DEF Opened
<1> HIDE DEF image, found, o
<1>3. CASE image = NoImage
  BY <1>2, <1>3 DEF OpenedWell
<1>4. CASE image # NoImage /\ ~ image_accepted(image)
  BY <1>1, <1>2, <1>4 DEF OpenedWell
<1>5. CASE image # NoImage /\ image_accepted(image) /\ found > 0
  <2> DEFINE d == found > 0 => dpb_list[found].dpb.BPS # 0
  <2>1. o = [active |-> n, dpb |-> found, divided |-> d]
    BY <1>2, <1>5
  <2>2. o.active = n /\ o.dpb = found
    BY <2>1
  <2>3. o.divided => d
    <3>1. d \in BOOLEAN
      OBVIOUS
    <3> HIDE DEF d
    <3> QED BY <2>1, <3>1, FieldIs
  <2> QED BY <1>1, <1>5, <2>2, <2>3 DEF image, found, OpenedWell
<1>6. CASE image # NoImage /\ image_accepted(image) /\ ~ found > 0
  BY <1>1, <1>2, <1>6 DEF OpenedWell
<1> QED BY <1>3, <1>4, <1>5, <1>6

\* What opening does to the session, before and behind.
LEMMA OpenKeeps ==
  ASSUME SessionIInv, NEW n \in Images, NEW k \in 0 .. Len(dpb_list),
         NEW auto_detect \in BOOLEAN, NEW needed \in BOOLEAN,
         ImagesMade', UNCHANGED <<dpb_list, ended>>,
         SetOpened(Opened(disk', n, k, auto_detect), auto_detect, needed)
  PROVE  SessionIInv'
<1> DEFINE o == Opened(disk', n, k, auto_detect)
<1>0. Lists /\ Lists'
  BY DEF SessionIInv, Lists, Apart, Covers, SameFormat
<1>1. OpenedWell(o, disk', n, k, auto_detect)
  BY <1>0, OpenedIs
<1>2. /\ active' = o.active /\ dpb' = o.dpb /\ auto' = (auto_detect /\ o.active # NoImage)
      /\ status' \in {"crashed", "running"} /\ (status' = "running" => o.divided)
  BY DEF SetOpened
<1> HIDE DEF o
<1>3. TypeOK'
  BY <1>1, <1>2 DEF TypeOK, OpenedWell
<1>4. Selected(disk[n])' = Selected(disk'[n])
  BY DEF Selected, Formats
<1>5. InUseAccepted'
  BY <1>1, <1>2, <1>4 DEF InUseAccepted, OpenedWell, Running
<1> QED BY <1>0, <1>3, <1>5 DEF SessionIInv

\* The images are as they were made while the formats stay, and so is one that
\* is written anew.
LEMMA ListsKept ==
  ASSUME Lists, UNCHANGED <<dpb_list, ended>>
  PROVE  Lists' /\ Formats' = Formats
BY DEF Lists, Apart, Covers, SameFormat, Formats

LEMMA ImagesKept ==
  ASSUME ImagesMade, UNCHANGED <<dpb_list, disk>>
  PROVE  ImagesMade'
BY DEF ImagesMade, Image, Formats

LEMMA ImageWritten ==
  ASSUME ImagesMade, UNCHANGED dpb_list, NEW n \in Images, NEW k \in Formats,
         NEW extended \in BOOLEAN, NEW whole \in BOOLEAN,
         disk' = [disk EXCEPT ![n] = Image(k, extended, whole)]
  PROVE  ImagesMade'
<1>1. \A j \in Formats, e \in BOOLEAN, w \in BOOLEAN : Image(j, e, w)' = Image(j, e, w)
  BY DEF Image
<1>2. Formats' = Formats
  BY DEF Formats
<1>3. DOMAIN disk' = Images
  BY DEF ImagesMade
<1>4. ASSUME NEW m \in Images, disk'[m] # NoImage
      PROVE  \E j \in Formats, e \in BOOLEAN, w \in BOOLEAN : disk'[m] = Image(j, e, w)
  <2>1. CASE m = n
    <3>1. disk'[m] = Image(k, extended, whole)
      BY <2>1 DEF ImagesMade
    <3> QED BY <3>1
  <2>2. CASE m # n
    <3>1. disk'[m] = disk[m]
      BY <2>2 DEF ImagesMade
    <3> QED BY <1>4, <3>1 DEF ImagesMade
  <2> QED BY <2>1, <2>2
<1> QED BY <1>1, <1>2, <1>3, <1>4 DEF ImagesMade

\* Nothing is in use after a close, whatever becomes of the format.
LEMMA ClosedKeeps ==
  ASSUME SessionIInv, ImagesMade', UNCHANGED <<dpb_list, ended, status>>,
         active' = NoImage, auto' = FALSE, dpb' \in 0 .. Len(dpb_list)
  PROVE  SessionIInv'
<1>1. Lists'
  BY ListsKept DEF SessionIInv
<1> QED BY <1>1 DEF SessionIInv, TypeOK, InUseAccepted

LEMMA StartKeeps ==
  ASSUME NEW file \in Defs, Start(file)
  PROVE  SessionIInv'
<1> DEFINE st == parse_def_file(BuiltIn, file)
<1>1. st \in States
  BY ParsedSound
<1>2. /\ dpb_list' = st.list /\ ended' = st.ended
      /\ status' \in {"running", "hung", "crashed"}
      /\ disk' = [n \in Images |-> NoImage] /\ active' = NoImage /\ dpb' = 0 /\ auto' = FALSE
  BY <1>1 DEF Start, States, Readers
<1> HIDE DEF st
<1>3. Lists'
  <2>1. /\ st.list \in Seq(Entries) /\ st.ended \in Seq(FormatRecords)
        /\ Apart(st.list) /\ Covers(st.list, st.ended)
    BY <1>1 DEF States, Sound, Readers
  <2>2. Apart(dpb_list') /\ Covers(dpb_list', ended')
    BY <1>2, <2>1
  <2> QED BY <1>2, <2>1, <2>2 DEF Lists, Apart, Covers, SameFormat
<1>4. Len(dpb_list') \in Nat
  BY <1>3 DEF Lists
<1>5. ImagesMade' /\ InUseAccepted'
  BY <1>2 DEF ImagesMade, InUseAccepted
<1>6. TypeOK'
  <2>1. 0 \in 0 .. Len(dpb_list')
    BY <1>4
  <2> QED BY <1>2, <2>1 DEF TypeOK
<1> QED BY <1>3, <1>5, <1>6 DEF SessionIInv

LEMMA SessionNext ==
  ASSUME SessionIInv, [Next]_vars
  PROVE  SessionIInv'
<1>0. Formats = 1 .. Len(dpb_list) /\ Len(dpb_list) \in Nat /\ 0 \in 0 .. Len(dpb_list)
  BY FormatsAre DEF SessionIInv
<1>1. CASE status = "starting" /\ \E file \in Defs : Start(file)
  BY <1>1, StartKeeps
<1>2. ASSUME NEW n \in Images, cmd_open(n)
      PROVE  SessionIInv'
  <2> DEFINE k == IF active = NoImage THEN dpb ELSE 0
  <2>1. k \in 0 .. Len(dpb_list)
    BY <1>0 DEF SessionIInv, TypeOK
  <2>2. ImagesMade' /\ UNCHANGED <<dpb_list, ended>>
    BY <1>2, ImagesKept DEF cmd_open, SessionIInv
  <2>3. SetOpened(Opened(disk', n, k, TRUE), TRUE, FALSE)
    <3>1. disk' = disk
      BY <1>2 DEF cmd_open
    <3> QED BY <1>2, <3>1 DEF cmd_open
  <2> HIDE DEF k
  <2> QED BY <2>1, <2>2, <2>3, OpenKeeps
<1>3. ASSUME NEW n \in Images, NEW k \in Named, cmd_open_forced(n, k)
      PROVE  SessionIInv'
  <2>1. k \in 0 .. Len(dpb_list)
    BY <1>0 DEF Named
  <2>2. ImagesMade' /\ UNCHANGED <<dpb_list, ended>>
    BY <1>3, ImagesKept DEF cmd_open_forced, SessionIInv
  <2>3. SetOpened(Opened(disk', n, k, FALSE), FALSE, FALSE)
    <3>1. disk' = disk
      BY <1>3 DEF cmd_open_forced
    <3> QED BY <1>3, <3>1 DEF cmd_open_forced
  <2> QED BY <2>1, <2>2, <2>3, OpenKeeps
<1>4. ASSUME NEW n \in Images, NEW k \in Named, NEW extended \in BOOLEAN,
             cmd_new(n, k, extended)
      PROVE  SessionIInv'
  <2>1. k \in 0 .. Len(dpb_list) /\ k \in Formats
    BY <1>0 DEF Named
  <2>2. ImagesMade' /\ UNCHANGED <<dpb_list, ended>>
    BY <1>4, <2>1, ImageWritten DEF cmd_new, SessionIInv
  <2> DEFINE needed == malloc_track(Image(k, extended, TRUE))
  <2>3. SetOpened(Opened(disk', n, k, FALSE), FALSE, needed)
    BY <1>4 DEF cmd_new
  <2>4. needed \in BOOLEAN
    BY DEF malloc_track
  <2> HIDE DEF needed
  <2> QED BY <2>1, <2>2, <2>3, <2>4, OpenKeeps
<1>5. ASSUME NEW n \in Images, NEW k \in Named, NEW extended \in BOOLEAN,
             format_break(n, k, extended)
      PROVE  SessionIInv'
  <2>1. k \in Formats
    BY DEF Named
  <2>2. ImagesMade'
    BY <1>5, <2>1, ImageWritten DEF format_break, SessionIInv
  <2> QED BY <1>0, <1>5, <2>2, ClosedKeeps DEF format_break, Free
<1>6. ASSUME NEW k \in Named, set_format(k)
      PROVE  SessionIInv'
  <2>1. k \in 0 .. Len(dpb_list)
    BY <1>0 DEF Named
  <2>2. ImagesMade'
    BY <1>6, ImagesKept DEF set_format, SessionIInv
  <2> QED BY <1>6, <2>1, <2>2, ClosedKeeps DEF set_format
<1>7. ASSUME UNCHANGED <<dpb_list, ended, disk, active, dpb, auto>>,
             status' = status \/ status' = "crashed"
      PROVE  SessionIInv'
  <2>1. Lists' /\ ImagesMade'
    BY <1>7, ListsKept, ImagesKept DEF SessionIInv
  <2>2. Selected(disk[active])' = Selected(disk[active])
    BY <1>7 DEF Selected, Formats
  <2> QED BY <1>7, <2>1, <2>2 DEF SessionIInv, TypeOK, InUseAccepted, Running
<1>8. CASE cmd_open_error \/ cmd_close
  <2>1. ImagesMade'
    BY <1>8, ImagesKept DEF cmd_open_error, cmd_close, SessionIInv
  <2>2. CASE Free
    BY <1>0, <1>8, <2>1, <2>2, ClosedKeeps DEF Free, cmd_open_error, cmd_close
  <2>3. CASE ~ Free
    BY <1>7, <1>8, <2>3 DEF cmd_open_error, cmd_close
  <2> QED BY <2>2, <2>3
<1>9. ASSUME NEW n \in Images, cmd_new_declined(n)
      PROVE  SessionIInv'
  <2>1. ImagesMade'
    BY <1>9, ImagesKept DEF cmd_new_declined, SessionIInv
  <2> QED BY <1>0, <1>9, <2>1, ClosedKeeps DEF Free, cmd_new_declined
<1>10. CASE cmd_attrib
  BY <1>7, <1>10 DEF cmd_attrib
<1>11. CASE UNCHANGED vars
  BY <1>7, <1>11 DEF vars
<1> QED BY <1>1, <1>2, <1>3, <1>4, <1>5, <1>6, <1>8, <1>9, <1>10, <1>11 DEF Next

LEMMA SessionInit == Init => SessionIInv
<1> SUFFICES ASSUME Init PROVE SessionIInv
  OBVIOUS
<1>1. Lists
  <2>1. dpb_list = << >> /\ ended = << >>
    BY DEF Init
  <2> QED BY <2>1 DEF Lists, Apart, Covers
<1>2. TypeOK
  <2>1. Len(dpb_list) \in Nat
    BY <1>1 DEF Lists
  <2>2. 0 \in 0 .. Len(dpb_list)
    BY <2>1
  <2> QED BY <2>2 DEF Init, TypeOK
<1> QED BY <1>1, <1>2 DEF Init, SessionIInv, ImagesMade, InUseAccepted

\* The inductive invariant of a session (cmd_open and cmd_new, ui.c:1243): an
\* image in use was accepted under a format of the list; every image was made
\* with one; no two formats of the list are alike, and none that was read is
\* missing.
THEOREM SessionInvariant == Spec => []SessionIInv
<1>1. SessionIInv /\ [Next]_vars => SessionIInv'
  BY SessionNext
<1> QED BY <1>1, SessionInit, PTL DEF Spec

\* The format in use is in the list, and an image is in use only under one.
THEOREM TypeCorrect == Spec => []TypeOK
<1>1. SessionIInv => TypeOK
  BY DEF SessionIInv
<1> QED BY <1>1, SessionInvariant, PTL

\* Every format whose definition was read to its END is listed, and once, for
\* every list of built-in formats and every definition file (readdef.c:421).
THEOREM ListedOnce == Spec => []FormatsListedOnce
<1>1. SessionIInv => FormatsListedOnce
  <2> SUFFICES ASSUME SessionIInv, NEW e \in DOMAIN ended
               PROVE  Cardinality({k \in Formats : SameFormat(dpb_list[k].dpb, ended[e])}) = 1
    BY DEF FormatsListedOnce
  <2>1. PICK k \in Formats : SameFormat(dpb_list[k].dpb, ended[e])
    BY DEF SessionIInv, Lists, Covers, Formats
  <2>2. ASSUME NEW j \in Formats, SameFormat(dpb_list[j].dpb, ended[e])
        PROVE  j = k
    <3>1. SameFormat(dpb_list[j].dpb, dpb_list[k].dpb)
      BY <2>1, <2>2, SameIsSymmetric, SameIsTransitive
    <3> QED BY <3>1 DEF SessionIInv, Lists, Apart, Formats
  <2>3. {j \in Formats : SameFormat(dpb_list[j].dpb, ended[e])} = {k}
    BY <2>1, <2>2
  <2> QED BY <2>3, FS_Singleton
<1> QED BY <1>1, SessionInvariant, PTL

-----------------------------------------------------------------------------
(* The order in which format() puts the sectors of a track.                *)

\* The same, of an equation that goes by a name.
IsSum(a, b, q, r) == q \in Nat /\ r \in 0 .. b - 1 /\ a \in Nat /\ a = q * b + r

LEMMA SumDivided ==
  ASSUME NEW b \in Nat \ {0}, NEW a, NEW q, NEW r, IsSum(a, b, q, r)
  PROVE  a \div b = q /\ a % b = r
<1>1. q \in Nat /\ r \in 0 .. b - 1 /\ a \in Nat /\ a = q * b + r
  BY DEF IsSum
<1> QED BY <1>1, DividedIs

\* The number of the round in which a sector comes, and its place there, make
\* its place in the whole order: all rounds have n \div s sectors, the first
\* n % s of them one more.
Rank(n, s, i) ==
  (i \div s) + (i % s) * (n \div s) + (IF i % s < n % s THEN i % s ELSE n % s)

\* A place q in round b, where m \div s sectors make n.
LEMMA InRound ==
  ASSUME NEW s \in Nat \ {0}, NEW m \in Nat, NEW r \in 0 .. s - 1, NEW q \in Nat,
         NEW b \in 0 .. s - 1, NEW n \in Nat, n = m * s + r, q * s + b < n
  PROVE  q <= m /\ (b >= r => q <= m - 1)
<1>1. SUFFICES ASSUME q > m \/ (q = m /\ b >= r) PROVE FALSE
  OBVIOUS
<1>2. CASE q = m /\ b >= r
  <2>1. q * s + b = m * s + b
    BY <1>2
  <2>2. m * s \in Int
    OBVIOUS
  <2> QED BY <1>2, <2>1, <2>2
<1>3. CASE q > m
  <2>1. (q - m) * s >= s
    BY <1>3, ProductGrows
  <2>2. q * s = m * s + (q - m) * s
    BY <1>3
  <2>3. m * s \in Int /\ q * s \in Int /\ (q - m) * s \in Int
    BY <1>3
  <2> QED BY <2>1, <2>2, <2>3
<1> QED BY <1>1, <1>2, <1>3

\* The end of a round.
LEMMA RoundEnds ==
  ASSUME NEW s \in Nat \ {0}, NEW m \in Nat, NEW r \in 0 .. s - 1, NEW q \in Nat,
         NEW b \in 0 .. s - 1, NEW n \in Nat, n = m * s + r, q * s + b + s >= n
  PROVE  q >= m - 1 /\ (b < r => q >= m)
<1>1. SUFFICES ASSUME q + 1 < m \/ (q + 1 = m /\ b < r) PROVE FALSE
  OBVIOUS
<1>2. (q + 1) * s = q * s + s /\ q * s \in Int /\ m * s \in Int
  OBVIOUS
<1>3. CASE q + 1 = m /\ b < r
  <2>1. m * s = (q + 1) * s
    BY <1>3
  <2> QED BY <1>2, <1>3, <2>1
<1>4. CASE q + 1 < m
  <2>1. (m - (q + 1)) * s >= s
    BY <1>4, ProductGrows
  <2>2. m * s = (q + 1) * s + (m - (q + 1)) * s
    BY <1>4
  <2>3. (q + 1) * s \in Int /\ (m - (q + 1)) * s \in Int
    BY <1>4
  <2> QED BY <1>2, <2>1, <2>2, <2>3
<1> QED BY <1>1, <1>3, <1>4

\* What a sector's rank is made of.
Parts(n, s, i, m, r, q, b) ==
           /\ m = n \div s /\ r = n % s /\ q = i \div s /\ b = i % s
           /\ n = m * s + r /\ i = q * s + b /\ m * s \in Nat /\ q * s \in Nat /\ b * m \in Nat
           /\ Rank(n, s, i) = q + b * m + (IF b < r THEN b ELSE r)
           /\ q <= m /\ (b >= r => q <= m - 1)

LEMMA RankParts ==
  ASSUME NEW n \in Nat \ {0}, NEW s \in Nat \ {0}, NEW i \in 0 .. n - 1
  PROVE  \E m \in Nat, r \in 0 .. s - 1, q \in Nat, b \in 0 .. s - 1 :
           Parts(n, s, i, m, r, q, b)
<1>0. n = (n \div s) * s + (n % s) /\ n \div s \in Nat /\ n % s \in 0 .. s - 1
  BY Divides
<1>1. i = (i \div s) * s + (i % s) /\ i \div s \in Nat /\ i % s \in 0 .. s - 1
  <2>1. i \in Nat
    OBVIOUS
  <2> QED BY <2>1, Divides
<1>2. PICK m \in Nat, r \in 0 .. s - 1, q \in Nat, b \in 0 .. s - 1 :
        m = n \div s /\ r = n % s /\ q = i \div s /\ b = i % s
  BY <1>0, <1>1
<1>3. n = m * s + r /\ i = q * s + b
  BY <1>0, <1>1, <1>2
<1>4. q <= m /\ (b >= r => q <= m - 1)
  <2>1. q * s + b < n
    BY <1>3
  <2> QED BY <1>3, <2>1, InRound
<1>5. m * s \in Nat /\ q * s \in Nat /\ b * m \in Nat
  OBVIOUS
<1>6. Rank(n, s, i) = q + b * m + (IF b < r THEN b ELSE r)
  BY <1>2 DEF Rank
<1>7. Parts(n, s, i, m, r, q, b)
  BY <1>2, <1>3, <1>4, <1>5, <1>6 DEF Parts
<1> QED BY <1>7

LEMMA ProductsInOrder ==
  ASSUME NEW a \in Nat, NEW b \in Nat, NEW m \in Nat, a <= b
  PROVE  a * m <= b * m /\ a * m \in Nat /\ b * m \in Nat
<1>1. (b - a) * m \in Nat
  OBVIOUS
<1>2. b * m = a * m + (b - a) * m
  OBVIOUS
<1>3. a * m \in Nat /\ b * m \in Nat
  OBVIOUS
<1> QED BY <1>1, <1>2, <1>3

\* A rank is a place in the track.
LEMMA RankIsPlace ==
  ASSUME NEW n \in Nat \ {0}, NEW s \in Nat \ {0}, NEW i \in 0 .. n - 1
  PROVE  Rank(n, s, i) \in 0 .. n - 1
<1>1. PICK m \in Nat, r \in 0 .. s - 1, q \in Nat, b \in 0 .. s - 1 :
        Parts(n, s, i, m, r, q, b)
  BY RankParts
<1>2. (b + 1) * m <= s * m /\ (b + 1) * m \in Nat /\ s * m \in Nat
  BY ProductsInOrder
<1>3. (b + 1) * m = b * m + m /\ s * m = m * s
  OBVIOUS
<1> QED BY <1>1, <1>2, <1>3 DEF Parts

\* Sectors of the same rank are the same.
LEMMA RankInOrder ==
  ASSUME NEW n \in Nat \ {0}, NEW s \in Nat \ {0}, NEW i \in 0 .. n - 1, NEW k \in 0 .. n - 1,
         i % s < k % s
  PROVE  Rank(n, s, i) < Rank(n, s, k)
<1>1. PICK m \in Nat, r \in 0 .. s - 1, q \in Nat, b \in 0 .. s - 1 :
        Parts(n, s, i, m, r, q, b)
  BY RankParts
<1>2. PICK p \in Nat, c \in 0 .. s - 1 :
           /\ c = k % s
           /\ c * m \in Nat
           /\ Rank(n, s, k) = p + c * m + (IF c < r THEN c ELSE r)
  <2>1. PICK mm \in Nat, rr \in 0 .. s - 1, p \in Nat, c \in 0 .. s - 1 :
          Parts(n, s, k, mm, rr, p, c)
    BY RankParts
  <2>2. mm = m /\ rr = r
    BY <1>1, <2>1 DEF Parts
  <2> QED BY <2>1, <2>2 DEF Parts
<1>3. b + 1 <= c
  BY <1>1, <1>2 DEF Parts
<1>4. (b + 1) * m <= c * m /\ (b + 1) * m \in Nat
  BY <1>3, ProductsInOrder
<1>5. (b + 1) * m = b * m + m
  OBVIOUS
<1> QED BY <1>1, <1>2, <1>3, <1>4, <1>5 DEF Parts

LEMMA RankOfOne ==
  ASSUME NEW n \in Nat \ {0}, NEW s \in Nat \ {0}, NEW i \in 0 .. n - 1, NEW k \in 0 .. n - 1,
         Rank(n, s, i) = Rank(n, s, k)
  PROVE  i = k
<1>0. /\ Rank(n, s, i) \in Int /\ Rank(n, s, k) \in Int
      /\ i % s \in Int /\ k % s \in Int
  BY RankIsPlace
<1>1. i % s = k % s
  BY <1>0, RankInOrder
<1>2. i \div s = k \div s
  <2> DEFINE rest == (i % s) * (n \div s) + (IF i % s < n % s THEN i % s ELSE n % s)
  <2>1. i \div s \in Int /\ k \div s \in Int /\ n \div s \in Int /\ n % s \in Int
    OBVIOUS
  <2>2. rest \in Int
    BY <1>0, <2>1
  <2>3. Rank(n, s, i) = (i \div s) + rest
    BY <1>0, <2>1 DEF Rank
  <2>4. Rank(n, s, k) = (k \div s) + rest
    BY <1>0, <1>1, <2>1 DEF Rank
  <2> DEFINE x == i \div s
             y == k \div s
  <2> HIDE DEF rest
  <2>5. x \in Int /\ y \in Int /\ x + rest = y + rest
    BY <2>1, <2>3, <2>4
  <2> HIDE DEF x, y
  <2>6. x = y
    BY <2>2, <2>5
  <2> QED BY <2>6 DEF x, y
<1>3. i = (i \div s) * s + (i % s) /\ k = (k \div s) * s + (k % s)
  BY Divides
<1> QED BY <1>1, <1>2, <1>3

\* The next sector of a round, or the first of the next one, is the next.
LEMMA RankOfNext ==
  ASSUME NEW n \in Nat \ {0}, NEW s \in Nat \ {0}, NEW i \in 0 .. n - 1,
         Rank(n, s, i) < n - 1
  PROVE  /\ i + s < n => Rank(n, s, i + s) = Rank(n, s, i) + 1 /\ (i + s) % s = i % s
         /\ i + s >= n =>
              /\ (i % s) + 1 < n /\ ((i % s) + 1) % s = (i % s) + 1
              /\ Rank(n, s, (i % s) + 1) = Rank(n, s, i) + 1
<1>1. PICK m \in Nat, r \in 0 .. s - 1, q \in Nat, b \in 0 .. s - 1 :
        Parts(n, s, i, m, r, q, b)
  BY RankParts
<1>0. /\ m = n \div s /\ r = n % s /\ q = i \div s /\ b = i % s
      /\ n = m * s + r /\ i = q * s + b /\ m * s \in Nat /\ q * s \in Nat /\ b * m \in Nat
      /\ Rank(n, s, i) = q + b * m + (IF b < r THEN b ELSE r)
      /\ q <= m /\ (b >= r => q <= m - 1)
  BY <1>1 DEF Parts
<1>2. ASSUME i + s < n
      PROVE  Rank(n, s, i + s) = Rank(n, s, i) + 1 /\ (i + s) % s = i % s
  <2>1. i + s = (q + 1) * s + b /\ i + s \in Nat
    BY <1>0
  <2>2. (i + s) \div s = q + 1 /\ (i + s) % s = b
    <3> DEFINE a == i + s
               p == q + 1
    <3>1. p \in Nat /\ a \in Nat /\ a = p * s + b
      BY <2>1
    <3> HIDE DEF a, p
    <3>2. IsSum(a, s, p, b)
      BY <3>1 DEF IsSum
    <3>3. a \div s = p /\ a % s = b
      BY <3>2, SumDivided
    <3> QED BY <3>3 DEF a, p
  <2> QED BY <1>0, <2>2 DEF Rank
<1>3. ASSUME i + s >= n
      PROVE  /\ b + 1 < n /\ (b + 1) % s = b + 1
             /\ Rank(n, s, b + 1) = Rank(n, s, i) + 1
  <2>1. q >= m - 1 /\ (b < r => q >= m)
    <3>1. q * s + b + s >= n
      BY <1>0, <1>3
    <3> QED BY <1>0, <3>1, RoundEnds
  <2>2. (b + 1) * m = b * m + m
    OBVIOUS
  <2>3. b + 1 < s
    <3>1. CASE b < r
      BY <3>1
    <3>2. CASE b >= r
      <4>1. SUFFICES ASSUME b + 1 = s PROVE FALSE
        OBVIOUS
      <4>2. m * s = b * m + m
        BY <2>2, <4>1
      <4>3. q = m - 1
        BY <1>0, <2>1, <3>2
      <4>4. Rank(n, s, i) = m - 1 + b * m + r
        BY <1>0, <3>2, <4>3
      <4> QED BY <1>0, <4>2, <4>4
    <3> QED BY <3>1, <3>2
  <2>4. b + 1 < n
    <3>1. CASE m = 0
      <4>1. b < r /\ b * m = 0 /\ m * s = 0
        BY <1>0, <3>1
      <4> QED BY <1>0, <2>1, <3>1, <4>1
    <3>2. CASE m # 0
      <4>1. m * s >= s
        BY <3>2, ProductGrows
      <4> QED BY <1>0, <2>3, <4>1
    <3> QED BY <3>1, <3>2
  <2>5. (b + 1) \div s = 0 /\ (b + 1) % s = b + 1
    <3>1. b + 1 \in 0 .. s - 1 /\ b + 1 = 0 * s + (b + 1) /\ b + 1 \in Nat
      BY <2>3
    <3> DEFINE a == b + 1
    <3>2. IsSum(a, s, 0, a)
      BY <3>1 DEF IsSum
    <3> HIDE DEF a
    <3>3. a \div s = 0 /\ a % s = a
      BY <3>2, SumDivided
    <3> QED BY <3>3 DEF a
  <2>6. Rank(n, s, b + 1) = b * m + m + (IF b + 1 < r THEN b + 1 ELSE r)
    BY <1>0, <2>2, <2>5 DEF Rank
  <2> QED BY <1>0, <2>1, <2>4, <2>5, <2>6
<1> QED BY <1>0, <1>2, <1>3

-----------------------------------------------------------------------------
\* The loop of format() over the sectors.
InterleaveStep(d, x) ==
  IF x.index + d.skew >= d.SECS
  THEN [index |-> x.base + 1, base |-> x.base + 1]
  ELSE [x EXCEPT !.index = @ + d.skew]

InterleaveLoop(d, at) ==
  \A j \in 0 .. d.SECS - 1 :
    at[j] = IF j = 0 THEN [index |-> 0, base |-> 0] ELSE InterleaveStep(d, at[j - 1])

LEMMA InterleaveIs ==
  ASSUME NEW d, d.SECS \in Nat \ {0}, d.skew \in Nat
  PROVE  \E at : /\ InterleaveLoop(d, at)
                 /\ Interleave(d) = [j \in 0 .. d.SECS - 1 |-> at[j].index]
<1> DEFINE n == d.SECS - 1
           S == [index : Nat, base : Nat]
           c == [index |-> 0, base |-> 0]
           T == [x \in S \X (1 .. n) |-> InterleaveStep(d, x[1])]
           Solves(g) ==
             g = [j \in 0 .. n |->
                    IF j = 0 THEN c
                    ELSE LET before == g[j - 1]
                         IN IF before.index + d.skew >= d.SECS
                            THEN [index |-> before.base + 1, base |-> before.base + 1]
                            ELSE [before EXCEPT !.index = @ + d.skew]]
<1>0. n \in Nat /\ c \in S
  OBVIOUS
<1>1. ASSUME NEW x \in S
      PROVE  InterleaveStep(d, x) \in S
  <2>1. x.index \in Nat /\ x.base \in Nat /\ x = [index |-> x.index, base |-> x.base]
    OBVIOUS
  <2>2. [x EXCEPT !.index = @ + d.skew] = [index |-> x.index + d.skew, base |-> x.base]
    BY <2>1
  <2> QED BY <2>1, <2>2 DEF InterleaveStep
<1>2. T \in [S \X (1 .. n) -> S]
  <2> HIDE DEF S
  <2> QED BY <1>1
<1>3. \A x \in S, k \in 1 .. n : T[<<x, k>>] = InterleaveStep(d, x)
  OBVIOUS
<1>4. PICK g \in [0 .. n -> S] : LoopValues(g, n, c, T)
  <2> HIDE DEF n, T, S, c
  <2> QED BY <1>0, <1>2, LoopHasValues
<1>5. Solves(g)
  <2>1. ASSUME NEW k \in 0 .. n
        PROVE  g[k] = IF k = 0 THEN c ELSE InterleaveStep(d, g[k - 1])
    <3> HIDE DEF T, c, S
    <3>1. CASE k = 0
      BY <1>4, <3>1 DEF LoopValues
    <3>2. CASE k # 0
      <4>1. k \in 1 .. n /\ g[k - 1] \in S
        BY <1>0, <1>4, <3>2
      <4> QED BY <1>3, <1>4, <3>2, <4>1 DEF LoopValues
    <3> QED BY <3>1, <3>2
  <2>2. g = [k \in 0 .. n |-> g[k]]
    BY <1>4
  <2> HIDE DEF n, c
  <2> QED BY <2>1, <2>2 DEF InterleaveStep
<1> DEFINE at == CHOOSE f : Solves(f)
<1>6. Solves(at)
  <2> HIDE DEF Solves
  <2> QED BY <1>5
<1>7. Interleave(d) = [j \in 0 .. n |-> at[j].index]
  BY SMTT(30) DEF Interleave
<1>8. InterleaveLoop(d, at)
  <2> HIDE DEF at
  <2> QED BY <1>6 DEF InterleaveLoop, InterleaveStep
<1> HIDE DEF at
<1> QED BY <1>7, <1>8

\* After so many sectors the loop is at the sector of that rank.
AtRank(d, j, x) ==
  /\ x = [index |-> x.index, base |-> x.base]
  /\ x.index \in 0 .. d.SECS - 1 /\ x.base = x.index % d.skew
  /\ Rank(d.SECS, d.skew, x.index) = j

LEMMA InterleaveRanks ==
  ASSUME NEW d, d.SECS \in Nat \ {0}, d.skew \in Nat \ {0}, NEW at, InterleaveLoop(d, at)
  PROVE  \A j \in 0 .. d.SECS - 1 : AtRank(d, j, at[j])
<1> DEFINE n == d.SECS
           s == d.skew
           m == n - 1
           good == {j \in 0 .. m : AtRank(d, j, at[j])}
<1>0. n \in Nat \ {0} /\ s \in Nat \ {0} /\ m \in Nat
  OBVIOUS
<1>1. 0 \in good
  <2>1. at[0] = [index |-> 0, base |-> 0]
    BY DEF InterleaveLoop
  <2>2. IsSum(0, s, 0, 0)
    BY DEF IsSum
  <2>3. 0 \div s = 0 /\ 0 % s = 0
    BY <1>0, <2>2, SumDivided
  <2>4. Rank(n, s, 0) = 0
    <3>1. n \div s \in Nat /\ n % s \in Nat
      OBVIOUS
    <3> QED BY <2>3, <3>1 DEF Rank
  <2>5. AtRank(d, 0, at[0])
    BY <2>1, <2>3, <2>4 DEF AtRank
  <2> QED BY <2>5
<1>2. ASSUME NEW j \in 1 .. m, j - 1 \in good
      PROVE  j \in good
  <2> DEFINE x == at[j - 1]
             i == x.index
  <2>1. /\ x = [index |-> i, base |-> x.base] /\ i \in 0 .. n - 1 /\ x.base = i % s
        /\ Rank(n, s, i) = j - 1
    BY <1>2 DEF AtRank
  <2>2. at[j] = InterleaveStep(d, x)
    <3>1. j \in 0 .. d.SECS - 1 /\ j # 0
      OBVIOUS
    <3> QED BY <3>1 DEF InterleaveLoop
  <2> HIDE DEF x
  <2>3. Rank(n, s, i) < n - 1
    BY <2>1
  <2> HIDE DEF n, s
  <2>4. /\ i + s < n => Rank(n, s, i + s) = j /\ (i + s) % s = i % s
        /\ i + s >= n =>
             /\ (i % s) + 1 < n /\ ((i % s) + 1) % s = (i % s) + 1
             /\ Rank(n, s, (i % s) + 1) = j
    BY <1>0, <2>1, <2>3, RankOfNext
  <2>5. CASE i + s >= n
    <3>1. at[j] = [index |-> x.base + 1, base |-> x.base + 1]
      BY <2>2, <2>5 DEF InterleaveStep, n, s
    <3>2. i % s \in Nat
      BY <1>0, <2>1
    <3>3. AtRank(d, j, at[j])
      BY <1>0, <2>1, <2>4, <2>5, <3>1, <3>2 DEF AtRank, n, s
    <3> QED BY <3>3
  <2>6. CASE i + s < n
    <3>1. at[j] = [x EXCEPT !.index = @ + d.skew]
      BY <1>0, <2>1, <2>2, <2>6 DEF InterleaveStep, n, s
    <3>2. at[j] = [index |-> i + s, base |-> x.base]
      BY <2>1, <3>1 DEF s
    <3>3. AtRank(d, j, at[j])
      BY <1>0, <2>1, <2>4, <2>6, <3>2 DEF AtRank, n, s
    <3> QED BY <3>3
  <2> QED BY <1>0, <2>1, <2>5, <2>6
<1> HIDE DEF good, m
<1>3. \A j \in 0 .. m : j \in good
  BY <1>0, <1>1, <1>2, CarriedOn
<1> QED BY <1>3 DEF good, m

\* Every sector of a track has its place in it.
LEMMA InterleaveFull ==
  ASSUME NEW d, d.SECS \in Nat \ {0}, d.skew \in Nat \ {0}
  PROVE  /\ Interleave(d) \in [0 .. d.SECS - 1 -> 0 .. d.SECS - 1]
         /\ Interleave(d)[0] = 0
         /\ \A s \in 0 .. d.SECS - 1 : \E j \in 0 .. d.SECS - 1 : Interleave(d)[j] = s
<1>1. PICK at : /\ InterleaveLoop(d, at)
                /\ Interleave(d) = [j \in 0 .. d.SECS - 1 |-> at[j].index]
  BY InterleaveIs
<1>2. \A j \in 0 .. d.SECS - 1 :
        at[j].index \in 0 .. d.SECS - 1 /\ Rank(d.SECS, d.skew, at[j].index) = j
  <2>1. \A j \in 0 .. d.SECS - 1 : AtRank(d, j, at[j])
    BY <1>1, InterleaveRanks
  <2> QED BY <2>1 DEF AtRank
<1>3. at[0].index = 0
  BY <1>1 DEF InterleaveLoop
<1>4. ASSUME NEW s \in 0 .. d.SECS - 1
      PROVE  \E j \in 0 .. d.SECS - 1 : Interleave(d)[j] = s
  <2> DEFINE j == Rank(d.SECS, d.skew, s)
  <2>1. j \in 0 .. d.SECS - 1
    BY RankIsPlace
  <2>2. Rank(d.SECS, d.skew, at[j].index) = j /\ at[j].index \in 0 .. d.SECS - 1
    BY <1>2, <2>1
  <2>3. at[j].index = s
    BY <2>2, RankOfOne
  <2> HIDE DEF j
  <2> QED BY <1>1, <2>1, <2>3
<1>5. Interleave(d)[0] = 0
  BY <1>1, <1>3
<1>6. Interleave(d) \in [0 .. d.SECS - 1 -> 0 .. d.SECS - 1]
  BY <1>1, <1>2
<1> QED BY <1>4, <1>5, <1>6

-----------------------------------------------------------------------------
(* Images are opened under the format they were made with.                 *)

FormatsHeld == \A k \in Formats : HeaderHolds(dpb_list[k].dpb)

\* The list is what a definition file made of the built-in formats.
ListParsed == dpb_list = <<>> \/ \E file \in Defs : dpb_list = parse_def_file(BuiltIn, file).list

LEMMA ListChanges ==
  ASSUME [Next]_vars
  PROVE  UNCHANGED dpb_list \/ \E file \in Defs : Start(file)
BY DEF Next, vars, cmd_open, cmd_open_forced, set_format, cmd_open_error, cmd_new_declined,
       cmd_new, format_break, cmd_close, cmd_attrib

LEMMA ParsedAlways == Spec => []ListParsed
<1>1. Init => ListParsed
  BY DEF Init, ListParsed
<1>2. ListParsed /\ [Next]_vars => ListParsed'
  <2> SUFFICES ASSUME ListParsed, [Next]_vars PROVE ListParsed'
    OBVIOUS
  <2>1. CASE UNCHANGED dpb_list
    BY <2>1 DEF ListParsed
  <2>2. ASSUME NEW file \in Defs, Start(file)
        PROVE  ListParsed'
    <3>1. dpb_list' = parse_def_file(BuiltIn, file).list
      BY <2>2 DEF Start
    <3> QED BY <3>1 DEF ListParsed
  <2> QED BY <2>1, <2>2, ListChanges
<1> QED BY <1>1, <1>2, PTL DEF Spec

LEMMA HeldAlways == FormatsFit => (Spec => []FormatsHeld)
<1> SUFFICES ASSUME FormatsFit PROVE Spec => []FormatsHeld
  OBVIOUS
<1>1. ListParsed => FormatsHeld
  <2>1. CASE dpb_list = <<>>
    BY <2>1 DEF FormatsHeld, Formats
  <2>2. ASSUME NEW file \in Defs, dpb_list = parse_def_file(BuiltIn, file).list
        PROVE  FormatsHeld
    BY <2>2, SMTT(30) DEF FormatsFit, FormatsHeld, Formats
  <2> QED BY <2>1, <2>2 DEF ListParsed
<1> QED BY <1>1, ParsedAlways, PTL

\* An image that was made has the header of its format.
LEMMA MadeIs ==
  ASSUME SessionIInv, FormatsHeld, active # NoImage
  PROVE  \E k \in Formats, extended \in BOOLEAN, whole \in BOOLEAN :
           /\ disk[active] = Image(k, extended, whole)
           /\ HeaderHolds(dpb_list[k].dpb) /\ disk[active].made_with = k
           /\ dpb_list[k].dpb.HDS \in 1 .. 255 /\ dpb_list[k].dpb.TRKS \in 1 .. 255
<1>1. PICK k \in Formats, extended \in BOOLEAN, whole \in BOOLEAN :
        disk[active] = Image(k, extended, whole)
  BY DEF SessionIInv, TypeOK, ImagesMade
<1> DEFINE d == dpb_list[k].dpb
           image == disk[active]
<1>2. image.header = FormatHeader(d, extended) /\ image.made_with = k
  BY <1>1 DEF Image
<1>3. image.header.nbof_heads = d.HDS % 256 /\ image.header.nbof_tracks = d.TRKS % 256
  BY <1>2 DEF FormatHeader
<1>4. HeaderHolds(d)
  BY DEF FormatsHeld
<1>5. image.header.nbof_heads >= 1 /\ image.header.nbof_tracks >= 1
  BY DEF SessionIInv, InUseAccepted, image_accepted
<1> HIDE DEF d, image
<1>6. d.HDS % 256 = d.HDS /\ d.TRKS % 256 = d.TRKS
  <2>1. d.HDS \in Int /\ d.TRKS \in Int /\ 0 <= d.HDS /\ d.HDS < 256 /\ 0 <= d.TRKS /\ d.TRKS < 256
    BY <1>4, SMTT(30) DEF HeaderHolds
  <2> QED BY <2>1, SmallRest
<1>7. d.HDS \in 1 .. 255 /\ d.TRKS \in 1 .. 255
  BY <1>3, <1>4, <1>5, <1>6 DEF HeaderHolds
<1> QED BY <1>1, <1>2, <1>4, <1>7 DEF d, image

\* The ids of sectors fit the byte of a track's header that holds them.
LEMMA IdInByte ==
  ASSUME NEW d, HeaderHolds(d), NEW hd \in 0 .. d.HDS - 1, NEW s \in 0 .. d.SECS - 1
  PROVE  SectorId(d, hd, s) \in 0 .. 255 /\ SectorId(d, hd, s) % 256 = SectorId(d, hd, s)
<1> DEFINE first == IF hd = 0 THEN d.SEC1_side1 ELSE d.SEC1_side2
           id == SectorId(d, hd, s)
<1>1. d.SECS \in Nat /\ d.SEC1_side1 \in Nat /\ d.SEC1_side2 \in Nat
      /\ SectorId(d, hd, d.SECS) <= 256
  BY DEF HeaderHolds, MaxSectors
<1>2. first \in Nat /\ d.SECS + first <= 256 /\ id = s + first
  BY <1>1 DEF SectorId
<1> HIDE DEF first, id
<1>3. id \in 0 .. 255
  BY <1>1, <1>2
<1>4. id \in Int /\ 0 <= id /\ id < 256
  BY <1>3
<1>5. id % 256 = id
  BY <1>4, SmallRest
<1> QED BY <1>3, <1>5 DEF id

\* An image that was opened without naming a format is in use under the one it
\* was made with (open_image and select_format, fs.c:1472): its own format is
\* among those that fit, so that either it is the only one, or the image is
\* refused.  This is so where the ids of a format's sectors fit the byte they
\* are written in; a first id beyond it would not be found again.
THEOREM DetectedRight == FormatsFit => (Spec => []DetectedAsMade)
<1> SUFFICES ASSUME FormatsFit PROVE Spec => []DetectedAsMade
  BY SMTT(30)
<1>1. SessionIInv /\ FormatsHeld => DetectedAsMade
  <2> SUFFICES ASSUME SessionIInv, FormatsHeld, auto PROVE dpb = disk[active].made_with
    BY DEF DetectedAsMade
  <2>0. active # NoImage /\ dpb = Selected(disk[active]) /\ dpb \in 1 .. Len(dpb_list)
        /\ Len(dpb_list) \in Nat /\ Formats = 1 .. Len(dpb_list)
    <3>1. active # NoImage /\ dpb = Selected(disk[active]) /\ dpb \in 0 .. Len(dpb_list) /\ dpb # 0
      BY SMTT(30) DEF SessionIInv, InUseAccepted, TypeOK
    <3> QED BY <3>1, FormatsAre DEF SessionIInv
  <2>1. PICK k \in Formats, extended \in BOOLEAN, whole \in BOOLEAN :
           /\ disk[active] = Image(k, extended, whole)
           /\ HeaderHolds(dpb_list[k].dpb) /\ disk[active].made_with = k
           /\ dpb_list[k].dpb.HDS \in 1 .. 255 /\ dpb_list[k].dpb.TRKS \in 1 .. 255
    BY <2>0, MadeIs, SMTT(30)
  <2> DEFINE d == dpb_list[k].dpb
             list == [j \in Formats |-> dpb_list[j].dpb]
             h == disk[active].header
             t == disk[active].track[0]
             fits == {j \in DOMAIN list :
                        /\ sector_exists(t, list[j].SEC1_side1)
                        /\ t.SPT = list[j].SECS
                        /\ h.nbof_heads = list[j].HDS /\ h.nbof_tracks = list[j].TRKS}
             found == IF fits = {} THEN 0 ELSE IF Cardinality(fits) = 1 THEN Least(fits) ELSE -1
  <2>2. dpb = found
    BY <2>0, SMTT(30) DEF Selected, select_format
  <2>3. h = FormatHeader(d, extended) /\ t = FormatTrack(d, 0)
    <3>1. \A n \in 1 .. 255 : 0 \in 0 .. n - 1
      OBVIOUS
    <3>2. 0 \in 0 .. d.HDS - 1
      <4>1. d.HDS \in 1 .. 255
        BY <2>1
      <4> HIDE DEF d
      <4> QED BY <3>1, <4>1
    <3> QED BY <2>1, <3>2 DEF Image
  <2>4. /\ h.nbof_heads = d.HDS % 256 /\ h.nbof_tracks = d.TRKS % 256
        /\ t.SPT = d.SECS % 256
        /\ \A j \in 0 .. d.SECS - 1 : t.sector[j].sector = SectorId(d, 0, Interleave(d)[j]) % 256
    BY <2>3 DEF FormatHeader, FormatTrack
  <2>5. d.HDS % 256 = d.HDS /\ d.TRKS % 256 = d.TRKS /\ d.SECS % 256 = d.SECS
    <3>1. HeaderHolds(d)
      BY <2>1
    <3> HIDE DEF d
    <3>2. d.HDS \in Int /\ d.TRKS \in Int /\ d.SECS \in Int
          /\ 0 <= d.HDS /\ d.HDS < 256 /\ 0 <= d.TRKS /\ d.TRKS < 256 /\ 0 <= d.SECS /\ d.SECS < 256
      BY <3>1, SMTT(30) DEF HeaderHolds, MaxSectors
    <3> QED BY <3>2, SmallRest
  <2>6. fits \in SUBSET (1 .. Len(dpb_list)) /\ fits \in SUBSET Nat
    BY <2>0
  <2>7. fits # {} /\ Cardinality(fits) = 1 /\ dpb = Least(fits)
    <3> HIDE DEF fits
    <3> DEFINE one == Cardinality(fits) = 1
    <3>1. dpb = IF fits = {} THEN 0 ELSE IF one THEN Least(fits) ELSE -1
      BY <2>2
    <3>2. dpb # 0 /\ dpb # -1
      BY <2>0
    <3> HIDE DEF one
    <3>3. fits # {} /\ one /\ dpb = Least(fits)
      BY <3>1, <3>2
    <3> QED BY <3>3 DEF one
  <2>8. d.SECS \in Nat \ {0}
    <3>1. PICK j \in fits : TRUE
      BY <2>7
    <3>2. sector_exists(t, list[j].SEC1_side1)
      BY <3>1
    <3> HIDE DEF d, t, list
    <3>3. \E i \in 0 .. t.SPT - 1 : TRUE
      BY <3>2 DEF sector_exists
    <3>4. t.SPT = d.SECS /\ d.SECS \in Nat
      <4>1. HeaderHolds(d)
        BY <2>1 DEF d
      <4> QED BY <2>4, <2>5, <4>1 DEF HeaderHolds
    <3> QED BY <3>3, <3>4
  <2>9. sector_exists(t, d.SEC1_side1)
    <3>0. d.skew \in Nat \ {0}
      BY <2>1 DEF HeaderHolds
    <3>1. Interleave(d)[0] = 0 /\ 0 \in 0 .. d.SECS - 1
      BY <2>8, <3>0, InterleaveFull, SMTT(30)
    <3>2. t.sector[0].sector = SectorId(d, 0, 0) % 256
      BY <2>4, <3>1
    <3>3. SectorId(d, 0, 0) = 0 + d.SEC1_side1
      BY DEF SectorId
    <3>4. d.SEC1_side1 \in Int /\ SectorId(d, 0, 0) % 256 = SectorId(d, 0, 0)
      <4>1. HeaderHolds(d) /\ 0 \in 0 .. d.HDS - 1
        BY <2>1, SMTT(30)
      <4> HIDE DEF d
      <4>2. d.SEC1_side1 \in Int
        BY <4>1 DEF HeaderHolds
      <4> QED BY <3>1, <4>1, <4>2, IdInByte
    <3>5. 0 \in 0 .. t.SPT - 1
      BY <2>4, <2>5, <3>1
    <3> HIDE DEF d, t
    <3> QED BY <3>2, <3>3, <3>4, <3>5, SMTT(30) DEF sector_exists
  <2>10. k \in fits
    BY <2>1, <2>4, <2>5, <2>9
  <2>11. IsFiniteSet(fits)
    <3>1. IsFiniteSet(1 .. Len(dpb_list))
      BY <2>0, FS_Interval
    <3>2. fits \subseteq 1 .. Len(dpb_list)
      BY <2>6
    <3> HIDE DEF fits
    <3> QED BY <3>1, <3>2, FS_Subset
  <2> HIDE DEF fits
  <2>12. PICK x : fits = {x}
    BY <2>7, <2>11, FS_Singleton
  <2>13. Least(fits) \in fits
    BY <2>6, <2>7, LeastIsIn
  <2> QED BY <2>1, <2>7, <2>10, <2>12, <2>13
<1> QED BY <1>1, SessionInvariant, HeldAlways, PTL

-----------------------------------------------------------------------------
(* Where the tracks of an image are.                                       *)

\* The sizes of so many tracks of the same size.
LEMMA SizesAdd ==
  ASSUME NEW h, NEW n \in Nat, NEW c \in Nat, \A k \in 0 .. n - 1 : h.sizes[k] = c
  PROVE  SizesBefore(h, n) = n * (PAGE * c)
<1> DEFINE S == Nat
           T == [x \in S \X (1 .. n) |-> x[1] + PAGE * h.sizes[x[2] - 1]]
           Solves(g) ==
             g = [k \in 0 .. n |-> IF k = 0 THEN 0 ELSE g[k - 1] + PAGE * h.sizes[k - 1]]
<1>0. \A k \in 1 .. n : PAGE * h.sizes[k - 1] = PAGE * c /\ PAGE * c \in Nat
  BY DEF PAGE
<1>1. \A x \in S, k \in 1 .. n : T[<<x, k>>] = x + PAGE * h.sizes[k - 1]
  OBVIOUS
<1>2. T \in [S \X (1 .. n) -> S]
  BY <1>0
<1>3. PICK g \in [0 .. n -> S] : LoopValues(g, n, 0, T)
  <2>1. 0 \in S
    OBVIOUS
  <2> HIDE DEF T, S
  <2> QED BY <1>2, <2>1, LoopHasValues
<1>4. Solves(g)
  <2>1. ASSUME NEW k \in 0 .. n
        PROVE  g[k] = IF k = 0 THEN 0 ELSE g[k - 1] + PAGE * h.sizes[k - 1]
    <3> HIDE DEF T, S
    <3>1. CASE k = 0
      BY <1>3, <3>1 DEF LoopValues
    <3>2. CASE k # 0
      <4>1. k \in 1 .. n /\ g[k - 1] \in S
        BY <1>3, <3>2
      <4> QED BY <1>1, <1>3, <3>2, <4>1 DEF LoopValues
    <3> QED BY <3>1, <3>2
  <2>2. g = [k \in 0 .. n |-> g[k]]
    BY <1>3
  <2> QED BY <2>1, <2>2
<1> DEFINE sum == CHOOSE f : Solves(f)
<1>5. Solves(sum)
  <2> HIDE DEF Solves
  <2> QED BY <1>4
<1>6. SizesBefore(h, n) = sum[n]
  BY DEF SizesBefore
<1> HIDE DEF sum
<1> DEFINE p == PAGE * c
           good == {k \in 0 .. n : sum[k] = k * p}
<1>7. 0 \in good
  <2>1. p \in Nat /\ 0 * p = 0
    BY DEF PAGE
  <2> QED BY <1>5, <2>1
<1>8. ASSUME NEW k \in 1 .. n, k - 1 \in good
      PROVE  k \in good
  <2>1. sum[k] = sum[k - 1] + p
    BY <1>0, <1>5
  <2>2. p \in Nat
    BY DEF PAGE
  <2>3. sum[k - 1] = (k - 1) * p
    BY <1>8
  <2> HIDE DEF p
  <2>4. (k - 1) * p + p = k * p
    BY <2>2
  <2> QED BY <2>1, <2>3, <2>4
<1> HIDE DEF good
<1>9. \A k \in 0 .. n : k \in good
  BY <1>7, <1>8, CarriedOn
<1>10. n \in good
  BY <1>9
<1> QED BY <1>6, <1>10 DEF good

\* A short keeps the size of a track.
LEMMA ShortKeeps ==
  ASSUME NEW n \in Nat, n <= MaxShort
  PROVE  Short(n) = n
<1> DEFINE m == MaxShort + 1
<1>1. m \in Nat /\ n < m
  BY SMT DEF MaxShort
<1>2. Short(n) = ((n + m) % (2 * m)) - m
  <2>1. n + MaxShort + 1 = n + m
    BY SMT DEF MaxShort
  <2> QED BY <2>1 DEF Short
<1> HIDE DEF m
<1>3. (n + m) % (2 * m) = n + m
  <2>1. n + m \in Int /\ 2 * m \in Int /\ 0 <= n + m /\ n + m < 2 * m
    BY <1>1
  <2> QED BY <2>1, SmallRest
<1> QED BY <1>1, <1>2, <1>3

LEMMA SizeOfTrack ==
  ASSUME NEW d, HeaderHolds(d)
  PROVE  /\ FormatTrackSize(d) \in Nat /\ FormatTrackSize(d) >= PAGE
         /\ FormatTrackSize(d) <= MaxShort
<1>1. d.BPS * d.SECS \in Nat
  <2>1. d.BPS \in Nat /\ d.SECS \in Nat
    BY SMT DEF HeaderHolds, MaxSectors
  <2> QED BY <2>1
<1>2. FormatTrackSize(d) <= MaxShort
  BY DEF HeaderHolds
<1> QED BY <1>1, <1>2, SMT DEF FormatTrackSize, PAGE

\* A track is found behind the tracks before it.
LEMMA TrackOffset ==
  ASSUME NEW d, HeaderHolds(d), NEW extended \in BOOLEAN,
         d.HDS \in 1 .. 255, d.TRKS \in 1 .. 255,
         extended => FormatTrackSize(d) % PAGE = 0,
         NEW i \in 0 .. d.TRKS * d.HDS - 1
  PROVE  get_track_offset(FormatHeader(d, extended), i \div d.HDS, i % d.HDS)
           = PAGE + i * FormatTrackSize(d)
<1> DEFINE h == FormatHeader(d, extended)
           H == d.HDS
           W == d.TRKS
           trk == i \div H
           hd == i % H
           written == FormatTrackSize(d)
<1>0. H \in Nat \ {0} /\ W \in Nat \ {0} /\ W * H \in Nat /\ i \in Nat
  <2>1. H \in 1 .. 255 /\ W \in 1 .. 255 /\ i \in 0 .. W * H - 1
    OBVIOUS
  <2> HIDE DEF H, W
  <2>2. W * H \in Nat
    BY <2>1
  <2> QED BY <2>1, <2>2
<1>1. /\ h.image_type = IF extended THEN 1 ELSE 0
      /\ h.nbof_tracks = W /\ h.nbof_heads = H
      /\ ~ extended => h.tracksize = Short(written)
      /\ \A k \in 0 .. W * H - 1 : extended => h.sizes[k] = (written \div PAGE) % 256
  <2>1. W % 256 = W /\ H % 256 = H
    <3>1. H \in 1 .. 255 /\ W \in 1 .. 255
      OBVIOUS
    <3> HIDE DEF W, H
    <3> QED BY <3>1, SmallRest
  <2>2. \A k \in 0 .. W * H - 1 : k \in 0 .. TABLE - 1 /\ k < W * H
    <3>1. W * H <= TABLE
      BY DEF HeaderHolds
    <3> HIDE DEF W, H
    <3> QED BY <1>0, <3>1 DEF TABLE
  <2>3. \A k \in 0 .. TABLE - 1 :
          extended /\ k < W * H => h.sizes[k] = (written \div PAGE) % 256
    BY DEF FormatHeader
  <2>4. /\ h.image_type = IF extended THEN 1 ELSE 0
        /\ h.nbof_tracks = W /\ h.nbof_heads = H
        /\ ~ extended => h.tracksize = Short(written)
    BY <2>1 DEF FormatHeader
  <2> HIDE DEF h, W, H, written
  <2> QED BY <2>2, <2>3, <2>4
<1>2. /\ written \in Nat /\ written >= PAGE /\ written \div PAGE <= 255
      /\ Short(written) = written
  <2>1. written \in Nat /\ written >= PAGE /\ written <= MaxShort
    BY SizeOfTrack
  <2> HIDE DEF written
  <2>2. written \div PAGE <= 255
    BY <2>1, SMT DEF PAGE, MaxShort
  <2> QED BY <2>1, <2>2, ShortKeeps
<1> HIDE DEF h, H, W, written
<1>3. trk \in Nat /\ hd \in 0 .. H - 1 /\ i = trk * H + hd
  <2>1. H \in Nat \ {0} /\ i \in Nat
    BY <1>0
  <2> QED BY <2>1, Divides
<1> HIDE DEF trk, hd
<1>4. trk < W
  <2>1. SUFFICES ASSUME W <= trk PROVE FALSE
    BY <1>0, <1>3
  <2>2. W * H <= trk * H
    BY <1>0, <1>3, <2>1, ProductsInOrder
  <2>3. i < W * H
    BY <1>0 DEF W, H
  <2> QED BY <1>0, <1>3, <2>2, <2>3
<1>5. HasTrack(h, trk, hd) /\ TrackIndex(h, trk, hd) = i
  <2>1. hd < H
    BY <1>0, <1>3
  <2>2. HasTrack(h, trk, hd)
    BY <1>1, <1>4, <2>1 DEF HasTrack
  <2>3. TrackIndex(h, trk, hd) = trk * H + hd
    BY <1>1 DEF TrackIndex
  <2> QED BY <1>3, <2>2, <2>3
<1>6. CASE ~ extended
  BY <1>1, <1>2, <1>5, <1>6 DEF get_track_offset, h, trk, hd, H, written
<1>7. CASE extended
  <2> DEFINE c == written \div PAGE
  <2>1. c \in Nat /\ c <= 255 /\ c # 0 /\ written = PAGE * c
    BY <1>2, <1>7 DEF PAGE, written
  <2>2. c % 256 = c
    <3> HIDE DEF c
    <3> QED BY <2>1, SmallRest
  <2>3. \A k \in 0 .. W * H - 1 : h.sizes[k] = c
    BY <1>1, <1>7, <2>2
  <2> HIDE DEF c
  <2>4. SizesBefore(h, i) = i * (PAGE * c)
    <3>1. \A k \in 0 .. i - 1 : h.sizes[k] = c
      BY <1>0, <2>3 DEF W, H
    <3> QED BY <1>0, <2>1, <3>1, SizesAdd
  <2>5. h.sizes[i] = c
    BY <2>3 DEF W, H
  <2>6. h.image_type = 1
    BY <1>1, <1>7
  <2>7. get_track_offset(h, trk, hd) = PAGE + SizesBefore(h, i)
    BY <1>5, <2>1, <2>5, <2>6 DEF get_track_offset
  <2> QED BY <2>1, <2>4, <2>7 DEF h, trk, hd, H, written
<1> QED BY <1>6, <1>7

\* Every track of an image is looked for where format() has written it (fs.c:365
\* and fs.c:2694): the offsets of a standard image are multiples of the size of
\* a track, those of an extended one the sums of a table that has the same size
\* for every track.  This is so where the tracks of an image are no more than the
\* table has room for and the size of one fits the signed short of the header.
THEOREM TracksFound == FormatsFit => (Spec => []TracksWhereWritten)
<1> SUFFICES ASSUME FormatsFit PROVE Spec => []TracksWhereWritten
  OBVIOUS
<1>1. SessionIInv /\ FormatsHeld => TracksWhereWritten
  <2> SUFFICES ASSUME SessionIInv, FormatsHeld, active # NoImage PROVE TracksWhereWritten
    BY SMTT(30) DEF TracksWhereWritten
  <2>1. PICK k \in Formats, extended \in BOOLEAN, whole \in BOOLEAN :
           /\ disk[active] = Image(k, extended, whole)
           /\ HeaderHolds(dpb_list[k].dpb) /\ disk[active].made_with = k
           /\ dpb_list[k].dpb.HDS \in 1 .. 255 /\ dpb_list[k].dpb.TRKS \in 1 .. 255
    BY MadeIs
  <2> DEFINE d == dpb_list[k].dpb
             h == disk[active].header
             made == disk[active].made_with
  <2>2. h = FormatHeader(d, extended) /\ made = k
    BY <2>1, SMTT(30) DEF Image
  <2>3. HeaderHolds(d) /\ d.HDS \in 1 .. 255 /\ d.TRKS \in 1 .. 255
    BY <2>1
  <2>4. TracksWhereWritten <=>
          ((h.image_type = 1 => FormatTrackSize(dpb_list[made].dpb) % PAGE = 0) =>
             \A i \in 0 .. h.nbof_tracks * h.nbof_heads - 1 :
               get_track_offset(h, i \div h.nbof_heads, i % h.nbof_heads)
                 = PAGE + i * FormatTrackSize(dpb_list[made].dpb))
    BY DEF TracksWhereWritten
  <2>5. dpb_list[made].dpb = d
    BY <2>2
  <2> HIDE DEF d, h, made
  <2>6. /\ h.image_type = IF extended THEN 1 ELSE 0
        /\ h.nbof_tracks = d.TRKS /\ h.nbof_heads = d.HDS
    <3>1. d.HDS % 256 = d.HDS /\ d.TRKS % 256 = d.TRKS
      BY <2>3, SmallRest, SMTT(30)
    <3> QED BY <2>2, <3>1 DEF FormatHeader
  <2> SUFFICES ASSUME extended => FormatTrackSize(d) % PAGE = 0,
                      NEW i \in 0 .. d.TRKS * d.HDS - 1
               PROVE  get_track_offset(h, i \div d.HDS, i % d.HDS)
                        = PAGE + i * FormatTrackSize(d)
    BY <2>4, <2>5, <2>6
  <2> QED BY <2>2, <2>3, TrackOffset
<1> QED BY <1>1, SessionInvariant, HeldAlways, PTL

-----------------------------------------------------------------------------
(* Where the sectors of a track are.                                       *)

\* What a parameter block in use has is that of its format, and what is
\* computed from it.
LEMMA UpdatedIs ==
  ASSUME NEW d \in FormatRecords
  PROVE  LET u == update_dpb(d)
         IN /\ u.SECS = d.SECS /\ u.BPS = d.BPS /\ u.TRKS = d.TRKS /\ u.HDS = d.HDS
            /\ u.SEC1_side1 = d.SEC1_side1 /\ u.SEC1_side2 = d.SEC1_side2
            /\ u.side0_hd = d.side0_hd /\ u.side1_hd = d.side1_hd
            /\ u.order = d.order /\ u.OFS = d.OFS /\ u.DSM = d.DSM /\ u.EXM = d.EXM
            /\ u.BLS = Computed(d).BLS /\ u.num_extents = Computed(d).num_extents
            /\ u.BLKNR = Computed(d).BLKNR
<1> DEFINE u == update_dpb(d)
<1>1. DOMAIN d = Fields
  BY DEF FormatRecords
<1>2. \A f \in Fields : u[f] = d[f]
  BY <1>1 DEF update_dpb
<1>3. \A f \in {"BLS", "num_extents", "BLKNR"} : f \notin Fields
  BY FieldsAre
<1>4. {"BLS", "num_extents", "BLKNR"} \subseteq DOMAIN Computed(d)
  BY DEF Computed
<1>5. \A f \in {"BLS", "num_extents", "BLKNR"} : u[f] = Computed(d)[f]
  BY <1>1, <1>3, <1>4 DEF update_dpb
<1> HIDE DEF u
<1>6. u.BLS = Computed(d).BLS /\ u.num_extents = Computed(d).num_extents
      /\ u.BLKNR = Computed(d).BLKNR
  BY <1>5
<1>7. /\ u.SECS = d.SECS /\ u.BPS = d.BPS /\ u.TRKS = d.TRKS /\ u.HDS = d.HDS
      /\ u.SEC1_side1 = d.SEC1_side1 /\ u.SEC1_side2 = d.SEC1_side2
      /\ u.side0_hd = d.side0_hd /\ u.side1_hd = d.side1_hd
      /\ u.order = d.order /\ u.OFS = d.OFS /\ u.DSM = d.DSM /\ u.EXM = d.EXM
  BY <1>2, FieldsAre
<1> QED BY <1>6, <1>7 DEF u

\* An image that is used under the format it was made with.
LEMMA UsedIs ==
  ASSUME SessionIInv, FormatsHeld, UsedAsMade
  PROVE  \E k \in Formats, extended \in BOOLEAN, whole \in BOOLEAN :
           /\ disk[active] = Image(k, extended, whole)
           /\ dpb_list[k].dpb \in FormatRecords /\ HeaderHolds(dpb_list[k].dpb)
           /\ dpb_list[k].dpb.HDS \in 1 .. 255 /\ dpb_list[k].dpb.TRKS \in 1 .. 255
           /\ dpb_list[k].dpb.BPS # 0
           /\ InUse = update_dpb(dpb_list[k].dpb)
<1>1. active # NoImage /\ Running /\ dpb = disk[active].made_with /\ dpb # 0
  BY SMTT(30) DEF UsedAsMade, SessionIInv, TypeOK
<1>2. PICK k \in Formats, extended \in BOOLEAN, whole \in BOOLEAN :
           /\ disk[active] = Image(k, extended, whole)
           /\ HeaderHolds(dpb_list[k].dpb) /\ disk[active].made_with = k
           /\ dpb_list[k].dpb.HDS \in 1 .. 255 /\ dpb_list[k].dpb.TRKS \in 1 .. 255
  BY <1>1, MadeIs
<1>3. dpb = k
  BY <1>1, <1>2
<1>4. dpb_list[k].dpb.BPS # 0
  BY <1>1, <1>3 DEF SessionIInv, InUseAccepted
<1>5. InUse = update_dpb(dpb_list[k].dpb)
  BY <1>1, <1>3 DEF InUse
<1>6. dpb_list[k].dpb \in FormatRecords
  <2>1. dpb_list[k] \in Entries
    BY <1>2 DEF SessionIInv, Lists, Formats
  <2> QED BY <2>1 DEF Entries
<1> QED BY <1>2, <1>4, <1>5, <1>6, SMTT(30)

\* A sector is found at the place the interleave has given it.
LEMMA SectorFound ==
  ASSUME NEW d, HeaderHolds(d), NEW hd \in 0 .. d.HDS - 1, NEW s \in 0 .. d.SECS - 1
  PROVE  \E j \in 0 .. d.SECS - 1 :
           /\ get_sector_pos_in_track(FormatTrack(d, hd), SectorId(d, hd, s), HeadValue(d, hd)) = j
           /\ Interleave(d)[j] = s
<1> DEFINE t == FormatTrack(d, hd)
           r == SectorId(d, hd, s)
           v == HeadValue(d, hd)
           found == {i \in 0 .. t.SPT - 1 : t.sector[i].sector = r /\ t.sector[i].head = v}
           n == d.SECS
<1>0. n \in 1 .. 255 /\ d.skew \in Nat \ {0} /\ d.SECS \in Nat \ {0}
  BY DEF HeaderHolds, MaxSectors
<1>1. t.SPT = n
  <2>1. t.SPT = n % 256
    BY DEF FormatTrack
  <2> HIDE DEF n
  <2> QED BY <1>0, <2>1, SmallRest
<1>2. \A i \in 0 .. n - 1 :
        t.sector[i].sector = SectorId(d, hd, Interleave(d)[i]) % 256 /\ t.sector[i].head = v
  BY DEF FormatTrack
<1>3. /\ Interleave(d) \in [0 .. n - 1 -> 0 .. n - 1]
      /\ \E j \in 0 .. n - 1 : Interleave(d)[j] = s
  BY <1>0, InterleaveFull
<1>4. \A i \in 0 .. n - 1 : SectorId(d, hd, Interleave(d)[i]) % 256 = r <=> Interleave(d)[i] = s
  <2>1. ASSUME NEW x \in 0 .. n - 1
        PROVE  SectorId(d, hd, x) % 256 = r <=> x = s
    <3>1. d.SEC1_side1 \in Int /\ d.SEC1_side2 \in Int /\ s \in Int /\ x \in Int
      BY <1>0 DEF HeaderHolds
    <3>2. SectorId(d, hd, x) % 256 = SectorId(d, hd, x)
      BY IdInByte
    <3>3. SectorId(d, hd, x) = SectorId(d, hd, s) <=> x = s
      BY <3>1 DEF SectorId
    <3> QED BY <3>2, <3>3
  <2> QED BY <1>3, <2>1
<1>5. found = {i \in 0 .. n - 1 : Interleave(d)[i] = s}
  <2> HIDE DEF t, r, v, n
  <2> QED BY <1>1, <1>2, <1>4 DEF n
<1>6. found # {} /\ found \in SUBSET Nat
  BY <1>0, <1>3, <1>5
<1>7. get_sector_pos_in_track(t, r, v) = Least(found)
  BY <1>6 DEF get_sector_pos_in_track
<1> HIDE DEF found
<1>8. Least(found) \in found
  BY <1>6, LeastIsIn
<1> QED BY <1>5, <1>7, <1>8

LEMMA CodeOfSize ==
  ASSUME NEW b \in CodedSizes
  PROVE  get_sector_size_from_n(b \div 256) = b
<1>1. CASE b = 128
  <2>1. b \div 256 = 0
    BY <1>1
  <2> QED BY <1>1, <2>1 DEF get_sector_size_from_n, RECORDSIZE
<1>2. CASE b = 256
  <2>1. b \div 256 = 1
    BY <1>2
  <2> QED BY <1>2, <2>1 DEF get_sector_size_from_n, RECORDSIZE
<1>3. CASE b = 512
  <2>1. b \div 256 = 2
    BY <1>3
  <2> QED BY <1>3, <2>1 DEF get_sector_size_from_n, RECORDSIZE
<1> QED BY <1>1, <1>2, <1>3 DEF CodedSizes

\* Sectors of up to 512 bytes have one of these sizes (0 is that of a format
\* that was not described).
SizesHeld == \A k \in Formats : dpb_list[k].dpb.BPS <= 512 => dpb_list[k].dpb.BPS \in {0} \cup CodedSizes

LEMMA SizesAlways == SizesFit => (Spec => []SizesHeld)
<1> SUFFICES ASSUME SizesFit PROVE Spec => []SizesHeld
  OBVIOUS
<1>1. ListParsed => SizesHeld
  <2>1. CASE dpb_list = <<>>
    BY <2>1 DEF SizesHeld, Formats
  <2>2. ASSUME NEW file \in Defs, dpb_list = parse_def_file(BuiltIn, file).list
        PROVE  SizesHeld
    BY <2>2 DEF SizesFit, SizesHeld, Formats
  <2> QED BY <2>1, <2>2 DEF ListParsed
<1> QED BY <1>1, ParsedAlways, PTL

\* Things of size b at places j and k of n do not overlap.
LEMMA PlacesDisjoint ==
  ASSUME NEW b \in Nat, NEW n \in Nat, NEW j \in 0 .. n - 1
  PROVE  /\ j * b \in Nat /\ j * b + b <= b * n
         /\ \A k \in 0 .. n - 1 : j # k => j * b + b <= k * b \/ k * b + b <= j * b
<1>1. ASSUME NEW x \in Nat, NEW y \in Nat, x < y
      PROVE  x * b + b <= y * b
  <2>1. (x + 1) * b <= y * b
    BY <1>1, ProductsInOrder
  <2>2. (x + 1) * b = x * b + b
    OBVIOUS
  <2> QED BY <2>1, <2>2
<1>2. j * b + b <= n * b /\ n * b = b * n /\ j * b \in Nat
  BY <1>1
<1>3. ASSUME NEW k \in 0 .. n - 1, j # k
      PROVE  j * b + b <= k * b \/ k * b + b <= j * b
  BY <1>1, <1>3
<1> QED BY <1>2, <1>3

\* The bytes of the sectors of a track of a standard image do not overlap and
\* lie inside the track (fs.c:825 and fs.c:2747): the places are those the
\* interleave gives, each to one sector, and a place is as large as a sector.  It
\* rests on the ids, which tell the sectors apart, fitting the byte they are
\* written in, and on a track's header having room for all of them.
THEOREM SectorsDisjoint == FormatsFit /\ SizesFit => (Spec => []SectorsApart)
<1> SUFFICES ASSUME FormatsFit, SizesFit PROVE Spec => []SectorsApart
  OBVIOUS
<1>1. SessionIInv /\ FormatsHeld /\ SizesHeld => SectorsApart
  <2> SUFFICES ASSUME SessionIInv, FormatsHeld, SizesHeld,
                      UsedAsMade, InUse.BPS <= 512, disk[active].header.image_type = 0
               PROVE  SectorsApart
    BY DEF SectorsApart
  <2>1. PICK k \in Formats, extended \in BOOLEAN, whole \in BOOLEAN :
           /\ disk[active] = Image(k, extended, whole)
           /\ dpb_list[k].dpb \in FormatRecords /\ HeaderHolds(dpb_list[k].dpb)
           /\ dpb_list[k].dpb.HDS \in 1 .. 255 /\ dpb_list[k].dpb.TRKS \in 1 .. 255
           /\ dpb_list[k].dpb.BPS # 0
           /\ InUse = update_dpb(dpb_list[k].dpb)
    BY UsedIs
  <2> DEFINE d == dpb_list[k].dpb
             h == disk[active].header
             track == disk[active].track
             at(hd, s) == get_sector_data_ptr(0, track[hd], SectorId(d, hd, s), HeadValue(d, hd))
             size(hd) == get_track_size(h, 0, hd)
  <2>2. /\ h = FormatHeader(d, extended)
        /\ track = [hd \in 0 .. d.HDS - 1 |-> FormatTrack(d, hd)]
    BY <2>1 DEF Image
  <2>3. /\ InUse.SECS = d.SECS /\ InUse.BPS = d.BPS
        /\ \A hd, s : SectorId(InUse, hd, s) = SectorId(d, hd, s)
        /\ \A hd : HeadValue(InUse, hd) = HeadValue(d, hd)
    BY <2>1, UpdatedIs DEF SectorId, HeadValue
  <2>4. d.BPS \in CodedSizes /\ d.BPS \in Nat
    <3>1. d.BPS \in CodedSizes
      BY <2>1, <2>3 DEF SizesHeld
    <3> HIDE DEF d
    <3> QED BY <3>1 DEF CodedSizes
  <2>5. HeaderHolds(d) /\ d.HDS \in 1 .. 255 /\ d.TRKS \in 1 .. 255 /\ d.SECS \in Nat
    <3>1. HeaderHolds(d) /\ d.HDS \in 1 .. 255 /\ d.TRKS \in 1 .. 255
      BY <2>1
    <3> HIDE DEF d
    <3>2. d.SECS \in Nat
      BY <3>1 DEF HeaderHolds, MaxSectors
    <3> QED BY <3>1, <3>2, SMTT(30)
  <2>6. ASSUME \A hd \in DOMAIN track :
                 /\ \A s \in 0 .. d.SECS - 1 : at(hd, s) >= PAGE /\ at(hd, s) + d.BPS <= size(hd)
                 /\ \A s, u \in 0 .. d.SECS - 1 :
                      s # u => at(hd, s) + d.BPS <= at(hd, u) \/ at(hd, u) + d.BPS <= at(hd, s)
        PROVE  SectorsApart
    <3> DEFINE place(hd) ==
                 [s \in 0 .. InUse.SECS - 1 |->
                   get_sector_data_ptr(0, track[hd], SectorId(InUse, hd, s), HeadValue(InUse, hd))]
               apart(hd) ==
                 /\ \A s \in DOMAIN place(hd) : /\ place(hd)[s] >= PAGE
                                               /\ place(hd)[s] + InUse.BPS <= size(hd)
                 /\ \A s, u \in DOMAIN place(hd) :
                      s # u => place(hd)[s] + InUse.BPS <= place(hd)[u]
                               \/ place(hd)[u] + InUse.BPS <= place(hd)[s]
    <3>1. ASSUME NEW hd \in DOMAIN track
          PROVE  apart(hd)
      <4>1. /\ DOMAIN place(hd) = 0 .. d.SECS - 1 /\ InUse.BPS = d.BPS
            /\ \A s \in 0 .. d.SECS - 1 : place(hd)[s] = at(hd, s)
        BY <2>3
      <4> HIDE DEF place, at, size, track, d
      <4> QED BY <2>6, <3>1, <4>1
    <3>2. (\A hd \in DOMAIN track : apart(hd)) => SectorsApart
      <4> HIDE <2>3, <2>4, <2>5
      <4> QED BY DEF SectorsApart
    <3> HIDE DEF apart
    <3> QED BY <3>1, <3>2
  <2> HIDE DEF d, h, track
  <2> SUFFICES ASSUME NEW hd \in 0 .. d.HDS - 1
               PROVE  /\ \A s \in 0 .. d.SECS - 1 :
                           at(hd, s) >= PAGE /\ at(hd, s) + d.BPS <= size(hd)
                      /\ \A s, u \in 0 .. d.SECS - 1 :
                           s # u => at(hd, s) + d.BPS <= at(hd, u) \/ at(hd, u) + d.BPS <= at(hd, s)
    BY <2>2, <2>6
  <2>7. size(hd) = PAGE + (d.BPS * d.SECS)
    <3>1. ~ extended
      <4>1. h.image_type = 0
        BY DEF h
      <4> QED BY <2>2, <4>1 DEF FormatHeader
    <3>2. d.HDS % 256 = d.HDS /\ d.TRKS % 256 = d.TRKS
      <4>1. d.HDS \in Int /\ d.TRKS \in Int
            /\ 0 <= d.HDS /\ d.HDS < 256 /\ 0 <= d.TRKS /\ d.TRKS < 256
        BY <2>5
      <4> QED BY <4>1, SmallRest
    <3>4. Short(FormatTrackSize(d)) = FormatTrackSize(d)
      BY <2>5, SizeOfTrack, ShortKeeps
    <3>3. h.nbof_heads = d.HDS /\ h.nbof_tracks = d.TRKS /\ h.image_type = 0
          /\ h.tracksize = FormatTrackSize(d)
      BY <2>2, <3>1, <3>2, <3>4 DEF FormatHeader
    <3> QED BY <2>5, <3>3 DEF get_track_size, HasTrack, FormatTrackSize
  <2>8. ASSUME NEW s \in 0 .. d.SECS - 1
        PROVE  \E j \in 0 .. d.SECS - 1 : at(hd, s) = PAGE + j * d.BPS /\ Interleave(d)[j] = s
    <3> DEFINE t == FormatTrack(d, hd)
    <3>1. PICK j \in 0 .. d.SECS - 1 :
            /\ get_sector_pos_in_track(t, SectorId(d, hd, s), HeadValue(d, hd)) = j
            /\ Interleave(d)[j] = s
      BY <2>5, SectorFound
    <3>2. track[hd] = t
      BY <2>2
    <3>3. get_sector_size_from_n(t.BPS) = d.BPS
      <4>1. t.BPS = d.BPS \div 256
        BY DEF FormatTrack
      <4> QED BY <2>4, <4>1, CodeOfSize
    <3> HIDE DEF t
    <3>4. at(hd, s) = PAGE + j * d.BPS
      <4>1. j # -1
        BY <2>5
      <4> QED BY <3>1, <3>2, <3>3, <4>1 DEF get_sector_data_ptr
    <3> QED BY <3>1, <3>4
  <2> DEFINE b == d.BPS
             n == d.SECS
  <2>9. b \in Nat /\ n \in Nat
    BY <2>4, <2>5
  <2> HIDE DEF at, size, b, n
  <2>10. ASSUME NEW s \in 0 .. n - 1
         PROVE  at(hd, s) >= PAGE /\ at(hd, s) + b <= size(hd)
    <3>1. PICK j \in 0 .. n - 1 : at(hd, s) = PAGE + j * b
      BY <2>8 DEF b, n
    <3>2. j * b \in Nat /\ j * b + b <= b * n
      BY <2>9, PlacesDisjoint
    <3> QED BY <2>7, <2>9, <3>1, <3>2 DEF PAGE, b, n
  <2>11. ASSUME NEW s \in 0 .. n - 1, NEW u \in 0 .. n - 1, s # u
         PROVE  at(hd, s) + b <= at(hd, u) \/ at(hd, u) + b <= at(hd, s)
    <3>1. PICK j \in 0 .. n - 1 : at(hd, s) = PAGE + j * b /\ Interleave(d)[j] = s
      BY <2>8 DEF b, n
    <3>2. PICK i \in 0 .. n - 1 : at(hd, u) = PAGE + i * b /\ Interleave(d)[i] = u
      BY <2>8 DEF b, n
    <3>3. j # i
      BY <2>11, <3>1, <3>2
    <3>4. j * b \in Nat /\ i * b \in Nat /\ (j * b + b <= i * b \/ i * b + b <= j * b)
      BY <2>9, <3>3, PlacesDisjoint
    <3> QED BY <2>9, <3>1, <3>2, <3>4 DEF PAGE
  <2> QED BY <2>10, <2>11 DEF b, n
<1> QED BY <1>1, SessionInvariant, HeldAlways, SizesAlways, PTL

-----------------------------------------------------------------------------
(* How long a file is.                                                     *)

MasksHeld == \A k \in Formats : MaskHolds(dpb_list[k].dpb)

LEMMA MasksAlways == MasksFit => (Spec => []MasksHeld)
<1> SUFFICES ASSUME MasksFit PROVE Spec => []MasksHeld
  OBVIOUS
<1>1. ListParsed => MasksHeld
  <2>1. CASE dpb_list = <<>>
    BY <2>1 DEF MasksHeld, Formats
  <2>2. ASSUME NEW file \in Defs, dpb_list = parse_def_file(BuiltIn, file).list
        PROVE  MasksHeld
    BY <2>2 DEF MasksFit, MasksHeld, Formats
  <2> QED BY <2>1, <2>2 DEF ListParsed
<1> QED BY <1>1, ParsedAlways, PTL

\* The powers of two that a byte is made of.
LEMMA PowersOfByte ==
  /\ 2 ^ 0 = 1 /\ 2 ^ 1 = 2 /\ 2 ^ 2 = 4 /\ 2 ^ 3 = 8
  /\ 2 ^ 4 = 16 /\ 2 ^ 5 = 32 /\ 2 ^ 6 = 64 /\ 2 ^ 7 = 128
OBVIOUS

\* The sizes of blocks,
LEMMA BlockSizes ==
  ASSUME NEW s \in BlockShifts
  PROVE  2 ^ (s + 7) \in {128, 256, 512, 1024, 2048, 4096, 8192, 16384}
<1>1. /\ 2 ^ 7 = 128 /\ 2 ^ 8 = 256 /\ 2 ^ 9 = 512 /\ 2 ^ 10 = 1024
      /\ 2 ^ 11 = 2048 /\ 2 ^ 12 = 4096 /\ 2 ^ 13 = 8192 /\ 2 ^ 14 = 16384
  OBVIOUS
<1> DEFINE e == s + 7
           P == 2 ^ e \in {128, 256, 512, 1024, 2048, 4096, 8192, 16384}
<1>2. e = 7 \/ e = 8 \/ e = 9 \/ e = 10 \/ e = 11 \/ e = 12 \/ e = 13 \/ e = 14
  BY DEF BlockShifts
<1> HIDE DEF e
<1>3. P
  <2>1. CASE e = 7
    BY <1>1, <2>1
  <2>2. CASE e = 8
    BY <1>1, <2>2
  <2>3. CASE e = 9
    BY <1>1, <2>3
  <2>4. CASE e = 10
    BY <1>1, <2>4
  <2>5. CASE e = 11
    BY <1>1, <2>5
  <2>6. CASE e = 12
    BY <1>1, <2>6
  <2>7. CASE e = 13
    BY <1>1, <2>7
  <2>8. CASE e = 14
    BY <1>1, <2>8
  <2> HIDE DEF P
  <2> QED BY <1>2, <2>1, <2>2, <2>3, <2>4, <2>5, <2>6, <2>7, <2>8
<1> QED BY <1>3 DEF e

\* and the bits of a mask, which count its extents.
LEMMA BitsOfMask ==
  ASSUME NEW m \in ExtentMasks
  PROVE  2 ^ get_bit_count_from_mask(m) = m + 1
<1> DEFINE bit(b) == (m \div 2 ^ b) % 2 = 1
           low(b) == \A c \in 0 .. b : bit(c)
           bits == {b \in 0 .. 7 : low(b)}
           counted == Cardinality(bits)
<1>1. counted = get_bit_count_from_mask(m)
  BY DEF get_bit_count_from_mask
<1>2. ASSUME NEW j \in 0 .. 4, \A b \in 0 .. 7 : bit(b) <=> b < j
      PROVE  counted = j
  <2>1. bits = 0 .. j - 1
    <3> HIDE DEF bit
    <3> QED BY <1>2
  <2>2. Cardinality(0 .. j - 1) = j
    BY FS_Interval
  <2> QED BY <2>1, <2>2
<1>3. ASSUME NEW b \in 0 .. 7
      PROVE  /\ m = 0 => ~ bit(b)
             /\ m = 1 => (bit(b) <=> b < 1)
             /\ m = 3 => (bit(b) <=> b < 2)
             /\ m = 7 => (bit(b) <=> b < 3)
             /\ m = 15 => (bit(b) <=> b < 4)
  <2>1. b = 0 \/ b = 1 \/ b = 2 \/ b = 3 \/ b = 4 \/ b = 5 \/ b = 6 \/ b = 7
    OBVIOUS
  <2>2. ASSUME NEW p \in {1, 2, 4, 8, 16, 32, 64, 128}
        PROVE  /\ m = 0 => (m \div p) % 2 # 1
               /\ m = 1 => ((m \div p) % 2 = 1 <=> p < 2)
               /\ m = 3 => ((m \div p) % 2 = 1 <=> p < 4)
               /\ m = 7 => ((m \div p) % 2 = 1 <=> p < 8)
               /\ m = 15 => ((m \div p) % 2 = 1 <=> p < 16)
    OBVIOUS
  <2> DEFINE p == 2 ^ b
  <2>3. /\ p \in {1, 2, 4, 8, 16, 32, 64, 128}
        /\ (p < 2 <=> b < 1) /\ (p < 4 <=> b < 2) /\ (p < 8 <=> b < 3) /\ (p < 16 <=> b < 4)
    <3> DEFINE P == /\ p \in {1, 2, 4, 8, 16, 32, 64, 128}
                    /\ (p < 2 <=> b < 1) /\ (p < 4 <=> b < 2)
                    /\ (p < 8 <=> b < 3) /\ (p < 16 <=> b < 4)
    <3>1. CASE b = 0
      BY <3>1, PowersOfByte
    <3>2. CASE b = 1
      BY <3>2, PowersOfByte
    <3>3. CASE b = 2
      BY <3>3, PowersOfByte
    <3>4. CASE b = 3
      BY <3>4, PowersOfByte
    <3>5. CASE b = 4
      BY <3>5, PowersOfByte
    <3>6. CASE b = 5
      BY <3>6, PowersOfByte
    <3>7. CASE b = 6
      BY <3>7, PowersOfByte
    <3>8. CASE b = 7
      BY <3>8, PowersOfByte
    <3> HIDE DEF P
    <3> QED BY <2>1, <3>1, <3>2, <3>3, <3>4, <3>5, <3>6, <3>7, <3>8
  <2> HIDE DEF p
  <2>4. /\ m = 0 => (m \div p) % 2 # 1
        /\ m = 1 => ((m \div p) % 2 = 1 <=> b < 1)
        /\ m = 3 => ((m \div p) % 2 = 1 <=> b < 2)
        /\ m = 7 => ((m \div p) % 2 = 1 <=> b < 3)
        /\ m = 15 => ((m \div p) % 2 = 1 <=> b < 4)
    BY <2>2, <2>3, SMTT(30)
  <2> QED BY <2>4 DEF p
<1>4. 2 ^ counted = m + 1
  <2>1. CASE m = 0
    BY <1>2, <1>3, <2>1, PowersOfByte
  <2>2. CASE m = 1
    BY <1>2, <1>3, <2>2, PowersOfByte
  <2>3. CASE m = 3
    BY <1>2, <1>3, <2>3, PowersOfByte
  <2>4. CASE m = 7
    BY <1>2, <1>3, <2>4, PowersOfByte
  <2>5. CASE m = 15
    BY <1>2, <1>3, <2>5, PowersOfByte
  <2> HIDE DEF counted
  <2> QED BY <2>1, <2>2, <2>3, <2>4, <2>5 DEF ExtentMasks
<1> QED BY <1>1, <1>4

\* Of a length, the extents before its last one and the records of that one.
LEMMA LengthSplit ==
  ASSUME NEW total \in Nat \ {0}, NEW N \in Nat, total <= N * EXTENTSIZE, NEW d,
         d.num_extents = N, NEW n \in Nat
  PROVE  \E e \in 0 .. N - 1 :
           LET entry == EntryLength(d, n, total)
           IN /\ entry.extent = n * N + e /\ entry.rec \in Nat
              /\ e * EXTENTSIZE + entry.rec * RECORDSIZE = RecordsUp(total)
<1> DEFINE entry == EntryLength(d, n, total)
           q == total \div 16384
           r == total % 16384
           e == (total + 16383) \div 16384 - 1
<1>1. entry.extent = e + n * N
  BY DEF EntryLength, EXTENTSIZE
<1>2. entry.rec = IF r # 0 THEN (r + 127) \div 128 ELSE 128
  BY DEF EntryLength, EXTENTSIZE, RECORDSIZE
<1>3. RecordsUp(total) = ((total + 127) \div 128) * 128
  BY DEF RecordsUp, RECORDSIZE
<1>4. e \in 0 .. N - 1 /\ n * N \in Nat
  BY DEF EXTENTSIZE
<1>5. entry.rec \in Nat
  BY <1>2
<1>6. e * 16384 + entry.rec * 128 = ((total + 127) \div 128) * 128
  <2>1. CASE r # 0
    <3>1. e = q /\ total = 16384 * q + r /\ q \in Nat /\ r \in 1 .. 16383
      BY <2>1
    <3>2. (total + 127) \div 128 = 128 * q + ((r + 127) \div 128)
      BY <3>1
    <3> QED BY <1>2, <2>1, <3>1, <3>2
  <2>2. CASE r = 0
    <3>1. e = q - 1 /\ total = 16384 * q /\ q \in Nat
      BY <2>2
    <3>2. (total + 127) \div 128 = 128 * q
      BY <3>1
    <3> QED BY <1>2, <2>2, <3>1, <3>2
  <2> QED BY <2>1, <2>2
<1> HIDE DEF entry, e
<1>7. entry.extent = n * N + e
  BY <1>1, <1>4
<1> QED BY <1>3, <1>4, <1>5, <1>6, <1>7 DEF entry, EXTENTSIZE, RECORDSIZE

\* What put() notes of the length of a file is what get() and DIR make of it, in
\* every entry of the file (fs.c:3508, fs.c:3314): the extents of the entries
\* before are a multiple of those the mask leaves, so that the rest is the place
\* of the last extent in its own entry.
THEOREM LengthsKept == MasksFit => (Spec => []LengthsSurvive)
<1> SUFFICES ASSUME MasksFit PROVE Spec => []LengthsSurvive
  OBVIOUS
<1>1. SessionIInv /\ MasksHeld => LengthsSurvive
  <2> SUFFICES ASSUME SessionIInv, MasksHeld, active # NoImage,
                      NEW n \in 0 .. 2, NEW total \in Lengths(InUse)
               PROVE  LET entry == EntryLength(InUse, n, total)
                          last == (total - 1) \div InUse.BLS
                      IN /\ LastBlockSize(InUse, entry, last) = RecordsUp(total) - last * InUse.BLS
                         /\ ListedSize(entry)
                              = n * InUse.num_extents * EXTENTSIZE + RecordsUp(total)
    BY DEF LengthsSurvive
  <2> DEFINE d == dpb_list[dpb].dpb
             u == InUse
             N == d.EXM + 1
             entry == EntryLength(u, n, total)
             past == ((total - 1) \div u.BLS) * u.BLS
  <2>1. dpb \in Formats /\ dpb # 0
    <3>1. dpb \in 0 .. Len(dpb_list) /\ dpb # 0
      BY DEF SessionIInv, TypeOK
    <3> QED BY <3>1, FormatsAre DEF SessionIInv
  <2>2. d \in FormatRecords /\ d.EXM \in ExtentMasks /\ d.BSH \in BlockShifts
    <3>1. dpb_list[dpb] \in Entries
      BY <2>1 DEF SessionIInv, Lists, Formats
    <3> QED BY <2>1, <3>1 DEF Entries, MasksHeld, MaskHolds
  <2>3. u = update_dpb(d)
    BY <2>1 DEF InUse
  <2> HIDE DEF d, u
  <2>4. u.num_extents = N /\ u.EXM = d.EXM /\ N \in Nat \ {0}
    <3>1. Computed(d).num_extents = N
      BY <2>2, BitsOfMask DEF Computed
    <3> QED BY <2>2, <2>3, <3>1, UpdatedIs DEF ExtentMasks
  <2> HIDE DEF N
  <2>5. total \in Nat \ {0} /\ total <= N * EXTENTSIZE
    <3>1. total \in 1 .. u.num_extents * EXTENTSIZE
      BY DEF Lengths, u
    <3> QED BY <2>4, <3>1 DEF EXTENTSIZE
  <2>6. PICK e \in 0 .. N - 1 :
          /\ entry.extent = n * N + e /\ entry.rec \in Nat
          /\ e * EXTENTSIZE + entry.rec * RECORDSIZE = RecordsUp(total)
    BY <2>4, <2>5, LengthSplit
  <2>7. entry.extent % N = e
    <3>1. n \in Nat /\ n * N + e \in Nat
      BY <2>4
    <3> DEFINE a == n * N + e
    <3>2. a \in Nat /\ a = n * N + e
      BY <3>1
    <3> HIDE DEF a
    <3>3. a % N = e
      BY <2>4, <3>1, <3>2, DividedIs
    <3> QED BY <2>6, <3>3 DEF a
  <2>8. past \in Int
    <3>1. u.BLS = 2 ^ (d.BSH + 7)
      BY <2>2, <2>3, UpdatedIs DEF Computed
    <3>2. u.BLS \in Nat \ {0}
      BY <2>2, <3>1, BlockSizes
    <3> HIDE DEF u
    <3>3. (total - 1) \div u.BLS \in Int
      BY <2>5, <3>2
    <3> QED BY <3>2, <3>3
  <2>9. LastBlockSize(u, entry, (total - 1) \div u.BLS) = RecordsUp(total) - past
    <3>1. u.EXM + 1 = N
      BY <2>4 DEF N
    <3> DEFINE all == (entry.extent % N) * EXTENTSIZE + entry.rec * RECORDSIZE
    <3>2. LastBlockSize(u, entry, (total - 1) \div u.BLS)
            = (entry.extent % N) * EXTENTSIZE + (entry.rec * RECORDSIZE - past)
      <4> HIDE DEF entry
      <4>1. LastBlockSize(u, entry, (total - 1) \div u.BLS)
              = (entry.extent % (u.EXM + 1)) * EXTENTSIZE + (entry.rec * RECORDSIZE - past)
        BY DEF LastBlockSize
      <4> HIDE DEF past
      <4> QED BY <3>1, <4>1, Zenon
    <3>3. all = RecordsUp(total)
      <4> HIDE DEF entry
      <4> QED BY <2>6, <2>7
    <3>4. (entry.extent % N) * EXTENTSIZE \in Int /\ entry.rec * RECORDSIZE \in Int
      <4> HIDE DEF entry
      <4> QED BY <2>4, <2>6, <2>7 DEF EXTENTSIZE, RECORDSIZE
    <3> DEFINE full == (entry.extent % N) * EXTENTSIZE
               part == entry.rec * RECORDSIZE
    <3> HIDE DEF past, entry, full, part
    <3> QED BY <2>8, <3>2, <3>3, <3>4 DEF full, part
  <2>10. ListedSize(entry) = n * N * EXTENTSIZE + RecordsUp(total)
    <3> HIDE DEF entry
    <3>1. n * N \in Nat /\ e \in Nat
      BY <2>4
    <3> DEFINE p == n * N
    <3>2. (p + e) * EXTENTSIZE = p * EXTENTSIZE + e * EXTENTSIZE
      <4> HIDE DEF p
      <4> QED BY <3>1 DEF p, EXTENTSIZE
    <3>3. ListedSize(entry) = (p + e) * EXTENTSIZE + entry.rec * RECORDSIZE
      BY <2>6 DEF ListedSize
    <3>4. p * EXTENTSIZE \in Nat /\ e * EXTENTSIZE \in Nat /\ entry.rec * RECORDSIZE \in Nat
      <4>1. p \in Nat
        BY <3>1
      <4> HIDE DEF p
      <4> QED BY <2>6, <3>1, <4>1 DEF EXTENTSIZE, RECORDSIZE
    <3> HIDE DEF p
    <3>5. ListedSize(entry) = p * EXTENTSIZE + RecordsUp(total)
      BY <2>6, <3>2, <3>3, <3>4
    <3> QED BY <3>5 DEF p
  <2> QED BY <2>4, <2>9, <2>10 DEF u
<1> QED BY <1>1, SessionInvariant, MasksAlways, PTL

-----------------------------------------------------------------------------
(* Where the sectors of a block are.                                       *)

\* Tracks in the order of their numbers on the sides (M = HDS) or of the sides
\* (M = TRKS): the place of a sector when all are counted through.
Count(M, n, major, minor, sec) == (major * M + minor) * n + sec

\* A sector s of the T-th of N * M tracks: its track and side.
CountInside(M, N, n, T, s) == T * n + s < N * M * n

CountDivided(M, N, n, T, s) ==
  /\ T % M \in 0 .. M - 1 /\ T \div M \in 0 .. N - 1
  /\ Count(M, n, T \div M, T % M, s) = T * n + s

LEMMA CountDown ==
  ASSUME NEW M \in Nat \ {0}, NEW N \in Nat \ {0}, NEW n \in Nat \ {0},
         NEW T \in Nat, NEW s \in 0 .. n - 1, CountInside(M, N, n, T, s)
  PROVE  CountDivided(M, N, n, T, s)
<1> DEFINE q == T \div M
           r == T % M
<1>1. q \in Nat /\ r \in 0 .. M - 1 /\ T = q * M + r
  BY Divides
<1> HIDE DEF q, r
<1>2. q < N
  <2>1. SUFFICES ASSUME N <= q PROVE FALSE
    BY <1>1
  <2>2. N * M <= q * M /\ N * M \in Nat /\ q * M \in Nat
    BY <1>1, <2>1, ProductsInOrder
  <2>3. N * M <= T
    BY <1>1, <2>2
  <2> DEFINE a == N * M
  <2>4. a \in Nat /\ a <= T
    BY <2>2, <2>3
  <2>5. T * n + s < a * n
    BY DEF CountInside
  <2> HIDE DEF a
  <2>6. a * n <= T * n /\ a * n \in Nat /\ T * n \in Nat
    BY <2>4, ProductsInOrder
  <2> QED BY <2>5, <2>6
<1>3. Count(M, n, q, r, s) = T * n + s
  BY <1>1 DEF Count
<1> QED BY <1>1, <1>2, <1>3 DEF q, r, CountDivided

\* The next sector is the next when all are counted.
CountGoesOn(M, n, major, minor, s) ==
  /\ Count(M, n, major, minor, s) \in Nat
  /\ Count(M, n, major, minor, s + 1) = Count(M, n, major, minor, s) + 1
  /\ s + 1 = n => Count(M, n, major, minor + 1, 0) = Count(M, n, major, minor, s) + 1
  /\ s + 1 = n /\ minor + 1 = M =>
       /\ Count(M, n, major + 1, 0, 0) = Count(M, n, major, minor, s) + 1
       /\ (major + 1) * M * n = Count(M, n, major, minor, s) + 1

LEMMA CountUp ==
  ASSUME NEW M \in Nat \ {0}, NEW n \in Nat \ {0}, NEW major \in Nat, NEW minor \in Nat,
         NEW s \in Nat
  PROVE  CountGoesOn(M, n, major, minor, s)
<1> DEFINE p == major * M
           a == p + minor
<1>1. p \in Nat /\ a \in Nat /\ (major + 1) * M = p + M
  OBVIOUS
<1> HIDE DEF p
<1>2. (a + 1) * n = a * n + n /\ a * n \in Nat
  <2>1. a \in Nat
    BY <1>1
  <2> HIDE DEF a
  <2> QED BY <2>1
<1> HIDE DEF a
<1>3. Count(M, n, major, minor, s) = a * n + s
  BY DEF Count, a, p
<1>4. Count(M, n, major, minor, s + 1) = a * n + (s + 1)
  BY DEF Count, a, p
<1>5. Count(M, n, major, minor + 1, 0) = (a + 1) * n
  <2>1. p + (minor + 1) = a + 1
    BY <1>1 DEF a
  <2>2. (a + 1) * n \in Nat
    BY <1>1
  <2> QED BY <2>1, <2>2 DEF Count, p
<1>6. minor + 1 = M => Count(M, n, major + 1, 0, 0) = (a + 1) * n
                       /\ (major + 1) * M * n = (a + 1) * n
  <2>1. minor + 1 = M => p + M = a + 1 /\ p + M + 0 = a + 1
    BY <1>1 DEF a
  <2>2. (a + 1) * n \in Nat
    BY <1>1
  <2> QED BY <1>1, <2>1, <2>2 DEF Count
<1> QED BY <1>2, <1>3, <1>4, <1>5, <1>6 DEF CountGoesOn

\* As many sectors to a block as fit.
LEMMA WholeBlocks ==
  ASSUME NEW b \in Nat \ {0}, NEW l \in Nat \ {0}, l % b = 0, NEW k \in Nat
  PROVE  l \div b \in Nat \ {0} /\ (k * l) \div b = k * (l \div b)
<1> DEFINE q == l \div b
<1>1. q \in Nat /\ l = q * b
  <2>1. l \in Nat
    OBVIOUS
  <2>2. l \div b \in Nat /\ l = (l \div b) * b + (l % b)
    BY <2>1, Divides
  <2>3. q \in Nat /\ q * b \in Nat
    BY <2>2
  <2> QED BY <2>2, <2>3
<1> HIDE DEF q
<1>2. q # 0
  BY <1>1
<1>3. (k * l) \div b = k * q
  <2> DEFINE a == k * l
             p == k * q
  <2>1. p \in Nat /\ a \in Nat /\ a = p * b + 0
    BY <1>1
  <2>2. 0 \in 0 .. b - 1
    OBVIOUS
  <2> HIDE DEF a, p
  <2>3. a \div b = p
    BY <2>1, <2>2, DividedIs
  <2> QED BY <2>3 DEF a, p
<1> QED BY <1>1, <1>2, <1>3 DEF q

\* A format whose blocks fit on its tracks.
Laid(d) ==
  /\ d.TRKS \in Nat \ {0} /\ d.HDS \in Nat \ {0} /\ d.SECS \in Nat \ {0}
  /\ d.OFS \in Nat /\ d.DSM \in Nat /\ d.order \in Orders
  /\ d.BPS \in Nat \ {0} /\ d.BLS \in Nat \ {0} /\ d.BLS % d.BPS = 0
  /\ (d.DSM + 1) * SectorsPerBlock(d) <= (d.TRKS * d.HDS - d.OFS) * d.SECS

Places(d) == [hd : 0 .. d.HDS - 1, trk : 0 .. d.TRKS - 1, sec : 0 .. d.SECS - 1]

Lin(d, p) ==
  IF d.order = "SIDES" THEN Count(d.HDS, d.SECS, p.trk, p.hd, p.sec)
                       ELSE Count(d.TRKS, d.SECS, p.hd, p.trk, p.sec)

\* The end of a block is no farther than the end of the image, and in the order
\* CYLINDERS than the end of the first side.
LEMMA BlockInside ==
  ASSUME NEW d, Laid(d), NEW blk \in 0 .. d.DSM
  PROVE  /\ SectorsPerBlock(d) \in Nat \ {0}
         /\ (blk * d.BLS) \div d.BPS = blk * SectorsPerBlock(d)
         /\ blk * SectorsPerBlock(d) \in Nat /\ d.OFS * d.SECS \in Nat
         /\ d.TRKS * d.HDS * d.SECS \in Nat /\ d.TRKS * d.SECS \in Nat
         /\ d.OFS * d.SECS + blk * SectorsPerBlock(d) + SectorsPerBlock(d)
              <= d.TRKS * d.HDS * d.SECS
         /\ d.order = "CYLINDERS" /\ OrderHolds(d) =>
              d.OFS * d.SECS + blk * SectorsPerBlock(d) + SectorsPerBlock(d)
                <= d.TRKS * d.SECS
<1> DEFINE S == SectorsPerBlock(d)
           W == d.TRKS
           H == d.HDS
           n == d.SECS
           O == d.OFS
           D == d.DSM
           A == W * H
<1>1. W \in Nat \ {0} /\ H \in Nat \ {0} /\ n \in Nat \ {0} /\ O \in Nat /\ D \in Nat /\ blk \in Nat
      /\ blk <= D
  BY DEF Laid
<1>2. S \in Nat \ {0} /\ (blk * d.BLS) \div d.BPS = blk * S
  <2>1. d.BPS \in Nat \ {0} /\ d.BLS \in Nat \ {0} /\ d.BLS % d.BPS = 0
    BY DEF Laid
  <2> QED BY <1>1, <2>1, WholeBlocks DEF SectorsPerBlock
<1>3. (D + 1) * S <= (A - O) * n
  BY DEF Laid
<1>4. d.order = "CYLINDERS" /\ OrderHolds(d) => (D + 1) * S <= (W - O) * n
  BY DEF OrderHolds
<1> HIDE DEF S, W, H, n, O, D
<1>5. A \in Nat
  BY <1>1
<1> HIDE DEF A
<1>6. blk * S \in Nat /\ O * n \in Nat /\ A * n \in Nat /\ W * n \in Nat
  BY <1>1, <1>2, <1>5
<1>7. blk * S + S <= (D + 1) * S
  <2>1. blk + 1 <= D + 1 /\ blk + 1 \in Nat /\ D + 1 \in Nat
    BY <1>1
  <2>2. (blk + 1) * S <= (D + 1) * S
    BY <1>2, <2>1, ProductsInOrder
  <2>3. (blk + 1) * S = blk * S + S
    BY <1>1, <1>2
  <2> QED BY <2>2, <2>3
<1>8. (A - O) * n = A * n - O * n /\ (W - O) * n = W * n - O * n /\ (D + 1) * S \in Int
  BY <1>1, <1>2, <1>5
<1>9. O * n + blk * S + S <= A * n
  BY <1>2, <1>3, <1>6, <1>7, <1>8
<1>10. d.order = "CYLINDERS" /\ OrderHolds(d) => O * n + blk * S + S <= W * n
  BY <1>2, <1>4, <1>6, <1>7, <1>8
<1> QED BY <1>2, <1>6, <1>9, <1>10 DEF S, W, H, n, O, D, A

\* Where a block begins,
LEMMA FirstPlace ==
  ASSUME NEW d, Laid(d), OrderHolds(d), NEW blk \in 0 .. d.DSM
  PROVE  /\ calc_t_s_h(d, blk) \in Places(d)
         /\ Lin(d, calc_t_s_h(d, blk)) = d.OFS * d.SECS + blk * SectorsPerBlock(d)
<1> DEFINE S == SectorsPerBlock(d)
           W == d.TRKS
           H == d.HDS
           n == d.SECS
           O == d.OFS
           A == W * H
           B == blk * S
           so == (blk * d.BLS) \div d.BPS
           q == so \div n
           s == so % n
           T == q + O
<1>1. W \in Nat \ {0} /\ H \in Nat \ {0} /\ n \in Nat \ {0} /\ O \in Nat /\ d.order \in Orders
  BY DEF Laid
<1>2. /\ S \in Nat \ {0} /\ so = B /\ B \in Nat /\ O * n \in Nat /\ A * n \in Nat
      /\ W * n \in Nat /\ O * n + B + S <= A * n
      /\ d.order = "CYLINDERS" => O * n + B + S <= W * n
  BY BlockInside
<1>3. LET side == T \div W
      IN /\ d.order = "SIDES" => calc_t_s_h(d, blk) = [hd |-> T % H, trk |-> T \div H, sec |-> s]
         /\ d.order = "EAGLE" => calc_t_s_h(d, blk) = [hd |-> side, trk |-> T % W, sec |-> s]
         /\ d.order = "CYLINDERS" /\ side = 0 =>
              calc_t_s_h(d, blk) = [hd |-> side, trk |-> T % W, sec |-> s]
  BY DEF calc_t_s_h
<1> HIDE DEF so, S, B
<1>4. q \in Nat /\ s \in 0 .. n - 1 /\ B = q * n + s
  <2>1. so \in Nat
    BY <1>2
  <2> HIDE DEF n
  <2>2. q \in Nat /\ s \in 0 .. n - 1 /\ so = q * n + s
    BY <1>1, <2>1, Divides
  <2> QED BY <1>2, <2>2
<1> HIDE DEF q, s, W, H, n, O
<1>5. T \in Nat /\ T * n = q * n + O * n /\ q * n \in Nat
  BY <1>1, <1>4
<1> HIDE DEF T
<1>6. T * n + s = O * n + B
  BY <1>1, <1>2, <1>4, <1>5
<1>7. A * n = H * W * n
  BY <1>1
<1>8. T * n + s < A * n /\ (d.order = "CYLINDERS" => T * n + s < 1 * W * n)
  BY <1>1, <1>2, <1>4, <1>5, <1>6
<1>9. CASE d.order = "SIDES"
  <2>1. /\ T % H \in 0 .. H - 1 /\ T \div H \in 0 .. W - 1
        /\ Count(H, n, T \div H, T % H, s) = T * n + s
    <3>1. CountInside(H, W, n, T, s)
      BY <1>8 DEF CountInside
    <3>2. CountDivided(H, W, n, T, s)
      BY <1>1, <1>4, <1>5, <3>1, CountDown
    <3> QED BY <3>2 DEF CountDivided
  <2> DEFINE p == [hd |-> T % H, trk |-> T \div H, sec |-> s]
  <2>2. p \in Places(d) /\ Lin(d, p) = Count(H, n, T \div H, T % H, s)
    BY <1>4, <1>9, <2>1 DEF Places, Lin, H, W, n
  <2> QED BY <1>3, <1>6, <1>9, <2>1, <2>2 DEF O, n, B, S
<1>10. CASE d.order # "SIDES"
  <2>1. /\ T % W \in 0 .. W - 1 /\ T \div W \in 0 .. H - 1
        /\ Count(W, n, T \div W, T % W, s) = T * n + s
    <3>1. CountInside(W, H, n, T, s)
      BY <1>7, <1>8 DEF CountInside
    <3>2. CountDivided(W, H, n, T, s)
      BY <1>1, <1>4, <1>5, <3>1, CountDown
    <3> QED BY <3>2 DEF CountDivided
  <2>2. d.order = "CYLINDERS" => T \div W = 0
    <3>1. d.order = "CYLINDERS" => CountInside(W, 1, n, T, s)
      BY <1>8 DEF CountInside
    <3>2. d.order = "CYLINDERS" => CountDivided(W, 1, n, T, s)
      BY <1>1, <1>4, <1>5, <3>1, CountDown
    <3> QED BY <3>2 DEF CountDivided
  <2> DEFINE p == [hd |-> T \div W, trk |-> T % W, sec |-> s]
  <2>3. p \in Places(d) /\ Lin(d, p) = Count(W, n, T \div W, T % W, s)
    BY <1>4, <1>10, <2>1 DEF Places, Lin, H, W, n
  <2>4. calc_t_s_h(d, blk) = p
    BY <1>1, <1>3, <1>10, <2>2 DEF Orders
  <2> QED BY <1>6, <2>1, <2>3, <2>4 DEF O, n, B, S
<1> QED BY <1>9, <1>10

\* A place on the first side of the next track.
Ahead(e) == [e EXCEPT !.hd = 0, !.trk = @ + 1]

LEMMA PlaceWith ==
  ASSUME NEW a, NEW b, NEW c, NEW e, e = [hd |-> a, trk |-> b, sec |-> c]
  PROVE  Ahead(e) = [hd |-> 0, trk |-> b + 1, sec |-> c]
<1> DEFINE f == [e EXCEPT !.hd = 0, !.trk = @ + 1]
<1>1. f.hd = 0 /\ f.trk = b + 1 /\ f.sec = c
  OBVIOUS
<1>2. f = [x \in {"hd", "trk", "sec"} |-> f[x]]
  OBVIOUS
<1> HIDE DEF f
<1>3. f = [hd |-> f.hd, trk |-> f.trk, sec |-> f.sec]
  BY <1>2
<1> QED BY <1>1, <1>3 DEF f, Ahead

\* and where it goes on, unless it leaves the image or a side.
LEMMA NextPlace ==
  ASSUME NEW d, Laid(d), NEW p \in Places(d),
         Lin(d, p) + 1 < d.TRKS * d.HDS * d.SECS,
         d.order = "CYLINDERS" => p.hd % 2 = 0,
         d.order # "SIDES" => Lin(d, p) + 1 # (p.hd + 1) * d.TRKS * d.SECS
  PROVE  /\ next_sector(d, p) \in Places(d)
         /\ Lin(d, next_sector(d, p)) = Lin(d, p) + 1
<1> DEFINE W == d.TRKS
           H == d.HDS
           n == d.SECS
           r == next_sector(d, p)
           place(a, b, c) == [hd |-> a, trk |-> b, sec |-> c]
<1>1. W \in Nat \ {0} /\ H \in Nat \ {0} /\ n \in Nat \ {0} /\ d.order \in Orders
  BY DEF Laid
<1>2. /\ p.hd \in 0 .. H - 1 /\ p.trk \in 0 .. W - 1 /\ p.sec \in 0 .. n - 1
      /\ p = place(p.hd, p.trk, p.sec)
  BY DEF Places
<1>3. /\ p.sec + 1 < n => r = place(p.hd, p.trk, p.sec + 1)
      /\ p.sec + 1 = n =>
           /\ d.order = "SIDES" =>
                r = IF p.hd + 1 >= H THEN place(0, p.trk + 1, 0) ELSE place(p.hd + 1, p.trk, 0)
           /\ d.order # "SIDES" /\ p.trk + 1 <= W => r = place(p.hd, p.trk + 1, 0)
  <2>1. p.sec + 1 < n => r = place(p.hd, p.trk, p.sec + 1)
    BY <1>2 DEF next_sector
  <2>2. ASSUME p.sec + 1 = n
        PROVE  r = NextTrack(d, place(p.hd, p.trk, 0))
    <3>1. [p EXCEPT !.sec = @ + 1 - n] = place(p.hd, p.trk, 0)
      BY <1>1, <1>2, <2>2
    <3> QED BY <1>1, <1>2, <2>2, <3>1 DEF next_sector
  <2> DEFINE e == place(p.hd, p.trk, 0)
  <2>3. e.hd = p.hd /\ e.trk = p.trk
    OBVIOUS
  <2>4. d.order = "SIDES" =>
          NextTrack(d, e) = IF p.hd + 1 >= H THEN place(0, p.trk + 1, 0)
                                             ELSE place(p.hd + 1, p.trk, 0)
    <3>1. [e EXCEPT !.hd = 0, !.trk = @ + 1] = place(0, p.trk + 1, 0)
      <4>1. e = [hd |-> p.hd, trk |-> p.trk, sec |-> 0]
        OBVIOUS
      <4> HIDE DEF e
      <4>2. Ahead(e) = [hd |-> 0, trk |-> p.trk + 1, sec |-> 0]
        BY <4>1, PlaceWith
      <4> QED BY <4>2 DEF Ahead
    <3>2. [e EXCEPT !.hd = @ + 1] = place(p.hd + 1, p.trk, 0)
      OBVIOUS
    <3> HIDE DEF place, e
    <3>3. d.order = "SIDES" =>
            NextTrack(d, e) = IF p.hd + 1 >= H THEN [e EXCEPT !.hd = 0, !.trk = @ + 1]
                                               ELSE [e EXCEPT !.hd = @ + 1]
      BY <2>3 DEF NextTrack
    <3> QED BY <3>1, <3>2, <3>3
  <2>5. d.order # "SIDES" /\ p.trk + 1 <= W => NextTrack(d, e) = place(p.hd, p.trk + 1, 0)
    <3>1. CASE d.order = "EAGLE"
      BY <1>1, <1>2, <3>1 DEF NextTrack
    <3>2. CASE d.order = "CYLINDERS"
      BY <1>1, <1>2, <3>2 DEF NextTrack
    <3> QED BY <1>1, <3>1, <3>2 DEF Orders
  <2> QED BY <2>1, <2>2, <2>4, <2>5
<1> HIDE DEF r
<1>4. ASSUME NEW a \in 0 .. H - 1, NEW b \in 0 .. W - 1, NEW c \in 0 .. n - 1
      PROVE  /\ place(a, b, c) \in Places(d)
             /\ Lin(d, place(a, b, c)) = IF d.order = "SIDES" THEN Count(H, n, b, a, c)
                                                             ELSE Count(W, n, a, b, c)
  BY DEF Places, Lin
<1> HIDE DEF place
<1> DEFINE a == p.hd
           b == p.trk
           c == p.sec
           l == Lin(d, p)
           A == W * H
<1>5. l = IF d.order = "SIDES" THEN Count(H, n, b, a, c) ELSE Count(W, n, a, b, c)
  BY DEF Lin
<1>6. l + 1 < A * n /\ (d.order # "SIDES" => l + 1 # (a + 1) * W * n)
  OBVIOUS
<1>7. /\ a \in 0 .. H - 1 /\ b \in 0 .. W - 1 /\ c \in 0 .. n - 1
      /\ c + 1 < n => r = place(a, b, c + 1)
      /\ c + 1 = n =>
           /\ d.order = "SIDES" =>
                r = IF a + 1 >= H THEN place(0, b + 1, 0) ELSE place(a + 1, b, 0)
           /\ d.order # "SIDES" /\ b + 1 <= W => r = place(a, b + 1, 0)
  BY <1>2, <1>3
<1> HIDE DEF a, b, c, l, W, H, n
<1>8. /\ CountGoesOn(H, n, b, a, c)
       /\ CountGoesOn(W, n, a, b, c)
  BY <1>1, <1>7, CountUp
<1>9. CASE c + 1 < n
  <2>1. /\ Count(H, n, b, a, c + 1) = Count(H, n, b, a, c) + 1
        /\ Count(W, n, a, b, c + 1) = Count(W, n, a, b, c) + 1
    BY <1>8 DEF CountGoesOn
  <2>2. c + 1 \in 0 .. n - 1
    BY <1>1, <1>7, <1>9
  <2> QED BY <1>4, <1>5, <1>7, <1>9, <2>1, <2>2 DEF r, l
<1>10. CASE c + 1 = n /\ d.order = "SIDES"
  <2>0. 0 \in 0 .. n - 1 /\ 0 \in 0 .. H - 1
    BY <1>1
  <2>1. CASE a + 1 < H
    <3>1. Count(H, n, b, a + 1, 0) = Count(H, n, b, a, c) + 1
      BY <1>10, <1>8, <2>1 DEF CountGoesOn
    <3>2. a + 1 \in 0 .. H - 1
      BY <1>1, <1>7, <2>1
    <3>3. r = place(a + 1, b, 0)
      BY <1>1, <1>7, <1>10, <2>1
    <3> QED BY <1>4, <1>5, <1>7, <1>10, <2>0, <3>1, <3>2, <3>3 DEF r, l
  <2>2. CASE a + 1 = H
    <3>1. /\ Count(H, n, b + 1, 0, 0) = Count(H, n, b, a, c) + 1
          /\ (b + 1) * H * n = Count(H, n, b, a, c) + 1
      BY <1>10, <1>8, <2>2 DEF CountGoesOn
    <3>2. b + 1 < W
      <4>1. SUFFICES ASSUME W <= b + 1 PROVE FALSE
        BY <1>1, <1>7
      <4>2. W * H <= (b + 1) * H /\ W * H \in Nat /\ (b + 1) * H \in Nat
        BY <1>1, <1>7, <4>1, ProductsInOrder
      <4> DEFINE P == (b + 1) * H
      <4>3. A \in Nat /\ P \in Nat /\ A <= P
        BY <4>2
      <4>4. P * n = l + 1
        BY <1>5, <1>10, <3>1
      <4> HIDE DEF A, P
      <4>5. A * n <= P * n /\ A * n \in Nat /\ P * n \in Nat
        BY <1>1, <4>3, ProductsInOrder
      <4> QED BY <1>6, <4>4, <4>5
    <3>3. b + 1 \in 0 .. W - 1
      BY <1>1, <1>7, <3>2
    <3>4. r = place(0, b + 1, 0)
      BY <1>1, <1>7, <1>10, <2>2
    <3> QED BY <1>4, <1>5, <1>7, <1>10, <2>0, <3>1, <3>3, <3>4 DEF r, l
  <2> QED BY <1>1, <1>7, <2>1, <2>2
<1>11. CASE c + 1 = n /\ d.order # "SIDES"
  <2>0. 0 \in 0 .. n - 1
    BY <1>1
  <2>1. /\ Count(W, n, a, b + 1, 0) = l + 1
        /\ b + 1 = W => (a + 1) * W * n = l + 1
    BY <1>5, <1>11, <1>8 DEF CountGoesOn
  <2>2. b + 1 < W
    BY <1>1, <1>6, <1>7, <1>11, <2>1
  <2>3. b + 1 \in 0 .. W - 1
    BY <1>1, <1>7, <2>2
  <2>4. r = place(a, b + 1, 0)
    BY <1>1, <1>7, <1>11, <2>2
  <2> QED BY <1>4, <1>7, <1>11, <2>0, <2>1, <2>3, <2>4 DEF r, l
<1> QED BY <1>1, <1>7, <1>9, <1>10, <1>11

\* A block does not go over the end of a side (EAGLE), nor reach it (CYLINDERS).
LEMMA NotAcross ==
  ASSUME NEW a \in Int, NEW S \in Nat \ {0}, NEW blk \in Nat, NEW k \in 1 .. S - 1,
         a % S = 0
  PROVE  blk * S + k # a
<1>1. SUFFICES ASSUME blk * S + k = a PROVE FALSE
  OBVIOUS
<1>2. k \in 0 .. S - 1 /\ a \in Nat
  <2>1. blk * S \in Nat
    OBVIOUS
  <2> QED BY <1>1, <2>1
<1>3. a % S = k
  <2>1. IsSum(a, S, blk, k)
    BY <1>1, <1>2 DEF IsSum
  <2> QED BY <2>1, SumDivided
<1> QED BY <1>3

LEMMA BlockGoesOn ==
  ASSUME NEW d, Laid(d), OrderHolds(d), NEW blk \in 0 .. d.DSM,
         NEW k \in 1 .. SectorsPerBlock(d) - 1, NEW p \in Places(d),
         Lin(d, p) = d.OFS * d.SECS + blk * SectorsPerBlock(d) + (k - 1)
  PROVE  /\ next_sector(d, p) \in Places(d)
         /\ Lin(d, next_sector(d, p)) = d.OFS * d.SECS + blk * SectorsPerBlock(d) + k
<1> DEFINE S == SectorsPerBlock(d)
           W == d.TRKS
           H == d.HDS
           n == d.SECS
           O == d.OFS
           B == blk * S
           R == O * n
           A == W * H
           l == Lin(d, p)
           side == p.hd + 1
           end == side * W * n
<1>1. W \in Nat \ {0} /\ H \in Nat \ {0} /\ n \in Nat \ {0} /\ O \in Nat /\ d.order \in Orders
      /\ blk \in Nat
  BY DEF Laid
<1>2. /\ S \in Nat \ {0} /\ B \in Nat /\ R \in Nat /\ A * n \in Nat /\ W * n \in Nat
      /\ R + B + S <= A * n
      /\ d.order = "CYLINDERS" => R + B + S <= W * n
  BY BlockInside
<1>3. /\ p.hd \in 0 .. H - 1 /\ p.trk \in 0 .. W - 1 /\ p.sec \in 0 .. n - 1
  BY DEF Places
<1>4. l = R + B + (k - 1) /\ k \in 1 .. S - 1
  OBVIOUS
<1>5. d.order # "SIDES" => l = (p.hd * W + p.trk) * n + p.sec
  BY DEF Lin, Count
<1>6. ~ p.hd + 1 = H => (OrderHolds(d) /\ d.order = "EAGLE" => ((side * W - O) * n) % S = 0)
  BY <1>1, <1>3 DEF OrderHolds
<1> HIDE DEF S, W, H, n, O, l, B, R
<1>7. l + 1 < A * n
  BY <1>1, <1>2, <1>4
<1>8. d.order = "CYLINDERS" => p.hd = 0
  <2>1. SUFFICES ASSUME d.order = "CYLINDERS", p.hd # 0 PROVE FALSE
    OBVIOUS
  <2> DEFINE h == p.hd * W
  <2>2. W <= h /\ h \in Nat
    <3>1. p.hd \in Nat /\ 1 <= p.hd /\ 1 \in Nat
      BY <1>1, <1>3, <2>1
    <3>2. 1 * W <= p.hd * W /\ p.hd * W \in Nat
      BY <1>1, <3>1, ProductsInOrder
    <3> QED BY <1>1, <3>2
  <2> HIDE DEF h
  <2> DEFINE t == h + p.trk
  <2>3. W <= t /\ t \in Nat
    BY <1>1, <1>3, <2>2
  <2>4. l = t * n + p.sec
    BY <1>5, <2>1 DEF h
  <2> HIDE DEF t
  <2>5. W * n <= t * n /\ t * n \in Nat
    BY <1>1, <2>3, ProductsInOrder
  <2> QED BY <1>1, <1>2, <1>3, <1>4, <2>1, <2>4, <2>5
<1>9. d.order # "SIDES" => l + 1 # end
  <2>1. CASE d.order = "CYLINDERS"
    <3>1. side = 1
      BY <1>8, <2>1
    <3>2. end = W * n
      BY <1>1, <3>1
    <3> HIDE DEF end
    <3> QED BY <1>1, <1>2, <1>4, <2>1, <3>2
  <2>2. CASE d.order = "EAGLE" /\ p.hd + 1 = H
    <3>1. end = A * n
      BY <1>1, <2>2
    <3> HIDE DEF end, A
    <3> QED BY <1>1, <1>2, <1>7, <3>1
  <2>3. CASE d.order = "EAGLE" /\ p.hd + 1 # H
    <3> DEFINE a == (side * W - O) * n
    <3>1. a % S = 0
      BY <1>6, <2>3
    <3>2. a \in Int /\ end = a + R
      BY <1>1, <1>3 DEF R
    <3> HIDE DEF a, end
    <3>3. B + k # a
      BY <1>1, <1>2, <1>4, <3>1, <3>2, NotAcross DEF B
    <3> QED BY <1>1, <1>2, <1>4, <3>2, <3>3
  <2> QED BY <1>1, <2>1, <2>2, <2>3 DEF Orders
<1>10. /\ next_sector(d, p) \in Places(d)
       /\ Lin(d, next_sector(d, p)) = l + 1
  <2>1. d.order = "CYLINDERS" => p.hd % 2 = 0
    BY <1>8
  <2>2. Lin(d, p) + 1 < d.TRKS * d.HDS * d.SECS
    BY <1>7 DEF l, W, H, n
  <2>3. d.order # "SIDES" => Lin(d, p) + 1 # (p.hd + 1) * d.TRKS * d.SECS
    BY <1>9 DEF l, W, n
  <2> QED BY <2>1, <2>2, <2>3, NextPlace DEF l
<1>11. l + 1 = R + B + k
  BY <1>1, <1>2, <1>4
<1> QED BY <1>10, <1>11 DEF R, B, O, n, S

\* So the k-th sector of a block is the k-th behind its first one.
AtSector(d, blk, k, p) ==
  p \in Places(d) /\ Lin(d, p) = d.OFS * d.SECS + blk * SectorsPerBlock(d) + k

LEMMA WalkGoes ==
  ASSUME NEW d, Laid(d), OrderHolds(d), NEW blk \in 0 .. d.DSM
  PROVE  \A k \in 0 .. SectorsPerBlock(d) - 1 : AtSector(d, blk, k, BlockSectors(d, blk)[k])
<1> DEFINE n == SectorsPerBlock(d) - 1
           S == Places(d)
           c == calc_t_s_h(d, blk)
           T == [y \in S \X (1 .. n) |-> IF next_sector(d, y[1]) \in S THEN next_sector(d, y[1]) ELSE c]
           Solves(g) == g = [k \in 0 .. n |-> IF k = 0 THEN c ELSE next_sector(d, g[k - 1])]
           walk == CHOOSE g : Solves(g)
<1>0. n \in Nat /\ 0 .. n = 0 .. SectorsPerBlock(d) - 1
  BY BlockInside
<1>1. AtSector(d, blk, 0, c)
  <2>1. c \in Places(d) /\ Lin(d, c) = d.OFS * d.SECS + blk * SectorsPerBlock(d)
    BY FirstPlace
  <2>2. d.OFS * d.SECS \in Nat /\ blk * SectorsPerBlock(d) \in Nat
    BY BlockInside
  <2> HIDE DEF c
  <2> QED BY <2>1, <2>2 DEF AtSector
<1>2. ASSUME NEW k \in 1 .. n, NEW p, AtSector(d, blk, k - 1, p)
      PROVE  AtSector(d, blk, k, next_sector(d, p))
  BY <1>2, BlockGoesOn DEF AtSector
<1>3. BlockSectors(d, blk) = walk
  BY DEF BlockSectors
<1>4. \E g : Solves(g)
  <2>1. c \in S
    BY <1>1 DEF AtSector
  <2>2. T \in [S \X (1 .. n) -> S]
    <3> HIDE DEF S, c
    <3> QED BY <2>1
  <2>3. PICK g \in [0 .. n -> S] : LoopValues(g, n, c, T)
    <3> HIDE DEF S, c, n, T
    <3> QED BY <1>0, <2>1, <2>2, LoopHasValues
  <2> HIDE DEF c
  <2>4. \A k \in 1 .. n : next_sector(d, g[k - 1]) \in S => g[k] = next_sector(d, g[k - 1])
    <3> SUFFICES ASSUME NEW k \in 1 .. n, next_sector(d, g[k - 1]) \in S
                 PROVE  g[k] = next_sector(d, g[k - 1])
      OBVIOUS
    <3>1. g[k - 1] \in S /\ k \in 0 .. n /\ k # 0
      <4> HIDE DEF n, S, T
      <4>1. k - 1 \in 0 .. n /\ k \in 0 .. n /\ k # 0
        BY <1>0
      <4> QED BY <2>3, <4>1
    <3>2. g[k] = T[<<g[k - 1], k>>]
      <4> HIDE DEF T, S
      <4> QED BY <2>3, <3>1 DEF LoopValues
    <3> HIDE DEF S
    <3> QED BY <3>1, <3>2
  <2>5. g[0] = c
    <3> HIDE DEF T, S, n
    <3>1. 0 \in 0 .. n
      BY <1>0
    <3> QED BY <2>3, <3>1 DEF LoopValues
  <2> DEFINE good == {k \in 0 .. n : AtSector(d, blk, k, g[k])}
  <2>6. 0 \in good
    BY <1>0, <1>1, <2>5
  <2>7. ASSUME NEW k \in 1 .. n, k - 1 \in good
        PROVE  k \in good /\ g[k] = next_sector(d, g[k - 1])
    <3>1. AtSector(d, blk, k, next_sector(d, g[k - 1]))
      BY <1>2, <2>7
    <3>2. g[k] = next_sector(d, g[k - 1])
      BY <2>4, <3>1 DEF AtSector
    <3> QED BY <3>1, <3>2
  <2> HIDE DEF good
  <2>8. \A k \in 0 .. n : k \in good
    <3> HIDE DEF n
    <3> QED BY <1>0, <2>6, <2>7, CarriedOn
  <2>9. \A k \in 0 .. n : g[k] = IF k = 0 THEN c ELSE next_sector(d, g[k - 1])
    <3> HIDE DEF n
    <3> SUFFICES ASSUME NEW k \in 0 .. n
                 PROVE  g[k] = IF k = 0 THEN c ELSE next_sector(d, g[k - 1])
      OBVIOUS
    <3>1. CASE k = 0
      BY <2>5, <3>1
    <3>2. CASE k # 0
      <4>1. k \in 1 .. n /\ k - 1 \in 0 .. n
        BY <1>0, <3>2
      <4> QED BY <2>7, <2>8, <3>2, <4>1
    <3> QED BY <3>1, <3>2
  <2>10. g = [k \in 0 .. n |-> g[k]]
    BY <2>3
  <2> HIDE DEF n
  <2> QED BY <2>9, <2>10
<1>5. Solves(walk)
  <2> HIDE DEF Solves
  <2> QED BY <1>4
<1> HIDE DEF walk, c
<1>6. walk[0] = c /\ \A k \in 1 .. n : walk[k] = next_sector(d, walk[k - 1])
  BY <1>0, <1>5
<1> DEFINE good == {k \in 0 .. n : AtSector(d, blk, k, walk[k])}
<1>7. 0 \in good
  BY <1>0, <1>1, <1>6
<1>8. ASSUME NEW k \in 1 .. n, k - 1 \in good
      PROVE  k \in good
  BY <1>2, <1>6, <1>8
<1> HIDE DEF good, n
<1>9. \A k \in 0 .. n : k \in good
  BY <1>0, <1>7, <1>8, CarriedOn
<1> QED BY <1>0, <1>3, <1>9 DEF good

\* In the order SIDES the block of a sector is found from its place.
LEMMA BlockFound ==
  ASSUME NEW d, Laid(d), NEW blk \in 0 .. d.DSM, NEW k \in 0 .. SectorsPerBlock(d) - 1,
         NEW p, AtSector(d, blk, k, p), d.order = "SIDES"
  PROVE  blk_calc(d, p) = blk
<1> DEFINE S == SectorsPerBlock(d)
           H == d.HDS
           n == d.SECS
           O == d.OFS
           B == blk * S
           c == p.trk * H + p.hd
           sum == p.sec + p.hd * n + p.trk * n * H - O * n
<1>1. H \in Nat \ {0} /\ n \in Nat \ {0} /\ O \in Nat /\ blk \in Nat
  BY DEF Laid
<1>2. S \in Nat \ {0} /\ B \in Nat /\ O * n \in Nat /\ k \in 0 .. S - 1
  BY BlockInside
<1>3. p.hd \in Nat /\ p.trk \in Nat /\ p.sec \in 0 .. n - 1
  <2>1. p \in Places(d) /\ d.HDS \in Nat /\ d.TRKS \in Nat
    BY DEF AtSector, Laid
  <2> QED BY <2>1 DEF Places
<1>4. (p.trk * H + p.hd) * n + p.sec = O * n + B + k
  BY DEF AtSector, Lin, Count
<1>5. blk_calc(d, p) = IF c < O THEN -1 ELSE sum \div S
  BY DEF blk_calc
<1> HIDE DEF S, H, n, O, B
<1>6. c \in Nat /\ c * n \in Nat /\ c * n = p.hd * n + p.trk * n * H
      /\ p.hd * n \in Nat /\ p.trk * n * H \in Nat
  <2>1. p.trk * H \in Nat
    BY <1>1, <1>3
  <2>2. c \in Nat
    BY <1>3, <2>1
  <2>3. c * n = p.hd * n + p.trk * n * H
    BY <1>1, <1>3
  <2>4. p.hd * n \in Nat /\ p.trk * n * H \in Nat
    <3> DEFINE a == p.trk * n
    <3>1. a \in Nat /\ p.hd * n \in Nat
      BY <1>1, <1>3
    <3> HIDE DEF a
    <3>2. a * H \in Nat
      BY <1>1, <3>1
    <3> QED BY <3>1, <3>2 DEF a
  <2> HIDE DEF c
  <2>5. c * n \in Nat
    BY <1>1, <2>2
  <2> QED BY <2>2, <2>3, <2>4, <2>5
<1>7. c * n + p.sec = O * n + B + k
  BY <1>4
<1> DEFINE e == p.hd * n
           f == p.trk * n * H
<1> HIDE DEF c
<1>8. ~ c < O
  <2>1. SUFFICES ASSUME c < O PROVE FALSE
    OBVIOUS
  <2>2. c + 1 <= O /\ c + 1 \in Nat
    BY <1>1, <1>6, <2>1
  <2>3. (c + 1) * n <= O * n /\ (c + 1) * n = c * n + n
    BY <1>1, <1>6, <2>2, ProductsInOrder
  <2>4. c * n + n <= O * n
    BY <2>3
  <2> DEFINE x == c * n
             y == O * n
  <2>5. /\ x \in Nat /\ y \in Nat /\ x + n <= y /\ x + p.sec = y + B + k
        /\ B \in Nat /\ k \in Nat /\ n \in Nat /\ p.sec \in 0 .. n - 1
    BY <1>1, <1>2, <1>3, <1>6, <1>7, <2>4
  <2> HIDE DEF x, y
  <2> QED BY <2>5
<1>9. sum = B + k
  <2>1. sum = p.sec + e + f - O * n /\ c * n = e + f /\ e \in Nat /\ f \in Nat
    BY <1>6
  <2> HIDE DEF e, f, sum
  <2> QED BY <1>1, <1>2, <1>3, <1>6, <1>7, <2>1
<1>10. IsSum(sum, S, blk, k)
  <2> HIDE DEF sum
  <2> QED BY <1>1, <1>2, <1>9 DEF IsSum, B
<1> HIDE DEF sum
<1>11. sum \div S = blk
  BY <1>2, <1>10, SumDivided
<1> QED BY <1>5, <1>8, <1>11

\* Two sectors of blocks are never in one place.
LEMMA BlocksApart ==
  ASSUME NEW d, Laid(d), NEW p,
         NEW a \in 0 .. d.DSM, NEW j \in 0 .. SectorsPerBlock(d) - 1, AtSector(d, a, j, p),
         NEW b \in 0 .. d.DSM, NEW k \in 0 .. SectorsPerBlock(d) - 1, AtSector(d, b, k, p)
  PROVE  a = b /\ j = k
<1> DEFINE S == SectorsPerBlock(d)
           R == d.OFS * d.SECS
<1>1. S \in Nat \ {0} /\ R \in Nat /\ a \in Nat /\ b \in Nat
      /\ j \in 0 .. S - 1 /\ k \in 0 .. S - 1
  BY BlockInside DEF Laid
<1>2. R + a * S + j = R + b * S + k
  BY DEF AtSector
<1> HIDE DEF S, R
<1>3. a * S \in Nat /\ b * S \in Nat
  BY <1>1
<1>4. a * S + j = b * S + k
  BY <1>1, <1>2, <1>3
<1> QED BY <1>1, <1>4, PlacesApart

\* As many as there are, when no two are the same.
LEMMA CountedOnce ==
  ASSUME NEW S, IsFiniteSet(S), NEW f, \A s, u \in S : f[s] = f[u] => s = u
  PROVE  Cardinality({f[s] : s \in S}) = Cardinality(S)
<1> DEFINE T == {f[s] : s \in S}
           g == [s \in S |-> f[s]]
<1>1. g \in Bijection(S, T)
  BY DEF Bijection, Injection, Surjection, IsInjective
<1>2. ExistsBijection(S, T)
  BY <1>1 DEF ExistsBijection
<1> HIDE DEF T
<1>3. Cardinality(T) = Cardinality(S)
  BY <1>2, FS_Bijection
<1> QED BY <1>3 DEF T

BlocksHeld == \A k \in Formats : BlocksHold(dpb_list[k].dpb)

LEMMA BlocksAlways == BlocksFit => (Spec => []BlocksHeld)
<1> SUFFICES ASSUME BlocksFit PROVE Spec => []BlocksHeld
  OBVIOUS
<1>1. ListParsed => BlocksHeld
  <2>1. CASE dpb_list = <<>>
    BY <2>1 DEF BlocksHeld, Formats
  <2>2. ASSUME NEW file \in Defs, dpb_list = parse_def_file(BuiltIn, file).list
        PROVE  BlocksHeld
    BY <2>2 DEF BlocksFit, BlocksHeld, Formats
  <2> QED BY <2>1, <2>2 DEF ListParsed
<1> QED BY <1>1, ParsedAlways, PTL

LEMMA UsedLaid ==
  ASSUME NEW d \in FormatRecords, HeaderHolds(d), MaskHolds(d), BlocksHold(d), d.BPS # 0,
         d.HDS \in 1 .. 255, d.TRKS \in 1 .. 255
  PROVE  Laid(update_dpb(d))
<1> DEFINE u == update_dpb(d)
           B == 2 ^ (d.BSH + 7)
<1>1. /\ u.SECS = d.SECS /\ u.BPS = d.BPS /\ u.TRKS = d.TRKS /\ u.HDS = d.HDS
      /\ u.order = d.order /\ u.OFS = d.OFS /\ u.DSM = d.DSM /\ u.BLS = B
  BY UpdatedIs DEF Computed
<1>2. B \in Nat \ {0}
  BY BlockSizes DEF MaskHolds
<1> HIDE DEF u, B
<1>3. /\ d.SECS # 0 /\ d.OFS \in Nat /\ d.DSM \in Nat /\ d.order \in Orders
      /\ B % d.BPS = 0
      /\ (d.DSM + 1) * (B \div d.BPS) <= (d.TRKS * d.HDS - d.OFS) * d.SECS
  BY DEF BlocksHold, B
<1>4. d.SECS \in Nat \ {0} /\ d.BPS \in Nat \ {0} /\ d.TRKS \in Nat \ {0} /\ d.HDS \in Nat \ {0}
  BY <1>3, SMTT(30) DEF HeaderHolds
<1>5. Laid(u)
  BY <1>1, <1>2, <1>3, <1>4 DEF Laid, SectorsPerBlock
<1> QED BY <1>5 DEF u

\* In an image that is used under the format it was made with, every sector of
\* every block has a place of its own (fs.c:150 and fs.c:652): the
\* walk over a block counts the sectors of the image through, from the reserved
\* tracks on; it leaves neither the image, since the blocks fit, nor in the orders
\* EAGLE and CYLINDERS a side, where it would go one track too far.  A place is
\* one under which the sector is looked up, so the ids have to fit their byte.
THEOREM BlocksPlaced == FormatsFit /\ MasksFit /\ BlocksFit => (Spec => []BlocksHavePlaces)
<1> SUFFICES ASSUME FormatsFit, MasksFit, BlocksFit PROVE Spec => []BlocksHavePlaces
  BY SMTT(30)
<1>1. SessionIInv /\ FormatsHeld /\ MasksHeld /\ BlocksHeld => BlocksHavePlaces
  <2> SUFFICES ASSUME SessionIInv, FormatsHeld, MasksHeld, BlocksHeld,
                      UsedAsMade, OrderHolds(InUse)
               PROVE  BlocksHavePlaces
    BY DEF BlocksHavePlaces
  <2>1. PICK k \in Formats, extended \in BOOLEAN, whole \in BOOLEAN :
           /\ disk[active] = Image(k, extended, whole)
           /\ dpb_list[k].dpb \in FormatRecords /\ HeaderHolds(dpb_list[k].dpb)
           /\ dpb_list[k].dpb.HDS \in 1 .. 255 /\ dpb_list[k].dpb.TRKS \in 1 .. 255
           /\ dpb_list[k].dpb.BPS # 0
           /\ InUse = update_dpb(dpb_list[k].dpb)
    BY UsedIs, SMTT(30)
  <2> DEFINE f == dpb_list[k].dpb
             d == InUse
             h == disk[active].header
             track == disk[active].track
             S == SectorsPerBlock(d)
             sectors == (0 .. d.DSM) \X (0 .. S - 1)
             at(s) == BlockSectors(d, s[1])[s[2]]
             placed(p, blk) ==
               /\ HasTrack(h, p.trk, p.hd)
               /\ get_sector_pos_in_track(track[p.hd], SectorId(d, p.hd, p.sec),
                                          HeadValue(d, p.hd)) # -1
               /\ d.order = "SIDES" => blk_calc(d, p) = blk
  <2>2. Laid(d) /\ OrderHolds(d)
    <3>1. MaskHolds(f) /\ BlocksHold(f)
      BY DEF MasksHeld, BlocksHeld
    <3> HIDE DEF f
    <3> QED BY <2>1, <3>1, UsedLaid DEF f
  <2>3. /\ h.nbof_heads = f.HDS /\ h.nbof_tracks = f.TRKS
        /\ track = [hd \in 0 .. f.HDS - 1 |-> FormatTrack(f, hd)]
    <3>1. h = FormatHeader(f, extended) /\ track = [hd \in 0 .. f.HDS - 1 |-> FormatTrack(f, hd)]
      BY <2>1, SMTT(30) DEF Image
    <3>2. f.HDS \in 1 .. 255 /\ f.TRKS \in 1 .. 255
      BY <2>1
    <3> HIDE DEF f
    <3>3. f.HDS % 256 = f.HDS /\ f.TRKS % 256 = f.TRKS
      BY <3>2, SmallRest, SMTT(30)
    <3> QED BY <3>1, <3>3 DEF FormatHeader
  <2>4. /\ d.TRKS = f.TRKS /\ d.HDS = f.HDS /\ d.SECS = f.SECS
        /\ \A hd, s : SectorId(d, hd, s) = SectorId(f, hd, s)
        /\ \A hd : HeadValue(d, hd) = HeadValue(f, hd)
    BY <2>1, UpdatedIs DEF SectorId, HeadValue
  <2>5. HeaderHolds(f)
    BY <2>1
  <2> HIDE DEF f, d, h, track
  <2>6. ASSUME NEW blk \in 0 .. d.DSM, NEW j \in 0 .. S - 1
        PROVE  AtSector(d, blk, j, BlockSectors(d, blk)[j])
    BY <2>2, WalkGoes
  <2>7. ASSUME NEW blk \in 0 .. d.DSM, NEW j \in 0 .. S - 1, NEW p, AtSector(d, blk, j, p)
        PROVE  placed(p, blk)
    <3>1. p.hd \in 0 .. d.HDS - 1 /\ p.trk \in 0 .. d.TRKS - 1 /\ p.sec \in 0 .. d.SECS - 1
      BY <2>7 DEF AtSector, Places
    <3>2. HasTrack(h, p.trk, p.hd)
      <4>1. d.HDS \in Nat /\ d.TRKS \in Nat
        BY <2>2 DEF Laid
      <4> QED BY <2>3, <2>4, <3>1, <4>1 DEF HasTrack
    <3>3. get_sector_pos_in_track(track[p.hd], SectorId(d, p.hd, p.sec), HeadValue(d, p.hd)) # -1
      <4>1. track[p.hd] = FormatTrack(f, p.hd)
        BY <2>3, <2>4, <3>1
      <4>2. PICK i \in 0 .. f.SECS - 1 :
              get_sector_pos_in_track(FormatTrack(f, p.hd), SectorId(f, p.hd, p.sec),
                                      HeadValue(f, p.hd)) = i
        BY <2>4, <2>5, <3>1, SectorFound
      <4>3. i # -1
        BY <2>5 DEF HeaderHolds
      <4> QED BY <2>4, <4>1, <4>2, <4>3
    <3>4. d.order = "SIDES" => blk_calc(d, p) = blk
      BY <2>2, <2>7, BlockFound
    <3> QED BY <3>2, <3>3, <3>4
  <2> HIDE DEF placed
  <2>8. \A s \in sectors : placed(at(s), s[1])
    <3>1. \A s \in sectors : s[1] \in 0 .. d.DSM /\ s[2] \in 0 .. S - 1
      OBVIOUS
    <3> HIDE DEF S, sectors
    <3> QED BY <2>6, <2>7, <3>1
  <2>9. Cardinality({at(s) : s \in sectors}) = Cardinality(sectors)
    <3>1. IsFiniteSet(sectors)
      <4>1. 0 \in Int /\ d.DSM \in Int /\ S - 1 \in Int
        <5>1. d.BPS \in Nat \ {0} /\ d.BLS \in Nat \ {0} /\ d.BLS % d.BPS = 0 /\ d.DSM \in Nat
          BY <2>2 DEF Laid
        <5>2. S \in Nat \ {0}
          BY <5>1, WholeBlocks DEF SectorsPerBlock
        <5> QED BY <5>1, <5>2
      <4> HIDE DEF S
      <4>2. IsFiniteSet(0 .. d.DSM) /\ IsFiniteSet(0 .. S - 1)
        BY <4>1, FS_Interval
      <4> QED BY <4>2, FS_Product
    <3> DEFINE g == [s \in sectors |-> at(s)]
    <3>2. \A s, v \in sectors : g[s] = g[v] => s = v
      <4> SUFFICES ASSUME NEW s \in sectors, NEW v \in sectors, at(s) = at(v)
                   PROVE  s = v
        OBVIOUS
      <4>1. /\ s[1] \in 0 .. d.DSM /\ s[2] \in 0 .. S - 1 /\ s = <<s[1], s[2]>>
            /\ v[1] \in 0 .. d.DSM /\ v[2] \in 0 .. S - 1 /\ v = <<v[1], v[2]>>
        OBVIOUS
      <4>2. AtSector(d, s[1], s[2], at(s)) /\ AtSector(d, v[1], v[2], at(v))
        BY <2>6, <4>1
      <4> HIDE DEF at
      <4>3. s[1] = v[1] /\ s[2] = v[2]
        BY <2>2, <4>1, <4>2, BlocksApart
      <4> QED BY <4>1, <4>3
    <3> HIDE DEF at, sectors
    <3>3. Cardinality({g[s] : s \in sectors}) = Cardinality(sectors)
      <4> HIDE DEF g
      <4> QED BY <3>1, <3>2, CountedOnce
    <3>4. {g[s] : s \in sectors} = {at(s) : s \in sectors}
      OBVIOUS
    <3> QED BY <3>3, <3>4
  <2> DEFINE walks == [b \in 0 .. d.DSM |-> BlockSectors(d, b)]
  <2>10. \A s \in sectors : walks[s[1]][s[2]] = at(s)
    OBVIOUS
  <2>11. {walks[s[1]][s[2]] : s \in sectors} = {at(s) : s \in sectors}
    BY <2>10
  <2> QED
    BY <2>8, <2>9, <2>10, <2>11 DEF BlocksHavePlaces, placed, d, h, track
<1> QED BY <1>1, SessionInvariant, HeldAlways, MasksAlways, BlocksAlways, PTL

-----------------------------------------------------------------------------
(* What the promise of CpmStore means to a user, for every set of files.      *)

\* The domains of the files' contents, and the files named are files.
THEOREM StoreTypeCorrect == Store!Spec => []Store!StoreTypeOK
<1>1. Store!Init => Store!StoreTypeOK
  BY DEF Store!Init, Store!StoreTypeOK
<1>2. Store!StoreTypeOK /\ [Store!Next]_Store!vars => Store!StoreTypeOK'
  <2> SUFFICES ASSUME Store!StoreTypeOK, [Store!Next]_Store!vars PROVE Store!StoreTypeOK'
    OBVIOUS
  <2>1. CASE Store!Change
    BY <2>1 DEF Store!Change, Store!StoreTypeOK
  <2>2. CASE Store!Write
    BY <2>2 DEF Store!Write, Store!StoreTypeOK
  <2>3. CASE Store!Save
    BY <2>3 DEF Store!Save, Store!StoreTypeOK
  <2>4. CASE Store!Lose
    BY <2>4 DEF Store!Lose, Store!StoreTypeOK
  <2>5. CASE UNCHANGED Store!vars
    BY <2>5 DEF Store!vars, Store!StoreTypeOK
  <2> QED
    BY <2>1, <2>2, <2>3, <2>4, <2>5 DEF Store!Next
<1> QED
  BY <1>1, <1>2, PTL DEF Store!Spec

\* Files that were not named since the last save are the same on the image and
\* in memory (put_directory and the commands before it, fs.c:1305).
THEOREM UntouchedIsSafe == Store!Spec => []Store!Safe
<1>1. Store!Init => Store!Safe
  BY DEF Store!Init, Store!Safe, Store!Same
<1>2. Store!Safe /\ [Store!Next]_Store!vars => Store!Safe'
  <2> SUFFICES ASSUME Store!Safe, [Store!Next]_Store!vars PROVE Store!Safe'
    OBVIOUS
  <2>1. CASE Store!Change
    \* A file not named by now was not named before: both are as they were.
    BY <2>1 DEF Store!Change, Store!Safe, Store!Same
  <2>2. CASE Store!Write
    BY <2>2 DEF Store!Write, Store!Safe, Store!Same
  <2>3. CASE Store!Save
    BY <2>3 DEF Store!Save, Store!Safe, Store!Same
  <2>4. CASE Store!Lose
    BY <2>4 DEF Store!Lose, Store!Safe, Store!Same
  <2>5. CASE UNCHANGED Store!vars
    BY <2>5 DEF Store!vars, Store!Safe, Store!Same
  <2> QED
    BY <2>1, <2>2, <2>3, <2>4, <2>5 DEF Store!Next
<1> QED
  BY <1>1, <1>2, PTL DEF Store!Spec

=============================================================================
