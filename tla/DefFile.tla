------------------------------ MODULE DefFile ------------------------------
(***************************************************************************)
(* The list of disk formats of cpcxfs and the file cpmdisks.def it is read *)
(* from at the start of the program.                                       *)
(*                                                                         *)
(* The file is a sequence of lines, a line one of the elements Parse_Get   *)
(* delivers of it: records of type and value, where type is "number",      *)
(* "keyword", "string", "comma" or "EOL" at the end of a line.  Two more   *)
(* stand for a character (a tab, a dash) that Parse_Get does not know: it  *)
(* neither advances over it nor sets the element.  Behind a blank this is  *)
(* "other", over which it loops for ever; right behind an element, or at   *)
(* the start of a line, where the element is not initialised, it is        *)
(* "again", with the element before, or any, for its value: that one is    *)
(* delivered for the rest of the line.                                     *)
(***************************************************************************)
EXTENDS Integers, Sequences

EmptyFormat ==
  [SEC1_side1 |-> 0, SEC1_side2 |-> 0, SECS |-> 0, TRKS |-> 0, HDS |-> 0, BPS |-> 0,
   BSH |-> 0, BLM |-> 0, EXM |-> 0, DSM |-> 0, DRM |-> 0, AL0 |-> 0, AL1 |-> 0, OFS |-> 0,
   order |-> "SIDES", side0_hd |-> 0, side1_hd |-> 0, skew |-> 0]

dpb_compare_sector_id(a, b) ==
  /\ a.HDS = b.HDS
  /\ a.SEC1_side1 = b.SEC1_side1
  /\ a.HDS = 1 \/ a.SEC1_side2 = b.SEC1_side2

\* Slip: the fields that were added last are not compared.
dpb_match_old_fields(a, b) ==
  /\ dpb_compare_sector_id(a, b)
  /\ \A f \in {"SECS", "TRKS", "BPS", "BSH", "BLM", "EXM", "DSM", "DRM", "AL0", "AL1", "OFS"} :
       a[f] = b[f]

dpb_match(a, b) ==
  /\ dpb_compare_sector_id(a, b)
  /\ \A f \in DOMAIN EmptyFormat \ {"SEC1_side1", "SEC1_side2"} : a[f] = b[f]

dpb_check_if_matching_format_exists(list, d) == \E k \in DOMAIN list : dpb_match(list[k].dpb, d)

dpb_list_add_item(list, ident, d) == Append(list, [ident |-> ident, dpb |-> d])

-----------------------------------------------------------------------------
(***************************************************************************)
(* The state of the reader: status is "reading", "quit" after an element   *)
(* that should not be there, "hung" when the reader no longer advances and *)
(* "crashed"; expect says what the next element is taken for; temp is      *)
(* temp_dpb, id the lowest sector id of a SIDE statement so far; ended     *)
(* keeps the formats whose END was read.                                   *)
(***************************************************************************)
ReaderStart(list) ==
  [status |-> "reading", expect |-> "statement", side |-> "", id |-> 0,
   temp |-> EmptyFormat, ident |-> "", list |-> list, ended |-> <<>>]

\* The statements that set a field to a number, and the field.
NumberField ==
  [k \in {"BSH", "BLM", "EXM", "DSM", "DRM", "AL0", "AL1", "OFS", "CYLINDERS", "SIDES",
          "SECTORS", "BPS"} |->
     CASE k = "CYLINDERS" -> "TRKS" [] k = "SIDES" -> "HDS" [] k = "SECTORS" -> "SECS"
       [] OTHER -> k]

\* What is expected behind the element taken for e, when it is the right one.
Following ==
  [e \in DOMAIN NumberField \cup {"DENSITY", "density comma", "density", "sectors comma"} |->
     CASE e = "SECTORS" -> "sectors comma" [] e = "sectors comma" -> "BPS"
       [] e = "DENSITY" -> "density comma" [] e = "density comma" -> "density"
       [] OTHER -> "statement"]

Quit(st) == [st EXCEPT !.status = "quit"]
Hung(st) == [st EXCEPT !.status = "hung"]

\* The fields keep what fits an unsigned character or an unsigned short.
UCHAR == 256
USHORT == 65536
CharFields == {"BSH", "BLM", "EXM", "AL0", "AL1"}
FieldRange == [f \in DOMAIN EmptyFormat |-> IF f \in CharFields THEN UCHAR ELSE USHORT]

EndFormat(st) ==
  LET d == [st.temp EXCEPT !.skew = IF @ = 0 THEN 1 ELSE @]
  IN [st EXCEPT !.temp = d, !.ended = Append(@, d),
        !.list = IF dpb_check_if_matching_format_exists(@, d) THEN @
                 ELSE dpb_list_add_item(@, st.ident, d)]

\* The name of a format, like that of a label, is read through the element's
\* value, an address only when it is a string; the defaults set before are erased.
BeginFormat(st, t) ==
  IF t.type # "string" THEN [st EXCEPT !.status = "crashed"]
  ELSE [st EXCEPT !.temp = EmptyFormat, !.ident = t.value, !.expect = "end of line"]

Keyword(st, word) ==
  CASE word = "END" -> EndFormat(st)
    [] word = "NOTE" -> [st EXCEPT !.expect = "end of line"]
    [] word \in {"SIDE1", "SIDE2"} -> [st EXCEPT !.expect = "head", !.side = word]
    [] word \in (DOMAIN NumberField \ {"BPS"})
         \cup {"BEGIN", "SOFS", "SKEW", "LABEL", "DENSITY", "ORDER"} ->
         [st EXCEPT !.expect = word]
    [] OTHER -> st

Statement(st, t) == IF t.type = "keyword" THEN Keyword(st, t.value) ELSE st

Number(st, t) ==
  LET f == NumberField[st.expect]
  IN IF t.type # "number" THEN Quit(st)
     ELSE [st EXCEPT !.temp = [@ EXCEPT ![f] = t.value % FieldRange[f]],
                     !.expect = Following[@]]

\* SIDE: the value of the heads, then the ids up to the end of the line.
SideHead(st, t) ==
  IF t.type # "number" THEN Quit(st)
  ELSE [st EXCEPT !.temp = IF st.side = "SIDE1" THEN [@ EXCEPT !.side0_hd = t.value % UCHAR]
                                               ELSE [@ EXCEPT !.side1_hd = t.value % UCHAR],
                  !.expect = "first id"]

Id(st, t) ==
  IF t.type # "number" THEN Quit(st)
  ELSE [st EXCEPT !.expect = "ids",
          !.id = IF st.expect = "first id" \/ t.value < @ THEN t.value ELSE @]

IdsEnd(st) ==
  [st EXCEPT !.expect = "statement",
     !.temp = IF st.side = "SIDE1" THEN [@ EXCEPT !.SEC1_side1 = st.id % USHORT]
                                  ELSE [@ EXCEPT !.SEC1_side2 = st.id % USHORT]]

Order(st, t) ==
  IF t.type # "keyword" THEN Quit(st)
  ELSE [st EXCEPT !.expect = "statement",
          !.temp = [@ EXCEPT !.order = IF t.value \in {"CYLINDERS", "EAGLE"} THEN t.value
                                                                            ELSE "SIDES"]]

Argument(st, t) ==
  CASE st.expect \in DOMAIN NumberField -> Number(st, t)
    [] st.expect = "BEGIN" -> BeginFormat(st, t)
    [] st.expect = "head" -> SideHead(st, t)
    [] st.expect \in {"first id", "next id"} -> Id(st, t)
    [] st.expect = "ids" -> CASE t.type = "EOL" -> IdsEnd(st)
                              [] t.type = "comma" -> [st EXCEPT !.expect = "next id"]
                              [] OTHER -> Quit(st)
    [] st.expect = "ORDER" -> Order(st, t)
    [] st.expect \in {"sectors comma", "density comma"} ->
         IF t.type # "comma" THEN Quit(st) ELSE [st EXCEPT !.expect = Following[@]]
    [] st.expect \in {"DENSITY", "density"} ->
         IF t.type # "keyword" THEN Quit(st) ELSE [st EXCEPT !.expect = Following[@]]
    [] st.expect = "SKEW" ->
         [st EXCEPT !.expect = "statement", !.temp = [@ EXCEPT !.skew = t.value]]
    [] st.expect = "SOFS" -> [st EXCEPT !.expect = "statement"]
    [] st.expect = "LABEL" -> IF t.type # "string" THEN [st EXCEPT !.status = "crashed"]
                              ELSE [st EXCEPT !.expect = "statement"]

Element(st, t) ==
  CASE st.status # "reading" -> st
    [] st.status = "reading" /\ st.expect = "end of line" ->
         IF t.type = "EOL" THEN [st EXCEPT !.expect = "statement"] ELSE st
    [] st.status = "reading" /\ st.expect # "end of line" /\ t.type = "other" -> Hung(st)
    [] st.status = "reading" /\ st.expect = "statement" /\ t.type # "other" -> Statement(st, t)
    [] OTHER -> Argument(st, t)

\* One element for the rest of the line: by the third time it has either ended
\* the reading or the line, or it is delivered for ever.
Again(st, t) ==
  LET after == Element(Element(Element(st, t), t), t)
  IN IF after.status = "reading" /\ after.expect # "end of line" /\ t.type # "EOL"
     THEN Hung(after) ELSE after

ReadElement(st, t) == IF t.type = "again" THEN Again(st, t.value) ELSE Element(st, t)

ReadLine(st, line) ==
  IF st.status # "reading" THEN st
  ELSE LET after[i \in 0 .. Len(line)] ==
             IF i = 0 THEN st ELSE ReadElement(after[i - 1], line[i])
       IN after[Len(line)]

parse_def_file(list, file) ==
  LET after[i \in 0 .. Len(file)] ==
        IF i = 0 THEN ReaderStart(list) ELSE ReadLine(after[i - 1], file[i])
  IN after[Len(file)]

=============================================================================
