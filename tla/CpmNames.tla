----------------------------- MODULE CpmNames -----------------------------
(***************************************************************************)
(* The names of CP/M files as they are typed, "user:root.ext", and the     *)
(* patterns they are compared with.  A name is a sequence of characters;   *)
(* user numbers have one digit here.                                       *)
(***************************************************************************)
EXTENDS Integers, Sequences, FiniteSets

CONSTANTS
  RootSize, ExtSize,    \* characters of the root and ext of an entry (8 and 3)
  Code                  \* the code of every character

Digit == [c \in {"0", "1", "2"} |-> CASE c = "0" -> 0 [] c = "1" -> 1 [] c = "2" -> 2]
Numeral == [n \in 0 .. 2 |-> CASE n = 0 -> "0" [] n = 1 -> "1" [] n = 2 -> "2"]

NoUser == -1
AnyUser == -2

\* The position of the first c in s from position k on, 0 when there is none.
strchr(s, k, c) ==
  LET at == {i \in k .. Len(s) : s[i] = c}
  IN IF at = {} THEN 0 ELSE CHOOSE i \in at : \A j \in at : i <= j

Smaller(a, b) == IF a < b THEN a ELSE b

\* The text behind the user number: the root ends at a dot or when the field is
\* full; the rest is the extension, from behind the next dot, or else from
\* behind the character at which the field was full.
SplitAt(user, s, root, p) ==
  [error |-> root = <<>> /\ p < Len(s), user |-> user, root |-> root,
   ext |-> SubSeq(s, p + 1, Len(s))]

SplitName(user, s, dot) ==
  IF dot = 0
  THEN SplitAt(user, s, SubSeq(s, 1, Smaller(RootSize, Len(s))), Smaller(RootSize, Len(s)) + 1)
  ELSE SplitAt(user, s, SubSeq(s, 1, Smaller(RootSize, dot - 1)), dot)
SplitRest(user, s) == SplitName(user, s, strchr(s, 1, "."))

IllegalName == [error |-> TRUE, user |-> NoUser, root |-> <<>>, ext |-> <<>>]

ParseFrom(name, colon) ==
  CASE colon = 0 -> SplitRest(NoUser, name)
    [] colon = 2 /\ name[1] = "*" -> SplitRest(AnyUser, SubSeq(name, 3, Len(name)))
    [] colon = 2 /\ name[1] \in DOMAIN Digit ->
         SplitRest(Digit[name[1]], SubSeq(name, 3, Len(name)))
    [] colon = 1 -> SplitRest(0, Tail(name))
    [] OTHER -> IllegalName

parse_cpm_filename(name) == ParseFrom(name, strchr(name, 1, ":"))

build_cpm_name(user, root, ext) ==
  (CASE user = AnyUser -> <<"*", ":">>
     [] user = NoUser -> <<>>
     [] OTHER -> <<Numeral[user], ":">>) \o root \o <<".">> \o ext

\* What an entry keeps of a name.  The text is copied whole: what is beyond the
\* size of an extension runs into the NameRoom characters of the name behind
\* it, which update_directory() composes anew from the root and the extension;
\* longer extensions, which reach the fields behind, are not modelled.
NameRoom == 13
str2mem(s, size) == SubSeq(s, 1, Smaller(size, Len(s)))

has_wildcards(os_tag, name) ==
  \E i \in DOMAIN name : name[i] \in IF os_tag = "c" THEN {"*", "?", "[", "]"} ELSE {"*", "?"}

-----------------------------------------------------------------------------
(***************************************************************************)
(* match.c.  The functions below are over positions i of the pattern p and *)
(* j of the text t.                                                        *)
(***************************************************************************)
Quoted(p, k) == IF k <= Len(p) /\ p[k] = "\\" THEN k + 1 ELSE k

\* The construct [..]: where it ends when c is a member, and whether it is; 0
\* when the construct is malformed.  The rest of it is read only up to the
\* first member that is found.
ClassEnd(p, k) ==
  LET close[i \in k .. Len(p) + 2] ==
        IF i > Len(p) THEN 0 ELSE IF p[i] = "]" THEN i ELSE close[Quoted(p, i) + 1]
  IN close[k]

\* From a member that begins at k and ends at last: is c one of the characters?
Within(p, first, last, c) ==
  Code[c] \in (Code[p[first]] .. Code[p[last]]) \cup (Code[p[last]] .. Code[p[first]])

MemberEnd(p, first) ==
  IF first + 1 <= Len(p) /\ p[first + 1] = "-"
  THEN IF first + 2 <= Len(p) /\ p[first + 2] = "]" THEN Len(p) + 1 ELSE Quoted(p, first + 2)
  ELSE first

Malformed == [end |-> 0, member |-> FALSE]
Member(member, p, c, first, last) ==
  CASE last > Len(p) -> Malformed
    [] last <= Len(p) /\ Within(p, first, last, c) ->
         [end |-> ClassEnd(p, last + 1), member |-> TRUE]
    [] OTHER -> member[last + 1]

Class(p, k, c) ==
  LET member[i \in k .. Len(p) + 3] ==
        CASE i > Len(p) -> Malformed
          [] i <= Len(p) /\ p[i] = "]" -> [end |-> i, member |-> FALSE]
          [] OTHER -> Member(member, p, c, Quoted(p, i), MemberEnd(p, Quoted(p, i)))
  IN IF k <= Len(p) /\ p[k] = "]" THEN Malformed ELSE member[k]

\* matche_after_star: over the * and ? that follow, then to every place where
\* what is behind them may begin.
Behind(p, i) ==
  CHOOSE k \in i .. Len(p) + 1 :
    /\ \A n \in i .. k - 1 : p[n] \in {"*", "?"}
    /\ k <= Len(p) => p[k] \notin {"*", "?"}

Tries(m, t, behind, next, from) ==
  LET tries[k \in from .. Len(t) + 2] ==
        IF k > Len(t) THEN "abort"
        ELSE LET r == IF next = t[k] \/ next = "[" THEN m[behind, k] ELSE "literal"
             IN IF r \in {"valid", "abort", "pattern"} THEN r ELSE tries[k + 1]
  IN tries[from]

matche_after_star(m, p, t, behind, from) ==
  CASE from > Len(t) + 1 -> "abort"
    [] from <= Len(t) + 1 /\ behind > Len(p) -> "valid"
    [] OTHER -> IF Quoted(p, behind) > Len(p) THEN "pattern"
                ELSE Tries(m, t, behind, p[Quoted(p, behind)], from)

AfterClass(m, class, inverted, j) ==
  CASE class.member /\ inverted -> "range"
    [] ~(class.member /\ inverted) /\ class.end = 0 -> "pattern"
    [] class.end # 0 /\ ~class.member /\ ~inverted -> "range"
    [] OTHER -> m[class.end + 1, j + 1]

AfterLiteral(m, p, t, literal, j) ==
  CASE literal > Len(p) -> "pattern"
    [] literal <= Len(p) /\ p[literal] # t[j] -> "literal"
    [] OTHER -> m[literal + 1, j + 1]

Inverted(p, i) == i < Len(p) /\ p[i + 1] \in {"!", "^"}
Questions(p, i, k) == Cardinality({n \in i .. k - 1 : p[n] = "?"})

matche(p, t) ==
  LET m[i \in 1 .. Len(p) + 2, j \in 1 .. Len(t) + 2] ==
        CASE i > Len(p) -> IF j <= Len(t) THEN "end" ELSE "valid"
          [] i <= Len(p) /\ j > Len(t) -> IF p[i] = "*" /\ i = Len(p) THEN "valid" ELSE "abort"
          [] OTHER ->
               CASE p[i] = "?" -> m[i + 1, j + 1]
                 [] p[i] = "*" ->
                      matche_after_star(m, p, t, Behind(p, i), j + Questions(p, i, Behind(p, i)))
                 [] p[i] = "[" ->
                      AfterClass(m, Class(p, IF Inverted(p, i) THEN i + 2 ELSE i + 1, t[j]),
                                 Inverted(p, i), j)
                 [] OTHER -> AfterLiteral(m, p, t, Quoted(p, i), j)
  IN m[1, 1]

match(p, t) == matche(p, t) = "valid"

=============================================================================
