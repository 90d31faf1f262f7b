----------------------------- MODULE BrowserRing -----------------------------
(***************************************************************************)
(* How far back the browser can go.  The table of saved statuses is a ring *)
(* that page_number runs around without ever being reset when a directory  *)
(* is entered.  The history variable ahead counts the entries of the table *)
(* in front of page_number that belong to pages already shown: they are    *)
(* the part of the ring going back can no longer use.                      *)
(***************************************************************************)
EXTENDS Browser

VARIABLE ahead

ringVars == << vars, ahead >>

AtMost(n) == IF n > FL_STATUSTABLEN THEN FL_STATUSTABLEN ELSE n

\* A key may turn the page or leave it; ahead follows only a turned page.
Turned(n) == ahead' = IF pc' = "read" THEN n ELSE ahead

RingInit == Init /\ ahead = 0

RingNext ==
  \/ ReadPage /\ ahead' = (IF ahead = 0 THEN 1 ELSE ahead)
  \/ (KeyRight \/ KeyDown) /\ Turned(ahead - 1)
  \/ (KeyLeft \/ KeyUp) /\ Turned(AtMost(ahead + 1))
  \/ KeyFirstPage /\ Turned(AtMost(ahead + page_number))
  \/ KeyEnterDir /\ Turned(0)
  \/ /\ \/ KeyInfoScreen \/ KeyParameters
        \/ KeyInsert \/ KeyInsertNext
        \/ KeyClear \/ KeyClearNext \/ KeyNextSlot
        \/ KeySave \/ Reboot
     /\ UNCHANGED ahead

RingSpec == RingInit /\ [][RingNext]_ringVars

-----------------------------------------------------------------------------

\* Where the page on screen, or the page being read, starts.
Start == file_list_status_tab[StatusIndex(page_number)].pos

\* The start of the d-th page before the one starting at pos.
PagesBack(pos, d) ==
  IF d * NUMBER_OF_FILE_ON_DISPLAY > pos THEN 0
  ELSE pos - d * NUMBER_OF_FILE_ON_DISPLAY

\* The table entries behind page_number that ahead leaves are the starts of
\* the preceding pages of the same directory (its first page repeated once
\* the beginning is passed), although the entries are never cleared and the
\* ring has been gone round by other pages and other directories.
RingWindow ==
  pc \in {"read", "key"} =>
    \A d \in 0 .. FL_STATUSTABLEN - 1 :
      d + ahead < FL_STATUSTABLEN =>
        file_list_status_tab[StatusIndex(page_number - d)] =
          [cluster |-> file_list_status.cluster, pos |-> PagesBack(Start, d)]

=============================================================================
