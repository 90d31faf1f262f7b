---------------------------- MODULE BrowserPager ----------------------------
(***************************************************************************)
(* The browser as an implementation of the abstract pager: the saved       *)
(* statuses, the page number and its wrap-around are not visible to the    *)
(* user as long as no directory has more pages than the table has entries  *)
(* and sub-directories are entered from first pages.                       *)
(***************************************************************************)
EXTENDS Browser

P == INSTANCE Pager WITH
       Dirs     <- Dirs \cup {Invalid},
       Length   <- [d \in Dirs \cup {Invalid} |-> Len(Items(d))],
       PageSize <- NUMBER_OF_FILE_ON_DISPLAY,
       dir      <- file_list_status.cluster,
       start    <- file_list_status_tab[StatusIndex(page_number)].pos

\* Then the ring never comes round to the entry of the first page, and every
\* directory is shown from page number 0 on.
ShortTree ==
  \A d \in Dirs :
    /\ Len(Listing[d]) < (FL_STATUSTABLEN - 1) * NUMBER_OF_FILE_ON_DISPLAY
    /\ \A i \in DOMAIN Listing[d] : Listing[d][i].is_dir => i <= NUMBER_OF_FILE_ON_DISPLAY

\* Every step of the browser turns a page of the abstract pager by one, goes
\* to its first page, enters a directory, or is invisible.
ImplementsPager == P!Spec

=============================================================================
