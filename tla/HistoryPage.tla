------------------------------ MODULE HistoryPage ------------------------------
(***************************************************************************)
(* The list of submitted attempts (components/history/HistoryList.tsx),    *)
(* newest first, a page of the server's list at a time. An attempt is the  *)
(* number of attempts submitted before it and itself.                      *)
(***************************************************************************)
EXTENDS WebSession, SequencesExt

OnHistory == route = "history" /\ Visible

PageSize == 2      \* ITEMS_PER_PAGE
MaxNewest == HistorySize + 1    \* bounds the attempts submitted meanwhile

\* A page of the list after the cursor c.
Listed(c) ==
  LET last == IF c > PageSize THEN c - PageSize ELSE 0
  IN [items |-> [i \in 1 .. c - last |-> c + 1 - i], nextCursor |-> last,
      hasNextPage |-> last > 0]

OnlyPage ==
  UNCHANGED <<tour, route, props, cookie, user, isLoading, serverVars, override, stray,
              sessionVars>>

\* The first page, or an error that only a reload gets rid of.
HistoryArrives ==
  /\ OnHistory /\ page.isLoading
  /\ \/ LET got == Listed(page.newest) IN
        /\ page' = [page EXCEPT !.items = got.items, !.nextCursor = got.nextCursor,
                                !.hasNextPage = got.hasNextPage, !.isLoading = FALSE]
        /\ UNCHANGED faults
     \/ page' = [page EXCEPT !.error = TRUE, !.isLoading = FALSE] /\ Fault
  /\ OnlyPage

\* Mutant of CanLoadMore: isLoadingMore is not asked.
CanLoadMoreTwice == page.hasNextPage /\ page.nextCursor # 0

CanLoadMore == page.hasNextPage /\ page.nextCursor # 0 /\ page.more = <<>>

\* handleLoadMore; "more" holds the cursors of the requests under way.
LoadMore ==
  /\ OnHistory /\ ~page.isLoading /\ CanLoadMore
  /\ page' = [page EXCEPT !.more = Append(@, page.nextCursor), !.error = FALSE]
  /\ OnlyPage /\ UNCHANGED faults

MoreArrives ==
  /\ OnHistory
  /\ \E m \in DOMAIN page.more :
       \/ LET got == Listed(page.more[m]) IN
          /\ page' = [page EXCEPT !.items = @ \o got.items, !.nextCursor = got.nextCursor,
                                  !.hasNextPage = got.hasNextPage, !.more = RemoveAt(@, m)]
          /\ UNCHANGED faults
       \/ page' = [page EXCEPT !.error = TRUE, !.more = RemoveAt(@, m)] /\ Fault
  /\ OnlyPage

\* Another attempt is submitted, on another device.
Submitted ==
  /\ OnHistory /\ page.newest < MaxNewest
  /\ page' = [page EXCEPT !.newest = @ + 1]
  /\ OnlyPage /\ UNCHANGED faults

HistoryNext == HistoryArrives \/ LoadMore \/ MoreArrives \/ Submitted

\* The list shows every attempt once, in the order of the server, from the newest of
\* the moment it was opened without a gap.
HistoryInOrder ==
  route = "history" =>
    \A i \in 1 .. Len(page.items) - 1 : page.items[i + 1] = page.items[i] - 1

=============================================================================
