--------------------------- MODULE WebClientProofs ---------------------------
(***************************************************************************)
(* Proofs about WebClient, for any users, any tours and any number of      *)
(* faults.                                                                 *)
(***************************************************************************)
EXTENDS WebClient, TLAPS

USE DEF webVars, serverVars, viewVars, standing, sessionVars, catalogueVars, NoUser, NoCall

-----------------------------------------------------------------------------
(***************************************************************************)
(* The session.                                                            *)
(***************************************************************************)
\* After a logout the old user can come back, by an answer of loadUser that is still
\* under way; the layout that is asked for then forgets it.
Leaving == refreshing /\ owner = NoUser

SessionInv ==
  /\ hasSession \in BOOLEAN
  /\ cookie \in {owner, NoUser}
  /\ me # NoCall => hasSession
  /\ ~overtaken => me \in {NoCall, owner} \/ Leaving
  /\ ~overtaken => user \in {NoUser, owner} \/ (Leaving /\ hasSession)

\* One step per action of AuthProvider, middleware and the pages to log in.
LEMMA SessionInvStep == SessionInv /\ SessionNext => SessionInv'
  <1> SUFFICES ASSUME SessionInv, SessionNext PROVE SessionInv'
    OBVIOUS
  <1> USE DEF SessionInv, Leaving
  <1>1. ASSUME CookieExpires PROVE SessionInv'
    BY <1>1 DEF CookieExpires
  <1>2. ASSUME MeReplies PROVE SessionInv'
    BY <1>2 DEF MeReplies, Known
  <1>3. ASSUME RefreshLands PROVE SessionInv'
    BY <1>3 DEF RefreshLands, Asked
  <1>4. ASSUME NEW u \in tour.users, Login(u) PROVE SessionInv'
    BY <1>4 DEF Login, Unaffected
  <1>5. ASSUME LoginSucceeds PROVE SessionInv'
    BY <1>5 DEF LoginSucceeds, ShowAs, Unaffected, Show
  <1>6. ASSUME LoginFails PROVE SessionInv'
    BY <1>6 DEF LoginFails, Unaffected
  <1>7. ASSUME LoginRedirectsHome PROVE SessionInv'
    BY <1>7 DEF LoginRedirectsHome, Go, Unaffected, ShowAs, Show
  <1>8. ASSUME RequireAuthRedirects PROVE SessionInv'
    BY <1>8 DEF RequireAuthRedirects, Go, Unaffected, ShowAs, Show
  <1>9. ASSUME Register PROVE SessionInv'
    BY <1>9 DEF Register, Unaffected
  <1>10. ASSUME RegisterSucceeds PROVE SessionInv'
    BY <1>10 DEF RegisterSucceeds, Go, Unaffected, ShowAs, Show
  <1>11. ASSUME Logout PROVE SessionInv'
    BY <1>11 DEF Logout, Unaffected
  <1>12. ASSUME LogoutSucceeds PROVE SessionInv'
    BY <1>12 DEF LogoutSucceeds, ShowAs, Unaffected, Show
  <1>13. ASSUME SigningFails PROVE SessionInv'
    BY <1>13 DEF SigningFails, Unaffected
  <1>14. ASSUME FollowLink PROVE SessionInv'
    BY <1>14 DEF FollowLink, Go, Unaffected, ShowAs, Show
  <1>15. QED
    BY <1>1, <1>2, <1>3, <1>4, <1>5, <1>6, <1>7, <1>8, <1>9, <1>10, <1>11, <1>12, <1>13,
       <1>14
       DEF SessionNext

\* The other pages change the user by a reply to a page that was left, and only that.
LEMMA SessionElsewhere ==
  SessionInv /\ (CatalogueNext \/ ProfileNext \/ HistoryNext) => SessionInv'
  <1> SUFFICES ASSUME SessionInv, CatalogueNext \/ ProfileNext \/ HistoryNext
               PROVE  SessionInv'
    OBVIOUS
  <1> USE DEF SessionInv, Leaving
  <1>1. ASSUME RegisterRoomAsGuest PROVE SessionInv'
    BY <1>1 DEF RegisterRoomAsGuest, Go, NoSession, ShowAs, Show
  <1>2. ASSUME RegisterPaidRoom PROVE SessionInv'
    BY <1>2 DEF RegisterPaidRoom, Go, NoSession, ShowAs, Show
  <1>3. ASSUME RegisterRoom PROVE SessionInv'
    BY <1>3 DEF RegisterRoom, NoSession
  <1>4. ASSUME JoinSucceeds PROVE SessionInv'
    BY <1>4 DEF JoinSucceeds, Show
  <1>5. ASSUME JoinNeedsPayment PROVE SessionInv'
    BY <1>5 DEF JoinNeedsPayment, Go, NoSession, ShowAs, Show
  <1>6. ASSUME JoinFails PROVE SessionInv'
    BY <1>6 DEF JoinFails, NoSession
  <1>7. ASSUME OpenRoom PROVE SessionInv'
    BY <1>7 DEF OpenRoom, Go, NoSession, ShowAs, Show
  <1>8. ASSUME FetchCompletion PROVE SessionInv'
    BY <1>8 DEF FetchCompletion, OnPage, NoSession
  <1>9. ASSUME WindowFocus PROVE SessionInv'
    BY <1>9 DEF WindowFocus, OnPage, NoSession
  <1>10. ASSUME CompletionArrives PROVE SessionInv'
    BY <1>10 DEF CompletionArrives, OnPage, NoSession
  <1>11. ASSUME OpenExam PROVE SessionInv'
    BY <1>11 DEF OpenExam, Go, NoSession, ShowAs, Show
  <1>12. ASSUME OpenRoomExam PROVE SessionInv'
    BY <1>12 DEF OpenRoomExam, Go, OnPage, NoSession, ShowAs, Show
  <1>13. ASSUME CloseRoomDialog PROVE SessionInv'
    BY <1>13 DEF CloseRoomDialog, OnPage, NoSession
  <1>14. ASSUME OpenDialog PROVE SessionInv'
    BY <1>14 DEF OpenDialog, OnPage, NoSession
  <1>15. ASSUME CloseDialog PROVE SessionInv'
    BY <1>15 DEF CloseDialog, OnPage, NoSession
  <1>16. ASSUME StartExam PROVE SessionInv'
    BY <1>16 DEF StartExam, OnPage, NoSession
  <1>17. ASSUME StartSucceeds PROVE SessionInv'
    BY <1>17 DEF StartSucceeds, Go, NoSession, ShowAs, Show
  <1>18. ASSUME StartRefused PROVE SessionInv'
    BY <1>18 DEF StartRefused, OnPage, NoSession
  <1>19. ASSUME Complete PROVE SessionInv'
    BY <1>19 DEF Complete, NoSession
  <1>20. ASSUME Tick PROVE SessionInv'
    BY <1>20 DEF Tick, NoSession
  <1>21. ASSUME ProvincesArrive PROVE SessionInv'
    BY <1>21 DEF ProvincesArrive, InPage, Stays
  <1>22. ASSUME WardsArrive PROVE SessionInv'
    <2>1. UNCHANGED <<sessionVars, cookie, user>>
      BY <1>22 DEF WardsArrive, InPage, Stays
    <2>2. QED
      BY <2>1
  <1>23. ASSUME ProfileArrives PROVE SessionInv'
    BY <1>23 DEF ProfileArrives, InPage, Stays
  <1>24. ASSUME StartEditing PROVE SessionInv'
    BY <1>24 DEF StartEditing, InPage, Stays
  <1>25. ASSUME EditProvince PROVE SessionInv'
    BY <1>25 DEF EditProvince, InPage, Stays
  <1>26. ASSUME EditWard PROVE SessionInv'
    BY <1>26 DEF EditWard, InPage, Stays
  <1>27. ASSUME Save PROVE SessionInv'
    BY <1>27 DEF Save, InPage, Stays
  <1>28. ASSUME SaveStored PROVE SessionInv'
    BY <1>28 DEF SaveStored, InPage, Stays
  <1>29. ASSUME SaveSucceeds PROVE SessionInv'
    BY <1>29 DEF SaveSucceeds, InPage, Stays
  <1>30. ASSUME SaveFails PROVE SessionInv'
    BY <1>30 DEF SaveFails, Stays
  <1>31. ASSUME SelectAvatar PROVE SessionInv'
    BY <1>31 DEF SelectAvatar, InPage, Stays
  <1>32. ASSUME AvatarStored PROVE SessionInv'
    BY <1>32 DEF AvatarStored, InPage, Stays
  <1>33. ASSUME AvatarSucceeds PROVE SessionInv'
    BY <1>33 DEF AvatarSucceeds, InPage, Stays
  <1>34. ASSUME AvatarFails PROVE SessionInv'
    BY <1>34 DEF AvatarFails, Stays
  <1>35. ASSUME StrayArrives PROVE SessionInv'
    BY <1>35 DEF StrayArrives
  <1>36. ASSUME StrayFails PROVE SessionInv'
    BY <1>36 DEF StrayFails
  <1>37. ASSUME HistoryArrives PROVE SessionInv'
    BY <1>37 DEF HistoryArrives, OnlyPage
  <1>38. ASSUME LoadMore PROVE SessionInv'
    BY <1>38 DEF LoadMore, OnlyPage
  <1>39. ASSUME MoreArrives PROVE SessionInv'
    BY <1>39 DEF MoreArrives, OnlyPage
  <1>40. ASSUME Submitted PROVE SessionInv'
    BY <1>40 DEF Submitted, OnlyPage
  <1>41. QED
    BY <1>1, <1>2, <1>3, <1>4, <1>5, <1>6, <1>7, <1>8, <1>9, <1>10, <1>11, <1>12, <1>13,
       <1>14, <1>15, <1>16, <1>17, <1>18, <1>19, <1>20, <1>21, <1>22, <1>23, <1>24, <1>25,
       <1>26, <1>27, <1>28, <1>29, <1>30, <1>31, <1>32, <1>33, <1>34, <1>35, <1>36, <1>37,
       <1>38, <1>39, <1>40
       DEF CatalogueNext, ProfileNext, HistoryNext

\* The invariant of the session, of the specification.
LEMMA SessionIsKept == Spec => []SessionInv
  <1>1. Init => SessionInv
    BY DEF Init, SessionInit, SessionInv
  <1>2. SessionInv /\ [Next]_vars => SessionInv'
    <2> SUFFICES ASSUME SessionInv, [Next]_vars PROVE SessionInv'
      OBVIOUS
    <2>1. CASE ReloadStep
      BY <2>1 DEF ReloadStep, Reload, Loaded, SessionInv
    <2>2. CASE SessionStep \/ CatalogueNext \/ ProfileStep \/ HistoryStep
      BY <2>2, SessionInvStep, SessionElsewhere DEF SessionStep, ProfileStep, HistoryStep
    <2>3. CASE UNCHANGED vars
      BY <2>3 DEF vars, SessionInv, Leaving
    <2>4. QED
      BY <2>1, <2>2, <2>3 DEF Next
  <1>3. QED
    BY <1>1, <1>2, PTL DEF Spec

\* The user whom the client shows is the one of the last load, login or logout, or
\* nobody, unless a reply came after a newer one: for any users and any interleaving of
\* loads, logins, logouts, registrations, refreshes and expiries.
THEOREM UserIsOfSession == Spec => []UserIsSession
  <1>1. SessionInv => UserIsSession
    BY DEF SessionInv, Leaving, UserIsSession
  <1>2. QED
    BY <1>1, SessionIsKept, PTL

-----------------------------------------------------------------------------
(***************************************************************************)
(* Pages that are left and entered.                                        *)
(***************************************************************************)
\* What the rest of the client does to the profile and to the history: a page is made
\* anew, or stays, or sees its user loaded again.
PageKept ==
  route' \in {"profile", "history"} =>
    \/ page' = Fresh(route', props', clock)
    \/ route' = route /\ user' = user /\ page' \in {page, UserRefreshed}

\* One step per action of the session, of the catalogue and of late replies.
LEMMA PageKeptStep ==
  ReloadStep \/ SessionNext \/ CatalogueNext \/ StrayArrives \/ StrayFails => PageKept
  <1> SUFFICES ASSUME \/ ReloadStep \/ SessionNext \/ CatalogueNext
                      \/ StrayArrives \/ StrayFails
               PROVE  PageKept
    OBVIOUS
  <1> USE DEF PageKept
  <1>1. ASSUME ReloadStep PROVE PageKept
    BY <1>1 DEF ReloadStep, Reload, Loaded, Entered, Middleware
  <1>2. ASSUME CookieExpires PROVE PageKept
    BY <1>2 DEF CookieExpires
  <1>3. ASSUME MeReplies PROVE PageKept
    BY <1>3 DEF MeReplies, Known
  <1>4. ASSUME RefreshLands PROVE PageKept
    BY <1>4 DEF RefreshLands, Asked, Rerendered
  <1>5. ASSUME NEW u \in tour.users, Login(u) PROVE PageKept
    BY <1>5 DEF Login, Unaffected
  <1>6. ASSUME LoginSucceeds PROVE PageKept
    BY <1>6 DEF LoginSucceeds, ShowAs, Unaffected, Show, Entered, Middleware
  <1>7. ASSUME LoginFails PROVE PageKept
    BY <1>7 DEF LoginFails, Unaffected
  <1>8. ASSUME LoginRedirectsHome PROVE PageKept
    BY <1>8 DEF LoginRedirectsHome, Go, Unaffected, ShowAs, Show, Entered, Middleware
  <1>9. ASSUME RequireAuthRedirects PROVE PageKept
    BY <1>9 DEF RequireAuthRedirects, Go, Unaffected, ShowAs, Show, Entered, Middleware
  <1>10. ASSUME Register PROVE PageKept
    BY <1>10 DEF Register, Unaffected
  <1>11. ASSUME RegisterSucceeds PROVE PageKept
    BY <1>11 DEF RegisterSucceeds, Go, Unaffected, ShowAs, Show, Entered, Middleware
  <1>12. ASSUME Logout PROVE PageKept
    BY <1>12 DEF Logout, Unaffected
  <1>13. ASSUME LogoutSucceeds PROVE PageKept
    BY <1>13 DEF LogoutSucceeds, ShowAs, Unaffected, Show, Entered, Middleware
  <1>14. ASSUME SigningFails PROVE PageKept
    BY <1>14 DEF SigningFails, Unaffected
  <1>15. ASSUME FollowLink PROVE PageKept
    BY <1>15 DEF FollowLink, Go, Unaffected, ShowAs, Show, Entered, Middleware
  <1>16. ASSUME RegisterRoomAsGuest PROVE PageKept
    BY <1>16 DEF RegisterRoomAsGuest, Go, NoSession, RoomCards, ShowAs, Show, Entered,
       Middleware
  <1>17. ASSUME RegisterPaidRoom PROVE PageKept
    BY <1>17 DEF RegisterPaidRoom, Go, NoSession, RoomCards, ShowAs, Show, Entered,
       Middleware
  <1>18. ASSUME RegisterRoom PROVE PageKept
    BY <1>18 DEF RegisterRoom, NoSession, RoomCards
  <1>19. ASSUME JoinSucceeds PROVE PageKept
    BY <1>19 DEF JoinSucceeds, Show, Entered, Middleware
  <1>20. ASSUME JoinNeedsPayment PROVE PageKept
    BY <1>20 DEF JoinNeedsPayment, Go, NoSession, ShowAs, Show, Entered, Middleware
  <1>21. ASSUME JoinFails PROVE PageKept
    BY <1>21 DEF JoinFails, NoSession
  <1>22. ASSUME OpenRoom PROVE PageKept
    BY <1>22 DEF OpenRoom, Go, NoSession, RoomCards, ShowAs, Show, Entered, Middleware
  <1>23. ASSUME FetchCompletion PROVE PageKept
    BY <1>23 DEF FetchCompletion, OnPage, NoSession, ExamGrids
  <1>24. ASSUME WindowFocus PROVE PageKept
    BY <1>24 DEF WindowFocus, OnPage, NoSession, ExamGrids
  <1>25. ASSUME CompletionArrives PROVE PageKept
    BY <1>25 DEF CompletionArrives, OnPage, NoSession, ExamGrids
  <1>26. ASSUME OpenExam PROVE PageKept
    BY <1>26 DEF OpenExam, Go, NoSession, ExamGrids, ShowAs, Show, Entered, Middleware
  <1>27. ASSUME OpenRoomExam PROVE PageKept
    BY <1>27 DEF OpenRoomExam, Go, OnPage, NoSession, ShowAs, Show, Entered, Middleware
  <1>28. ASSUME CloseRoomDialog PROVE PageKept
    BY <1>28 DEF CloseRoomDialog, OnPage, NoSession
  <1>29. ASSUME OpenDialog PROVE PageKept
    BY <1>29 DEF OpenDialog, OnPage, NoSession
  <1>30. ASSUME CloseDialog PROVE PageKept
    BY <1>30 DEF CloseDialog, OnPage, NoSession
  <1>31. ASSUME StartExam PROVE PageKept
    BY <1>31 DEF StartExam, OnPage, NoSession
  <1>32. ASSUME StartSucceeds PROVE PageKept
    BY <1>32 DEF StartSucceeds, Go, NoSession, ShowAs, Show, Entered, Middleware
  <1>33. ASSUME StartRefused PROVE PageKept
    BY <1>33 DEF StartRefused, OnPage, NoSession
  <1>34. ASSUME Complete PROVE PageKept
    BY <1>34 DEF Complete, NoSession
  <1>35. ASSUME Tick PROVE PageKept
    BY <1>35 DEF Tick, NoSession
  <1>36. ASSUME StrayArrives PROVE PageKept
    BY <1>36 DEF StrayArrives
  <1>37. ASSUME StrayFails PROVE PageKept
    BY <1>37 DEF StrayFails
  <1>38. QED
    BY <1>1, <1>2, <1>3, <1>4, <1>5, <1>6, <1>7, <1>8, <1>9, <1>10, <1>11, <1>12, <1>13,
       <1>14, <1>15, <1>16, <1>17, <1>18, <1>19, <1>20, <1>21, <1>22, <1>23, <1>24, <1>25,
       <1>26, <1>27, <1>28, <1>29, <1>30, <1>31, <1>32, <1>33, <1>34, <1>35, <1>36, <1>37
       DEF SessionNext, CatalogueNext

-----------------------------------------------------------------------------
(***************************************************************************)
(* The history.                                                            *)
(***************************************************************************)
HistoryType ==
  [items : Seq(Int), nextCursor : Nat, hasNextPage : BOOLEAN, isLoading : BOOLEAN,
   more : Seq(Nat), error : BOOLEAN, newest : Nat]

InOrder(s) == \A i \in 1 .. Len(s) - 1 : s[i + 1] = s[i] - 1

\* The list ends where the server goes on at the cursor, and one request at most, for
\* what follows the list, is under way.
HistoryInv ==
  /\ page \in HistoryType
  /\ InOrder(page.items)
  /\ page.items # <<>> => page.items[Len(page.items)] = page.nextCursor + 1
  /\ page.isLoading => page.items = <<>> /\ page.more = <<>>
  /\ page.more # <<>> => page.more = <<page.nextCursor>> /\ page.nextCursor > 0

\* A page of the server's list is in order, begins at its cursor and ends at the next.
LEMMA ListedInOrder ==
  ASSUME NEW c \in Nat
  PROVE  /\ Listed(c).items \in Seq(Int)
         /\ Listed(c).nextCursor \in Nat /\ Listed(c).hasNextPage \in BOOLEAN
         /\ InOrder(Listed(c).items)
         /\ c > 0 => /\ Len(Listed(c).items) > 0
                     /\ Listed(c).items[1] = c
         /\ Listed(c).items # <<>> =>
              Listed(c).items[Len(Listed(c).items)] = Listed(c).nextCursor + 1
  <1> DEFINE last == IF c > PageSize THEN c - PageSize ELSE 0
             list == [i \in 1 .. c - last |-> c + 1 - i]
  <1>1. last \in Nat /\ last <= c /\ (c > 0 => last < c)
    BY DEF PageSize
  <1>2. Listed(c).items = list /\ Listed(c).nextCursor = last
        /\ Listed(c).hasNextPage = (last > 0)
    BY DEF Listed
  <1> HIDE DEF last
  <1>3. list \in Seq(Int) /\ Len(list) = c - last
    BY <1>1
  <1>4. \A i \in 1 .. c - last : list[i] = c + 1 - i
    OBVIOUS
  <1> HIDE DEF list
  <1>5. InOrder(list)
    BY <1>1, <1>3, <1>4 DEF InOrder
  <1>6. list # <<>> => Len(list) > 0
    BY <1>3
  <1>7. QED
    BY <1>1, <1>2, <1>3, <1>4, <1>5, <1>6

\* What continues a list in order is in order with it.
LEMMA ConcatInOrder ==
  ASSUME NEW s \in Seq(Int), NEW t \in Seq(Int), InOrder(s), InOrder(t), Len(t) > 0,
         s # <<>> => t[1] = s[Len(s)] - 1
  PROVE  /\ s \o t \in Seq(Int) /\ InOrder(s \o t)
         /\ (s \o t)[Len(s \o t)] = t[Len(t)]
  <1>1. s \o t \in Seq(Int) /\ Len(s \o t) = Len(s) + Len(t)
    OBVIOUS
  <1>2. \A i \in 1 .. Len(s) + Len(t) :
          (s \o t)[i] = IF i <= Len(s) THEN s[i] ELSE t[i - Len(s)]
    OBVIOUS
  <1>3. ASSUME NEW i \in 1 .. Len(s \o t) - 1 PROVE (s \o t)[i + 1] = (s \o t)[i] - 1
    <2>1. CASE i < Len(s)
      BY <1>1, <1>2, <2>1 DEF InOrder
    <2>2. CASE i = Len(s)
      BY <1>1, <1>2, <2>2
    <2>3. CASE i > Len(s)
      <3>1. i - Len(s) \in 1 .. Len(t) - 1
        BY <1>1, <2>3
      <3>2. (s \o t)[i] = t[i - Len(s)] /\ (s \o t)[i + 1] = t[(i - Len(s)) + 1]
        BY <1>1, <1>2, <2>3
      <3>3. QED
        BY <3>1, <3>2 DEF InOrder
    <2>4. QED
      BY <2>1, <2>2, <2>3, <1>1
  <1>4. QED
    BY <1>1, <1>2, <1>3 DEF InOrder

\* The list before anything is loaded.
LEMMA EmptyInOrder == <<>> \in Seq(Int) /\ <<>> \in Seq(Nat) /\ InOrder(<<>>)
  BY DEF InOrder

\* The page as it is opened.
LEMMA FreshHistoryInv ==
  ASSUME route' = "history", page' = Fresh(route', props', clock) PROVE HistoryInv'
  <1>1. page' = FreshHistory
    BY DEF Fresh, RoomCards, ExamGrids
  <1>2. /\ page'.items = <<>> /\ page'.nextCursor = 0 /\ page'.hasNextPage = FALSE
        /\ page'.isLoading = TRUE /\ page'.more = <<>> /\ page'.newest = HistorySize
    BY <1>1 DEF FreshHistory
  <1>3. page' \in HistoryType
    <2>1. <<>> \in Seq(Int) /\ <<>> \in Seq(Nat) /\ HistorySize \in Nat
      BY DEF HistorySize
    <2> HIDE DEF HistorySize
    <2>2. FreshHistory \in HistoryType
      BY <2>1 DEF FreshHistory, HistoryType
    <2>3. QED
      BY <1>1, <2>2
  <1>4. QED
    BY <1>2, <1>3, EmptyInOrder DEF HistoryInv

\* The first page of the list, another page after the cursor, a failure.
LEMMA HistoryInvStep == HistoryInv /\ HistoryNext => HistoryInv'
  <1> SUFFICES ASSUME HistoryInv, HistoryNext PROVE HistoryInv'
    OBVIOUS
  <1>1. ASSUME HistoryArrives PROVE HistoryInv'
    <2> DEFINE got == Listed(page.newest)
    <2>1. CASE page' = [page EXCEPT !.items = got.items, !.nextCursor = got.nextCursor,
                                    !.hasNextPage = got.hasNextPage, !.isLoading = FALSE]
      <3>1. page.newest \in Nat /\ page.more = <<>>
        BY <1>1 DEF HistoryArrives, HistoryInv, HistoryType
      <3> HIDE DEF got
      <3>2. QED
        BY <2>1, <3>1, ListedInOrder DEF HistoryInv, HistoryType, got
    <2>2. CASE page' = [page EXCEPT !.error = TRUE, !.isLoading = FALSE]
      BY <2>2 DEF HistoryInv, HistoryType
    <2>3. QED
      BY <1>1, <2>1, <2>2 DEF HistoryArrives
  <1>2. ASSUME LoadMore PROVE HistoryInv'
    <2>1. /\ page \in HistoryType /\ ~page.isLoading /\ page.more = <<>>
          /\ page.nextCursor \in Nat /\ page.nextCursor > 0
          /\ page' = [page EXCEPT !.more = Append(@, page.nextCursor), !.error = FALSE]
      BY <1>2 DEF LoadMore, CanLoadMore, HistoryInv, HistoryType
    <2>2. Append(page.more, page.nextCursor) = <<page.nextCursor>>
      BY <2>1
    <2>3. <<page.nextCursor>> \in Seq(Nat)
      BY <2>1
    <2>4. page' = [page EXCEPT !.more = <<page.nextCursor>>, !.error = FALSE]
      BY <2>1, <2>2
    <2>5. page' \in HistoryType
      BY <2>1, <2>3, <2>4 DEF HistoryType
    <2>6. /\ page'.items = page.items /\ page'.nextCursor = page.nextCursor
          /\ page'.isLoading = page.isLoading /\ page'.more = <<page.nextCursor>>
      BY <2>1, <2>4 DEF HistoryType
    <2>7. QED
      BY <2>1, <2>5, <2>6 DEF HistoryInv
  <1>3. ASSUME MoreArrives PROVE HistoryInv'
    <2>1. PICK m \in DOMAIN page.more :
            \/ LET got == Listed(page.more[m]) IN
               page' = [page EXCEPT !.items = @ \o got.items,
                                    !.nextCursor = got.nextCursor,
                                    !.hasNextPage = got.hasNextPage,
                                    !.more = RemoveAt(@, m)]
            \/ page' = [page EXCEPT !.error = TRUE, !.more = RemoveAt(@, m)]
      BY <1>3 DEF MoreArrives
    <2>2. page.more = <<page.nextCursor>> /\ page.nextCursor > 0 /\ m = 1
      BY <2>1 DEF HistoryInv, HistoryType
    <2>3. RemoveAt(page.more, m) = <<>>
      BY <2>2 DEF RemoveAt, HistoryInv, HistoryType
    <2> DEFINE got == Listed(page.nextCursor)
    <2>4. page.nextCursor \in Nat /\ page.items \in Seq(Int) /\ ~page.isLoading
      BY <2>2 DEF HistoryInv, HistoryType
    <2>5. /\ got.items \in Seq(Int) /\ got.nextCursor \in Nat
          /\ got.hasNextPage \in BOOLEAN /\ InOrder(got.items)
          /\ Len(got.items) > 0 /\ got.items[1] = page.nextCursor
          /\ got.items[Len(got.items)] = got.nextCursor + 1
      BY <2>2, <2>4, ListedInOrder
    <2> HIDE DEF got
    <2>6. CASE page' = [page EXCEPT !.items = @ \o got.items,
                                    !.nextCursor = got.nextCursor,
                                    !.hasNextPage = got.hasNextPage,
                                    !.more = RemoveAt(@, m)]
      <3>1. /\ page.items \o got.items \in Seq(Int)
            /\ InOrder(page.items \o got.items)
            /\ (page.items \o got.items)[Len(page.items \o got.items)]
                 = got.nextCursor + 1
        <4>1. InOrder(page.items) /\ (page.items # <<>> =>
                got.items[1] = page.items[Len(page.items)] - 1)
          BY <2>4, <2>5 DEF HistoryInv
        <4>2. QED
          BY <2>4, <2>5, <4>1, ConcatInOrder
      <3> DEFINE list == page.items \o got.items
      <3>2. page' = [page EXCEPT !.items = list, !.nextCursor = got.nextCursor,
                                 !.hasNextPage = got.hasNextPage, !.more = <<>>]
        BY <2>3, <2>6
      <3>3. page \in HistoryType
        BY DEF HistoryInv
      <3> HIDE DEF list
      <3>4. page' \in HistoryType
        BY <2>5, <3>1, <3>2, <3>3, EmptyInOrder DEF HistoryType, list
      <3>5. /\ page'.items = list /\ page'.nextCursor = got.nextCursor
            /\ page'.isLoading = page.isLoading /\ page'.more = <<>>
        BY <3>2, <3>3 DEF HistoryType
      <3>6. QED
        BY <2>4, <3>1, <3>4, <3>5 DEF HistoryInv, list
    <2>7. CASE page' = [page EXCEPT !.error = TRUE, !.more = RemoveAt(@, m)]
      <3>1. page' = [page EXCEPT !.error = TRUE, !.more = <<>>] /\ page \in HistoryType
        BY <2>3, <2>7 DEF HistoryInv
      <3>2. page' \in HistoryType
        BY <3>1, EmptyInOrder DEF HistoryType
      <3>3. /\ page'.items = page.items /\ page'.nextCursor = page.nextCursor
            /\ page'.isLoading = page.isLoading /\ page'.more = <<>>
        BY <3>1 DEF HistoryType
      <3>4. QED
        BY <3>2, <3>3 DEF HistoryInv
    <2>8. QED
      BY <2>1, <2>2, <2>6, <2>7 DEF got
  <1>4. ASSUME Submitted PROVE HistoryInv'
    BY <1>4 DEF Submitted, HistoryInv, HistoryType
  <1>5. QED
    BY <1>1, <1>2, <1>3, <1>4 DEF HistoryNext

\* The steps of the rest of the client.
LEMMA HistoryElsewhere ==
  ASSUME route = "history" => HistoryInv, PageKept, route' = "history" PROVE HistoryInv'
  <1>1. CASE page' = Fresh(route', props', clock)
    BY <1>1, FreshHistoryInv
  <1>2. CASE route = "history" /\ page' \in {page, UserRefreshed}
    <2>1. page' = page
      BY <1>2 DEF UserRefreshed
    <2>2. QED
      BY <1>2, <2>1 DEF HistoryInv
  <1>3. QED
    BY <1>1, <1>2 DEF PageKept

\* The page of the history keeps its invariant, whatever the client does.
LEMMA HistoryPageStep ==
  (route = "history" => HistoryInv) /\ [Next]_vars => (route = "history" => HistoryInv)'
  <1> SUFFICES ASSUME route = "history" => HistoryInv, [Next]_vars, route' = "history"
               PROVE  HistoryInv'
    OBVIOUS
  <1>1. CASE \/ ReloadStep \/ SessionNext \/ CatalogueNext \/ StrayArrives
             \/ StrayFails
    BY <1>1, PageKeptStep, HistoryElsewhere
  <1>2. CASE ProfileNext /\ ~(StrayArrives \/ StrayFails)
    <2>1. route' = "profile"
      BY <1>2 DEF ProfileNext, ProvincesArrive, WardsArrive, ProfileArrives, StartEditing,
                  EditProvince, EditWard, Save, SaveStored, SaveSucceeds, SaveFails,
                  SelectAvatar, AvatarStored, AvatarSucceeds, AvatarFails, OnProfile,
                  InPage, Stays
    <2>2. QED
      BY <2>1
  <1>3. CASE HistoryNext
    <2>1. route = "history"
      BY <1>3 DEF HistoryNext, HistoryArrives, LoadMore, MoreArrives, Submitted, OnHistory
    <2>2. QED
      BY <1>3, <2>1, HistoryInvStep
  <1>4. CASE UNCHANGED vars
    BY <1>4 DEF vars, webVars, HistoryInv
  <1>5. \/ ReloadStep \/ SessionStep \/ CatalogueNext \/ ProfileStep \/ HistoryStep
        \/ UNCHANGED vars
    BY DEF Next
  <1>6. CASE SessionStep
    BY <1>6, <1>1 DEF SessionStep
  <1>7. CASE ProfileStep
    BY <1>7, <1>1, <1>2 DEF ProfileStep
  <1>8. CASE HistoryStep
    BY <1>8, <1>3 DEF HistoryStep
  <1>9. QED
    BY <1>1, <1>4, <1>5, <1>6, <1>7, <1>8

\* The list of submitted attempts is in the order of the server, without a gap or a
\* repetition (HistoryList.tsx).
THEOREM HistoryIsInOrder == Spec => []HistoryInOrder
  <1>1. Init => (route = "history" => HistoryInv)
    BY DEF Init, SessionInit
  <1>2. (route = "history" => HistoryInv) /\ [Next]_vars
          => (route = "history" => HistoryInv)'
    BY HistoryPageStep
  <1>3. (route = "history" => HistoryInv) => HistoryInOrder
    BY DEF HistoryInv, InOrder, HistoryInOrder
  <1>4. QED
    BY <1>1, <1>2, <1>3, PTL DEF Spec

-----------------------------------------------------------------------------
(***************************************************************************)
(* The profile page: its type, and what filling the form leaves alone.     *)
(***************************************************************************)
SaveType == [values : Address, touched : SUBSET Fields, sound : BOOLEAN, valid : BOOLEAN,
             stored : BOOLEAN]
Code == {"", "p", "q"}

ProfileType ==
  [values : Address, source : {"server", "fallback"}, raced : BOOLEAN,
   touched : SUBSET Fields, isEditing : BOOLEAN, load : {<<>>} \cup (Address \X BOOLEAN),
   save : {<<>>} \cup {<<s>> : s \in SaveType},
   upload : {<<>>} \cup ({"sent", "stored", "behind"} \X Address),
   provinces : {"loading", "loaded", "failed"}, options : Code, wards : Code,
   isLocationsLoading : BOOLEAN, saved : Address, sends : Nat]

\* The codes of an address.
LEMMA ProvinceIsCode == \A v \in Address : v.province \in Code /\ v.ward \in Code
  BY DEF Address, Code

\* All but the wards, whose load the new values may begin or cancel.
SameButForm(p, q) ==
  /\ q.source = p.source /\ q.raced = p.raced /\ q.touched = p.touched
  /\ q.isEditing = p.isEditing /\ q.load = p.load /\ q.save = p.save
  /\ q.upload = p.upload /\ q.provinces = p.provinces /\ q.saved = p.saved
  /\ q.sends = p.sends

\* The form with other values is a form, with the rest of the page as it was.
LEMMA FilledType ==
  ASSUME NEW p \in ProfileType, NEW v \in Address
  PROVE  /\ Filled(p, v) \in ProfileType /\ Filled(p, v).values = v
         /\ SameButForm(p, Filled(p, v))
  <1>1. v.province \in Code
    BY ProvinceIsCode
  <1> DEFINE q == Filled(p, v)
  <1>2. \/ q = [p EXCEPT !.values = v]
        \/ q = [p EXCEPT !.values = v, !.wards = "", !.options = ""]
        \/ q = [p EXCEPT !.values = v, !.wards = v.province, !.isLocationsLoading = TRUE]
    BY DEF Filled
  <1>3. "" \in Code
    BY DEF Code
  <1> HIDE DEF q
  <1>4. q \in ProfileType
    BY <1>1, <1>2, <1>3 DEF ProfileType
  <1>5. q.values = v /\ SameButForm(p, q)
    BY <1>2 DEF ProfileType, SameButForm
  <1>6. QED
    BY <1>4, <1>5 DEF q

\* So is one replaced by an answer of the server.
LEMMA ReplacedType ==
  ASSUME NEW p \in ProfileType, NEW v \in Address, NEW late \in BOOLEAN
  PROVE  LET q == Replaced(p, v, late) IN
         /\ q \in ProfileType /\ q.values = v
         /\ q.source = "server" /\ q.touched = {} /\ q.raced = (late \/ p.save # <<>>)
         /\ q.isEditing = p.isEditing /\ q.load = p.load /\ q.save = p.save
         /\ q.upload = p.upload /\ q.provinces = p.provinces /\ q.saved = p.saved
         /\ q.sends = p.sends
  <1> DEFINE f == Filled(p, v)
             raced == late \/ p.save # <<>>
             q == [f EXCEPT !.source = "server", !.touched = {}, !.raced = raced]
  <1>1. f \in ProfileType /\ f.values = v /\ SameButForm(p, f)
    BY FilledType
  <1>2. Replaced(p, v, late) = q
    BY DEF Replaced
  <1>3. raced \in BOOLEAN
    OBVIOUS
  <1> HIDE DEF f, raced
  <1>4. q \in ProfileType
    BY <1>1, <1>3 DEF ProfileType
  <1>5. /\ q.values = v
        /\ q.source = "server" /\ q.touched = {} /\ q.raced = raced
        /\ q.isEditing = p.isEditing /\ q.load = p.load /\ q.save = p.save
        /\ q.upload = p.upload /\ q.provinces = p.provinces /\ q.saved = p.saved
        /\ q.sends = p.sends
    BY <1>1 DEF ProfileType, SameButForm
  <1> HIDE DEF q
  <1>6. QED
    BY <1>2, <1>4, <1>5 DEF raced

-----------------------------------------------------------------------------
(***************************************************************************)
(* The invariant of the page.                                              *)
(***************************************************************************)
\* A ward is one of its province; until the provinces are loaded, nothing but the
\* address first stored is anywhere.
Fits(provinces, v) ==
  v.ward \in {"", v.province} /\ (provinces = "loading" => v.province # "q")

\* In the form, on the server and in every message.
AllFit(p) ==
  /\ Fits(p.provinces, p.values) /\ Fits(p.provinces, p.saved)
  /\ p.load # <<>> => Fits(p.provinces, p.load[1])
  /\ p.upload # <<>> => Fits(p.provinces, p.upload[2])
  /\ p.save # <<>> => Fits(p.provinces, p.save[1].values)

\* The wards loaded and those offered are of the province shown.
FormFits(p) ==
  /\ p.wards \in {"", p.values.province}
  /\ ~p.isLocationsLoading \/ p.provinces = "loading" =>
       p.options \in {"", p.values.province}

\* An answer is what the server holds, or known to be older.
AnswersTell(p) ==
  /\ p.load # <<>> =>
       p.load[1] = p.saved \/ p.load[2] \/ (p.save # <<>> /\ p.save[1].stored)
  /\ p.upload # <<>> /\ p.upload[1] = "stored" => p.upload[2] = p.saved
  /\ p.save # <<>> /\ p.save[1].stored => p.saved = p.save[1].values

\* A form filled by the server and not overtaken by a save.
Sound(p) == p.source = "server" /\ ~p.raced

\* Such a form differs from what the server holds, and from a save under way, in the
\* fields that were edited only; so does a save made of it.
EditsTell(p) ==
  /\ Sound(p) => \A f \in Fields \ p.touched : p.values[f] = p.saved[f]
  /\ p.save # <<>> /\ Sound(p) =>
       /\ p.save[1].touched \subseteq p.touched
       /\ \A f \in Fields \ p.touched : p.save[1].values[f] = p.values[f]
  /\ p.save # <<>> /\ p.save[1].sound =>
       \A f \in Fields \ p.save[1].touched : p.save[1].values[f] = p.saved[f]

ProfileInv(p) ==
  p \in ProfileType /\ AllFit(p) /\ FormFits(p) /\ AnswersTell(p) /\ EditsTell(p)

\* The step stores nothing that the save under way may not change.
OnlyEdits(p, q) ==
  p.save # <<>> /\ q.save # <<>> =>
    \A f \in Fields : \/ q.saved[f] = p.saved[f]
                      \/ f \in p.save[1].touched \/ ~p.save[1].sound

\* What filling the form keeps.
LEMMA FilledFits ==
  ASSUME NEW p \in ProfileType, NEW v \in Address, FormFits(p),
         Fits(p.provinces, p.values), Fits(p.provinces, v)
  PROVE  FormFits(Filled(p, v))
  <1> DEFINE q == Filled(p, v)
  <1>1. q.values = v /\ q.provinces = p.provinces
    BY FilledType DEF SameButForm
  <1>2. /\ v.province \in Code /\ p.values.province \in Code /\ p.values \in Address
    BY ProvinceIsCode DEF ProfileType
  <1>3. CASE v.province = p.values.province /\ v.ward = p.values.ward
    <2>1. ~(v.province = "" /\ (p.values.province # "" \/ p.values.ward # ""))
      BY <1>3 DEF Fits
    <2>2. q = [p EXCEPT !.values = v]
      BY <1>3, <2>1 DEF Filled
    <2>3. q.wards = p.wards /\ q.options = p.options
          /\ q.isLocationsLoading = p.isLocationsLoading
      BY <2>2 DEF ProfileType
    <2>4. QED
      BY <1>1, <1>3, <2>3 DEF FormFits
  <1>4. CASE /\ ~(v.province = p.values.province /\ v.ward = p.values.ward)
             /\ v.province = "" /\ (p.values.province # "" \/ p.values.ward # "")
    <2>1. q = [p EXCEPT !.values = v, !.wards = "", !.options = ""]
      BY <1>4 DEF Filled
    <2>2. q.wards = "" /\ q.options = ""
      BY <2>1 DEF ProfileType
    <2>3. QED
      BY <1>1, <2>2 DEF FormFits
  <1>5. CASE /\ ~(v.province = p.values.province /\ v.ward = p.values.ward)
             /\ ~(v.province = "" /\ (p.values.province # "" \/ p.values.ward # ""))
    <2>1. q = [p EXCEPT !.values = v, !.wards = v.province, !.isLocationsLoading = TRUE]
      BY <1>5 DEF Filled
    <2>2. q.wards = v.province /\ q.options = p.options /\ q.isLocationsLoading = TRUE
      BY <2>1 DEF ProfileType
    <2>3. p.provinces = "loading" => p.options \in {"", v.province}
      BY <1>2, <1>5 DEF FormFits, Fits, Code
    <2>4. QED
      BY <1>1, <2>2, <2>3 DEF FormFits
  <1>6. QED
    BY <1>3, <1>4, <1>5

\* An answer of the server fills the form alike.
LEMMA ReplacedFits ==
  ASSUME NEW p \in ProfileType, NEW v \in Address, NEW late \in BOOLEAN, FormFits(p),
         Fits(p.provinces, p.values), Fits(p.provinces, v)
  PROVE  FormFits(Replaced(p, v, late))
  <1> DEFINE f == Filled(p, v)
             q == Replaced(p, v, late)
  <1>1. f \in ProfileType /\ FormFits(f)
    BY FilledType, FilledFits
  <1>2. /\ q.wards = f.wards /\ q.options = f.options /\ q.values = f.values
        /\ q.isLocationsLoading = f.isLocationsLoading /\ q.provinces = f.provinces
    BY <1>1 DEF Replaced, ProfileType
  <1>3. QED
    BY <1>1, <1>2 DEF FormFits

-----------------------------------------------------------------------------
(***************************************************************************)
(* Its steps.                                                              *)
(***************************************************************************)
\* What every step is shown to do.
Goal == ProfileInv(page') /\ OnlyEdits(page, page')

\* The lists of provinces and of wards; the fields are opened.
LEMMA ListSteps ==
  ASSUME ProfileInv(page) PROVE StartEditing \/ ProvincesArrive \/ WardsArrive => Goal
  <1>type. page \in ProfileType
    BY DEF ProfileInv
  <1>fits. AllFit(page)
    BY DEF ProfileInv
  <1>form. FormFits(page)
    BY DEF ProfileInv
  <1>answers. AnswersTell(page)
    BY DEF ProfileInv
  <1>edits. EditsTell(page)
    BY DEF ProfileInv
  <1>1. ASSUME StartEditing PROVE Goal
    <2>1. page' = [page EXCEPT !.isEditing = TRUE]
      BY <1>1 DEF StartEditing
    <2>2. page' \in ProfileType
      BY <2>1, <1>type DEF ProfileType
    <2>3. /\ page'.values = page.values /\ page'.source = page.source
          /\ page'.raced = page.raced /\ page'.touched = page.touched
          /\ page'.load = page.load /\ page'.save = page.save
          /\ page'.upload = page.upload /\ page'.provinces = page.provinces
          /\ page'.options = page.options /\ page'.wards = page.wards
          /\ page'.isLocationsLoading = page.isLocationsLoading
          /\ page'.saved = page.saved
      BY <2>1, <1>type DEF ProfileType
    <2>4. AllFit(page')
      BY <2>3, <1>fits DEF AllFit, Fits
    <2>5. FormFits(page')
      BY <2>3, <1>form DEF FormFits
    <2>6. AnswersTell(page')
      BY <2>3, <1>answers DEF AnswersTell
    <2>7. EditsTell(page')
      BY <2>3, <1>edits DEF EditsTell, Sound
    <2>8. OnlyEdits(page, page')
      BY <2>3, <1>answers, <1>edits DEF OnlyEdits, EditsTell, AnswersTell
    <2>9. QED
      BY <2>2, <2>4, <2>5, <2>6, <2>7, <2>8 DEF Goal, ProfileInv
  <1>2. ASSUME ProvincesArrive PROVE Goal
    <2>1. PICK s \in {"loaded", "failed"} :
            /\ page.provinces = "loading"
            /\ page' = [page EXCEPT !.provinces = s, !.isLocationsLoading = FALSE]
      BY <1>2 DEF ProvincesArrive
    <2>2. page' \in ProfileType
      BY <2>1, <1>type DEF ProfileType
    <2>3. /\ page'.values = page.values /\ page'.source = page.source
          /\ page'.raced = page.raced /\ page'.touched = page.touched
          /\ page'.load = page.load /\ page'.save = page.save
          /\ page'.upload = page.upload /\ page'.provinces = s
          /\ page'.options = page.options /\ page'.wards = page.wards
          /\ page'.isLocationsLoading = FALSE /\ page'.saved = page.saved
      BY <2>1, <1>type DEF ProfileType
    <2>4. AllFit(page')
      BY <2>3, <2>1, <1>fits DEF AllFit, Fits
    <2>5. FormFits(page')
      BY <2>3, <2>1, <1>form DEF FormFits
    <2>6. AnswersTell(page')
      BY <2>3, <1>answers DEF AnswersTell
    <2>7. EditsTell(page')
      BY <2>3, <1>edits DEF EditsTell, Sound
    <2>8. OnlyEdits(page, page')
      BY <2>3, <1>answers, <1>edits DEF OnlyEdits, EditsTell, AnswersTell
    <2>9. QED
      BY <2>2, <2>4, <2>5, <2>6, <2>7, <2>8 DEF Goal, ProfileInv
  <1>3. ASSUME WardsArrive PROVE Goal
    <2>1. /\ page.wards # "" /\ page.wards = page.values.province
          /\ page.values.ward \in {"", page.wards}
      BY <1>3, <1>type, <1>fits, <1>form, <1>answers, <1>edits
      DEF WardsArrive, FormFits, AllFit, Fits
    <2>2. PICK o \in {"", page.wards} :
            page' = [page EXCEPT !.wards = "", !.options = o,
                                 !.isLocationsLoading = FALSE]
      BY <1>3, <2>1 DEF WardsArrive
    <2>3. page' \in ProfileType
      BY <2>2, <1>type DEF ProfileType, Code
    <2>4. /\ page'.values = page.values /\ page'.source = page.source
          /\ page'.raced = page.raced /\ page'.touched = page.touched
          /\ page'.load = page.load /\ page'.save = page.save
          /\ page'.upload = page.upload /\ page'.provinces = page.provinces
          /\ page'.options = o /\ page'.wards = "" /\ page'.isLocationsLoading = FALSE
          /\ page'.saved = page.saved
      BY <2>2, <1>type DEF ProfileType
    <2>5. AllFit(page')
      BY <2>4, <1>fits DEF AllFit, Fits
    <2>6. FormFits(page')
      BY <2>4, <2>1, <2>2, <1>form DEF FormFits
    <2>7. AnswersTell(page')
      BY <2>4, <1>answers DEF AnswersTell
    <2>8. EditsTell(page')
      BY <2>4, <1>edits DEF EditsTell, Sound
    <2>9. OnlyEdits(page, page')
      BY <2>4, <1>answers, <1>edits DEF OnlyEdits, EditsTell, AnswersTell
    <2>10. QED
      BY <2>3, <2>5, <2>6, <2>7, <2>8, <2>9 DEF Goal, ProfileInv
  <1>qed. QED
    BY <1>1, <1>2, <1>3

\* Edits touch what they change.
LEMMA EditSteps ==
  ASSUME ProfileInv(page) PROVE EditProvince \/ EditWard => Goal
  <1>type. page \in ProfileType
    BY DEF ProfileInv
  <1>fits. AllFit(page)
    BY DEF ProfileInv
  <1>form. FormFits(page)
    BY DEF ProfileInv
  <1>answers. AnswersTell(page)
    BY DEF ProfileInv
  <1>edits. EditsTell(page)
    BY DEF ProfileInv
  <1>1. ASSUME EditProvince PROVE Goal
    <2> DEFINE v == [page.values EXCEPT !.province = "q", !.ward = ""]
               f == Filled(page, v)
    <2>1. page' = [f EXCEPT !.touched = @ \cup {"province", "ward"}]
      BY <1>1 DEF EditProvince
    <2>2. v \in Address /\ Fits(page.provinces, v)
      BY <1>1, <1>type, <1>fits, <1>form, <1>answers, <1>edits DEF EditProvince,
         ProfileType, Address, AllFit, FormFits, Fits, Fallback, AnswersTell
    <2> HIDE DEF v
    <2>3. f \in ProfileType /\ f.values = v /\ SameButForm(page, f) /\ FormFits(f)
      BY <1>type, <1>fits, <1>form, <1>answers, <1>edits, <2>2, FilledType, FilledFits
      DEF AllFit
    <2> HIDE DEF f
    <2>4. page' \in ProfileType
      BY <2>1, <2>3 DEF ProfileType, Fields
    <2>5. /\ page'.values = v /\ page'.source = page.source /\ page'.raced = page.raced
          /\ page'.touched = page.touched \cup {"province", "ward"}
          /\ page'.load = page.load /\ page'.save = page.save
          /\ page'.upload = page.upload /\ page'.provinces = page.provinces
          /\ page'.options = f.options /\ page'.wards = f.wards
          /\ page'.isLocationsLoading = f.isLocationsLoading /\ page'.saved = page.saved
      BY <2>1, <2>3 DEF ProfileType, SameButForm
    <2>6. AllFit(page')
      BY <1>fits, <2>2, <2>5 DEF AllFit, Fits
    <2>7. FormFits(page')
      BY <2>3, <2>5 DEF FormFits, SameButForm
    <2>8. AnswersTell(page')
      BY <1>answers, <2>2, <2>5 DEF AnswersTell
    <2>9. EditsTell(page')
      BY <1>edits, <2>2, <2>5 DEF EditsTell, Sound, Fields
    <2>10. OnlyEdits(page, page')
      BY <1>answers, <1>edits, <2>2, <2>5 DEF OnlyEdits, EditsTell, AnswersTell
    <2>11. QED
      BY <2>4, <2>6, <2>7, <2>8, <2>9, <2>10 DEF Goal, ProfileInv
  <1>2. ASSUME EditWard PROVE Goal
    <2> DEFINE v == [page.values EXCEPT !.ward = page.options]
               f == Filled(page, v)
    <2>1. page' = [f EXCEPT !.touched = @ \cup {"ward"}]
      BY <1>2 DEF EditWard
    <2>2. v \in Address /\ Fits(page.provinces, v) /\ v.province = page.values.province
      BY <1>2, <1>type, <1>fits, <1>form, <1>answers, <1>edits
      DEF EditWard, ProfileType, Address, AllFit, FormFits, Fits, Fallback, AnswersTell
    <2> HIDE DEF v
    <2>3. f \in ProfileType /\ f.values = v /\ SameButForm(page, f) /\ FormFits(f)
      BY <1>type, <1>fits, <1>form, <1>answers, <1>edits, <2>2, FilledType, FilledFits
      DEF AllFit
    <2> HIDE DEF f
    <2>4. page' \in ProfileType
      BY <2>1, <2>3 DEF ProfileType, Fields
    <2>5. /\ page'.values = v /\ page'.source = page.source /\ page'.raced = page.raced
          /\ page'.touched = page.touched \cup {"ward"} /\ page'.load = page.load
          /\ page'.save = page.save /\ page'.upload = page.upload
          /\ page'.provinces = page.provinces /\ page'.options = f.options
          /\ page'.wards = f.wards /\ page'.isLocationsLoading = f.isLocationsLoading
          /\ page'.saved = page.saved
      BY <2>1, <2>3 DEF ProfileType, SameButForm
    <2>6. AllFit(page')
      BY <1>fits, <2>2, <2>5 DEF AllFit, Fits
    <2>7. FormFits(page')
      BY <2>3, <2>5 DEF FormFits, SameButForm
    <2>8. AnswersTell(page')
      BY <1>answers, <2>2, <2>5 DEF AnswersTell
    <2>9. EditsTell(page')
      BY <1>edits, <2>2, <2>5 DEF EditsTell, Sound, Fields
    <2>10. OnlyEdits(page, page')
      BY <1>answers, <1>edits, <2>2, <2>5 DEF OnlyEdits, EditsTell, AnswersTell
    <2>11. QED
      BY <2>4, <2>6, <2>7, <2>8, <2>9, <2>10 DEF Goal, ProfileInv
  <1>qed. QED
    BY <1>1, <1>2

\* A save is made of the form, and changes what is stored as it was edited.
LEMMA SaveSteps ==
  ASSUME ProfileInv(page) PROVE Save \/ SaveStored \/ SaveSucceeds \/ SaveFails => Goal
  <1>type. page \in ProfileType
    BY DEF ProfileInv
  <1>fits. AllFit(page)
    BY DEF ProfileInv
  <1>form. FormFits(page)
    BY DEF ProfileInv
  <1>answers. AnswersTell(page)
    BY DEF ProfileInv
  <1>edits. EditsTell(page)
    BY DEF ProfileInv
  <1>1. ASSUME Save PROVE Goal
    <2> DEFINE n == page.sends + 1
               s == [values |-> page.values, touched |-> page.touched,
                      sound |-> page.source = "server" /\ ~page.raced,
                      valid |-> Named(page), stored |-> FALSE]
    <2>1. page' = [page EXCEPT !.sends = n, !.save = <<s>>]
      BY <1>1 DEF Save
    <2>2. page.save = <<>> /\ n \in Nat
      BY <1>1, <1>type DEF Save, ProfileType
    <2>3. s \in SaveType
      BY <1>type DEF SaveType, ProfileType, Named
    <2>4. /\ s.values = page.values /\ s.touched = page.touched
          /\ s.stored = FALSE /\ s.sound = Sound(page)
      BY DEF Sound
    <2> HIDE DEF s, n
    <2>5. page' \in ProfileType
      BY <1>type, <2>1, <2>2, <2>3, <2>4 DEF ProfileType
    <2>6. /\ page'.values = page.values /\ page'.source = page.source
          /\ page'.raced = page.raced /\ page'.touched = page.touched
          /\ page'.load = page.load /\ page'.save = <<s>> /\ page'.upload = page.upload
          /\ page'.provinces = page.provinces /\ page'.options = page.options
          /\ page'.wards = page.wards
          /\ page'.isLocationsLoading = page.isLocationsLoading
          /\ page'.saved = page.saved
      BY <1>type, <2>1, <2>2, <2>3, <2>4 DEF ProfileType, SameButForm
    <2>7. AllFit(page')
      BY <1>fits, <2>2, <2>3, <2>4, <2>6 DEF AllFit
    <2>8. FormFits(page')
      BY <1>form, <2>2, <2>3, <2>4, <2>6 DEF FormFits
    <2>9. AnswersTell(page')
      BY <1>answers, <2>2, <2>3, <2>4, <2>6 DEF AnswersTell
    <2>10. EditsTell(page')
      <3>1. Sound(page') = Sound(page) /\ page'.save # <<>> /\ page'.save[1] = s
        BY <2>6 DEF Sound
      <3>2. Sound(page) => \A f \in Fields \ page.touched : page.values[f] = page.saved[f]
        BY <1>edits DEF EditsTell
      <3>3. s.sound => \A f \in Fields \ s.touched : s.values[f] = page'.saved[f]
        BY <2>4, <2>6, <3>2
      <3>4. QED
        BY <2>4, <2>6, <3>1, <3>2, <3>3 DEF EditsTell
    <2>11. OnlyEdits(page, page')
      BY <1>answers, <1>edits, <2>2, <2>3, <2>4, <2>6
      DEF OnlyEdits, EditsTell, AnswersTell
    <2>12. QED
      BY <2>5, <2>7, <2>8, <2>9, <2>10, <2>11 DEF Goal, ProfileInv
  <1>2. ASSUME SaveStored PROVE Goal
    <2> DEFINE s == page.save[1]
               t == [s EXCEPT !.stored = TRUE]
               u == IF page.upload # <<>> /\ page.upload[1] = "stored"
                    THEN <<"behind", page.upload[2]>> ELSE page.upload
    <2>1. page.save = <<s>> /\ s \in SaveType
      BY <1>2, <1>type, <1>fits, <1>form, <1>answers, <1>edits DEF SaveStored, ProfileType
    <2>2. [page.save EXCEPT ![1].stored = TRUE] = <<t>>
      <3>1. [page.save EXCEPT ![1].stored = TRUE] = [page.save EXCEPT ![1] = t]
        OBVIOUS
      <3> HIDE DEF s, t
      <3>2. [<<s>> EXCEPT ![1] = t] = <<t>>
        OBVIOUS
      <3>3. QED
        BY <2>1, <3>1, <3>2
    <2>3. page' = [page EXCEPT !.saved = s.values, !.save = [@ EXCEPT ![1].stored = TRUE],
                           !.upload = u]
      BY <1>2, <2>1 DEF SaveStored
    <2>4. page' = [page EXCEPT !.saved = s.values, !.save = <<t>>, !.upload = u]
      BY <2>2, <2>3
    <2>5. /\ t \in SaveType /\ t.values = s.values /\ t.touched = s.touched
          /\ t.sound = s.sound /\ t.stored = TRUE /\ s.values \in Address
      BY <2>1 DEF SaveType
    <2>6. u \in {<<>>} \cup ({"sent", "stored", "behind"} \X Address)
          /\ (u # <<>> => /\ page.upload # <<>> /\ u[1] # "stored"
                           /\ u[2] = page.upload[2])
      BY <1>type DEF ProfileType
    <2> HIDE DEF s, t, u
    <2>7. page' \in ProfileType
      BY <1>type, <2>1, <2>4, <2>5, <2>6 DEF ProfileType
    <2>8. /\ page'.values = page.values /\ page'.source = page.source
          /\ page'.raced = page.raced /\ page'.touched = page.touched
          /\ page'.load = page.load /\ page'.save = <<t>> /\ page'.upload = u
          /\ page'.provinces = page.provinces /\ page'.options = page.options
          /\ page'.wards = page.wards
          /\ page'.isLocationsLoading = page.isLocationsLoading /\ page'.saved = s.values
      BY <1>type, <2>1, <2>4, <2>5, <2>6 DEF ProfileType, SameButForm
    <2>9. AllFit(page')
      BY <1>fits, <2>1, <2>5, <2>6, <2>8 DEF AllFit
    <2>10. FormFits(page')
      BY <1>form, <2>1, <2>5, <2>6, <2>8 DEF FormFits
    <2>11. AnswersTell(page')
      BY <1>answers, <2>1, <2>5, <2>6, <2>8 DEF AnswersTell
    <2>12. EditsTell(page')
      BY <1>edits, <2>1, <2>5, <2>6, <2>8 DEF EditsTell, Sound
    <2>13. OnlyEdits(page, page')
      BY <1>answers, <1>edits, <2>1, <2>5, <2>6, <2>8
      DEF OnlyEdits, EditsTell, AnswersTell
    <2>14. QED
      BY <2>7, <2>9, <2>10, <2>11, <2>12, <2>13 DEF Goal, ProfileInv
  <1>3. ASSUME SaveSucceeds PROVE Goal
    <2> DEFINE s == page.save[1]
               p == [page EXCEPT !.save = <<>>]
               r == Replaced(p, s.values, FALSE)
    <2>1. page.save = <<s>> /\ s \in SaveType /\ s.stored
      BY <1>3, <1>type, <1>fits, <1>form, <1>answers, <1>edits
      DEF SaveSucceeds, ProfileType
    <2>2. page' = [r EXCEPT !.isEditing = FALSE, !.load = <<page.saved, FALSE>>]
      BY <1>3, <2>1 DEF SaveSucceeds
    <2>3. page.saved = s.values /\ s.values \in Address /\ Fits(page.provinces, s.values)
      BY <1>type, <1>fits, <1>form, <1>answers, <1>edits, <2>1
      DEF SaveType, AnswersTell, AllFit
    <2> HIDE DEF s
    <2>4. /\ p \in ProfileType /\ p.save = <<>> /\ p.values = page.values
          /\ p.provinces = page.provinces /\ p.upload = page.upload /\ p.saved = page.saved
          /\ p.wards = page.wards /\ p.options = page.options
          /\ p.isLocationsLoading = page.isLocationsLoading
      BY <1>type DEF ProfileType
    <2>5. /\ FormFits(p) /\ Fits(p.provinces, p.values)
          /\ Fits(p.provinces, s.values)
      BY <1>form, <1>fits, <2>3, <2>4 DEF FormFits, AllFit
    <2> HIDE DEF p
    <2>6. FormFits(r)
      BY <2>3, <2>4, <2>5, ReplacedFits
    <2>7. /\ r \in ProfileType /\ r.values = s.values
          /\ r.source = "server" /\ r.touched = {} /\ r.raced = (FALSE \/ p.save # <<>>)
          /\ r.save = p.save /\ r.upload = p.upload /\ r.provinces = p.provinces
          /\ r.saved = p.saved
      BY <2>3, <2>4, ReplacedType
    <2> HIDE DEF r
    <2>8. page' \in ProfileType
      BY <1>type, <2>1, <2>2, <2>3, <2>4, <2>5, <2>6, <2>7 DEF ProfileType
    <2>9. /\ page'.values = s.values /\ page'.source = "server" /\ page'.raced = FALSE
          /\ page'.touched = {} /\ page'.load = <<page.saved, FALSE>> /\ page'.save = <<>>
          /\ page'.upload = page.upload /\ page'.provinces = page.provinces
          /\ page'.options = r.options /\ page'.wards = r.wards
          /\ page'.isLocationsLoading = r.isLocationsLoading /\ page'.saved = page.saved
      BY <1>type, <2>1, <2>2, <2>3, <2>4, <2>5, <2>6, <2>7 DEF ProfileType, SameButForm
    <2>10. AllFit(page')
      BY <1>fits, <2>1, <2>3, <2>4, <2>5, <2>6, <2>7, <2>9 DEF AllFit
    <2>11. FormFits(page')
      BY <1>form, <2>1, <2>3, <2>4, <2>5, <2>6, <2>7, <2>9 DEF FormFits
    <2>12. AnswersTell(page')
      BY <1>answers, <2>1, <2>3, <2>4, <2>5, <2>6, <2>7, <2>9 DEF AnswersTell
    <2>13. EditsTell(page')
      BY <1>edits, <2>1, <2>3, <2>4, <2>5, <2>6, <2>7, <2>9 DEF EditsTell, Sound
    <2>14. OnlyEdits(page, page')
      BY <1>answers, <1>edits, <2>1, <2>3, <2>4, <2>5, <2>6, <2>7, <2>9
      DEF OnlyEdits, EditsTell, AnswersTell
    <2>15. QED
      BY <2>8, <2>10, <2>11, <2>12, <2>13, <2>14 DEF Goal, ProfileInv
  <1>4. ASSUME SaveFails PROVE Goal
    <2> DEFINE s == page.save[1]
               l == IF page.load # <<>> /\ s.stored
                    THEN <<page.load[1], TRUE>> ELSE page.load
    <2>1. page.save = <<s>> /\ s \in SaveType
      BY <1>4, <1>type, <1>fits, <1>form, <1>answers, <1>edits DEF SaveFails, ProfileType
    <2>2. page' = [page EXCEPT !.save = <<>>, !.load = l]
      BY <1>4, <2>1 DEF SaveFails
    <2>3. l \in {<<>>} \cup (Address \X BOOLEAN)
      <3>1. CASE page.load # <<>> /\ s.stored
        BY <1>type, <3>1 DEF ProfileType
      <3>2. CASE ~(page.load # <<>> /\ s.stored)
        BY <1>type, <3>2 DEF ProfileType
      <3>3. QED
        BY <3>1, <3>2
    <2>4. l # <<>> => /\ page.load # <<>> /\ l[1] = page.load[1]
                      /\ l[2] \/ (~s.stored /\ l = page.load)
      <3>1. CASE page.load # <<>> /\ s.stored
        BY <3>1
      <3>2. CASE ~(page.load # <<>> /\ s.stored)
        BY <3>2
      <3>3. QED
        BY <3>1, <3>2
    <2> HIDE DEF s, l
    <2>5. page' \in ProfileType
      BY <1>type, <2>1, <2>2, <2>3, <2>4 DEF ProfileType
    <2>6. /\ page'.values = page.values /\ page'.source = page.source
          /\ page'.raced = page.raced /\ page'.touched = page.touched /\ page'.load = l
          /\ page'.save = <<>> /\ page'.upload = page.upload
          /\ page'.provinces = page.provinces /\ page'.options = page.options
          /\ page'.wards = page.wards
          /\ page'.isLocationsLoading = page.isLocationsLoading
          /\ page'.saved = page.saved
      BY <1>type, <2>1, <2>2, <2>3, <2>4 DEF ProfileType, SameButForm
    <2>7. AllFit(page')
      BY <1>fits, <2>1, <2>3, <2>4, <2>6 DEF AllFit
    <2>8. FormFits(page')
      BY <1>form, <2>1, <2>3, <2>4, <2>6 DEF FormFits
    <2>9. AnswersTell(page')
      BY <1>answers, <2>1, <2>3, <2>4, <2>6 DEF AnswersTell
    <2>10. EditsTell(page')
      BY <1>edits, <2>1, <2>3, <2>4, <2>6 DEF EditsTell, Sound
    <2>11. OnlyEdits(page, page')
      BY <1>answers, <1>edits, <2>1, <2>3, <2>4, <2>6
      DEF OnlyEdits, EditsTell, AnswersTell
    <2>12. QED
      BY <2>5, <2>7, <2>8, <2>9, <2>10, <2>11 DEF Goal, ProfileInv
  <1>qed. QED
    BY <1>1, <1>2, <1>3, <1>4

\* An upload brings the profile of the moment it was stored.
LEMMA AvatarSteps ==
  ASSUME ProfileInv(page)
  PROVE  SelectAvatar \/ AvatarStored \/ AvatarSucceeds \/ AvatarFails => Goal
  <1>type. page \in ProfileType
    BY DEF ProfileInv
  <1>fits. AllFit(page)
    BY DEF ProfileInv
  <1>form. FormFits(page)
    BY DEF ProfileInv
  <1>answers. AnswersTell(page)
    BY DEF ProfileInv
  <1>edits. EditsTell(page)
    BY DEF ProfileInv
  <1>1. ASSUME SelectAvatar PROVE Goal
    <2> DEFINE n == page.sends + 1
               u == <<"sent", page.saved>>
    <2>1. page' = [page EXCEPT !.sends = n, !.upload = u]
      BY <1>1 DEF SelectAvatar
    <2>2. n \in Nat /\ u \in {"sent", "stored", "behind"} \X Address
      BY <1>type DEF ProfileType
    <2>3. u[1] = "sent" /\ u[2] = page.saved
      OBVIOUS
    <2> HIDE DEF n, u
    <2>4. page' \in ProfileType
      BY <1>type, <2>1, <2>2, <2>3 DEF ProfileType
    <2>5. /\ page'.values = page.values /\ page'.source = page.source
          /\ page'.raced = page.raced /\ page'.touched = page.touched
          /\ page'.load = page.load /\ page'.save = page.save /\ page'.upload = u
          /\ page'.provinces = page.provinces /\ page'.options = page.options
          /\ page'.wards = page.wards
          /\ page'.isLocationsLoading = page.isLocationsLoading
          /\ page'.saved = page.saved
      BY <1>type, <2>1, <2>2, <2>3 DEF ProfileType, SameButForm
    <2>6. AllFit(page')
      BY <1>fits, <2>2, <2>3, <2>5 DEF AllFit
    <2>7. FormFits(page')
      BY <1>form, <2>2, <2>3, <2>5 DEF FormFits
    <2>8. AnswersTell(page')
      BY <1>answers, <2>2, <2>3, <2>5 DEF AnswersTell
    <2>9. EditsTell(page')
      BY <1>edits, <2>2, <2>3, <2>5 DEF EditsTell, Sound
    <2>10. OnlyEdits(page, page')
      BY <1>answers, <1>edits, <2>2, <2>3, <2>5 DEF OnlyEdits, EditsTell, AnswersTell
    <2>11. QED
      BY <2>4, <2>6, <2>7, <2>8, <2>9, <2>10 DEF Goal, ProfileInv
  <1>2. ASSUME AvatarStored PROVE Goal
    <2> DEFINE u == <<"stored", page.saved>>
    <2>1. page' = [page EXCEPT !.upload = u]
      BY <1>2 DEF AvatarStored
    <2>2. u \in {"sent", "stored", "behind"} \X Address
      BY <1>type DEF ProfileType
    <2>3. u[1] = "stored" /\ u[2] = page.saved
      OBVIOUS
    <2> HIDE DEF u
    <2>4. page' \in ProfileType
      BY <1>type, <2>1, <2>2, <2>3 DEF ProfileType
    <2>5. /\ page'.values = page.values /\ page'.source = page.source
          /\ page'.raced = page.raced /\ page'.touched = page.touched
          /\ page'.load = page.load /\ page'.save = page.save /\ page'.upload = u
          /\ page'.provinces = page.provinces /\ page'.options = page.options
          /\ page'.wards = page.wards
          /\ page'.isLocationsLoading = page.isLocationsLoading
          /\ page'.saved = page.saved
      BY <1>type, <2>1, <2>2, <2>3 DEF ProfileType, SameButForm
    <2>6. AllFit(page')
      BY <1>fits, <2>2, <2>3, <2>5 DEF AllFit
    <2>7. FormFits(page')
      BY <1>form, <2>2, <2>3, <2>5 DEF FormFits
    <2>8. AnswersTell(page')
      BY <1>answers, <2>2, <2>3, <2>5 DEF AnswersTell
    <2>9. EditsTell(page')
      BY <1>edits, <2>2, <2>3, <2>5 DEF EditsTell, Sound
    <2>10. OnlyEdits(page, page')
      BY <1>answers, <1>edits, <2>2, <2>3, <2>5 DEF OnlyEdits, EditsTell, AnswersTell
    <2>11. QED
      BY <2>4, <2>6, <2>7, <2>8, <2>9, <2>10 DEF Goal, ProfileInv
  <1>3. ASSUME AvatarSucceeds PROVE Goal
    <2> DEFINE v == page.upload[2]
               late == page.upload[1] = "behind"
               r == Replaced(page, v, late)
    <2>1. page' = [r EXCEPT !.upload = <<>>, !.load = <<page.saved, FALSE>>]
      BY <1>3 DEF AvatarSucceeds
    <2>2. page.upload # <<>> /\ page.upload[1] # "sent"
      BY <1>3 DEF AvatarSucceeds
    <2>3. /\ v \in Address /\ Fits(page.provinces, v) /\ late \in BOOLEAN
          /\ late \/ v = page.saved
      BY <1>type, <1>fits, <1>form, <1>answers, <1>edits, <2>2
      DEF ProfileType, AllFit, AnswersTell
    <2> HIDE DEF v, late
    <2>4. /\ r \in ProfileType /\ FormFits(r) /\ r.values = v
          /\ r.source = "server" /\ r.touched = {} /\ r.raced = (late \/ page.save # <<>>)
          /\ r.save = page.save /\ r.provinces = page.provinces /\ r.saved = page.saved
      BY <1>type, <1>fits, <1>form, <1>answers, <1>edits, <2>3, ReplacedType, ReplacedFits
      DEF AllFit
    <2> HIDE DEF r
    <2>5. page' \in ProfileType
      BY <1>type, <2>1, <2>2, <2>3, <2>4 DEF ProfileType
    <2>6. /\ page'.values = v /\ page'.source = "server"
          /\ page'.raced = (late \/ page.save # <<>>) /\ page'.touched = {}
          /\ page'.load = <<page.saved, FALSE>> /\ page'.save = page.save
          /\ page'.upload = <<>> /\ page'.provinces = page.provinces
          /\ page'.options = r.options /\ page'.wards = r.wards
          /\ page'.isLocationsLoading = r.isLocationsLoading /\ page'.saved = page.saved
      BY <1>type, <2>1, <2>2, <2>3, <2>4 DEF ProfileType, SameButForm
    <2>7. AllFit(page')
      BY <1>fits, <2>2, <2>3, <2>4, <2>6 DEF AllFit
    <2>8. FormFits(page')
      BY <1>form, <2>2, <2>3, <2>4, <2>6 DEF FormFits
    <2>9. AnswersTell(page')
      BY <1>answers, <2>2, <2>3, <2>4, <2>6 DEF AnswersTell
    <2>10. EditsTell(page')
      BY <1>edits, <2>2, <2>3, <2>4, <2>6 DEF EditsTell, Sound
    <2>11. OnlyEdits(page, page')
      BY <1>answers, <1>edits, <2>2, <2>3, <2>4, <2>6
      DEF OnlyEdits, EditsTell, AnswersTell
    <2>12. QED
      BY <2>5, <2>7, <2>8, <2>9, <2>10, <2>11 DEF Goal, ProfileInv
  <1>4. ASSUME AvatarFails PROVE Goal
    <2>1. page' = [page EXCEPT !.upload = <<>>]
      BY <1>4 DEF AvatarFails
    <2>2. page' \in ProfileType
      BY <1>type, <2>1 DEF ProfileType
    <2>3. /\ page'.values = page.values /\ page'.source = page.source
          /\ page'.raced = page.raced /\ page'.touched = page.touched
          /\ page'.load = page.load /\ page'.save = page.save /\ page'.upload = <<>>
          /\ page'.provinces = page.provinces /\ page'.options = page.options
          /\ page'.wards = page.wards
          /\ page'.isLocationsLoading = page.isLocationsLoading
          /\ page'.saved = page.saved
      BY <1>type, <2>1 DEF ProfileType, SameButForm
    <2>4. AllFit(page')
      BY <1>fits, <2>3 DEF AllFit
    <2>5. FormFits(page')
      BY <1>form, <2>3 DEF FormFits
    <2>6. AnswersTell(page')
      BY <1>answers, <2>3 DEF AnswersTell
    <2>7. EditsTell(page')
      BY <1>edits, <2>3 DEF EditsTell, Sound
    <2>8. OnlyEdits(page, page')
      BY <1>answers, <1>edits, <2>3 DEF OnlyEdits, EditsTell, AnswersTell
    <2>9. QED
      BY <2>2, <2>4, <2>5, <2>6, <2>7, <2>8 DEF Goal, ProfileInv
  <1>qed. QED
    BY <1>1, <1>2, <1>3, <1>4

\* A load that a save has not overtaken brings what is stored.
LEMMA LoadSteps ==
  ASSUME ProfileInv(page) PROVE ProfileArrives => Goal
  <1>type. page \in ProfileType
    BY DEF ProfileInv
  <1>fits. AllFit(page)
    BY DEF ProfileInv
  <1>form. FormFits(page)
    BY DEF ProfileInv
  <1>answers. AnswersTell(page)
    BY DEF ProfileInv
  <1>edits. EditsTell(page)
    BY DEF ProfileInv
  <1>1. ASSUME page.load # <<>>,
                page' = [Replaced(page, page.load[1], page.load[2]) EXCEPT !.load = <<>>]
         PROVE  Goal
    <2> DEFINE v == page.load[1]
               late == page.load[2]
               r == Replaced(page, v, late)
    <2>1. page' = [r EXCEPT !.load = <<>>]
      BY <1>1
    <2>2. /\ v \in Address /\ Fits(page.provinces, v) /\ late \in BOOLEAN
          /\ late \/ v = page.saved \/ page.save # <<>>
      BY <1>type, <1>fits, <1>form, <1>answers, <1>edits, <1>1
      DEF ProfileType, AllFit, AnswersTell
    <2> HIDE DEF v, late
    <2>3. /\ r \in ProfileType /\ FormFits(r) /\ r.values = v
          /\ r.source = "server" /\ r.touched = {} /\ r.raced = (late \/ page.save # <<>>)
          /\ r.save = page.save /\ r.provinces = page.provinces /\ r.saved = page.saved
          /\ r.upload = page.upload
      BY <1>type, <1>fits, <1>form, <1>answers, <1>edits, <2>2, ReplacedType, ReplacedFits
      DEF AllFit
    <2> HIDE DEF r
    <2>4. page' \in ProfileType
      BY <1>type, <2>1, <2>2, <2>3 DEF ProfileType
    <2>5. /\ page'.values = v /\ page'.source = "server"
          /\ page'.raced = (late \/ page.save # <<>>) /\ page'.touched = {}
          /\ page'.load = <<>> /\ page'.save = page.save /\ page'.upload = page.upload
          /\ page'.provinces = page.provinces /\ page'.options = r.options
          /\ page'.wards = r.wards /\ page'.isLocationsLoading = r.isLocationsLoading
          /\ page'.saved = page.saved
      BY <1>type, <2>1, <2>2, <2>3 DEF ProfileType, SameButForm
    <2>6. AllFit(page')
      BY <1>fits, <2>2, <2>3, <2>5 DEF AllFit
    <2>7. FormFits(page')
      BY <1>form, <2>2, <2>3, <2>5 DEF FormFits
    <2>8. AnswersTell(page')
      BY <1>answers, <2>2, <2>3, <2>5 DEF AnswersTell
    <2>9. EditsTell(page')
      BY <1>edits, <2>2, <2>3, <2>5 DEF EditsTell, Sound
    <2>10. OnlyEdits(page, page')
      BY <1>answers, <1>edits, <2>2, <2>3, <2>5 DEF OnlyEdits, EditsTell, AnswersTell
    <2>11. QED
      BY <2>4, <2>6, <2>7, <2>8, <2>9, <2>10 DEF Goal, ProfileInv
  <1>2. ASSUME page' = [Filled(page, Fallback) EXCEPT !.load = <<>>, !.touched = {},
                                                  !.source = "fallback"] PROVE Goal
    <2> DEFINE f == Filled(page, Fallback)
    <2>1. page' = [f EXCEPT !.load = <<>>, !.touched = {}, !.source = "fallback"]
      BY <1>2
    <2>2. Fallback \in Address /\ Fits(page.provinces, Fallback)
      BY DEF Fallback, Address, Fits
    <2>3. f \in ProfileType /\ f.values = Fallback /\ SameButForm(page, f) /\ FormFits(f)
      BY <1>type, <1>fits, <1>form, <1>answers, <1>edits, <2>2, FilledType, FilledFits
      DEF AllFit
    <2> HIDE DEF f
    <2>4. page' \in ProfileType
      BY <1>type, <2>1, <2>2, <2>3 DEF ProfileType
    <2>5. /\ page'.values = Fallback /\ page'.source = "fallback"
          /\ page'.raced = page.raced /\ page'.touched = {} /\ page'.load = <<>>
          /\ page'.save = page.save /\ page'.upload = page.upload
          /\ page'.provinces = page.provinces /\ page'.options = f.options
          /\ page'.wards = f.wards /\ page'.isLocationsLoading = f.isLocationsLoading
          /\ page'.saved = page.saved
      BY <1>type, <2>1, <2>2, <2>3 DEF ProfileType, SameButForm
    <2>6. AllFit(page')
      BY <1>fits, <2>2, <2>3, <2>5 DEF AllFit
    <2>7. FormFits(page')
      BY <1>form, <2>2, <2>3, <2>5 DEF FormFits, SameButForm
    <2>8. AnswersTell(page')
      BY <1>answers, <2>2, <2>3, <2>5 DEF AnswersTell
    <2>9. EditsTell(page')
      BY <1>edits, <2>2, <2>3, <2>5 DEF EditsTell, Sound
    <2>10. OnlyEdits(page, page')
      BY <1>answers, <1>edits, <2>2, <2>3, <2>5 DEF OnlyEdits, EditsTell, AnswersTell
    <2>11. QED
      BY <2>4, <2>6, <2>7, <2>8, <2>9, <2>10 DEF Goal, ProfileInv
  <1>qed. QED
    BY <1>1, <1>2 DEF ProfileArrives

-----------------------------------------------------------------------------
(***************************************************************************)
(* The page with the rest of the client.                                   *)
(***************************************************************************)
\* The page as it is opened.
LEMMA FreshProfileInv == ProfileInv(FreshProfile)
  <1> DEFINE q == FreshProfile
  <1>1. /\ OldAddress \in Address /\ Fallback \in Address
        /\ <<OldAddress, FALSE>> \in Address \X BOOLEAN
        /\ Fits("loading", OldAddress) /\ Fits("loading", Fallback)
    BY DEF OldAddress, Fallback, Address, Fits
  <1>2. /\ q.values = Fallback /\ q.source = "fallback" /\ q.saved = OldAddress
        /\ q.load = <<OldAddress, FALSE>> /\ q.save = <<>> /\ q.upload = <<>>
        /\ q.provinces = "loading" /\ q.wards = "" /\ q.options = ""
    BY DEF FreshProfile
  <1>3. q \in ProfileType
    BY <1>1 DEF FreshProfile, ProfileType, Code
  <1> HIDE DEF q
  <1>4. q.load[1] = OldAddress
    <2> DEFINE l == <<OldAddress, FALSE>>
    <2>1. l[1] = OldAddress
      OBVIOUS
    <2>2. q.load = l
      BY <1>2
    <2> HIDE DEF l
    <2>3. QED
      BY <2>1, <2>2
  <1>5. AllFit(q)
    BY <1>1, <1>2, <1>4 DEF AllFit
  <1>6. FormFits(q) /\ AnswersTell(q) /\ EditsTell(q)
    BY <1>2, <1>4 DEF FormFits, AnswersTell, EditsTell, Sound
  <1>7. QED
    BY <1>3, <1>5, <1>6 DEF ProfileInv, q

\* The page whose user is replaced: loadProfile runs again.
LEMMA RefreshedInv ==
  ASSUME ProfileInv(page), page' = [page EXCEPT !.load = <<page.saved, FALSE>>] PROVE Goal
  <1> DEFINE l == <<page.saved, FALSE>>
  <1>1. page \in ProfileType
    BY DEF ProfileInv
  <1>2. l \in Address \X BOOLEAN /\ l[1] = page.saved
    BY <1>1 DEF ProfileType
  <1>3. page' = [page EXCEPT !.load = l]
    OBVIOUS
  <1> HIDE DEF l
  <1>4. page' \in ProfileType
    BY <1>1, <1>2, <1>3 DEF ProfileType
  <1>5. /\ page'.values = page.values /\ page'.source = page.source
        /\ page'.raced = page.raced /\ page'.touched = page.touched /\ page'.load = l
        /\ page'.save = page.save /\ page'.upload = page.upload
        /\ page'.provinces = page.provinces /\ page'.options = page.options
        /\ page'.wards = page.wards /\ page'.isLocationsLoading = page.isLocationsLoading
        /\ page'.saved = page.saved
    BY <1>1, <1>3 DEF ProfileType
  <1>6. AllFit(page')
    BY <1>2, <1>5 DEF AllFit, ProfileInv
  <1>7. FormFits(page') /\ AnswersTell(page')
    BY <1>2, <1>5 DEF FormFits, AnswersTell, ProfileInv
  <1>8. EditsTell(page') /\ OnlyEdits(page, page')
    BY <1>5 DEF EditsTell, Sound, OnlyEdits, ProfileInv
  <1>9. QED
    BY <1>4, <1>6, <1>7, <1>8 DEF Goal, ProfileInv

\* A page kept as it is.
LEMMA SameInv == ProfileInv(page) /\ page' = page => Goal
  BY DEF Goal, OnlyEdits

\* The page keeps its invariant, whatever the client does.
LEMMA ProfilePageStep ==
  ASSUME route = "profile" => ProfileInv(page), [Next]_vars, route' = "profile"
  PROVE  ProfileInv(page') /\ (route = "profile" => OnlyEdits(page, page'))
  <1>1. CASE \/ ReloadStep \/ SessionNext \/ CatalogueNext \/ StrayArrives
             \/ StrayFails
    <2>1. \/ page' = Fresh(route', props', clock)
          \/ route' = route /\ page' \in {page, UserRefreshed}
      BY <1>1, PageKeptStep DEF PageKept
    <2>2. CASE page' = Fresh(route', props', clock)
      <3>1. page' = FreshProfile
        BY <2>2 DEF Fresh, RoomCards, ExamGrids
      <3>2. FreshProfile.save = <<>>
        BY DEF FreshProfile
      <3>3. QED
        BY <3>1, <3>2, FreshProfileInv DEF OnlyEdits
    <2>3. CASE route' = route /\ page' \in {page, UserRefreshed}
      BY <2>3, SameInv, RefreshedInv DEF UserRefreshed, Goal
    <2>4. QED
      BY <2>1, <2>2, <2>3
  <1>2. CASE ProfileNext /\ ~(StrayArrives \/ StrayFails)
    <2>1. route = "profile"
      BY <1>2 DEF ProfileNext, ProvincesArrive, WardsArrive, ProfileArrives, StartEditing,
                  EditProvince, EditWard, Save, SaveStored, SaveSucceeds, SaveFails,
                  SelectAvatar, AvatarStored, AvatarSucceeds, AvatarFails, OnProfile
    <2>2. QED
      BY <1>2, <2>1, ListSteps, EditSteps, SaveSteps, AvatarSteps, LoadSteps
      DEF ProfileNext, Goal
  <1>3. CASE HistoryNext
    BY <1>3 DEF HistoryNext, HistoryArrives, LoadMore, MoreArrives, Submitted, OnHistory,
                OnlyPage
  <1>4. CASE UNCHANGED vars
    BY <1>4, SameInv DEF vars, webVars, Goal
  <1>5. \/ ReloadStep \/ SessionStep \/ CatalogueNext \/ ProfileStep \/ HistoryStep
        \/ UNCHANGED vars
    BY DEF Next
  <1>6. CASE SessionStep
    BY <1>6, <1>1 DEF SessionStep
  <1>7. CASE ProfileStep
    BY <1>7, <1>1, <1>2 DEF ProfileStep
  <1>8. CASE HistoryStep
    BY <1>8, <1>3 DEF HistoryStep
  <1>9. QED
    BY <1>1, <1>4, <1>5, <1>6, <1>7, <1>8

\* The invariant of the page, of the specification.
LEMMA ProfileIsKept == Spec => [](route = "profile" => ProfileInv(page))
  <1>1. Init => (route = "profile" => ProfileInv(page))
    BY DEF Init, SessionInit
  <1>2. (route = "profile" => ProfileInv(page)) /\ [Next]_vars
          => (route = "profile" => ProfileInv(page))'
    BY ProfilePageStep
  <1>3. QED
    BY <1>1, <1>2, PTL DEF Spec

\* The ward that is stored is one of the province that is stored, and the wards offered
\* are those of the province shown, for any interleaving of the loads, the edits, the
\* saves and the uploads of the profile page.
THEOREM WardIsOfProvince == Spec => []WardFits
  <1>1. (route = "profile" => ProfileInv(page)) => WardFits
    BY DEF ProfileInv, AllFit, Fits, FormFits, WardFits
  <1>2. QED
    BY <1>1, ProfileIsKept, PTL

\* A save of the profile changes on the server what the user has edited and nothing
\* else, although it sends all fields (ProfilePageClient.tsx, handleSave), whatever
\* answers arrive meanwhile.
THEOREM SavesAsEdited == Spec => SaveChangesOnlyEdits
  <1>1. (route = "profile" => ProfileInv(page)) /\ [Next]_vars => SaveChangesOnlyEditsStep
    BY ProfilePageStep DEF SaveChangesOnlyEditsStep, OnlyEdits
  <1>2. QED
    BY <1>1, ProfileIsKept, PTL DEF Spec, SaveChangesOnlyEdits

=============================================================================
