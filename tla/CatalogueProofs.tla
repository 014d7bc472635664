--------------------------- MODULE CatalogueProofs ---------------------------
(***************************************************************************)
(* Proofs about WebClient: what its cards offer is the user's; its types.  *)
(***************************************************************************)
EXTENDS WebClientProofs

USE DEF webVars, serverVars, viewVars, standing, sessionVars, catalogueVars, NoUser, NoCall,
        SameServer

-----------------------------------------------------------------------------
(***************************************************************************)
(* What any step leaves of what the cards rest on.                         *)
(***************************************************************************)
Steps ==
  \/ ReloadStep \/ SessionStep \/ CatalogueNext \/ ProfileStep \/ HistoryStep

\* The server forgets neither who has joined nor who has submitted.
ServerKept == held \subseteq held' /\ done \subseteq done'

\* The server renders the page for whoever holds the cookie.
PropsKept == props' \in {props, Props(cookie), Props(cookie')}

\* The answers of a catalogue page to its own questions.
Answered == FetchCompletion \/ WindowFocus \/ CompletionArrives

\* The cards are mounted anew for another user or on another page.
CardsKept ==
  route' \in RoomCards \cup ExamGrids =>
    \/ page' = Fresh(route', props', clock)
    \/ route' = route /\ user' = user /\ page' = page
    \/ route' = route /\ user' = user /\ page' = Rerendered(props')
    \/ route' = route /\ user' = user /\ Answered

\* Access granted while the page is shown stays with the user to whom it was granted.
AccessKept ==
  /\ override' => /\ user' = user
                  /\ \/ override
                     \/ joining # <<>> /\ joining[1] = "granted" /\ joining[2] = user
  /\ joining' \in {<<>>, joining} \/ RegisterRoom
  /\ overtaken => overtaken' \/ ReloadStep

\* One step per action, here and below: joins and submissions only add to the sets.
LEMMA ServerIsKept == Steps => ServerKept
  <1> SUFFICES ASSUME Steps PROVE ServerKept
    OBVIOUS
  <1> USE DEF ServerKept
  <1>1. ASSUME ReloadStep PROVE ServerKept
    BY <1>1 DEF ReloadStep, Reload, Loaded, Entered, Middleware, Props
  <1>2. ASSUME CookieExpires, UNCHANGED catalogueVars PROVE ServerKept
    BY <1>2 DEF CookieExpires
  <1>3. ASSUME MeReplies, UNCHANGED catalogueVars PROVE ServerKept
    BY <1>3 DEF MeReplies, Known, UserRefreshed, Override
  <1>4. ASSUME RefreshLands, UNCHANGED catalogueVars PROVE ServerKept
    BY <1>4 DEF RefreshLands, Asked, Rerendered, Override, Props
  <1>5. ASSUME NEW u \in tour.users, Login(u), UNCHANGED catalogueVars PROVE ServerKept
    BY <1>5 DEF Login, Unaffected
  <1>6. ASSUME LoginSucceeds, UNCHANGED catalogueVars PROVE ServerKept
    BY <1>6 DEF LoginSucceeds, ShowAs, Unaffected, Show, Override, Entered, Middleware,
       Props
  <1>7. ASSUME LoginFails, UNCHANGED catalogueVars PROVE ServerKept
    BY <1>7 DEF LoginFails, Unaffected
  <1>8. ASSUME LoginRedirectsHome, UNCHANGED catalogueVars PROVE ServerKept
    BY <1>8 DEF LoginRedirectsHome, Go, Unaffected, ShowAs, Show, Override, Entered,
       Middleware, Props
  <1>9. ASSUME RequireAuthRedirects, UNCHANGED catalogueVars PROVE ServerKept
    BY <1>9 DEF RequireAuthRedirects, Go, Unaffected, ShowAs, Show, Override, Entered,
       Middleware, Props
  <1>10. ASSUME Register, UNCHANGED catalogueVars PROVE ServerKept
    BY <1>10 DEF Register, Unaffected
  <1>11. ASSUME RegisterSucceeds, UNCHANGED catalogueVars PROVE ServerKept
    BY <1>11 DEF RegisterSucceeds, Go, Unaffected, ShowAs, Show, Override, Entered,
       Middleware, Props
  <1>12. ASSUME Logout, UNCHANGED catalogueVars PROVE ServerKept
    BY <1>12 DEF Logout, Unaffected
  <1>13. ASSUME LogoutSucceeds, UNCHANGED catalogueVars PROVE ServerKept
    BY <1>13 DEF LogoutSucceeds, ShowAs, Unaffected, Show, Override, Entered, Middleware,
       Props
  <1>14. ASSUME SigningFails, UNCHANGED catalogueVars PROVE ServerKept
    BY <1>14 DEF SigningFails, Unaffected
  <1>15. ASSUME FollowLink, UNCHANGED catalogueVars PROVE ServerKept
    BY <1>15 DEF FollowLink, Go, Unaffected, ShowAs, Show, Override, Entered, Middleware,
       Props
  <1>16. ASSUME RegisterRoomAsGuest PROVE ServerKept
    BY <1>16 DEF RegisterRoomAsGuest, Go, NoSession, ShowAs, Show, Override, Entered,
       Middleware, Props
  <1>17. ASSUME RegisterPaidRoom PROVE ServerKept
    BY <1>17 DEF RegisterPaidRoom, Go, NoSession, ShowAs, Show, Override, Entered,
       Middleware, Props
  <1>18. ASSUME RegisterRoom PROVE ServerKept
    BY <1>18 DEF RegisterRoom, NoSession
  <1>19. ASSUME JoinSucceeds PROVE ServerKept
    BY <1>19 DEF JoinSucceeds, Show, Entered, Middleware, Props
  <1>20. ASSUME JoinNeedsPayment PROVE ServerKept
    BY <1>20 DEF JoinNeedsPayment, Go, NoSession, ShowAs, Show, Override, Entered,
       Middleware, Props
  <1>21. ASSUME JoinFails PROVE ServerKept
    BY <1>21 DEF JoinFails, NoSession
  <1>22. ASSUME OpenRoom PROVE ServerKept
    BY <1>22 DEF OpenRoom, Go, NoSession, ShowAs, Show, Override, Entered, Middleware,
       Props
  <1>23. ASSUME FetchCompletion PROVE ServerKept
    BY <1>23 DEF FetchCompletion, OnPage, NoSession
  <1>24. ASSUME WindowFocus PROVE ServerKept
    BY <1>24 DEF WindowFocus, OnPage, NoSession
  <1>25. ASSUME CompletionArrives PROVE ServerKept
    BY <1>25 DEF CompletionArrives, OnPage, NoSession
  <1>26. ASSUME OpenExam PROVE ServerKept
    BY <1>26 DEF OpenExam, Go, NoSession, ShowAs, Show, Override, Entered, Middleware,
       Props
  <1>27. ASSUME OpenRoomExam PROVE ServerKept
    BY <1>27 DEF OpenRoomExam, Go, OnPage, NoSession, ShowAs, Show, Override, Entered,
       Middleware, Props
  <1>28. ASSUME CloseRoomDialog PROVE ServerKept
    BY <1>28 DEF CloseRoomDialog, OnPage, NoSession
  <1>29. ASSUME OpenDialog PROVE ServerKept
    BY <1>29 DEF OpenDialog, OnPage, NoSession
  <1>30. ASSUME CloseDialog PROVE ServerKept
    BY <1>30 DEF CloseDialog, OnPage, NoSession
  <1>31. ASSUME StartExam PROVE ServerKept
    BY <1>31 DEF StartExam, OnPage, NoSession
  <1>32. ASSUME StartSucceeds PROVE ServerKept
    BY <1>32 DEF StartSucceeds, Go, NoSession, ShowAs, Show, Override, Entered,
       Middleware, Props
  <1>33. ASSUME StartRefused PROVE ServerKept
    BY <1>33 DEF StartRefused, OnPage, NoSession
  <1>34. ASSUME Complete PROVE ServerKept
    BY <1>34 DEF Complete, NoSession
  <1>35. ASSUME Tick PROVE ServerKept
    BY <1>35 DEF Tick, NoSession
  <1>36. ASSUME ProvincesArrive, UNCHANGED catalogueVars PROVE ServerKept
    BY <1>36 DEF ProvincesArrive, InPage, Stays
  <1>37. ASSUME WardsArrive, UNCHANGED catalogueVars PROVE ServerKept
    BY <1>37 DEF WardsArrive, InPage, Stays
  <1>38. ASSUME ProfileArrives, UNCHANGED catalogueVars PROVE ServerKept
    BY <1>38 DEF ProfileArrives, InPage, Stays
  <1>39. ASSUME StartEditing, UNCHANGED catalogueVars PROVE ServerKept
    BY <1>39 DEF StartEditing, InPage, Stays
  <1>40. ASSUME EditProvince, UNCHANGED catalogueVars PROVE ServerKept
    BY <1>40 DEF EditProvince, InPage, Stays
  <1>41. ASSUME EditWard, UNCHANGED catalogueVars PROVE ServerKept
    BY <1>41 DEF EditWard, InPage, Stays
  <1>42. ASSUME Save, UNCHANGED catalogueVars PROVE ServerKept
    BY <1>42 DEF Save, InPage, Stays
  <1>43. ASSUME SaveStored, UNCHANGED catalogueVars PROVE ServerKept
    BY <1>43 DEF SaveStored, InPage, Stays
  <1>44. ASSUME SaveSucceeds, UNCHANGED catalogueVars PROVE ServerKept
    BY <1>44 DEF SaveSucceeds, InPage, Stays
  <1>45. ASSUME SaveFails, UNCHANGED catalogueVars PROVE ServerKept
    BY <1>45 DEF SaveFails, Stays
  <1>46. ASSUME SelectAvatar, UNCHANGED catalogueVars PROVE ServerKept
    BY <1>46 DEF SelectAvatar, InPage, Stays
  <1>47. ASSUME AvatarStored, UNCHANGED catalogueVars PROVE ServerKept
    BY <1>47 DEF AvatarStored, InPage, Stays
  <1>48. ASSUME AvatarSucceeds, UNCHANGED catalogueVars PROVE ServerKept
    BY <1>48 DEF AvatarSucceeds, InPage, Stays
  <1>49. ASSUME AvatarFails, UNCHANGED catalogueVars PROVE ServerKept
    BY <1>49 DEF AvatarFails, Stays
  <1>50. ASSUME StrayArrives, UNCHANGED catalogueVars PROVE ServerKept
    BY <1>50 DEF StrayArrives, UserRefreshed, Override
  <1>51. ASSUME StrayFails, UNCHANGED catalogueVars PROVE ServerKept
    BY <1>51 DEF StrayFails
  <1>52. ASSUME HistoryArrives, UNCHANGED catalogueVars PROVE ServerKept
    BY <1>52 DEF HistoryArrives, OnlyPage
  <1>53. ASSUME LoadMore, UNCHANGED catalogueVars PROVE ServerKept
    BY <1>53 DEF LoadMore, OnlyPage
  <1>54. ASSUME MoreArrives, UNCHANGED catalogueVars PROVE ServerKept
    BY <1>54 DEF MoreArrives, OnlyPage
  <1>55. ASSUME Submitted, UNCHANGED catalogueVars PROVE ServerKept
    BY <1>55 DEF Submitted, OnlyPage
  <1>56. QED
    BY <1>1, <1>2, <1>3, <1>4, <1>5, <1>6, <1>7, <1>8, <1>9, <1>10, <1>11, <1>12, <1>13,
       <1>14, <1>15, <1>16, <1>17, <1>18, <1>19, <1>20, <1>21, <1>22, <1>23, <1>24, <1>25,
       <1>26, <1>27, <1>28, <1>29, <1>30, <1>31, <1>32, <1>33, <1>34, <1>35, <1>36, <1>37,
       <1>38, <1>39, <1>40, <1>41, <1>42, <1>43, <1>44, <1>45, <1>46, <1>47, <1>48, <1>49,
       <1>50, <1>51, <1>52, <1>53, <1>54, <1>55
    DEF Steps, SessionStep, ProfileStep, HistoryStep, SessionNext, CatalogueNext,
        ProfileNext, HistoryNext

\* Every rendering uses the cookie of before or of after the step.
LEMMA PropsAreKept == Steps => PropsKept
  <1> SUFFICES ASSUME Steps PROVE PropsKept
    OBVIOUS
  <1> USE DEF PropsKept
  <1>1. ASSUME ReloadStep PROVE PropsKept
    BY <1>1 DEF ReloadStep, Reload, Loaded, Entered, Middleware
  <1>2. ASSUME CookieExpires, UNCHANGED catalogueVars PROVE PropsKept
    BY <1>2 DEF CookieExpires
  <1>3. ASSUME MeReplies, UNCHANGED catalogueVars PROVE PropsKept
    BY <1>3 DEF MeReplies, Known, UserRefreshed, Override
  <1>4. ASSUME RefreshLands, UNCHANGED catalogueVars PROVE PropsKept
    BY <1>4 DEF RefreshLands, Asked, Rerendered, Override
  <1>5. ASSUME NEW u \in tour.users, Login(u), UNCHANGED catalogueVars PROVE PropsKept
    BY <1>5 DEF Login, Unaffected
  <1>6. ASSUME LoginSucceeds, UNCHANGED catalogueVars PROVE PropsKept
    BY <1>6 DEF LoginSucceeds, ShowAs, Unaffected, Show, Override, Entered, Middleware
  <1>7. ASSUME LoginFails, UNCHANGED catalogueVars PROVE PropsKept
    BY <1>7 DEF LoginFails, Unaffected
  <1>8. ASSUME LoginRedirectsHome, UNCHANGED catalogueVars PROVE PropsKept
    BY <1>8 DEF LoginRedirectsHome, Go, Unaffected, ShowAs, Show, Override, Entered,
       Middleware
  <1>9. ASSUME RequireAuthRedirects, UNCHANGED catalogueVars PROVE PropsKept
    BY <1>9 DEF RequireAuthRedirects, Go, Unaffected, ShowAs, Show, Override, Entered,
       Middleware
  <1>10. ASSUME Register, UNCHANGED catalogueVars PROVE PropsKept
    BY <1>10 DEF Register, Unaffected
  <1>11. ASSUME RegisterSucceeds, UNCHANGED catalogueVars PROVE PropsKept
    BY <1>11 DEF RegisterSucceeds, Go, Unaffected, ShowAs, Show, Override, Entered,
       Middleware
  <1>12. ASSUME Logout, UNCHANGED catalogueVars PROVE PropsKept
    BY <1>12 DEF Logout, Unaffected
  <1>13. ASSUME LogoutSucceeds, UNCHANGED catalogueVars PROVE PropsKept
    BY <1>13 DEF LogoutSucceeds, ShowAs, Unaffected, Show, Override, Entered, Middleware
  <1>14. ASSUME SigningFails, UNCHANGED catalogueVars PROVE PropsKept
    BY <1>14 DEF SigningFails, Unaffected
  <1>15. ASSUME FollowLink, UNCHANGED catalogueVars PROVE PropsKept
    BY <1>15 DEF FollowLink, Go, Unaffected, ShowAs, Show, Override, Entered, Middleware
  <1>16. ASSUME RegisterRoomAsGuest PROVE PropsKept
    BY <1>16 DEF RegisterRoomAsGuest, Go, NoSession, ShowAs, Show, Override, Entered,
       Middleware
  <1>17. ASSUME RegisterPaidRoom PROVE PropsKept
    BY <1>17 DEF RegisterPaidRoom, Go, NoSession, ShowAs, Show, Override, Entered,
       Middleware
  <1>18. ASSUME RegisterRoom PROVE PropsKept
    BY <1>18 DEF RegisterRoom, NoSession
  <1>19. ASSUME JoinSucceeds PROVE PropsKept
    BY <1>19 DEF JoinSucceeds, Show, Entered, Middleware
  <1>20. ASSUME JoinNeedsPayment PROVE PropsKept
    BY <1>20 DEF JoinNeedsPayment, Go, NoSession, ShowAs, Show, Override, Entered,
       Middleware
  <1>21. ASSUME JoinFails PROVE PropsKept
    BY <1>21 DEF JoinFails, NoSession
  <1>22. ASSUME OpenRoom PROVE PropsKept
    BY <1>22 DEF OpenRoom, Go, NoSession, ShowAs, Show, Override, Entered, Middleware
  <1>23. ASSUME FetchCompletion PROVE PropsKept
    BY <1>23 DEF FetchCompletion, OnPage, NoSession
  <1>24. ASSUME WindowFocus PROVE PropsKept
    BY <1>24 DEF WindowFocus, OnPage, NoSession
  <1>25. ASSUME CompletionArrives PROVE PropsKept
    BY <1>25 DEF CompletionArrives, OnPage, NoSession
  <1>26. ASSUME OpenExam PROVE PropsKept
    BY <1>26 DEF OpenExam, Go, NoSession, ShowAs, Show, Override, Entered, Middleware
  <1>27. ASSUME OpenRoomExam PROVE PropsKept
    BY <1>27 DEF OpenRoomExam, Go, OnPage, NoSession, ShowAs, Show, Override, Entered,
       Middleware
  <1>28. ASSUME CloseRoomDialog PROVE PropsKept
    BY <1>28 DEF CloseRoomDialog, OnPage, NoSession
  <1>29. ASSUME OpenDialog PROVE PropsKept
    BY <1>29 DEF OpenDialog, OnPage, NoSession
  <1>30. ASSUME CloseDialog PROVE PropsKept
    BY <1>30 DEF CloseDialog, OnPage, NoSession
  <1>31. ASSUME StartExam PROVE PropsKept
    BY <1>31 DEF StartExam, OnPage, NoSession
  <1>32. ASSUME StartSucceeds PROVE PropsKept
    BY <1>32 DEF StartSucceeds, Go, NoSession, ShowAs, Show, Override, Entered, Middleware
  <1>33. ASSUME StartRefused PROVE PropsKept
    BY <1>33 DEF StartRefused, OnPage, NoSession
  <1>34. ASSUME Complete PROVE PropsKept
    BY <1>34 DEF Complete, NoSession
  <1>35. ASSUME Tick PROVE PropsKept
    BY <1>35 DEF Tick, NoSession
  <1>36. ASSUME ProvincesArrive, UNCHANGED catalogueVars PROVE PropsKept
    BY <1>36 DEF ProvincesArrive, InPage, Stays
  <1>37. ASSUME WardsArrive, UNCHANGED catalogueVars PROVE PropsKept
    BY <1>37 DEF WardsArrive, InPage, Stays
  <1>38. ASSUME ProfileArrives, UNCHANGED catalogueVars PROVE PropsKept
    BY <1>38 DEF ProfileArrives, InPage, Stays
  <1>39. ASSUME StartEditing, UNCHANGED catalogueVars PROVE PropsKept
    BY <1>39 DEF StartEditing, InPage, Stays
  <1>40. ASSUME EditProvince, UNCHANGED catalogueVars PROVE PropsKept
    BY <1>40 DEF EditProvince, InPage, Stays
  <1>41. ASSUME EditWard, UNCHANGED catalogueVars PROVE PropsKept
    BY <1>41 DEF EditWard, InPage, Stays
  <1>42. ASSUME Save, UNCHANGED catalogueVars PROVE PropsKept
    BY <1>42 DEF Save, InPage, Stays
  <1>43. ASSUME SaveStored, UNCHANGED catalogueVars PROVE PropsKept
    BY <1>43 DEF SaveStored, InPage, Stays
  <1>44. ASSUME SaveSucceeds, UNCHANGED catalogueVars PROVE PropsKept
    BY <1>44 DEF SaveSucceeds, InPage, Stays
  <1>45. ASSUME SaveFails, UNCHANGED catalogueVars PROVE PropsKept
    BY <1>45 DEF SaveFails, Stays
  <1>46. ASSUME SelectAvatar, UNCHANGED catalogueVars PROVE PropsKept
    BY <1>46 DEF SelectAvatar, InPage, Stays
  <1>47. ASSUME AvatarStored, UNCHANGED catalogueVars PROVE PropsKept
    BY <1>47 DEF AvatarStored, InPage, Stays
  <1>48. ASSUME AvatarSucceeds, UNCHANGED catalogueVars PROVE PropsKept
    BY <1>48 DEF AvatarSucceeds, InPage, Stays
  <1>49. ASSUME AvatarFails, UNCHANGED catalogueVars PROVE PropsKept
    BY <1>49 DEF AvatarFails, Stays
  <1>50. ASSUME StrayArrives, UNCHANGED catalogueVars PROVE PropsKept
    BY <1>50 DEF StrayArrives, UserRefreshed, Override
  <1>51. ASSUME StrayFails, UNCHANGED catalogueVars PROVE PropsKept
    BY <1>51 DEF StrayFails
  <1>52. ASSUME HistoryArrives, UNCHANGED catalogueVars PROVE PropsKept
    BY <1>52 DEF HistoryArrives, OnlyPage
  <1>53. ASSUME LoadMore, UNCHANGED catalogueVars PROVE PropsKept
    BY <1>53 DEF LoadMore, OnlyPage
  <1>54. ASSUME MoreArrives, UNCHANGED catalogueVars PROVE PropsKept
    BY <1>54 DEF MoreArrives, OnlyPage
  <1>55. ASSUME Submitted, UNCHANGED catalogueVars PROVE PropsKept
    BY <1>55 DEF Submitted, OnlyPage
  <1>56. QED
    BY <1>1, <1>2, <1>3, <1>4, <1>5, <1>6, <1>7, <1>8, <1>9, <1>10, <1>11, <1>12, <1>13,
       <1>14, <1>15, <1>16, <1>17, <1>18, <1>19, <1>20, <1>21, <1>22, <1>23, <1>24, <1>25,
       <1>26, <1>27, <1>28, <1>29, <1>30, <1>31, <1>32, <1>33, <1>34, <1>35, <1>36, <1>37,
       <1>38, <1>39, <1>40, <1>41, <1>42, <1>43, <1>44, <1>45, <1>46, <1>47, <1>48, <1>49,
       <1>50, <1>51, <1>52, <1>53, <1>54, <1>55
    DEF Steps, SessionStep, ProfileStep, HistoryStep, SessionNext, CatalogueNext,
        ProfileNext, HistoryNext

\* Cards change by their own answers, by a rendering, or are mounted anew.
LEMMA CardsAreKept == Steps => CardsKept
  <1> SUFFICES ASSUME Steps PROVE CardsKept
    OBVIOUS
  <1> USE DEF CardsKept, RoomCards, ExamGrids
  <1>1. ASSUME ReloadStep PROVE CardsKept
    BY <1>1 DEF ReloadStep, Reload, Loaded, Entered, Middleware
  <1>2. ASSUME CookieExpires, UNCHANGED catalogueVars PROVE CardsKept
    BY <1>2 DEF CookieExpires
  <1>3. ASSUME MeReplies, UNCHANGED catalogueVars PROVE CardsKept
    BY <1>3 DEF MeReplies, Known, UserRefreshed, Override
  <1>4. ASSUME RefreshLands, UNCHANGED catalogueVars PROVE CardsKept
    BY <1>4 DEF RefreshLands, Asked, Override
  <1>5. ASSUME NEW u \in tour.users, Login(u), UNCHANGED catalogueVars PROVE CardsKept
    BY <1>5 DEF Login, Unaffected
  <1>6. ASSUME LoginSucceeds, UNCHANGED catalogueVars PROVE CardsKept
    BY <1>6 DEF LoginSucceeds, ShowAs, Unaffected, Show, Override, Entered, Middleware
  <1>7. ASSUME LoginFails, UNCHANGED catalogueVars PROVE CardsKept
    BY <1>7 DEF LoginFails, Unaffected
  <1>8. ASSUME LoginRedirectsHome, UNCHANGED catalogueVars PROVE CardsKept
    BY <1>8 DEF LoginRedirectsHome, Go, Unaffected, ShowAs, Show, Override, Entered,
       Middleware
  <1>9. ASSUME RequireAuthRedirects, UNCHANGED catalogueVars PROVE CardsKept
    BY <1>9 DEF RequireAuthRedirects, Go, Unaffected, ShowAs, Show, Override, Entered,
       Middleware
  <1>10. ASSUME Register, UNCHANGED catalogueVars PROVE CardsKept
    BY <1>10 DEF Register, Unaffected
  <1>11. ASSUME RegisterSucceeds, UNCHANGED catalogueVars PROVE CardsKept
    BY <1>11 DEF RegisterSucceeds, Go, Unaffected, ShowAs, Show, Override, Entered,
       Middleware
  <1>12. ASSUME Logout, UNCHANGED catalogueVars PROVE CardsKept
    BY <1>12 DEF Logout, Unaffected
  <1>13. ASSUME LogoutSucceeds, UNCHANGED catalogueVars PROVE CardsKept
    BY <1>13 DEF LogoutSucceeds, ShowAs, Unaffected, Show, Override, Entered, Middleware
  <1>14. ASSUME SigningFails, UNCHANGED catalogueVars PROVE CardsKept
    BY <1>14 DEF SigningFails, Unaffected
  <1>15. ASSUME FollowLink, UNCHANGED catalogueVars PROVE CardsKept
    BY <1>15 DEF FollowLink, Go, Unaffected, ShowAs, Show, Override, Entered, Middleware
  <1>16. ASSUME RegisterRoomAsGuest PROVE CardsKept
    BY <1>16 DEF RegisterRoomAsGuest, Go, NoSession, ShowAs, Show, Override, Entered,
       Middleware
  <1>17. ASSUME RegisterPaidRoom PROVE CardsKept
    BY <1>17 DEF RegisterPaidRoom, Go, NoSession, ShowAs, Show, Override, Entered,
       Middleware
  <1>18. ASSUME RegisterRoom PROVE CardsKept
    BY <1>18 DEF RegisterRoom, NoSession
  <1>19. ASSUME JoinSucceeds PROVE CardsKept
    BY <1>19 DEF JoinSucceeds, Show, Entered, Middleware
  <1>20. ASSUME JoinNeedsPayment PROVE CardsKept
    BY <1>20 DEF JoinNeedsPayment, Go, NoSession, ShowAs, Show, Override, Entered,
       Middleware
  <1>21. ASSUME JoinFails PROVE CardsKept
    BY <1>21 DEF JoinFails, NoSession
  <1>22. ASSUME OpenRoom PROVE CardsKept
    BY <1>22 DEF OpenRoom, Go, NoSession, ShowAs, Show, Override, Entered, Middleware
  <1>23. ASSUME FetchCompletion PROVE CardsKept
    <2>1. route' = route /\ user' = user
      BY <1>23 DEF FetchCompletion, OnPage, NoSession
    <2>2. QED
      BY <1>23, <2>1 DEF Answered
  <1>24. ASSUME WindowFocus PROVE CardsKept
    <2>1. route' = route /\ user' = user
      BY <1>24 DEF WindowFocus, OnPage, NoSession
    <2>2. QED
      BY <1>24, <2>1 DEF Answered
  <1>25. ASSUME CompletionArrives PROVE CardsKept
    <2>1. route' = route /\ user' = user
      BY <1>25 DEF CompletionArrives, OnPage, NoSession
    <2>2. QED
      BY <1>25, <2>1 DEF Answered
  <1>26. ASSUME OpenExam PROVE CardsKept
    BY <1>26 DEF OpenExam, Go, NoSession, ShowAs, Show, Override, Entered, Middleware
  <1>27. ASSUME OpenRoomExam PROVE CardsKept
    BY <1>27 DEF OpenRoomExam, Go, OnPage, NoSession, ShowAs, Show, Override, Entered,
       Middleware
  <1>28. ASSUME CloseRoomDialog PROVE CardsKept
    BY <1>28 DEF CloseRoomDialog, OnPage, NoSession
  <1>29. ASSUME OpenDialog PROVE CardsKept
    BY <1>29 DEF OpenDialog, OnPage, NoSession
  <1>30. ASSUME CloseDialog PROVE CardsKept
    BY <1>30 DEF CloseDialog, OnPage, NoSession
  <1>31. ASSUME StartExam PROVE CardsKept
    BY <1>31 DEF StartExam, OnPage, NoSession
  <1>32. ASSUME StartSucceeds PROVE CardsKept
    BY <1>32 DEF StartSucceeds, Go, NoSession, ShowAs, Show, Override, Entered, Middleware
  <1>33. ASSUME StartRefused PROVE CardsKept
    BY <1>33 DEF StartRefused, OnPage, NoSession
  <1>34. ASSUME Complete PROVE CardsKept
    BY <1>34 DEF Complete, NoSession
  <1>35. ASSUME Tick PROVE CardsKept
    BY <1>35 DEF Tick, NoSession
  <1>36. ASSUME ProvincesArrive, UNCHANGED catalogueVars PROVE CardsKept
    BY <1>36 DEF ProvincesArrive, InPage, Stays, OnProfile
  <1>37. ASSUME WardsArrive, UNCHANGED catalogueVars PROVE CardsKept
    BY <1>37 DEF WardsArrive, InPage, Stays, OnProfile
  <1>38. ASSUME ProfileArrives, UNCHANGED catalogueVars PROVE CardsKept
    BY <1>38 DEF ProfileArrives, InPage, Stays, OnProfile
  <1>39. ASSUME StartEditing, UNCHANGED catalogueVars PROVE CardsKept
    BY <1>39 DEF StartEditing, InPage, OnProfile, Stays
  <1>40. ASSUME EditProvince, UNCHANGED catalogueVars PROVE CardsKept
    BY <1>40 DEF EditProvince, InPage, OnProfile, Stays
  <1>41. ASSUME EditWard, UNCHANGED catalogueVars PROVE CardsKept
    BY <1>41 DEF EditWard, InPage, OnProfile, Stays
  <1>42. ASSUME Save, UNCHANGED catalogueVars PROVE CardsKept
    BY <1>42 DEF Save, InPage, OnProfile, Stays
  <1>43. ASSUME SaveStored, UNCHANGED catalogueVars PROVE CardsKept
    BY <1>43 DEF SaveStored, InPage, OnProfile, Stays
  <1>44. ASSUME SaveSucceeds, UNCHANGED catalogueVars PROVE CardsKept
    BY <1>44 DEF SaveSucceeds, InPage, OnProfile, Stays
  <1>45. ASSUME SaveFails, UNCHANGED catalogueVars PROVE CardsKept
    BY <1>45 DEF SaveFails, Stays, OnProfile
  <1>46. ASSUME SelectAvatar, UNCHANGED catalogueVars PROVE CardsKept
    BY <1>46 DEF SelectAvatar, InPage, OnProfile, Stays
  <1>47. ASSUME AvatarStored, UNCHANGED catalogueVars PROVE CardsKept
    BY <1>47 DEF AvatarStored, InPage, OnProfile, Stays
  <1>48. ASSUME AvatarSucceeds, UNCHANGED catalogueVars PROVE CardsKept
    BY <1>48 DEF AvatarSucceeds, InPage, OnProfile, Stays
  <1>49. ASSUME AvatarFails, UNCHANGED catalogueVars PROVE CardsKept
    BY <1>49 DEF AvatarFails, Stays, OnProfile
  <1>50. ASSUME StrayArrives, UNCHANGED catalogueVars PROVE CardsKept
    BY <1>50 DEF StrayArrives, UserRefreshed, Override
  <1>51. ASSUME StrayFails, UNCHANGED catalogueVars PROVE CardsKept
    BY <1>51 DEF StrayFails
  <1>52. ASSUME HistoryArrives, UNCHANGED catalogueVars PROVE CardsKept
    BY <1>52 DEF HistoryArrives, OnlyPage, OnHistory
  <1>53. ASSUME LoadMore, UNCHANGED catalogueVars PROVE CardsKept
    BY <1>53 DEF LoadMore, OnlyPage, OnHistory
  <1>54. ASSUME MoreArrives, UNCHANGED catalogueVars PROVE CardsKept
    BY <1>54 DEF MoreArrives, OnlyPage, OnHistory
  <1>55. ASSUME Submitted, UNCHANGED catalogueVars PROVE CardsKept
    BY <1>55 DEF Submitted, OnlyPage, OnHistory
  <1>56. QED
    BY <1>1, <1>2, <1>3, <1>4, <1>5, <1>6, <1>7, <1>8, <1>9, <1>10, <1>11, <1>12, <1>13,
       <1>14, <1>15, <1>16, <1>17, <1>18, <1>19, <1>20, <1>21, <1>22, <1>23, <1>24, <1>25,
       <1>26, <1>27, <1>28, <1>29, <1>30, <1>31, <1>32, <1>33, <1>34, <1>35, <1>36, <1>37,
       <1>38, <1>39, <1>40, <1>41, <1>42, <1>43, <1>44, <1>45, <1>46, <1>47, <1>48, <1>49,
       <1>50, <1>51, <1>52, <1>53, <1>54, <1>55
    DEF Steps, SessionStep, ProfileStep, HistoryStep, SessionNext, CatalogueNext,
        ProfileNext, HistoryNext

\* An override is set by the answer to a registration, and cleared with the user.
LEMMA AccessIsKept == Steps => AccessKept
  <1> SUFFICES ASSUME Steps PROVE AccessKept
    OBVIOUS
  <1> USE DEF AccessKept
  <1>1. ASSUME ReloadStep PROVE AccessKept
    BY <1>1 DEF ReloadStep, Reload, Loaded, Entered, Middleware, Props
  <1>2. ASSUME CookieExpires, UNCHANGED catalogueVars PROVE AccessKept
    BY <1>2 DEF CookieExpires
  <1>3. ASSUME MeReplies, UNCHANGED catalogueVars PROVE AccessKept
    BY <1>3 DEF MeReplies, Known, UserRefreshed, Override
  <1>4. ASSUME RefreshLands, UNCHANGED catalogueVars PROVE AccessKept
    BY <1>4 DEF RefreshLands, Asked, Rerendered, Override, Props
  <1>5. ASSUME NEW u \in tour.users, Login(u), UNCHANGED catalogueVars PROVE AccessKept
    BY <1>5 DEF Login, Unaffected
  <1>6. ASSUME LoginSucceeds, UNCHANGED catalogueVars PROVE AccessKept
    BY <1>6 DEF LoginSucceeds, ShowAs, Unaffected, Show, Override, Entered, Middleware,
       Props
  <1>7. ASSUME LoginFails, UNCHANGED catalogueVars PROVE AccessKept
    BY <1>7 DEF LoginFails, Unaffected
  <1>8. ASSUME LoginRedirectsHome, UNCHANGED catalogueVars PROVE AccessKept
    BY <1>8 DEF LoginRedirectsHome, Go, Unaffected, ShowAs, Show, Override, Entered,
       Middleware, Props
  <1>9. ASSUME RequireAuthRedirects, UNCHANGED catalogueVars PROVE AccessKept
    BY <1>9 DEF RequireAuthRedirects, Go, Unaffected, ShowAs, Show, Override, Entered,
       Middleware, Props
  <1>10. ASSUME Register, UNCHANGED catalogueVars PROVE AccessKept
    BY <1>10 DEF Register, Unaffected
  <1>11. ASSUME RegisterSucceeds, UNCHANGED catalogueVars PROVE AccessKept
    BY <1>11 DEF RegisterSucceeds, Go, Unaffected, ShowAs, Show, Override, Entered,
       Middleware, Props
  <1>12. ASSUME Logout, UNCHANGED catalogueVars PROVE AccessKept
    BY <1>12 DEF Logout, Unaffected
  <1>13. ASSUME LogoutSucceeds, UNCHANGED catalogueVars PROVE AccessKept
    BY <1>13 DEF LogoutSucceeds, ShowAs, Unaffected, Show, Override, Entered, Middleware,
       Props
  <1>14. ASSUME SigningFails, UNCHANGED catalogueVars PROVE AccessKept
    BY <1>14 DEF SigningFails, Unaffected
  <1>15. ASSUME FollowLink, UNCHANGED catalogueVars PROVE AccessKept
    BY <1>15 DEF FollowLink, Go, Unaffected, ShowAs, Show, Override, Entered, Middleware,
       Props
  <1>16. ASSUME RegisterRoomAsGuest PROVE AccessKept
    BY <1>16 DEF RegisterRoomAsGuest, Go, NoSession, ShowAs, Show, Override, Entered,
       Middleware, Props
  <1>17. ASSUME RegisterPaidRoom PROVE AccessKept
    BY <1>17 DEF RegisterPaidRoom, Go, NoSession, ShowAs, Show, Override, Entered,
       Middleware, Props
  <1>18. ASSUME RegisterRoom PROVE AccessKept
    BY <1>18 DEF RegisterRoom, NoSession
  <1>19. ASSUME JoinSucceeds PROVE AccessKept
    BY <1>19 DEF JoinSucceeds, Show, Entered, Middleware, Props
  <1>20. ASSUME JoinNeedsPayment PROVE AccessKept
    BY <1>20 DEF JoinNeedsPayment, Go, NoSession, ShowAs, Show, Override, Entered,
       Middleware, Props
  <1>21. ASSUME JoinFails PROVE AccessKept
    BY <1>21 DEF JoinFails, NoSession
  <1>22. ASSUME OpenRoom PROVE AccessKept
    BY <1>22 DEF OpenRoom, Go, NoSession, ShowAs, Show, Override, Entered, Middleware,
       Props
  <1>23. ASSUME FetchCompletion PROVE AccessKept
    BY <1>23 DEF FetchCompletion, OnPage, NoSession
  <1>24. ASSUME WindowFocus PROVE AccessKept
    BY <1>24 DEF WindowFocus, OnPage, NoSession
  <1>25. ASSUME CompletionArrives PROVE AccessKept
    BY <1>25 DEF CompletionArrives, OnPage, NoSession
  <1>26. ASSUME OpenExam PROVE AccessKept
    BY <1>26 DEF OpenExam, Go, NoSession, ShowAs, Show, Override, Entered, Middleware,
       Props
  <1>27. ASSUME OpenRoomExam PROVE AccessKept
    <2>1. UNCHANGED <<joining, overtaken>>
      BY <1>27 DEF OpenRoomExam, NoSession
    <2>2. user' = user /\ override' \in {override, Override(user)}
      BY <1>27 DEF OpenRoomExam, Go, OnPage, ShowAs, Show
    <2>3. QED
      BY <2>1, <2>2 DEF Override
  <1>28. ASSUME CloseRoomDialog PROVE AccessKept
    BY <1>28 DEF CloseRoomDialog, OnPage, NoSession
  <1>29. ASSUME OpenDialog PROVE AccessKept
    BY <1>29 DEF OpenDialog, OnPage, NoSession
  <1>30. ASSUME CloseDialog PROVE AccessKept
    BY <1>30 DEF CloseDialog, OnPage, NoSession
  <1>31. ASSUME StartExam PROVE AccessKept
    BY <1>31 DEF StartExam, OnPage, NoSession
  <1>32. ASSUME StartSucceeds PROVE AccessKept
    BY <1>32 DEF StartSucceeds, Go, NoSession, ShowAs, Show, Override, Entered,
       Middleware, Props
  <1>33. ASSUME StartRefused PROVE AccessKept
    BY <1>33 DEF StartRefused, OnPage, NoSession
  <1>34. ASSUME Complete PROVE AccessKept
    BY <1>34 DEF Complete, NoSession
  <1>35. ASSUME Tick PROVE AccessKept
    BY <1>35 DEF Tick, NoSession
  <1>36. ASSUME ProvincesArrive, UNCHANGED catalogueVars PROVE AccessKept
    BY <1>36 DEF ProvincesArrive, InPage, Stays
  <1>37. ASSUME WardsArrive, UNCHANGED catalogueVars PROVE AccessKept
    <2>1. UNCHANGED <<override, user, joining, overtaken>>
      BY <1>37 DEF WardsArrive, InPage, Stays
    <2>2. QED
      BY <2>1
  <1>38. ASSUME ProfileArrives, UNCHANGED catalogueVars PROVE AccessKept
    BY <1>38 DEF ProfileArrives, InPage, Stays
  <1>39. ASSUME StartEditing, UNCHANGED catalogueVars PROVE AccessKept
    BY <1>39 DEF StartEditing, InPage, Stays
  <1>40. ASSUME EditProvince, UNCHANGED catalogueVars PROVE AccessKept
    BY <1>40 DEF EditProvince, InPage, Stays
  <1>41. ASSUME EditWard, UNCHANGED catalogueVars PROVE AccessKept
    BY <1>41 DEF EditWard, InPage, Stays
  <1>42. ASSUME Save, UNCHANGED catalogueVars PROVE AccessKept
    BY <1>42 DEF Save, InPage, Stays
  <1>43. ASSUME SaveStored, UNCHANGED catalogueVars PROVE AccessKept
    BY <1>43 DEF SaveStored, InPage, Stays
  <1>44. ASSUME SaveSucceeds, UNCHANGED catalogueVars PROVE AccessKept
    BY <1>44 DEF SaveSucceeds, InPage, Stays
  <1>45. ASSUME SaveFails, UNCHANGED catalogueVars PROVE AccessKept
    BY <1>45 DEF SaveFails, Stays
  <1>46. ASSUME SelectAvatar, UNCHANGED catalogueVars PROVE AccessKept
    BY <1>46 DEF SelectAvatar, InPage, Stays
  <1>47. ASSUME AvatarStored, UNCHANGED catalogueVars PROVE AccessKept
    BY <1>47 DEF AvatarStored, InPage, Stays
  <1>48. ASSUME AvatarSucceeds, UNCHANGED catalogueVars PROVE AccessKept
    BY <1>48 DEF AvatarSucceeds, InPage, Stays
  <1>49. ASSUME AvatarFails, UNCHANGED catalogueVars PROVE AccessKept
    BY <1>49 DEF AvatarFails, Stays
  <1>50. ASSUME StrayArrives, UNCHANGED catalogueVars PROVE AccessKept
    BY <1>50 DEF StrayArrives, UserRefreshed, Override
  <1>51. ASSUME StrayFails, UNCHANGED catalogueVars PROVE AccessKept
    BY <1>51 DEF StrayFails
  <1>52. ASSUME HistoryArrives, UNCHANGED catalogueVars PROVE AccessKept
    BY <1>52 DEF HistoryArrives, OnlyPage
  <1>53. ASSUME LoadMore, UNCHANGED catalogueVars PROVE AccessKept
    BY <1>53 DEF LoadMore, OnlyPage
  <1>54. ASSUME MoreArrives, UNCHANGED catalogueVars PROVE AccessKept
    BY <1>54 DEF MoreArrives, OnlyPage
  <1>55. ASSUME Submitted, UNCHANGED catalogueVars PROVE AccessKept
    BY <1>55 DEF Submitted, OnlyPage
  <1>56. QED
    BY <1>1, <1>2, <1>3, <1>4, <1>5, <1>6, <1>7, <1>8, <1>9, <1>10, <1>11, <1>12, <1>13,
       <1>14, <1>15, <1>16, <1>17, <1>18, <1>19, <1>20, <1>21, <1>22, <1>23, <1>24, <1>25,
       <1>26, <1>27, <1>28, <1>29, <1>30, <1>31, <1>32, <1>33, <1>34, <1>35, <1>36, <1>37,
       <1>38, <1>39, <1>40, <1>41, <1>42, <1>43, <1>44, <1>45, <1>46, <1>47, <1>48, <1>49,
       <1>50, <1>51, <1>52, <1>53, <1>54, <1>55
    DEF Steps, SessionStep, ProfileStep, HistoryStep, SessionNext, CatalogueNext,
        ProfileNext, HistoryNext

-----------------------------------------------------------------------------
(***************************************************************************)
(* The invariant of the cards.                                             *)
(***************************************************************************)
Shape(p) ==
  p = [rooms |-> p.rooms, localHasAccess |-> p.localHasAccess, fetched |-> p.fetched,
       fetches |-> p.fetches, completion |-> p.completion, seen |-> p.seen]

\* What the server rendered tells the truth of the one it was rendered for.
PropsFit == props.access => props.to \in held

\* So do the cards.
CardsFit ==
  route \in RoomCards \cup ExamGrids =>
    Shape(page) /\ (page.localHasAccess => page.rooms.to \in held)

\* What the client has learnt itself, it has learnt of the user shown.
LearntFits ==
  ~overtaken =>
    /\ override => user \in held
    /\ joining # <<>> /\ joining[1] = "granted" => joining[2] \in held
    /\ route \in ExamGrids =>
         (page.completion \/ "completed" \in page.fetches => user \in done)

OffersInv == PropsFit /\ CardsFit /\ LearntFits

\* What was rendered stays true, and so is what is rendered next.
LEMMA PropsStep ==
  ASSUME PropsFit, ServerKept, PropsKept PROVE PropsFit'
  <1>1. CASE props' = props
    BY <1>1 DEF PropsFit, ServerKept
  <1>2. ASSUME NEW c, props' = Props(c) PROVE PropsFit'
    <2>1. props'.access = (c \in held) /\ props'.to = c
      BY <1>2 DEF Props
    <2>2. QED
      BY <2>1 DEF PropsFit, ServerKept
  <1>3. QED
    BY <1>1, <1>2 DEF PropsKept

\* The cards as they are mounted.
LEMMA FreshCards ==
  ASSUME route' \in RoomCards \cup ExamGrids, page' = Fresh(route', props', clock)
  PROVE  /\ Shape(page') /\ page'.rooms = props' /\ page'.localHasAccess = props'.access
         /\ page'.fetches = {} /\ page'.completion = FALSE
  <1>1. page' = FreshCatalogue(props', clock)
    BY DEF Fresh, RoomCards, ExamGrids
  <1>2. QED
    BY <1>1 DEF FreshCatalogue, Shape

\* The cards as they are rendered again.
LEMMA RerenderedCards ==
  ASSUME route \in RoomCards \cup ExamGrids, Shape(page), page' = Rerendered(props')
  PROVE  /\ Shape(page')
         /\ \/ page'.rooms = page.rooms /\ page'.localHasAccess = page.localHasAccess
            \/ page'.rooms = props' /\ page'.localHasAccess = props'.access
         /\ page'.fetches = page.fetches /\ page'.completion = page.completion
  <1>1. CASE route = "rooms"
    <2>1. page' = [page EXCEPT !.rooms = props', !.localHasAccess = props'.access]
      BY <1>1 DEF Rerendered
    <2>2. QED
      BY <2>1 DEF Shape
  <1>2. CASE route # "rooms"
    BY <1>2 DEF Rerendered, RoomCards, ExamGrids
  <1>3. QED
    BY <1>1, <1>2

\* The cards when an answer is asked for or arrives.
LEMMA AnsweredCards ==
  ASSUME Answered, Shape(page)
  PROVE  /\ Shape(page') /\ page'.rooms = page.rooms
         /\ page'.localHasAccess = page.localHasAccess
         /\ "completed" \in page'.fetches => \/ "completed" \in page.fetches
                                             \/ user # NoUser /\ cookie # NoUser
                                                /\ cookie \in done
         /\ page'.completion => page.completion \/ "completed" \in page.fetches
  <1>1. CASE FetchCompletion \/ WindowFocus
    <2>1. user # NoUser
      BY <1>1 DEF FetchCompletion, WindowFocus, CanFetchCompletion
    <2>2. \/ page' = [page EXCEPT !.fetched = TRUE, !.fetches = @ \cup {Fetch}]
          \/ page' = [page EXCEPT !.fetches = @ \cup {Fetch}]
      BY <1>1 DEF FetchCompletion, WindowFocus
    <2>3. Fetch = "completed" => cookie # NoUser /\ cookie \in done
      BY DEF Fetch
    <2>4. /\ Shape(page') /\ page'.rooms = page.rooms
          /\ page'.localHasAccess = page.localHasAccess
          /\ page'.fetches = page.fetches \cup {Fetch} /\ page'.completion = page.completion
      BY <2>2 DEF Shape
    <2>5. QED
      BY <2>1, <2>3, <2>4
  <1>2. CASE CompletionArrives
    <2>1. PICK f \in page.fetches :
            \/ page' = [page EXCEPT !.fetches = @ \ {f}, !.completion = (f = "completed"),
                                    !.seen = clock]
            \/ page' = [page EXCEPT !.fetches = @ \ {f}]
      BY <1>2 DEF CompletionArrives
    <2>2. /\ Shape(page') /\ page'.rooms = page.rooms
          /\ page'.localHasAccess = page.localHasAccess
          /\ page'.fetches = page.fetches \ {f}
          /\ page'.completion = page.completion \/ page'.completion = (f = "completed")
      BY <2>1 DEF Shape
    <2>3. QED
      BY <2>2
  <1>3. QED
    BY <1>1, <1>2 DEF Answered

\* What the cards show stays true of the one it was rendered for.
LEMMA CardsStep ==
  ASSUME CardsFit, PropsFit', ServerKept, CardsKept PROVE CardsFit'
  <1> SUFFICES ASSUME route' \in RoomCards \cup ExamGrids
               PROVE  Shape(page') /\ (page'.localHasAccess => page'.rooms.to \in held')
    BY DEF CardsFit, RoomCards, ExamGrids
  <1>1. CASE page' = Fresh(route', props', clock)
    BY <1>1, FreshCards DEF PropsFit
  <1> USE DEF CardsFit, ServerKept
  <1>2. CASE route' = route /\ page' = page
    BY <1>2
  <1>3. CASE route' = route /\ page' = Rerendered(props')
    BY <1>3, RerenderedCards DEF PropsFit
  <1>4. CASE route' = route /\ Answered
    BY <1>4, AnsweredCards
  <1>5. QED
    BY <1>1, <1>2, <1>3, <1>4 DEF CardsKept

\* Whoever may join a room or ask for what he has completed is the user shown, and the
\* holder of the cookie.
LEMMA UserHoldsCookie ==
  SessionInv /\ ~overtaken /\ user # NoUser /\ cookie # NoUser => user = cookie
  BY DEF SessionInv, Leaving

\* What the client learnt since the page was loaded is of the user it shows.
LEMMA LearntStep ==
  ASSUME SessionInv, CardsFit, LearntFits, ServerKept, CardsKept, AccessKept
  PROVE  LearntFits'
  <1> SUFFICES ASSUME ~overtaken' PROVE LearntFits'
    BY DEF LearntFits
  <1>1. CASE ReloadStep
    <2>1. override' = FALSE /\ joining' = <<>>
      BY <1>1 DEF ReloadStep, Reload, Loaded
    <2>2. route' \in ExamGrids => page' = Fresh(route', props', clock)
      BY <1>1 DEF ReloadStep, Reload, Loaded, Entered, Middleware, ExamGrids
    <2>3. route' \in ExamGrids => page'.fetches = {} /\ page'.completion = FALSE
      BY <2>2, FreshCards
    <2>4. QED
      BY <2>1, <2>3 DEF LearntFits, ExamGrids
  <1>2. CASE ~overtaken
    <2>1. override' => user' \in held'
      BY <1>2 DEF AccessKept, LearntFits, ServerKept
    <2>2. joining' # <<>> /\ joining'[1] = "granted" => joining'[2] \in held'
      <3>1. CASE joining' \in {<<>>, joining}
        BY <1>2, <3>1 DEF LearntFits, ServerKept
      <3>2. CASE RegisterRoom
        <4>1. PICK reply \in {"granted", "requires_payment", "error"} :
                /\ reply # "error" => cookie # NoUser
                /\ joining' = <<reply, user>>
                /\ held' = IF reply = "granted" THEN held \cup {cookie} ELSE held
          BY <3>2 DEF RegisterRoom
        <4>2. user # NoUser
          BY <3>2 DEF RegisterRoom
        <4>3. joining'[1] = reply /\ joining'[2] = user
          BY <4>1
        <4>4. QED
          BY <1>2, <4>1, <4>2, <4>3, UserHoldsCookie
      <3>3. QED
        BY <3>1, <3>2 DEF AccessKept
    <2>3. ASSUME route' \in ExamGrids
          PROVE  page'.completion \/ "completed" \in page'.fetches => user' \in done'
      <3>1. CASE page' = Fresh(route', props', clock)
        BY <2>3, <3>1, FreshCards
      <3> USE DEF LearntFits, CardsFit, ServerKept
      <3>2. CASE route' = route /\ user' = user /\ page' = page
        BY <1>2, <2>3, <3>2
      <3>3. CASE route' = route /\ user' = user /\ page' = Rerendered(props')
        BY <1>2, <2>3, <3>3, RerenderedCards
      <3>4. CASE route' = route /\ user' = user /\ Answered
        BY <1>2, <2>3, <3>4, AnsweredCards, UserHoldsCookie
      <3>5. QED
        BY <2>3, <3>1, <3>2, <3>3, <3>4 DEF CardsKept
    <2>4. QED
      BY <2>1, <2>2, <2>3 DEF LearntFits, ExamGrids
  <1>3. QED
    BY <1>1, <1>2 DEF AccessKept

\* What a card offers is the user's: a room is offered as joined to those with access,
\* an exam shown as completed to those who have submitted it, for any users and any
\* interleaving of logins, joins, answers and renderings.
THEOREM OffersAreOfUser == Spec => []OffersAreUsers
  <1>1. Init => OffersInv
    <2> SUFFICES ASSUME Init PROVE OffersInv
      OBVIOUS
    <2>1. props = Props(cookie) /\ page = FreshCatalogue(props, clock) /\ held = {}
          /\ override = FALSE /\ joining = <<>>
      BY DEF Init, SessionInit, CatalogueInit, Fresh, RoomCards, ExamGrids
    <2>2. props.access = (cookie \in held)
      BY <2>1 DEF Props
    <2>3. /\ Shape(page) /\ page.localHasAccess = props.access /\ page.fetches = {}
          /\ page.completion = FALSE
      BY <2>1 DEF FreshCatalogue, Shape
    <2>4. QED
      BY <2>1, <2>2, <2>3 DEF OffersInv, PropsFit, CardsFit, LearntFits
  <1>2. SessionInv /\ OffersInv /\ [Next]_vars => OffersInv'
    <2> SUFFICES ASSUME SessionInv, OffersInv, [Next]_vars PROVE OffersInv'
      OBVIOUS
    <2>1. CASE UNCHANGED vars
      BY <2>1 DEF vars, OffersInv, PropsFit, CardsFit, LearntFits, Shape
    <2>2. CASE Steps
      <3>1. ServerKept /\ PropsKept /\ CardsKept /\ AccessKept
        BY <2>2, ServerIsKept, PropsAreKept, CardsAreKept, AccessIsKept
      <3>2. QED
        BY <3>1, PropsStep, CardsStep, LearntStep DEF OffersInv
    <2>3. QED
      BY <2>1, <2>2 DEF Next, Steps
  <1>3. OffersInv => OffersAreUsers
    BY DEF OffersInv, CardsFit, LearntFits, OffersAreUsers, EffectiveHasAccess, Completed
  <1>4. QED
    BY <1>1, <1>2, <1>3, SessionIsKept, PTL DEF Spec

-----------------------------------------------------------------------------
(***************************************************************************)
(* What the variables hold.                                                *)
(***************************************************************************)
\* The assumption, spelt out.
LEMMA Bounds ==
  /\ MaxFaults \in Nat /\ User \cap {"nobody", "none"} = {}
  /\ \A t \in Tours : t.users \subseteq User
  BY WebAssumption DEF WebAssumption, NoUser, NoCall

\* Whose the cookie, the session and the replies are.
UsersFit ==
  /\ tour \in Tours
  /\ cookie \in User \cup {NoUser} /\ user \in User \cup {NoUser}
  /\ owner \in User \cup {NoUser}
  /\ me \in User \cup {NoCall} /\ stray \in User \cup {NoCall}
  /\ signing # <<>> /\ signing[1] = "login" => signing[2] \in User

\* What the page asks the server for is stored by someone.
SaverKnown ==
  route = "profile" /\ (page.save # <<>> \/ page.upload # <<>>) => user # NoUser

\* The layout waits for the user of a session only.
WaitsFit ==
  /\ isLoading \in BOOLEAN /\ override \in BOOLEAN /\ hasSession \in BOOLEAN
  /\ refreshing \in BOOLEAN /\ overtaken \in BOOLEAN
  /\ isLoading => me # NoCall

\* The server, and the faults.
ServerFits ==
  /\ held \subseteq User /\ done \subseteq User
  /\ clock \in {"before", "during", "after"} /\ faults \in 0 .. MaxFaults

LoginType == [from : Route, isSubmitting : BOOLEAN, armed : BOOLEAN]

RouteFits == route \in Route /\ (route = "login" => page \in LoginType)

Refusals == {"not_started", "ended", "completed"}
ExamType ==
  [resolvedMode : {"ready"} \cup Refusals, dialog : {"closed", "ready"} \cup Refusals,
   isStarting : BOOLEAN]

ExamFits ==
  /\ route = "exam" => page \in ExamType
  /\ starting \in {<<>>, <<"error">>, <<"started">>}
                   \cup {<<r>> : r \in Refusals}

\* One step per action, here and below: the clock and the sets of the server.
LEMMA ServerFitsStep ==
  ASSUME ServerFits, UsersFit, Steps PROVE ServerFits'
  <1> USE DEF ServerFits, UsersFit
  <1>1. ASSUME ReloadStep PROVE ServerFits'
    BY Bounds, <1>1 DEF ReloadStep, Reload, Loaded, Fault
  <1>2. ASSUME CookieExpires, UNCHANGED catalogueVars PROVE ServerFits'
    BY Bounds, <1>2 DEF CookieExpires, Fault
  <1>3. ASSUME MeReplies, UNCHANGED catalogueVars PROVE ServerFits'
    BY Bounds, <1>3 DEF MeReplies, Known, Fault
  <1>4. ASSUME RefreshLands, UNCHANGED catalogueVars PROVE ServerFits'
    BY Bounds, <1>4 DEF RefreshLands, Asked
  <1>5. ASSUME NEW u \in tour.users, Login(u), UNCHANGED catalogueVars PROVE ServerFits'
    BY Bounds, <1>5 DEF Login, Unaffected
  <1>6. ASSUME LoginSucceeds, UNCHANGED catalogueVars PROVE ServerFits'
    BY Bounds, <1>6 DEF LoginSucceeds, ShowAs, Unaffected, Show
  <1>7. ASSUME LoginFails, UNCHANGED catalogueVars PROVE ServerFits'
    BY Bounds, <1>7 DEF LoginFails, Unaffected
  <1>8. ASSUME LoginRedirectsHome, UNCHANGED catalogueVars PROVE ServerFits'
    BY Bounds, <1>8 DEF LoginRedirectsHome, Go, Unaffected, ShowAs, Show
  <1>9. ASSUME RequireAuthRedirects, UNCHANGED catalogueVars PROVE ServerFits'
    BY Bounds, <1>9 DEF RequireAuthRedirects, Go, Unaffected, ShowAs, Show
  <1>10. ASSUME Register, UNCHANGED catalogueVars PROVE ServerFits'
    BY Bounds, <1>10 DEF Register, Unaffected
  <1>11. ASSUME RegisterSucceeds, UNCHANGED catalogueVars PROVE ServerFits'
    BY Bounds, <1>11 DEF RegisterSucceeds, Go, Unaffected, ShowAs, Show
  <1>12. ASSUME Logout, UNCHANGED catalogueVars PROVE ServerFits'
    BY Bounds, <1>12 DEF Logout, Unaffected
  <1>13. ASSUME LogoutSucceeds, UNCHANGED catalogueVars PROVE ServerFits'
    BY Bounds, <1>13 DEF LogoutSucceeds, ShowAs, Unaffected, Show
  <1>14. ASSUME SigningFails, UNCHANGED catalogueVars PROVE ServerFits'
    BY Bounds, <1>14 DEF SigningFails, Unaffected
  <1>15. ASSUME FollowLink, UNCHANGED catalogueVars PROVE ServerFits'
    BY Bounds, <1>15 DEF FollowLink, Go, Unaffected, ShowAs, Show
  <1>16. ASSUME RegisterRoomAsGuest PROVE ServerFits'
    BY Bounds, <1>16 DEF RegisterRoomAsGuest, Go, NoSession, ShowAs, Show
  <1>17. ASSUME RegisterPaidRoom PROVE ServerFits'
    BY Bounds, <1>17 DEF RegisterPaidRoom, Go, NoSession, ShowAs, Show
  <1>18. ASSUME RegisterRoom PROVE ServerFits'
    BY Bounds, <1>18 DEF RegisterRoom, NoSession
  <1>19. ASSUME JoinSucceeds PROVE ServerFits'
    BY Bounds, <1>19 DEF JoinSucceeds, Show
  <1>20. ASSUME JoinNeedsPayment PROVE ServerFits'
    BY Bounds, <1>20 DEF JoinNeedsPayment, Go, NoSession, ShowAs, Show
  <1>21. ASSUME JoinFails PROVE ServerFits'
    BY Bounds, <1>21 DEF JoinFails, NoSession
  <1>22. ASSUME OpenRoom PROVE ServerFits'
    BY Bounds, <1>22 DEF OpenRoom, Go, NoSession, ShowAs, Show
  <1>23. ASSUME FetchCompletion PROVE ServerFits'
    BY Bounds, <1>23 DEF FetchCompletion, OnPage, NoSession
  <1>24. ASSUME WindowFocus PROVE ServerFits'
    BY Bounds, <1>24 DEF WindowFocus, OnPage, NoSession
  <1>25. ASSUME CompletionArrives PROVE ServerFits'
    BY Bounds, <1>25 DEF CompletionArrives, OnPage, NoSession, Fault
  <1>26. ASSUME OpenExam PROVE ServerFits'
    BY Bounds, <1>26 DEF OpenExam, Go, NoSession, ShowAs, Show
  <1>27. ASSUME OpenRoomExam PROVE ServerFits'
    BY Bounds, <1>27 DEF OpenRoomExam, Go, OnPage, NoSession, ShowAs, Show
  <1>28. ASSUME CloseRoomDialog PROVE ServerFits'
    BY Bounds, <1>28 DEF CloseRoomDialog, OnPage, NoSession
  <1>29. ASSUME OpenDialog PROVE ServerFits'
    BY Bounds, <1>29 DEF OpenDialog, OnPage, NoSession
  <1>30. ASSUME CloseDialog PROVE ServerFits'
    BY Bounds, <1>30 DEF CloseDialog, OnPage, NoSession
  <1>31. ASSUME StartExam PROVE ServerFits'
    BY Bounds, <1>31 DEF StartExam, OnPage, NoSession
  <1>32. ASSUME StartSucceeds PROVE ServerFits'
    BY Bounds, <1>32 DEF StartSucceeds, Go, NoSession, ShowAs, Show
  <1>33. ASSUME StartRefused PROVE ServerFits'
    BY Bounds, <1>33 DEF StartRefused, OnPage, NoSession
  <1>34. ASSUME Complete PROVE ServerFits'
    BY Bounds, <1>34 DEF Complete, NoSession
  <1>35. ASSUME Tick PROVE ServerFits'
    BY Bounds, <1>35 DEF Tick, NoSession
  <1>36. ASSUME ProvincesArrive, UNCHANGED catalogueVars PROVE ServerFits'
    BY Bounds, <1>36 DEF ProvincesArrive, InPage, Stays, Fault
  <1>37. ASSUME WardsArrive, UNCHANGED catalogueVars PROVE ServerFits'
    <2>1. UNCHANGED <<held, done, clock>> /\ (faults' = faults \/ Fault)
      BY <1>37 DEF WardsArrive, InPage, Stays
    <2>2. QED
      BY <2>1, Bounds DEF Fault
  <1>38. ASSUME ProfileArrives, UNCHANGED catalogueVars PROVE ServerFits'
    BY Bounds, <1>38 DEF ProfileArrives, InPage, Stays, Fault
  <1>39. ASSUME StartEditing, UNCHANGED catalogueVars PROVE ServerFits'
    BY Bounds, <1>39 DEF StartEditing, InPage, Stays
  <1>40. ASSUME EditProvince, UNCHANGED catalogueVars PROVE ServerFits'
    BY Bounds, <1>40 DEF EditProvince, InPage, Stays
  <1>41. ASSUME EditWard, UNCHANGED catalogueVars PROVE ServerFits'
    BY Bounds, <1>41 DEF EditWard, InPage, Stays
  <1>42. ASSUME Save, UNCHANGED catalogueVars PROVE ServerFits'
    BY Bounds, <1>42 DEF Save, InPage, Stays
  <1>43. ASSUME SaveStored, UNCHANGED catalogueVars PROVE ServerFits'
    BY Bounds, <1>43 DEF SaveStored, InPage, Stays
  <1>44. ASSUME SaveSucceeds, UNCHANGED catalogueVars PROVE ServerFits'
    BY Bounds, <1>44 DEF SaveSucceeds, InPage, Stays
  <1>45. ASSUME SaveFails, UNCHANGED catalogueVars PROVE ServerFits'
    BY Bounds, <1>45 DEF SaveFails, Stays, Fault
  <1>46. ASSUME SelectAvatar, UNCHANGED catalogueVars PROVE ServerFits'
    BY Bounds, <1>46 DEF SelectAvatar, InPage, Stays
  <1>47. ASSUME AvatarStored, UNCHANGED catalogueVars PROVE ServerFits'
    BY Bounds, <1>47 DEF AvatarStored, InPage, Stays
  <1>48. ASSUME AvatarSucceeds, UNCHANGED catalogueVars PROVE ServerFits'
    BY Bounds, <1>48 DEF AvatarSucceeds, InPage, Stays
  <1>49. ASSUME AvatarFails, UNCHANGED catalogueVars PROVE ServerFits'
    BY Bounds, <1>49 DEF AvatarFails, Stays, Fault
  <1>50. ASSUME StrayArrives, UNCHANGED catalogueVars PROVE ServerFits'
    BY Bounds, <1>50 DEF StrayArrives
  <1>51. ASSUME StrayFails, UNCHANGED catalogueVars PROVE ServerFits'
    BY Bounds, <1>51 DEF StrayFails
  <1>52. ASSUME HistoryArrives, UNCHANGED catalogueVars PROVE ServerFits'
    BY Bounds, <1>52 DEF HistoryArrives, OnlyPage, Fault
  <1>53. ASSUME LoadMore, UNCHANGED catalogueVars PROVE ServerFits'
    BY Bounds, <1>53 DEF LoadMore, OnlyPage
  <1>54. ASSUME MoreArrives, UNCHANGED catalogueVars PROVE ServerFits'
    BY Bounds, <1>54 DEF MoreArrives, OnlyPage, Fault
  <1>55. ASSUME Submitted, UNCHANGED catalogueVars PROVE ServerFits'
    BY Bounds, <1>55 DEF Submitted, OnlyPage
  <1>56. QED
    BY <1>1, <1>2, <1>3, <1>4, <1>5, <1>6, <1>7, <1>8, <1>9, <1>10, <1>11, <1>12, <1>13,
       <1>14, <1>15, <1>16, <1>17, <1>18, <1>19, <1>20, <1>21, <1>22, <1>23, <1>24, <1>25,
       <1>26, <1>27, <1>28, <1>29, <1>30, <1>31, <1>32, <1>33, <1>34, <1>35, <1>36, <1>37,
       <1>38, <1>39, <1>40, <1>41, <1>42, <1>43, <1>44, <1>45, <1>46, <1>47, <1>48, <1>49,
       <1>50, <1>51, <1>52, <1>53, <1>54, <1>55
    DEF Steps, SessionStep, ProfileStep, HistoryStep, SessionNext, CatalogueNext,
        ProfileNext, HistoryNext

\* The layout waits only while a request for the user is under way.
LEMMA WaitsFitStep ==
  ASSUME WaitsFit, UsersFit, Steps PROVE WaitsFit'
  <1> USE DEF WaitsFit, UsersFit
  <1>1. ASSUME ReloadStep PROVE WaitsFit'
    BY Bounds, <1>1 DEF ReloadStep, Reload, Loaded, Fault
  <1>2. ASSUME CookieExpires, UNCHANGED catalogueVars PROVE WaitsFit'
    BY Bounds, <1>2 DEF CookieExpires, Fault
  <1>3. ASSUME MeReplies, UNCHANGED catalogueVars PROVE WaitsFit'
    BY Bounds, <1>3 DEF MeReplies, Known, Fault, Override
  <1>4. ASSUME RefreshLands, UNCHANGED catalogueVars PROVE WaitsFit'
    BY Bounds, <1>4 DEF RefreshLands, Asked, Override
  <1>5. ASSUME NEW u \in tour.users, Login(u), UNCHANGED catalogueVars PROVE WaitsFit'
    BY Bounds, <1>5 DEF Login, Unaffected
  <1>6. ASSUME LoginSucceeds, UNCHANGED catalogueVars PROVE WaitsFit'
    BY Bounds, <1>6 DEF LoginSucceeds, ShowAs, Unaffected, Show, Override
  <1>7. ASSUME LoginFails, UNCHANGED catalogueVars PROVE WaitsFit'
    BY Bounds, <1>7 DEF LoginFails, Unaffected
  <1>8. ASSUME LoginRedirectsHome, UNCHANGED catalogueVars PROVE WaitsFit'
    BY Bounds, <1>8 DEF LoginRedirectsHome, Go, Unaffected, ShowAs, Show, Override
  <1>9. ASSUME RequireAuthRedirects, UNCHANGED catalogueVars PROVE WaitsFit'
    BY Bounds, <1>9 DEF RequireAuthRedirects, Go, Unaffected, ShowAs, Show, Override
  <1>10. ASSUME Register, UNCHANGED catalogueVars PROVE WaitsFit'
    BY Bounds, <1>10 DEF Register, Unaffected
  <1>11. ASSUME RegisterSucceeds, UNCHANGED catalogueVars PROVE WaitsFit'
    BY Bounds, <1>11 DEF RegisterSucceeds, Go, Unaffected, ShowAs, Show, Override
  <1>12. ASSUME Logout, UNCHANGED catalogueVars PROVE WaitsFit'
    BY Bounds, <1>12 DEF Logout, Unaffected
  <1>13. ASSUME LogoutSucceeds, UNCHANGED catalogueVars PROVE WaitsFit'
    BY Bounds, <1>13 DEF LogoutSucceeds, ShowAs, Unaffected, Show, Override
  <1>14. ASSUME SigningFails, UNCHANGED catalogueVars PROVE WaitsFit'
    BY Bounds, <1>14 DEF SigningFails, Unaffected
  <1>15. ASSUME FollowLink, UNCHANGED catalogueVars PROVE WaitsFit'
    BY Bounds, <1>15 DEF FollowLink, Go, Unaffected, ShowAs, Show, Override
  <1>16. ASSUME RegisterRoomAsGuest PROVE WaitsFit'
    BY Bounds, <1>16 DEF RegisterRoomAsGuest, Go, NoSession, ShowAs, Show, Override
  <1>17. ASSUME RegisterPaidRoom PROVE WaitsFit'
    BY Bounds, <1>17 DEF RegisterPaidRoom, Go, NoSession, ShowAs, Show, Override
  <1>18. ASSUME RegisterRoom PROVE WaitsFit'
    BY Bounds, <1>18 DEF RegisterRoom, NoSession
  <1>19. ASSUME JoinSucceeds PROVE WaitsFit'
    BY Bounds, <1>19 DEF JoinSucceeds, Show
  <1>20. ASSUME JoinNeedsPayment PROVE WaitsFit'
    BY Bounds, <1>20 DEF JoinNeedsPayment, Go, NoSession, ShowAs, Show, Override
  <1>21. ASSUME JoinFails PROVE WaitsFit'
    BY Bounds, <1>21 DEF JoinFails, NoSession
  <1>22. ASSUME OpenRoom PROVE WaitsFit'
    BY Bounds, <1>22 DEF OpenRoom, Go, NoSession, ShowAs, Show, Override
  <1>23. ASSUME FetchCompletion PROVE WaitsFit'
    BY Bounds, <1>23 DEF FetchCompletion, OnPage, NoSession
  <1>24. ASSUME WindowFocus PROVE WaitsFit'
    BY Bounds, <1>24 DEF WindowFocus, OnPage, NoSession
  <1>25. ASSUME CompletionArrives PROVE WaitsFit'
    BY Bounds, <1>25 DEF CompletionArrives, OnPage, NoSession, Fault
  <1>26. ASSUME OpenExam PROVE WaitsFit'
    BY Bounds, <1>26 DEF OpenExam, Go, NoSession, ShowAs, Show, Override
  <1>27. ASSUME OpenRoomExam PROVE WaitsFit'
    BY Bounds, <1>27 DEF OpenRoomExam, Go, OnPage, NoSession, ShowAs, Show, Override
  <1>28. ASSUME CloseRoomDialog PROVE WaitsFit'
    BY Bounds, <1>28 DEF CloseRoomDialog, OnPage, NoSession
  <1>29. ASSUME OpenDialog PROVE WaitsFit'
    BY Bounds, <1>29 DEF OpenDialog, OnPage, NoSession
  <1>30. ASSUME CloseDialog PROVE WaitsFit'
    BY Bounds, <1>30 DEF CloseDialog, OnPage, NoSession
  <1>31. ASSUME StartExam PROVE WaitsFit'
    BY Bounds, <1>31 DEF StartExam, OnPage, NoSession
  <1>32. ASSUME StartSucceeds PROVE WaitsFit'
    BY Bounds, <1>32 DEF StartSucceeds, Go, NoSession, ShowAs, Show, Override
  <1>33. ASSUME StartRefused PROVE WaitsFit'
    BY Bounds, <1>33 DEF StartRefused, OnPage, NoSession
  <1>34. ASSUME Complete PROVE WaitsFit'
    BY Bounds, <1>34 DEF Complete, NoSession
  <1>35. ASSUME Tick PROVE WaitsFit'
    BY Bounds, <1>35 DEF Tick, NoSession
  <1>36. ASSUME ProvincesArrive, UNCHANGED catalogueVars PROVE WaitsFit'
    BY Bounds, <1>36 DEF ProvincesArrive, InPage, Stays, Fault
  <1>37. ASSUME WardsArrive, UNCHANGED catalogueVars PROVE WaitsFit'
    <2>1. UNCHANGED <<isLoading, override, sessionVars>>
      BY <1>37 DEF WardsArrive, InPage, Stays
    <2>2. QED
      BY <2>1
  <1>38. ASSUME ProfileArrives, UNCHANGED catalogueVars PROVE WaitsFit'
    BY Bounds, <1>38 DEF ProfileArrives, InPage, Stays, Fault
  <1>39. ASSUME StartEditing, UNCHANGED catalogueVars PROVE WaitsFit'
    BY Bounds, <1>39 DEF StartEditing, InPage, Stays
  <1>40. ASSUME EditProvince, UNCHANGED catalogueVars PROVE WaitsFit'
    BY Bounds, <1>40 DEF EditProvince, InPage, Stays
  <1>41. ASSUME EditWard, UNCHANGED catalogueVars PROVE WaitsFit'
    BY Bounds, <1>41 DEF EditWard, InPage, Stays
  <1>42. ASSUME Save, UNCHANGED catalogueVars PROVE WaitsFit'
    BY Bounds, <1>42 DEF Save, InPage, Stays
  <1>43. ASSUME SaveStored, UNCHANGED catalogueVars PROVE WaitsFit'
    BY Bounds, <1>43 DEF SaveStored, InPage, Stays
  <1>44. ASSUME SaveSucceeds, UNCHANGED catalogueVars PROVE WaitsFit'
    BY Bounds, <1>44 DEF SaveSucceeds, InPage, Stays
  <1>45. ASSUME SaveFails, UNCHANGED catalogueVars PROVE WaitsFit'
    BY Bounds, <1>45 DEF SaveFails, Stays, Fault
  <1>46. ASSUME SelectAvatar, UNCHANGED catalogueVars PROVE WaitsFit'
    BY Bounds, <1>46 DEF SelectAvatar, InPage, Stays
  <1>47. ASSUME AvatarStored, UNCHANGED catalogueVars PROVE WaitsFit'
    BY Bounds, <1>47 DEF AvatarStored, InPage, Stays
  <1>48. ASSUME AvatarSucceeds, UNCHANGED catalogueVars PROVE WaitsFit'
    BY Bounds, <1>48 DEF AvatarSucceeds, InPage, Stays
  <1>49. ASSUME AvatarFails, UNCHANGED catalogueVars PROVE WaitsFit'
    BY Bounds, <1>49 DEF AvatarFails, Stays, Fault
  <1>50. ASSUME StrayArrives, UNCHANGED catalogueVars PROVE WaitsFit'
    BY Bounds, <1>50 DEF StrayArrives, Override
  <1>51. ASSUME StrayFails, UNCHANGED catalogueVars PROVE WaitsFit'
    BY Bounds, <1>51 DEF StrayFails
  <1>52. ASSUME HistoryArrives, UNCHANGED catalogueVars PROVE WaitsFit'
    BY Bounds, <1>52 DEF HistoryArrives, OnlyPage, Fault
  <1>53. ASSUME LoadMore, UNCHANGED catalogueVars PROVE WaitsFit'
    BY Bounds, <1>53 DEF LoadMore, OnlyPage
  <1>54. ASSUME MoreArrives, UNCHANGED catalogueVars PROVE WaitsFit'
    BY Bounds, <1>54 DEF MoreArrives, OnlyPage, Fault
  <1>55. ASSUME Submitted, UNCHANGED catalogueVars PROVE WaitsFit'
    BY Bounds, <1>55 DEF Submitted, OnlyPage
  <1>56. QED
    BY <1>1, <1>2, <1>3, <1>4, <1>5, <1>6, <1>7, <1>8, <1>9, <1>10, <1>11, <1>12, <1>13,
       <1>14, <1>15, <1>16, <1>17, <1>18, <1>19, <1>20, <1>21, <1>22, <1>23, <1>24, <1>25,
       <1>26, <1>27, <1>28, <1>29, <1>30, <1>31, <1>32, <1>33, <1>34, <1>35, <1>36, <1>37,
       <1>38, <1>39, <1>40, <1>41, <1>42, <1>43, <1>44, <1>45, <1>46, <1>47, <1>48, <1>49,
       <1>50, <1>51, <1>52, <1>53, <1>54, <1>55
    DEF Steps, SessionStep, ProfileStep, HistoryStep, SessionNext, CatalogueNext,
        ProfileNext, HistoryNext

\* Cookie, user and replies are replaced by one another, or by whoever logs in.
LEMMA UsersFitStep ==
  ASSUME UsersFit, SaverKnown, Steps PROVE UsersFit'
  <1> USE DEF UsersFit, SaverKnown
  <1>1. ASSUME ReloadStep PROVE UsersFit'
    BY Bounds, <1>1 DEF ReloadStep, Reload, Loaded
  <1>2. ASSUME CookieExpires, UNCHANGED catalogueVars PROVE UsersFit'
    BY Bounds, <1>2 DEF CookieExpires
  <1>3. ASSUME MeReplies, UNCHANGED catalogueVars PROVE UsersFit'
    BY Bounds, <1>3 DEF MeReplies, Known, Unanswered
  <1>4. ASSUME RefreshLands, UNCHANGED catalogueVars PROVE UsersFit'
    BY Bounds, <1>4 DEF RefreshLands, Asked, Unanswered
  <1>5. ASSUME NEW u \in tour.users, Login(u), UNCHANGED catalogueVars PROVE UsersFit'
    BY Bounds, <1>5 DEF Login, Unaffected
  <1>6. ASSUME LoginSucceeds, UNCHANGED catalogueVars PROVE UsersFit'
    <2>1. /\ cookie' = signing[2] /\ owner' = signing[2]
          /\ signing # <<>> /\ signing[1] = "login" /\ signing' = <<>>
          /\ UNCHANGED <<tour, me>>
      <3>1. cookie' = signing[2] /\ owner' = signing[2] /\ signing' = <<>>
        BY <1>6 DEF LoginSucceeds
      <3>2. signing # <<>> /\ signing[1] = "login"
        BY <1>6 DEF LoginSucceeds, Signing
      <3>3. UNCHANGED <<tour, me>>
        BY <1>6 DEF LoginSucceeds, Unaffected
      <3>4. QED
        BY <3>1, <3>2, <3>3
    <2>2. user' = signing[2] /\ (stray' = stray \/ (Unanswered /\ stray' = user))
      BY <1>6 DEF LoginSucceeds, ShowAs, Show
    <2>3. QED
      BY <2>1, <2>2 DEF Unanswered
  <1>7. ASSUME LoginFails, UNCHANGED catalogueVars PROVE UsersFit'
    BY Bounds, <1>7 DEF LoginFails, Unaffected
  <1>8. ASSUME LoginRedirectsHome, UNCHANGED catalogueVars PROVE UsersFit'
    BY Bounds, <1>8 DEF LoginRedirectsHome, Go, Unaffected, ShowAs, Show, Unanswered
  <1>9. ASSUME RequireAuthRedirects, UNCHANGED catalogueVars PROVE UsersFit'
    BY Bounds, <1>9 DEF RequireAuthRedirects, Go, Unaffected, ShowAs, Show, Unanswered
  <1>10. ASSUME Register, UNCHANGED catalogueVars PROVE UsersFit'
    BY Bounds, <1>10 DEF Register, Unaffected
  <1>11. ASSUME RegisterSucceeds, UNCHANGED catalogueVars PROVE UsersFit'
    BY Bounds, <1>11 DEF RegisterSucceeds, Go, Unaffected, ShowAs, Show, Unanswered
  <1>12. ASSUME Logout, UNCHANGED catalogueVars PROVE UsersFit'
    BY Bounds, <1>12 DEF Logout, Unaffected
  <1>13. ASSUME LogoutSucceeds, UNCHANGED catalogueVars PROVE UsersFit'
    BY Bounds, <1>13 DEF LogoutSucceeds, ShowAs, Unaffected, Show, Unanswered
  <1>14. ASSUME SigningFails, UNCHANGED catalogueVars PROVE UsersFit'
    BY Bounds, <1>14 DEF SigningFails, Unaffected
  <1>15. ASSUME FollowLink, UNCHANGED catalogueVars PROVE UsersFit'
    BY Bounds, <1>15 DEF FollowLink, Go, Unaffected, ShowAs, Show, Unanswered
  <1>16. ASSUME RegisterRoomAsGuest PROVE UsersFit'
    BY Bounds, <1>16 DEF RegisterRoomAsGuest, Go, NoSession, ShowAs, Show, Unanswered
  <1>17. ASSUME RegisterPaidRoom PROVE UsersFit'
    BY Bounds, <1>17 DEF RegisterPaidRoom, Go, NoSession, ShowAs, Show, Unanswered
  <1>18. ASSUME RegisterRoom PROVE UsersFit'
    BY Bounds, <1>18 DEF RegisterRoom, NoSession
  <1>19. ASSUME JoinSucceeds PROVE UsersFit'
    BY Bounds, <1>19 DEF JoinSucceeds, Show, Unanswered
  <1>20. ASSUME JoinNeedsPayment PROVE UsersFit'
    BY Bounds, <1>20 DEF JoinNeedsPayment, Go, NoSession, ShowAs, Show, Unanswered
  <1>21. ASSUME JoinFails PROVE UsersFit'
    BY Bounds, <1>21 DEF JoinFails, NoSession
  <1>22. ASSUME OpenRoom PROVE UsersFit'
    BY Bounds, <1>22 DEF OpenRoom, Go, NoSession, ShowAs, Show, Unanswered
  <1>23. ASSUME FetchCompletion PROVE UsersFit'
    BY Bounds, <1>23 DEF FetchCompletion, OnPage, NoSession
  <1>24. ASSUME WindowFocus PROVE UsersFit'
    BY Bounds, <1>24 DEF WindowFocus, OnPage, NoSession
  <1>25. ASSUME CompletionArrives PROVE UsersFit'
    BY Bounds, <1>25 DEF CompletionArrives, OnPage, NoSession
  <1>26. ASSUME OpenExam PROVE UsersFit'
    BY Bounds, <1>26 DEF OpenExam, Go, NoSession, ShowAs, Show, Unanswered
  <1>27. ASSUME OpenRoomExam PROVE UsersFit'
    BY Bounds, <1>27 DEF OpenRoomExam, Go, OnPage, NoSession, ShowAs, Show, Unanswered
  <1>28. ASSUME CloseRoomDialog PROVE UsersFit'
    BY Bounds, <1>28 DEF CloseRoomDialog, OnPage, NoSession
  <1>29. ASSUME OpenDialog PROVE UsersFit'
    BY Bounds, <1>29 DEF OpenDialog, OnPage, NoSession
  <1>30. ASSUME CloseDialog PROVE UsersFit'
    BY Bounds, <1>30 DEF CloseDialog, OnPage, NoSession
  <1>31. ASSUME StartExam PROVE UsersFit'
    BY Bounds, <1>31 DEF StartExam, OnPage, NoSession
  <1>32. ASSUME StartSucceeds PROVE UsersFit'
    BY Bounds, <1>32 DEF StartSucceeds, Go, NoSession, ShowAs, Show, Unanswered
  <1>33. ASSUME StartRefused PROVE UsersFit'
    BY Bounds, <1>33 DEF StartRefused, OnPage, NoSession
  <1>34. ASSUME Complete PROVE UsersFit'
    BY Bounds, <1>34 DEF Complete, NoSession
  <1>35. ASSUME Tick PROVE UsersFit'
    BY Bounds, <1>35 DEF Tick, NoSession
  <1>36. ASSUME ProvincesArrive, UNCHANGED catalogueVars PROVE UsersFit'
    BY Bounds, <1>36 DEF ProvincesArrive, InPage, Stays
  <1>37. ASSUME WardsArrive, UNCHANGED catalogueVars PROVE UsersFit'
    BY Bounds, <1>37 DEF WardsArrive, InPage, Stays
  <1>38. ASSUME ProfileArrives, UNCHANGED catalogueVars PROVE UsersFit'
    BY Bounds, <1>38 DEF ProfileArrives, InPage, Stays
  <1>39. ASSUME StartEditing, UNCHANGED catalogueVars PROVE UsersFit'
    BY Bounds, <1>39 DEF StartEditing, InPage, Stays
  <1>40. ASSUME EditProvince, UNCHANGED catalogueVars PROVE UsersFit'
    BY Bounds, <1>40 DEF EditProvince, InPage, Stays
  <1>41. ASSUME EditWard, UNCHANGED catalogueVars PROVE UsersFit'
    BY Bounds, <1>41 DEF EditWard, InPage, Stays
  <1>42. ASSUME Save, UNCHANGED catalogueVars PROVE UsersFit'
    BY Bounds, <1>42 DEF Save, InPage, Stays
  <1>43. ASSUME SaveStored, UNCHANGED catalogueVars PROVE UsersFit'
    BY Bounds, <1>43 DEF SaveStored, InPage, Stays
  <1>44. ASSUME SaveSucceeds, UNCHANGED catalogueVars PROVE UsersFit'
    BY Bounds, <1>44 DEF SaveSucceeds, InPage, Stays
  <1>45. ASSUME SaveFails, UNCHANGED catalogueVars PROVE UsersFit'
    BY Bounds, <1>45 DEF SaveFails, Stays
  <1>46. ASSUME SelectAvatar, UNCHANGED catalogueVars PROVE UsersFit'
    BY Bounds, <1>46 DEF SelectAvatar, InPage, Stays
  <1>47. ASSUME AvatarStored, UNCHANGED catalogueVars PROVE UsersFit'
    BY Bounds, <1>47 DEF AvatarStored, InPage, Stays
  <1>48. ASSUME AvatarSucceeds, UNCHANGED catalogueVars PROVE UsersFit'
    BY Bounds, <1>48 DEF AvatarSucceeds, InPage, Stays
  <1>49. ASSUME AvatarFails, UNCHANGED catalogueVars PROVE UsersFit'
    BY Bounds, <1>49 DEF AvatarFails, Stays
  <1>50. ASSUME StrayArrives, UNCHANGED catalogueVars PROVE UsersFit'
    BY Bounds, <1>50 DEF StrayArrives
  <1>51. ASSUME StrayFails, UNCHANGED catalogueVars PROVE UsersFit'
    BY Bounds, <1>51 DEF StrayFails
  <1>52. ASSUME HistoryArrives, UNCHANGED catalogueVars PROVE UsersFit'
    BY Bounds, <1>52 DEF HistoryArrives, OnlyPage
  <1>53. ASSUME LoadMore, UNCHANGED catalogueVars PROVE UsersFit'
    BY Bounds, <1>53 DEF LoadMore, OnlyPage
  <1>54. ASSUME MoreArrives, UNCHANGED catalogueVars PROVE UsersFit'
    BY Bounds, <1>54 DEF MoreArrives, OnlyPage
  <1>55. ASSUME Submitted, UNCHANGED catalogueVars PROVE UsersFit'
    BY Bounds, <1>55 DEF Submitted, OnlyPage
  <1>56. QED
    BY <1>1, <1>2, <1>3, <1>4, <1>5, <1>6, <1>7, <1>8, <1>9, <1>10, <1>11, <1>12, <1>13,
       <1>14, <1>15, <1>16, <1>17, <1>18, <1>19, <1>20, <1>21, <1>22, <1>23, <1>24, <1>25,
       <1>26, <1>27, <1>28, <1>29, <1>30, <1>31, <1>32, <1>33, <1>34, <1>35, <1>36, <1>37,
       <1>38, <1>39, <1>40, <1>41, <1>42, <1>43, <1>44, <1>45, <1>46, <1>47, <1>48, <1>49,
       <1>50, <1>51, <1>52, <1>53, <1>54, <1>55
    DEF Steps, SessionStep, ProfileStep, HistoryStep, SessionNext, CatalogueNext,
        ProfileNext, HistoryNext

\* Requests are sent for a user, and the page does not outlive him.
LEMMA SaverKnownStep ==
  ASSUME SaverKnown, route = "profile" => ProfileInv(page), Steps PROVE SaverKnown'
  <1> SUFFICES ASSUME route' = "profile", page'.save # <<>> \/ page'.upload # <<>>
               PROVE  user' # NoUser
    BY DEF SaverKnown
  <1>1. CASE ReloadStep \/ SessionNext \/ CatalogueNext \/ StrayArrives \/ StrayFails
    <2>1. page' # Fresh(route', props', clock)
      <3>1. Fresh("profile", props', clock) = FreshProfile
        BY DEF Fresh, RoomCards, ExamGrids
      <3>2. FreshProfile.save = <<>> /\ FreshProfile.upload = <<>>
        BY DEF FreshProfile
      <3>3. QED
        BY <3>1, <3>2
    <2>2. route = "profile" /\ user' = user /\ page' \in {page, UserRefreshed}
      BY <1>1, <2>1, PageKeptStep DEF PageKept
    <2>3. page' \in {page, [page EXCEPT !.load = <<page.saved, FALSE>>]}
      BY <2>2 DEF UserRefreshed
    <2>4. page \in ProfileType
      BY <2>2 DEF ProfileInv
    <2>5. page'.save = page.save /\ page'.upload = page.upload
      BY <2>3, <2>4 DEF ProfileType
    <2>6. QED
      BY <2>2, <2>5 DEF SaverKnown
  <1>2. CASE ProfileNext /\ ~(StrayArrives \/ StrayFails)
    <2>1. route = "profile" /\ Visible /\ user' = user
      BY <1>2 DEF ProfileNext, ProvincesArrive, WardsArrive, ProfileArrives, StartEditing,
                  EditProvince, EditWard, Save, SaveStored, SaveSucceeds, SaveFails,
                  SelectAvatar, AvatarStored, AvatarSucceeds, AvatarFails, OnProfile,
                  InPage
    <2>2. QED
      BY <2>1 DEF Visible, Guarded
  <1>3. CASE HistoryNext
    BY <1>3 DEF HistoryNext, HistoryArrives, LoadMore, MoreArrives, Submitted, OnHistory,
                OnlyPage
  <1>4. QED
    BY <1>1, <1>2, <1>3 DEF Steps, SessionStep, ProfileStep, HistoryStep

\* The login page and the page of an exam as they are opened.
LEMMA LoginFits ==
  /\ \A p, time : Fresh("login", p, time) = FreshLogin
  /\ FreshLogin \in LoginType
  /\ \A p \in Route : [FreshLogin EXCEPT !.from = p] \in LoginType
  /\ \A q \in LoginType : /\ [q EXCEPT !.armed = TRUE] \in LoginType
                          /\ \A p \in Route : [q EXCEPT !.from = p] \in LoginType
  BY DEF Fresh, RoomCards, ExamGrids, FreshLogin, LoginType, Route

\* Where a page is shown, the login page may be.
LEMMA ShownFits ==
  ASSUME RouteFits, NEW u, NEW p \in Route, NEW c, Show(u, p, c) PROVE RouteFits'
  <1> DEFINE r == Middleware(p, c)
             shown == IF r # route \/ u # user THEN Fresh(r, props', clock) ELSE page
  <1>1. route' = r /\ page' = IF r # p THEN [shown EXCEPT !.from = p] ELSE shown
    BY DEF Show, Entered
  <1>2. r \in Route /\ (r # p => r = "login")
    BY DEF Middleware, Route
  <1>3. r = "login" => shown \in LoginType
    BY LoginFits DEF RouteFits
  <1> HIDE DEF r, shown
  <1>4. QED
    BY <1>1, <1>2, <1>3, LoginFits DEF RouteFits

\* So may it where a page is loaded.
LEMMA LoadedFits ==
  ASSUME RouteFits, Loaded(route) PROVE RouteFits'
  <1> DEFINE r == Middleware(route, cookie)
             shown == Fresh(r, props', clock)
  <1>1. route' = r /\ page' = IF r # route THEN [shown EXCEPT !.from = route] ELSE shown
    BY DEF Loaded, Entered
  <1>2. r \in Route /\ (r # route => r = "login")
    BY DEF Middleware, Route, RouteFits
  <1>3. r = "login" => shown \in LoginType
    BY LoginFits
  <1> HIDE DEF r, shown
  <1>4. QED
    BY <1>1, <1>2, <1>3, LoginFits DEF RouteFits

\* The page of an exam as it is opened.
LEMMA ExamIsFresh ==
  /\ \A p, time : Fresh("exam", p, time) = FreshExam(time)
  /\ \A time : FreshExam(time) \in ExamType
  /\ \A time : DialogMode(time) \in {"ready"} \cup Refusals
  BY DEF Fresh, RoomCards, ExamGrids, FreshExam, DialogMode, ExamType, Refusals

\* One step per action: the route is a page, and the login page has its form.
LEMMA RouteFitsStep ==
  ASSUME RouteFits, Steps PROVE RouteFits'
  <1> USE DEF RouteFits
  <1>1. ASSUME ReloadStep PROVE RouteFits'
    <2>1. Loaded(route)
      BY <1>1 DEF ReloadStep, Reload
    <2>2. QED
      BY <2>1, LoadedFits
  <1>2. ASSUME CookieExpires, UNCHANGED catalogueVars PROVE RouteFits'
    BY LoginFits, <1>2 DEF CookieExpires
  <1>3. ASSUME MeReplies, UNCHANGED catalogueVars PROVE RouteFits'
    BY LoginFits, <1>3 DEF MeReplies, Known, UserRefreshed
  <1>4. ASSUME RefreshLands, UNCHANGED catalogueVars PROVE RouteFits'
    <2>1. /\ route' = route
          /\ page' = Fresh(route, props', clock) \/ page' = Rerendered(props')
      BY <1>4 DEF RefreshLands
    <2>2. QED
      BY <2>1, LoginFits DEF Rerendered
  <1>5. ASSUME NEW u \in tour.users, Login(u), UNCHANGED catalogueVars PROVE RouteFits'
    BY <1>5, LoginFits DEF Login, Unaffected, LoginType
  <1>6. ASSUME LoginSucceeds, UNCHANGED catalogueVars PROVE RouteFits'
    <2>1. PICK p \in {IF route = "login" THEN page.from ELSE "home", "home"} :
            Show(signing[2], p, signing[2])
      BY <1>6 DEF LoginSucceeds, ShowAs
    <2>2. p \in Route
      BY DEF LoginType, Route
    <2>3. QED
      BY <2>1, <2>2, ShownFits
  <1>7. ASSUME LoginFails, UNCHANGED catalogueVars PROVE RouteFits'
    BY <1>7, LoginFits DEF LoginFails, Unaffected, LoginType
  <1>8. ASSUME LoginRedirectsHome, UNCHANGED catalogueVars PROVE RouteFits'
    <2>1. CASE Show(user, "home", cookie)
      BY <2>1, ShownFits DEF Route
    <2>2. CASE /\ page' = [page EXCEPT !.armed = FALSE, !.from = "home"]
               /\ route' = route
      BY <2>2, <1>8 DEF LoginRedirectsHome, LoginType, Route
    <2>3. QED
      BY <2>1, <2>2, <1>8 DEF LoginRedirectsHome, Go, ShowAs
  <1>9. ASSUME RequireAuthRedirects, UNCHANGED catalogueVars PROVE RouteFits'
    <2>1. Show(user, "login", cookie)
      BY <1>9 DEF RequireAuthRedirects, Go, ShowAs
    <2>2. QED
      BY <2>1, ShownFits DEF Route
  <1>10. ASSUME Register, UNCHANGED catalogueVars PROVE RouteFits'
    BY LoginFits, <1>10 DEF Register, Unaffected
  <1>11. ASSUME RegisterSucceeds, UNCHANGED catalogueVars PROVE RouteFits'
    <2>1. Show(user, "login", cookie)
      BY <1>11 DEF RegisterSucceeds, Go, ShowAs
    <2>2. QED
      BY <2>1, ShownFits DEF Route
  <1>12. ASSUME Logout, UNCHANGED catalogueVars PROVE RouteFits'
    BY LoginFits, <1>12 DEF Logout, Unaffected
  <1>13. ASSUME LogoutSucceeds, UNCHANGED catalogueVars PROVE RouteFits'
    <2>1. Show(NoUser, "landing", NoUser) \/ Show(NoUser, "login", NoUser)
      BY <1>13 DEF LogoutSucceeds, ShowAs
    <2>2. QED
      BY <2>1, ShownFits DEF Route
  <1>14. ASSUME SigningFails, UNCHANGED catalogueVars PROVE RouteFits'
    BY LoginFits, <1>14 DEF SigningFails, Unaffected
  <1>15. ASSUME FollowLink, UNCHANGED catalogueVars PROVE RouteFits'
    <2>1. PICK p \in Links : Show(user, p, cookie)
      BY <1>15 DEF FollowLink, Go, ShowAs
    <2>2. p \in Route
      BY DEF Links, Route
    <2>3. QED
      BY <2>1, <2>2, ShownFits
  <1>16. ASSUME RegisterRoomAsGuest PROVE RouteFits'
    <2>1. Show(user, "login", cookie)
      BY <1>16 DEF RegisterRoomAsGuest, Go, ShowAs
    <2>2. QED
      BY <2>1, ShownFits DEF Route
  <1>17. ASSUME RegisterPaidRoom PROVE RouteFits'
    <2>1. Show(user, "payment", cookie)
      BY <1>17 DEF RegisterPaidRoom, Go, ShowAs
    <2>2. QED
      BY <2>1, ShownFits DEF Route
  <1>18. ASSUME RegisterRoom PROVE RouteFits'
    BY LoginFits, <1>18 DEF RegisterRoom, NoSession
  <1>19. ASSUME JoinSucceeds PROVE RouteFits'
    <2>1. Show(user, "room", cookie)
      BY <1>19 DEF JoinSucceeds
    <2>2. QED
      BY <2>1, ShownFits DEF Route
  <1>20. ASSUME JoinNeedsPayment PROVE RouteFits'
    <2>1. Show(user, "payment", cookie)
      BY <1>20 DEF JoinNeedsPayment, Go, ShowAs
    <2>2. QED
      BY <2>1, ShownFits DEF Route
  <1>21. ASSUME JoinFails PROVE RouteFits'
    BY LoginFits, <1>21 DEF JoinFails, NoSession
  <1>22. ASSUME OpenRoom PROVE RouteFits'
    <2>1. Show(user, "room", cookie)
      BY <1>22 DEF OpenRoom, Go, ShowAs
    <2>2. QED
      BY <2>1, ShownFits DEF Route
  <1>23. ASSUME FetchCompletion PROVE RouteFits'
    <2>1. route' = route /\ route \in ExamGrids /\ starting' = starting
      BY <1>23 DEF FetchCompletion, OnPage
    <2>2. QED
      BY <2>1 DEF ExamGrids
  <1>24. ASSUME WindowFocus PROVE RouteFits'
    <2>1. route' = route /\ route \in ExamGrids /\ starting' = starting
      BY <1>24 DEF WindowFocus, OnPage
    <2>2. QED
      BY <2>1 DEF ExamGrids
  <1>25. ASSUME CompletionArrives PROVE RouteFits'
    <2>1. route' = route /\ route \in ExamGrids /\ starting' = starting
      BY <1>25 DEF CompletionArrives, OnPage
    <2>2. QED
      BY <2>1 DEF ExamGrids
  <1>26. ASSUME OpenExam PROVE RouteFits'
    <2>1. Show(user, "exam", cookie)
      BY <1>26 DEF OpenExam, Go, ShowAs
    <2>2. QED
      BY <2>1, ShownFits DEF Route
  <1>27. ASSUME OpenRoomExam PROVE RouteFits'
    <2>1. CASE Show(user, "exam", cookie)
      BY <2>1, ShownFits DEF Route
    <2>2. CASE route' = route /\ route = "room"
      BY <2>2
    <2>3. QED
      BY <2>1, <2>2, <1>27 DEF OpenRoomExam, OnPage, Go, ShowAs
  <1>28. ASSUME CloseRoomDialog PROVE RouteFits'
    BY LoginFits, <1>28 DEF CloseRoomDialog, OnPage, NoSession
  <1>29. ASSUME OpenDialog PROVE RouteFits'
    BY LoginFits, <1>29 DEF OpenDialog, OnPage, NoSession
  <1>30. ASSUME CloseDialog PROVE RouteFits'
    BY LoginFits, <1>30 DEF CloseDialog, OnPage, NoSession
  <1>31. ASSUME StartExam PROVE RouteFits'
    BY <1>31 DEF StartExam, OnPage
  <1>32. ASSUME StartSucceeds PROVE RouteFits'
    <2>1. Show(user, "attempt", cookie)
      BY <1>32 DEF StartSucceeds, Go, ShowAs
    <2>2. QED
      BY <2>1, ShownFits DEF Route
  <1>33. ASSUME StartRefused PROVE RouteFits'
    BY LoginFits, <1>33 DEF StartRefused, OnPage, NoSession
  <1>34. ASSUME Complete PROVE RouteFits'
    BY LoginFits, <1>34 DEF Complete, NoSession
  <1>35. ASSUME Tick PROVE RouteFits'
    BY LoginFits, <1>35 DEF Tick, NoSession
  <1>36. ASSUME ProvincesArrive, UNCHANGED catalogueVars PROVE RouteFits'
    BY LoginFits, <1>36 DEF ProvincesArrive, InPage, Stays, OnProfile
  <1>37. ASSUME WardsArrive, UNCHANGED catalogueVars PROVE RouteFits'
    BY LoginFits, <1>37 DEF WardsArrive, InPage, Stays, OnProfile
  <1>38. ASSUME ProfileArrives, UNCHANGED catalogueVars PROVE RouteFits'
    BY LoginFits, <1>38 DEF ProfileArrives, InPage, Stays, OnProfile
  <1>39. ASSUME StartEditing, UNCHANGED catalogueVars PROVE RouteFits'
    BY LoginFits, <1>39 DEF StartEditing, InPage, OnProfile, Stays
  <1>40. ASSUME EditProvince, UNCHANGED catalogueVars PROVE RouteFits'
    BY LoginFits, <1>40 DEF EditProvince, InPage, OnProfile, Stays
  <1>41. ASSUME EditWard, UNCHANGED catalogueVars PROVE RouteFits'
    BY LoginFits, <1>41 DEF EditWard, InPage, OnProfile, Stays
  <1>42. ASSUME Save, UNCHANGED catalogueVars PROVE RouteFits'
    BY LoginFits, <1>42 DEF Save, InPage, OnProfile, Stays
  <1>43. ASSUME SaveStored, UNCHANGED catalogueVars PROVE RouteFits'
    BY LoginFits, <1>43 DEF SaveStored, InPage, OnProfile, Stays
  <1>44. ASSUME SaveSucceeds, UNCHANGED catalogueVars PROVE RouteFits'
    BY LoginFits, <1>44 DEF SaveSucceeds, InPage, OnProfile, Stays
  <1>45. ASSUME SaveFails, UNCHANGED catalogueVars PROVE RouteFits'
    BY LoginFits, <1>45 DEF SaveFails, Stays, OnProfile
  <1>46. ASSUME SelectAvatar, UNCHANGED catalogueVars PROVE RouteFits'
    BY LoginFits, <1>46 DEF SelectAvatar, InPage, OnProfile, Stays
  <1>47. ASSUME AvatarStored, UNCHANGED catalogueVars PROVE RouteFits'
    BY LoginFits, <1>47 DEF AvatarStored, InPage, OnProfile, Stays
  <1>48. ASSUME AvatarSucceeds, UNCHANGED catalogueVars PROVE RouteFits'
    BY LoginFits, <1>48 DEF AvatarSucceeds, InPage, OnProfile, Stays
  <1>49. ASSUME AvatarFails, UNCHANGED catalogueVars PROVE RouteFits'
    BY LoginFits, <1>49 DEF AvatarFails, Stays, OnProfile
  <1>50. ASSUME StrayArrives, UNCHANGED catalogueVars PROVE RouteFits'
    BY LoginFits, <1>50 DEF StrayArrives, UserRefreshed
  <1>51. ASSUME StrayFails, UNCHANGED catalogueVars PROVE RouteFits'
    BY LoginFits, <1>51 DEF StrayFails
  <1>52. ASSUME HistoryArrives, UNCHANGED catalogueVars PROVE RouteFits'
    BY LoginFits, <1>52 DEF HistoryArrives, OnlyPage, OnHistory
  <1>53. ASSUME LoadMore, UNCHANGED catalogueVars PROVE RouteFits'
    BY LoginFits, <1>53 DEF LoadMore, OnlyPage, OnHistory
  <1>54. ASSUME MoreArrives, UNCHANGED catalogueVars PROVE RouteFits'
    BY LoginFits, <1>54 DEF MoreArrives, OnlyPage, OnHistory
  <1>55. ASSUME Submitted, UNCHANGED catalogueVars PROVE RouteFits'
    BY LoginFits, <1>55 DEF Submitted, OnlyPage, OnHistory
  <1>56. QED
    BY <1>1, <1>2, <1>3, <1>4, <1>5, <1>6, <1>7, <1>8, <1>9, <1>10, <1>11, <1>12, <1>13,
       <1>14, <1>15, <1>16, <1>17, <1>18, <1>19, <1>20, <1>21, <1>22, <1>23, <1>24, <1>25,
       <1>26, <1>27, <1>28, <1>29, <1>30, <1>31, <1>32, <1>33, <1>34, <1>35, <1>36, <1>37,
       <1>38, <1>39, <1>40, <1>41, <1>42, <1>43, <1>44, <1>45, <1>46, <1>47, <1>48, <1>49,
       <1>50, <1>51, <1>52, <1>53, <1>54, <1>55
    DEF Steps, SessionStep, ProfileStep, HistoryStep, SessionNext, CatalogueNext,
        ProfileNext, HistoryNext

\* What a step changes of the page of an exam.
LEMMA ExamEdits ==
  ASSUME NEW e \in ExamType
  PROVE  /\ [e EXCEPT !.dialog = e.resolvedMode] \in ExamType
         /\ [e EXCEPT !.isStarting = TRUE] \in ExamType
         /\ \A d \in {"closed", "ready"} \cup Refusals :
              /\ [e EXCEPT !.dialog = d] \in ExamType
              /\ [e EXCEPT !.isStarting = FALSE, !.dialog = d] \in ExamType
  BY DEF ExamType, Refusals

\* The dialog of an exam shows its mode, or the refusal of the server.
LEMMA ExamFitsStep ==
  ASSUME ServerFits, ExamFits, Steps PROVE ExamFits'
  <1> USE DEF ExamFits
  <1>1. ASSUME ReloadStep PROVE ExamFits'
    BY ExamIsFresh, <1>1 DEF ReloadStep, Reload, Loaded, Entered, Middleware
  <1>2. ASSUME CookieExpires, UNCHANGED catalogueVars PROVE ExamFits'
    BY ExamIsFresh, <1>2 DEF CookieExpires
  <1>3. ASSUME MeReplies, UNCHANGED catalogueVars PROVE ExamFits'
    BY ExamIsFresh, <1>3 DEF MeReplies, Known, UserRefreshed
  <1>4. ASSUME RefreshLands, UNCHANGED catalogueVars PROVE ExamFits'
    BY ExamIsFresh, <1>4 DEF RefreshLands, Asked, Rerendered
  <1>5. ASSUME NEW u \in tour.users, Login(u), UNCHANGED catalogueVars PROVE ExamFits'
    BY ExamIsFresh, <1>5 DEF Login, Unaffected
  <1>6. ASSUME LoginSucceeds, UNCHANGED catalogueVars PROVE ExamFits'
    BY ExamIsFresh, <1>6 DEF LoginSucceeds, ShowAs, Unaffected, Show, Entered, Middleware
  <1>7. ASSUME LoginFails, UNCHANGED catalogueVars PROVE ExamFits'
    BY ExamIsFresh, <1>7 DEF LoginFails, Unaffected
  <1>8. ASSUME LoginRedirectsHome, UNCHANGED catalogueVars PROVE ExamFits'
    BY ExamIsFresh, <1>8 DEF LoginRedirectsHome, Go, Unaffected, ShowAs, Show, Entered,
       Middleware
  <1>9. ASSUME RequireAuthRedirects, UNCHANGED catalogueVars PROVE ExamFits'
    BY ExamIsFresh, <1>9 DEF RequireAuthRedirects, Go, Unaffected, ShowAs, Show, Entered,
       Middleware
  <1>10. ASSUME Register, UNCHANGED catalogueVars PROVE ExamFits'
    BY ExamIsFresh, <1>10 DEF Register, Unaffected
  <1>11. ASSUME RegisterSucceeds, UNCHANGED catalogueVars PROVE ExamFits'
    BY ExamIsFresh, <1>11 DEF RegisterSucceeds, Go, Unaffected, ShowAs, Show, Entered,
       Middleware
  <1>12. ASSUME Logout, UNCHANGED catalogueVars PROVE ExamFits'
    BY ExamIsFresh, <1>12 DEF Logout, Unaffected
  <1>13. ASSUME LogoutSucceeds, UNCHANGED catalogueVars PROVE ExamFits'
    BY ExamIsFresh, <1>13 DEF LogoutSucceeds, ShowAs, Unaffected, Show, Entered,
       Middleware
  <1>14. ASSUME SigningFails, UNCHANGED catalogueVars PROVE ExamFits'
    BY ExamIsFresh, <1>14 DEF SigningFails, Unaffected
  <1>15. ASSUME FollowLink, UNCHANGED catalogueVars PROVE ExamFits'
    BY ExamIsFresh, <1>15 DEF FollowLink, Go, Unaffected, ShowAs, Show, Entered,
       Middleware
  <1>16. ASSUME RegisterRoomAsGuest PROVE ExamFits'
    BY ExamIsFresh, <1>16 DEF RegisterRoomAsGuest, Go, NoSession, ShowAs, Show, Entered,
       Middleware
  <1>17. ASSUME RegisterPaidRoom PROVE ExamFits'
    BY ExamIsFresh, <1>17 DEF RegisterPaidRoom, Go, NoSession, ShowAs, Show, Entered,
       Middleware
  <1>18. ASSUME RegisterRoom PROVE ExamFits'
    BY ExamIsFresh, <1>18 DEF RegisterRoom, NoSession
  <1>19. ASSUME JoinSucceeds PROVE ExamFits'
    BY ExamIsFresh, <1>19 DEF JoinSucceeds, Show, Entered, Middleware
  <1>20. ASSUME JoinNeedsPayment PROVE ExamFits'
    BY ExamIsFresh, <1>20 DEF JoinNeedsPayment, Go, NoSession, ShowAs, Show, Entered,
       Middleware
  <1>21. ASSUME JoinFails PROVE ExamFits'
    BY ExamIsFresh, <1>21 DEF JoinFails, NoSession
  <1>22. ASSUME OpenRoom PROVE ExamFits'
    BY ExamIsFresh, <1>22 DEF OpenRoom, Go, NoSession, ShowAs, Show, Entered, Middleware
  <1>23. ASSUME FetchCompletion PROVE ExamFits'
    <2>1. route' = route /\ route \in ExamGrids /\ starting' = starting
      BY <1>23 DEF FetchCompletion, OnPage
    <2>2. QED
      BY <2>1 DEF ExamGrids
  <1>24. ASSUME WindowFocus PROVE ExamFits'
    <2>1. route' = route /\ route \in ExamGrids /\ starting' = starting
      BY <1>24 DEF WindowFocus, OnPage
    <2>2. QED
      BY <2>1 DEF ExamGrids
  <1>25. ASSUME CompletionArrives PROVE ExamFits'
    <2>1. route' = route /\ route \in ExamGrids /\ starting' = starting
      BY <1>25 DEF CompletionArrives, OnPage
    <2>2. QED
      BY <2>1 DEF ExamGrids
  <1>26. ASSUME OpenExam PROVE ExamFits'
    BY ExamIsFresh, <1>26 DEF OpenExam, Go, NoSession, ShowAs, Show, Entered, Middleware
  <1>27. ASSUME OpenRoomExam PROVE ExamFits'
    BY ExamIsFresh, <1>27 DEF OpenRoomExam, Go, OnPage, NoSession, ShowAs, Show, Entered,
       Middleware
  <1>28. ASSUME CloseRoomDialog PROVE ExamFits'
    BY ExamIsFresh, <1>28 DEF CloseRoomDialog, OnPage, NoSession
  <1>29. ASSUME OpenDialog PROVE ExamFits'
    <2>1. route' = "exam" /\ page \in ExamType /\ starting' = starting
      BY <1>29 DEF OpenDialog, OnPage
    <2>2. page' = [page EXCEPT !.dialog = page.resolvedMode]
      BY <1>29 DEF OpenDialog
    <2>3. QED
      BY <2>1, <2>2, ExamEdits
  <1>30. ASSUME CloseDialog PROVE ExamFits'
    <2>1. route' = "exam" /\ page \in ExamType /\ starting' = starting
      BY <1>30 DEF CloseDialog, OnPage
    <2>2. page' = [page EXCEPT !.dialog = "closed"]
      BY <1>30 DEF CloseDialog
    <2>3. QED
      BY <2>1, <2>2, ExamEdits
  <1>31. ASSUME StartExam PROVE ExamFits'
    <2>1. route' = "exam" /\ page \in ExamType
      BY <1>31 DEF StartExam, OnPage
    <2>2. page' = [page EXCEPT !.isStarting = TRUE]
      BY <1>31 DEF StartExam
    <2>3. page' \in ExamType
      BY <2>1, <2>2, ExamEdits
    <2>4. StartReply \in {"error", "started"} \cup Refusals
      BY DEF StartReply, ServerFits, Refusals
    <2>5. starting' \in {<<StartReply>>, <<"error">>}
      BY <1>31 DEF StartExam
    <2>6. QED
      BY <2>1, <2>3, <2>4, <2>5
  <1>32. ASSUME StartSucceeds PROVE ExamFits'
    BY ExamIsFresh, <1>32 DEF StartSucceeds, Go, NoSession, ShowAs, Show, Entered,
       Middleware
  <1>33. ASSUME StartRefused PROVE ExamFits'
    <2>1. route' = route /\ starting' = <<>>
      BY <1>33 DEF StartRefused, OnPage
    <2>2. CASE route # "exam" \/ ~page.isStarting
      <3>1. page' = page
        BY <1>33, <2>2 DEF StartRefused
      <3>2. QED
        BY <2>1, <3>1
    <2>3. CASE route = "exam" /\ page.isStarting
      <3>1. page \in ExamType /\ starting # <<>> /\ starting # <<"started">>
        BY <1>33, <2>3 DEF StartRefused
      <3>2. starting[1] \in {"error"} \cup Refusals
        BY <3>1
      <3>3. PICK d \in {page.dialog, starting[1]} :
              /\ page' = [page EXCEPT !.isStarting = FALSE, !.dialog = d]
              /\ starting[1] = "error" => d = page.dialog
        <4>1. page' = [page EXCEPT !.isStarting = FALSE,
                                   !.dialog = IF starting[1] = "error" \/ @ = "closed"
                                              THEN @ ELSE starting[1]]
          BY <1>33, <2>3 DEF StartRefused
        <4>2. CASE starting[1] = "error" \/ page.dialog = "closed"
          BY <4>1, <4>2
        <4>3. CASE ~(starting[1] = "error" \/ page.dialog = "closed")
          BY <4>1, <4>3
        <4>4. QED
          BY <4>2, <4>3
      <3>4. d \in {"closed", "ready"} \cup Refusals
        BY <3>1, <3>2, <3>3 DEF ExamType
      <3>5. QED
        BY <2>1, <3>1, <3>3, <3>4, ExamEdits
    <2>4. QED
      BY <2>2, <2>3
  <1>34. ASSUME Complete PROVE ExamFits'
    BY ExamIsFresh, <1>34 DEF Complete, NoSession
  <1>35. ASSUME Tick PROVE ExamFits'
    BY ExamIsFresh, <1>35 DEF Tick, NoSession
  <1>36. ASSUME ProvincesArrive, UNCHANGED catalogueVars PROVE ExamFits'
    BY ExamIsFresh, <1>36 DEF ProvincesArrive, InPage, Stays, OnProfile
  <1>37. ASSUME WardsArrive, UNCHANGED catalogueVars PROVE ExamFits'
    BY ExamIsFresh, <1>37 DEF WardsArrive, InPage, Stays, OnProfile
  <1>38. ASSUME ProfileArrives, UNCHANGED catalogueVars PROVE ExamFits'
    BY ExamIsFresh, <1>38 DEF ProfileArrives, InPage, Stays, OnProfile
  <1>39. ASSUME StartEditing, UNCHANGED catalogueVars PROVE ExamFits'
    BY ExamIsFresh, <1>39 DEF StartEditing, InPage, OnProfile, Stays
  <1>40. ASSUME EditProvince, UNCHANGED catalogueVars PROVE ExamFits'
    BY ExamIsFresh, <1>40 DEF EditProvince, InPage, OnProfile, Stays
  <1>41. ASSUME EditWard, UNCHANGED catalogueVars PROVE ExamFits'
    BY ExamIsFresh, <1>41 DEF EditWard, InPage, OnProfile, Stays
  <1>42. ASSUME Save, UNCHANGED catalogueVars PROVE ExamFits'
    BY ExamIsFresh, <1>42 DEF Save, InPage, OnProfile, Stays
  <1>43. ASSUME SaveStored, UNCHANGED catalogueVars PROVE ExamFits'
    BY ExamIsFresh, <1>43 DEF SaveStored, InPage, OnProfile, Stays
  <1>44. ASSUME SaveSucceeds, UNCHANGED catalogueVars PROVE ExamFits'
    BY ExamIsFresh, <1>44 DEF SaveSucceeds, InPage, OnProfile, Stays
  <1>45. ASSUME SaveFails, UNCHANGED catalogueVars PROVE ExamFits'
    BY ExamIsFresh, <1>45 DEF SaveFails, Stays, OnProfile
  <1>46. ASSUME SelectAvatar, UNCHANGED catalogueVars PROVE ExamFits'
    BY ExamIsFresh, <1>46 DEF SelectAvatar, InPage, OnProfile, Stays
  <1>47. ASSUME AvatarStored, UNCHANGED catalogueVars PROVE ExamFits'
    BY ExamIsFresh, <1>47 DEF AvatarStored, InPage, OnProfile, Stays
  <1>48. ASSUME AvatarSucceeds, UNCHANGED catalogueVars PROVE ExamFits'
    BY ExamIsFresh, <1>48 DEF AvatarSucceeds, InPage, OnProfile, Stays
  <1>49. ASSUME AvatarFails, UNCHANGED catalogueVars PROVE ExamFits'
    BY ExamIsFresh, <1>49 DEF AvatarFails, Stays, OnProfile
  <1>50. ASSUME StrayArrives, UNCHANGED catalogueVars PROVE ExamFits'
    BY ExamIsFresh, <1>50 DEF StrayArrives, UserRefreshed
  <1>51. ASSUME StrayFails, UNCHANGED catalogueVars PROVE ExamFits'
    BY ExamIsFresh, <1>51 DEF StrayFails
  <1>52. ASSUME HistoryArrives, UNCHANGED catalogueVars PROVE ExamFits'
    BY ExamIsFresh, <1>52 DEF HistoryArrives, OnlyPage, OnHistory
  <1>53. ASSUME LoadMore, UNCHANGED catalogueVars PROVE ExamFits'
    BY ExamIsFresh, <1>53 DEF LoadMore, OnlyPage, OnHistory
  <1>54. ASSUME MoreArrives, UNCHANGED catalogueVars PROVE ExamFits'
    BY ExamIsFresh, <1>54 DEF MoreArrives, OnlyPage, OnHistory
  <1>55. ASSUME Submitted, UNCHANGED catalogueVars PROVE ExamFits'
    BY ExamIsFresh, <1>55 DEF Submitted, OnlyPage, OnHistory
  <1>56. QED
    BY <1>1, <1>2, <1>3, <1>4, <1>5, <1>6, <1>7, <1>8, <1>9, <1>10, <1>11, <1>12, <1>13,
       <1>14, <1>15, <1>16, <1>17, <1>18, <1>19, <1>20, <1>21, <1>22, <1>23, <1>24, <1>25,
       <1>26, <1>27, <1>28, <1>29, <1>30, <1>31, <1>32, <1>33, <1>34, <1>35, <1>36, <1>37,
       <1>38, <1>39, <1>40, <1>41, <1>42, <1>43, <1>44, <1>45, <1>46, <1>47, <1>48, <1>49,
       <1>50, <1>51, <1>52, <1>53, <1>54, <1>55
    DEF Steps, SessionStep, ProfileStep, HistoryStep, SessionNext, CatalogueNext,
        ProfileNext, HistoryNext

\* The strengthening of TypeOK, the profile page and the session apart.
TypesFit ==
  UsersFit /\ SaverKnown /\ WaitsFit /\ ServerFits /\ RouteFits /\ ExamFits

\* The page of the browser as it is first loaded.
LEMMA TypesFitInit == Init => TypesFit
  <1> SUFFICES ASSUME Init PROVE TypesFit
    OBVIOUS
  <1>1. tour \in Tours /\ tour.users \subseteq User /\ cookie \in User \cup {NoUser}
    BY Bounds DEF Init, SessionInit
  <1>2. UsersFit /\ SaverKnown /\ WaitsFit
    <2>1. UsersFit /\ SaverKnown
      BY <1>1 DEF Init, SessionInit, UsersFit, SaverKnown
    <2>2. isLoading \in BOOLEAN /\ hasSession \in BOOLEAN
      BY Zenon DEF Init, SessionInit
    <2>3. override \in BOOLEAN /\ refreshing \in BOOLEAN /\ overtaken \in BOOLEAN
      BY DEF Init, SessionInit
    <2>4. isLoading => me # NoCall
      <3>1. isLoading => cookie # NoUser
        BY Zenon DEF Init, SessionInit
      <3>2. cookie # NoUser => me = cookie
        BY DEF Init, SessionInit
      <3>3. QED
        BY <1>1, <3>1, <3>2, Bounds
    <2>5. QED
      BY <2>1, <2>2, <2>3, <2>4 DEF WaitsFit
  <1>3. ServerFits /\ RouteFits
    BY Bounds DEF Init, SessionInit, ServerFits, RouteFits, Route
  <1>4. ExamFits
    BY DEF Init, SessionInit, CatalogueInit, ExamFits
  <1>5. QED
    BY <1>2, <1>3, <1>4 DEF TypesFit

\* All of it together, for every step; the profile page asks for its own invariant.
LEMMA TypesFitStep ==
  ASSUME TypesFit, route = "profile" => ProfileInv(page), [Next]_vars PROVE TypesFit'
  <1> USE DEF TypesFit
  <1>1. CASE UNCHANGED vars
    BY <1>1 DEF vars, UsersFit, SaverKnown, WaitsFit, ServerFits, RouteFits, ExamFits
  <1>2. CASE Steps
    BY <1>2, UsersFitStep, SaverKnownStep, WaitsFitStep, ServerFitsStep, RouteFitsStep,
       ExamFitsStep
  <1>3. QED
    BY <1>1, <1>2 DEF Next, Steps

\* The variables hold what TypeOK says of them, for any users and any tours: each page
\* keeps a state of its own form in the variable that all of them share, and the layout
\* never waits for the user of a session that nobody has asked for.
THEOREM TypeCorrect == Spec => []TypeOK
  <1> DEFINE Profile == route = "profile" => ProfileInv(page)
  <1>1. Init => TypesFit
    BY TypesFitInit
  <1>2. TypesFit /\ Profile /\ [Next]_vars => TypesFit'
    BY TypesFitStep
  <1>3. TypesFit /\ Profile /\ SessionInv => TypeOK
    <2> SUFFICES ASSUME TypesFit, Profile, SessionInv PROVE TypeOK
      OBVIOUS
    <2>1. /\ route \in Route /\ tour \in Tours /\ faults \in 0 .. MaxFaults
          /\ {cookie, user, owner} \subseteq User \cup {NoUser}
          /\ me \in User \cup {NoCall} /\ stray \in User \cup {NoCall}
          /\ {isLoading, override, hasSession, refreshing, overtaken} \subseteq BOOLEAN
          /\ isLoading => me # NoCall
          /\ held \subseteq User /\ done \subseteq User
          /\ clock \in {"before", "during", "after"}
      BY DEF TypesFit, UsersFit, WaitsFit, ServerFits, RouteFits
    <2>2. me # NoCall => hasSession
      BY DEF SessionInv
    <2>3. route = "exam" => page.dialog \in {"closed", "ready"} \cup Refusals
      BY DEF TypesFit, ExamFits, ExamType
    <2>4. route = "profile" =>
            {page.values, page.saved} \subseteq Address /\ page.touched \subseteq Fields
      BY DEF ProfileInv, ProfileType
    <2>5. QED
      BY <2>1, <2>2, <2>3, <2>4 DEF TypeOK, Refusals
  <1> HIDE DEF Profile
  <1>4. Spec => []Profile
    BY ProfileIsKept DEF Profile
  <1>5. QED
    BY <1>1, <1>2, <1>3, <1>4, SessionIsKept, PTL DEF Spec

=============================================================================
