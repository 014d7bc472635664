------------------------------- MODULE WebClient -------------------------------
(***************************************************************************)
(* The web client outside the exam: the session and the pages, of which    *)
(* one is shown at a time. Pages share the session; what a page has asked  *)
(* for can still be answered when another is shown.                        *)
(***************************************************************************)
EXTENDS CataloguePages, ProfilePage, HistoryPage

vars == <<webVars, sessionVars, catalogueVars>>

Init == SessionInit /\ CatalogueInit

\* Loading a page also ends what the one before has begun.
ReloadStep == Reload /\ joining' = <<>> /\ starting' = <<>>

SessionStep == SessionNext /\ UNCHANGED catalogueVars
ProfileStep == ProfileNext /\ UNCHANGED catalogueVars
HistoryStep == HistoryNext /\ UNCHANGED catalogueVars

Next == ReloadStep \/ SessionStep \/ CatalogueNext \/ ProfileStep \/ HistoryStep

Spec == Init /\ [][Next]_vars

FairSpec ==
  /\ Spec
  /\ WF_vars(ProvincesArrive /\ UNCHANGED catalogueVars)
  /\ WF_vars(WardsArrive /\ UNCHANGED catalogueVars)

-----------------------------------------------------------------------------
\* What the variables hold; the layout asks for the user of a session alone, and waits
\* for nothing else.
TypeOK ==
  /\ route \in Route /\ tour \in Tours /\ faults \in 0 .. MaxFaults
  /\ {cookie, user, owner} \subseteq User \cup {NoUser}
  /\ me \in User \cup {NoCall} /\ stray \in User \cup {NoCall}
  /\ {isLoading, override, hasSession, refreshing, overtaken} \subseteq BOOLEAN
  /\ isLoading => me # NoCall
  /\ me # NoCall => hasSession
  /\ held \subseteq User /\ done \subseteq User
  /\ clock \in {"before", "during", "after"}
  /\ route = "exam" /\ ~page.isStarting /\ page.dialog # "closed" =>
       page.dialog \in {"ready", "not_started", "ended", "completed"}
  /\ route = "profile" =>
       {page.values, page.saved} \subseteq Address /\ page.touched \subseteq Fields

\* The user shown is the one of the last load, login or logout; unless a login came
\* before the answer of loadUser, or the answer to a page left behind came after all
\* of them, and then for as long as the page of the browser lives.
UserIsSession == ~overtaken /\ ~refreshing => user \in {NoUser, owner}

\* What the cards offer is the user's: a room is offered as joined to those with
\* access, an exam shown as completed to those who have submitted it; not by a page
\* that was rendered for another user (HotRoom keeps its rooms after a logout).
OffersAreUsers ==
  (Visible /\ ~overtaken) =>
    /\ route \in RoomCards /\ EffectiveHasAccess /\ page.rooms.to = user => user \in held
    /\ route \in RoomCards /\ override => user \in held
    /\ route \in ExamGrids /\ Completed => user \in done

\* Action property of ProfilePage.
SaveChangesOnlyEdits == [][SaveChangesOnlyEditsStep]_vars

\* The selects of province and ward open again after every load; not if the form has
\* lost its province to a failed load of the profile meanwhile.
LocationsSettle ==
  (route = "profile" /\ page.isLocationsLoading /\ page.values.province # "")
    ~> (route # "profile" \/ ~page.isLocationsLoading \/ page.values.province = "")

=============================================================================
