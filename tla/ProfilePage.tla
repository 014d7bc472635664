------------------------------ MODULE ProfilePage ------------------------------
(***************************************************************************)
(* The profile page (components/profile/ProfilePageClient.tsx): a form     *)
(* filled by the answers to four kinds of requests, all of which can be    *)
(* under way at a time. Of its fields two stand for all: the province and  *)
(* the ward, whose lists are loaded too.                                   *)
(*                                                                         *)
(* load, save and upload of the page are <<>> or the request under way: a  *)
(* load and a stored upload hold the profile they will bring, and whether  *)
(* a save has been stored since.                                           *)
(***************************************************************************)
EXTENDS WebSession

OnProfile == route = "profile" /\ Visible

Stays == UNCHANGED <<tour, route, props, cookie, isLoading, serverVars, override, stray,
                     sessionVars>>
\* Only the page changes.
InPage == Stays /\ UNCHANGED <<user, faults>>

Fields == {"province", "ward"}

MaxSends == 2    \* bounds the saves and uploads of one visit

-----------------------------------------------------------------------------
(***************************************************************************)
(* The form and the lists of provinces and wards.                          *)
(***************************************************************************)
\* The form takes the values v. If the province or the ward is another, the wards
\* are loaded: a load under way is cancelled, and without a province none replaces
\* it, which leaves isLocationsLoading as it is.
Filled(p, v) ==
  CASE v.province = p.values.province /\ v.ward = p.values.ward -> [p EXCEPT !.values = v]
    [] v.province = "" /\ (p.values.province # "" \/ p.values.ward # "") ->
         [p EXCEPT !.values = v, !.wards = "", !.options = ""]
    [] OTHER -> [p EXCEPT !.values = v, !.wards = v.province, !.isLocationsLoading = TRUE]

\* An answer of the server takes the place of all that was typed. It has raced with a
\* save if one is under way, or was stored since it was made.
Replaced(p, v, late) ==
  [Filled(p, v) EXCEPT !.source = "server", !.touched = {},
                       !.raced = late \/ p.save # <<>>]

\* The effect that loads the provinces.
ProvincesArrive ==
  /\ OnProfile /\ page.provinces = "loading"
  /\ \/ /\ page' = [page EXCEPT !.provinces = "loaded", !.isLocationsLoading = FALSE]
        /\ InPage
     \/ /\ page' = [page EXCEPT !.provinces = "failed", !.isLocationsLoading = FALSE]
        /\ Fault /\ Stays /\ UNCHANGED user

\* Mutant of WardsArrive: a failed load is not finished.
WardsArriveOrHang ==
  /\ OnProfile /\ page.wards # ""
  /\ LET p == page.wards
         got == [page EXCEPT !.wards = "", !.options = p, !.isLocationsLoading = FALSE]
     IN \/ /\ page' = IF page.values.ward \in {p, ""} THEN got
                      ELSE Filled(got, [page.values EXCEPT !.ward = ""])
           /\ InPage
        \/ /\ page' = [page EXCEPT !.wards = "", !.options = ""]
           /\ Fault /\ Stays /\ UNCHANGED user

\* The effect that loads the wards of the province: a ward that is not among them is
\* cleared (which loads them again).
WardsArrive ==
  /\ OnProfile /\ page.wards # ""
  /\ LET p == page.wards
         got == [page EXCEPT !.wards = "", !.options = p, !.isLocationsLoading = FALSE]
     IN \/ /\ page' = IF page.values.ward \in {p, ""} THEN got
                      ELSE Filled(got, [page.values EXCEPT !.ward = ""])
           /\ InPage
        \/ /\ page' = [page EXCEPT !.wards = "", !.options = "", !.isLocationsLoading = FALSE]
           /\ Fault /\ Stays /\ UNCHANGED user

\* loadProfile. A failure shows the little that AuthProvider knows, to be edited like
\* any other profile.
ProfileArrives ==
  /\ OnProfile /\ page.load # <<>>
  /\ \/ /\ page' = [Replaced(page, page.load[1], page.load[2]) EXCEPT !.load = <<>>]
        /\ InPage
     \/ /\ page' = [Filled(page, Fallback) EXCEPT !.load = <<>>, !.touched = {},
                                                  !.source = "fallback"]
        /\ Fault /\ Stays /\ UNCHANGED user

StartEditing ==
  /\ OnProfile /\ ~page.isEditing
  /\ page' = [page EXCEPT !.isEditing = TRUE]
  /\ InPage

\* Mutant of EditProvince: the ward is kept.
EditProvinceOnly ==
  /\ OnProfile /\ page.isEditing /\ ~page.isLocationsLoading
  /\ page.provinces = "loaded" /\ page.values.province # "q"
  /\ page' = [Filled(page, [page.values EXCEPT !.province = "q"])
                EXCEPT !.touched = @ \cup {"province"}]
  /\ InPage

\* handleFieldChange: another province (one to choose is enough) clears the ward.
EditProvince ==
  /\ OnProfile /\ page.isEditing /\ ~page.isLocationsLoading
  /\ page.provinces = "loaded" /\ page.values.province # "q"
  /\ page' = [Filled(page, [page.values EXCEPT !.province = "q", !.ward = ""])
                EXCEPT !.touched = @ \cup {"province", "ward"}]
  /\ InPage

EditWard ==
  /\ OnProfile /\ page.isEditing /\ ~page.isLocationsLoading
  /\ page.options # "" /\ page.options # page.values.ward
  /\ page' = [Filled(page, [page.values EXCEPT !.ward = page.options])
                EXCEPT !.touched = @ \cup {"ward"}]
  /\ InPage

-----------------------------------------------------------------------------
(***************************************************************************)
(* Saving. The fields stay open to edits meanwhile.                        *)
(***************************************************************************)
\* buildUpdatePayload: all fields, with the names of the province and the ward as
\* far as the lists have them. The server refuses a code without a name.
Named(p) ==
  /\ p.values.province # "" => p.provinces = "loaded"
  /\ p.values.ward # "" => p.options = p.values.ward

\* handleSave.
Save ==
  /\ OnProfile /\ page.isEditing /\ page.save = <<>>
  /\ page.sends < MaxSends
  /\ page' = [page EXCEPT !.sends = @ + 1,
       !.save = <<[values |-> page.values, touched |-> page.touched,
                   sound |-> page.source = "server" /\ ~page.raced,
                   valid |-> Named(page), stored |-> FALSE]>>]
  /\ InPage

\* UpdateProfile of the server.
SaveStored ==
  /\ OnProfile /\ page.save # <<>>
  /\ page.save[1].valid /\ ~page.save[1].stored /\ cookie # NoUser
  /\ page' = [page EXCEPT
       !.saved = page.save[1].values, !.save[1].stored = TRUE,
       !.upload = IF @ # <<>> /\ @[1] = "stored" THEN <<"behind", @[2]>> ELSE @]
  /\ InPage

\* Mutant of SaveSucceeds: the user is not told, and the profile not loaded again.
SaveEnds ==
  /\ OnProfile /\ page.save # <<>> /\ page.save[1].stored
  /\ page' = [Replaced([page EXCEPT !.save = <<>>], page.save[1].values, FALSE)
                EXCEPT !.isEditing = FALSE]
  /\ InPage

\* The stored profile replaces the form; updateUser makes loadProfile's effect run
\* again, which cancels a load under way.
SaveSucceeds ==
  /\ OnProfile /\ page.save # <<>> /\ page.save[1].stored
  /\ page' = [Replaced([page EXCEPT !.save = <<>>], page.save[1].values, FALSE)
                EXCEPT !.isEditing = FALSE, !.load = <<page.saved, FALSE>>]
  /\ InPage

\* Refused, or one of the two messages is lost.
SaveFails ==
  /\ OnProfile /\ page.save # <<>>
  /\ page' = [page EXCEPT
       !.save = <<>>,
       !.load = IF @ # <<>> /\ page.save[1].stored THEN <<@[1], TRUE>> ELSE @]
  /\ Stays /\ UNCHANGED user
  /\ IF page.save[1].valid /\ cookie # NoUser THEN Fault ELSE UNCHANGED faults

-----------------------------------------------------------------------------
(***************************************************************************)
(* The avatar. The files that are refused at once change nothing.          *)
(***************************************************************************)
\* handleAvatarSelect: signature, upload and updateAvatarApi in turn.
SelectAvatar ==
  /\ OnProfile /\ page.upload = <<>>
  /\ page.sends < MaxSends
  /\ page' = [page EXCEPT !.sends = @ + 1, !.upload = <<"sent", page.saved>>]
  /\ InPage

\* UpdateAvatar of the server: its answer is the profile of this moment.
AvatarStored ==
  /\ OnProfile /\ page.upload # <<>> /\ page.upload[1] = "sent" /\ cookie # NoUser
  /\ page' = [page EXCEPT !.upload = <<"stored", page.saved>>]
  /\ InPage

\* The answer replaces the form, with what was typed; editing goes on. updateUser.
AvatarSucceeds ==
  /\ OnProfile /\ page.upload # <<>> /\ page.upload[1] # "sent"
  /\ page' = [Replaced(page, page.upload[2], page.upload[1] = "behind")
                EXCEPT !.upload = <<>>, !.load = <<page.saved, FALSE>>]
  /\ InPage

AvatarFails ==
  /\ OnProfile /\ page.upload # <<>>
  /\ page' = [page EXCEPT !.upload = <<>>]
  /\ Stays /\ UNCHANGED user
  /\ IF cookie # NoUser THEN Fault ELSE UNCHANGED faults

\* The answer to a page that is no longer there: all it does is updateUser.
StrayArrives ==
  /\ stray # NoCall
  /\ overtaken' = (overtaken \/ stray # user)
  /\ user' = stray /\ stray' = NoCall
  /\ page' = IF stray # user THEN Fresh(route, props, clock) ELSE UserRefreshed
  /\ override' = Override(stray)
  /\ UNCHANGED <<tour, route, props, cookie, isLoading, serverVars, hasSession, me, signing,
                 refreshing, owner, faults>>

StrayFails ==
  /\ stray # NoCall /\ stray' = NoCall
  /\ UNCHANGED <<tour, route, page, props, cookie, user, isLoading, serverVars, override,
                 sessionVars, faults>>

ProfileNext ==
  \/ ProvincesArrive \/ WardsArrive \/ ProfileArrives
  \/ StartEditing \/ EditProvince \/ EditWard
  \/ Save \/ SaveStored \/ SaveSucceeds \/ SaveFails
  \/ SelectAvatar \/ AvatarStored \/ AvatarSucceeds \/ AvatarFails
  \/ StrayArrives \/ StrayFails

-----------------------------------------------------------------------------
(***************************************************************************)
(* Properties.                                                             *)
(***************************************************************************)
\* A save changes on the server the fields the user has edited and no others, although
\* it sends them all; unless the form showed the fallback of a profile that could not
\* be loaded, or an answer that a save has overtaken.
SaveChangesOnlyEditsStep ==
  (route = "profile" /\ route' = "profile" /\ page.save # <<>> /\ page'.save # <<>>) =>
    \A f \in Fields : \/ page'.saved[f] = page.saved[f]
                      \/ f \in page.save[1].touched \/ ~page.save[1].sound

\* What is stored is a ward of the province that is stored, and while no list is
\* loaded the wards offered are those of the province shown.
WardFits ==
  route = "profile" =>
    /\ page.saved.ward \in {"", page.saved.province}
    /\ ~page.isLocationsLoading => page.options \in {"", page.values.province}

=============================================================================
