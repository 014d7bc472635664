---------------------------- MODULE CataloguePages ----------------------------
(***************************************************************************)
(* The pages on which rooms and exams are found, joined and started: the   *)
(* room cards (components/room/RoomCard.tsx, sections/HotRoom.tsx), the    *)
(* exam cards with what the user has completed (components/exam), the page *)
(* of a room and that of an exam. One free room and one exam with a time   *)
(* window stand for all: those that cost and those without a window only   *)
(* follow links.                                                           *)
(***************************************************************************)
EXTENDS WebSession

VARIABLES
  joining,    \* <<>>, or handleRegister of a room card after its await
  starting    \* <<>>, or handleStart of an exam page after its await

catalogueVars == <<joining, starting>>

CatalogueInit == joining = <<>> /\ starting = <<>>

OnPage == UNCHANGED <<route, props, user, override, stray>>
SameServer == UNCHANGED serverVars
NoSession == UNCHANGED <<tour, cookie, isLoading, sessionVars>>

-----------------------------------------------------------------------------
(***************************************************************************)
(* Room cards.                                                             *)
(***************************************************************************)
\* getRoomAccess: an override of the user shown, or else the card's own.
EffectiveHasAccess == override \/ page.localHasAccess

\* handleRegister: guests are sent to the login page.
RegisterRoomAsGuest ==
  /\ route \in RoomCards /\ Visible /\ ~EffectiveHasAccess
  /\ "room" \in tour.links
  /\ ~isLoading /\ joining = <<>> /\ user = NoUser
  /\ Go("login")
  /\ SameServer /\ NoSession /\ UNCHANGED <<faults, catalogueVars>>

\* A room with a price leads to its payment page.
RegisterPaidRoom ==
  /\ route \in RoomCards /\ Visible /\ ~isLoading /\ user # NoUser
  /\ "payment" \in tour.links /\ Go("payment")
  /\ SameServer /\ NoSession /\ UNCHANGED <<faults, catalogueVars>>

\* joinRoom, with the cookie of this moment; "closed" are the room that needs a
\* payment after all, and a refused or failed request.
RegisterRoom ==
  /\ route \in RoomCards /\ Visible /\ ~EffectiveHasAccess
  /\ "room" \in tour.links
  /\ ~isLoading /\ joining = <<>> /\ user # NoUser
  /\ \E reply \in {"granted", "requires_payment", "error"} :
       /\ reply # "error" => cookie # NoUser
       /\ joining' = <<reply, user>>
       /\ held' = IF reply = "granted" THEN held \cup {cookie} ELSE held
  /\ UNCHANGED <<viewVars, done, clock, faults, starting>> /\ NoSession

\* The reply: the card's own state is gone if the card is, the override is that of
\* a provider that may be gone; the room is shown and rendered anew all the same.
JoinSucceeds ==
  /\ joining # <<>> /\ joining[1] = "granted" /\ joining' = <<>>
  /\ Show(user, "room", cookie)
  /\ override' = (override \/ joining[2] = user)
  /\ refreshing' = TRUE
  /\ SameServer
  /\ UNCHANGED <<tour, cookie, isLoading, hasSession, me, signing, owner, overtaken, faults,
                 starting>>

JoinNeedsPayment ==
  /\ joining # <<>> /\ joining[1] = "requires_payment" /\ joining' = <<>>
  /\ Go("payment")
  /\ SameServer /\ NoSession /\ UNCHANGED <<faults, starting>>

JoinFails ==
  /\ joining # <<>> /\ joining[1] = "error" /\ joining' = <<>>
  /\ UNCHANGED <<viewVars, faults, starting>> /\ SameServer /\ NoSession

\* "Xem chi tiet" of a card.
OpenRoom ==
  /\ route \in RoomCards /\ Visible /\ EffectiveHasAccess
  /\ "room" \in tour.links /\ Go("room")
  /\ SameServer /\ NoSession /\ UNCHANGED <<faults, catalogueVars>>

-----------------------------------------------------------------------------
(***************************************************************************)
(* Exam cards.                                                             *)
(***************************************************************************)
CanFetchCompletion == user # NoUser /\ ~isLoading

\* getExamCompletion: the answer is made at once and arrives some time.
Fetch ==
  IF cookie = NoUser THEN "unauthorized" ELSE IF cookie \in done THEN "completed" ELSE "open"

\* The effect of the grid, once the user is known, and its focus listener, whose
\* requests are not cancelled.
FetchCompletion ==
  /\ route \in ExamGrids /\ Visible /\ CanFetchCompletion
  /\ ~page.fetched /\ "exams" \in tour.links
  /\ page' = [page EXCEPT !.fetched = TRUE, !.fetches = @ \cup {Fetch}]
  /\ OnPage /\ SameServer /\ NoSession /\ UNCHANGED <<faults, catalogueVars>>

WindowFocus ==
  /\ route \in ExamGrids /\ Visible /\ CanFetchCompletion /\ page.fetched
  /\ page' = [page EXCEPT !.fetches = @ \cup {Fetch}]
  /\ OnPage /\ SameServer /\ NoSession /\ UNCHANGED <<faults, catalogueVars>>

\* In any order; a failure other than 401 changes nothing.
CompletionArrives ==
  /\ route \in ExamGrids
  /\ \E f \in page.fetches :
       \/ /\ page' = [page EXCEPT !.fetches = @ \ {f}, !.completion = (f = "completed"),
                                  !.seen = clock]
          /\ UNCHANGED faults
       \/ /\ f # "unauthorized" /\ Fault
          /\ page' = [page EXCEPT !.fetches = @ \ {f}]
  /\ OnPage /\ SameServer /\ NoSession /\ UNCHANGED catalogueVars

\* ExamCard.
Completed == CanFetchCompletion /\ page.completion
Ended == CanFetchCompletion /\ page.seen = "after"

OpenExam ==
  /\ route \in ExamGrids /\ Visible /\ ~Completed /\ ~Ended
  /\ "exam" \in tour.links /\ Go("exam")
  /\ SameServer /\ NoSession /\ UNCHANGED <<faults, catalogueVars>>

-----------------------------------------------------------------------------
(***************************************************************************)
(* The page of a room: its exams are listed for those with access, as they *)
(* were when the server rendered them.                                     *)
(***************************************************************************)
RoomExamDisabled == page.exam.completed \/ page.resolvedMode = "ended"

\* handleActionClick of RoomExamCard, with the mode of the last render; opening the
\* dialog renders again.
OpenRoomExam ==
  /\ route = "room" /\ page.exam.access /\ page.dialog = "closed" /\ ~RoomExamDisabled
  /\ \/ page.resolvedMode = "ready" /\ Go("exam")
     \/ /\ page.resolvedMode # "ready"
        /\ page' = [page EXCEPT !.dialog = page.resolvedMode,
                                !.resolvedMode = DialogMode(clock)]
        /\ OnPage
  /\ SameServer /\ NoSession /\ UNCHANGED <<faults, catalogueVars>>

CloseRoomDialog ==
  /\ route = "room" /\ page.dialog # "closed"
  /\ page' = [page EXCEPT !.dialog = "closed", !.resolvedMode = DialogMode(clock)]
  /\ OnPage /\ SameServer /\ NoSession /\ UNCHANGED <<faults, catalogueVars>>

-----------------------------------------------------------------------------
(***************************************************************************)
(* The page of an exam: StartExamDialog. Its mode is computed when the     *)
(* page is mounted.                                                        *)
(***************************************************************************)
OpenDialog ==
  /\ route = "exam" /\ Visible /\ page.dialog = "closed"
  /\ page' = [page EXCEPT !.dialog = page.resolvedMode]
  /\ OnPage /\ SameServer /\ NoSession /\ UNCHANGED <<faults, catalogueVars>>

CloseDialog ==
  /\ route = "exam" /\ page.dialog # "closed"
  /\ page' = [page EXCEPT !.dialog = "closed"]
  /\ OnPage /\ SameServer /\ NoSession /\ UNCHANGED <<faults, catalogueVars>>

\* StartAttempt of the server.
StartReply ==
  CASE cookie = NoUser -> "error"
    [] cookie # NoUser /\ clock = "before" -> "not_started"
    [] cookie # NoUser /\ clock = "after" -> "ended"
    [] cookie \in done /\ clock = "during" -> "completed"
    [] OTHER -> "started"

\* handleStart.
StartExam ==
  /\ route = "exam" /\ Visible /\ page.dialog = "ready" /\ ~page.isStarting
  /\ starting = <<>>
  /\ starting' = <<StartReply>>
  /\ page' = [page EXCEPT !.isStarting = TRUE]
  /\ OnPage /\ SameServer /\ NoSession /\ UNCHANGED <<faults, joining>>

\* The attempt replaces whatever page is shown by then.
StartSucceeds ==
  /\ starting = <<"started">> /\ starting' = <<>>
  /\ Go("attempt")
  /\ SameServer /\ NoSession /\ UNCHANGED <<faults, joining>>

\* A refusal changes the mode of the dialog, if it is still there.
StartRefused ==
  /\ starting # <<>> /\ starting # <<"started">> /\ starting' = <<>>
  /\ page' =
       IF route # "exam" \/ ~page.isStarting THEN page
       ELSE [page EXCEPT !.isStarting = FALSE,
                         !.dialog = IF starting[1] = "error" \/ @ = "closed" THEN @
                                    ELSE starting[1]]
  /\ OnPage /\ SameServer /\ NoSession /\ UNCHANGED <<faults, joining>>

\* The attempt is submitted here or on another device.
Complete ==
  /\ clock # "before"
  /\ \E u \in tour.users \ done : done' = done \cup {u}
  /\ UNCHANGED <<viewVars, held, clock, faults, catalogueVars>> /\ NoSession

Tick ==
  /\ clock' = IF clock = "before" THEN "during" ELSE "after"
  /\ clock # "after" /\ tour.links \cap {"exams", "exam"} # {}
  /\ UNCHANGED <<viewVars, held, done, faults, catalogueVars>> /\ NoSession

CatalogueNext ==
  \/ RegisterRoomAsGuest \/ RegisterPaidRoom \/ RegisterRoom
  \/ JoinSucceeds \/ JoinNeedsPayment \/ JoinFails \/ OpenRoom
  \/ FetchCompletion \/ WindowFocus \/ CompletionArrives \/ OpenExam
  \/ OpenRoomExam \/ CloseRoomDialog
  \/ OpenDialog \/ CloseDialog \/ StartExam \/ StartSucceeds \/ StartRefused
  \/ Complete \/ Tick

=============================================================================
