------------------------------- MODULE WebRoute -------------------------------
(***************************************************************************)
(* What the pages of the web client outside an exam share: the page that   *)
(* is shown, the session cookie of the browser, the user the client        *)
(* believes in, and the server's view of one room that can be joined and   *)
(* one exam with a time window.                                            *)
(*                                                                         *)
(* A page is a record of its own state; it starts anew when another route  *)
(* is shown, and when another user is: RoomAccessProvider keys everything  *)
(* below it by the user's id.                                              *)
(***************************************************************************)
EXTENDS Naturals, Sequences

CONSTANTS
  User,
  Tours,      \* a behaviour keeps to the links and the users of one of them
  MaxFaults   \* bounds failed requests, reloads and expiries

NoUser == "nobody"
NoCall == "none"       \* no request under way

ASSUME WebAssumption ==
  /\ MaxFaults \in Nat
  /\ User \cap {NoUser, NoCall} = {}
  /\ \A t \in Tours : t.users \subseteq User

VARIABLES
  tour,        \* the one kept to
  route,       \* the page that is shown
  page,        \* its state
  props,       \* what the server rendered it with
  cookie,      \* whose access_token the browser holds
  user,        \* AuthProvider's user
  isLoading,   \* AuthProvider waits for its first getMe
  held,        \* server: the users with access to the room
  done,        \* server: the users who have submitted the exam
  clock,       \* "before", "during" or "after" the window of the exam
  override,    \* RoomAccessProvider: access granted to the user shown
  stray,       \* whose profile is in a reply that a page left behind will pass to updateUser
  faults

webVars == <<tour, route, page, props, cookie, user, isLoading, held, done, clock,
             override, stray, faults>>
serverVars == <<held, done, clock>>
viewVars == <<route, page, props, user, override, stray>>

Route == {"landing", "login", "register", "home", "rooms", "room", "payment", "exams",
          "exam", "attempt", "profile", "history"}

\* middleware.ts: not for those without a cookie.
Protected == {"home", "payment", "exams", "exam", "attempt", "profile", "history"}

\* RequireAuth: not shown without a user.
Guarded == {"home", "exam", "profile", "history"}

RoomCards == {"landing", "home", "rooms"}
ExamGrids == {"landing", "home", "exams"}

\* The content of the page is mounted.
Visible == route \in Guarded => ~isLoading /\ user # NoUser

Fault == faults < MaxFaults /\ faults' = faults + 1

-----------------------------------------------------------------------------
(***************************************************************************)
(* The pages as they are mounted.                                          *)
(***************************************************************************)
\* What the server renders into a page it sends to c: has_access, has_completed.
Props(c) == [to |-> c, access |-> c \in held, completed |-> c \in done]

\* resolveDialogMode.
DialogMode(time) ==
  CASE time = "before" -> "not_started" [] time = "after" -> "ended" [] OTHER -> "ready"

FreshLogin == [from |-> "home", isSubmitting |-> FALSE, armed |-> TRUE]

\* RoomCard, HotRoom and ExamCardGrid; "seen" is the time of the last render.
FreshCatalogue(p, time) ==
  [rooms |-> p, localHasAccess |-> p.access, fetched |-> FALSE, fetches |-> {},
   completion |-> FALSE, seen |-> time]

FreshRoom(p, time) == [exam |-> p, resolvedMode |-> DialogMode(time), dialog |-> "closed"]

FreshExam(time) ==
  [resolvedMode |-> DialogMode(time), dialog |-> "closed", isStarting |-> FALSE]

Address == [province : {"", "p", "q"}, ward : {"", "p", "q"}]

\* The values the server holds when the page is opened, and those of
\* buildInitialValues.
OldAddress == [province |-> "p", ward |-> "p"]
Fallback == [province |-> "", ward |-> ""]

\* The first loads of the profile and of the provinces are under way.
FreshProfile ==
  [values |-> Fallback, source |-> "fallback", raced |-> FALSE, touched |-> {},
   isEditing |-> FALSE, load |-> <<OldAddress, FALSE>>, save |-> <<>>, upload |-> <<>>,
   provinces |-> "loading", options |-> "", wards |-> "", isLocationsLoading |-> TRUE,
   saved |-> OldAddress, sends |-> 0]

HistorySize == 4    \* submitted attempts when the history is opened

FreshHistory ==
  [items |-> <<>>, nextCursor |-> 0, hasNextPage |-> FALSE, isLoading |-> TRUE,
   more |-> <<>>, error |-> FALSE, newest |-> HistorySize]

Fresh(r, p, time) ==
  CASE r = "login" -> FreshLogin
    [] r \in RoomCards \cup ExamGrids -> FreshCatalogue(p, time)
    [] r = "room" -> FreshRoom(p, time)
    [] r = "exam" -> FreshExam(time)
    [] r = "profile" -> FreshProfile
    [] r = "history" -> FreshHistory
    [] OTHER -> [plain |-> TRUE]

-----------------------------------------------------------------------------
(***************************************************************************)
(* Moving between pages.                                                   *)
(***************************************************************************)
\* middleware.
Middleware(p, c) == IF p \in Protected /\ c = NoUser THEN "login" ELSE p

\* A reply to updateProfileApi or updateAvatarApi is still to come.
Unanswered == route = "profile" /\ (page.save # <<>> \/ page.upload # <<>>)

\* The page r, reached instead of p; the login page remembers where one wanted to go.
Entered(r, p, anew, pr) ==
  LET shown == IF anew THEN Fresh(r, pr, clock) ELSE page
  IN IF r # p THEN [shown EXCEPT !.from = p] ELSE shown

\* The page p is asked for with the cookie c, and the user becomes u.
Show(u, p, c) ==
  LET r == Middleware(p, c) IN
  /\ user' = u /\ route' = r
  /\ props' = IF r # route THEN Props(c) ELSE props
  /\ page' = Entered(r, p, r # route \/ u # user, props')
  /\ stray' = IF (r # route \/ u # user) /\ Unanswered THEN user ELSE stray

\* Mutant of Override: without the key of RoomAccessProvider.
OverrideUnkeyed(u) == override

\* The override after the user has become u.
Override(u) == override /\ u = user

ShowAs(u, p, c) == Show(u, p, c) /\ override' = Override(u)

\* router.push, router.replace and links.
Go(p) == ShowAs(user, p, cookie)

\* The effects of a page that depend on the object "user": the profile is loaded
\* again, whatever load was under way is cancelled.
UserRefreshed ==
  IF route = "profile" THEN [page EXCEPT !.load = <<page.saved, FALSE>>]
  ELSE IF route = "login" THEN [page EXCEPT !.armed = TRUE]
  ELSE page

=============================================================================
