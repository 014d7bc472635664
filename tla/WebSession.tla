------------------------------ MODULE WebSession ------------------------------
(***************************************************************************)
(* Who is signed in (frontend/lib/auth, middleware.ts, the login and the   *)
(* registration page, the header). The cookie is the server's answer; the  *)
(* user in AuthProvider is set by replies that arrive in any order.        *)
(***************************************************************************)
EXTENDS WebRoute

VARIABLES
  hasSession,  \* whether the layout saw a cookie when it was last rendered
  me,          \* loadUser: whose cookie getMe was sent with, or NoCall
  signing,     \* <<>>, or the login, logout or registration under way
  refreshing,  \* router.refresh() is under way
  owner,       \* history: who the last load, login or logout was for
  overtaken    \* history: a reply can come, or has come, after a newer one

standing == <<refreshing, owner, overtaken>>
sessionVars == <<hasSession, me, signing, standing>>

\* A page is loaded by the browser: nothing of the old one remains.
Loaded(p) ==
  LET r == Middleware(p, cookie) IN
  /\ route' = r /\ props' = Props(cookie)
  /\ page' = Entered(r, p, TRUE, props')
  /\ user' = NoUser /\ override' = FALSE /\ stray' = NoCall
  /\ hasSession' = (cookie # NoUser) /\ isLoading' = (cookie # NoUser)
  /\ me' = IF cookie # NoUser THEN cookie ELSE NoCall
  /\ signing' = <<>> /\ refreshing' = FALSE
  /\ owner' = cookie /\ overtaken' = FALSE

SessionInit ==
  /\ tour \in Tours
  /\ cookie \in tour.users \cup {NoUser}
  /\ held = {} /\ done = {} /\ clock = "before" /\ faults = 0
  /\ route = "landing" /\ props = Props(cookie)
  /\ page = Fresh("landing", props, clock)
  /\ user = NoUser /\ override = FALSE /\ stray = NoCall
  /\ hasSession = (cookie # NoUser) /\ isLoading = (cookie # NoUser)
  /\ me = IF cookie # NoUser THEN cookie ELSE NoCall
  /\ signing = <<>> /\ refreshing = FALSE /\ owner = cookie /\ overtaken = FALSE

Reload ==
  /\ Fault /\ Loaded(route)
  /\ UNCHANGED <<tour, cookie, serverVars>>

\* The cookie's two hours are over.
CookieExpires ==
  /\ cookie # NoUser /\ Fault /\ cookie' = NoUser
  /\ UNCHANGED <<tour, viewVars, isLoading, serverVars, sessionVars>>

-----------------------------------------------------------------------------
(***************************************************************************)
(* AuthProvider.                                                           *)
(***************************************************************************)
\* The first getMe has set isLoading: what RequireAuth hides is mounted now, the
\* rest stays unless the user is another.
Known(u) ==
  /\ isLoading' = FALSE /\ user' = u
  /\ page' = IF u # user \/ (isLoading /\ route \in Guarded)
             THEN Fresh(route, props, clock) ELSE UserRefreshed
  /\ override' = Override(u)
  /\ stray' = IF u # user /\ Unanswered THEN user ELSE stray
  /\ UNCHANGED <<route, props>>

MeReplies ==
  /\ me # NoCall /\ me' = NoCall
  /\ \/ Known(me) /\ UNCHANGED faults
     \/ Known(NoUser) /\ Fault
  /\ UNCHANGED <<tour, cookie, serverVars, hasSession, signing, refreshing, owner,
                 overtaken>>

\* Mutant of Asked: the request of the session before is not cancelled.
AskedStill(session) == IF session # hasSession /\ session THEN cookie ELSE me

\* loadUser's effect, when the layout is rendered with or without a session: if that
\* is new, a request under way is cancelled.
Asked(session) ==
  IF session = hasSession THEN me ELSE IF session THEN cookie ELSE NoCall

\* The props of the page that is shown after router.refresh(): RoomCard takes over
\* has_access in an effect, HotRoom keeps the rooms it was mounted with.
Rerendered(pr) ==
  CASE route = "rooms" -> [page EXCEPT !.rooms = pr, !.localHasAccess = pr.access]
    [] route = "room" -> [page EXCEPT !.exam = pr]
    [] OTHER -> page

\* The server renders the layout and the page anew; without a session the user is
\* forgotten.
RefreshLands ==
  LET session == cookie # NoUser
      forget == hasSession /\ ~session
  IN /\ refreshing /\ refreshing' = FALSE
     /\ hasSession' = session /\ me' = Asked(session)
     /\ user' = IF forget THEN NoUser ELSE user
     /\ isLoading' = (isLoading /\ ~forget)
     /\ props' = Props(cookie)
     /\ page' = IF user' # user THEN Fresh(route, props', clock) ELSE Rerendered(props')
     /\ override' = Override(user')
     /\ stray' = IF user' # user /\ Unanswered THEN user ELSE stray
     /\ UNCHANGED <<tour, route, cookie, serverVars, owner, overtaken, signing, faults>>

-----------------------------------------------------------------------------
(***************************************************************************)
(* The login page, the registration page and the header's menu. A page     *)
(* that is left does not stop what it has begun.                           *)
(***************************************************************************)
Signing == signing # <<>>
Unaffected == UNCHANGED <<tour, isLoading, serverVars, hasSession, me>>

\* handleSubmit of the login page.
Login(u) ==
  /\ route = "login" /\ ~page.isSubmitting /\ ~Signing
  /\ signing' = <<"login", u>>
  /\ page' = [page EXCEPT !.isSubmitting = TRUE]
  /\ Unaffected
  /\ UNCHANGED <<route, props, cookie, user, override, stray, faults, standing>>

\* The page named by "from" of the address shown by then replaces this one, unless
\* the login page's own redirection to /home comes after it.
LoginSucceeds ==
  /\ Signing /\ signing[1] = "login" /\ signing' = <<>>
  /\ cookie' = signing[2]
  /\ LET from == IF route = "login" THEN page.from ELSE "home" IN
     \E p \in {from} \cup (IF route = "login" /\ ~isLoading THEN {"home"} ELSE {}) :
       ShowAs(signing[2], p, signing[2])
  /\ owner' = signing[2] /\ overtaken' = (overtaken \/ me # NoCall)
  /\ Unaffected /\ UNCHANGED <<faults, refreshing>>

LoginFails ==
  /\ Signing /\ signing[1] = "login" /\ signing' = <<>>
  /\ page' = IF route = "login" THEN [page EXCEPT !.isSubmitting = FALSE] ELSE page
  /\ Unaffected
  /\ UNCHANGED <<route, props, cookie, user, override, stray, faults, standing>>

\* The effect of the login page for those who are signed in.
LoginRedirectsHome ==
  /\ route = "login" /\ page.armed /\ ~isLoading /\ user # NoUser
  /\ IF cookie = NoUser
     THEN /\ page' = [page EXCEPT !.armed = FALSE, !.from = "home"]
          /\ UNCHANGED <<route, props, user, override, stray>>
     ELSE Go("home")
  /\ Unaffected /\ UNCHANGED <<cookie, signing, faults, standing>>

\* useRequireAuth.
RequireAuthRedirects ==
  /\ route \in Guarded /\ ~isLoading /\ user = NoUser
  /\ Go("login")
  /\ Unaffected /\ UNCHANGED <<cookie, signing, faults, standing>>

\* handleSubmit of the registration page, and its end: router.push("/login").
Register ==
  /\ route = "register" /\ ~Signing
  /\ signing' = <<"register">>
  /\ Unaffected
  /\ UNCHANGED <<viewVars, cookie, faults, standing>>

RegisterSucceeds ==
  /\ signing = <<"register">> /\ signing' = <<>>
  /\ Go("login")
  /\ Unaffected /\ UNCHANGED <<cookie, faults, standing>>

\* handleLogout of the header.
Logout ==
  /\ user # NoUser /\ ~Signing /\ route # "attempt"
  /\ signing' = <<"logout">>
  /\ Unaffected
  /\ UNCHANGED <<viewVars, cookie, faults, standing>>

\* The cookie is gone, the user forgotten, the landing page shown and asked for anew. On
\* a guarded page the redirect of useRequireAuth is under way too: either comes last.
LogoutSucceeds ==
  /\ signing = <<"logout">> /\ signing' = <<>>
  /\ cookie' = NoUser
  /\ \/ ShowAs(NoUser, "landing", NoUser)
     \/ route \in Guarded /\ ~isLoading /\ ShowAs(NoUser, "login", NoUser)
  /\ refreshing' = TRUE /\ owner' = NoUser /\ UNCHANGED overtaken
  /\ Unaffected /\ UNCHANGED faults

\* A registration or a logout fails: a message.
SigningFails ==
  /\ signing \in {<<"register">>, <<"logout">>} /\ signing' = <<>>
  /\ Unaffected
  /\ UNCHANGED <<viewVars, cookie, faults, standing>>

\* Header and the links of the pages: those of the tour.
Links ==
  CASE route = "attempt" -> {"home", "exam", "room", "history"}
    [] OTHER -> {"landing", "rooms", "exams"}
                \cup (IF user # NoUser THEN {"home", "profile", "history"} ELSE {"login"})
                \cup (IF route = "login" THEN {"register"} ELSE {})

FollowLink ==
  /\ Visible /\ \E p \in Links \cap tour.links : p # route /\ Go(p)
  /\ Unaffected /\ UNCHANGED <<cookie, signing, faults, standing>>

SessionNext ==
  \/ CookieExpires \/ MeReplies \/ RefreshLands
  \/ \E u \in tour.users : Login(u)
  \/ LoginSucceeds \/ LoginFails \/ LoginRedirectsHome \/ RequireAuthRedirects
  \/ Register \/ RegisterSucceeds \/ Logout \/ LogoutSucceeds \/ SigningFails
  \/ FollowLink

=============================================================================
