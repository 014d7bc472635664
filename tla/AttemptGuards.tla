---------------------------- MODULE AttemptGuards ----------------------------
(***************************************************************************)
(* What guards an exam on the attempt page (frontend/app/attempts/[id]/    *)
(* page.tsx): the count of absences, the fullscreen warning with its       *)
(* countdown, the dialog for those who leave, the back button and the      *)
(* screen of a blocked tab. All of them end in handleSubmit, which does    *)
(* nothing while the page loads, is blocked or submits already. The        *)
(* answers are in AttemptPage, the lock in AttemptTabs.                    *)
(***************************************************************************)
EXTENDS AttemptRoute

CONSTANTS
  MaxViolations,   \* ATTEMPT_MAX_FOCUS_VIOLATIONS
  WarningSeconds   \* 10, the countdown of the fullscreen warning

ASSUME GuardsAssumption ==
  MaxViolations \in Nat \ {0} /\ WarningSeconds \in Nat \ {0}

VARIABLES
  loaded,       \* "loading", "exam" or "error"
  blocked,      \* isTabBlocked
  submitting,   \* submitStateRef
  looking,      \* the window has the focus
  away,         \* isFocusAwayRef
  violations,   \* focusViolationCount, capped
  fullscreen,   \* document.fullscreenElement is set
  entered,      \* wasFullscreenActiveRef
  asking,       \* requestFullscreen is under way
  warning,      \* fullscreenCountdown while the warning is open, or Closed
  leaving,      \* isLeaveDialogOpen
  notice,       \* isFocusViolationDialogOpen
  guarded,      \* the history has an entry of the page to go back from
  missed        \* history: the guards a refused or failed submit has undone

pageVars == <<loaded, blocked, submitting>>
focusVars == <<looking, away, violations, notice>>
screenVars == <<fullscreen, entered, asking, warning>>
otherVars == <<leaving, guarded, missed>>
guardVars == <<pageVars, focusVars, screenVars, otherVars>>

Closed == 0
Guard == {"absence", "fullscreen", "history"}

\* The page when it is mounted; fullscreen is the document's and stays.
Mounted ==
  /\ loaded = "loading" /\ blocked = FALSE /\ submitting = FALSE
  /\ looking = TRUE /\ away = FALSE /\ violations = 0 /\ notice = FALSE
  /\ entered = fullscreen /\ asking = FALSE /\ warning = Closed
  /\ leaving = FALSE /\ guarded = TRUE /\ missed = {}

GuardsInit == fullscreen = FALSE /\ Mounted

\* It is mounted, or unmounted.
Mount ==
  /\ loaded' = "loading" /\ blocked' = FALSE /\ submitting' = FALSE
  /\ looking' = TRUE /\ away' = FALSE /\ violations' = 0 /\ notice' = FALSE
  /\ entered' = fullscreen' /\ asking' = FALSE /\ warning' = Closed
  /\ leaving' = FALSE /\ guarded' = TRUE /\ missed' = {}

Leave(page) ==
  /\ route' = page
  /\ UNCHANGED <<status, sheet>>

Stays == UNCHANGED <<route, status, sheet>>

-----------------------------------------------------------------------------
(***************************************************************************)
(* Opening the page.                                                       *)
(***************************************************************************)
\* From the start dialog, which asks for fullscreen, or by its address.
OpenAttempt ==
  /\ route = "home"
  /\ Leave("attempt")
  /\ fullscreen' \in BOOLEAN
  /\ Mount
  /\ UNCHANGED faults

\* getAttempt; an attempt that is over has a result to be shown.
Load ==
  /\ route = "attempt" /\ loaded = "loading"
  /\ IF status = "open"
     THEN /\ loaded' = "exam" /\ Stays
          /\ UNCHANGED <<blocked, submitting, focusVars, screenVars, otherVars>>
     ELSE Leave("result") /\ UNCHANGED fullscreen /\ Mount
  /\ UNCHANGED faults

LoadFails ==
  /\ route = "attempt" /\ loaded = "loading" /\ Fault
  /\ loaded' = "error"
  /\ Stays /\ UNCHANGED <<blocked, submitting, focusVars, screenVars, otherVars>>

\* The refresh keys do nothing in an exam that is not blocked or submitted, the
\* browser's button asks first (beforeunload).
Reload ==
  /\ route = "attempt" /\ Fault
  /\ fullscreen' = FALSE /\ Mount
  /\ Stays

\* The button of a blocked tab, or another address, after the browser has asked. A
\* submit that is under way goes on without the page.
GoHome ==
  /\ route = "attempt"
  /\ route' = "home"
  /\ status' \in {status, IF status = "open" /\ submitting THEN "grading" ELSE status}
  /\ UNCHANGED <<sheet, fullscreen, faults>>
  /\ Mount

-----------------------------------------------------------------------------
(***************************************************************************)
(* Submitting.                                                             *)
(***************************************************************************)
\* Mutant of TrySubmit: a blocked tab submits too.
TrySubmitAnyway(g) ==
  IF loaded = "exam"
  THEN submitting' = TRUE /\ missed' = missed
  ELSE submitting' = submitting /\ missed' = IF submitting THEN missed ELSE missed \cup {g}

\* handleSubmit, for the guard g: it submits, or it is given up.
TrySubmit(g) ==
  IF loaded = "exam" /\ ~blocked
  THEN submitting' = TRUE /\ missed' = missed
  ELSE submitting' = submitting /\ missed' = IF submitting THEN missed ELSE missed \cup {g}

InExam == route = "attempt" /\ loaded = "exam" /\ ~blocked

\* The button of the candidate, or the end of the time (see AttemptPage).
Submit ==
  /\ InExam /\ ~submitting
  /\ submitting' = TRUE
  /\ Stays /\ UNCHANGED <<loaded, blocked, focusVars, screenVars, otherVars, faults>>

\* handleSubmit leaves fullscreen and the page.
SubmitSucceeds ==
  /\ route = "attempt" /\ submitting
  /\ route' = "result"
  /\ status' = (IF status = "open" THEN "grading" ELSE status)
  /\ fullscreen' = FALSE /\ Mount
  /\ UNCHANGED <<sheet, faults>>

\* It fails at the client, whatever the server has done. Nothing looks again at
\* what the guards let pass in the meantime.
SubmitFails ==
  /\ route = "attempt" /\ submitting /\ Fault
  /\ submitting' = FALSE
  /\ missed' = Guard
  /\ status' \in {status, IF status = "open" THEN "grading" ELSE status}
  /\ UNCHANGED <<route, sheet, loaded, blocked, focusVars, screenVars, leaving, guarded>>

-----------------------------------------------------------------------------
(***************************************************************************)
(* Absences: the tab is hidden or the window loses the focus.              *)
(***************************************************************************)
LookAway ==
  /\ route = "attempt" /\ looking
  /\ looking' = FALSE
  /\ away' = (away \/ ~(submitting \/ blocked))
  /\ Stays
  /\ UNCHANGED <<pageVars, violations, notice, screenVars, otherVars, faults>>

\* Mutant of LookBack: the return from the last absence only shows the notice.
LookBackPolitely ==
  /\ route = "attempt" /\ ~looking
  /\ looking' = TRUE /\ away' = FALSE
  /\ violations' = IF away /\ violations < MaxViolations THEN violations + 1 ELSE violations
  /\ notice' = (notice \/ (away /\ warning = Closed))
  /\ UNCHANGED <<submitting, missed>>
  /\ Stays
  /\ UNCHANGED <<loaded, blocked, screenVars, leaving, guarded, faults>>

\* handleFocusReturn: the return from the last allowed absence, and from any one
\* after it, submits; the others show a notice, unless the warning is open.
LookBack ==
  LET last == away /\ violations + 1 >= MaxViolations IN
  /\ route = "attempt" /\ ~looking
  /\ looking' = TRUE /\ away' = FALSE
  /\ violations' = IF away /\ violations < MaxViolations THEN violations + 1 ELSE violations
  /\ IF last
     THEN notice' = FALSE /\ TrySubmit("absence")
     ELSE /\ notice' = (notice \/ (away /\ warning = Closed))
          /\ UNCHANGED <<submitting, missed>>
  /\ Stays
  /\ UNCHANGED <<loaded, blocked, screenVars, leaving, guarded, faults>>

-----------------------------------------------------------------------------
(***************************************************************************)
(* Fullscreen.                                                             *)
(***************************************************************************)
\* The key Esc, or the browser.
ExitFullscreen ==
  /\ route = "attempt" /\ fullscreen
  /\ fullscreen' = FALSE
  /\ warning' = IF entered /\ ~submitting THEN WarningSeconds ELSE warning
  /\ Stays /\ UNCHANGED <<pageVars, focusVars, entered, asking, otherVars, faults>>

\* handleReturnToFullscreen; the warning counts on until the browser agrees.
AskForFullscreen ==
  /\ InExam /\ warning # Closed /\ ~asking
  /\ asking' = TRUE
  /\ Stays
  /\ UNCHANGED <<pageVars, focusVars, fullscreen, entered, warning, otherVars, faults>>

FullscreenGranted ==
  /\ route = "attempt" /\ asking
  /\ asking' = FALSE
  /\ fullscreen' = TRUE /\ entered' = TRUE /\ warning' = Closed
  /\ missed' = missed \ {"fullscreen"}
  /\ Stays /\ UNCHANGED <<pageVars, focusVars, leaving, guarded, faults>>

FullscreenDenied ==
  /\ route = "attempt" /\ asking
  /\ asking' = FALSE
  /\ Stays
  /\ UNCHANGED <<pageVars, focusVars, fullscreen, entered, warning, otherVars, faults>>

\* Mutant of CountDown: it waits for the dialog of those who leave.
CountDownWaits ==
  /\ route = "attempt" /\ warning # Closed /\ ~leaving
  /\ warning' = warning - 1
  /\ IF warning = 1 THEN TrySubmit("fullscreen") ELSE UNCHANGED <<submitting, missed>>
  /\ Stays
  /\ UNCHANGED <<loaded, blocked, focusVars, fullscreen, entered, asking, leaving, guarded, faults>>

\* A second of the warning. With the last one it closes, and submits.
CountDown ==
  /\ route = "attempt" /\ warning # Closed
  /\ warning' = warning - 1
  /\ IF warning = 1 THEN TrySubmit("fullscreen") ELSE UNCHANGED <<submitting, missed>>
  /\ Stays
  /\ UNCHANGED <<loaded, blocked, focusVars, fullscreen, entered, asking, leaving, guarded, faults>>

-----------------------------------------------------------------------------
(***************************************************************************)
(* Dialogs and the history.                                                *)
(***************************************************************************)
\* What the page shows: dialogs lie over the paper, the notice of an absence
\* under the warning.
View ==
  IF loaded # "exam" THEN {loaded}
  ELSE IF blocked THEN {"tabBlocked"}
  ELSE {"paper"}
         \cup (IF leaving THEN {"leaveDialog"} ELSE {})
         \cup (IF warning # Closed THEN {"fullscreenWarning"} ELSE {})
         \cup (IF notice /\ warning = Closed THEN {"focusNotice"} ELSE {})

Shown(d) == route = "attempt" /\ d \in View

\* A click on a link of this site, for example in the text of a question.
ClickLink ==
  /\ route = "attempt" /\ View = {"paper"} /\ ~submitting
  /\ leaving' = TRUE
  /\ Stays /\ UNCHANGED <<pageVars, focusVars, screenVars, guarded, missed, faults>>

StayInExam ==
  /\ Shown("leaveDialog")
  /\ leaving' = FALSE
  /\ Stays /\ UNCHANGED <<pageVars, focusVars, screenVars, guarded, missed, faults>>

ConfirmLeave ==
  /\ Shown("leaveDialog")
  /\ leaving' = FALSE
  /\ submitting' = TRUE
  /\ Stays
  /\ UNCHANGED <<loaded, blocked, focusVars, screenVars, guarded, missed, faults>>

ResumeExam ==
  /\ Shown("focusNotice")
  /\ notice' = FALSE
  /\ Stays
  /\ UNCHANGED <<pageVars, looking, away, violations, screenVars, otherVars, faults>>

\* The back button of the browser. The page answers it with a new entry, not
\* during a submit: a second use leaves the page, without any question.
Back ==
  /\ route = "attempt" /\ (submitting \/ ~guarded)
  /\ IF guarded
     THEN /\ guarded' = FALSE /\ Stays
          /\ UNCHANGED <<pageVars, focusVars, screenVars, leaving, missed>>
     ELSE GoHome
  /\ UNCHANGED faults

-----------------------------------------------------------------------------
(***************************************************************************)
(* The tab lock (AttemptTabs) and the end of the attempt on the server.    *)
(***************************************************************************)
\* Another tab has the lock, or wins it at this moment: then the dialogs close,
\* the warning with them. The history gets its entry again.
TabBlocked ==
  /\ route = "attempt" /\ ~blocked /\ ~submitting
  /\ blocked' = TRUE /\ guarded' = TRUE
  /\ \/ missed' = missed \ {"history"} /\ UNCHANGED <<warning, leaving, notice>>
     \/ /\ warning' = Closed /\ leaving' = FALSE /\ notice' = FALSE
        /\ missed' = (missed \ {"history"}) \cup {"fullscreen"}
  /\ Stays
  /\ UNCHANGED <<loaded, submitting, looking, away, violations, fullscreen, entered,
                 asking, faults>>

TabUnblocked ==
  /\ route = "attempt" /\ blocked
  /\ blocked' = FALSE /\ guarded' = TRUE
  /\ missed' = missed \ {"history"}
  /\ Stays
  /\ UNCHANGED <<loaded, submitting, focusVars, screenVars, leaving, faults>>

\* syncAttemptTiming finds the attempt closed.
ResyncLeaves ==
  /\ InExam /\ status # "open"
  /\ Leave("result") /\ UNCHANGED <<fullscreen, faults>> /\ Mount

GuardsNext ==
  \/ OpenAttempt \/ Load \/ LoadFails \/ Reload \/ GoHome
  \/ Submit \/ SubmitSucceeds \/ SubmitFails
  \/ LookAway \/ LookBack
  \/ ExitFullscreen \/ AskForFullscreen \/ FullscreenGranted \/ FullscreenDenied
  \/ CountDown
  \/ ClickLink \/ StayInExam \/ ConfirmLeave \/ ResumeExam \/ Back
  \/ TabBlocked \/ TabUnblocked \/ ResyncLeaves

\* Timers run, requests and the browser answer.
GuardsFairness ==
  /\ WF_<<routeVars, guardVars>>(Load)
  /\ WF_<<routeVars, guardVars>>(CountDown)
  /\ WF_<<routeVars, guardVars>>(FullscreenGranted \/ FullscreenDenied)
  /\ WF_<<routeVars, guardVars>>(SubmitSucceeds)

-----------------------------------------------------------------------------
GuardsTypeOK ==
  /\ loaded \in {"loading", "exam", "error"}
  /\ {blocked, submitting, looking, away, notice} \subseteq BOOLEAN
  /\ {fullscreen, entered, asking, leaving, guarded} \subseteq BOOLEAN
  /\ violations \in 0 .. MaxViolations /\ warning \in 0 .. WarningSeconds
  /\ missed \subseteq Guard
  /\ submitting => loaded = "exam" /\ ~blocked

\* What each guard demands of an exam that is not being submitted.
Kept(g) ==
  CASE g = "absence" -> violations < MaxViolations
    [] g = "fullscreen" -> entered => fullscreen \/ warning # Closed
    [] g = "history" -> guarded

\* A candidate goes on only within the rules: fewer absences than the limit, in
\* fullscreen or with the countdown running, and the back button does not lead
\* away. A submit that fails or is given up (a blocked or a loading page) undoes
\* that, and nothing demands it again.
GuardsHold ==
  route = "attempt" /\ ~submitting => \A g \in Guard \ missed : Kept(g)

\* The warning ends in fullscreen, in a submit, or on another page, unless the
\* page is loaded again, which forgets that it was in fullscreen, or the submit is
\* given up.
WarningEnds ==
  warning # Closed ~>
    fullscreen \/ submitting \/ route # "attempt" \/ ~entered \/ missed # {}

=============================================================================
