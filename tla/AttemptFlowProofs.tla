-------------------------- MODULE AttemptFlowProofs --------------------------
(***************************************************************************)
(* Proofs about AttemptFlow, for any papers and sheets, any limit of       *)
(* absences, any countdown and any number of faults.                       *)
(***************************************************************************)
EXTENDS AttemptFlow, PaperProofs, TLAPS

USE DEF routeVars, pageVars, focusVars, screenVars, otherVars, guardVars, loadVars,
        offerVars, resultVars, Closed, Guard, Page, Request, Fault

\* The assumptions, spelt out.
LEMMA Bounds ==
  MaxFaults \in Nat /\ MaxViolations \in Nat \ {0} /\ WarningSeconds \in Nat \ {0}
  BY RouteAssumption, GuardsAssumption DEF RouteAssumption, GuardsAssumption

-----------------------------------------------------------------------------
(***************************************************************************)
(* The exam page: its types and its rules.                                 *)
(***************************************************************************)
FlowTypeOK ==
  /\ route \in Page /\ status \in {"open", "grading", "graded"}
  /\ faults \in 0 .. MaxFaults

\* The part of TypeOK about the exam page, in pieces. A page that is not shown is as new,
\* which is why it begins within the rules.
Flags == {blocked, submitting, looking, away, notice} \subseteq BOOLEAN
ScreenFlags == {fullscreen, entered, asking, leaving, guarded} \subseteq BOOLEAN
Ranges == violations \in 0 .. MaxViolations /\ warning \in 0 .. WarningSeconds
Places == loaded \in {"loading", "exam", "error"} /\ missed \subseteq Guard
Consistent ==
  /\ submitting => loaded = "exam" /\ ~blocked
  /\ route # "attempt" => Mounted

GuardsInv == FlowTypeOK /\ Flags /\ ScreenFlags /\ Ranges /\ Places /\ Consistent

\* No page has been opened.
LEMMA GuardsInitially == Init => GuardsInv /\ GuardsHold
  <1> SUFFICES ASSUME Init PROVE GuardsInv /\ GuardsHold
    OBVIOUS
  <1>1. FlowTypeOK
    BY Bounds DEF Init, RouteInit, FlowTypeOK
  <1>2. Mounted /\ fullscreen \in BOOLEAN
    BY DEF Init, GuardsInit
  <1>3. Flags /\ ScreenFlags
    BY <1>2 DEF Flags, ScreenFlags, Mounted
  <1>4. Ranges /\ Places /\ Consistent
    BY <1>2, Bounds DEF Ranges, Places, Consistent, Mounted
  <1>5. QED
    BY <1>1, <1>2, <1>3, <1>4 DEF GuardsInv, GuardsHold, Init, RouteInit

\* One step per action of the exam page.
LEMMA GuardsTypeStep == GuardsInv /\ GuardsNext => GuardsInv'
  <1> SUFFICES ASSUME FlowTypeOK, Flags, ScreenFlags, Ranges, Places, Consistent, GuardsNext
               PROVE  GuardsInv'
    BY DEF GuardsInv
  <1> USE Bounds
      DEF FlowTypeOK, Flags, ScreenFlags, Ranges, Places, Consistent, Mounted, Mount
  <1>1. ASSUME OpenAttempt PROVE GuardsInv'
    BY <1>1 DEF OpenAttempt, Leave, GuardsInv
  <1>2. ASSUME Load PROVE GuardsInv'
    <2>1. FlowTypeOK'
      BY <1>2 DEF Load, Leave, Stays
    <2>2. Flags'
      BY <1>2 DEF Load, Leave, Stays
    <2>3. ScreenFlags'
      BY <1>2 DEF Load, Leave, Stays
    <2>4. Ranges'
      BY <1>2 DEF Load, Leave, Stays
    <2>5. Places'
      BY <1>2 DEF Load, Leave, Stays
    <2>6. Consistent'
      BY <1>2 DEF Load, Leave, Stays
    <2> HIDE DEF FlowTypeOK, Flags, ScreenFlags, Ranges, Places, Consistent
    <2>7. QED
      BY <2>1, <2>2, <2>3, <2>4, <2>5, <2>6 DEF GuardsInv
  <1>3. ASSUME LoadFails PROVE GuardsInv'
    BY <1>3 DEF LoadFails, Stays, GuardsInv
  <1>4. ASSUME Reload PROVE GuardsInv'
    <2>1. FlowTypeOK'
      BY <1>4 DEF Reload, Stays
    <2>2. Flags'
      BY <1>4 DEF Reload, Stays
    <2>3. ScreenFlags'
      BY <1>4 DEF Reload, Stays
    <2>4. Ranges'
      BY <1>4 DEF Reload, Stays
    <2>5. Places'
      BY <1>4 DEF Reload, Stays
    <2>6. Consistent'
      BY <1>4 DEF Reload, Stays
    <2> HIDE DEF FlowTypeOK, Flags, ScreenFlags, Ranges, Places, Consistent
    <2>7. QED
      BY <2>1, <2>2, <2>3, <2>4, <2>5, <2>6 DEF GuardsInv
  <1>5. ASSUME GoHome PROVE GuardsInv'
    <2>1. FlowTypeOK'
      BY <1>5 DEF GoHome
    <2>2. Flags'
      BY <1>5 DEF GoHome
    <2>3. ScreenFlags'
      BY <1>5 DEF GoHome
    <2>4. Ranges'
      BY <1>5 DEF GoHome
    <2>5. Places'
      BY <1>5 DEF GoHome
    <2>6. Consistent'
      BY <1>5 DEF GoHome
    <2> HIDE DEF FlowTypeOK, Flags, ScreenFlags, Ranges, Places, Consistent
    <2>7. QED
      BY <2>1, <2>2, <2>3, <2>4, <2>5, <2>6 DEF GuardsInv
  <1>6. ASSUME Submit PROVE GuardsInv'
    BY <1>6 DEF Submit, InExam, Stays, GuardsInv
  <1>7. ASSUME SubmitSucceeds PROVE GuardsInv'
    <2>1. FlowTypeOK'
      BY <1>7 DEF SubmitSucceeds
    <2>2. Flags'
      BY <1>7 DEF SubmitSucceeds
    <2>3. ScreenFlags'
      BY <1>7 DEF SubmitSucceeds
    <2>4. Ranges'
      BY <1>7 DEF SubmitSucceeds
    <2>5. Places'
      BY <1>7 DEF SubmitSucceeds
    <2>6. Consistent'
      BY <1>7 DEF SubmitSucceeds
    <2> HIDE DEF FlowTypeOK, Flags, ScreenFlags, Ranges, Places, Consistent
    <2>7. QED
      BY <2>1, <2>2, <2>3, <2>4, <2>5, <2>6 DEF GuardsInv
  <1>8. ASSUME SubmitFails PROVE GuardsInv'
    <2>1. FlowTypeOK'
      BY <1>8 DEF SubmitFails
    <2>2. Flags'
      BY <1>8 DEF SubmitFails
    <2>3. ScreenFlags'
      BY <1>8 DEF SubmitFails
    <2>4. Ranges'
      BY <1>8 DEF SubmitFails
    <2>5. Places'
      BY <1>8 DEF SubmitFails
    <2>6. Consistent'
      BY <1>8 DEF SubmitFails
    <2> HIDE DEF FlowTypeOK, Flags, ScreenFlags, Ranges, Places, Consistent
    <2>7. QED
      BY <2>1, <2>2, <2>3, <2>4, <2>5, <2>6 DEF GuardsInv
  <1>9. ASSUME LookAway PROVE GuardsInv'
    BY <1>9 DEF LookAway, Stays, GuardsInv
  <1>10. ASSUME LookBack PROVE GuardsInv'
    <2>1. FlowTypeOK'
      BY <1>10 DEF LookBack, TrySubmit, Stays
    <2>2. Flags'
      BY <1>10 DEF LookBack, TrySubmit, Stays
    <2>3. ScreenFlags'
      BY <1>10 DEF LookBack, TrySubmit, Stays
    <2>4. Ranges'
      BY <1>10 DEF LookBack, TrySubmit, Stays
    <2>5. Places'
      BY <1>10 DEF LookBack, TrySubmit, Stays
    <2>6. Consistent'
      BY <1>10 DEF LookBack, TrySubmit, Stays
    <2> HIDE DEF FlowTypeOK, Flags, ScreenFlags, Ranges, Places, Consistent
    <2>7. QED
      BY <2>1, <2>2, <2>3, <2>4, <2>5, <2>6 DEF GuardsInv
  <1>11. ASSUME ExitFullscreen PROVE GuardsInv'
    <2>1. FlowTypeOK'
      BY <1>11 DEF ExitFullscreen, Stays
    <2>2. Flags'
      BY <1>11 DEF ExitFullscreen, Stays
    <2>3. ScreenFlags'
      BY <1>11 DEF ExitFullscreen, Stays
    <2>4. Ranges'
      BY <1>11 DEF ExitFullscreen, Stays
    <2>5. Places'
      BY <1>11 DEF ExitFullscreen, Stays
    <2>6. Consistent'
      BY <1>11 DEF ExitFullscreen, Stays
    <2> HIDE DEF FlowTypeOK, Flags, ScreenFlags, Ranges, Places, Consistent
    <2>7. QED
      BY <2>1, <2>2, <2>3, <2>4, <2>5, <2>6 DEF GuardsInv
  <1>12. ASSUME AskForFullscreen PROVE GuardsInv'
    BY <1>12 DEF AskForFullscreen, InExam, Stays, GuardsInv
  <1>13. ASSUME FullscreenGranted PROVE GuardsInv'
    <2>1. FlowTypeOK'
      BY <1>13 DEF FullscreenGranted, Stays
    <2>2. Flags'
      BY <1>13 DEF FullscreenGranted, Stays
    <2>3. ScreenFlags'
      BY <1>13 DEF FullscreenGranted, Stays
    <2>4. Ranges'
      BY <1>13 DEF FullscreenGranted, Stays
    <2>5. Places'
      BY <1>13 DEF FullscreenGranted, Stays
    <2>6. Consistent'
      BY <1>13 DEF FullscreenGranted, Stays
    <2> HIDE DEF FlowTypeOK, Flags, ScreenFlags, Ranges, Places, Consistent
    <2>7. QED
      BY <2>1, <2>2, <2>3, <2>4, <2>5, <2>6 DEF GuardsInv
  <1>14. ASSUME FullscreenDenied PROVE GuardsInv'
    BY <1>14 DEF FullscreenDenied, Stays, GuardsInv
  <1>15. ASSUME CountDown PROVE GuardsInv'
    <2>1. FlowTypeOK'
      BY <1>15 DEF CountDown, TrySubmit, Stays
    <2>2. Flags'
      BY <1>15 DEF CountDown, TrySubmit, Stays
    <2>3. ScreenFlags'
      BY <1>15 DEF CountDown, TrySubmit, Stays
    <2>4. Ranges'
      BY <1>15 DEF CountDown, TrySubmit, Stays
    <2>5. Places'
      BY <1>15 DEF CountDown, TrySubmit, Stays
    <2>6. Consistent'
      BY <1>15 DEF CountDown, TrySubmit, Stays
    <2> HIDE DEF FlowTypeOK, Flags, ScreenFlags, Ranges, Places, Consistent
    <2>7. QED
      BY <2>1, <2>2, <2>3, <2>4, <2>5, <2>6 DEF GuardsInv
  <1>16. ASSUME ClickLink PROVE GuardsInv'
    BY <1>16 DEF ClickLink, View, Stays, GuardsInv
  <1>17. ASSUME StayInExam PROVE GuardsInv'
    BY <1>17 DEF StayInExam, Shown, View, Stays, GuardsInv
  <1>18. ASSUME ConfirmLeave PROVE GuardsInv'
    BY <1>18 DEF ConfirmLeave, Shown, View, Stays, GuardsInv
  <1>19. ASSUME ResumeExam PROVE GuardsInv'
    BY <1>19 DEF ResumeExam, Shown, View, Stays, GuardsInv
  <1>20. ASSUME Back PROVE GuardsInv'
    <2>1. FlowTypeOK'
      BY <1>20 DEF Back, GoHome, Stays
    <2>2. Flags'
      BY <1>20 DEF Back, GoHome, Stays
    <2>3. ScreenFlags'
      BY <1>20 DEF Back, GoHome, Stays
    <2>4. Ranges'
      BY <1>20 DEF Back, GoHome, Stays
    <2>5. Places'
      BY <1>20 DEF Back, GoHome, Stays
    <2>6. Consistent'
      BY <1>20 DEF Back, GoHome, Stays
    <2> HIDE DEF FlowTypeOK, Flags, ScreenFlags, Ranges, Places, Consistent
    <2>7. QED
      BY <2>1, <2>2, <2>3, <2>4, <2>5, <2>6 DEF GuardsInv
  <1>21. ASSUME TabBlocked PROVE GuardsInv'
    <2>1. FlowTypeOK'
      BY <1>21 DEF TabBlocked, Stays
    <2>2. Flags'
      BY <1>21 DEF TabBlocked, Stays
    <2>3. ScreenFlags'
      BY <1>21 DEF TabBlocked, Stays
    <2>4. Ranges'
      BY <1>21 DEF TabBlocked, Stays
    <2>5. Places'
      BY <1>21 DEF TabBlocked, Stays
    <2>6. Consistent'
      BY <1>21 DEF TabBlocked, Stays
    <2> HIDE DEF FlowTypeOK, Flags, ScreenFlags, Ranges, Places, Consistent
    <2>7. QED
      BY <2>1, <2>2, <2>3, <2>4, <2>5, <2>6 DEF GuardsInv
  <1>22. ASSUME TabUnblocked PROVE GuardsInv'
    BY <1>22 DEF TabUnblocked, Stays, GuardsInv
  <1>23. ASSUME ResyncLeaves PROVE GuardsInv'
    <2>1. FlowTypeOK'
      BY <1>23 DEF ResyncLeaves, InExam, Leave
    <2>2. Flags'
      BY <1>23 DEF ResyncLeaves, InExam, Leave
    <2>3. ScreenFlags'
      BY <1>23 DEF ResyncLeaves, InExam, Leave
    <2>4. Ranges'
      BY <1>23 DEF ResyncLeaves, InExam, Leave
    <2>5. Places'
      BY <1>23 DEF ResyncLeaves, InExam, Leave
    <2>6. Consistent'
      BY <1>23 DEF ResyncLeaves, InExam, Leave
    <2> HIDE DEF FlowTypeOK, Flags, ScreenFlags, Ranges, Places, Consistent
    <2>7. QED
      BY <2>1, <2>2, <2>3, <2>4, <2>5, <2>6 DEF GuardsInv
  <1>24. QED
    BY <1>1, <1>2, <1>3, <1>4, <1>5, <1>6, <1>7, <1>8, <1>9, <1>10, <1>11, <1>12,
       <1>13, <1>14, <1>15, <1>16, <1>17, <1>18, <1>19, <1>20, <1>21, <1>22, <1>23
       DEF GuardsNext

\* Every step that loosens what a guard demands also submits, or names the guard as missed.
LEMMA GuardsHoldStep == GuardsInv /\ GuardsHold /\ GuardsNext => GuardsHold'
  <1> SUFFICES ASSUME GuardsInv, GuardsHold, GuardsNext PROVE GuardsHold'
    OBVIOUS
  <1> USE Bounds
      DEF GuardsInv, FlowTypeOK, Flags, ScreenFlags, Ranges, Places, Consistent, Mounted,
          Mount, GuardsHold, Kept
  <1>1. ASSUME OpenAttempt PROVE GuardsHold'
    <2> SUFFICES ASSUME route' = "attempt", ~submitting'
                 PROVE  \A g \in Guard \ missed' : Kept(g)'
      BY DEF GuardsHold
    <2>1. "absence" \notin missed' => (violations' < MaxViolations)
      BY <1>1 DEF OpenAttempt, Leave
    <2>2. "fullscreen" \notin missed' => (entered' => fullscreen' \/ warning' # Closed)
      BY <1>1 DEF OpenAttempt, Leave
    <2>3. "history" \notin missed' => (guarded')
      BY <1>1 DEF OpenAttempt, Leave
    <2>4. QED
      BY <2>1, <2>2, <2>3
  <1>2. ASSUME Load PROVE GuardsHold'
    BY <1>2 DEF Load, Leave, Stays
  <1>3. ASSUME LoadFails PROVE GuardsHold'
    BY <1>3 DEF LoadFails, Stays
  <1>4. ASSUME Reload PROVE GuardsHold'
    <2> SUFFICES ASSUME route' = "attempt", ~submitting'
                 PROVE  \A g \in Guard \ missed' : Kept(g)'
      BY DEF GuardsHold
    <2>1. "absence" \notin missed' => (violations' < MaxViolations)
      BY <1>4 DEF Reload, Stays
    <2>2. "fullscreen" \notin missed' => (entered' => fullscreen' \/ warning' # Closed)
      BY <1>4 DEF Reload, Stays
    <2>3. "history" \notin missed' => (guarded')
      BY <1>4 DEF Reload, Stays
    <2>4. QED
      BY <2>1, <2>2, <2>3
  <1>5. ASSUME GoHome PROVE GuardsHold'
    BY <1>5 DEF GoHome
  <1>6. ASSUME Submit PROVE GuardsHold'
    BY <1>6 DEF Submit, InExam, Stays
  <1>7. ASSUME SubmitSucceeds PROVE GuardsHold'
    BY <1>7 DEF SubmitSucceeds
  <1>8. ASSUME SubmitFails PROVE GuardsHold'
    BY <1>8 DEF SubmitFails
  <1>9. ASSUME LookAway PROVE GuardsHold'
    BY <1>9 DEF LookAway, Stays
  <1>10. ASSUME LookBack PROVE GuardsHold'
    <2> SUFFICES ASSUME route' = "attempt", ~submitting'
                 PROVE  \A g \in Guard \ missed' : Kept(g)'
      BY DEF GuardsHold
    <2>0. ~submitting /\ "absence" \notin missed => violations < MaxViolations
      BY <1>10 DEF LookBack
    <2>1. "absence" \notin missed' => (violations' < MaxViolations)
      BY <2>0, <1>10 DEF LookBack, TrySubmit, Stays
    <2>2. "fullscreen" \notin missed' => (entered' => fullscreen' \/ warning' # Closed)
      BY <1>10 DEF LookBack, TrySubmit, Stays
    <2>3. "history" \notin missed' => (guarded')
      BY <1>10 DEF LookBack, TrySubmit, Stays
    <2>4. QED
      BY <2>1, <2>2, <2>3
  <1>11. ASSUME ExitFullscreen PROVE GuardsHold'
    BY <1>11 DEF ExitFullscreen, Stays
  <1>12. ASSUME AskForFullscreen PROVE GuardsHold'
    BY <1>12 DEF AskForFullscreen, InExam, Stays
  <1>13. ASSUME FullscreenGranted PROVE GuardsHold'
    BY <1>13 DEF FullscreenGranted, Stays
  <1>14. ASSUME FullscreenDenied PROVE GuardsHold'
    BY <1>14 DEF FullscreenDenied, Stays
  <1>15. ASSUME CountDown PROVE GuardsHold'
    <2> SUFFICES ASSUME route' = "attempt", ~submitting'
                 PROVE  \A g \in Guard \ missed' : Kept(g)'
      BY DEF GuardsHold
    <2>1. "absence" \notin missed' => (violations' < MaxViolations)
      BY <1>15 DEF CountDown, TrySubmit, Stays
    <2>2. "fullscreen" \notin missed' => (entered' => fullscreen' \/ warning' # Closed)
      BY <1>15 DEF CountDown, TrySubmit, Stays
    <2>3. "history" \notin missed' => (guarded')
      BY <1>15 DEF CountDown, TrySubmit, Stays
    <2>4. QED
      BY <2>1, <2>2, <2>3
  <1>16. ASSUME ClickLink PROVE GuardsHold'
    BY <1>16 DEF ClickLink, View, Stays
  <1>17. ASSUME StayInExam PROVE GuardsHold'
    BY <1>17 DEF StayInExam, Shown, View, Stays
  <1>18. ASSUME ConfirmLeave PROVE GuardsHold'
    BY <1>18 DEF ConfirmLeave, Shown, View, Stays
  <1>19. ASSUME ResumeExam PROVE GuardsHold'
    BY <1>19 DEF ResumeExam, Shown, View, Stays
  <1>20. ASSUME Back PROVE GuardsHold'
    BY <1>20 DEF Back, GoHome, Stays
  <1>21. ASSUME TabBlocked PROVE GuardsHold'
    BY <1>21 DEF TabBlocked, Stays
  <1>22. ASSUME TabUnblocked PROVE GuardsHold'
    BY <1>22 DEF TabUnblocked, Stays
  <1>23. ASSUME ResyncLeaves PROVE GuardsHold'
    BY <1>23 DEF ResyncLeaves, InExam, Leave
  <1>24. QED
    BY <1>1, <1>2, <1>3, <1>4, <1>5, <1>6, <1>7, <1>8, <1>9, <1>10, <1>11, <1>12,
       <1>13, <1>14, <1>15, <1>16, <1>17, <1>18, <1>19, <1>20, <1>21, <1>22, <1>23
       DEF GuardsNext

\* The steps of result and review leave the exam page as it is.
LEMMA GuardsElsewhere ==
  GuardsInv /\ GuardsHold /\ ResultStep => GuardsInv' /\ GuardsHold'
  <1> SUFFICES ASSUME GuardsInv, GuardsHold, ResultNext, UNCHANGED guardVars
               PROVE  GuardsInv' /\ GuardsHold'
    BY DEF ResultStep
  <1> USE Bounds DEF GuardsInv, FlowTypeOK
  <1> DEFINE Shared == FlowTypeOK' /\ (route' = "attempt" <=> route = "attempt")
  <1>1. ASSUME Grade PROVE Shared
    BY <1>1 DEF Grade
  <1>2. ASSUME Sweep PROVE Shared
    BY <1>2 DEF Sweep
  <1>3. ASSUME WindowCloses PROVE Shared
    BY <1>3 DEF WindowCloses, Stay
  <1>4. ASSUME NEW r \in Request, Answer(r) PROVE Shared
    BY <1>4 DEF Answer, Stay
  <1>5. ASSUME NEW r \in Request, AnswerLost(r) PROVE Shared
    BY <1>5 DEF AnswerLost, Stay
  <1>6. ASSUME FetchFails PROVE Shared
    BY <1>6 DEF FetchFails, Stay, OnResult
  <1>7. ASSUME FetchWaits PROVE Shared
    BY <1>7 DEF FetchWaits, Stay, AllAnswered, OnResult
  <1>8. ASSUME FetchSucceeds PROVE Shared
    BY <1>8 DEF FetchSucceeds, Stay, Offer, AllAnswered, OnResult
  <1>9. ASSUME Poll PROVE Shared
    BY <1>9 DEF Poll, Stay, OnResult
  <1>10. ASSUME FollowReview PROVE Shared
    BY <1>10 DEF FollowReview, ShowPage, ShowsResult
  <1>11. ASSUME ToggleNotice PROVE Shared
    BY <1>11 DEF ToggleNotice, Stay, Offer
  <1>12. ASSUME FollowResult PROVE Shared
    BY <1>12 DEF FollowResult, ShowPage, ShowsReview
  <1>13. ASSUME LeavePage PROVE Shared
    BY <1>13 DEF LeavePage, ShowPage, OnResult
  <1>14. ASSUME OpenPage PROVE Shared
    BY <1>14 DEF OpenPage, ShowPage
  <1>15. ASSUME ReloadPage PROVE Shared
    BY <1>15 DEF ReloadPage, ShowPage, OnResult
  <1>16. Shared
    BY <1>1, <1>2, <1>3, <1>4, <1>5, <1>6, <1>7, <1>8, <1>9, <1>10, <1>11, <1>12,
       <1>13, <1>14, <1>15
       DEF ResultNext
  <1>17. QED
    BY <1>16 DEF Flags, ScreenFlags, Ranges, Places, Consistent, Mounted, GuardsHold, Kept

\* Both parts, for every step.
LEMMA GuardsInvStep ==
  GuardsInv /\ GuardsHold /\ [Next]_vars => GuardsInv' /\ GuardsHold'
  <1> SUFFICES ASSUME GuardsInv, GuardsHold, [Next]_vars PROVE GuardsInv' /\ GuardsHold'
    OBVIOUS
  <1>1. CASE GuardsStep
    BY <1>1, GuardsTypeStep, GuardsHoldStep DEF GuardsStep
  <1>2. CASE ResultStep
    BY <1>2, GuardsElsewhere
  <1>3. CASE UNCHANGED vars
    BY <1>3 DEF vars, GuardsInv, FlowTypeOK, Flags, ScreenFlags, Ranges, Places,
                Consistent, Mounted, GuardsHold, Kept
  <1>4. QED
    BY <1>1, <1>2, <1>3 DEF Next

\* A candidate goes on only within the rules (handleSubmit ends every guard), unless a
\* submit was refused or has failed: for any limit of absences and any countdown.
THEOREM GuardsAreKept == Spec => []GuardsHold
  BY GuardsInitially, GuardsInvStep, PTL DEF Spec

-----------------------------------------------------------------------------
(***************************************************************************)
(* The types of result and review.                                         *)
(***************************************************************************)
\* The part of TypeOK about the other pages, in pieces. A page that waits for its next
\* poll has nothing under way, so that the answers of two rounds do not mix.
Loads ==
  /\ {isLoading, isProcessing, failed, polling, windowOpen, noticeOpen} \subseteq BOOLEAN
  /\ offer \in {"link", "notice"}
Contents == sheet \in Sheet \cup {NoSheet} /\ data \in Sheet \cup {NoSheet}
Rounds ==
  /\ asked \subseteq Requests(route)
  /\ replied \in [Request -> {"none", "processing", "ready", "failed"}]
  /\ \A r \in asked : replied[r] = "none"
Unpolled == polling => asked = {} /\ replied = Unanswered
Home == route = "home" => Opened

ResultInv == Loads /\ Contents /\ Rounds /\ Unpolled /\ Home

\* One step per action of result and review.
LEMMA ResultTypeStep == FlowTypeOK /\ ResultInv /\ ResultNext => ResultInv'
  <1> SUFFICES ASSUME FlowTypeOK, Loads, Contents, Rounds, Unpolled, Home, ResultNext
               PROVE  ResultInv'
    BY DEF ResultInv
  <1> USE DEF FlowTypeOK, Loads, Contents, Rounds, Unpolled, Home, Opened, Open, Unanswered,
          Requests
  <1>1. ASSUME Grade PROVE ResultInv'
    <2>1. Loads'
      BY <1>1 DEF Grade
    <2>2. Contents'
      BY <1>1 DEF Grade
    <2>3. Rounds'
      BY <1>1 DEF Grade
    <2>4. Unpolled'
      BY <1>1 DEF Grade
    <2>5. Home'
      BY <1>1 DEF Grade
    <2> HIDE DEF Loads, Contents, Rounds, Unpolled, Home
    <2>6. QED
      BY <2>1, <2>2, <2>3, <2>4, <2>5 DEF ResultInv
  <1>2. ASSUME Sweep PROVE ResultInv'
    <2>1. Loads'
      BY <1>2 DEF Sweep
    <2>2. Contents'
      BY <1>2 DEF Sweep
    <2>3. Rounds'
      BY <1>2 DEF Sweep
    <2>4. Unpolled'
      BY <1>2 DEF Sweep
    <2>5. Home'
      BY <1>2 DEF Sweep
    <2> HIDE DEF Loads, Contents, Rounds, Unpolled, Home
    <2>6. QED
      BY <2>1, <2>2, <2>3, <2>4, <2>5 DEF ResultInv
  <1>3. ASSUME WindowCloses PROVE ResultInv'
    <2>1. Loads'
      BY <1>3 DEF WindowCloses, Stay
    <2>2. Contents'
      BY <1>3 DEF WindowCloses, Stay
    <2>3. Rounds'
      BY <1>3 DEF WindowCloses, Stay
    <2>4. Unpolled'
      BY <1>3 DEF WindowCloses, Stay
    <2>5. Home'
      BY <1>3 DEF WindowCloses, Stay
    <2> HIDE DEF Loads, Contents, Rounds, Unpolled, Home
    <2>6. QED
      BY <2>1, <2>2, <2>3, <2>4, <2>5 DEF ResultInv
  <1>4. ASSUME NEW r \in Request, Answer(r) PROVE ResultInv'
    <2>1. Loads'
      BY <1>4 DEF Answer, Stay
    <2>2. Contents'
      BY <1>4 DEF Answer, Stay
    <2>3. Rounds'
      BY <1>4 DEF Answer, Stay
    <2>4. Unpolled'
      BY <1>4 DEF Answer, Stay
    <2>5. Home'
      BY <1>4 DEF Answer, Stay
    <2> HIDE DEF Loads, Contents, Rounds, Unpolled, Home
    <2>6. QED
      BY <2>1, <2>2, <2>3, <2>4, <2>5 DEF ResultInv
  <1>5. ASSUME NEW r \in Request, AnswerLost(r) PROVE ResultInv'
    <2>1. Loads'
      BY <1>5 DEF AnswerLost, Stay
    <2>2. Contents'
      BY <1>5 DEF AnswerLost, Stay
    <2>3. Rounds'
      BY <1>5 DEF AnswerLost, Stay
    <2>4. Unpolled'
      BY <1>5 DEF AnswerLost, Stay
    <2>5. Home'
      BY <1>5 DEF AnswerLost, Stay
    <2> HIDE DEF Loads, Contents, Rounds, Unpolled, Home
    <2>6. QED
      BY <2>1, <2>2, <2>3, <2>4, <2>5 DEF ResultInv
  <1>6. ASSUME FetchFails PROVE ResultInv'
    <2>1. Loads'
      BY <1>6 DEF FetchFails, Stay, OnResult
    <2>2. Contents'
      BY <1>6 DEF FetchFails, Stay, OnResult
    <2>3. Rounds'
      BY <1>6 DEF FetchFails, Stay, OnResult
    <2>4. Unpolled'
      BY <1>6 DEF FetchFails, Stay, OnResult
    <2>5. Home'
      BY <1>6 DEF FetchFails, Stay, OnResult
    <2> HIDE DEF Loads, Contents, Rounds, Unpolled, Home
    <2>6. QED
      BY <2>1, <2>2, <2>3, <2>4, <2>5 DEF ResultInv
  <1>7. ASSUME FetchWaits PROVE ResultInv'
    <2>1. Loads'
      BY <1>7 DEF FetchWaits, Stay, AllAnswered, OnResult
    <2>2. Contents'
      BY <1>7 DEF FetchWaits, Stay, AllAnswered, OnResult
    <2>3. Rounds'
      BY <1>7 DEF FetchWaits, Stay, AllAnswered, OnResult
    <2>4. Unpolled'
      BY <1>7 DEF FetchWaits, Stay, AllAnswered, OnResult
    <2>5. Home'
      BY <1>7 DEF FetchWaits, Stay, AllAnswered, OnResult
    <2> HIDE DEF Loads, Contents, Rounds, Unpolled, Home
    <2>6. QED
      BY <2>1, <2>2, <2>3, <2>4, <2>5 DEF ResultInv
  <1>8. ASSUME FetchSucceeds PROVE ResultInv'
    <2>1. Loads'
      BY <1>8 DEF FetchSucceeds, Stay, Offer, AllAnswered, OnResult
    <2>2. Contents'
      BY <1>8 DEF FetchSucceeds, Stay, Offer, AllAnswered, OnResult
    <2>3. Rounds'
      BY <1>8 DEF FetchSucceeds, Stay, Offer, AllAnswered, OnResult
    <2>4. Unpolled'
      BY <1>8 DEF FetchSucceeds, Stay, Offer, AllAnswered, OnResult
    <2>5. Home'
      BY <1>8 DEF FetchSucceeds, Stay, Offer, AllAnswered, OnResult
    <2> HIDE DEF Loads, Contents, Rounds, Unpolled, Home
    <2>6. QED
      BY <2>1, <2>2, <2>3, <2>4, <2>5 DEF ResultInv
  <1>9. ASSUME Poll PROVE ResultInv'
    <2>1. Loads'
      BY <1>9 DEF Poll, Stay, OnResult
    <2>2. Contents'
      BY <1>9 DEF Poll, Stay, OnResult
    <2>3. Rounds'
      BY <1>9 DEF Poll, Stay, OnResult
    <2>4. Unpolled'
      BY <1>9 DEF Poll, Stay, OnResult
    <2>5. Home'
      BY <1>9 DEF Poll, Stay, OnResult
    <2> HIDE DEF Loads, Contents, Rounds, Unpolled, Home
    <2>6. QED
      BY <2>1, <2>2, <2>3, <2>4, <2>5 DEF ResultInv
  <1>10. ASSUME FollowReview PROVE ResultInv'
    <2>1. Loads'
      BY <1>10 DEF FollowReview, ShowPage, ShowsResult
    <2>2. Contents'
      BY <1>10 DEF FollowReview, ShowPage, ShowsResult
    <2>3. Rounds'
      BY <1>10 DEF FollowReview, ShowPage, ShowsResult
    <2>4. Unpolled'
      BY <1>10 DEF FollowReview, ShowPage, ShowsResult
    <2>5. Home'
      BY <1>10 DEF FollowReview, ShowPage, ShowsResult
    <2> HIDE DEF Loads, Contents, Rounds, Unpolled, Home
    <2>6. QED
      BY <2>1, <2>2, <2>3, <2>4, <2>5 DEF ResultInv
  <1>11. ASSUME ToggleNotice PROVE ResultInv'
    <2>1. Loads'
      BY <1>11 DEF ToggleNotice, Stay, Offer
    <2>2. Contents'
      BY <1>11 DEF ToggleNotice, Stay, Offer
    <2>3. Rounds'
      BY <1>11 DEF ToggleNotice, Stay, Offer
    <2>4. Unpolled'
      BY <1>11 DEF ToggleNotice, Stay, Offer
    <2>5. Home'
      BY <1>11 DEF ToggleNotice, Stay, Offer
    <2> HIDE DEF Loads, Contents, Rounds, Unpolled, Home
    <2>6. QED
      BY <2>1, <2>2, <2>3, <2>4, <2>5 DEF ResultInv
  <1>12. ASSUME FollowResult PROVE ResultInv'
    <2>1. Loads'
      BY <1>12 DEF FollowResult, ShowPage, ShowsReview
    <2>2. Contents'
      BY <1>12 DEF FollowResult, ShowPage, ShowsReview
    <2>3. Rounds'
      BY <1>12 DEF FollowResult, ShowPage, ShowsReview
    <2>4. Unpolled'
      BY <1>12 DEF FollowResult, ShowPage, ShowsReview
    <2>5. Home'
      BY <1>12 DEF FollowResult, ShowPage, ShowsReview
    <2> HIDE DEF Loads, Contents, Rounds, Unpolled, Home
    <2>6. QED
      BY <2>1, <2>2, <2>3, <2>4, <2>5 DEF ResultInv
  <1>13. ASSUME LeavePage PROVE ResultInv'
    <2>1. Loads'
      BY <1>13 DEF LeavePage, ShowPage, OnResult
    <2>2. Contents'
      BY <1>13 DEF LeavePage, ShowPage, OnResult
    <2>3. Rounds'
      BY <1>13 DEF LeavePage, ShowPage, OnResult
    <2>4. Unpolled'
      BY <1>13 DEF LeavePage, ShowPage, OnResult
    <2>5. Home'
      BY <1>13 DEF LeavePage, ShowPage, OnResult
    <2> HIDE DEF Loads, Contents, Rounds, Unpolled, Home
    <2>6. QED
      BY <2>1, <2>2, <2>3, <2>4, <2>5 DEF ResultInv
  <1>14. ASSUME OpenPage PROVE ResultInv'
    <2>1. Loads'
      BY <1>14 DEF OpenPage, ShowPage
    <2>2. Contents'
      BY <1>14 DEF OpenPage, ShowPage
    <2>3. Rounds'
      BY <1>14 DEF OpenPage, ShowPage
    <2>4. Unpolled'
      BY <1>14 DEF OpenPage, ShowPage
    <2>5. Home'
      BY <1>14 DEF OpenPage, ShowPage
    <2> HIDE DEF Loads, Contents, Rounds, Unpolled, Home
    <2>6. QED
      BY <2>1, <2>2, <2>3, <2>4, <2>5 DEF ResultInv
  <1>15. ASSUME ReloadPage PROVE ResultInv'
    <2>1. Loads'
      BY <1>15 DEF ReloadPage, ShowPage, OnResult
    <2>2. Contents'
      BY <1>15 DEF ReloadPage, ShowPage, OnResult
    <2>3. Rounds'
      BY <1>15 DEF ReloadPage, ShowPage, OnResult
    <2>4. Unpolled'
      BY <1>15 DEF ReloadPage, ShowPage, OnResult
    <2>5. Home'
      BY <1>15 DEF ReloadPage, ShowPage, OnResult
    <2> HIDE DEF Loads, Contents, Rounds, Unpolled, Home
    <2>6. QED
      BY <2>1, <2>2, <2>3, <2>4, <2>5 DEF ResultInv
  <1>16. QED
    BY <1>1, <1>2, <1>3, <1>4, <1>5, <1>6, <1>7, <1>8, <1>9, <1>10, <1>11, <1>12,
       <1>13, <1>14, <1>15
       DEF ResultNext

\* A step of the exam page leaves the others alone, or opens one.
LEMMA ResultElsewhere == FlowTypeOK /\ ResultInv /\ GuardsStep => ResultInv'
  <1> SUFFICES ASSUME FlowTypeOK, ResultInv, GuardsNext, UNCHANGED windowOpen,
                      IF route' = route THEN UNCHANGED <<loadVars, offerVars>> ELSE Open
               PROVE  ResultInv'
    BY DEF GuardsStep
  <1>1. UNCHANGED sheet
    BY DEF GuardsNext, OpenAttempt, Load, LoadFails, Reload, GoHome, Submit, SubmitSucceeds,
           SubmitFails, LookAway, LookBack, ExitFullscreen, AskForFullscreen,
           FullscreenGranted, FullscreenDenied, CountDown, ClickLink, StayInExam,
           ConfirmLeave, ResumeExam, Back, TabBlocked, TabUnblocked, ResyncLeaves, Leave,
           Stays, InExam, TrySubmit, Shown, View
  <1>2. CASE route' = route
    BY <1>1, <1>2
       DEF ResultInv, Loads, Contents, Rounds, Unpolled, Home, Opened, Requests, Unanswered
  <1>3. CASE route' # route
    <2>1. Loads' /\ Contents'
      BY <1>1, <1>3 DEF ResultInv, Loads, Contents, Open
    <2>2. Rounds' /\ Unpolled'
      BY <1>3 DEF Rounds, Unpolled, Open, Unanswered, Requests
    <2>3. Home'
      BY <1>3 DEF Home, Open, Opened
    <2>4. QED
      BY <2>1, <2>2, <2>3 DEF ResultInv
  <1>4. QED
    BY <1>2, <1>3

\* Whatever the candidate, the timers, the browser and the server do, and in any order,
\* the pages keep their types, and one that is not shown is as new.
THEOREM TypeCorrect == Spec => []TypeOK
  <1>1. Init => ResultInv
    <2> SUFFICES ASSUME Init PROVE ResultInv
      OBVIOUS
    <2> USE DEF Init, RouteInit, ResultInit, Opened
    <2>1. Loads /\ Contents
      BY DEF Loads, Contents
    <2>2. Rounds /\ Unpolled /\ Home
      BY DEF Rounds, Unpolled, Home, Unanswered, Requests
    <2>3. QED
      BY <2>1, <2>2 DEF ResultInv
  <1>2. GuardsInv /\ GuardsHold /\ ResultInv /\ [Next]_vars => ResultInv'
    <2> SUFFICES ASSUME GuardsInv, ResultInv, [Next]_vars PROVE ResultInv'
      OBVIOUS
    <2>1. FlowTypeOK
      BY DEF GuardsInv
    <2>2. CASE GuardsStep
      BY <2>1, <2>2, ResultElsewhere
    <2>3. CASE ResultStep
      BY <2>1, <2>3, ResultTypeStep DEF ResultStep
    <2>4. CASE UNCHANGED vars
      BY <2>4 DEF vars, ResultInv, Loads, Contents, Rounds, Unpolled, Home, Opened,
                  Requests, Unanswered
    <2>5. QED
      BY <2>2, <2>3, <2>4 DEF Next
  <1>3. GuardsInv /\ ResultInv => TypeOK
    <2> SUFFICES ASSUME GuardsInv, ResultInv PROVE TypeOK
      OBVIOUS
    <2>1. GuardsTypeOK
      BY DEF GuardsInv, Flags, ScreenFlags, Ranges, Places, Consistent, GuardsTypeOK
    <2>2. ResultTypeOK
      BY DEF ResultInv, Loads, Contents, Rounds, ResultTypeOK
    <2>3. QED
      BY <2>1, <2>2 DEF TypeOK, GuardsInv, FlowTypeOK, Consistent, ResultInv, Contents, Home
  <1>4. QED
    BY <1>1, <1>2, <1>3, GuardsInitially, GuardsInvStep, PTL DEF Spec

-----------------------------------------------------------------------------
(***************************************************************************)
(* What the result page and the review page show.                          *)
(***************************************************************************)
\* A page that shows a result or a review has loaded a sheet of the attempt.
LEMMA ShownIsLoaded ==
  ASSUME TypeOK, ShowsResult \/ ShowsReview
  PROVE  data \in Sheet /\ WellFormed(data.paper) /\ StatementsKeyed(data)
  <1>1. data # NoSheet
    <2>1. CASE ShowsResult
      BY <2>1 DEF ShowsResult, ResultView
    <2>2. CASE ShowsReview
      BY <2>2 DEF ShowsReview, ReviewView
    <2>3. QED
      BY <2>1, <2>2
  <1>2. data \in Sheet
    BY <1>1 DEF TypeOK, ResultTypeOK
  <1>3. QED
    BY <1>2, RouteAssumption DEF RouteAssumption

\* Whenever the result page shows a result, its dots add up to the counts and to the
\* score next to them (result/page.tsx counts from the review, the server graded).
THEOREM DotsAlwaysExplainScore == Spec => []DotsExplainScore
  <1>1. TypeOK => DotsExplainScore
    <2>1. SUFFICES ASSUME TypeOK, ShowsResult PROVE DotsExplainScore
      BY DEF DotsExplainScore
    <2>2. WellFormed(data.paper)
      BY <2>1, ShownIsLoaded
    <2>3. QED
      BY <2>2, DotsAgreeWithScore, Zenon DEF DotsExplainScore
  <1>2. QED
    BY <1>1, TypeCorrect, PTL

\* Whenever the review page is shown, the colours of its navigator agree with the marks
\* on the answers, and with the dots of the result page where the key is plain.
THEOREM ReviewAlwaysAgrees == Spec => []ReviewAgrees
  <1>1. TypeOK => ReviewAgrees
    <2>1. SUFFICES ASSUME TypeOK, ShowsReview PROVE ReviewAgrees
      BY DEF ReviewAgrees
    <2>2. WellFormed(data.paper) /\ StatementsKeyed(data)
      BY <2>1, ShownIsLoaded
    <2>3. QED
      BY <2>2, ColoursAgreeWithMarks, Zenon DEF ReviewAgrees
  <1>2. QED
    BY <1>1, TypeCorrect, PTL

=============================================================================
