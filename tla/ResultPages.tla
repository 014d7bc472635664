----------------------------- MODULE ResultPages -----------------------------
(***************************************************************************)
(* The result page and the review page of an attempt (frontend/app/        *)
(* attempts/[id]/result/page.tsx and review/page.tsx): they ask for what   *)
(* they show, and again every 5 s while the attempt is being graded. The   *)
(* result page waits for two answers, the result and the review.           *)
(***************************************************************************)
EXTENDS AttemptRoute

VARIABLES
  isLoading,     \* until the first requests are answered
  isProcessing,  \* the last answer was that the attempt is being graded
  failed,        \* loadError, error
  data,          \* what has been loaded: the sheet, or NoSheet
  polling,       \* pollTimerRef is armed
  asked,         \* the requests under way
  replied,       \* those answered, of the same round: request -> answer
  windowOpen,    \* the time window of the exam has not ended yet
  offer,         \* the way to the review in the last render: "link" or "notice"
  noticeOpen     \* reviewNoticeOpen

loadVars == <<isLoading, isProcessing, failed, data, polling, asked, replied>>
offerVars == <<offer, noticeOpen>>
resultVars == <<loadVars, windowOpen, offerVars>>

Request == {"result", "review"}
Requests(page) ==
  CASE page = "result" -> Request [] page = "review" -> {"review"} [] OTHER -> {}

Unanswered == [r \in Request |-> "none"]

\* The page when it is mounted, and the first fetchResult or fetchReview.
Opened ==
  /\ isLoading = TRUE /\ isProcessing = FALSE /\ failed = FALSE
  /\ data = NoSheet /\ polling = FALSE
  /\ asked = Requests(route) /\ replied = Unanswered
  /\ offer = "link" /\ noticeOpen = FALSE

ResultInit == windowOpen = TRUE /\ Opened

\* It is mounted, or another one is.
Open ==
  /\ isLoading' = TRUE /\ isProcessing' = FALSE /\ failed' = FALSE
  /\ data' = NoSheet /\ polling' = FALSE
  /\ asked' = Requests(route') /\ replied' = Unanswered
  /\ offer' = "link" /\ noticeOpen' = FALSE

OnResult == route \in {"result", "review"}

ShowPage(page) ==
  /\ route' = page
  /\ Open
  /\ UNCHANGED <<status, sheet, windowOpen>>

Stay == UNCHANGED <<route, status, sheet>>

-----------------------------------------------------------------------------
(***************************************************************************)
(* The server.                                                             *)
(***************************************************************************)
Grade ==
  /\ status = "grading"
  /\ status' = "graded" /\ sheet' \in Sheet
  /\ UNCHANGED <<route, faults, resultVars>>

\* The end of the attempt's time: runExpiredAttemptSweep.
Sweep ==
  /\ status = "open"
  /\ status' = "grading"
  /\ UNCHANGED <<route, sheet, faults, resultVars>>

WindowCloses ==
  /\ windowOpen /\ windowOpen' = FALSE
  /\ Stay /\ UNCHANGED <<faults, loadVars, offerVars>>

\* GetAttemptResult and GetAttemptReview: an attempt that was not submitted has
\* neither (409), one that is being graded answers 202.
Answer(r) ==
  /\ r \in asked
  /\ asked' = asked \ {r}
  /\ replied' = [replied EXCEPT ![r] =
       CASE status = "open" -> "failed" [] status = "grading" -> "processing"
         [] OTHER -> "ready"]
  /\ Stay
  /\ UNCHANGED <<faults, isLoading, isProcessing, failed, data, polling, windowOpen, offerVars>>

AnswerLost(r) ==
  /\ r \in asked /\ Fault
  /\ asked' = asked \ {r}
  /\ replied' = [replied EXCEPT ![r] = "failed"]
  /\ Stay
  /\ UNCHANGED <<isLoading, isProcessing, failed, data, polling, windowOpen, offerVars>>

-----------------------------------------------------------------------------
(***************************************************************************)
(* fetchResult and fetchReview, after the await.                           *)
(***************************************************************************)
\* usesExamWindow and isExamWindowStillOpen, as the render sees them.
Offer(s) == IF s.window /\ windowOpen THEN "notice" ELSE "link"

\* Promise.all fails with the first request that fails; the error keeps
\* isProcessing, and nothing asks again.
FetchFails ==
  /\ OnResult
  /\ \E r \in Request : replied[r] = "failed"
  /\ failed' = TRUE /\ isLoading' = FALSE
  /\ asked' = {} /\ replied' = Unanswered
  /\ Stay
  /\ UNCHANGED <<faults, isProcessing, data, polling, windowOpen, offerVars>>

AllAnswered ==
  /\ OnResult
  /\ \A r \in Requests(route) : replied[r] \in {"processing", "ready"}

\* Mutant of FetchWaits: only the result decides.
FetchWaitsForResult ==
  /\ AllAnswered
  /\ \E r \in Requests(route) : replied[r] = "processing"
  /\ failed' = FALSE /\ isLoading' = FALSE /\ isProcessing' = TRUE
  /\ polling' = (replied["result"] = "processing")
  /\ replied' = Unanswered
  /\ Stay
  /\ UNCHANGED <<faults, data, asked, windowOpen, offerVars>>

FetchWaits ==
  /\ AllAnswered
  /\ \E r \in Requests(route) : replied[r] = "processing"
  /\ failed' = FALSE /\ isLoading' = FALSE /\ isProcessing' = TRUE
  /\ polling' = TRUE
  /\ replied' = Unanswered
  /\ Stay
  /\ UNCHANGED <<faults, data, asked, windowOpen, offerVars>>

FetchSucceeds ==
  /\ AllAnswered
  /\ \A r \in Requests(route) : replied[r] = "ready"
  /\ failed' = FALSE /\ isLoading' = FALSE /\ isProcessing' = FALSE
  /\ data' = sheet /\ offer' = Offer(sheet)
  /\ replied' = Unanswered
  /\ Stay
  /\ UNCHANGED <<faults, polling, asked, windowOpen, noticeOpen>>

Poll ==
  /\ OnResult /\ polling
  /\ polling' = FALSE
  /\ asked' = Requests(route)
  /\ Stay
  /\ UNCHANGED <<faults, isLoading, isProcessing, failed, data, replied, windowOpen, offerVars>>

-----------------------------------------------------------------------------
(***************************************************************************)
(* What the pages show, and where they lead.                               *)
(***************************************************************************)
\* The result page looks at isProcessing first, the review page at the error.
ResultView ==
  CASE isLoading -> "loading"
    [] ~isLoading /\ isProcessing -> "processing"
    [] ~isLoading /\ ~isProcessing /\ (failed \/ data = NoSheet) -> "error"
    [] OTHER -> "result"

ReviewView ==
  CASE failed -> "error"
    [] ~failed /\ isProcessing -> "processing"
    [] ~failed /\ ~isProcessing /\ (isLoading \/ data = NoSheet) -> "loading"
    [] OTHER -> "review"

ShowsResult == route = "result" /\ ResultView = "result"
ShowsReview == route = "review" /\ ReviewView = "review"

\* The link to the review, if the last render offers it.
FollowReview ==
  /\ ShowsResult /\ offer = "link" /\ ~noticeOpen
  /\ ShowPage("review") /\ UNCHANGED faults

\* The notice opens and closes; both render the page again.
ToggleNotice ==
  /\ ShowsResult /\ (offer = "notice" \/ noticeOpen)
  /\ noticeOpen' = ~noticeOpen
  /\ offer' = Offer(data)
  /\ Stay /\ UNCHANGED <<faults, loadVars, windowOpen>>

\* The button of the review page, by the address: everything is loaded again.
FollowResult ==
  /\ ShowsReview
  /\ ShowPage("result") /\ UNCHANGED faults

\* Links to the history, the room, the profile or, for an exam without a window,
\* to the exam again, or another address; the back button of the result page stays.
LeavePage ==
  /\ OnResult
  /\ ShowPage("home") /\ UNCHANGED faults

\* From the history, or by the address.
OpenPage ==
  /\ route = "home"
  /\ \E page \in {"result", "review"} : ShowPage(page)
  /\ UNCHANGED faults

ReloadPage ==
  /\ OnResult /\ Fault
  /\ ShowPage(route)

ResultNext ==
  \/ Grade \/ Sweep \/ WindowCloses
  \/ \E r \in Request : Answer(r) \/ AnswerLost(r)
  \/ FetchFails \/ FetchWaits \/ FetchSucceeds \/ Poll
  \/ FollowReview \/ ToggleNotice \/ FollowResult \/ LeavePage \/ OpenPage \/ ReloadPage

\* Requests are answered, timers run, the attempt is graded (StreamedIsGraded of
\* SubmitPipeline).
ResultFairness ==
  /\ WF_<<routeVars, resultVars>>(Grade)
  /\ \A r \in Request : WF_<<routeVars, resultVars>>(Answer(r))
  /\ WF_<<routeVars, resultVars>>(FetchFails \/ FetchWaits \/ FetchSucceeds)
  /\ WF_<<routeVars, resultVars>>(Poll)

-----------------------------------------------------------------------------
ResultTypeOK ==
  /\ {isLoading, isProcessing, failed, polling, windowOpen, noticeOpen} \subseteq BOOLEAN
  /\ data \in Sheet \cup {NoSheet}
  /\ asked \subseteq Requests(route)
  /\ replied \in [Request -> {"none", "processing", "ready", "failed"}]
  /\ \A r \in asked : replied[r] = "none"
  /\ offer \in {"link", "notice"}

\* The dots of the result page and the score next to them tell the same: the
\* client counts again, from the review, what the server has graded.
DotsExplainScore ==
  ShowsResult =>
    LET dots == DetailSections(data)
        all == {d \in (1 .. 3) \X (1 .. Len(data.paper)) : d[2] \in DOMAIN dots[d[1]]}
        total(v) == SumFunction([d \in all |-> dots[d[1]][d[2]][v]])
        points(d) == CASE d[1] = 1 -> 25 * dots[d[1]][d[2]].correct
                       [] d[1] = 2 -> GroupPoints(dots[d[1]][d[2]].correct)
                       [] OTHER -> 50 * dots[d[1]][d[2]].correct
    IN /\ \A v \in {"correct", "wrong", "skipped"} : total(v) = Counts(data)[v]
       /\ SumFunction([d \in all |-> points(d)]) = Score(data)

\* On the review page a number is green exactly if every answer to the question
\* is marked as right and none is missing, red exactly if there is an answer
\* otherwise. For a key that is written plainly that is what the result says too
\* (the review compares with the key as it is written).
ReviewAgrees ==
  ShowsReview =>
    \A n \in DOMAIN Grouped(data.paper) :
      LET q == Grouped(data.paper)[n]
          colour == NavigatorColour(ResultsMap(data), n)
          marks == AnswerMarks(data, q)
          dot == Dot(data, q)
          parts == Parts(data.paper, q)
      IN /\ colour = "green" <=> marks = {"chosen"}
         /\ colour = "plain" <=> marks \subseteq {"plain"}
         /\ (\A p \in parts : data.key[p].plain) =>
              /\ colour = "green" <=> dot.wrong + dot.skipped = 0 /\ dot.correct > 0
              /\ colour = "plain" <=> dot.correct + dot.wrong = 0

\* Who waits for the result sees it in the end, or an error. The exception is
\* named: a request that fails while the attempt is being graded ends the polling
\* behind the screen that says to wait.
WaitEnds ==
  route = "result" ~>
    route # "result" \/ ResultView \in {"result", "error"} \/ (failed /\ isProcessing)

=============================================================================
