----------------------------- MODULE AttemptPage -----------------------------
(***************************************************************************)
(* The page on which a candidate takes an exam                             *)
(* (frontend/app/attempts/[id]/page.tsx) and the attempt on the server:    *)
(* answers are edited, saved in the background after 5 s without an edit,  *)
(* retried, and saved once more before the attempt is submitted. Requests  *)
(* of several saves can be under way at once, time out at the client and   *)
(* still arrive; the countdown, the tab lock and the sweep of expired      *)
(* attempts interfere.                                                     *)
(*                                                                         *)
(* An answer is the number of the edit that made it; its text is           *)
(* text[number], and two edits may have the same text. 0 is no answer.     *)
(***************************************************************************)
EXTENDS Integers, Sequences, FiniteSets

CONSTANTS
  Question,    \* the questions of the paper that take an answer
  Text,        \* the texts an answer can have
  Blank,       \* the text of an answer that was cleared
  Autosave,    \* bounds the autosaves under way at the same time
  Flow,        \* bounds the runs of handleSubmit under way at the same time
  ChunkSize,   \* answers per request: 20 in the code
  MaxEdits,    \* bounds the edits
  MaxFaults    \* bounds the failed requests, the reloads and the lost tab locks

ASSUME PageAssumption ==
  /\ Question # {} /\ Blank \in Text
  /\ Autosave \cap Flow = {}      \* two kinds of saves
  /\ ChunkSize \in Nat \ {0}
  /\ MaxEdits \in Nat /\ MaxFaults \in Nat

Saver == Autosave \cup Flow

VARIABLES
  text,        \* history: the text of each edit so far
  answers,     \* what the page shows, per question
  dirty,       \* dirtyAnswers: still to be saved
  saved,       \* savedAnswers: acknowledged
  failed,      \* invalidAnswerErrors and terminalAnswerErrors: refused
  saving,      \* savingAnswers
  retrying,    \* retryingAnswers
  saveTimer,   \* autosaveTimerRef is armed
  retryTimer,  \* retryTimerRef is armed
  resyncTimer, \* attemptTimeResyncRef is armed
  submitState, \* "idle" or "submitting"
  rendered,    \* the submitState of the last render: its closures and submitStateRef
  page,        \* "exam", "error" when it did not load, "left" for the result
  blocked,     \* isTabBlocked: another tab holds the lock of the attempt
  timeUp,      \* remainingSeconds is 0
  pc,          \* what each save or submit waits for
  pending,     \* the snapshot it saves
  todo,        \* the questions it has not sent yet
  chunk,       \* the questions of the request under way
  goal,        \* history: the answers a submit has to carry
  store,       \* the answers the server has accepted
  rows,        \* those of them it has flushed, which a reload shows
  cached,      \* the payloads whose response a cache may still have
  open,        \* the attempt is in progress
  expired,     \* its deadline is over on the server
  late,        \* requests the client gave up and the server may still get
  crossed,     \* history: questions with replies or requests out of order
  swallowed,   \* history: questions with a save that the cache answered wrongly
  faults       \* failed requests, reloads and lost tab locks so far

formVars == <<text, answers, dirty, saved, failed, saving, retrying>>
timerVars == <<saveTimer, retryTimer, resyncTimer>>
viewVars == <<submitState, rendered, page, blocked, timeUp>>
saverVars == <<pc, pending, todo, chunk, goal>>
serverVars == <<store, rows, cached, open, expired>>
netVars == <<late, faults>>
historyVars == <<crossed, swallowed>>

vars == <<formVars, timerVars, viewVars, saverVars, serverVars, netVars,
          historyVars>>

-----------------------------------------------------------------------------
Nothing == [q \in Question |-> 0]
Answers == [Question -> 0 .. Len(text)]

\* "save" and "submit" are requests under way, the others replies to them.
Step == {"idle", "save", "saved", "refused", "failed",
         "submit", "submitted", "submitFailed"}

\* Two edits that typed the same text; no answer equals only no answer.
Same(m, n) == m = n \/ (m # 0 /\ n # 0 /\ text[m] = text[n])

Later(m, n) == IF m > n THEN m ELSE n

Given(f) == {q \in Question : f[q] # 0}

Goto(p, l) == pc' = [pc EXCEPT ![p] = l]

\* The answer to q was cleared.
Cleared(q) == answers[q] # 0 /\ text[answers[q]] = Blank

\* The answers of the request of p.
Request(p) == [q \in Question |-> IF q \in chunk[p] THEN pending[p][q] ELSE 0]

\* Mutant of Finish: the snapshot stays.
FinishKeeps(p) ==
  /\ Goto(p, "idle")
  /\ todo' = [todo EXCEPT ![p] = {}]
  /\ chunk' = [chunk EXCEPT ![p] = {}]
  /\ goal' = [goal EXCEPT ![p] = Nothing]
  /\ UNCHANGED pending

\* The save p is over.
Finish(p) ==
  /\ Goto(p, "idle")
  /\ pending' = [pending EXCEPT ![p] = Nothing]
  /\ todo' = [todo EXCEPT ![p] = {}]
  /\ chunk' = [chunk EXCEPT ![p] = {}]
  /\ goal' = [goal EXCEPT ![p] = Nothing]

\* Mutant of ClearFeedback: only the errors are cleared.
ClearErrors(qs) == failed' = failed \ qs /\ UNCHANGED <<saving, retrying>>

\* clearQuestionFeedback
ClearFeedback(qs) ==
  /\ failed' = failed \ qs
  /\ saving' = saving \ qs
  /\ retrying' = retrying \ qs

\* The effect that arms the autosave timer runs after every change of
\* dirtyAnswers and whenever flushPendingAnswersNow is a new function.
Rearm == saveTimer' = (Given(dirty') # {})

Init ==
  /\ text = <<>>
  /\ answers = Nothing /\ dirty = Nothing /\ saved = Nothing /\ failed = {}
  /\ saving = {} /\ retrying = {}
  /\ saveTimer = FALSE /\ retryTimer = FALSE /\ resyncTimer = TRUE
  /\ submitState = "idle" /\ rendered = "idle"
  /\ page = "exam" /\ blocked = FALSE /\ timeUp = FALSE
  /\ pc = [p \in Saver |-> "idle"]
  /\ pending = [p \in Saver |-> Nothing]
  /\ todo = [p \in Saver |-> {}]
  /\ chunk = [p \in Saver |-> {}]
  /\ goal = [p \in Saver |-> Nothing]
  /\ store = Nothing /\ rows = Nothing /\ cached = {}
  /\ open = TRUE /\ expired = FALSE
  /\ late = {} /\ faults = 0
  /\ crossed = {} /\ swallowed = {}

-----------------------------------------------------------------------------
(***************************************************************************)
(* The candidate.                                                          *)
(***************************************************************************)
\* handleAnswer; nothing stops it while a submit is under way. To enter the same text
\* again is an edit too, but the answer stays the same.
Answer(q, v) ==
  LET again == answers[q] # 0 /\ text[answers[q]] = v
      n == IF again THEN answers[q] ELSE Len(text) + 1
  IN
  /\ page = "exam" /\ ~blocked
  /\ Len(text) < MaxEdits
  /\ text' = Append(text, v)
  /\ answers' = [answers EXCEPT ![q] = n]
  /\ dirty' = [dirty EXCEPT ![q] = n]
  /\ saved' = [saved EXCEPT ![q] = 0]
  /\ ClearFeedback({q})
  /\ retryTimer' = FALSE
  /\ Rearm
  /\ UNCHANGED <<resyncTimer, viewVars, saverVars, serverVars, netVars, historyVars>>

\* React commits a render; callbacks see the new submitState from then on.
Render ==
  /\ page = "exam" /\ rendered # submitState
  /\ rendered' = submitState
  /\ UNCHANGED <<formVars, timerVars, submitState, page, blocked, timeUp,
                 saverVars, serverVars, netVars, historyVars>>

-----------------------------------------------------------------------------
(***************************************************************************)
(* Saving: flushPendingAnswersNow, its replies and its timers.             *)
(***************************************************************************)
\* The next request carries up to ChunkSize of the questions in qs.
Send(p, qs) ==
  \E c \in SUBSET qs :
    /\ c # {} /\ (Cardinality(c) = ChunkSize \/ (c = qs /\ Cardinality(c) < ChunkSize))
    /\ chunk' = [chunk EXCEPT ![p] = c]
    /\ todo' = [todo EXCEPT ![p] = qs \ c]
    /\ Goto(p, "save")

\* markQuestionsSaving, and the first request of the snapshot. There is no check
\* for another save under way.
BeginSave(p, snapshot) ==
  /\ pending' = [pending EXCEPT ![p] = snapshot]
  /\ saving' = saving \cup Given(snapshot)
  /\ retrying' = retrying \ Given(snapshot)
  /\ Send(p, Given(snapshot))

\* The timer has run for 5 s: entries is what was dirty when it was armed,
\* which is what is dirty now, because every change arms it again.
AutosaveFires(p) ==
  /\ page = "exam" /\ saveTimer /\ pc[p] = "idle"
  /\ rendered # "submitting" /\ ~blocked
  /\ saveTimer' = FALSE /\ retryTimer' = FALSE
  /\ BeginSave(p, dirty)
  /\ UNCHANGED <<text, answers, dirty, saved, failed, resyncTimer, viewVars, goal,
                 serverVars, netVars, historyVars>>

\* During a submit, or in a blocked tab, the timer goes off for nothing.
AutosaveSkipped ==
  /\ page = "exam" /\ saveTimer
  /\ rendered = "submitting" \/ blocked
  /\ saveTimer' = FALSE
  /\ UNCHANGED <<formVars, retryTimer, resyncTimer, viewVars, saverVars, serverVars, netVars,
                 historyVars>>

RetryFires ==
  /\ page = "exam" /\ retryTimer
  /\ retryTimer' = FALSE
  /\ saveTimer' = (Given(dirty) # {})
  /\ UNCHANGED <<formVars, resyncTimer, viewVars, saverVars, serverVars, netVars,
                 historyVars>>

\* One chunk is acknowledged, others follow.
ChunkSaved(p) ==
  /\ page = "exam" /\ pc[p] = "saved" /\ todo[p] # {}
  /\ Send(p, todo[p])
  /\ UNCHANGED <<formVars, timerVars, viewVars, pending, goal, serverVars, netVars,
                 historyVars>>

\* handleSaveSuccess: only answers that still read as they were sent are saved.
\* A reply can cross a later edit: one that typed the same text again, or one
\* that was refused in the meantime and loses its error message.
Settled(p) ==
  {q \in Given(pending[p]) : Same(answers[q], pending[p][q])}

\* Mutant of MarkSaved: what is shown now counts as saved.
MarkShownSaved(p) ==
  /\ saved' = [q \in Question |-> IF pending[p][q] # 0 THEN answers[q] ELSE saved[q]]
  /\ dirty' = [q \in Question |-> IF pending[p][q] # 0 THEN 0 ELSE dirty[q]]
  /\ ClearFeedback(Given(pending[p]))
  /\ UNCHANGED <<text, answers, crossed>>

MarkSaved(p) ==
  /\ saved' = [q \in Question |-> IF q \in Settled(p) THEN pending[p][q] ELSE saved[q]]
  /\ dirty' = [q \in Question |-> IF q \in Settled(p) THEN 0 ELSE dirty[q]]
  /\ ClearFeedback(Given(pending[p]))
  /\ crossed' = crossed \cup {q \in Given(pending[p]) :
                                /\ answers[q] # pending[p][q]
                                /\ q \in Settled(p) \cup failed}
  /\ UNCHANGED <<text, answers>>

AutosaveSucceeds(p) ==
  /\ page = "exam" /\ p \in Autosave /\ pc[p] = "saved" /\ todo[p] = {}
  /\ MarkSaved(p) /\ Rearm
  /\ Finish(p)
  /\ UNCHANGED <<retryTimer, resyncTimer, viewVars, serverVars, netVars, swallowed>>

\* Mutant of MarkRefused: no error is noted.
RefuseSilently(p) ==
  /\ saving' = saving \ Given(pending[p])
  /\ retrying' = retrying \ Given(pending[p])
  /\ dirty' = [q \in Question |-> IF q \in Given(pending[p]) THEN 0 ELSE dirty[q]]
  /\ UNCHANGED <<text, answers, saved, failed>>

\* handleSaveFailure, the answers are refused (401, 403, 404, 409, 422): they
\* are not tried again, in whichever chunk they were and whatever is typed now.
MarkRefused(p) ==
  /\ failed' = failed \cup Given(pending[p])
  /\ saving' = saving \ Given(pending[p])
  /\ retrying' = retrying \ Given(pending[p])
  /\ dirty' = [q \in Question |-> IF q \in Given(pending[p]) THEN 0 ELSE dirty[q]]
  /\ UNCHANGED <<text, answers, saved>>

SaveRefused(p) ==
  /\ page = "exam" /\ pc[p] = "refused"
  /\ MarkRefused(p) /\ Rearm
  /\ submitState' = IF p \in Flow THEN "idle" ELSE submitState
  /\ Finish(p)
  /\ UNCHANGED <<retryTimer, resyncTimer, rendered, page, blocked, timeUp,
                 serverVars, netVars, historyVars>>

\* handleSaveFailure, any other error: scheduleRetry.
SaveFailed(p) ==
  /\ page = "exam" /\ pc[p] = "failed"
  /\ retryTimer' = TRUE
  /\ saving' = saving \ Given(pending[p])
  /\ retrying' = retrying \cup Given(pending[p])
  /\ submitState' = IF p \in Flow THEN "idle" ELSE submitState
  /\ Finish(p)
  /\ UNCHANGED <<text, answers, dirty, saved, failed, saveTimer, resyncTimer, rendered,
                 page, blocked, timeUp, serverVars, netVars, historyVars>>

-----------------------------------------------------------------------------
(***************************************************************************)
(* Submitting: handleSubmit, from a click, the focus and fullscreen guards *)
(* or the countdown.                                                       *)
(***************************************************************************)
\* Mutant of SubmitSnapshot: only what waits for its autosave.
DirtySnapshot == dirty

\* What is saved first: what is dirty, and what is shown but not acknowledged unless it
\* is blank.
SubmitSnapshot ==
  [q \in Question |->
     IF answers[q] # 0 /\ ~Cleared(q) /\ ~Same(saved[q], answers[q])
     THEN answers[q] ELSE dirty[q]]

\* A cleared answer whose save was refused is not dirty any more, and being blank it is
\* not saved again: the submit leaves the answer before it on the server.
GivenUp(q) == Cleared(q) /\ q \in failed /\ dirty[q] # answers[q]

Goal == [q \in Question |-> IF GivenUp(q) THEN 0 ELSE answers[q]]

BeginSubmit(s) ==
  /\ pc[s] = "idle"
  /\ submitState' = "submitting"
  /\ saveTimer' = FALSE /\ retryTimer' = FALSE
  /\ goal' = [goal EXCEPT ![s] = Goal]
  /\ IF Given(SubmitSnapshot) = {}
     THEN Goto(s, "submit") /\ UNCHANGED <<pending, todo, chunk, saving, retrying>>
     ELSE BeginSave(s, SubmitSnapshot)
  /\ UNCHANGED <<text, answers, dirty, saved, failed, rendered, page, serverVars,
                 netVars, historyVars>>

\* The check looks at the submitState of the last render: until the next one a
\* second call goes through.
Submit(s) ==
  /\ page = "exam" /\ ~blocked /\ rendered # "submitting"
  /\ BeginSubmit(s)
  /\ UNCHANGED <<resyncTimer, blocked, timeUp>>

SubmitSaved(s) ==
  /\ page = "exam" /\ s \in Flow /\ pc[s] = "saved" /\ todo[s] = {}
  /\ MarkSaved(s) /\ Rearm
  /\ Goto(s, "submit")
  /\ pending' = [pending EXCEPT ![s] = Nothing]
  /\ chunk' = [chunk EXCEPT ![s] = {}]
  /\ UNCHANGED <<retryTimer, resyncTimer, viewVars, todo, goal, serverVars, netVars,
                 swallowed>>

SubmitSucceeds(s) ==
  /\ page = "exam" /\ pc[s] = "submitted"
  /\ page' = "left"
  /\ Finish(s)
  /\ UNCHANGED <<formVars, timerVars, submitState, rendered, blocked, timeUp,
                 serverVars, netVars, historyVars>>

\* Mutant of SubmitFails: the page still says that it submits.
SubmitFailsSilently(s) ==
  /\ page = "exam" /\ pc[s] = "submitFailed"
  /\ Finish(s)
  /\ UNCHANGED <<formVars, timerVars, viewVars, serverVars, netVars, historyVars>>

SubmitFails(s) ==
  /\ page = "exam" /\ pc[s] = "submitFailed"
  /\ submitState' = "idle"
  /\ Finish(s)
  /\ UNCHANGED <<formVars, timerVars, rendered, page, blocked, timeUp, serverVars,
                 netVars, historyVars>>

-----------------------------------------------------------------------------
(***************************************************************************)
(* The countdown, the tab lock and the resynchronization.                  *)
(***************************************************************************)
\* The render in which remainingSeconds becomes 0. The effect of the countdown runs
\* then, or when isTabBlocked changes, and at no other time: one chance to submit. It
\* runs before the effect that refreshes submitAttemptFlowRef, so the handleSubmit it
\* calls is the one of the render before.
CountdownEffect(s) ==
  IF ~blocked /\ submitState # "submitting" /\ rendered # "submitting"
  THEN BeginSubmit(s)
  ELSE /\ rendered' = submitState
       /\ UNCHANGED <<formVars, saveTimer, retryTimer, submitState, page, saverVars,
                      serverVars, netVars, historyVars>>

\* The client's clock is set from the server's and is not ahead of it.
TimeUp(s) ==
  /\ page = "exam" /\ expired /\ ~timeUp
  /\ timeUp' = TRUE
  /\ CountdownEffect(s)
  /\ UNCHANGED <<blocked, resyncTimer>>

\* acquireAttemptTabLock lost or won the lock (see AttemptTabs). Either way the
\* autosave effect runs again; the resynchronization is for the tab with the lock.
TabBlocked ==
  /\ page = "exam" /\ ~blocked /\ rendered # "submitting" /\ faults < MaxFaults
  /\ faults' = faults + 1
  /\ blocked' = TRUE
  /\ saveTimer' = (Given(dirty) # {})
  /\ resyncTimer' = FALSE
  /\ UNCHANGED <<formVars, retryTimer, submitState, rendered, page, timeUp, saverVars,
                 serverVars, late, historyVars>>

\* The effect of the countdown runs here too, but the handleSubmit of the render before
\* takes the tab for blocked and returns: nothing is submitted.
TabUnblocked ==
  /\ page = "exam" /\ blocked /\ rendered # "submitting"
  /\ blocked' = FALSE
  /\ saveTimer' = (Given(dirty) # {})
  /\ resyncTimer' = TRUE
  /\ UNCHANGED <<formVars, retryTimer, submitState, rendered, page, timeUp, saverVars,
                 serverVars, netVars, historyVars>>

\* Mutant of Resync: the autosave timer is not armed again.
ResyncClockOnly ==
  /\ page = "exam" /\ ~blocked
  /\ page' = IF open THEN page ELSE "left"
  /\ UNCHANGED <<formVars, timerVars, submitState, rendered, blocked, timeUp,
                 saverVars, serverVars, netVars, historyVars>>

\* Mutant of Resync: the status of the attempt is not looked at.
ResyncBlindly ==
  /\ page = "exam" /\ ~blocked
  /\ saveTimer' = (Given(dirty) # {})
  /\ resyncTimer' = FALSE
  /\ UNCHANGED <<formVars, retryTimer, viewVars, saverVars, serverVars, netVars,
                 historyVars>>

\* syncAttemptTiming. A new examData makes a new flushPendingAnswersNow, so the
\* autosave timer is armed again. Its new server_time restarts the effect of the
\* clock, whose clean-up stops the interval of the resynchronization too.
Resync ==
  /\ page = "exam" /\ ~blocked
  /\ IF open
     THEN /\ saveTimer' = (Given(dirty) # {})
          /\ resyncTimer' = FALSE
          /\ UNCHANGED page
     ELSE page' = "left" /\ UNCHANGED <<saveTimer, resyncTimer>>
  /\ UNCHANGED <<formVars, retryTimer, submitState, rendered, blocked, timeUp,
                 saverVars, serverVars, netVars, historyVars>>

\* It comes 60 s after the page was loaded or unblocked,
ResyncFires == resyncTimer /\ Resync

\* and when the tab is shown again or the browser is online again.
ResyncOnEvent == Resync

\* The page is loaded again: what it knew is gone, what the server has flushed is
\* shown, and counts as saved. Requests under way are on their own. A countdown
\* that is already over finds no handleSubmit with an attempt yet. The page of a
\* failed load offers a retry that does not load anything.
Reload ==
  /\ page \in {"exam", "error"} /\ faults < MaxFaults
  /\ faults' = faults + 1
  /\ late' = late \cup {Request(p) : p \in {s \in Saver : pc[s] = "save"}}
  /\ open' \in IF \E s \in Flow : pc[s] = "submit" THEN {open, FALSE} ELSE {open}
  /\ page' \in IF open' THEN {"exam", "error"} ELSE {"left", "error"}
  /\ answers' = rows /\ saved' = rows /\ dirty' = Nothing
  /\ failed' = {} /\ saving' = {} /\ retrying' = {}
  /\ saveTimer' = FALSE /\ retryTimer' = FALSE /\ resyncTimer' = TRUE
  /\ submitState' = "idle" /\ rendered' = "idle"
  /\ timeUp' = (expired /\ page' = "exam")
  /\ pc' = [p \in Saver |-> "idle"]
  /\ pending' = [p \in Saver |-> Nothing]
  /\ todo' = [p \in Saver |-> {}]
  /\ chunk' = [p \in Saver |-> {}]
  /\ goal' = [p \in Saver |-> Nothing]
  /\ UNCHANGED <<text, blocked, store, rows, cached, expired, historyVars>>

-----------------------------------------------------------------------------
(***************************************************************************)
(* The server and the network.                                             *)
(***************************************************************************)
Payload(f) == {<<q, text[f[q]]>> : q \in Given(f)}

\* SaveAttemptAnswers is answered from the cache when the payload is that of the latest
\* request (save-answers-latest, 10 s) or of one before it (save-answers-response, 3 s),
AnswerFromCache(f) ==
  /\ Payload(f) \in cached
  /\ swallowed' = swallowed \cup {q \in Given(f) : ~Same(store[q], f[q])}
  /\ store' = [q \in Question |->
       IF Same(store[q], f[q]) THEN Later(store[q], f[q]) ELSE store[q]]
  /\ UNCHANGED <<cached, crossed>>

\* or, when it is not or no longer there, the answers are stored in the order in which
\* the requests arrive. (store also notes the latest edit that asked for the text it
\* holds.)
Store(f) ==
  /\ store' = [q \in Question |->
       IF f[q] = 0 THEN store[q]
       ELSE IF Same(store[q], f[q]) THEN Later(store[q], f[q]) ELSE f[q]]
  /\ cached' = cached \cup {Payload(f)}
  /\ crossed' = crossed \cup
       {q \in Given(f) : f[q] < store[q] /\ ~Same(f[q], store[q])}
  /\ UNCHANGED swallowed

StoreAnswers(f) == AnswerFromCache(f) \/ Store(f)

SaveArrives(p) ==
  /\ pc[p] = "save"
  /\ IF open
     THEN StoreAnswers(Request(p)) /\ Goto(p, "saved")
     ELSE Goto(p, "refused") /\ UNCHANGED <<store, cached, historyVars>>
  /\ UNCHANGED <<formVars, timerVars, viewVars, pending, todo, chunk, goal, rows, open,
                 expired, netVars>>

\* The session has ended: 401.
SaveUnauthorized(p) ==
  /\ pc[p] = "save" /\ faults < MaxFaults
  /\ faults' = faults + 1
  /\ Goto(p, "refused")
  /\ UNCHANGED <<formVars, timerVars, viewVars, pending, todo, chunk, goal,
                 serverVars, late, historyVars>>

\* The request times out after 10 s, or there is no network: the client goes on,
\* the request may still arrive.
SaveTimesOut(p) ==
  /\ pc[p] = "save" /\ faults < MaxFaults
  /\ faults' = faults + 1
  /\ Goto(p, "failed")
  /\ late' = late \cup {Request(p)}
  /\ UNCHANGED <<formVars, timerVars, viewVars, pending, todo, chunk, goal,
                 serverVars, historyVars>>

LateSaveArrives ==
  \E f \in late :
    /\ late' = late \ {f}
    /\ IF open THEN StoreAnswers(f) ELSE UNCHANGED <<store, cached, historyVars>>
    /\ UNCHANGED <<formVars, timerVars, viewVars, saverVars, rows, open, expired, faults>>

\* A submit closes the attempt; one for a closed attempt is acknowledged too
\* (see SubmitPipeline for what is behind it).
SubmitArrives(s) ==
  /\ pc[s] = "submit"
  /\ open' = FALSE
  /\ Goto(s, "submitted")
  /\ UNCHANGED <<formVars, timerVars, viewVars, pending, todo, chunk, goal, store,
                 rows, cached, expired, netVars, historyVars>>

\* It fails, before or after the server has carried it out.
SubmitTimesOut(s) ==
  /\ pc[s] = "submit" /\ faults < MaxFaults
  /\ faults' = faults + 1
  /\ open' \in {open, FALSE}
  /\ Goto(s, "submitFailed")
  /\ UNCHANGED <<formVars, timerVars, viewVars, pending, todo, chunk, goal, store,
                 rows, cached, expired, late, historyVars>>

\* FlushDirtyAttemptAnswers (see AnswerBuffer); of interest while a reload is still
\* possible.
Flush ==
  /\ rows # store /\ faults < MaxFaults
  /\ rows' = store
  /\ UNCHANGED <<formVars, timerVars, viewVars, saverVars, store, cached, open, expired,
                 netVars, historyVars>>

Expire ==
  /\ ~expired
  /\ expired' = TRUE
  /\ UNCHANGED <<formVars, timerVars, viewVars, saverVars, store, rows, cached, open,
                 netVars, historyVars>>

\* runExpiredAttemptSweep
Sweep ==
  /\ expired /\ open
  /\ open' = FALSE
  /\ UNCHANGED <<formVars, timerVars, viewVars, saverVars, store, rows, cached, expired,
                 netVars, historyVars>>

-----------------------------------------------------------------------------
Reply(p) ==
  \/ ChunkSaved(p) \/ AutosaveSucceeds(p) \/ SaveRefused(p) \/ SaveFailed(p)
  \/ SubmitSaved(p) \/ SubmitSucceeds(p) \/ SubmitFails(p)

Arrival(p) == SaveArrives(p) \/ SubmitArrives(p)

Failure(p) == SaveUnauthorized(p) \/ SaveTimesOut(p) \/ SubmitTimesOut(p)

Next ==
  \/ \E q \in Question, v \in Text : Answer(q, v)
  \/ Render \/ AutosaveSkipped \/ RetryFires
  \/ \E a \in Autosave : AutosaveFires(a)
  \/ \E s \in Flow : Submit(s) \/ TimeUp(s)
  \/ TabBlocked \/ TabUnblocked \/ ResyncFires \/ ResyncOnEvent \/ Reload
  \/ \E p \in Saver : Reply(p) \/ Arrival(p) \/ Failure(p)
  \/ LateSaveArrives \/ Flush \/ Expire \/ Sweep

Spec == Init /\ [][Next]_vars

\* Timers run, requests are answered, the page is rendered, the sweep comes every
\* 30 s. Nothing is assumed of the candidate.
Fairness ==
  /\ WF_vars(Render) /\ WF_vars(AutosaveSkipped) /\ WF_vars(RetryFires)
  /\ WF_vars(\E a \in Autosave : AutosaveFires(a))
  /\ WF_vars(\E s \in Flow : TimeUp(s))
  /\ WF_vars(ResyncFires) /\ WF_vars(Sweep)
  /\ \A p \in Saver : WF_vars(Reply(p)) /\ WF_vars(Arrival(p))

FairSpec == Spec /\ Fairness

\* The candidate leaves the tab and comes back now and then.
AttentiveSpec == FairSpec /\ WF_vars(ResyncOnEvent)

(***************************************************************************)
(* The badge next to a question, for each of its answers.                  *)
(***************************************************************************)
Badge(q) ==
  CASE submitState = "submitting" -> "submitting"
    [] submitState = "idle" /\ q \in failed -> "refused"
    [] submitState = "idle" /\ q \in saving \ failed -> "saving"
    [] submitState = "idle" /\ q \in retrying \ (failed \cup saving) -> "retrying"
    [] OTHER -> IF answers[q] = 0 \/ Cleared(q) THEN "none"
                ELSE IF Same(dirty[q], answers[q]) THEN "waiting"
                ELSE IF Same(saved[q], answers[q]) THEN "saved"
                ELSE "none"

-----------------------------------------------------------------------------
(***************************************************************************)
(* Properties.                                                             *)
(***************************************************************************)
\* What the variables hold: an answer is an edit that was made, a request is part
\* of the snapshot of its save, and a save that is over has none.
TypeOK ==
  /\ text \in Seq(Text) /\ Len(text) <= MaxEdits
  /\ answers \in Answers /\ dirty \in Answers /\ saved \in Answers
  /\ store \in Answers /\ rows \in Answers /\ late \subseteq Answers
  /\ failed \subseteq Question /\ saving \subseteq Question /\ retrying \subseteq Question
  /\ saveTimer \in BOOLEAN /\ retryTimer \in BOOLEAN /\ resyncTimer \in BOOLEAN
  /\ submitState \in {"idle", "submitting"} /\ rendered \in {"idle", "submitting"}
  /\ page \in {"exam", "error", "left"} /\ blocked \in BOOLEAN /\ timeUp \in BOOLEAN
  /\ open \in BOOLEAN /\ expired \in BOOLEAN
  /\ pc \in [Saver -> Step]
  /\ pending \in [Saver -> Answers] /\ goal \in [Saver -> Answers]
  /\ todo \in [Saver -> SUBSET Question] /\ chunk \in [Saver -> SUBSET Question]
  /\ \A p \in Saver : /\ todo[p] \cup chunk[p] \subseteq Given(pending[p])
                      /\ pc[p] = "idle" => pending[p] = Nothing
  /\ faults \in 0 .. MaxFaults
  /\ crossed \subseteq Question /\ swallowed \subseteq Question

\* The server has the answer the page calls saved. The two ways around it are
\* named: requests or replies that cross, which the page does not prevent, and
\* a payload that comes back within the 3 s of the response cache.
SavedIsStored ==
  \A q \in Question \ (crossed \cup swallowed) :
    saved[q] # 0 => Same(store[q], saved[q]) \/ store[q] > saved[q]

\* The badge does not lie: what it calls saved is on the server (or, after a
\* reload, a newer answer that was still under way), and while it says that an
\* answer is being saved, a save of it is under way.
BadgeHonest ==
  page = "exam" =>
    \A q \in Question :
      /\ Badge(q) = "saved" /\ q \notin crossed \cup swallowed =>
           Same(store[q], answers[q]) \/ store[q] > answers[q]
      /\ Badge(q) = "saving" => \E p \in Saver : pending[p][q] # 0

\* A submit is sent when the server has every answer that was on the page when
\* the candidate submitted, also those just cleared, or a newer one. The one way around
\* it that is not a crossing or the cache is named by GivenUp: a cleared answer whose
\* save was refused, which handleSubmit passes over.
SubmitCarriesAnswers ==
  \A s \in Flow, q \in Question \ (crossed \cup swallowed) :
    pc[s] \in {"submit", "submitted"} /\ goal[s][q] # 0 =>
      store[q] >= goal[s][q] \/ Same(store[q], goal[s][q])

\* No answer is forgotten: what the page shows is acknowledged, still to be
\* saved, or marked as refused.
NoSilentLoss ==
  page = "exam" =>
    \A q \in Question \ crossed :
      answers[q] # 0 =>
        Same(saved[q], answers[q]) \/ dirty[q] = answers[q] \/ q \in failed

\* A dirty answer does not wait for ever, although a submit or a blocked tab
\* drops the autosave timer: a later save, refusal or resynchronization comes.
DirtySettles ==
  \A q \in Question : dirty[q] # 0 ~> dirty[q] = 0 \/ page # "exam" \/ blocked

\* Once the time is up the candidate gets to the result, although the countdown
\* submits only once and a refused save stops that submit.
TimeUpLeaves == timeUp ~> page # "exam" \/ blocked

\* A submit ends, in the result or with the page usable again.
SubmitEnds == submitState = "submitting" ~> submitState = "idle" \/ page # "exam"

=============================================================================
