# Exam Arena: a verification project in TLA+

Exam Arena lets candidates join exam rooms, start timed attempts, answer with
autosave, submit, and read results. The backend (Go) keeps its durable state in
PostgreSQL and puts Redis in front of it: answers are buffered and written
behind, submits go through a stream, locks, statuses and caches are keys with a
time to live. Several requests, three background loops and possibly several
backend processes work on the same attempt. The web client (TypeScript) saves in
the background from a page with timers, several requests under way and a lock
between tabs, guards the exam, polls for the result, and keeps a session that its
other pages share. This directory holds TLA+ models of these protocols, TLC runs
that check them on small instances, and proofs of the most important results for
every instance.

Tools: `tlc -config X.cfg M` checks module `M` under `X.cfg`; `tlapm M.tla` checks
the proofs of `M`, which is one of the eight `...Proofs` modules.
`PROJECT.json` says which run checks what, which lines each definition models, and
which change of the code each property would notice.

## 1. The system

| Component (source) | State | Operations | Hard because |
|---|---|---|---|
| Answer buffer (`attemptService.go` 561-664, 1054-1440; `UpsertAttemptAnswersAuthorized`) | Redis: buffer, claimed batch, three versions, dirty set, flush lock; PostgreSQL: section logs, answers | save, claim, read, upsert, clear, stamp, merge back, requeue, drain | every command can fail or be the last of its process; saves go on during a flush |
| Submission (`SubmitAttempt`, `FinalizeQueuedSubmitAttempt`, `workers/submit_worker.go`) | submit status, post-submit flag, stream, submit and save locks, attempt row, marks | submit, fast path, consume, acknowledge, give up, grade, publish | four kinds of process finalize the same attempt; messages are redelivered |
| Sweep of expired attempts (`runExpiredAttemptSweep`) | the same, without the submit and save locks | close a batch of attempts, drain, grade | status first, the rest later, no second chance |
| Reads (`ensureAttemptFinalizedForRead`, `GetAttemptResult`, `GetAttemptReview`, `buildAttemptDetailResponse`) | detail, review and result caches | repair an unfinished submit, grade for display, cache | fills race with invalidations |
| Saving front (`SaveAttemptAnswers` 347-455) | write guard, latest and response caches, save lock | deduplicate, check, buffer | goes on without its lock |
| Starting (`StartAttempt`, `GetOrCreateInProgressAttempt`) | attempt rows, partial unique index, start lock | check window and policy, create or resume | check and insertion are separate statements |
| Grading and deadlines (`gradeMathAttemptResult`, `computeAttemptDurationSeconds`, `effectiveAttemptDeadlineSQL`) | none | pure functions | two computations that must agree |
| History, room and exam caches (`attemptHistoryService.go`, `roomService.go`, `roomExamService.go`, `examService.go`) | versions in Redis, a copy per process, payload caches | read through, bump a version, warm | missing versions, stale copies |
| Room access (`roomAccessService.go`) | access rows, positive and negative caches, join lock | join, check | goes on without its lock |
| Login protection, rate limits (`middleware/`) | failure counters, cooldowns, buckets | count, cool down, allow | several commands per decision |
| Attempt page: answers (`frontend/app/attempts/[id]/page.tsx`) | answers, dirty, saved and failed questions, three timers, the saves under way | answer, autosave, retry, submit, count down, resynchronize, reload | replies cross edits and other requests; what a callback sees is of an older render |
| Attempt page: tab lock (the same, 130-260) | one entry of localStorage, a flag and a heartbeat per tab | acquire, beat, hear, release | no atomic step between tabs; throttled timers; crashes |
| Attempt page: guards (the same, 420-640) | absences, fullscreen, warning, leave dialog, a history entry | warn, count down, submit | each ends in a submit that can fail or be ignored |
| Result and review pages (`result/page.tsx`, `review/page.tsx`) | two requests, polling, an offer | poll, count again, colour | the server, the dots, the numbers and the marks grade the same answers four times |
| Session (`lib/auth`, `middleware.ts`, `RequireAuth`) | cookie, user, loading flag | load, log in, register, log out, refresh, redirect | late replies set the user; cookie and user part |
| Catalogue (`components/room`, `components/exam`, `lib/room-access`) | access override, completions, dialogs | join, start | replies for a user or a card that is gone |
| Profile page (`components/profile`) | a form, its lists, load, save and upload | edit, save, upload, choose province and ward | four kinds of answers write to one form |
| History page (`components/history`) | a list with a cursor | load, load more | the list grows at the server meanwhile |

How they interact. A save checks the write guard and the attempt, takes the save
lock if it can, looks at the submit status and appends to the buffer in one
MULTI, which also marks the attempt dirty. The flush worker pops dirty attempts
and flushes each once. `SubmitAttempt` claims the submit status with SETNX, sets
the flag that lets a flush write to a closed attempt, adds a message to the
stream and then tries to finalize at once. A submit worker finalizes from the
message. Result and review requests finalize too when they find the attempt
unfinished. Finalizing takes the submit and the save lock, drains the buffer,
closes the row, grades, invalidates the caches, deletes the submit keys and sets
the status to done. The sweep closes expired attempts by SQL and then does the
same steps in another order and without the two locks.

The attempt page calls the save and submit routes through `lib/api`; it learns of
the end of an attempt from a refused save, a resynchronization or its own
countdown, and then shows the result page, which asks for result and review until
both are there. Tabs meet only in localStorage and its events. All other pages
share `AuthProvider`, and `RoomAccessProvider` starts the tree below it anew for
another user; requests of a page that was left are still answered.

What makes each part correct: an accepted answer is never lost or replaced by an
older one; the flushed version is true; a submit that was acknowledged is carried
out; a status of done means that the marks count every answer that must count;
a result that is shown is complete; loops and drains end; starts respect the
one-attempt policy; a cached value is at most its time to live out of date; the
page neither forgets an answer nor calls one saved that is not; one tab works at a
time; the rules of the exam are enforced or the attempt is submitted; the pages
agree about the marks; what is shown belongs to the user who is logged in.

## 2. Modules

| Module | What it is |
|---|---|
| `AnswerStore` | abstract: what saving promises (a current answer and a durable one per question) |
| `AnswerBuffer` | the write-behind path of one attempt, one action per Redis command, script or SQL statement |
| `SubmitPipeline` | how the attempt is closed, graded and read, by all its finalizers |
| `AttemptPage` | the answers of the attempt page against a server that stores, caches, expires and closes |
| `AttemptTabs` | the lock between the tabs of one browser |
| `Paper` | exam papers, grading by the server and by each page, as functions |
| `AttemptRoute` | what the pages about an attempt share |
| `AttemptGuards` | absences, fullscreen, leaving, the back button |
| `ResultPages` | result and review: requests, polling, dots, numbers, marks |
| `AttemptFlow` | composes guards, result and review: an attempt from exam to review |
| `WebRoute` | what the other pages share: route, cookie, user, one room, one exam |
| `WebSession` | `AuthProvider`, middleware, login, registration, logout |
| `CataloguePages`, `ProfilePage`, `HistoryPage` | the pages, each with the session |
| `WebClient` | composes the session and these pages |
| `AnswerBufferProofs`, `SubmitPipelineProofs`, `AttemptPageProofs`, `AttemptTabsProofs`, `PaperProofs`, `AttemptFlowProofs` | TLAPS proofs about the module of that name |
| `WebClientProofs`, `CatalogueProofs` | TLAPS proofs about `WebClient`: session, history and profile; cards and types |
| `MCAnswerBuffer`, `MCSubmitPipeline`, `MCAttemptPage`, `MCAttemptFlow`, `MCWebClient` | small instances for TLC |

### AnswerBuffer

An answer is the number of the save that carried it, the value its INCR
returned; that keeps what the properties need, which answer is newer, and drops
the text. The hashes are functions from questions to answers. `pc[f]` is the
command a flusher is about to execute; `Worker`s come from `PopDirty`
(`FlushDirtyAttemptAnswers`), `Drainer`s are calls of
`drainAttemptAnswerBuffer`, with their passes counted. `CanWrite`, `Resolved`
and `WriteRows` are the upsert statement, with the rule of PostgreSQL that one
part of a WITH query does not see the rows another part inserts: the first
flush of a section creates its log and resolves nothing.

Every command has a failing form, bounded by `MaxFaults`. Where the caller's
error does not say whether the command ran (claim, upsert), both cases are
there; a save or a pop whose reply is lost is a `Save`, and a pop followed by a
crash. `Crash` frees nothing: a lock becomes `Orphan` until its time to live is
over. `LocksMayExpire` adds the expiry of a lock under a holder that is still at
work. Submission, sweep and deadline appear as an unconstrained environment, so
what holds here holds whatever order `SubmitPipeline` gives them.

`Store` maps the abstract variables: current is the answer found in buffer,
batch, rows, in that order; durable is the rows.

### SubmitPipeline

One attempt again, with the answers counted instead of listed ("stored = 2":
the rows hold the first two saves) and a flush of two actions, claim and upsert,
which `AnswerBuffer` justifies: there an interrupted batch is found again. `pc`
names the call a process is about to make, and `After` is the order of
`FinalizeQueuedSubmitAttempt` or, for a sweeper, of the loop in
`runExpiredAttemptSweep`. Consumers remember the message they were given;
an unacknowledged one can be given out again at any time. `due` is a history
variable: the answers that must count, accepted before anybody asked to close
the attempt or under the save lock while it was in progress. `LoadInfo` reads the
row and fills the cached status at once; that a request stores late what it had read
before the submit, over the invalidation, is the action `StaleInfoCached`, at any
time after the row was closed. A drain that gets an error instead of the flush lock
marks the attempt dirty again when Redis failed, and not when its context is over
(`StepFails`); a flush worker does so after every error.

Simplifications: the two deferred releases of a finalizer are one action; a read
of status and buffer is atomic; a reader asks once; the write guard's cache is a choice (a refusal there changes
nothing); a drain's limit of 20 passes is not reached, because saves are
bounded; the review works like the result.

### AttemptPage

An answer is the number of the edit that made it, its text is `text[number]`, and
two edits may type the same text: `Same` is the comparison of the code. `dirty`,
`saved`, `failed`, `saving` and `retrying` are the page's maps and sets, the three
timers are armed or not. An autosave or a run of `handleSubmit` is a slot of
`Autosave` or `Flow` with its snapshot, what it has still to send and the chunk
under way; nothing in the code keeps two of them apart, and nothing here does.
`rendered` is the submit state the callbacks of the last render see; until
`Render` a second submit passes the check of the first, and the autosave timer goes
by it too. Effects belong to the action whose render runs them: `Rearm` is the
autosave effect, `CountdownEffect` that of the countdown. The latter runs before the
effect that refreshes `submitAttemptFlowRef` (page.tsx:642 and 1237), so it calls the
`handleSubmit` of the render before: one that took the page for submitting, or the
tab for blocked, returns. A tab that wins the lock after 00:00 therefore submits
nothing (`TabUnblocked`).

One text is `Blank`, that of an answer that was cleared (texts of spaces are not told
apart from it). It is saved like any other while it is dirty, but `SubmitSnapshot`
passes over it. Entering the same text again is an edit that makes the question dirty
and keeps the number of its answer.

The server of this module is a register of accepted answers (what `AnswerBuffer`
implements), the rows a reload shows, the response caches keyed by the payload (3 s,
and 10 s for the latest one), and a status that the deadline and the sweep close. A request can be
refused, fail before or after it was executed, or be given up by the client and
arrive later. `cached` has the payloads whose response may still be there; whether it
is, or its time is over, is the choice in `StoreAnswers`. History variables name what the code does not prevent, so that the
properties can hold for everything else: `crossed` are questions with requests or
replies that overtook each other, `swallowed` those with a save that the response
cache answered in place of the server.

### AttemptTabs

`acquireAttemptTabLock` in its three steps (read, write, read again) per tab,
between which other tabs run. Time passes in ticks of a second; the timers of the
tab in front are on time, those of hidden tabs come when the browser likes. The
lock of a crashed page belongs to `Gone`, because a new page has a new id. `deaf`
is a history variable: the tabs whose last look at the lock fell into a submit,
when `trySyncAttemptTabLock` does nothing.

### AttemptGuards, ResultPages, AttemptFlow

One tab, three pages. `AttemptGuards` has the focus, the fullscreen element, the
warning with its countdown, the two dialogs and the guard entry of the history;
each of its ends is the `handleSubmit` that does nothing while the page loads, is
blocked or submits. `missed` names the guards that a refused or failed submit has
undone. `ResultPages` has the two requests of the result page, answered at
different times from a server that grades in between, the polling, and the offer
of the review; `Paper` computes the score and the counts of the server, the dots
of the result page, the colours of the navigator and the marks on the options.
`AttemptFlow` lets a page open where the one before leads to it.

### WebClient

A page is a record of its own state, made anew when another route or another user
is shown. `WebSession` keeps apart `cookie` (whose token the browser sends), `user`
(whom the client believes in) and `owner` (whom the last load, login or logout was
about). `overtaken` and `stray` name the late replies that make another user the
one shown. After a logout on a guarded page two redirects race, to the landing page and
to the login page; either may come last (`LogoutSucceeds`). `CataloguePages` keeps the handlers that wait for a reply although their
card is gone; `ProfilePage` has the load, the save, the upload and the lists of
provinces and wards, all under way at a time; `HistoryPage` appends pages of a list
that grows at its other end. A behaviour keeps to the links and users of one tour
(`Tours`), which is how TLC's instances stay small: every page with the session,
and the pages that share the session's state with each other.

## 3. Runs

| Run | Instance | Checks |
|---|---|---|
| `AnswerBuffer_safety` | 1 worker, 1 drain of 2 passes, 3 saves, 1 fault, 1 crash | `TypeOK`, `AcceptedRecoverable`, `FlushedVersionSound`, `StoreSpec` |
| `AnswerBuffer_expiry` | 2 saves, locks may expire | `LateReleaseHarmless` |
| `AnswerBuffer_live` | 2 saves, no fault, no crash, fairness | `BufferedIsTracked`, `EventuallyStored`, `DrainEnds` |
| `SubmitPipeline_safety` | client, reader, consumer, flush worker, save; 1 fault | `TypeOK`, `DoneIsGraded`, `ResultComplete`, `GradeNeverRegresses` |
| `SubmitPipeline_sweep` | client, reader, sweep, flush worker, save; 1 crash | `DoneIsGraded`, `ResultComplete` |
| `SubmitPipeline_live` | client, consumer, flush worker, save, 2 messages; 1 crash, fairness | `StreamedIsGraded` |
| `SubmitPipeline_swept` | sweep, flush worker, 2 saves, fairness | `SubmittedIsGraded` is violated |
| `AttemptPage_safety` | 2 questions, 2 texts and the blank one, chunks of 1, 1 autosave, 1 submit, 2 edits, 1 fault | `TypeOK`, `SavedIsStored`, `SubmitCarriesAnswers`, `NoSilentLoss`, `BadgeHonest` |
| `AttemptPage_live` | 1 question, a text and the blank one, 2 edits, 1 fault, fairness | `DirtySettles`, `TimeUpLeaves`, `SubmitEnds` |
| `AttemptTabs` | 2 tabs, time to live 5, heartbeat 2, 4 openings, fairness | `TypeOK`, `LockRespected`, `HolderStaysFresh`, `LoneTabWorks` |
| `AttemptFlow` | a question of each kind, 12 sheets, limit of 2 absences, warning of 2 s, 1 fault, fairness | `TypeOK`, `GuardsHold`, `DotsExplainScore`, `ReviewAgrees`, `WaitEnds`, `WarningEnds` |
| `WebClient` | 6 tours, 2 users, 1 fault, 2 sends per visit of the profile, a history of 4, fairness | `TypeOK`, `UserIsSession`, `OffersAreUsers`, `WardFits`, `HistoryInOrder`, `SaveChangesOnlyEdits`, `LocationsSettle` |

Why the bounds are enough to be interesting. Two questions in two sections give
batches that are resolved in part. Three saves are an answer that was flushed,
one in a claimed batch and one in the buffer. Two flushers are a holder and one
that finds the lock taken; more add waiting ones. One fault and one crash in the
same behaviour reach a batch left over by one and found after the other. In the
pipeline one process of each kind already gives three finalizers, and one save
is what can be early, late or missing. With one message a second submit waits at
the XADD while the first one's message is in the stream; `SubmitPipeline_live`
has two. On the attempt page two questions with chunks of one make a save of two
requests; an autosave and a submit are two requests that can cross; two edits are
an answer and its replacement, its removal, or the same text again; one fault is a lost
request, a reload or a lost tab lock. Two tabs are a holder and a challenger, four
openings bring each back once. Of the papers, each kind of question occurs with
right, wrong and missing answers, and a cluster in every combination.

Deadlock. The safety runs of `AnswerBuffer` and `SubmitPipeline` and the runs
`AttemptFlow` and `WebClient` check it: a drain can always start, a request is
always possible, some link can always be followed. It is switched off where the
system may stop: a closed and graded attempt without readers, an attempt page that
was left for the result, tabs that are closed after the last opening.

Fairness. `FairSpec` of the backend assumes weak fairness of the steps of a flush,
a submit, a read or a save that has begun (a goroutine goes on until it returns),
of the pops and deliveries of the workers and of the sweep (tickers and a blocking
loop), and of times to live that run out. It assumes nothing of candidates:
`Save`, `BeginSave`, `SubmitRequest`, `ReadRequest`, `StartDrain` and
`DeadlinePasses` may never happen. Faults and crashes are bounded and unfair.

`FairSpec` of `AttemptPage` assumes that timers go off, React renders, requests
are answered or fail, and the sweep runs. `AttentiveSpec` adds that the tab is
shown again, or the browser comes online again, now and then (`ResyncOnEvent`).
Without it `TimeUpLeaves` is violated, and rightly: the first success of the
resynchronization restarts the effect that owns its interval (page.tsx:347), the
countdown submits once (642), and when that submit fails nothing else looks at the
clock. The same holds of a tab that wins the lock back after 00:00. `AttemptTabs` assumes that time passes, that started code goes on and that
heartbeats and storage events come at last; `AttemptFlow` that timers, browser and
server answer; `WebClient` only that the lists of provinces and wards arrive or
fail. No user action is fair anywhere else.

### What the runs show

`AcceptedRecoverable` and `StoreSpec`: the claim script that prefers an old
batch, HSETNX in the merge and the lock are enough to lose nothing and to let no
older answer return, also after lost replies and crashes.
`LateReleaseHarmless` is what remains when a lock expires under its holder: the
compare-and-delete release is safe, the data is not (a late upsert may overwrite
newer rows, a late DEL removes another's batch), so the data properties are
stated for `~LocksMayExpire`. `EventuallyStored` needs a backend that does not
stop between the SPOP and the flush: after such a crash the buffer is in no dirty
set and waits for the next save, submit or read.

`DoneIsGraded` and `ResultComplete` hold with all finalizers, with the sweep,
and with saves that lost the race for the save lock, which need not count. Such a
save, between the DEL and the SET of the submit status, is refused at every flush
and put back into the dirty set for ever.
`GradeNeverRegresses` is stated before the deadline because the sweep, which
takes no lock, can write marks read earlier over later ones.
`StreamedIsGraded` holds through crashes. With a failing XADD that was executed
nevertheless it does not: the submit is taken back, and the consumer of its
message may then forget a second one.

The one violation, `SubmittedIsGraded`, is a disagreement between the code and
what the repository says of it; `findings` quotes both: the sweep closes an
attempt, fails to flush it, for instance because the first flush of a section
always comes back, and never grades it.

On the attempt page, `NoSilentLoss` says that what is shown is acknowledged, still
to be saved or marked as refused; `SavedIsStored`, `BadgeHonest` and
`SubmitCarriesAnswers` that the server really has what the page relies on, except
for questions in `crossed` and `swallowed`, which are two gaps of the code: a save
that was given up can arrive after a newer one, and a payload that comes back
within seconds is answered from a cache without being written. `SubmitCarriesAnswers`
has a third, `GivenUp`: a cleared answer whose save was refused is neither dirty nor
sent again (page.tsx:1194), and the submit goes out with the answer before it on the
server. Without that exception the property is violated. After a reload the
page shows what was flushed, which can be older than what was accepted.

`LockRespected` and `HolderStaysFresh` hold although the lock is not atomic: two
tabs can work at the same time only until the storage event that is under way, or
until the next heartbeat of a tab that missed it during a submit.

`GuardsHold` holds but for `missed`: what happens during a submit is ignored, and
a submit that then fails leaves the candidate outside fullscreen, or with a back
button that leads away, with nothing to demand it again. `WaitEnds` has the one
exception it names: a poll that fails while the attempt is being graded is the
last, and the screen that asks to wait hides the error. `ReviewAgrees` compares
the pages for keys that are written plainly, because the review alone compares
without folding the case. It also rests on `StatementsKeyed`: each statement has
the key True or False that the comment on the table of questions asks for
(`init.sql`), although the column may be null. `resultsMap` does not ask whether a
statement was answered, so that one without a key could count as right there.

`UserIsSession` and `OffersAreUsers` hold but for replies that overtake a login
(`overtaken`) and cards rendered for another user; `SaveChangesOnlyEdits` but for a
form that shows the fallback of a failed load or was replaced while a save was
under way.

## 4. Proofs

All proofs are for any values of the constants that satisfy the assumption of the
module.

`AnswerBufferProofs`, for any sets of questions, sections, workers and
drains and any bounds, from `BufferAssumption` alone:

- `TypeCorrect`: `Spec => []TypeOK`;
- `AcceptedNeverLost`: `~LocksMayExpire => (Spec => []AcceptedRecoverable)`;
- `FlushedVersionCorrect`: `~LocksMayExpire => (Spec => []FlushedVersionSound)`;
- `WriteBehindImplementsStore`: `~LocksMayExpire => (Spec => StoreSpec)`;
- `LateReleasesHarmless`: `Spec => LateReleaseHarmless`, also when locks expire;
- `BufferedAreTracked`: `~LocksMayExpire /\ MaxFaults = 0 /\ MaxCrashes = 0 =>
  (Spec => []BufferedIsTracked)`.

`AcceptedRecoverable` is not inductive: that a claim or a merge keeps it depends
on what the flusher at work knows. `IInv` adds that only the lock's holder is
inside a flush (`Exclusive`), that answers only get newer from rows to batch to
last save (`Ordered`), what the versions say of batch and rows (`Versions`), and
what a flusher knows at each of its locations (`LocalInv`: before the clear, all
of the batch is in the rows; before the stamp, everything up to its version is).
`Exclusive` is proved first, from the lock alone; then quiet steps are dealt
with together and each step that moves an answer has a lemma of its own
(`ClaimStep`, `UpsertStep`, `ClearStep`, `StampStep`, `MergeStep`, `SaveStep`).
The refinement needs `IInv` for one thing: the rows an upsert writes are never
older than those it replaces.
`BufferedIsTracked` needs that a claimed batch is always being flushed and a buffer
is always on its way to a flush (`Tracked`): a claim takes the whole buffer because,
under `Exclusive`, nobody has left a batch behind.

`SubmitPipelineProofs`, for any numbers of clients, readers, consumers, sweeps, flush
workers, saves, messages, faults and crashes, from `SubmitAssumption`:

- `TypeCorrect`: `Spec => []TypeOK`;
- `DoneMeansGraded`: `Spec => []DoneIsGraded`;
- `ResultsAreComplete`: `Spec => []ResultComplete`;
- `GradesOnlyGrow`: `Spec => GradeNeverRegresses`.

The status says done long after the answers were drained, so `DoneIsGraded` rests on
everything between. `IInv` says: whoever finalizes was asked to, so that `due` only
grows by saves under the save lock (`AskedInv`); a process inside a flush has the
flush lock, a finalizer the other two (`LockInv`); when nothing is pending, the rows
are the accepted answers, and a flush writes what it claimed (`FlushInv`); therefore a
grader, between its drain and its marks, has every answer that must count, because
such a save needs the save lock and an open row (`GradeInv`); and what a reader holds
or caches was read of a graded attempt (`ResultInv`). The sweep takes neither lock; it
comes after the deadline and closes the row first, which stops these saves as well
(`PlaceInv`). The steps of a grader are never overtaken by another's marks before the
deadline, because the submit lock is held from drain to marks (`MarksStep`). As in
the model, the locks of this module outlive their holders; a crash leaves them to
their time to live.

`AttemptPageProofs`, for any questions, texts, slots, chunk size and bounds, from
`PageAssumption`:

- `TypeCorrect`: `Spec => []TypeOK`;
- `NothingForgotten`: `Spec => []NoSilentLoss`;
- `SavedIsTrue`: `Spec => []SavedIsStored`;
- `SubmitsCarryAnswers`: `Spec => []SubmitCarriesAnswers`;
- `BadgesHonest`: `Spec => []BadgeHonest`.

None of them is inductive alone, because what a reply makes of an answer depends
on what its request has done before. `IInv` says: a saved answer is in the store or
a newer one is (`SavedInv`); so is what a save has sent and heard of, chunk by chunk
(`ArrivedInv`); what was shown when a submit began, but for what `GivenUp` names, is saved or in its
snapshot until it has been (`GoalInv`): a cleared answer that is not refused is dirty or
saved, by `LossInv`; a question that is being saved has a save
(`SavingInv`); and `NoSilentLoss` holds also of a page that is not shown
(`LossInv`). There is one lemma per kind of step that touches them (`EditStep`,
`BeginStep`, `SubmitStep`, `ChunkStep`, `MarkSavedStep`, `RefusedStep`,
`ArriveStep`, `LateStep`, `ReloadStep`, ...) and one for all that do not
(`QuietStep`).

`AttemptTabsProofs`, for any number of tabs and openings and any times, from
`TabsAssumption` (the heartbeat is shorter than the time to live):

- `TypeCorrect`: `Spec => []TypeOK`;
- `LockIsRespected`: `Spec => []LockRespected`;
- `HolderIsFresh`: `Spec => []HolderStaysFresh`.

`Told` extends `LockRespected` to the tabs that submit, which a failed submit turns
into tabs that work. `InTime` says that the age of the lock and the time to the
next heartbeat add up to no more than the time between heartbeats, and that time
does not pass while a tab acquires the lock.

`AttemptFlowProofs`, for any limit of absences, any countdown and any number of
faults, from `RouteAssumption` and `GuardsAssumption`:

- `GuardsAreKept`: `Spec => []GuardsHold`;
- `TypeCorrect`: `Spec => []TypeOK`.

Every step of the exam page that loosens what a guard demands also submits or names
the guard as missed; the invariant adds the ranges of the guards' state
(`GuardsInv`), that a page that is not shown is as new, so that it is opened within the
rules, and that a page of result or review that waits for its poll has no other
request under way (`ResultInv`).

- `DotsAlwaysExplainScore`: `Spec => []DotsExplainScore`;
- `ReviewAlwaysAgrees`: `Spec => []ReviewAgrees`.

Both need of the behaviour only that a page that shows something has loaded one of
the sheets (`TypeOK`); the rest is about the sheet, and proved in `PaperProofs` for
every well-formed paper, with any number of questions of each kind, in any order, and
any key and answers:

- `EveryQuestionHasANumber`: the pages number each question once, and nothing else;
- `EveryAnswerHasANumber`: each row that is graded belongs to one number;
- `DotsAgreeWithScore`: dots and counts, points and score;
- `ColoursAgreeWithMarks`: colours, marks and dots, if the statements have a key.

The client goes through the questions section by section, the server through the rows
one by one and through groups of statements, and each adds up. That both get the same
is shown with lemmas about sums: that of two sets apart (`SumUnion`), of two sets that
correspond (`SumMapped`: places of the dots and questions, clusters and groups), of the
sizes of sets apart (`SumOfSizes`), without what adds nothing (`SumWithoutZeros`: a
cluster without statements is no group of the server and gives no points). These are
inductions over finite sets, in a form the prover accepts: among the sets that
contradict the lemma one is smallest (`SmallestSet`), which its own subsets refute.
`RankNumbers` and `RowsAtShows` say that the rows of a section come out each once.

Two modules are about `WebClient`, for any users, tours and number of faults, from
`WebAssumption`.

`WebClientProofs`:

- `UserIsOfSession`: `Spec => []UserIsSession`;
- `HistoryIsInOrder`: `Spec => []HistoryInOrder`.

`SessionInv` says what answers may still come: the one to `loadUser` is of the session's
owner, except after a logout that found it under way (`Leaving`), and then the refresh
of the layout is still to come, which forgets it. `PageKeptStep` says that nothing but
the steps of a page changes it while it is shown, but for a new object `user`.
`HistoryInv` says that the list is in order, ends at its cursor, and has at most one
request under way, for what comes after that cursor.

About the profile page, in the same module:

- `WardIsOfProvince`: `Spec => []WardFits`;
- `SavesAsEdited`: `Spec => SaveChangesOnlyEdits`.

`ProfileInv` puts side by side the form, the server and what is under way between them.
Each of them has a ward of its province (`AllFit`); the wards loaded are of the province
shown (`FormFits`); an answer is what the server holds or is known to be older
(`AnswersTell`); and a form that was filled by the server, and that no save has
overtaken, differs from the server in the fields that were edited only, and so does a
save made of it (`EditsTell`).

`CatalogueProofs`:

- `OffersAreOfUser`: `Spec => []OffersAreUsers`;
- `TypeCorrect`: `Spec => []TypeOK`.

`OffersInv` tells apart what the server rendered, which is true of whom it was rendered
for (`PropsFit`, `CardsFit`: joins and submissions are never taken back), and what the
client learnt, which is true of the user shown (`LearntFits`): it asked with the cookie
of that moment, and by `SessionInv` the user shown is then the holder of the cookie,
unless a late answer has overtaken a login. Four lemmas say first what any step leaves
of the server, of what was rendered, of the cards and of the access (`ServerIsKept`,
`PropsAreKept`, `CardsAreKept`, `AccessIsKept`). All pages share the variable `page`;
`TypeCorrect` shows that each finds there a state of its own form, after whatever
redirect, reload or login led to it.

Only model-checked: the liveness properties (`EventuallyStored`, `DrainEnds`,
`StreamedIsGraded`, `DirtySettles`, `TimeUpLeaves`, `SubmitEnds`, `LoneTabWorks`,
`WaitEnds`, `WarningEnds`, `LocationsSettle`), because liveness under fairness is out of
the prover's reach. Every safety property that a run checks is also a theorem.

## 5. Not modelled

Of the attempt: the 8 h time to live of the answer keys and the 6 h one of the
submit status; the trimming of the stream; a worker that deletes the buffer of an
attempt whose exam or user was removed; questions removed during an attempt; the
mode without Redis (`saveAttemptAnswersDirect`, `submitAttemptSync`).

Of the server: the lock and the policy checks of a start, which are one step of
`CataloguePages`; the two computations of the deadline; the versioned caches of
history, rooms and exams, and their in-process copies; the access caches of rooms
and the join lock; login protection and rate limits, which count and cool down
beside these protocols; validation and single statements of accounts, profiles and
documents; routing and decoding, where a request is an action of its service.

Of the web client: pagination, filters, the carousel, zooming, layout, and the
vendored widgets of `components/ui`, which keep no state of the application. The
other fields of the profile form behave like the ward. One room, one exam and one
attempt stand for all: pages about different ones share nothing but the session.
The scripts that drive a deployed system are not part of it.

Abstractions to keep in mind. The server of `AttemptPage` is a register, the one
`AnswerBuffer` is proved to implement while locks outlive their holders. The
composed runs show one tab; several are in `AttemptTabs`, whose loss of the lock
is an input of the other modules (`TabBlocked`).

## 6. What is left to do

In this order; in the style of the modules above, one action per operation.

1. `StartAttempt`: two starts and a submit, with the lock, both policy checks and
   the partial unique index.
2. `VersionedCache`: read-through fill, version bump, in-process copy, missing
   version; staleness bounded by the times to live.
3. `RoomAccess` and `LoginProtection`: what goes on without a lock, and what is
   decided by several commands.
4. The deadline in Go and in SQL as one function (proved equal).
