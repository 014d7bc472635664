--------------------------- MODULE SubmitPipeline ---------------------------
(***************************************************************************)
(* How one attempt is closed and graded (backend/services/                 *)
(* attemptService.go: SaveAttemptAnswers, SubmitAttempt,                   *)
(* FinalizeQueuedSubmitAttempt, runExpiredAttemptSweep,                    *)
(* ensureAttemptFinalizedForRead, GetAttemptResult; workers/               *)
(* submit_worker.go). Clients submit, a stream carries the submit to       *)
(* consumers, a sweep closes attempts whose time is over, readers ask for  *)
(* the result, and all of them drain, grade and publish the same attempt,  *)
(* while saves and flush workers go on.                                    *)
(*                                                                         *)
(* Data: the answers of the attempt are counted, not listed: "stored = 2"  *)
(* says that the rows hold every answer up to the second accepted save.    *)
(* AnswerBuffer is the detailed model of how they get there; a flush is    *)
(* two actions here, its claim and its upsert.                             *)
(***************************************************************************)
EXTENDS Integers

CONSTANTS
  Client,       \* submit requests
  Reader,       \* result and review requests
  Consumer,     \* submit workers
  Sweeper,      \* sweeps of expired attempts
  FlushWorker,  \* flush workers
  Saver,        \* save requests
  Message,      \* messages the stream can hold at a time
  Nobody,       \* value of a lock when nobody has it
  Orphan,       \* value of a lock when its holder crashed
  MaxSaves,     \* bound on save requests
  MaxFaults,    \* bound on failing commands
  MaxCrashes    \* bound on crashes

Finalizer == Client \cup Reader \cup Consumer
Flusher == Finalizer \cup Sweeper \cup FlushWorker
Process == Flusher \cup Saver

ASSUME SubmitAssumption ==
  /\ Client \cap (Reader \cup Consumer \cup Sweeper \cup FlushWorker \cup Saver) = {}
  /\ Reader \cap (Consumer \cup Sweeper \cup FlushWorker \cup Saver) = {}
  /\ Consumer \cap (Sweeper \cup FlushWorker \cup Saver) = {}
  /\ Sweeper \cap (FlushWorker \cup Saver) = {}
  /\ FlushWorker \cap Saver = {}
  /\ Nobody \notin Process \cup Message /\ Orphan \notin Process /\ Nobody # Orphan
  /\ MaxSaves \in Nat /\ MaxFaults \in Nat /\ MaxCrashes \in Nat

VARIABLES
  \* PostgreSQL
  row,              \* exam_attempt.status
  expired,          \* whether the attempt's deadline has passed
  logged,           \* whether attempt_section_log has the section's row
  stored,           \* answers in attempt_detail
  marks,            \* the answers exam_attempt.marks was computed from
  \* Redis
  accepted,         \* answers accepted by enqueueAttemptAnswerBuffer
  pending,          \* whether the buffer or a claimed batch exists
  dirty,            \* whether the attempt is in dirty_attempts
  submitStatus,     \* key attempt submit status
  postSubmitFlush,  \* key that lets a flush write to a submitted attempt
  stream,           \* the messages for it in exam_submit_stream
  taken,            \* the message a consumer was given last
  submitLock, saveLock, flushLock,
  info,             \* cached status of the attempt
  resultCache,      \* cached result
  \* Processes
  pc,
  seen,             \* the answers a process claimed or read
  allow,            \* postSubmitFlush as a flush read it
  shown,            \* the result a reader returned
  \* History and bounds
  asked,            \* whether the attempt was ever closed or asked to be
  due,              \* the answers that must count
  requests,         \* save requests so far
  faults, crashes

answerVars == <<accepted, pending, dirty, stored, logged>>
rowVars == <<row, expired, marks>>
streamVars == <<stream, taken>>
keyVars == <<submitStatus, postSubmitFlush, streamVars>>
lockVars == <<submitLock, saveLock, flushLock>>
cacheVars == <<info, resultCache>>
localVars == <<seen, allow, shown>>
historyVars == <<asked, due, requests>>
boundVars == <<faults, crashes>>
vars == <<answerVars, rowVars, keyVars, lockVars, cacheVars, pc, localVars,
          historyVars, boundVars>>

None == -1

\* What a process does next, named for the call it is about to make.
Step == {"idle", "attempt", "check", "enqueue",
         "clearStale", "lookup", "markQueued", "flag", "xadd", "takeBack",
         "submitLock", "saveLock", "allow", "drain", "write", "submitRow",
         "grade", "marks", "invalidate", "clear", "done", "release",
         "ack", "giveUp", "recheck", "result", "list", "store"}

Goto(p, l) == pc' = [pc EXCEPT ![p] = l]

\* The order of FinalizeQueuedSubmitAttempt, and of one row of the sweep.
After(p, l) ==
  CASE l = "invalidate" -> IF p \in Sweeper THEN "allow" ELSE "clear"
    [] l = "allow" -> "drain"
    [] l = "drain" -> IF p \in FlushWorker THEN "idle"
                      ELSE IF p \in Sweeper THEN "grade" ELSE "submitRow"
    [] l = "submitRow" -> "grade"
    [] l = "grade" -> "marks"
    [] l = "marks" -> IF p \in Sweeper THEN "clear" ELSE "invalidate"
    [] l = "clear" -> "done"
    [] l = "done" -> IF p \in Sweeper THEN "idle" ELSE "release"

Fault == faults < MaxFaults /\ faults' = faults + 1 /\ UNCHANGED crashes
NoFault == UNCHANGED boundVars

Init ==
  /\ row = "in_progress" /\ expired = FALSE /\ marks = None
  /\ logged = FALSE /\ stored = 0 /\ accepted = 0 /\ pending = FALSE /\ dirty = FALSE
  /\ submitStatus = "none" /\ postSubmitFlush = FALSE
  /\ stream = {} /\ taken = [k \in Consumer |-> Nobody]
  /\ submitLock = Nobody /\ saveLock = Nobody /\ flushLock = Nobody
  /\ info = "none" /\ resultCache = None
  /\ pc = [p \in Process |-> "idle"]
  /\ seen = [p \in Process |-> 0]
  /\ allow = [p \in Process |-> FALSE]
  /\ shown = [r \in Reader |-> None]
  /\ asked = FALSE /\ due = 0 /\ requests = 0 /\ faults = 0 /\ crashes = 0

\* getCachedAttemptInfo: the cached status, or the row's, which is cached (at once, or
\* late: StaleInfoCached).
Info == IF info = "none" THEN row ELSE info
LoadInfo == info' = Info /\ UNCHANGED resultCache

\* The deferred releases of a process that returns.
ReleaseLocks(p) ==
  /\ submitLock' = IF submitLock = p THEN Nobody ELSE submitLock
  /\ saveLock' = IF saveLock = p THEN Nobody ELSE saveLock
  /\ flushLock' = IF flushLock = p THEN Nobody ELSE flushLock

\* A flush, or a grading, is over with what it read.
Forget(p) ==
  /\ seen' = [seen EXCEPT ![p] = 0]
  /\ allow' = [allow EXCEPT ![p] = FALSE]

\* A process returns with an error. The client, the reader, the sweep and the
\* flush worker leave everything as it is, and a consumer leaves the message
\* in the stream.
Abort(p) == ReleaseLocks(p) /\ Forget(p) /\ Goto(p, "idle")

ClearSubmitKeys == submitStatus' = "none" /\ postSubmitFlush' = FALSE

(***************************************************************************)
(* Saving.                                                                 *)
(***************************************************************************)
\* SaveAttemptAnswers takes the save lock if it is free; when it is not, or when
\* Redis fails, the save goes on without. (What the write guard, with a cache of
\* its own, turns down before that leaves no trace.)
BeginSave(s) ==
  /\ pc[s] = "idle" /\ requests < MaxSaves
  /\ requests' = requests + 1
  /\ \/ saveLock' = (IF saveLock = Nobody THEN s ELSE saveLock) /\ NoFault
     \/ Fault /\ UNCHANGED saveLock
  /\ Goto(s, "attempt")
  /\ UNCHANGED <<answerVars, rowVars, keyVars, submitLock, flushLock, cacheVars,
                 localVars, asked, due>>

\* saveAttemptAnswersWriteBehind refuses when the attempt is closed ...
CheckAttempt(s) ==
  /\ pc[s] = "attempt" /\ LoadInfo
  /\ IF Info = "in_progress"
     THEN Goto(s, "check") /\ UNCHANGED <<lockVars, seen, allow>>
     ELSE Abort(s)
  /\ UNCHANGED <<answerVars, rowVars, keyVars, shown, historyVars, boundVars>>

\* ... and once a submit is queued or done.
CheckSubmitStatus(s) ==
  /\ pc[s] = "check"
  /\ IF submitStatus = "none"
     THEN Goto(s, "enqueue") /\ UNCHANGED <<lockVars, seen, allow>>
     ELSE Abort(s)
  /\ UNCHANGED <<answerVars, rowVars, keyVars, cacheVars, shown, historyVars,
                 boundVars>>

\* enqueueAttemptAnswerBuffer. The answer must count if nobody had asked to
\* close the attempt, or if it is accepted under the save lock while the
\* attempt is in progress.
EnqueueAnswers(s) ==
  /\ pc[s] = "enqueue"
  /\ accepted' = accepted + 1
  /\ pending' = TRUE /\ dirty' = TRUE
  /\ due' = IF ~asked \/ (saveLock = s /\ row = "in_progress") THEN accepted + 1 ELSE due
  /\ Abort(s)
  /\ UNCHANGED <<stored, logged, rowVars, keyVars, cacheVars, shown, asked,
                 requests, boundVars>>

(***************************************************************************)
(* SubmitAttempt.                                                          *)
(***************************************************************************)
\* A submit that is queued, or done with nothing left to do, is reported as
\* it is. A "done" that answers have overtaken, or that the attempt
\* contradicts, is stale.
SubmitRequest(c) ==
  /\ pc[c] = "idle"
  /\ \/ submitStatus = "none" /\ Goto(c, "lookup") /\ UNCHANGED cacheVars
     \/ /\ submitStatus = "done" /\ (pending \/ Info # "submitted")
        /\ LoadInfo
        /\ Goto(c, "clearStale")
  /\ UNCHANGED <<answerVars, rowVars, keyVars, lockVars, localVars, historyVars,
                 boundVars>>

ClearStaleStatus(c) ==
  /\ pc[c] = "clearStale"
  /\ ClearSubmitKeys
  /\ Goto(c, "lookup")
  /\ UNCHANGED <<answerVars, rowVars, streamVars, lockVars, cacheVars, localVars,
                 historyVars, boundVars>>

\* An attempt that is already submitted is finalized again, without a message.
LookupAttempt(c) ==
  /\ pc[c] = "lookup" /\ LoadInfo
  /\ IF Info = "in_progress"
     THEN Goto(c, "markQueued") /\ UNCHANGED submitStatus
     ELSE Goto(c, "submitLock") /\ submitStatus' = "queued"
  /\ UNCHANGED <<answerVars, rowVars, postSubmitFlush, streamVars, lockVars,
                 localVars, historyVars, boundVars>>

\* setAttemptSubmitStatusNX: only the first of concurrent submits goes on.
MarkQueued(c) ==
  /\ pc[c] = "markQueued"
  /\ IF submitStatus = "none"
     THEN submitStatus' = "queued" /\ asked' = TRUE /\ Goto(c, "flag")
     ELSE Goto(c, "idle") /\ UNCHANGED <<submitStatus, asked>>
  /\ UNCHANGED <<answerVars, rowVars, postSubmitFlush, streamVars, lockVars,
                 cacheVars, localVars, due, requests, boundVars>>

SetPostSubmitFlush(c) ==
  /\ pc[c] = "flag"
  /\ postSubmitFlush' = TRUE
  /\ Goto(c, "xadd")
  /\ UNCHANGED <<answerVars, rowVars, submitStatus, streamVars, lockVars, cacheVars,
                 localVars, historyVars, boundVars>>

AddMessage ==
  /\ \E m \in Message \ (stream \cup {taken[k] : k \in Consumer}) : stream' = stream \cup {m}
  /\ UNCHANGED taken

\* XADD, then the fast path finalizes at once.
EnqueueSubmit(c) ==
  /\ pc[c] = "xadd"
  /\ AddMessage
  /\ Goto(c, "submitLock")
  /\ UNCHANGED <<answerVars, rowVars, submitStatus, postSubmitFlush, lockVars,
                 cacheVars, localVars, historyVars, boundVars>>

\* Either command fails, or seems to ...
EnqueueSubmitFails(c) ==
  /\ pc[c] \in {"flag", "xadd"} /\ Fault
  /\ UNCHANGED streamVars \/ (pc[c] = "xadd" /\ AddMessage)
  /\ Goto(c, "takeBack")
  /\ UNCHANGED <<answerVars, rowVars, submitStatus, postSubmitFlush, lockVars,
                 cacheVars, localVars, historyVars>>

\* ... and the submit is taken back.
TakeBack(c) ==
  /\ pc[c] = "takeBack"
  /\ ClearSubmitKeys
  /\ Goto(c, "idle")
  /\ UNCHANGED <<answerVars, rowVars, streamVars, lockVars, cacheVars, localVars,
                 historyVars, boundVars>>

(***************************************************************************)
(* The submit worker and the sweep.                                        *)
(***************************************************************************)
\* Mutant of TakeMessage: the message is acknowledged when it is read.
TakeMessageOnce(k) ==
  /\ pc[k] = "idle"
  /\ \E m \in stream : stream' = stream \ {m} /\ taken' = [taken EXCEPT ![k] = m]
  /\ Goto(k, "submitLock")
  /\ UNCHANGED <<answerVars, rowVars, submitStatus, postSubmitFlush, lockVars,
                 cacheVars, localVars, historyVars, boundVars>>

\* XREADGROUP or XAUTOCLAIM delivers the message. A message whose consumer is
\* slow, failed or dead is delivered again.
TakeMessage(k) ==
  /\ pc[k] = "idle"
  /\ \E m \in stream : taken' = [taken EXCEPT ![k] = m]
  /\ Goto(k, "submitLock")
  /\ UNCHANGED <<answerVars, rowVars, submitStatus, postSubmitFlush, stream,
                 lockVars, cacheVars, localVars, historyVars, boundVars>>

AckAndDelete(k) ==
  /\ pc[k] = "ack"
  /\ stream' = stream \ {taken[k]} /\ taken' = [taken EXCEPT ![k] = Nobody]
  /\ Goto(k, "idle")
  /\ UNCHANGED <<answerVars, rowVars, submitStatus, postSubmitFlush, lockVars,
                 cacheVars, localVars, historyVars, boundVars>>

\* After a permanent error the submit is forgotten.
GiveUp(k) ==
  /\ pc[k] = "giveUp"
  /\ ClearSubmitKeys
  /\ Goto(k, "ack")
  /\ UNCHANGED <<answerVars, rowVars, streamVars, lockVars, cacheVars, localVars,
                 historyVars, boundVars>>

\* AutoSubmitExpiredAttempts picks the attempt up once: it looks for attempts
\* in progress.
SweepExpired(x) ==
  /\ pc[x] = "idle" /\ expired /\ row = "in_progress"
  /\ row' = "submitted" /\ asked' = TRUE
  /\ Goto(x, "invalidate")
  /\ UNCHANGED <<answerVars, expired, marks, keyVars, lockVars, cacheVars,
                 localVars, due, requests, boundVars>>

(***************************************************************************)
(* FinalizeQueuedSubmitAttempt, and the same steps of the sweep.           *)
(***************************************************************************)
AcquireSubmitLock(p) ==
  /\ pc[p] = "submitLock" /\ submitLock = Nobody
  /\ submitLock' = p
  /\ Goto(p, "saveLock")
  /\ UNCHANGED <<answerVars, rowVars, keyVars, saveLock, flushLock, cacheVars,
                 localVars, historyVars, boundVars>>

\* Mutant of AcquireSaveLock: the saves in flight are not waited for.
SaveLockIgnored(p) ==
  /\ pc[p] = "saveLock"
  /\ Goto(p, "allow")
  /\ UNCHANGED <<answerVars, rowVars, keyVars, lockVars, cacheVars, localVars,
                 historyVars, boundVars>>

AcquireSaveLock(p) ==
  /\ pc[p] = "saveLock" /\ saveLock = Nobody
  /\ saveLock' = p
  /\ Goto(p, "allow")
  /\ UNCHANGED <<answerVars, rowVars, keyVars, submitLock, flushLock, cacheVars,
                 localVars, historyVars, boundVars>>

\* Mutant of LockBusy: the finalizer goes on without the lock, as a save does.
LockBusyIgnored(p) ==
  /\ \/ pc[p] = "submitLock" /\ submitLock # Nobody /\ Goto(p, "saveLock")
     \/ pc[p] = "saveLock" /\ saveLock # Nobody /\ Goto(p, "allow")
  /\ UNCHANGED <<answerVars, rowVars, keyVars, lockVars, cacheVars, localVars,
                 historyVars, boundVars>>

\* Five SETNX in a row find the lock taken.
LockBusy(p) ==
  /\ \/ pc[p] = "submitLock" /\ submitLock # Nobody
     \/ pc[p] = "saveLock" /\ saveLock # Nobody
  /\ Abort(p)
  /\ UNCHANGED <<answerVars, rowVars, keyVars, cacheVars, shown,
                 historyVars, boundVars>>

AllowPostSubmitFlush(p) ==
  /\ pc[p] = "allow"
  /\ postSubmitFlush' = TRUE
  /\ Goto(p, After(p, "allow"))
  /\ UNCHANGED <<answerVars, rowVars, submitStatus, streamVars, lockVars, cacheVars,
                 localVars, historyVars, boundVars>>

\* Submitting, or grading in the sweep, follows a drain that found nothing.
NothingToFlush(p) ==
  /\ pc[p] = "drain" /\ flushLock = Nobody /\ ~pending
  /\ Goto(p, After(p, "drain"))
  /\ UNCHANGED <<answerVars, rowVars, keyVars, lockVars, cacheVars, localVars,
                 historyVars, boundVars>>

\* Mutant of FlushLockBusy: the drain takes it that the holder does the work.
FlushLockBusyIgnored(p) ==
  /\ pc[p] = "drain" /\ flushLock # Nobody
  /\ Goto(p, After(p, "drain"))
  /\ UNCHANGED <<answerVars, rowVars, keyVars, lockVars, cacheVars, localVars,
                 historyVars, boundVars>>

FlushLockBusy(p) ==
  /\ pc[p] = "drain" /\ flushLock # Nobody
  /\ dirty' = TRUE
  /\ Abort(p)
  /\ UNCHANGED <<accepted, pending, stored, logged, rowVars, keyVars, cacheVars,
                 shown, historyVars, boundVars>>

\* The claim, and the flag's value, of one pass.
ClaimAnswers(p) ==
  /\ pc[p] = "drain" /\ flushLock = Nobody /\ pending
  /\ flushLock' = p
  /\ seen' = [seen EXCEPT ![p] = accepted]
  /\ allow' = [allow EXCEPT ![p] = postSubmitFlush]
  /\ Goto(p, "write")
  /\ UNCHANGED <<answerVars, rowVars, keyVars, submitLock, saveLock, cacheVars,
                 shown, historyVars, boundVars>>

CanWrite(p) ==
  \/ row = "in_progress" /\ (~expired \/ allow[p])
  \/ row = "submitted" /\ allow[p]

\* A pass that writes everything; a drain then tries another.
WriteAnswers(p) ==
  /\ pc[p] = "write" /\ CanWrite(p) /\ logged
  /\ stored' = seen[p]
  /\ pending' = (accepted # seen[p])
  /\ flushLock' = IF flushLock = p THEN Nobody ELSE flushLock
  /\ resultCache' = None
  /\ Forget(p)
  /\ Goto(p, IF p \in FlushWorker THEN "idle" ELSE "drain")
  /\ UNCHANGED <<accepted, dirty, logged, rowVars, keyVars, submitLock, saveLock,
                 info, shown, historyVars, boundVars>>

\* The first write to a section only creates the section's log.
WriteIncomplete(p) ==
  /\ pc[p] = "write" /\ CanWrite(p) /\ ~logged
  /\ logged' = TRUE /\ dirty' = TRUE
  /\ Abort(p)
  /\ UNCHANGED <<accepted, pending, stored, rowVars, keyVars, cacheVars,
                 shown, historyVars, boundVars>>

\* ErrAttemptClosed. For a consumer, and only for it, the error is permanent.
WriteRefused(p) ==
  /\ pc[p] = "write" /\ ~CanWrite(p)
  /\ dirty' = TRUE
  /\ ReleaseLocks(p) /\ Forget(p)
  /\ Goto(p, IF p \in Consumer THEN "giveUp" ELSE "idle")
  /\ UNCHANGED <<accepted, pending, stored, logged, rowVars, keyVars, cacheVars,
                 shown, historyVars, boundVars>>

\* The upsert returns an error; it may have been committed.
WriteFails(p) ==
  /\ pc[p] = "write" /\ Fault
  /\ UNCHANGED stored \/ (CanWrite(p) /\ logged /\ stored' = seen[p])
  /\ dirty' = TRUE
  /\ Abort(p)
  /\ UNCHANGED <<accepted, pending, logged, rowVars, keyVars, cacheVars,
                 shown, historyVars>>

\* SubmitAttemptAuthorized
SubmitRow(p) ==
  /\ pc[p] = "submitRow"
  /\ row' = "submitted"
  /\ Goto(p, After(p, "submitRow"))
  /\ UNCHANGED <<answerVars, expired, marks, keyVars, lockVars, cacheVars,
                 localVars, historyVars, boundVars>>

\* Mutant of GradeAnswers: the cached result is graded.
GradeCached(p) ==
  /\ pc[p] = "grade"
  /\ seen' = [seen EXCEPT ![p] = resultCache]
  /\ Goto(p, After(p, "grade"))
  /\ UNCHANGED <<answerVars, rowVars, keyVars, lockVars, cacheVars, allow, shown,
                 historyVars, boundVars>>

\* calculateAndPersistAttemptMarks: the questions are read ...
GradeAnswers(p) ==
  /\ pc[p] = "grade"
  /\ seen' = [seen EXCEPT ![p] = stored]
  /\ Goto(p, After(p, "grade"))
  /\ UNCHANGED <<answerVars, rowVars, keyVars, lockVars, cacheVars, allow, shown,
                 historyVars, boundVars>>

\* ... and later UpdateAttemptMarks writes their score.
UpdateAttemptMarks(p) ==
  /\ pc[p] = "marks"
  /\ marks' = seen[p]
  /\ Forget(p)
  /\ Goto(p, After(p, "marks"))
  /\ UNCHANGED <<answerVars, row, expired, keyVars, lockVars, cacheVars,
                 shown, historyVars, boundVars>>

InvalidateCaches(p) ==
  /\ pc[p] = "invalidate"
  /\ info' = "none" /\ resultCache' = None
  /\ Goto(p, After(p, "invalidate"))
  /\ UNCHANGED <<answerVars, rowVars, keyVars, lockVars, localVars, historyVars,
                 boundVars>>

\* The keys are deleted first and "done" is set by a command of its own.
ClearSubmitStatus(p) ==
  /\ pc[p] = "clear"
  /\ ClearSubmitKeys
  /\ Goto(p, After(p, "clear"))
  /\ UNCHANGED <<answerVars, rowVars, streamVars, lockVars, cacheVars, localVars,
                 historyVars, boundVars>>

SetDone(p) ==
  /\ pc[p] = "done"
  /\ submitStatus' = "done"
  /\ Goto(p, After(p, "done"))
  /\ UNCHANGED <<answerVars, rowVars, postSubmitFlush, streamVars, lockVars,
                 cacheVars, localVars, historyVars, boundVars>>

\* Success: the consumer acknowledges, the reader looks again.
ReturnFinalized(p) ==
  /\ pc[p] = "release"
  /\ ReleaseLocks(p)
  /\ Goto(p, IF p \in Consumer THEN "ack" ELSE IF p \in Reader THEN "recheck" ELSE "idle")
  /\ UNCHANGED <<answerVars, rowVars, keyVars, cacheVars, localVars, historyVars,
                 boundVars>>

\* A command fails, or the context's 3 or 5 s are over; a statement may have
\* been committed. A drain without the flush lock puts the attempt back in the dirty
\* set if Redis failed, and not if the context is over; a flush worker does so for
\* every error.
StepFails(p) ==
  /\ pc[p] \in {"submitLock", "saveLock", "allow", "drain", "submitRow", "grade",
                "marks", "recheck", "list"}
  /\ Fault
  /\ UNCHANGED row \/ (pc[p] = "submitRow" /\ row' = "submitted")
  /\ UNCHANGED marks \/ (pc[p] = "marks" /\ marks' = seen[p])
  /\ \/ pc[p] = "drain" /\ dirty' = TRUE
     \/ ~(pc[p] = "drain" /\ p \in FlushWorker) /\ UNCHANGED dirty
  /\ Abort(p)
  /\ UNCHANGED <<accepted, pending, stored, logged, expired, keyVars, cacheVars,
                 shown, historyVars>>

\* Commands whose error is ignored.
StepIgnored(p) ==
  /\ pc[p] \in {"invalidate", "clear", "done"} /\ Fault
  /\ Goto(p, After(p, pc[p]))
  /\ UNCHANGED <<answerVars, rowVars, keyVars, lockVars, cacheVars, localVars,
                 historyVars>>

(***************************************************************************)
(* The flush worker.                                                       *)
(***************************************************************************)
PopDirty(w) ==
  /\ pc[w] = "idle" /\ dirty
  /\ dirty' = FALSE
  /\ Goto(w, "drain")
  /\ UNCHANGED <<accepted, pending, stored, logged, rowVars, keyVars, lockVars,
                 cacheVars, localVars, historyVars, boundVars>>

(***************************************************************************)
(* Reading the result.                                                     *)
(***************************************************************************)
\* Mutant of ReadRequest: a submitted attempt is taken for a finalized one.
ReadSubmitted(r) ==
  /\ pc[r] = "idle" /\ LoadInfo
  /\ IF Info = "submitted" THEN Goto(r, "result")
     ELSE submitStatus # "none" /\ Goto(r, "submitLock")
  /\ UNCHANGED <<answerVars, rowVars, keyVars, lockVars, localVars, historyVars,
                 boundVars>>

\* ensureAttemptFinalizedForRead: what is not done, or not done with, is
\* finalized by the reader itself.
ReadRequest(r) ==
  /\ pc[r] = "idle" /\ LoadInfo
  /\ IF submitStatus = "done" /\ ~pending /\ Info = "submitted"
     THEN Goto(r, "result")
     ELSE (Info = "submitted" \/ submitStatus # "none") /\ Goto(r, "submitLock")
  /\ UNCHANGED <<answerVars, rowVars, keyVars, lockVars, localVars, historyVars,
                 boundVars>>

Recheck(r) ==
  /\ pc[r] = "recheck" /\ LoadInfo
  /\ Goto(r, IF Info = "submitted" /\ submitStatus = "done" THEN "result" ELSE "idle")
  /\ UNCHANGED <<answerVars, rowVars, keyVars, lockVars, localVars, historyVars,
                 boundVars>>

\* GetAttemptResult, from its cache or from the rows.
LoadResult(r) ==
  /\ pc[r] = "result"
  /\ IF resultCache = None
     THEN Goto(r, "list") /\ UNCHANGED shown
     ELSE Goto(r, "idle") /\ shown' = [shown EXCEPT ![r] = resultCache]
  /\ UNCHANGED <<answerVars, rowVars, keyVars, lockVars, cacheVars, seen, allow,
                 historyVars, boundVars>>

ListResultQuestions(r) ==
  /\ pc[r] = "list"
  /\ seen' = [seen EXCEPT ![r] = stored]
  /\ Goto(r, "store")
  /\ UNCHANGED <<answerVars, rowVars, keyVars, lockVars, cacheVars, allow, shown,
                 historyVars, boundVars>>

StoreResult(r) ==
  /\ pc[r] = "store"
  /\ resultCache' = seen[r]
  /\ shown' = [shown EXCEPT ![r] = seen[r]]
  /\ Forget(r)
  /\ Goto(r, "idle")
  /\ UNCHANGED <<answerVars, rowVars, keyVars, lockVars, info,
                 historyVars, boundVars>>

(***************************************************************************)
(* Time and crashes.                                                       *)
(***************************************************************************)
DeadlinePasses ==
  /\ ~expired
  /\ expired' = TRUE
  /\ UNCHANGED <<answerVars, row, marks, keyVars, lockVars, cacheVars, pc,
                 localVars, historyVars, boundVars>>

\* A cached value's time to live is over.
CacheExpires ==
  /\ \/ info # "none" /\ info' = "none" /\ UNCHANGED resultCache
     \/ resultCache # None /\ resultCache' = None /\ UNCHANGED info
  /\ UNCHANGED <<answerVars, rowVars, keyVars, lockVars, pc, localVars,
                 historyVars, boundVars>>

\* A request that read the row before it was submitted caches it now, over what the
\* submit has made of the cache meanwhile.
StaleInfoCached ==
  /\ row = "submitted" /\ info # "in_progress"
  /\ info' = "in_progress"
  /\ UNCHANGED <<answerVars, rowVars, keyVars, lockVars, resultCache, pc, localVars,
                 historyVars, boundVars>>

\* The locks a crashed process held are free when their 5 s are over.
OrphansExpire ==
  /\ Orphan \in {submitLock, saveLock, flushLock}
  /\ submitLock' = IF submitLock = Orphan THEN Nobody ELSE submitLock
  /\ saveLock' = IF saveLock = Orphan THEN Nobody ELSE saveLock
  /\ flushLock' = IF flushLock = Orphan THEN Nobody ELSE flushLock
  /\ UNCHANGED <<answerVars, rowVars, keyVars, cacheVars, pc, localVars,
                 historyVars, boundVars>>

Crash(p) ==
  /\ pc[p] # "idle" /\ crashes < MaxCrashes
  /\ crashes' = crashes + 1
  /\ submitLock' = IF submitLock = p THEN Orphan ELSE submitLock
  /\ saveLock' = IF saveLock = p THEN Orphan ELSE saveLock
  /\ flushLock' = IF flushLock = p THEN Orphan ELSE flushLock
  /\ Forget(p)
  /\ Goto(p, "idle")
  /\ UNCHANGED <<answerVars, rowVars, keyVars, cacheVars, shown, historyVars,
                 faults>>

(***************************************************************************)
(* The specification.                                                      *)
(***************************************************************************)
SaveStep(s) == CheckAttempt(s) \/ CheckSubmitStatus(s) \/ EnqueueAnswers(s)

SubmitStep(c) ==
  ClearStaleStatus(c) \/ LookupAttempt(c) \/ MarkQueued(c) \/ SetPostSubmitFlush(c)
    \/ EnqueueSubmit(c) \/ TakeBack(c)

FinalizeStep(p) ==
  \/ AcquireSubmitLock(p) \/ AcquireSaveLock(p) \/ LockBusy(p)
  \/ AllowPostSubmitFlush(p) \/ NothingToFlush(p) \/ FlushLockBusy(p)
  \/ ClaimAnswers(p) \/ WriteAnswers(p) \/ WriteIncomplete(p) \/ WriteRefused(p)
  \/ SubmitRow(p) \/ GradeAnswers(p) \/ UpdateAttemptMarks(p)
  \/ InvalidateCaches(p) \/ ClearSubmitStatus(p) \/ SetDone(p) \/ ReturnFinalized(p)

ConsumerStep(k) == TakeMessage(k) \/ AckAndDelete(k) \/ GiveUp(k)

ReadStep(r) ==
  Recheck(r) \/ LoadResult(r) \/ ListResultQuestions(r) \/ StoreResult(r)

FaultStep(p) == WriteFails(p) \/ StepFails(p) \/ StepIgnored(p)

Next ==
  \/ \E s \in Saver : BeginSave(s) \/ SaveStep(s)
  \/ \E c \in Client : SubmitRequest(c) \/ SubmitStep(c) \/ EnqueueSubmitFails(c)
  \/ \E k \in Consumer : ConsumerStep(k)
  \/ \E x \in Sweeper : SweepExpired(x)
  \/ \E w \in FlushWorker : PopDirty(w)
  \/ \E r \in Reader : ReadRequest(r) \/ ReadStep(r)
  \/ \E p \in Flusher : FinalizeStep(p) \/ FaultStep(p)
  \/ \E p \in Process : Crash(p)
  \/ DeadlinePasses \/ CacheExpires \/ StaleInfoCached \/ OrphansExpire

Spec == Init /\ [][Next]_vars

\* What has begun goes on, the workers' loops and the sweep come round again,
\* and times to live elapse. Nothing makes a candidate save, submit, read or
\* run out of time.
Fairness ==
  /\ \A s \in Saver : WF_vars(SaveStep(s))
  /\ \A c \in Client : WF_vars(SubmitStep(c))
  /\ \A k \in Consumer : WF_vars(ConsumerStep(k))
  /\ \A x \in Sweeper : WF_vars(SweepExpired(x))
  /\ \A w \in FlushWorker : WF_vars(PopDirty(w))
  /\ \A r \in Reader : WF_vars(ReadStep(r))
  /\ \A p \in Flusher : WF_vars(FinalizeStep(p))
  /\ WF_vars(CacheExpires) /\ WF_vars(OrphansExpire)

FairSpec == Spec /\ Fairness

(***************************************************************************)
(* Properties.                                                             *)
(***************************************************************************)
TypeOK ==
  /\ row \in {"in_progress", "submitted"} /\ expired \in BOOLEAN
  /\ marks \in Nat \cup {None} /\ stored \in Nat /\ accepted \in Nat /\ due \in Nat
  /\ logged \in BOOLEAN /\ pending \in BOOLEAN /\ dirty \in BOOLEAN
  /\ submitStatus \in {"none", "queued", "done"}
  /\ postSubmitFlush \in BOOLEAN /\ asked \in BOOLEAN
  /\ stream \subseteq Message /\ taken \in [Consumer -> Message \cup {Nobody}]
  /\ {submitLock, saveLock, flushLock} \subseteq Process \cup {Nobody, Orphan}
  /\ info \in {"none", "in_progress", "submitted"}
  /\ resultCache \in Nat \cup {None}
  /\ pc \in [Process -> Step]
  /\ seen \in [Process -> Nat] /\ allow \in [Process -> BOOLEAN]
  /\ shown \in [Reader -> Nat \cup {None}]
  /\ requests \in 0 .. MaxSaves
  /\ faults \in 0 .. MaxFaults /\ crashes \in 0 .. MaxCrashes

\* When a submit is reported done, the attempt is submitted and its marks
\* were computed from every answer that must count: those accepted before
\* anybody asked to close the attempt, and those accepted under the save lock
\* while it was in progress. However submit, fast path, redelivered message,
\* sweep, reader and flush workers overlap.
DoneIsGraded == submitStatus = "done" => row = "submitted" /\ marks >= due

\* A candidate never sees a result without an answer that must count, from
\* the rows or from the cache.
ResultComplete == \A r \in Reader : shown[r] # None => shown[r] >= due

\* Before the deadline, when no sweep takes part, grading again never replaces
\* marks by those of fewer answers.
GradeNeverRegresses == [][marks' >= marks \/ expired]_marks

\* A submit that reached the stream leads to a submitted and graded attempt
\* without anyone asking again: when the fast path crashes, when a consumer
\* crashes with the message, when either finds a lock taken, when the upsert is
\* incomplete.
StreamedIsGraded == stream # {} ~> row = "submitted" /\ marks # None

\* README.md: the system grades an attempt as soon as it is submitted, and
\* submits it itself when its time is over.
SubmittedIsGraded == row = "submitted" ~> marks # None
=============================================================================
