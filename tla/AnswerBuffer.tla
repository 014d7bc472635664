---------------------------- MODULE AnswerBuffer ----------------------------
(***************************************************************************)
(* The write-behind path of one exam attempt's answers                     *)
(* (backend/services/attemptService.go, from enqueueAttemptAnswerBuffer to *)
(* requeueDirtyAttempt, and UpsertAttemptAnswersAuthorized of the          *)
(* repository): saves go into a Redis hash, flushers move them into        *)
(* PostgreSQL.                                                             *)
(*                                                                         *)
(* One action is one Redis command, one Lua script, one MULTI or one SQL   *)
(* statement: between two of them any other process may run, the caller    *)
(* may crash, or the command may fail.                                     *)
(*                                                                         *)
(* Data: an answer is named by the number of the save that carried it      *)
(* (the value the INCR of that save returned); Absent, 0, is a field that  *)
(* is not in the hash, or a question without a row in attempt_detail.      *)
(***************************************************************************)
EXTENDS Naturals

CONSTANTS
  Question,        \* the questions of the exam
  Section,         \* its sections
  SectionOf,       \* the section of each question
  Worker,          \* flush workers, one per backend process
  Drainer,         \* callers of drainAttemptAnswerBuffer: submits, sweeps, reads
  Nobody,          \* value of the lock when nobody has it
  Orphan,          \* value of the lock when its holder crashed
  MaxPasses,       \* passes of one drain, 20 in the code
  MaxSaves,        \* bound on the number of saves
  MaxFaults,       \* bound on failing commands
  MaxCrashes,      \* bound on crashes
  LocksMayExpire   \* whether a lock's 5 s can pass while its holder works

Flusher == Worker \cup Drainer

ASSUME BufferAssumption ==
  /\ SectionOf \in [Question -> Section]
  /\ Worker \cap Drainer = {}
  /\ Nobody \notin Flusher
  /\ Orphan \notin Flusher
  /\ Nobody # Orphan
  /\ MaxPasses \in Nat \ {0}
  /\ MaxSaves \in Nat
  /\ MaxFaults \in Nat
  /\ MaxCrashes \in Nat
  /\ LocksMayExpire \in BOOLEAN

VARIABLES
  \* Redis
  buffer,           \* hash attempt:{id}:answers
  version,          \* counter of saves
  flushing,         \* hash the buffer is renamed to by a claim
  flushingVersion,  \* version of the buffer at that claim
  flushedVersion,   \* version of the last batch that was written
  dirty,            \* whether the attempt is in the set dirty_attempts
  postSubmitFlush,  \* the key that lets a flush write to a submitted attempt
  lock,             \* flush-answers-lock
  \* PostgreSQL
  status,           \* exam_attempt.status
  expired,          \* whether the attempt's deadline has passed
  sectionLogs,      \* sections with a row in attempt_section_log
  stored,           \* attempt_detail.selected_ans
  \* Local state of the flushers
  pc,
  batch,            \* the answers read from the flushing hash
  batchVersion,     \* the version the claim returned
  allow,            \* the flag as this flusher read it
  outcome,          \* what flushAttemptAnswerBufferOnce will return
  pass,             \* passes of the drain so far
  \* History and bounds
  accepted,         \* the last save accepted for each question
  faults, crashes

redisVars == <<buffer, version, flushing, flushingVersion, flushedVersion>>
hashVars == <<buffer, flushing, flushingVersion>>
rowVars == <<status, expired>>
dbVars == <<sectionLogs, stored>>
localVars == <<batch, batchVersion, allow, outcome, pass>>
boundVars == <<faults, crashes>>
vars == <<redisVars, dirty, postSubmitFlush, lock, rowVars, dbVars, pc,
          localVars, accepted, boundVars>>

Absent == 0
Empty == [q \in Question |-> Absent]
Fields(hash) == {q \in Question : hash[q] # Absent}

\* The locations of a flusher; in those of Critical it holds the lock.
Critical == {"claim", "read", "flag", "upsert", "clear", "stamp", "merge", "release"}
Location == {"idle", "acquire", "requeue"} \cup Critical

Goto(f, l) == pc' = [pc EXCEPT ![f] = l]
Outcome(f, o) == outcome' = [outcome EXCEPT ![f] = o]

\* Some command fails. The caller sees an error; the command may still have
\* been executed where an action says so.
Fault == faults < MaxFaults /\ faults' = faults + 1 /\ UNCHANGED crashes

Init ==
  /\ buffer = Empty /\ version = 0
  /\ flushing = Empty /\ flushingVersion = 0 /\ flushedVersion = 0
  /\ dirty = FALSE /\ postSubmitFlush = FALSE /\ lock = Nobody
  /\ status = "in_progress" /\ expired = FALSE
  /\ sectionLogs = {} /\ stored = Empty
  /\ pc = [f \in Flusher |-> "idle"]
  /\ batch = [f \in Flusher |-> Empty]
  /\ batchVersion = [f \in Flusher |-> 0]
  /\ allow = [f \in Flusher |-> FALSE]
  /\ outcome = [f \in Flusher |-> "none"]
  /\ pass = [f \in Flusher |-> 0]
  /\ accepted = Empty /\ faults = 0 /\ crashes = 0

(***************************************************************************)
(* Saving: the MULTI of enqueueAttemptAnswerBuffer.                        *)
(***************************************************************************)
Save(qs) ==
  /\ version < MaxSaves
  /\ buffer' = [q \in Question |-> IF q \in qs THEN version + 1 ELSE buffer[q]]
  /\ version' = version + 1
  /\ dirty' = TRUE
  /\ accepted' = [q \in Question |-> IF q \in qs THEN version + 1 ELSE accepted[q]]
  /\ UNCHANGED <<flushing, flushingVersion, flushedVersion, postSubmitFlush,
                 lock, rowVars, dbVars, pc, localVars, boundVars>>

(***************************************************************************)
(* Starting a flush.                                                       *)
(***************************************************************************)
\* FlushDirtyAttemptAnswers takes the attempt out of the dirty set.
PopDirty(w) ==
  /\ pc[w] = "idle" /\ dirty
  /\ dirty' = FALSE
  /\ Goto(w, "acquire")
  /\ UNCHANGED <<redisVars, postSubmitFlush, lock, rowVars, dbVars, localVars,
                 accepted, boundVars>>

StartDrain(d) ==
  /\ pc[d] = "idle"
  /\ Goto(d, "acquire")
  /\ pass' = [pass EXCEPT ![d] = 1]
  /\ UNCHANGED <<redisVars, dirty, postSubmitFlush, lock, rowVars, dbVars,
                 batch, batchVersion, allow, outcome, accepted, boundVars>>

(***************************************************************************)
(* flushAttemptAnswerBufferOnce.                                           *)
(***************************************************************************)
AcquireLock(f) ==
  /\ pc[f] = "acquire" /\ lock = Nobody
  /\ lock' = f
  /\ Goto(f, "claim")
  /\ UNCHANGED <<redisVars, dirty, postSubmitFlush, rowVars, dbVars, localVars,
                 accepted, boundVars>>

\* Mutant of LockBusy: the attempt is not marked dirty again.
LockBusyForgets(f) ==
  /\ pc[f] = "acquire" /\ lock # Nobody
  /\ Goto(f, "idle")
  /\ UNCHANGED <<redisVars, dirty, postSubmitFlush, lock, rowVars, dbVars,
                 localVars, accepted, boundVars>>

\* Mutant of LockBusy: only a worker gives up, a drain waits for the lock.
LockBusyWaits(f) == f \in Worker /\ LockBusyForgets(f)

\* Five SETNX in a row find the lock taken: the attempt is marked dirty again.
LockBusy(f) ==
  /\ pc[f] = "acquire" /\ lock # Nobody
  /\ Goto(f, "requeue")
  /\ UNCHANGED <<redisVars, dirty, postSubmitFlush, lock, rowVars, dbVars,
                 localVars, accepted, boundVars>>

\* Loading the attempt (a worker does that first) or the SETNX itself fails,
\* with the same consequence.
AcquireFails(f) ==
  /\ pc[f] = "acquire" /\ Fault
  /\ Goto(f, "requeue")
  /\ UNCHANGED <<redisVars, dirty, postSubmitFlush, lock, rowVars, dbVars,
                 localVars, accepted>>

\* The claim script: an unfinished batch of an earlier flush is taken over,
\* and the buffer becomes the batch only when there is none.
RenameBuffer ==
  /\ flushing' = buffer
  /\ flushingVersion' = version
  /\ buffer' = Empty

\* Mutant of Claim: the buffer is renamed over an unfinished batch.
ClaimOverBatch(f) ==
  /\ pc[f] = "claim" /\ buffer # Empty
  /\ RenameBuffer
  /\ batchVersion' = [batchVersion EXCEPT ![f] = version]
  /\ Goto(f, "read")
  /\ UNCHANGED <<version, flushedVersion, dirty, postSubmitFlush, lock, rowVars,
                 dbVars, batch, allow, outcome, pass, accepted, boundVars>>

Claim(f) ==
  /\ pc[f] = "claim"
  /\ IF flushing # Empty
     THEN /\ batchVersion' = [batchVersion EXCEPT ![f] = flushingVersion]
          /\ Goto(f, "read")
          /\ UNCHANGED <<hashVars, outcome>>
     ELSE IF buffer = Empty
     THEN /\ Goto(f, "release") /\ Outcome(f, "nothing")
          /\ UNCHANGED <<hashVars, batchVersion>>
     ELSE /\ RenameBuffer
          /\ batchVersion' = [batchVersion EXCEPT ![f] = version]
          /\ Goto(f, "read")
          /\ UNCHANGED outcome
  /\ UNCHANGED <<version, flushedVersion, dirty, postSubmitFlush, lock, rowVars,
                 dbVars, batch, allow, pass, accepted, boundVars>>

\* The script's reply is lost; it may have run.
ClaimFails(f) ==
  /\ pc[f] = "claim" /\ Fault
  /\ \/ UNCHANGED hashVars
     \/ flushing = Empty /\ buffer # Empty /\ RenameBuffer
  /\ Goto(f, "release") /\ Outcome(f, "error")
  /\ UNCHANGED <<version, flushedVersion, dirty, postSubmitFlush, lock, rowVars,
                 dbVars, batch, batchVersion, allow, pass, accepted>>

\* HGETALL of the claimed hash. An empty one is cleared at once.
ReadBatch(f) ==
  /\ pc[f] = "read"
  /\ batch' = [batch EXCEPT ![f] = flushing]
  /\ Goto(f, IF flushing = Empty THEN "clear" ELSE "flag")
  /\ UNCHANGED <<redisVars, dirty, postSubmitFlush, lock, rowVars, dbVars,
                 batchVersion, allow, outcome, pass, accepted, boundVars>>

ReadFlag(f) ==
  /\ pc[f] = "flag"
  /\ allow' = [allow EXCEPT ![f] = postSubmitFlush]
  /\ Goto(f, "upsert")
  /\ UNCHANGED <<redisVars, dirty, postSubmitFlush, lock, rowVars, dbVars,
                 batch, batchVersion, outcome, pass, accepted, boundVars>>

\* Either read fails: the batch goes back.
ReadFails(f) ==
  /\ pc[f] \in {"read", "flag"} /\ Fault
  /\ Goto(f, "merge")
  /\ UNCHANGED <<redisVars, dirty, postSubmitFlush, lock, rowVars, dbVars,
                 localVars, accepted>>

\* can_write of the upsert, for the flag this flusher read.
CanWrite(f) ==
  \/ status = "in_progress" /\ (~expired \/ allow[f])
  \/ status = "submitted" /\ allow[f]

\* The questions the statement resolves: their section's log existed before
\* the statement began, because a WITH query does not see the rows another
\* WITH query of the same statement inserts.
Resolved(f) == {q \in Fields(batch[f]) : SectionOf[q] \in sectionLogs}

\* Mutant of WriteRows: the statement does not create the section logs.
WriteRowsOnly(f) ==
  /\ stored' = [q \in Question |->
                   IF CanWrite(f) /\ q \in Resolved(f) THEN batch[f][q] ELSE stored[q]]
  /\ UNCHANGED sectionLogs

WriteRows(f) ==
  IF CanWrite(f)
  THEN /\ stored' = [q \in Question |->
                       IF q \in Resolved(f) THEN batch[f][q] ELSE stored[q]]
       /\ sectionLogs' = sectionLogs \cup {SectionOf[q] : q \in Fields(batch[f])}
  ELSE UNCHANGED dbVars

\* UpsertAttemptAnswersAuthorized: a batch that could not be written in full
\* goes back to the buffer.
Upsert(f) ==
  /\ pc[f] = "upsert"
  /\ WriteRows(f)
  /\ Goto(f, IF CanWrite(f) /\ Resolved(f) = Fields(batch[f]) THEN "clear" ELSE "merge")
  /\ UNCHANGED <<redisVars, dirty, postSubmitFlush, lock, rowVars, localVars,
                 accepted, boundVars>>

\* The statement returns an error; it may have been committed.
UpsertFails(f) ==
  /\ pc[f] = "upsert" /\ Fault
  /\ UNCHANGED dbVars \/ WriteRows(f)
  /\ Goto(f, "merge")
  /\ UNCHANGED <<redisVars, dirty, postSubmitFlush, lock, rowVars, localVars,
                 accepted>>

\* clearClaimedAttemptAnswerBuffer
ClearClaimed(f) ==
  /\ pc[f] = "clear"
  /\ flushing' = Empty /\ flushingVersion' = 0
  /\ Goto(f, "stamp")
  /\ UNCHANGED <<buffer, version, flushedVersion, dirty, postSubmitFlush, lock,
                 rowVars, dbVars, localVars, accepted, boundVars>>

\* Its error is ignored.
ClearFails(f) ==
  /\ pc[f] = "clear" /\ Fault
  /\ Goto(f, "stamp")
  /\ UNCHANGED <<redisVars, dirty, postSubmitFlush, lock, rowVars, dbVars,
                 localVars, accepted>>

\* Mutant of Stamp: the version of now, not of the batch.
StampNow(f) ==
  /\ pc[f] = "stamp"
  /\ flushedVersion' = version
  /\ Goto(f, "release") /\ Outcome(f, "flushed")
  /\ UNCHANGED <<hashVars, version, dirty, postSubmitFlush, lock, rowVars,
                 dbVars, batch, batchVersion, allow, pass, accepted, boundVars>>

\* setAttemptAnswerFlushedVersion, skipped for version 0.
Stamp(f) ==
  /\ pc[f] = "stamp"
  /\ flushedVersion' = IF batchVersion[f] > 0 THEN batchVersion[f] ELSE flushedVersion
  /\ Goto(f, "release") /\ Outcome(f, "flushed")
  /\ UNCHANGED <<hashVars, version, dirty, postSubmitFlush, lock, rowVars,
                 dbVars, batch, batchVersion, allow, pass, accepted, boundVars>>

\* Its error is ignored as well.
StampFails(f) ==
  /\ pc[f] = "stamp" /\ Fault
  /\ Goto(f, "release") /\ Outcome(f, "flushed")
  /\ UNCHANGED <<redisVars, dirty, postSubmitFlush, lock, rowVars, dbVars,
                 batch, batchVersion, allow, pass, accepted>>

\* Mutant of MergeBack: HSET, which overwrites what was saved meanwhile.
MergeOver(f) ==
  /\ pc[f] = "merge"
  /\ buffer' = [q \in Question |-> IF flushing[q] # Absent THEN flushing[q] ELSE buffer[q]]
  /\ dirty' = (dirty \/ flushing # Empty)
  /\ flushing' = Empty /\ flushingVersion' = 0
  /\ Goto(f, "release") /\ Outcome(f, "error")
  /\ UNCHANGED <<version, flushedVersion, postSubmitFlush, lock, rowVars, dbVars,
                 batch, batchVersion, allow, pass, accepted, boundVars>>

\* mergeClaimedAttemptAnswersBack: HSETNX keeps what was saved meanwhile.
MergeBack(f) ==
  /\ pc[f] = "merge"
  /\ buffer' = [q \in Question |-> IF buffer[q] # Absent THEN buffer[q] ELSE flushing[q]]
  /\ dirty' = (dirty \/ flushing # Empty)
  /\ flushing' = Empty /\ flushingVersion' = 0
  /\ Goto(f, "release") /\ Outcome(f, "error")
  /\ UNCHANGED <<version, flushedVersion, postSubmitFlush, lock, rowVars, dbVars,
                 batch, batchVersion, allow, pass, accepted, boundVars>>

\* Its error is ignored: the batch stays claimed.
MergeFails(f) ==
  /\ pc[f] = "merge" /\ Fault
  /\ Goto(f, "release") /\ Outcome(f, "error")
  /\ UNCHANGED <<redisVars, dirty, postSubmitFlush, lock, rowVars, dbVars,
                 batch, batchVersion, allow, pass, accepted>>

(***************************************************************************)
(* Returning: the deferred release of the lock, then what the caller does  *)
(* with the result.                                                        *)
(***************************************************************************)
\* Mutant of AfterFlush: a drain goes on as long as its passes succeed.
AfterFlushEndless(f) ==
  IF outcome[f] = "flushed" /\ f \in Drainer THEN "acquire" ELSE "idle"

\* Where a flusher goes after flushAttemptAnswerBufferOnce returned. The
\* worker puts the attempt back on any error. A drain makes another pass
\* after a success, up to MaxPasses, and returns an error as it is.
AfterFlush(f) ==
  IF f \in Worker
  THEN IF outcome[f] = "error" THEN "requeue" ELSE "idle"
  ELSE IF outcome[f] # "flushed" THEN "idle"
  ELSE IF pass[f] < MaxPasses THEN "acquire" ELSE "requeue"

Return(f) ==
  /\ pc[f] = "release"
  /\ Goto(f, AfterFlush(f))
  /\ pass' = [pass EXCEPT ![f] = IF AfterFlush(f) = "acquire" THEN @ + 1 ELSE 0]
  /\ batch' = [batch EXCEPT ![f] = Empty]
  /\ batchVersion' = [batchVersion EXCEPT ![f] = 0]
  /\ allow' = [allow EXCEPT ![f] = FALSE]
  /\ Outcome(f, "none")

\* Mutant of ReleaseLock: a plain DEL.
ReleaseAnyLock(f) ==
  /\ Return(f)
  /\ lock' = Nobody
  /\ UNCHANGED <<redisVars, dirty, postSubmitFlush, rowVars, dbVars, accepted,
                 boundVars>>

\* The release script deletes the lock only if it still holds our token.
ReleaseLock(f) ==
  /\ Return(f)
  /\ lock' = IF lock = f THEN Nobody ELSE lock
  /\ UNCHANGED <<redisVars, dirty, postSubmitFlush, rowVars, dbVars, accepted,
                 boundVars>>

\* Its error is ignored: the lock waits for its time to live.
ReleaseFails(f) ==
  /\ Return(f) /\ Fault
  /\ lock' = IF lock = f THEN Orphan ELSE lock
  /\ UNCHANGED <<redisVars, dirty, postSubmitFlush, rowVars, dbVars, accepted>>

\* requeueDirtyAttempt
Requeue(f) ==
  /\ pc[f] = "requeue"
  /\ dirty' = TRUE
  /\ Goto(f, "idle")
  /\ pass' = [pass EXCEPT ![f] = 0]
  /\ UNCHANGED <<redisVars, postSubmitFlush, lock, rowVars, dbVars, batch,
                 batchVersion, allow, outcome, accepted, boundVars>>

\* Its error is ignored.
RequeueFails(f) ==
  /\ pc[f] = "requeue" /\ Fault
  /\ Goto(f, "idle")
  /\ pass' = [pass EXCEPT ![f] = 0]
  /\ UNCHANGED <<redisVars, dirty, postSubmitFlush, lock, rowVars, dbVars, batch,
                 batchVersion, allow, outcome, accepted>>

(***************************************************************************)
(* Crashes of the process and the time to live of the lock.                *)
(***************************************************************************)
Crash(f) ==
  /\ pc[f] # "idle" /\ crashes < MaxCrashes
  /\ crashes' = crashes + 1
  /\ Goto(f, "idle")
  /\ lock' = IF lock = f THEN Orphan ELSE lock
  /\ batch' = [batch EXCEPT ![f] = Empty]
  /\ batchVersion' = [batchVersion EXCEPT ![f] = 0]
  /\ allow' = [allow EXCEPT ![f] = FALSE]
  /\ Outcome(f, "none")
  /\ pass' = [pass EXCEPT ![f] = 0]
  /\ UNCHANGED <<redisVars, dirty, postSubmitFlush, rowVars, dbVars, accepted, faults>>

OrphanExpires ==
  /\ lock = Orphan
  /\ lock' = Nobody
  /\ UNCHANGED <<redisVars, dirty, postSubmitFlush, rowVars, dbVars, pc,
                 localVars, accepted, boundVars>>

\* The lock is never extended: a holder that takes longer loses it.
LockExpires ==
  /\ LocksMayExpire /\ lock \in Flusher
  /\ lock' = Nobody
  /\ UNCHANGED <<redisVars, dirty, postSubmitFlush, rowVars, dbVars, pc,
                 localVars, accepted, boundVars>>

(***************************************************************************)
(* The attempt's row and the submit keys, which submission, the sweep and  *)
(* reads change at any moment (SubmitPipeline says in which order).        *)
(***************************************************************************)
DeadlinePasses ==
  /\ ~expired
  /\ expired' = TRUE
  /\ UNCHANGED <<redisVars, dirty, postSubmitFlush, lock, status, dbVars, pc,
                 localVars, accepted, boundVars>>

SubmitRow ==
  /\ status = "in_progress"
  /\ status' = "submitted"
  /\ UNCHANGED <<redisVars, dirty, postSubmitFlush, lock, expired, dbVars, pc,
                 localVars, accepted, boundVars>>

AllowPostSubmitFlush ==
  /\ ~postSubmitFlush
  /\ postSubmitFlush' = TRUE
  /\ UNCHANGED <<redisVars, dirty, lock, rowVars, dbVars, pc, localVars,
                 accepted, boundVars>>

ClearSubmitKeys ==
  /\ postSubmitFlush
  /\ postSubmitFlush' = FALSE
  /\ UNCHANGED <<redisVars, dirty, lock, rowVars, dbVars, pc, localVars,
                 accepted, boundVars>>

(***************************************************************************)
(* The specification.                                                      *)
(***************************************************************************)
\* One step of a flush that has begun, when no command fails.
FlushStep(f) ==
  \/ AcquireLock(f) \/ LockBusy(f) \/ Claim(f) \/ ReadBatch(f) \/ ReadFlag(f)
  \/ Upsert(f) \/ ClearClaimed(f) \/ Stamp(f) \/ MergeBack(f) \/ ReleaseLock(f)
  \/ Requeue(f)

FlushFault(f) ==
  \/ AcquireFails(f) \/ ClaimFails(f) \/ ReadFails(f) \/ UpsertFails(f)
  \/ ClearFails(f) \/ StampFails(f) \/ MergeFails(f) \/ ReleaseFails(f)
  \/ RequeueFails(f)

Environment ==
  \/ DeadlinePasses \/ SubmitRow \/ AllowPostSubmitFlush \/ ClearSubmitKeys
  \/ OrphanExpires \/ LockExpires

Next ==
  \/ \E qs \in SUBSET Question : qs # {} /\ Save(qs)
  \/ \E w \in Worker : PopDirty(w)
  \/ \E d \in Drainer : StartDrain(d)
  \/ \E f \in Flusher : FlushStep(f) \/ FlushFault(f) \/ Crash(f)
  \/ Environment

Spec == Init /\ [][Next]_vars

\* A flush that has begun goes on, the worker's ticker comes round again, and
\* a time to live elapses. Nothing makes a candidate save or submit.
Fairness ==
  /\ \A f \in Flusher : WF_vars(FlushStep(f))
  /\ \A w \in Worker : WF_vars(PopDirty(w))
  /\ WF_vars(OrphanExpires)

FairSpec == Spec /\ Fairness
(***************************************************************************)
(* Properties.                                                             *)
(***************************************************************************)
Answer == 0 .. MaxSaves
Hash == [Question -> Answer]

\* Every variable has a value of its type; the flush protocol's locations
\* and results are those of the code.
TypeOK ==
  /\ buffer \in Hash /\ flushing \in Hash /\ stored \in Hash /\ accepted \in Hash
  /\ version \in Answer /\ flushingVersion \in Answer /\ flushedVersion \in Answer
  /\ dirty \in BOOLEAN /\ postSubmitFlush \in BOOLEAN
  /\ lock \in Flusher \cup {Nobody, Orphan}
  /\ status \in {"in_progress", "submitted"} /\ expired \in BOOLEAN
  /\ sectionLogs \subseteq Section
  /\ pc \in [Flusher -> Location]
  /\ batch \in [Flusher -> Hash]
  /\ batchVersion \in [Flusher -> Answer]
  /\ allow \in [Flusher -> BOOLEAN]
  /\ outcome \in [Flusher -> {"none", "nothing", "error", "flushed"}]
  /\ pass \in [Flusher -> 0 .. MaxPasses]
  /\ faults \in 0 .. MaxFaults /\ crashes \in 0 .. MaxCrashes

\* The answer the system stands by: the buffer is newer than the claimed
\* batch, which is newer than the database.
Current ==
  [q \in Question |-> IF buffer[q] # Absent THEN buffer[q]
                      ELSE IF flushing[q] # Absent THEN flushing[q]
                      ELSE stored[q]]

\* No accepted answer is lost and none comes back over a newer one: looked up
\* through buffer, claimed batch and database in this order, every question
\* has the last answer enqueueAttemptAnswerBuffer accepted for it, whatever
\* flushes, failing commands, crashes, submits and deadlines interleave.
AcceptedRecoverable == Current = accepted

\* attempt:{id}:flushed_version tells the truth: an answer accepted up to that
\* version, and not replaced since, is in the database.
FlushedVersionSound ==
  \A q \in Question : accepted[q] <= flushedVersion => stored[q] = accepted[q]

\* The buffer, the claimed batch and the database together implement the
\* abstract store of answers; in particular a row of attempt_detail never
\* goes back to an older answer.
Store == INSTANCE AnswerStore
           WITH current <- Current, durable <- stored, saves <- version
StoreSpec == Store!Spec

\* What still holds when a lock can expire under its holder: the release
\* script of a late holder never frees the lock of the flusher that came
\* after it.
LateReleaseHarmless ==
  [][\A f \in Flusher :
       lock = f /\ lock' # f /\ pc[f] \in Critical =>
         \/ pc'[f] \notin Critical
         \/ LockExpires]_vars

\* As long as no process crashes and no requeue fails, answers that wait in
\* Redis are not forgotten: the attempt is in the dirty set or some flusher is
\* at work on it.
BufferedIsTracked ==
  Fields(buffer) \cup Fields(flushing) # {} =>
    dirty \/ \E f \in Flusher : pc[f] # "idle"

\* An accepted answer reaches the database without further action of the
\* candidate, unless the attempt stops accepting writes first.
EventuallyStored ==
  \A q \in Question : \A n \in 1 .. MaxSaves :
    accepted[q] = n ~> stored[q] >= n \/ status = "submitted" \/ expired

\* A drain returns, whatever is saved while it runs: a submit or a read never
\* waits for flushes forever.
DrainEnds == \A d \in Drainer : pc[d] # "idle" ~> pc[d] = "idle"
=============================================================================
