------------------------- MODULE AnswerBufferProofs -------------------------
(***************************************************************************)
(* Proofs about AnswerBuffer, for any questions, sections, workers and     *)
(* drainers and any bounds.                                                *)
(***************************************************************************)
EXTENDS AnswerBuffer, TLAPS

USE DEF Flusher, Absent, Answer, Hash, Location, Critical, Goto, Outcome, Fault

(***************************************************************************)
(* Type correctness.                                                       *)
(***************************************************************************)
\* An attempt without answers, and no flush at work on it, is well typed.
LEMMA TypeInit == Init => TypeOK
  <1> SUFFICES ASSUME Init PROVE TypeOK
    OBVIOUS
  <1>1. 0 \in Answer /\ Empty \in Hash
    BY BufferAssumption DEF Empty
  <1>2. /\ pc \in [Flusher -> Location]
        /\ batch \in [Flusher -> Hash]
        /\ batchVersion \in [Flusher -> Answer]
    BY <1>1 DEF Init
  <1>3. /\ allow \in [Flusher -> BOOLEAN]
        /\ outcome \in [Flusher -> {"none", "nothing", "error", "flushed"}]
        /\ pass \in [Flusher -> 0 .. MaxPasses]
    BY BufferAssumption DEF Init
  <1>4. buffer \in Hash /\ flushing \in Hash /\ stored \in Hash /\ accepted \in Hash
    BY <1>1 DEF Init
  <1>5. /\ version \in Answer /\ flushingVersion \in Answer /\ flushedVersion \in Answer
        /\ faults \in 0 .. MaxFaults /\ crashes \in 0 .. MaxCrashes
    BY <1>1, BufferAssumption DEF Init
  <1>6. dirty \in BOOLEAN /\ postSubmitFlush \in BOOLEAN /\ expired \in BOOLEAN
    BY DEF Init
  <1>7. QED
    BY <1>2, <1>3, <1>4, <1>5, <1>6 DEF Init, TypeOK

\* Every command of a save or flush, every failure, crash and expiry keeps the
\* types; one step per action.
LEMMA TypeStep == TypeOK /\ [Next]_vars => TypeOK'
  <1> SUFFICES ASSUME TypeOK, [Next]_vars PROVE TypeOK'
    OBVIOUS
  <1> USE BufferAssumption DEF TypeOK, redisVars, hashVars, rowVars, dbVars, localVars, boundVars, Empty
  <1>1. ASSUME NEW qs \in SUBSET Question, Save(qs) PROVE TypeOK'
    BY <1>1 DEF Save
  <1>2. ASSUME NEW w \in Worker, PopDirty(w) PROVE TypeOK'
    BY <1>2 DEF PopDirty
  <1>3. ASSUME NEW d \in Drainer, StartDrain(d) PROVE TypeOK'
    BY <1>3 DEF StartDrain
  <1>4. ASSUME NEW f \in Flusher, AcquireLock(f) PROVE TypeOK'
    BY <1>4 DEF AcquireLock
  <1>5. ASSUME NEW f \in Flusher, LockBusy(f) PROVE TypeOK'
    BY <1>5 DEF LockBusy
  <1>6. ASSUME NEW f \in Flusher, Claim(f) PROVE TypeOK'
    BY <1>6 DEF Claim, RenameBuffer, hashVars
  <1>7. ASSUME NEW f \in Flusher, ReadBatch(f) PROVE TypeOK'
    BY <1>7 DEF ReadBatch
  <1>8. ASSUME NEW f \in Flusher, ReadFlag(f) PROVE TypeOK'
    BY <1>8 DEF ReadFlag
  <1>9. ASSUME NEW f \in Flusher, Upsert(f) PROVE TypeOK'
    BY <1>9 DEF Upsert, WriteRows, Resolved, Fields, dbVars
  <1>10. ASSUME NEW f \in Flusher, ClearClaimed(f) PROVE TypeOK'
    BY <1>10 DEF ClearClaimed
  <1>11. ASSUME NEW f \in Flusher, Stamp(f) PROVE TypeOK'
    BY <1>11 DEF Stamp
  <1>12. ASSUME NEW f \in Flusher, MergeBack(f) PROVE TypeOK'
    BY <1>12 DEF MergeBack
  <1>13. ASSUME NEW f \in Flusher, ReleaseLock(f) PROVE TypeOK'
    BY <1>13 DEF ReleaseLock, Return, AfterFlush
  <1>14. ASSUME NEW f \in Flusher, Requeue(f) PROVE TypeOK'
    BY <1>14 DEF Requeue
  <1>15. ASSUME NEW f \in Flusher, AcquireFails(f) PROVE TypeOK'
    BY <1>15 DEF AcquireFails
  <1>16. ASSUME NEW f \in Flusher, ClaimFails(f) PROVE TypeOK'
    BY <1>16 DEF ClaimFails, RenameBuffer, hashVars
  <1>17. ASSUME NEW f \in Flusher, ReadFails(f) PROVE TypeOK'
    BY <1>17 DEF ReadFails
  <1>18. ASSUME NEW f \in Flusher, UpsertFails(f) PROVE TypeOK'
    BY <1>18 DEF UpsertFails, WriteRows, Resolved, Fields, dbVars
  <1>19. ASSUME NEW f \in Flusher, ClearFails(f) PROVE TypeOK'
    BY <1>19 DEF ClearFails
  <1>20. ASSUME NEW f \in Flusher, StampFails(f) PROVE TypeOK'
    BY <1>20 DEF StampFails
  <1>21. ASSUME NEW f \in Flusher, MergeFails(f) PROVE TypeOK'
    BY <1>21 DEF MergeFails
  <1>22. ASSUME NEW f \in Flusher, ReleaseFails(f) PROVE TypeOK'
    BY <1>22 DEF ReleaseFails, Return, AfterFlush
  <1>23. ASSUME NEW f \in Flusher, RequeueFails(f) PROVE TypeOK'
    BY <1>23 DEF RequeueFails
  <1>24. ASSUME NEW f \in Flusher, Crash(f) PROVE TypeOK'
    BY <1>24 DEF Crash
  <1>25. ASSUME DeadlinePasses PROVE TypeOK'
    BY <1>25 DEF DeadlinePasses
  <1>26. ASSUME SubmitRow PROVE TypeOK'
    BY <1>26 DEF SubmitRow
  <1>27. ASSUME AllowPostSubmitFlush PROVE TypeOK'
    BY <1>27 DEF AllowPostSubmitFlush
  <1>28. ASSUME ClearSubmitKeys PROVE TypeOK'
    BY <1>28 DEF ClearSubmitKeys
  <1>29. ASSUME OrphanExpires PROVE TypeOK'
    BY <1>29 DEF OrphanExpires
  <1>30. ASSUME LockExpires PROVE TypeOK'
    BY <1>30 DEF LockExpires
  <1>31. CASE UNCHANGED vars
    BY <1>31 DEF vars
  <1>32. QED
    BY <1>1, <1>2, <1>3, <1>4, <1>5, <1>6, <1>7, <1>8, <1>9, <1>10, <1>11, <1>12, <1>13, <1>14, <1>15, <1>16, <1>17, <1>18, <1>19, <1>20, <1>21, <1>22, <1>23, <1>24, <1>25, <1>26, <1>27, <1>28, <1>29, <1>30, <1>31 DEF Next, FlushStep, FlushFault, Environment

\* Every reachable state is well typed (TypeOK).
THEOREM TypeCorrect == Spec => []TypeOK
  <1>1. QED
    BY TypeInit, TypeStep, PTL DEF Spec

(***************************************************************************)
(* The inductive invariant. Recoverable is the property to prove, question *)
(* by question; the other parts say why the next step keeps it.            *)
(***************************************************************************)
\* The lock is what makes a flush one flusher's affair.
Exclusive == \A f \in Flusher : pc[f] \in Critical => lock = f

\* Answers only get newer from the database to the batch to the last save.
Ordered ==
  \A q \in Question :
    /\ stored[q] <= accepted[q] /\ flushing[q] <= accepted[q]
    /\ accepted[q] <= version
    /\ flushing[q] # Absent => stored[q] <= flushing[q]

Recoverable ==
  \A q \in Question :
    /\ buffer[q] # Absent => buffer[q] = accepted[q]
    /\ buffer[q] = Absent /\ flushing[q] # Absent => flushing[q] = accepted[q]
    /\ buffer[q] = Absent /\ flushing[q] = Absent => stored[q] = accepted[q]

\* What was accepted when the batch was claimed is in it or in the database.
Versions ==
  /\ flushingVersion <= version /\ flushedVersion <= version
  /\ \A q \in Question :
       accepted[q] <= flushingVersion =>
         flushing[q] = accepted[q] \/ stored[q] = accepted[q]

\* What a flusher knows of the batch at each of its locations.
LocalInv ==
  \A f \in Flusher :
    /\ batchVersion[f] <= version
    /\ pc[f] \in {"read", "flag", "upsert", "clear"} => batchVersion[f] = flushingVersion
    /\ pc[f] \in {"flag", "upsert"} => batch[f] = flushing
    /\ pc[f] = "clear" =>
         \A q \in Question : flushing[q] # Absent => stored[q] = flushing[q]
    /\ pc[f] = "stamp" =>
         \A q \in Question : accepted[q] <= batchVersion[f] => stored[q] = accepted[q]

\* The part of the invariant that is about the keys and rows every process
\* shares, and those variables.
SharedInv == Ordered /\ Recoverable /\ Versions /\ FlushedVersionSound
sharedVars == <<redisVars, stored, accepted>>

IInv == Exclusive /\ SharedInv /\ LocalInv

\* The inductive invariant holds of an attempt without answers.
LEMMA IInvInit == Init => IInv
  <1> SUFFICES ASSUME Init PROVE IInv
    OBVIOUS
  <1>1. \A q \in Question : /\ buffer[q] = 0 /\ flushing[q] = 0
                            /\ stored[q] = 0 /\ accepted[q] = 0
    BY DEF Init, Empty
  <1>2. \A f \in Flusher : pc[f] = "idle" /\ batchVersion[f] = 0
    BY DEF Init
  <1>3. version = 0 /\ flushingVersion = 0 /\ flushedVersion = 0
    BY DEF Init
  <1>4. QED
    BY <1>1, <1>2, <1>3
       DEF IInv, SharedInv, Exclusive, Ordered, Recoverable, Versions, LocalInv, FlushedVersionSound

\* While no lock expires under its holder, at most one flusher is between
\* acquireFlushAnswersLock and its release.
LEMMA ExclusiveStep ==
  ~LocksMayExpire /\ TypeOK /\ Exclusive /\ [Next]_vars => Exclusive'
  <1> SUFFICES ASSUME ~LocksMayExpire, TypeOK, Exclusive, [Next]_vars PROVE Exclusive'
    OBVIOUS
  <1> USE BufferAssumption DEF TypeOK, Exclusive
  <1>1. ASSUME NEW qs \in SUBSET Question, Save(qs) PROVE Exclusive'
    BY <1>1 DEF Save
  <1>2. ASSUME NEW w \in Worker, PopDirty(w) PROVE Exclusive'
    BY <1>2 DEF PopDirty
  <1>3. ASSUME NEW d \in Drainer, StartDrain(d) PROVE Exclusive'
    BY <1>3 DEF StartDrain
  <1>4. ASSUME NEW f \in Flusher, AcquireLock(f) PROVE Exclusive'
    BY <1>4 DEF AcquireLock
  <1>5. ASSUME NEW f \in Flusher, LockBusy(f) PROVE Exclusive'
    BY <1>5 DEF LockBusy
  <1>6. ASSUME NEW f \in Flusher, Claim(f) PROVE Exclusive'
    BY <1>6 DEF Claim
  <1>7. ASSUME NEW f \in Flusher, ReadBatch(f) PROVE Exclusive'
    BY <1>7 DEF ReadBatch
  <1>8. ASSUME NEW f \in Flusher, ReadFlag(f) PROVE Exclusive'
    BY <1>8 DEF ReadFlag
  <1>9. ASSUME NEW f \in Flusher, Upsert(f) PROVE Exclusive'
    BY <1>9 DEF Upsert
  <1>10. ASSUME NEW f \in Flusher, ClearClaimed(f) PROVE Exclusive'
    BY <1>10 DEF ClearClaimed
  <1>11. ASSUME NEW f \in Flusher, Stamp(f) PROVE Exclusive'
    BY <1>11 DEF Stamp
  <1>12. ASSUME NEW f \in Flusher, MergeBack(f) PROVE Exclusive'
    BY <1>12 DEF MergeBack
  <1>13. ASSUME NEW f \in Flusher, ReleaseLock(f) PROVE Exclusive'
    BY <1>13 DEF ReleaseLock, Return, AfterFlush
  <1>14. ASSUME NEW f \in Flusher, Requeue(f) PROVE Exclusive'
    BY <1>14 DEF Requeue
  <1>15. ASSUME NEW f \in Flusher, AcquireFails(f) PROVE Exclusive'
    BY <1>15 DEF AcquireFails
  <1>16. ASSUME NEW f \in Flusher, ClaimFails(f) PROVE Exclusive'
    BY <1>16 DEF ClaimFails
  <1>17. ASSUME NEW f \in Flusher, ReadFails(f) PROVE Exclusive'
    BY <1>17 DEF ReadFails
  <1>18. ASSUME NEW f \in Flusher, UpsertFails(f) PROVE Exclusive'
    BY <1>18 DEF UpsertFails
  <1>19. ASSUME NEW f \in Flusher, ClearFails(f) PROVE Exclusive'
    BY <1>19 DEF ClearFails
  <1>20. ASSUME NEW f \in Flusher, StampFails(f) PROVE Exclusive'
    BY <1>20 DEF StampFails
  <1>21. ASSUME NEW f \in Flusher, MergeFails(f) PROVE Exclusive'
    BY <1>21 DEF MergeFails
  <1>22. ASSUME NEW f \in Flusher, ReleaseFails(f) PROVE Exclusive'
    BY <1>22 DEF ReleaseFails, Return, AfterFlush
  <1>23. ASSUME NEW f \in Flusher, RequeueFails(f) PROVE Exclusive'
    BY <1>23 DEF RequeueFails
  <1>24. ASSUME NEW f \in Flusher, Crash(f) PROVE Exclusive'
    BY <1>24 DEF Crash
  <1>25. ASSUME DeadlinePasses PROVE Exclusive'
    BY <1>25 DEF DeadlinePasses
  <1>26. ASSUME SubmitRow PROVE Exclusive'
    BY <1>26 DEF SubmitRow
  <1>27. ASSUME AllowPostSubmitFlush PROVE Exclusive'
    BY <1>27 DEF AllowPostSubmitFlush
  <1>28. ASSUME ClearSubmitKeys PROVE Exclusive'
    BY <1>28 DEF ClearSubmitKeys
  <1>29. ASSUME OrphanExpires PROVE Exclusive'
    BY <1>29 DEF OrphanExpires
  <1>30. ASSUME LockExpires PROVE Exclusive'
    BY <1>30 DEF LockExpires
  <1>31. CASE UNCHANGED vars
    BY <1>31 DEF vars
  <1>32. QED
    BY <1>1, <1>2, <1>3, <1>4, <1>5, <1>6, <1>7, <1>8, <1>9, <1>10, <1>11, <1>12, <1>13, <1>14, <1>15, <1>16, <1>17, <1>18, <1>19, <1>20, <1>21, <1>22, <1>23, <1>24, <1>25, <1>26, <1>27, <1>28, <1>29, <1>30, <1>31 DEF Next, FlushStep, FlushFault, Environment

(***************************************************************************)
(* Steps that change neither a hash, nor a version, nor an answer: only    *)
(* what the flusher knows has to be checked.                               *)
(***************************************************************************)
\* The shared part of the invariant depends on sharedVars only.
LEMMA SharedUnchanged == SharedInv /\ UNCHANGED sharedVars => SharedInv'
  BY DEF SharedInv, Ordered, Recoverable, Versions, FlushedVersionSound, sharedVars, redisVars

\* What each flusher knows depends on its own variables and sharedVars only.
LEMMA LocalUnchanged ==
  LocalInv /\ UNCHANGED <<sharedVars, pc, batch, batchVersion>> => LocalInv'
  BY DEF LocalInv, sharedVars, redisVars

\* Acquiring, finding the lock taken, reading, releasing and requeueing keep
\* the invariant.
LEMMA QuietFlushStep ==
  ASSUME TypeOK, IInv, NEW f \in Flusher,
         \/ AcquireLock(f) \/ LockBusy(f) \/ ReadBatch(f) \/ ReadFlag(f)
         \/ ReleaseLock(f) \/ Requeue(f)
  PROVE  UNCHANGED sharedVars /\ LocalInv'
  <1> USE DEF TypeOK, IInv, LocalInv, sharedVars, redisVars, dbVars, localVars, boundVars
  <1>1. CASE AcquireLock(f)
    BY <1>1 DEF AcquireLock, Exclusive
  <1>2. CASE LockBusy(f)
    BY <1>2 DEF LockBusy
  <1>3. CASE ReadBatch(f)
    BY <1>3 DEF ReadBatch, SharedInv, Versions, Empty
  <1>4. CASE ReadFlag(f)
    BY <1>4 DEF ReadFlag
  <1>5. CASE ReleaseLock(f)
    BY <1>5 DEF ReleaseLock, Return, AfterFlush
  <1>6. CASE Requeue(f)
    BY <1>6 DEF Requeue
  <1>7. QED
    BY <1>1, <1>2, <1>3, <1>4, <1>5, <1>6

\* So do failing commands that changed nothing.
LEMMA QuietFaultStep ==
  ASSUME TypeOK, IInv, NEW f \in Flusher,
         \/ AcquireFails(f) \/ ReadFails(f) \/ ClearFails(f) \/ StampFails(f)
         \/ MergeFails(f) \/ ReleaseFails(f) \/ RequeueFails(f) \/ Crash(f)
  PROVE  UNCHANGED sharedVars /\ LocalInv'
  <1> USE DEF TypeOK, IInv, LocalInv, sharedVars, redisVars, dbVars, localVars, boundVars
  <1>1. CASE AcquireFails(f)
    BY <1>1 DEF AcquireFails
  <1>2. CASE ReadFails(f)
    BY <1>2 DEF ReadFails
  <1>3. CASE ClearFails(f)
    BY <1>3 DEF ClearFails, SharedInv, Ordered, Recoverable, Versions
  <1>4. CASE StampFails(f)
    BY <1>4 DEF StampFails
  <1>5. CASE MergeFails(f)
    BY <1>5 DEF MergeFails
  <1>6. CASE ReleaseFails(f)
    BY <1>6 DEF ReleaseFails, Return, AfterFlush
  <1>7. CASE RequeueFails(f)
    BY <1>7 DEF RequeueFails
  <1>8. CASE Crash(f)
    BY <1>8 DEF Crash
  <1>9. QED
    BY <1>1, <1>2, <1>3, <1>4, <1>5, <1>6, <1>7, <1>8

(***************************************************************************)
(* Steps that change a hash, a version or an answer.                       *)
(***************************************************************************)
\* The MULTI of a save makes its answers the newest.
LEMMA SaveStep ==
  ASSUME TypeOK, IInv, NEW qs \in SUBSET Question, Save(qs)
  PROVE  SharedInv' /\ LocalInv'
  <1> USE BufferAssumption DEF TypeOK, Save, localVars, boundVars, dbVars
  <1>1. Ordered' /\ Recoverable'
    BY DEF IInv, SharedInv, Ordered, Recoverable
  <1>2. Versions' /\ FlushedVersionSound'
    BY DEF IInv, SharedInv, Versions, FlushedVersionSound
  <1>3. LocalInv'
    BY DEF IInv, LocalInv
  <1>4. QED
    BY <1>1, <1>2, <1>3 DEF SharedInv

\* A claim moves the whole buffer into an empty batch, or takes over the batch
\* there is.
LEMMA ClaimStep ==
  ASSUME TypeOK, IInv, Exclusive', NEW f \in Flusher, Claim(f) \/ ClaimFails(f)
  PROVE  SharedInv' /\ LocalInv'
  <1> USE DEF Claim, ClaimFails, RenameBuffer, hashVars, dbVars, boundVars
  <1>1. /\ UNCHANGED <<version, flushedVersion, stored, accepted, batch>>
        /\ \/ UNCHANGED <<buffer, flushing, flushingVersion>>
           \/ /\ flushing = Empty /\ buffer' = Empty /\ flushing' = buffer
              /\ flushingVersion' = version
    OBVIOUS
  <1>2. SharedInv'
    BY <1>1 DEF TypeOK, IInv, SharedInv, Ordered, Recoverable, Versions,
                FlushedVersionSound, Empty
  <1>3. \A g \in Flusher \ {f} : pc[g] \notin Critical
    BY DEF IInv, Exclusive
  <1>4. LocalInv'
    BY <1>1, <1>3 DEF TypeOK, IInv, LocalInv, SharedInv, Versions
  <1>5. QED
    BY <1>2, <1>4

\* What the upsert writes are answers of the batch; when it succeeds, all of
\* them.
LEMMA WriteRowsEffect ==
  ASSUME TypeOK, IInv, NEW f \in Flusher, pc[f] = "upsert", WriteRows(f)
  PROVE  /\ \A q \in Question :
              \/ stored'[q] = stored[q]
              \/ flushing[q] # Absent /\ stored'[q] = flushing[q]
         /\ CanWrite(f) /\ Resolved(f) = Fields(batch[f]) =>
              \A q \in Question : flushing[q] # Absent => stored'[q] = flushing[q]
  <1>1. batch[f] = flushing
    BY DEF IInv, LocalInv
  <1>2. QED
    BY <1>1 DEF TypeOK, WriteRows, Resolved, Fields, dbVars

\* The upsert, also when its reply is lost, only makes rows newer.
LEMMA UpsertStep ==
  ASSUME TypeOK, TypeOK', IInv, NEW f \in Flusher, Upsert(f) \/ UpsertFails(f)
  PROVE  SharedInv' /\ LocalInv'
  <1>1. pc[f] = "upsert"
    BY DEF Upsert, UpsertFails
  <1>2. \A q \in Question : \/ stored'[q] = stored[q]
                            \/ flushing[q] # Absent /\ stored'[q] = flushing[q]
    BY <1>1, WriteRowsEffect DEF Upsert, UpsertFails, dbVars
  <1>3. UNCHANGED <<redisVars, accepted, batch, batchVersion>>
    BY DEF Upsert, UpsertFails, localVars
  <1>4. SharedInv'
    <2>1. ASSUME NEW q \in Question
          PROVE  /\ {stored[q], flushing[q], accepted[q]} \subseteq Nat
                 /\ stored[q] <= stored'[q] /\ stored'[q] <= accepted[q]
                 /\ flushing[q] # Absent => stored'[q] <= flushing[q]
      BY <1>2 DEF TypeOK, IInv, SharedInv, Ordered
    <2>2. ASSUME NEW q \in Question, stored[q] = accepted[q]
          PROVE  stored'[q] = accepted[q]
      BY <2>1, <2>2, <1>2 DEF IInv, SharedInv, Ordered
    <2>3. Ordered'
      BY <1>3, <2>1 DEF IInv, SharedInv, Ordered, redisVars
    <2>4. Recoverable'
      BY <1>3, <2>2 DEF IInv, SharedInv, Recoverable, redisVars
    <2>5. Versions' /\ FlushedVersionSound'
      BY <1>3, <2>2 DEF IInv, SharedInv, Versions, FlushedVersionSound, redisVars
    <2>6. QED
      BY <2>3, <2>4, <2>5 DEF SharedInv
  <1>5. \A g \in Flusher \ {f} : pc[g] \notin Critical
    BY <1>1 DEF IInv, Exclusive
  <1>6. pc' = [pc EXCEPT ![f] = "merge"]
        \/ /\ pc' = [pc EXCEPT ![f] = "clear"]
           /\ \A q \in Question : flushing[q] # Absent => stored'[q] = flushing[q]
    BY <1>1, WriteRowsEffect DEF Upsert, UpsertFails
  <1>7. LocalInv'
    BY <1>1, <1>3, <1>5, <1>6 DEF TypeOK, IInv, LocalInv, redisVars
  <1>8. QED
    BY <1>4, <1>7

\* The batch is dropped once it is in the database.
LEMMA ClearStep ==
  ASSUME TypeOK, IInv, NEW f \in Flusher, ClearClaimed(f)
  PROVE  SharedInv' /\ LocalInv'
  <1>1. \A q \in Question : flushing[q] # Absent => stored[q] = flushing[q]
    BY DEF ClearClaimed, IInv, LocalInv
  <1>2. SharedInv'
    BY <1>1 DEF ClearClaimed, TypeOK, IInv, SharedInv, Ordered, Recoverable,
                Versions, FlushedVersionSound, Empty, dbVars
  <1>3. \A g \in Flusher \ {f} : pc[g] \notin Critical
    BY DEF ClearClaimed, IInv, Exclusive
  <1>4. \A q \in Question : accepted[q] <= batchVersion[f] => stored[q] = accepted[q]
    BY <1>1 DEF ClearClaimed, TypeOK, IInv, LocalInv, SharedInv, Ordered, Versions
  <1>5. LocalInv'
    BY <1>3, <1>4 DEF ClearClaimed, TypeOK, IInv, LocalInv, localVars, dbVars
  <1>6. QED
    BY <1>2, <1>5

\* The flushed version becomes that of a batch that is in the database.
LEMMA StampStep ==
  ASSUME TypeOK, IInv, NEW f \in Flusher, Stamp(f)
  PROVE  SharedInv' /\ LocalInv'
  <1> USE DEF Stamp, TypeOK, IInv, LocalInv, hashVars, dbVars, boundVars
  <1>1. Ordered' /\ Recoverable'
    BY DEF SharedInv, Ordered, Recoverable
  <1>2. Versions' /\ FlushedVersionSound'
    BY DEF SharedInv, Versions, FlushedVersionSound
  <1>3. LocalInv'
    OBVIOUS
  <1>4. QED
    BY <1>1, <1>2, <1>3 DEF SharedInv

\* Merging back gives every question its newest answer again.
LEMMA MergeStep ==
  ASSUME TypeOK, IInv, NEW f \in Flusher, MergeBack(f)
  PROVE  SharedInv' /\ LocalInv'
  <1>1. SharedInv'
    BY DEF MergeBack, TypeOK, IInv, SharedInv, Ordered, Recoverable, Versions,
           FlushedVersionSound, Empty, dbVars
  <1>2. \A g \in Flusher \ {f} : pc[g] \notin Critical
    BY DEF MergeBack, IInv, Exclusive
  <1>3. LocalInv'
    BY <1>2 DEF MergeBack, TypeOK, IInv, LocalInv, dbVars
  <1>4. QED
    BY <1>1, <1>3

\* The invariant is inductive: the lemmas above, by the action taken.
LEMMA IInvStep ==
  ~LocksMayExpire /\ TypeOK /\ IInv /\ [Next]_vars => IInv'
  <1> SUFFICES ASSUME ~LocksMayExpire, TypeOK, IInv, [Next]_vars,
                      TypeOK', Exclusive'
               PROVE  SharedInv' /\ LocalInv'
    BY ExclusiveStep, TypeStep DEF IInv
  <1> USE DEF IInv
  <1>1. ASSUME NEW qs \in SUBSET Question, Save(qs)
        PROVE  SharedInv' /\ LocalInv'
    BY <1>1, SaveStep
  <1>2. ASSUME NEW w \in Worker, PopDirty(w)
        PROVE  SharedInv' /\ LocalInv'
    <2>1. UNCHANGED sharedVars
      BY <1>2 DEF PopDirty, sharedVars, dbVars
    <2>2. LocalInv'
      BY <1>2 DEF PopDirty, TypeOK, LocalInv, redisVars, localVars, dbVars
    <2>3. QED
      BY <2>1, <2>2, SharedUnchanged
  <1>3. ASSUME NEW d \in Drainer, StartDrain(d)
        PROVE  SharedInv' /\ LocalInv'
    <2>1. UNCHANGED sharedVars
      BY <1>3 DEF StartDrain, sharedVars, dbVars
    <2>2. LocalInv'
      BY <1>3 DEF StartDrain, TypeOK, LocalInv, redisVars, dbVars
    <2>3. QED
      BY <2>1, <2>2, SharedUnchanged
  <1>4. ASSUME NEW f \in Flusher, FlushStep(f)
        PROVE  SharedInv' /\ LocalInv'
    <2>1. CASE \/ AcquireLock(f) \/ LockBusy(f) \/ ReadBatch(f) \/ ReadFlag(f)
               \/ ReleaseLock(f) \/ Requeue(f)
      BY <2>1, QuietFlushStep, SharedUnchanged
    <2>2. CASE Claim(f)
      BY <2>2, ClaimStep
    <2>3. CASE Upsert(f)
      BY <2>3, UpsertStep
    <2>4. CASE ClearClaimed(f)
      BY <2>4, ClearStep
    <2>5. CASE Stamp(f)
      BY <2>5, StampStep
    <2>6. CASE MergeBack(f)
      BY <2>6, MergeStep
    <2>7. QED
      BY <1>4, <2>1, <2>2, <2>3, <2>4, <2>5, <2>6 DEF FlushStep
  <1>5. ASSUME NEW f \in Flusher, FlushFault(f) \/ Crash(f)
        PROVE  SharedInv' /\ LocalInv'
    <2>1. CASE ClaimFails(f)
      BY <2>1, ClaimStep
    <2>2. CASE UpsertFails(f)
      BY <2>2, UpsertStep
    <2>3. CASE ~ClaimFails(f) /\ ~UpsertFails(f)
      BY <1>5, <2>3, QuietFaultStep, SharedUnchanged DEF FlushFault
    <2>4. QED
      BY <2>1, <2>2, <2>3
  <1>6. CASE Environment \/ UNCHANGED vars
    <2>1. UNCHANGED <<sharedVars, pc, batch, batchVersion>>
      BY <1>6 DEF Environment, DeadlinePasses, SubmitRow, AllowPostSubmitFlush,
                  ClearSubmitKeys, OrphanExpires, LockExpires, sharedVars, vars,
                  dbVars, localVars
    <2>2. QED
      BY <2>1, SharedUnchanged, LocalUnchanged
  <1>7. QED
    BY <1>1, <1>2, <1>3, <1>4, <1>5, <1>6 DEF Next

\* Every reachable state is well typed and satisfies the inductive invariant.
LEMMA IInvAlways == ~LocksMayExpire => (Spec => [](TypeOK /\ IInv))
  <1>1. Init => TypeOK /\ IInv
    BY TypeInit, IInvInit
  <1>2. ~LocksMayExpire /\ TypeOK /\ IInv /\ [Next]_vars => (TypeOK /\ IInv)'
    BY TypeStep, IInvStep
  <1>3. ASSUME ~LocksMayExpire PROVE Spec => [](TypeOK /\ IInv)
    <2>1. TypeOK /\ IInv /\ [Next]_vars => (TypeOK /\ IInv)'
      BY <1>2, <1>3
    <2>2. QED
      BY <1>1, <2>1, PTL DEF Spec
  <1>4. QED
    BY <1>3

\* What the invariant says of buffer, batch and rows makes the answer found in
\* this order the accepted one.
LEMMA CurrentIsAccepted == TypeOK /\ IInv => Current = accepted
  <1> SUFFICES ASSUME TypeOK, IInv PROVE Current = accepted
    OBVIOUS
  <1>1. \A q \in Question : Current[q] = accepted[q]
    BY DEF Current, IInv, SharedInv, Recoverable
  <1>2. QED
    BY <1>1 DEF Current, TypeOK

(***************************************************************************)
(* As long as no lock expires under its holder, no accepted answer is lost *)
(* or replaced by an older one (AcceptedRecoverable), whatever interleaves *)
(* and whichever commands fail.                                            *)
(***************************************************************************)
THEOREM AcceptedNeverLost == ~LocksMayExpire => (Spec => []AcceptedRecoverable)
  <1>1. TypeOK /\ IInv => AcceptedRecoverable
    BY CurrentIsAccepted DEF AcceptedRecoverable
  <1>2. ASSUME ~LocksMayExpire PROVE Spec => []AcceptedRecoverable
    <2>1. Spec => [](TypeOK /\ IInv)
      BY <1>2, IInvAlways
    <2>2. QED
      BY <1>1, <2>1, PTL
  <1>3. QED
    BY <1>2

\* Under the same assumption flushed_version tells the truth
\* (FlushedVersionSound).
THEOREM FlushedVersionCorrect == ~LocksMayExpire => (Spec => []FlushedVersionSound)
  <1>1. TypeOK /\ IInv => FlushedVersionSound
    BY DEF IInv, SharedInv
  <1>2. ASSUME ~LocksMayExpire PROVE Spec => []FlushedVersionSound
    <2>1. Spec => [](TypeOK /\ IInv)
      BY <1>2, IInvAlways
    <2>2. QED
      BY <1>1, <2>1, PTL
  <1>3. QED
    BY <1>2

(***************************************************************************)
(* Refinement: what the buffer, the batch and the database do together is  *)
(* what AnswerStore promises.                                              *)
(***************************************************************************)
\* An attempt without answers is an empty store.
LEMMA StoreInit == Init => Store!Init
  <1> SUFFICES ASSUME Init PROVE Store!Init
    OBVIOUS
  <1>1. buffer = Empty /\ flushing = Empty /\ stored = Empty /\ version = 0
    BY DEF Init
  <1>2. Current = [q \in Question |-> 0]
    BY <1>1 DEF Current, Empty
  <1>3. QED
    BY <1>1, <1>2 DEF Store!Init, Empty

\* A step that is neither a save nor an upsert leaves the accepted answers,
\* their number and the rows alone.
LEMMA StutterStep ==
  ASSUME [Next]_vars,
         ~ \E qs \in SUBSET Question : qs # {} /\ Save(qs),
         ~ \E f \in Flusher : Upsert(f) \/ UpsertFails(f)
  PROVE  UNCHANGED <<accepted, version, stored>>
  <1> USE DEF redisVars, dbVars, localVars, boundVars
  <1>1. CASE \E w \in Worker : PopDirty(w)
    BY <1>1 DEF PopDirty
  <1>2. CASE \E d \in Drainer : StartDrain(d)
    BY <1>2 DEF StartDrain
  <1>3. CASE \E f \in Flusher : FlushStep(f)
    BY <1>3 DEF FlushStep, AcquireLock, LockBusy, Claim, ReadBatch, ReadFlag,
                ClearClaimed, Stamp, MergeBack, ReleaseLock, Requeue
  <1>4. CASE \E f \in Flusher : FlushFault(f) \/ Crash(f)
    BY <1>4 DEF FlushFault, AcquireFails, ClaimFails, ReadFails, ClearFails,
                StampFails, MergeFails, ReleaseFails, RequeueFails, Crash
  <1>5. CASE Environment \/ UNCHANGED vars
    BY <1>5 DEF Environment, DeadlinePasses, SubmitRow, AllowPostSubmitFlush,
                ClearSubmitKeys, OrphanExpires, LockExpires, vars
  <1>6. QED
    BY <1>1, <1>2, <1>3, <1>4, <1>5 DEF Next

\* Every step of the write-behind path is an Accept, a Persist or a stutter.
LEMMA StoreStep ==
  /\ TypeOK /\ TypeOK' /\ IInv /\ IInv'
  /\ AcceptedRecoverable /\ AcceptedRecoverable'
  /\ [Next]_vars
  => [Store!Next]_Store!storeVars
  <1> SUFFICES ASSUME TypeOK, TypeOK', IInv, IInv', AcceptedRecoverable,
                      AcceptedRecoverable', [Next]_vars
               PROVE  Store!Next \/ UNCHANGED Store!storeVars
    OBVIOUS
  <1>1. Current = accepted /\ Current' = accepted'
    BY DEF AcceptedRecoverable
  <1>2. ASSUME NEW qs \in SUBSET Question, qs # {}, Save(qs)
        PROVE  Store!Next
    <2>1. Store!Accept(qs)
      BY <1>1, <1>2 DEF Save, Store!Accept, dbVars
    <2>2. QED
      BY <1>2, <2>1 DEF Store!Next
  <1>3. ASSUME NEW f \in Flusher, Upsert(f) \/ UpsertFails(f)
        PROVE  Store!Next
    <2>1. UNCHANGED <<accepted, version>>
      BY <1>3 DEF Upsert, UpsertFails, redisVars
    <2>2. pc[f] = "upsert" /\ (WriteRows(f) \/ UNCHANGED dbVars)
      BY <1>3 DEF Upsert, UpsertFails
    <2>3. \A q \in Question : \/ stored'[q] = stored[q]
                              \/ flushing[q] # Absent /\ stored'[q] = flushing[q]
      BY <2>2, WriteRowsEffect DEF dbVars
    <2>4. \A q \in Question : stored[q] <= stored'[q]
      BY <2>3 DEF TypeOK, IInv, SharedInv, Ordered
    <2>5. \A q \in Question : stored'[q] <= Current[q]
      BY <1>1, <2>1 DEF IInv, SharedInv, Ordered
    <2>6. stored' \in [Question -> Nat]
      BY DEF TypeOK
    <2>7. QED
      BY <1>1, <2>1, <2>4, <2>5, <2>6 DEF Store!Next, Store!Persist
  <1>4. CASE UNCHANGED <<accepted, version, stored>>
    BY <1>1, <1>4 DEF Store!storeVars
  <1>5. QED
    BY <1>2, <1>3, <1>4, StutterStep

\* Under the same assumption the write-behind path implements the abstract
\* store of answers (StoreSpec): a save is an Accept, an upsert a Persist, and
\* every other step is invisible.
THEOREM WriteBehindImplementsStore == ~LocksMayExpire => (Spec => StoreSpec)
  <1>1. TypeOK /\ IInv => AcceptedRecoverable
    BY CurrentIsAccepted DEF AcceptedRecoverable
  <1>2. ASSUME ~LocksMayExpire PROVE Spec => StoreSpec
    <2>1. Spec => [](TypeOK /\ IInv)
      BY <1>2, IInvAlways
    <2>2. QED
      BY <1>1, <2>1, StoreInit, StoreStep, PTL DEF Spec, StoreSpec, Store!Spec
  <1>3. QED
    BY <1>2
-----------------------------------------------------------------------------
(***************************************************************************)
(* What remains when locks expire under their holders.                     *)
(***************************************************************************)
\* The lock is taken from a flusher that goes on with its flush by its time to live only.
LateRelease ==
  \A f \in Flusher :
    lock = f /\ lock' # f /\ pc[f] \in Critical => pc'[f] \notin Critical \/ LockExpires

\* One step per action: a release and a crash end the flush of the one whose lock they
\* free, and the release of a late holder finds another token.
LEMMA ReleaseStep == TypeOK /\ [Next]_vars => LateRelease
  <1> SUFFICES ASSUME TypeOK, [Next]_vars PROVE LateRelease
    OBVIOUS
  <1> USE BufferAssumption DEF TypeOK, LateRelease
  <1>1. ASSUME NEW qs \in SUBSET Question, Save(qs) PROVE LateRelease
    BY <1>1 DEF Save
  <1>2. ASSUME NEW w \in Worker, PopDirty(w) PROVE LateRelease
    BY <1>2 DEF PopDirty
  <1>3. ASSUME NEW d \in Drainer, StartDrain(d) PROVE LateRelease
    BY <1>3 DEF StartDrain
  <1>4. ASSUME NEW f \in Flusher, AcquireLock(f) PROVE LateRelease
    BY <1>4 DEF AcquireLock
  <1>5. ASSUME NEW f \in Flusher, LockBusy(f) PROVE LateRelease
    BY <1>5 DEF LockBusy
  <1>6. ASSUME NEW f \in Flusher, Claim(f) PROVE LateRelease
    BY <1>6 DEF Claim, RenameBuffer
  <1>7. ASSUME NEW f \in Flusher, ReadBatch(f) PROVE LateRelease
    BY <1>7 DEF ReadBatch
  <1>8. ASSUME NEW f \in Flusher, ReadFlag(f) PROVE LateRelease
    BY <1>8 DEF ReadFlag
  <1>9. ASSUME NEW f \in Flusher, Upsert(f) PROVE LateRelease
    BY <1>9 DEF Upsert
  <1>10. ASSUME NEW f \in Flusher, ClearClaimed(f) PROVE LateRelease
    BY <1>10 DEF ClearClaimed
  <1>11. ASSUME NEW f \in Flusher, Stamp(f) PROVE LateRelease
    BY <1>11 DEF Stamp
  <1>12. ASSUME NEW f \in Flusher, MergeBack(f) PROVE LateRelease
    BY <1>12 DEF MergeBack
  <1>13. ASSUME NEW f \in Flusher, ReleaseLock(f) PROVE LateRelease
    BY <1>13 DEF ReleaseLock, Return, AfterFlush
  <1>14. ASSUME NEW f \in Flusher, Requeue(f) PROVE LateRelease
    BY <1>14 DEF Requeue
  <1>15. ASSUME NEW f \in Flusher, AcquireFails(f) PROVE LateRelease
    BY <1>15 DEF AcquireFails
  <1>16. ASSUME NEW f \in Flusher, ClaimFails(f) PROVE LateRelease
    BY <1>16 DEF ClaimFails, RenameBuffer
  <1>17. ASSUME NEW f \in Flusher, ReadFails(f) PROVE LateRelease
    BY <1>17 DEF ReadFails
  <1>18. ASSUME NEW f \in Flusher, UpsertFails(f) PROVE LateRelease
    BY <1>18 DEF UpsertFails
  <1>19. ASSUME NEW f \in Flusher, ClearFails(f) PROVE LateRelease
    BY <1>19 DEF ClearFails
  <1>20. ASSUME NEW f \in Flusher, StampFails(f) PROVE LateRelease
    BY <1>20 DEF StampFails
  <1>21. ASSUME NEW f \in Flusher, MergeFails(f) PROVE LateRelease
    BY <1>21 DEF MergeFails
  <1>22. ASSUME NEW f \in Flusher, ReleaseFails(f) PROVE LateRelease
    BY <1>22 DEF ReleaseFails, Return, AfterFlush
  <1>23. ASSUME NEW f \in Flusher, RequeueFails(f) PROVE LateRelease
    BY <1>23 DEF RequeueFails
  <1>24. ASSUME NEW f \in Flusher, Crash(f) PROVE LateRelease
    BY <1>24 DEF Crash
  <1>25. ASSUME DeadlinePasses PROVE LateRelease
    BY <1>25 DEF DeadlinePasses
  <1>26. ASSUME SubmitRow PROVE LateRelease
    BY <1>26 DEF SubmitRow
  <1>27. ASSUME AllowPostSubmitFlush PROVE LateRelease
    BY <1>27 DEF AllowPostSubmitFlush
  <1>28. ASSUME ClearSubmitKeys PROVE LateRelease
    BY <1>28 DEF ClearSubmitKeys
  <1>29. ASSUME OrphanExpires PROVE LateRelease
    BY <1>29 DEF OrphanExpires
  <1>30. ASSUME LockExpires PROVE LateRelease
    BY <1>30 DEF LockExpires
  <1>31. CASE UNCHANGED vars
    BY <1>31 DEF vars
  <1>32. QED
    BY <1>1, <1>2, <1>3, <1>4, <1>5, <1>6, <1>7, <1>8, <1>9, <1>10, <1>11, <1>12,
       <1>13, <1>14, <1>15, <1>16, <1>17, <1>18, <1>19, <1>20, <1>21, <1>22, <1>23,
       <1>24, <1>25, <1>26, <1>27, <1>28, <1>29, <1>30, <1>31
       DEF Next, FlushStep, FlushFault, Environment

\* Also when locks expire under their holders, the release of a late holder never frees
\* the lock of the flusher that came after it (LateReleaseHarmless).
THEOREM LateReleasesHarmless == Spec => LateReleaseHarmless
  <1>1. TypeOK /\ [Next]_vars =>
          [\A f \in Flusher :
             lock = f /\ lock' # f /\ pc[f] \in Critical =>
               \/ pc'[f] \notin Critical
               \/ LockExpires]_vars
    BY ReleaseStep DEF LateRelease
  <1>2. QED
    BY <1>1, TypeInit, TypeStep, PTL DEF Spec, LateReleaseHarmless

-----------------------------------------------------------------------------
(***************************************************************************)
(* What waits in Redis is not forgotten, when nothing fails.               *)
(***************************************************************************)
\* A claimed batch is being flushed, and a buffer will be: it is in the dirty set, or
\* somebody is on the way to it or back to the dirty set.
Tracked ==
  /\ flushing # Empty =>
       \E f \in Flusher : pc[f] \in {"read", "flag", "upsert", "clear", "merge"}
  /\ buffer # Empty =>
       dirty \/ \E f \in Flusher : pc[f] \in {"acquire", "claim", "requeue"}

\* One step per action. Under the lock nobody else has a batch, so that a claim takes
\* the whole buffer.
LEMMA TrackedStep ==
  ASSUME MaxFaults = 0, MaxCrashes = 0, TypeOK, Exclusive, Tracked, [Next]_vars
  PROVE  Tracked'
  <1> USE BufferAssumption DEF TypeOK, Exclusive, Tracked, redisVars, hashVars, boundVars
  <1>1. ASSUME NEW qs \in SUBSET Question, Save(qs) PROVE Tracked'
    BY <1>1 DEF Save
  <1>2. ASSUME NEW w \in Worker, PopDirty(w) PROVE Tracked'
    BY <1>2 DEF PopDirty
  <1>3. ASSUME NEW d \in Drainer, StartDrain(d) PROVE Tracked'
    BY <1>3 DEF StartDrain
  <1>4. ASSUME NEW f \in Flusher, AcquireLock(f) PROVE Tracked'
    BY <1>4 DEF AcquireLock
  <1>5. ASSUME NEW f \in Flusher, LockBusy(f) PROVE Tracked'
    BY <1>5 DEF LockBusy
  <1>6. ASSUME NEW f \in Flusher, Claim(f) PROVE Tracked'
    BY <1>6 DEF Claim, RenameBuffer
  <1>7. ASSUME NEW f \in Flusher, ReadBatch(f) PROVE Tracked'
    BY <1>7 DEF ReadBatch
  <1>8. ASSUME NEW f \in Flusher, ReadFlag(f) PROVE Tracked'
    BY <1>8 DEF ReadFlag
  <1>9. ASSUME NEW f \in Flusher, Upsert(f) PROVE Tracked'
    BY <1>9 DEF Upsert
  <1>10. ASSUME NEW f \in Flusher, ClearClaimed(f) PROVE Tracked'
    BY <1>10 DEF ClearClaimed
  <1>11. ASSUME NEW f \in Flusher, Stamp(f) PROVE Tracked'
    BY <1>11 DEF Stamp
  <1>12. ASSUME NEW f \in Flusher, MergeBack(f) PROVE Tracked'
    BY <1>12 DEF MergeBack
  <1>13. ASSUME NEW f \in Flusher, ReleaseLock(f) PROVE Tracked'
    BY <1>13 DEF ReleaseLock, Return, AfterFlush
  <1>14. ASSUME NEW f \in Flusher, Requeue(f) PROVE Tracked'
    BY <1>14 DEF Requeue
  <1>15. ASSUME NEW f \in Flusher, AcquireFails(f) PROVE Tracked'
    BY <1>15 DEF AcquireFails, Fault
  <1>16. ASSUME NEW f \in Flusher, ClaimFails(f) PROVE Tracked'
    BY <1>16 DEF ClaimFails, RenameBuffer, Fault
  <1>17. ASSUME NEW f \in Flusher, ReadFails(f) PROVE Tracked'
    BY <1>17 DEF ReadFails, Fault
  <1>18. ASSUME NEW f \in Flusher, UpsertFails(f) PROVE Tracked'
    BY <1>18 DEF UpsertFails, Fault
  <1>19. ASSUME NEW f \in Flusher, ClearFails(f) PROVE Tracked'
    BY <1>19 DEF ClearFails, Fault
  <1>20. ASSUME NEW f \in Flusher, StampFails(f) PROVE Tracked'
    BY <1>20 DEF StampFails, Fault
  <1>21. ASSUME NEW f \in Flusher, MergeFails(f) PROVE Tracked'
    BY <1>21 DEF MergeFails, Fault
  <1>22. ASSUME NEW f \in Flusher, ReleaseFails(f) PROVE Tracked'
    BY <1>22 DEF ReleaseFails, Return, AfterFlush, Fault
  <1>23. ASSUME NEW f \in Flusher, RequeueFails(f) PROVE Tracked'
    BY <1>23 DEF RequeueFails, Fault
  <1>24. ASSUME NEW f \in Flusher, Crash(f) PROVE Tracked'
    BY <1>24 DEF Crash
  <1>25. ASSUME DeadlinePasses PROVE Tracked'
    BY <1>25 DEF DeadlinePasses
  <1>26. ASSUME SubmitRow PROVE Tracked'
    BY <1>26 DEF SubmitRow
  <1>27. ASSUME AllowPostSubmitFlush PROVE Tracked'
    BY <1>27 DEF AllowPostSubmitFlush
  <1>28. ASSUME ClearSubmitKeys PROVE Tracked'
    BY <1>28 DEF ClearSubmitKeys
  <1>29. ASSUME OrphanExpires PROVE Tracked'
    BY <1>29 DEF OrphanExpires
  <1>30. ASSUME LockExpires PROVE Tracked'
    BY <1>30 DEF LockExpires
  <1>31. CASE UNCHANGED vars
    BY <1>31 DEF vars
  <1>32. QED
    BY <1>1, <1>2, <1>3, <1>4, <1>5, <1>6, <1>7, <1>8, <1>9, <1>10, <1>11, <1>12,
       <1>13, <1>14, <1>15, <1>16, <1>17, <1>18, <1>19, <1>20, <1>21, <1>22, <1>23,
       <1>24, <1>25, <1>26, <1>27, <1>28, <1>29, <1>30, <1>31
       DEF Next, FlushStep, FlushFault, Environment

\* Without crashes and faults, and while locks outlive their holders, answers that wait
\* in Redis are in the dirty set or somebody is at work (BufferedIsTracked).
THEOREM BufferedAreTracked ==
  ~LocksMayExpire /\ MaxFaults = 0 /\ MaxCrashes = 0 => (Spec => []BufferedIsTracked)
  <1>1. Init => Exclusive /\ Tracked
    BY DEF Init, Exclusive, Tracked, Critical
  <1>2. ASSUME ~LocksMayExpire, MaxFaults = 0, MaxCrashes = 0
        PROVE  Spec => []BufferedIsTracked
    <2>1. TypeOK /\ Exclusive /\ [Next]_vars => Exclusive'
      BY <1>2, ExclusiveStep
    <2>2. TypeOK /\ Exclusive /\ Tracked /\ [Next]_vars => Tracked'
      BY <1>2, TrackedStep
    <2>3. TypeOK /\ Tracked => BufferedIsTracked
      BY DEF Tracked, BufferedIsTracked, Fields, Empty, TypeOK, Hash
    <2>4. QED
      BY <1>1, <2>1, <2>2, <2>3, TypeInit, TypeStep, PTL DEF Spec
  <1>3. QED
    BY <1>2
=============================================================================
