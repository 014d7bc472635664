------------------------- MODULE SubmitPipelineProofs -------------------------
(***************************************************************************)
(* Proofs about SubmitPipeline, for any numbers of clients, readers,       *)
(* consumers, sweeps, flush workers, saves, messages, faults and crashes.  *)
(***************************************************************************)
EXTENDS SubmitPipeline, TLAPS

USE DEF Finalizer, Flusher, Process, None, answerVars, rowVars, keyVars, streamVars,
        lockVars, cacheVars, localVars, historyVars, boundVars, Goto, NoFault
-----------------------------------------------------------------------------
\* An attempt that has just been started.
LEMMA TypeInit == Init => TypeOK
  <1> SUFFICES ASSUME Init PROVE TypeOK
    OBVIOUS
  <1> USE DEF Init
  <1>1. MaxSaves \in Nat /\ MaxFaults \in Nat /\ MaxCrashes \in Nat
    BY SubmitAssumption
  <1>2. /\ pc \in [Process -> Step]
        /\ seen \in [Process -> Nat] /\ allow \in [Process -> BOOLEAN]
        /\ taken \in [Consumer -> Message \cup {Nobody}]
        /\ shown \in [Reader -> Nat \cup {None}]
    BY DEF Step
  <1>3. /\ {submitLock, saveLock, flushLock} \subseteq Process \cup {Nobody, Orphan}
        /\ stream \subseteq Message
    OBVIOUS
  <1>4. /\ row \in {"in_progress", "submitted"}
        /\ submitStatus \in {"none", "queued", "done"}
        /\ info \in {"none", "in_progress", "submitted"}
    OBVIOUS
  <1>5. {logged, pending, dirty, postSubmitFlush, asked, expired} \subseteq BOOLEAN
    OBVIOUS
  <1>6. /\ marks \in Nat \cup {None} /\ resultCache \in Nat \cup {None}
        /\ stored \in Nat /\ accepted \in Nat /\ due \in Nat
        /\ requests \in 0 .. MaxSaves /\ faults \in 0 .. MaxFaults
        /\ crashes \in 0 .. MaxCrashes
    BY <1>1
  <1> HIDE DEF Init
  <1>7. QED
    BY <1>2, <1>3, <1>4, <1>5, <1>6 DEF TypeOK

\* An error releases the locks of the process and forgets what it had read.
LEMMA AbortTypes ==
  ASSUME TypeOK, NEW p \in Process, Abort(p)
  PROVE  /\ pc' \in [Process -> Step]
         /\ seen' \in [Process -> Nat] /\ allow' \in [Process -> BOOLEAN]
         /\ {submitLock', saveLock', flushLock'} \subseteq Process \cup {Nobody, Orphan}
  BY DEF TypeOK, Abort, ReleaseLocks, Forget, Step

\* Every step keeps the types; one step per action.
LEMMA TypeStep == TypeOK /\ [Next]_vars => TypeOK'
  <1> SUFFICES ASSUME TypeOK, [Next]_vars PROVE TypeOK'
    OBVIOUS
  <1> USE SubmitAssumption DEF TypeOK, Step
  <1>1. ASSUME NEW s \in Saver, BeginSave(s) PROVE TypeOK'
    BY <1>1 DEF BeginSave, Fault
  <1>2. ASSUME NEW s \in Saver, CheckAttempt(s) PROVE TypeOK'
    <2>1. CASE Info = "in_progress"
      BY <1>2, <2>1 DEF CheckAttempt, LoadInfo, Info
    <2>2. CASE ~(Info = "in_progress")
      BY <1>2, <2>2, AbortTypes DEF CheckAttempt, LoadInfo, Info
    <2>3. QED
      BY <2>1, <2>2
  <1>3. ASSUME NEW s \in Saver, CheckSubmitStatus(s) PROVE TypeOK'
    <2>1. CASE submitStatus = "none"
      BY <1>3, <2>1 DEF CheckSubmitStatus
    <2>2. CASE ~(submitStatus = "none")
      BY <1>3, <2>2, AbortTypes DEF CheckSubmitStatus
    <2>3. QED
      BY <2>1, <2>2
  <1>4. ASSUME NEW s \in Saver, EnqueueAnswers(s) PROVE TypeOK'
    BY <1>4 DEF EnqueueAnswers, Abort, ReleaseLocks, Forget
  <1>5. ASSUME NEW c \in Client, SubmitRequest(c) PROVE TypeOK'
    BY <1>5 DEF SubmitRequest, LoadInfo, Info
  <1>6. ASSUME NEW c \in Client, ClearStaleStatus(c) PROVE TypeOK'
    BY <1>6 DEF ClearStaleStatus, ClearSubmitKeys
  <1>7. ASSUME NEW c \in Client, LookupAttempt(c) PROVE TypeOK'
    BY <1>7 DEF LookupAttempt, LoadInfo, Info
  <1>8. ASSUME NEW c \in Client, MarkQueued(c) PROVE TypeOK'
    <2>1. pc' \in [Process -> Step]
      BY <1>8 DEF MarkQueued
    <2>2. submitStatus' \in {"none", "queued", "done"} /\ asked' \in BOOLEAN
      BY <1>8 DEF MarkQueued
    <2>3. QED
      BY <2>1, <2>2, <1>8 DEF MarkQueued
  <1>9. ASSUME NEW c \in Client, SetPostSubmitFlush(c) PROVE TypeOK'
    BY <1>9 DEF SetPostSubmitFlush
  <1>10. ASSUME NEW c \in Client, EnqueueSubmit(c) PROVE TypeOK'
    BY <1>10 DEF EnqueueSubmit, AddMessage
  <1>11. ASSUME NEW c \in Client, TakeBack(c) PROVE TypeOK'
    BY <1>11 DEF TakeBack, ClearSubmitKeys
  <1>12. ASSUME NEW c \in Client, EnqueueSubmitFails(c) PROVE TypeOK'
    BY <1>12 DEF EnqueueSubmitFails, AddMessage, Fault
  <1>13. ASSUME NEW k \in Consumer, TakeMessage(k) PROVE TypeOK'
    BY <1>13 DEF TakeMessage
  <1>14. ASSUME NEW k \in Consumer, AckAndDelete(k) PROVE TypeOK'
    BY <1>14 DEF AckAndDelete
  <1>15. ASSUME NEW k \in Consumer, GiveUp(k) PROVE TypeOK'
    BY <1>15 DEF GiveUp, ClearSubmitKeys
  <1>16. ASSUME NEW x \in Sweeper, SweepExpired(x) PROVE TypeOK'
    BY <1>16 DEF SweepExpired
  <1>17. ASSUME NEW w \in FlushWorker, PopDirty(w) PROVE TypeOK'
    <2>1. pc' \in [Process -> Step]
      BY <1>17 DEF PopDirty
    <2>2. dirty' \in BOOLEAN
      BY <1>17 DEF PopDirty
    <2>3. QED
      BY <2>1, <2>2, <1>17 DEF PopDirty
  <1>18. ASSUME NEW r \in Reader, ReadRequest(r) PROVE TypeOK'
    BY <1>18 DEF ReadRequest, LoadInfo, Info
  <1>19. ASSUME NEW r \in Reader, Recheck(r) PROVE TypeOK'
    BY <1>19 DEF Recheck, LoadInfo, Info
  <1>20. ASSUME NEW r \in Reader, LoadResult(r) PROVE TypeOK'
    BY <1>20 DEF LoadResult
  <1>21. ASSUME NEW r \in Reader, ListResultQuestions(r) PROVE TypeOK'
    BY <1>21 DEF ListResultQuestions
  <1>22. ASSUME NEW r \in Reader, StoreResult(r) PROVE TypeOK'
    BY <1>22 DEF StoreResult, Forget
  <1>23. ASSUME NEW p \in Flusher, AcquireSubmitLock(p) PROVE TypeOK'
    BY <1>23 DEF AcquireSubmitLock
  <1>24. ASSUME NEW p \in Flusher, AcquireSaveLock(p) PROVE TypeOK'
    BY <1>24 DEF AcquireSaveLock
  <1>25. ASSUME NEW p \in Flusher, LockBusy(p) PROVE TypeOK'
    BY <1>25 DEF LockBusy, Abort, ReleaseLocks, Forget
  <1>26. ASSUME NEW p \in Flusher, AllowPostSubmitFlush(p) PROVE TypeOK'
    BY <1>26 DEF AllowPostSubmitFlush, After
  <1>27. ASSUME NEW p \in Flusher, NothingToFlush(p) PROVE TypeOK'
    BY <1>27 DEF NothingToFlush, After
  <1>28. ASSUME NEW p \in Flusher, FlushLockBusy(p) PROVE TypeOK'
    BY <1>28 DEF FlushLockBusy, Abort, ReleaseLocks, Forget
  <1>29. ASSUME NEW p \in Flusher, ClaimAnswers(p) PROVE TypeOK'
    BY <1>29 DEF ClaimAnswers
  <1>30. ASSUME NEW p \in Flusher, WriteAnswers(p) PROVE TypeOK'
    BY <1>30 DEF WriteAnswers, CanWrite, Forget
  <1>31. ASSUME NEW p \in Flusher, WriteIncomplete(p) PROVE TypeOK'
    BY <1>31 DEF WriteIncomplete, Abort, ReleaseLocks, Forget
  <1>32. ASSUME NEW p \in Flusher, WriteRefused(p) PROVE TypeOK'
    BY <1>32 DEF WriteRefused, ReleaseLocks, Forget
  <1>33. ASSUME NEW p \in Flusher, SubmitRow(p) PROVE TypeOK'
    BY <1>33 DEF SubmitRow, After
  <1>34. ASSUME NEW p \in Flusher, GradeAnswers(p) PROVE TypeOK'
    BY <1>34 DEF GradeAnswers, After
  <1>35. ASSUME NEW p \in Flusher, UpdateAttemptMarks(p) PROVE TypeOK'
    BY <1>35 DEF UpdateAttemptMarks, After, Forget
  <1>36. ASSUME NEW p \in Flusher, InvalidateCaches(p) PROVE TypeOK'
    BY <1>36 DEF InvalidateCaches, After
  <1>37. ASSUME NEW p \in Flusher, ClearSubmitStatus(p) PROVE TypeOK'
    BY <1>37 DEF ClearSubmitStatus, After, ClearSubmitKeys
  <1>38. ASSUME NEW p \in Flusher, SetDone(p) PROVE TypeOK'
    BY <1>38 DEF SetDone, After
  <1>39. ASSUME NEW p \in Flusher, ReturnFinalized(p) PROVE TypeOK'
    BY <1>39 DEF ReturnFinalized, ReleaseLocks
  <1>40. ASSUME NEW p \in Flusher, WriteFails(p) PROVE TypeOK'
    BY <1>40 DEF WriteFails, Fault, Abort, ReleaseLocks, Forget
  <1>41. ASSUME NEW p \in Flusher, StepFails(p) PROVE TypeOK'
    <2>1. dirty' \in BOOLEAN
      BY <1>41 DEF StepFails
    <2>2. row' \in {"in_progress", "submitted"} /\ marks' \in Nat \cup {None}
      BY <1>41 DEF StepFails, Flusher, Process
    <2>3. p \in Process /\ Abort(p)
      BY <1>41 DEF StepFails, Flusher, Process
    <2>4. QED
      BY <2>1, <2>2, <2>3, AbortTypes, <1>41 DEF StepFails, Fault
  <1>42. ASSUME NEW p \in Flusher, StepIgnored(p) PROVE TypeOK'
    BY <1>42 DEF StepIgnored, Fault, After
  <1>43. ASSUME NEW p \in Process, Crash(p) PROVE TypeOK'
    BY <1>43 DEF Crash, Forget
  <1>44. ASSUME DeadlinePasses PROVE TypeOK'
    BY <1>44 DEF DeadlinePasses
  <1>45. ASSUME CacheExpires PROVE TypeOK'
    BY <1>45 DEF CacheExpires
  <1>46. ASSUME OrphansExpire PROVE TypeOK'
    BY <1>46 DEF OrphansExpire
  <1>47. ASSUME StaleInfoCached PROVE TypeOK'
    BY <1>47 DEF StaleInfoCached
  <1>48. ASSUME UNCHANGED vars PROVE TypeOK'
    BY <1>48 DEF vars
  <1>49. QED
    BY <1>1, <1>2, <1>3, <1>4, <1>5, <1>6, <1>7, <1>8, <1>9, <1>10, <1>11, <1>12,
       <1>13, <1>14, <1>15, <1>16, <1>17, <1>18, <1>19, <1>20, <1>21, <1>22, <1>23,
       <1>24, <1>25, <1>26, <1>27, <1>28, <1>29, <1>30, <1>31, <1>32, <1>33, <1>34,
       <1>35, <1>36, <1>37, <1>38, <1>39, <1>40, <1>41, <1>42, <1>43, <1>44, <1>45,
       <1>46, <1>47, <1>48
       DEF Next, SaveStep, SubmitStep, ConsumerStep, ReadStep, FinalizeStep, FaultStep

\* However submits, messages, sweeps, readers, saves and flushes overlap, fail and crash,
\* rows, keys, locks and processes hold what they should.
THEOREM TypeCorrect == Spec => []TypeOK
  BY TypeInit, TypeStep, PTL DEF Spec

-----------------------------------------------------------------------------
(***************************************************************************)
(* The inductive invariant.                                                *)
(***************************************************************************)
\* The steps of the flush workers and of the sweeps.
PlaceInv ==
  /\ \A w \in FlushWorker : pc[w] \in {"idle", "drain", "write"}
  /\ \A x \in Sweeper : pc[x] \in {"idle", "invalidate", "allow", "drain", "write",
                                   "grade", "marks", "clear", "done"}
  /\ \A x \in Sweeper : pc[x] # "idle" => row = "submitted" /\ expired

\* Who finalizes has been asked to: by a submit, a message, or the closed row.
AskedInv ==
  /\ submitStatus # "none" \/ row = "submitted" \/ stream # {} => asked
  /\ info = "submitted" => row = "submitted"
  /\ \A p \in Finalizer \cup Sweeper :
       pc[p] \in {"flag", "xadd", "submitLock", "saveLock", "allow", "drain", "write",
                  "submitRow"} => asked

\* Who flushes has the flush lock, who finalizes the other two.
LockInv ==
  /\ \A p \in Flusher : pc[p] = "write" => flushLock = p
  /\ \A p \in Finalizer :
       /\ pc[p] \in {"allow", "drain", "write", "submitRow"} => saveLock = p
       /\ pc[p] \in {"saveLock", "allow", "drain", "write", "submitRow", "grade",
                     "marks"} => submitLock = p

\* The rows follow the accepted answers and have reached them when nothing is pending.
FlushInv ==
  /\ stored <= accepted /\ due <= accepted
  /\ ~pending => stored = accepted
  /\ \A p \in Flusher :
       pc[p] = "write" => pending /\ stored <= seen[p] /\ seen[p] <= accepted

\* Between its drain and its marks a grader has every answer that must count: a save
\* that could add to them needs the save lock and an open row. Marks are of such
\* answers, and done comes after marks.
GradeInv ==
  /\ \A p \in Finalizer : pc[p] = "submitRow" => due <= stored
  /\ \A p \in Flusher :
       /\ pc[p] = "grade" => row = "submitted" /\ due <= stored
       /\ pc[p] = "marks" => row = "submitted" /\ due <= seen[p] /\ seen[p] <= stored
       /\ pc[p] \in {"clear", "done"} => marks # None
  /\ \A p \in Finalizer :
       /\ pc[p] = "invalidate" => marks # None
       /\ pc[p] = "marks" /\ ~expired => marks <= seen[p]
  /\ marks # None => row = "submitted" /\ due <= marks /\ marks <= stored
  /\ submitStatus = "done" => marks # None

\* What is shown or cached has been read when the attempt was graded.
ResultInv ==
  /\ resultCache # None => row = "submitted" /\ due <= resultCache
  /\ \A r \in Reader :
       /\ pc[r] \in {"result", "list"} => marks # None
       /\ pc[r] = "store" => row = "submitted" /\ due <= seen[r]
       /\ shown[r] # None => row = "submitted" /\ due <= shown[r]

IInv == PlaceInv /\ AskedInv /\ LockInv /\ FlushInv /\ GradeInv /\ ResultInv

\* Nobody has asked, nothing is graded.
LEMMA IInvInit == Init => IInv
  BY DEF Init, IInv, PlaceInv, AskedInv, LockInv, FlushInv, GradeInv, ResultInv

\* One step per action. A save under the save lock cannot come between the drain and
\* the closed row; a flush is that of the holder of the flush lock alone.
LEMMA IInvStep == TypeOK /\ IInv /\ [Next]_vars => IInv'
  <1> SUFFICES ASSUME TypeOK, IInv, [Next]_vars PROVE IInv'
    OBVIOUS
  <1> USE SubmitAssumption DEF TypeOK, IInv, PlaceInv, AskedInv, LockInv, FlushInv,
          GradeInv, ResultInv
  <1>1. ASSUME NEW s \in Saver, BeginSave(s) PROVE IInv'
    BY <1>1 DEF BeginSave, Fault
  <1>2. ASSUME NEW s \in Saver, CheckAttempt(s) PROVE IInv'
    BY <1>2 DEF CheckAttempt, LoadInfo, Info, Abort, ReleaseLocks, Forget
  <1>3. ASSUME NEW s \in Saver, CheckSubmitStatus(s) PROVE IInv'
    BY <1>3 DEF CheckSubmitStatus, Abort, ReleaseLocks, Forget
  <1>4. ASSUME NEW s \in Saver, EnqueueAnswers(s) PROVE IInv'
    BY <1>4 DEF EnqueueAnswers, Abort, ReleaseLocks, Forget
  <1>5. ASSUME NEW c \in Client, SubmitRequest(c) PROVE IInv'
    BY <1>5 DEF SubmitRequest, LoadInfo, Info
  <1>6. ASSUME NEW c \in Client, ClearStaleStatus(c) PROVE IInv'
    BY <1>6 DEF ClearStaleStatus, ClearSubmitKeys
  <1>7. ASSUME NEW c \in Client, LookupAttempt(c) PROVE IInv'
    BY <1>7 DEF LookupAttempt, LoadInfo, Info
  <1>8. ASSUME NEW c \in Client, MarkQueued(c) PROVE IInv'
    BY <1>8 DEF MarkQueued
  <1>9. ASSUME NEW c \in Client, SetPostSubmitFlush(c) PROVE IInv'
    BY <1>9 DEF SetPostSubmitFlush
  <1>10. ASSUME NEW c \in Client, EnqueueSubmit(c) PROVE IInv'
    BY <1>10 DEF EnqueueSubmit, AddMessage
  <1>11. ASSUME NEW c \in Client, TakeBack(c) PROVE IInv'
    BY <1>11 DEF TakeBack, ClearSubmitKeys
  <1>12. ASSUME NEW c \in Client, EnqueueSubmitFails(c) PROVE IInv'
    BY <1>12 DEF EnqueueSubmitFails, AddMessage, Fault
  <1>13. ASSUME NEW k \in Consumer, TakeMessage(k) PROVE IInv'
    BY <1>13 DEF TakeMessage
  <1>14. ASSUME NEW k \in Consumer, AckAndDelete(k) PROVE IInv'
    BY <1>14 DEF AckAndDelete
  <1>15. ASSUME NEW k \in Consumer, GiveUp(k) PROVE IInv'
    BY <1>15 DEF GiveUp, ClearSubmitKeys
  <1>16. ASSUME NEW x \in Sweeper, SweepExpired(x) PROVE IInv'
    BY <1>16 DEF SweepExpired
  <1>17. ASSUME NEW w \in FlushWorker, PopDirty(w) PROVE IInv'
    BY <1>17 DEF PopDirty
  <1>18. ASSUME NEW r \in Reader, ReadRequest(r) PROVE IInv'
    BY <1>18 DEF ReadRequest, LoadInfo, Info
  <1>19. ASSUME NEW r \in Reader, Recheck(r) PROVE IInv'
    BY <1>19 DEF Recheck, LoadInfo, Info
  <1>20. ASSUME NEW r \in Reader, LoadResult(r) PROVE IInv'
    BY <1>20 DEF LoadResult
  <1>21. ASSUME NEW r \in Reader, ListResultQuestions(r) PROVE IInv'
    BY <1>21 DEF ListResultQuestions
  <1>22. ASSUME NEW r \in Reader, StoreResult(r) PROVE IInv'
    BY <1>22 DEF StoreResult, Forget
  <1>23. ASSUME NEW p \in Flusher, AcquireSubmitLock(p) PROVE IInv'
    BY <1>23 DEF AcquireSubmitLock
  <1>24. ASSUME NEW p \in Flusher, AcquireSaveLock(p) PROVE IInv'
    BY <1>24 DEF AcquireSaveLock
  <1>25. ASSUME NEW p \in Flusher, LockBusy(p) PROVE IInv'
    BY <1>25 DEF LockBusy, Abort, ReleaseLocks, Forget
  <1>26. ASSUME NEW p \in Flusher, AllowPostSubmitFlush(p) PROVE IInv'
    BY <1>26 DEF AllowPostSubmitFlush, After
  <1>27. ASSUME NEW p \in Flusher, NothingToFlush(p) PROVE IInv'
    BY <1>27 DEF NothingToFlush, After
  <1>28. ASSUME NEW p \in Flusher, FlushLockBusy(p) PROVE IInv'
    BY <1>28 DEF FlushLockBusy, Abort, ReleaseLocks, Forget
  <1>29. ASSUME NEW p \in Flusher, ClaimAnswers(p) PROVE IInv'
    BY <1>29 DEF ClaimAnswers
  <1>30. ASSUME NEW p \in Flusher, WriteAnswers(p) PROVE IInv'
    BY <1>30 DEF WriteAnswers, CanWrite, Forget
  <1>31. ASSUME NEW p \in Flusher, WriteIncomplete(p) PROVE IInv'
    BY <1>31 DEF WriteIncomplete, Abort, ReleaseLocks, Forget
  <1>32. ASSUME NEW p \in Flusher, WriteRefused(p) PROVE IInv'
    BY <1>32 DEF WriteRefused, ReleaseLocks, Forget
  <1>33. ASSUME NEW p \in Flusher, SubmitRow(p) PROVE IInv'
    BY <1>33 DEF SubmitRow, After
  <1>34. ASSUME NEW p \in Flusher, GradeAnswers(p) PROVE IInv'
    BY <1>34 DEF GradeAnswers, After
  <1>35. ASSUME NEW p \in Flusher, UpdateAttemptMarks(p) PROVE IInv'
    BY <1>35 DEF UpdateAttemptMarks, After, Forget
  <1>36. ASSUME NEW p \in Flusher, InvalidateCaches(p) PROVE IInv'
    BY <1>36 DEF InvalidateCaches, After
  <1>37. ASSUME NEW p \in Flusher, ClearSubmitStatus(p) PROVE IInv'
    BY <1>37 DEF ClearSubmitStatus, After, ClearSubmitKeys
  <1>38. ASSUME NEW p \in Flusher, SetDone(p) PROVE IInv'
    BY <1>38 DEF SetDone, After
  <1>39. ASSUME NEW p \in Flusher, ReturnFinalized(p) PROVE IInv'
    BY <1>39 DEF ReturnFinalized, ReleaseLocks
  <1>40. ASSUME NEW p \in Flusher, WriteFails(p) PROVE IInv'
    BY <1>40 DEF WriteFails, Fault, Abort, ReleaseLocks, Forget
  <1>41. ASSUME NEW p \in Flusher, StepFails(p) PROVE IInv'
    BY <1>41 DEF StepFails, Fault, Abort, ReleaseLocks, Forget
  <1>42. ASSUME NEW p \in Flusher, StepIgnored(p) PROVE IInv'
    BY <1>42 DEF StepIgnored, Fault, After
  <1>43. ASSUME NEW p \in Process, Crash(p) PROVE IInv'
    BY <1>43 DEF Crash, Forget
  <1>44. ASSUME DeadlinePasses PROVE IInv'
    BY <1>44 DEF DeadlinePasses
  <1>45. ASSUME CacheExpires PROVE IInv'
    BY <1>45 DEF CacheExpires
  <1>46. ASSUME OrphansExpire PROVE IInv'
    BY <1>46 DEF OrphansExpire
  <1>47. ASSUME StaleInfoCached PROVE IInv'
    BY <1>47 DEF StaleInfoCached
  <1>48. ASSUME UNCHANGED vars PROVE IInv'
    BY <1>48 DEF vars
  <1>49. QED
    BY <1>1, <1>2, <1>3, <1>4, <1>5, <1>6, <1>7, <1>8, <1>9, <1>10, <1>11, <1>12,
       <1>13, <1>14, <1>15, <1>16, <1>17, <1>18, <1>19, <1>20, <1>21, <1>22, <1>23,
       <1>24, <1>25, <1>26, <1>27, <1>28, <1>29, <1>30, <1>31, <1>32, <1>33, <1>34,
       <1>35, <1>36, <1>37, <1>38, <1>39, <1>40, <1>41, <1>42, <1>43, <1>44, <1>45,
       <1>46, <1>47, <1>48
       DEF Next, SaveStep, SubmitStep, ConsumerStep, ReadStep, FinalizeStep, FaultStep

\* The invariant holds for ever.
LEMMA IInvAlways == Spec => [](TypeOK /\ IInv)
  BY TypeInit, TypeStep, IInvInit, IInvStep, PTL DEF Spec

-----------------------------------------------------------------------------
\* A submit that is reported done has been carried out, and its marks count every
\* answer that must count: FinalizeQueuedSubmitAttempt and runExpiredAttemptSweep by
\* any number of processes at once, with failing commands and crashes.
THEOREM DoneMeansGraded == Spec => []DoneIsGraded
  <1>1. TypeOK /\ IInv => DoneIsGraded
    BY DEF TypeOK, IInv, GradeInv, DoneIsGraded
  <1>2. QED
    BY <1>1, IInvAlways, PTL

\* GetAttemptResult shows no result without an answer that must count, from its cache or
\* from the rows.
THEOREM ResultsAreComplete == Spec => []ResultComplete
  <1>1. TypeOK /\ IInv => ResultComplete
    BY DEF TypeOK, IInv, ResultInv, ResultComplete
  <1>2. QED
    BY <1>1, IInvAlways, PTL

\* Only a process that has read the rows writes marks.
LEMMA MarksStep ==
  ASSUME [Next]_vars
  PROVE  UNCHANGED marks \/ \E p \in Flusher : pc[p] = "marks" /\ marks' = seen[p]
  <1>1. ASSUME NEW p \in Flusher, UpdateAttemptMarks(p) \/ StepFails(p)
        PROVE  UNCHANGED marks \/ (pc[p] = "marks" /\ marks' = seen[p])
    <2>1. CASE UpdateAttemptMarks(p)
      BY <2>1 DEF UpdateAttemptMarks
    <2>2. CASE StepFails(p)
      BY <2>2 DEF StepFails
    <2>3. QED
      BY <1>1, <2>1, <2>2
  <1>2. ASSUME NEW s \in Saver, BeginSave(s) \/ SaveStep(s) PROVE UNCHANGED marks
    BY <1>2 DEF BeginSave, SaveStep, CheckAttempt, CheckSubmitStatus, EnqueueAnswers
  <1>3. ASSUME NEW c \in Client, SubmitRequest(c) \/ SubmitStep(c) \/ EnqueueSubmitFails(c)
        PROVE  UNCHANGED marks
    BY <1>3 DEF SubmitRequest, SubmitStep, ClearStaleStatus, LookupAttempt, MarkQueued,
                SetPostSubmitFlush, EnqueueSubmit, TakeBack, EnqueueSubmitFails
  <1>4. ASSUME NEW k \in Consumer, ConsumerStep(k) PROVE UNCHANGED marks
    BY <1>4 DEF ConsumerStep, TakeMessage, AckAndDelete, GiveUp
  <1>5. ASSUME NEW r \in Reader, ReadRequest(r) \/ ReadStep(r) PROVE UNCHANGED marks
    BY <1>5 DEF ReadRequest, ReadStep, Recheck, LoadResult, ListResultQuestions, StoreResult
  <1>6. ASSUME NEW p \in Flusher, FinalizeStep(p), ~UpdateAttemptMarks(p)
        PROVE  UNCHANGED marks
    BY <1>6 DEF FinalizeStep, AcquireSubmitLock, AcquireSaveLock, LockBusy,
                AllowPostSubmitFlush, NothingToFlush, FlushLockBusy, ClaimAnswers,
                WriteAnswers, WriteIncomplete, WriteRefused, SubmitRow, GradeAnswers,
                InvalidateCaches, ClearSubmitStatus, SetDone, ReturnFinalized
  <1>7. ASSUME NEW p \in Flusher, WriteFails(p) \/ StepIgnored(p) PROVE UNCHANGED marks
    BY <1>7 DEF WriteFails, StepIgnored
  <1>8. ASSUME \/ \E x \in Sweeper : SweepExpired(x)
               \/ \E w \in FlushWorker : PopDirty(w)
               \/ \E p \in Process : Crash(p)
               \/ DeadlinePasses \/ CacheExpires \/ StaleInfoCached \/ OrphansExpire
               \/ UNCHANGED vars
        PROVE  UNCHANGED marks
    BY <1>8 DEF SweepExpired, PopDirty, Crash, DeadlinePasses, CacheExpires,
                StaleInfoCached, OrphansExpire, vars
  <1>9. QED
    BY <1>1, <1>2, <1>3, <1>4, <1>5, <1>6, <1>7, <1>8 DEF Next, FaultStep

\* Until the deadline marks only grow: the submit lock lets one process grade at a time,
\* and the sweep, which does not take it, has not begun.
THEOREM GradesOnlyGrow == Spec => GradeNeverRegresses
  <1>1. TypeOK /\ IInv /\ [Next]_vars => [marks' >= marks \/ expired]_marks
    <2> SUFFICES ASSUME TypeOK, IInv, ~expired,
                        NEW p \in Flusher, pc[p] = "marks", marks' = seen[p]
                 PROVE  marks' >= marks
      BY MarksStep
    <2>1. p \in Finalizer
      BY DEF IInv, PlaceInv
    <2>2. QED
      BY <2>1 DEF TypeOK, IInv, GradeInv
  <1>2. QED
    BY <1>1, IInvAlways, PTL DEF Spec, GradeNeverRegresses

==============================================================================
