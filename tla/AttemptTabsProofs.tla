-------------------------- MODULE AttemptTabsProofs --------------------------
(***************************************************************************)
(* Proofs about AttemptTabs, for any number of tabs and any times with     *)
(* HeartbeatEvery < Ttl.                                                   *)
(***************************************************************************)
EXTENDS AttemptTabs, TLAPS

USE TabsAssumption DEF lockVars, tabVars, Free, Fresh

\* No tab has opened the attempt.
LEMMA TypeInit == Init => TypeOK
  BY DEF Init, TypeOK

\* Every step of a tab, and time, keep the types; one step per action.
LEMMA TypeStep == TypeOK /\ [Next]_vars => TypeOK'
  <1> SUFFICES ASSUME TypeOK, [Next]_vars PROVE TypeOK'
    OBVIOUS
  <1> USE DEF TypeOK
  <1>1. ASSUME NEW t \in Tab, WriteLock(t) PROVE TypeOK'
    BY <1>1 DEF WriteLock
  <1>2. ASSUME NEW t \in Tab, CheckLock(t) PROVE TypeOK'
    BY <1>2 DEF CheckLock, With
  <1>3. ASSUME NEW t \in Tab, Heartbeat(t) PROVE TypeOK'
    BY <1>3 DEF Heartbeat, Sync, ReadLock, With
  <1>4. ASSUME NEW t \in Tab, StorageEvent(t) PROVE TypeOK'
    BY <1>4 DEF StorageEvent, Sync, ReadLock, With
  <1>5. ASSUME NEW t \in Tab, Mount(t) PROVE TypeOK'
    BY <1>5 DEF Mount, ReadLock
  <1>6. ASSUME NEW t \in Tab, Close(t) PROVE TypeOK'
    BY <1>6 DEF Close, Leave, Drop
  <1>7. ASSUME NEW t \in Tab, Crash(t) PROVE TypeOK'
    BY <1>7 DEF Crash, Drop
  <1>8. ASSUME NEW t \in Tab, Submit(t) PROVE TypeOK'
    BY <1>8 DEF Submit
  <1>9. ASSUME NEW t \in Tab, SubmitSucceeds(t) PROVE TypeOK'
    BY <1>9 DEF SubmitSucceeds, Leave, Drop
  <1>10. ASSUME NEW t \in Tab, SubmitFails(t) PROVE TypeOK'
    BY <1>10 DEF SubmitFails
  <1>11. ASSUME NEW t \in Tab \cup {Nobody}, Turn(t) PROVE TypeOK'
    BY <1>11 DEF Turn
  <1>12. ASSUME Tick PROVE TypeOK'
    BY <1>12 DEF Tick
  <1>13. ASSUME UNCHANGED vars PROVE TypeOK'
    BY <1>13 DEF vars
  <1>14. QED
    BY <1>1, <1>2, <1>3, <1>4, <1>5, <1>6, <1>7, <1>8, <1>9, <1>10, <1>11, <1>12,
       <1>13 DEF Next

\* However tabs open, leave, crash and submit, a page that is not shown has no state.
THEOREM TypeCorrect == Spec => []TypeOK
  BY TypeInit, TypeStep, PTL DEF Spec

-----------------------------------------------------------------------------
(***************************************************************************)
(* The lock. LockRespected speaks of tabs that do not submit; a submit     *)
(* that fails makes a tab one of them, so what it has missed has to be     *)
(* known of a tab that submits as well.                                    *)
(***************************************************************************)
Told ==
  \A t \in mounted \ blocked :
    acquiring[t] = "no" => lock.tab = t \/ ~Fresh \/ t \in event \cup deaf

\* Nobody works when nothing is open.
LEMMA ToldInit == Init => Told
  BY DEF Init, Told

\* A tab that takes the lock sends the event in the same step, and one that drops an
\* event during a submit is deaf until its next look at the lock.
LEMMA ToldStep == TypeOK /\ Told /\ [Next]_vars => Told'
  <1> SUFFICES ASSUME TypeOK, Told, [Next]_vars PROVE Told'
    OBVIOUS
  <1> USE DEF TypeOK, Told
  <1>1. ASSUME NEW t \in Tab, WriteLock(t) PROVE Told'
    BY <1>1 DEF WriteLock
  <1>2. ASSUME NEW t \in Tab, CheckLock(t) PROVE Told'
    BY <1>2 DEF CheckLock, With
  <1>3. ASSUME NEW t \in Tab, Heartbeat(t) PROVE Told'
    BY <1>3 DEF Heartbeat, Sync, ReadLock, With
  <1>4. ASSUME NEW t \in Tab, StorageEvent(t) PROVE Told'
    BY <1>4 DEF StorageEvent, Sync, ReadLock, With
  <1>5. ASSUME NEW t \in Tab, Mount(t) PROVE Told'
    BY <1>5 DEF Mount, ReadLock
  <1>6. ASSUME NEW t \in Tab, Close(t) PROVE Told'
    BY <1>6 DEF Close, Leave, Drop
  <1>7. ASSUME NEW t \in Tab, Crash(t) PROVE Told'
    BY <1>7 DEF Crash, Drop
  <1>8. ASSUME NEW t \in Tab, Submit(t) PROVE Told'
    BY <1>8 DEF Submit
  <1>9. ASSUME NEW t \in Tab, SubmitSucceeds(t) PROVE Told'
    BY <1>9 DEF SubmitSucceeds, Leave, Drop
  <1>10. ASSUME NEW t \in Tab, SubmitFails(t) PROVE Told'
    BY <1>10 DEF SubmitFails
  <1>11. ASSUME NEW t \in Tab \cup {Nobody}, Turn(t) PROVE Told'
    BY <1>11 DEF Turn
  <1>12. ASSUME Tick PROVE Told'
    BY <1>12 DEF Tick
  <1>13. ASSUME UNCHANGED vars PROVE Told'
    BY <1>13 DEF vars
  <1>14. QED
    BY <1>1, <1>2, <1>3, <1>4, <1>5, <1>6, <1>7, <1>8, <1>9, <1>10, <1>11, <1>12,
       <1>13 DEF Next

\* No tab works for long beside the holder of the lock: acquireAttemptTabLock of any
\* number of tabs, step by step, with crashes and submits.
THEOREM LockIsRespected == Spec => []LockRespected
  <1>1. Told => LockRespected
    BY DEF Told, LockRespected
  <1>2. QED
    BY <1>1, TypeInit, TypeStep, ToldInit, ToldStep, PTL DEF Spec

-----------------------------------------------------------------------------
(***************************************************************************)
(* Its age. Between two heartbeats the lock is as old as the time since    *)
(* the last one; while a tab acquires it no time passes.                   *)
(***************************************************************************)
InTime ==
  \A t \in mounted \ deaf :
    lock.tab = t =>
      /\ acquiring[t] = "no" /\ beat[t] > 0 => lock.age + beat[t] <= HeartbeatEvery
      /\ acquiring[t] = "check" => lock.age = 0

\* A page that is not shown does not hold the lock.
HolderMounted == lock.tab \in mounted \cup {Nobody, Gone}

\* The lock is free at first.
LEMMA InTimeInit == Init => InTime /\ HolderMounted
  BY DEF Init, InTime, HolderMounted

\* A heartbeat comes every HeartbeatEvery and makes the lock new.
LEMMA InTimeStep ==
  TypeOK /\ InTime /\ HolderMounted /\ [Next]_vars => InTime' /\ HolderMounted'
  <1> SUFFICES ASSUME TypeOK, InTime, HolderMounted, [Next]_vars PROVE InTime' /\ HolderMounted'
    OBVIOUS
  <1> USE DEF TypeOK, InTime, HolderMounted
  <1>1. ASSUME NEW t \in Tab, WriteLock(t) PROVE InTime' /\ HolderMounted'
    BY <1>1 DEF WriteLock
  <1>2. ASSUME NEW t \in Tab, CheckLock(t) PROVE InTime' /\ HolderMounted'
    BY <1>2 DEF CheckLock, With
  <1>3. ASSUME NEW t \in Tab, Heartbeat(t) PROVE InTime' /\ HolderMounted'
    BY <1>3 DEF Heartbeat, Sync, ReadLock, With
  <1>4. ASSUME NEW t \in Tab, StorageEvent(t) PROVE InTime' /\ HolderMounted'
    BY <1>4 DEF StorageEvent, Sync, ReadLock, With
  <1>5. ASSUME NEW t \in Tab, Mount(t) PROVE InTime' /\ HolderMounted'
    BY <1>5 DEF Mount, ReadLock
  <1>6. ASSUME NEW t \in Tab, Close(t) PROVE InTime' /\ HolderMounted'
    BY <1>6 DEF Close, Leave, Drop
  <1>7. ASSUME NEW t \in Tab, Crash(t) PROVE InTime' /\ HolderMounted'
    BY <1>7 DEF Crash, Drop
  <1>8. ASSUME NEW t \in Tab, Submit(t) PROVE InTime' /\ HolderMounted'
    BY <1>8 DEF Submit
  <1>9. ASSUME NEW t \in Tab, SubmitSucceeds(t) PROVE InTime' /\ HolderMounted'
    BY <1>9 DEF SubmitSucceeds, Leave, Drop
  <1>10. ASSUME NEW t \in Tab, SubmitFails(t) PROVE InTime' /\ HolderMounted'
    BY <1>10 DEF SubmitFails
  <1>11. ASSUME NEW t \in Tab \cup {Nobody}, Turn(t) PROVE InTime' /\ HolderMounted'
    BY <1>11 DEF Turn
  <1>12. ASSUME Tick PROVE InTime' /\ HolderMounted'
    BY <1>12 DEF Tick
  <1>13. ASSUME UNCHANGED vars PROVE InTime' /\ HolderMounted'
    BY <1>13 DEF vars
  <1>14. QED
    BY <1>1, <1>2, <1>3, <1>4, <1>5, <1>6, <1>7, <1>8, <1>9, <1>10, <1>11, <1>12,
       <1>13 DEF Next

\* The lock of a tab in front is taken over only if the tab has missed its heartbeat
\* in a submit: ATTEMPT_TAB_LOCK_HEARTBEAT_MS is below ATTEMPT_TAB_LOCK_TTL_MS.
THEOREM HolderIsFresh == Spec => []HolderStaysFresh
  <1>1. TypeOK /\ InTime => HolderStaysFresh
    BY DEF TypeOK, InTime, HolderStaysFresh
  <1>2. QED
    BY <1>1, TypeInit, TypeStep, InTimeInit, InTimeStep, PTL DEF Spec

=============================================================================
