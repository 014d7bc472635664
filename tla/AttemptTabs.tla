----------------------------- MODULE AttemptTabs -----------------------------
(***************************************************************************)
(* One attempt open in several tabs of a browser                           *)
(* (frontend/app/attempts/[id]/page.tsx): the lock in localStorage that    *)
(* lets one tab work, with its time to live, its heartbeat and the storage *)
(* events by which the tabs hear of each other. What happens within a tab  *)
(* is in AttemptPage and AttemptGuards.                                    *)
(*                                                                         *)
(* Time passes in ticks. The timers of the tab in front are on time, those *)
(* of the others are throttled by the browser as it likes.                 *)
(***************************************************************************)
EXTENDS Integers, FiniteSets

CONSTANTS
  Tab,               \* the tabs of the browser
  Nobody,            \* in the place of a tab: none of them
  Gone,              \* the id of a page that has crashed: a new page has a new id
  Ttl,               \* ATTEMPT_TAB_LOCK_TTL_MS
  HeartbeatEvery,    \* ATTEMPT_TAB_LOCK_HEARTBEAT_MS
  MaxMounts          \* bounds the times a tab opens the attempt

ASSUME TabsAssumption ==
  /\ Nobody \notin Tab /\ Gone \notin Tab /\ Nobody # Gone
  /\ HeartbeatEvery \in Nat \ {0} /\ Ttl \in Nat /\ HeartbeatEvery < Ttl
  /\ MaxMounts \in Nat

VARIABLES
  lock,        \* localStorage: whose the lock is and how old, capped at Ttl
  mounted,     \* the tabs that show the attempt
  blocked,     \* the tabs with isTabBlocked
  acquiring,   \* where a tab is in acquireAttemptTabLock
  event,       \* the tabs a storage event is under way to
  beat,        \* time until the heartbeat of the tab is due
  submitting,  \* the tabs whose submitState is "submitting"
  deaf,        \* history: the tabs whose last look at the lock fell into a submit
  front,       \* the tab in front, or Nobody
  mounts       \* times a tab has opened the attempt

lockVars == <<lock, blocked, acquiring, event, beat, deaf>>
tabVars == <<mounted, submitting, front, mounts>>
vars == <<lockVars, tabVars>>

-----------------------------------------------------------------------------
Free == [tab |-> Nobody, age |-> 0]

\* isAttemptTabLockFresh
Fresh == lock # Free /\ lock.age < Ttl

With(S, t, in) == IF in THEN S \cup {t} ELSE S \ {t}

Init ==
  /\ lock = Free /\ mounted = {} /\ blocked = {}
  /\ acquiring = [t \in Tab |-> "no"]
  /\ event = {} /\ deaf = {} /\ submitting = {}
  /\ beat = [t \in Tab |-> 0]
  /\ front = Nobody /\ mounts = 0

-----------------------------------------------------------------------------
(***************************************************************************)
(* acquireAttemptTabLock reads the lock, writes it and reads it again; the *)
(* tabs are processes, and another one can come between.                   *)
(***************************************************************************)
\* Mutant of ReadLock: a lock is respected however old it is.
ReadAnyLock(t) ==
  IF lock.tab \in (Tab \cup {Gone}) \ {t}
  THEN blocked' = blocked \cup {t} /\ UNCHANGED acquiring
  ELSE acquiring' = [acquiring EXCEPT ![t] = "write"] /\ UNCHANGED blocked

ReadLock(t) ==
  IF Fresh /\ lock.tab # t
  THEN blocked' = blocked \cup {t} /\ UNCHANGED acquiring
  ELSE acquiring' = [acquiring EXCEPT ![t] = "write"] /\ UNCHANGED blocked

\* Mutant of WriteLock: no storage event reaches the others.
WriteLockSilently(t) ==
  /\ acquiring[t] = "write"
  /\ lock' = [tab |-> t, age |-> 0]
  /\ acquiring' = [acquiring EXCEPT ![t] = "check"]
  /\ UNCHANGED <<blocked, event, beat, deaf, tabVars>>

\* setItem: the other pages of the site get a storage event.
WriteLock(t) ==
  /\ acquiring[t] = "write"
  /\ lock' = [tab |-> t, age |-> 0]
  /\ event' = event \cup (mounted \ {t})
  /\ acquiring' = [acquiring EXCEPT ![t] = "check"]
  /\ UNCHANGED <<blocked, beat, deaf, tabVars>>

CheckLock(t) ==
  /\ acquiring[t] = "check"
  /\ acquiring' = [acquiring EXCEPT ![t] = "no"]
  /\ blocked' = With(blocked, t, lock.tab # t)
  /\ UNCHANGED <<lock, event, beat, deaf, tabVars>>

\* trySyncAttemptTabLock does nothing during a submit.
Sync(t) ==
  /\ deaf' = With(deaf, t, t \in submitting)
  /\ IF t \in submitting THEN UNCHANGED <<blocked, acquiring>> ELSE ReadLock(t)

\* Mutant of Heartbeat: only a blocked tab looks at the lock again.
HeartbeatBlockedOnly(t) ==
  /\ t \in mounted /\ beat[t] = 0 /\ acquiring[t] = "no"
  /\ beat' = [beat EXCEPT ![t] = HeartbeatEvery]
  /\ IF t \in blocked THEN Sync(t) ELSE UNCHANGED <<deaf, blocked, acquiring>>
  /\ UNCHANGED <<lock, event, tabVars>>

Heartbeat(t) ==
  /\ t \in mounted /\ beat[t] = 0 /\ acquiring[t] = "no"
  /\ beat' = [beat EXCEPT ![t] = HeartbeatEvery]
  /\ Sync(t)
  /\ UNCHANGED <<lock, event, tabVars>>

StorageEvent(t) ==
  /\ t \in event /\ acquiring[t] = "no"
  /\ event' = event \ {t}
  /\ Sync(t)
  /\ UNCHANGED <<lock, beat, tabVars>>

-----------------------------------------------------------------------------
(***************************************************************************)
(* Opening and leaving the attempt, and submitting it.                     *)
(***************************************************************************)
\* The candidate turns to a tab or elsewhere.
Turn(t) ==
  /\ front # t /\ front' = t
  /\ UNCHANGED <<lockVars, mounted, submitting, mounts>>

\* The page starts unblocked and takes the lock in its first effect.
Mount(t) ==
  /\ t \notin mounted /\ front = t /\ mounts < MaxMounts
  /\ mounts' = mounts + 1
  /\ mounted' = mounted \cup {t}
  /\ beat' = [beat EXCEPT ![t] = HeartbeatEvery]
  /\ ReadLock(t)
  /\ UNCHANGED <<lock, event, deaf, submitting, front>>

\* The state of the page goes with it.
Drop(t) ==
  /\ mounted' = mounted \ {t}
  /\ blocked' = blocked \ {t}
  /\ submitting' = submitting \ {t}
  /\ deaf' = deaf \ {t}
  /\ acquiring' = [acquiring EXCEPT ![t] = "no"]
  /\ beat' = [beat EXCEPT ![t] = 0]
  /\ UNCHANGED <<front, mounts>>

\* Mutant of Leave: the leaving page is told of its own release.
LeaveTellsAll(t) ==
  /\ Drop(t)
  /\ lock' = IF lock.tab = t THEN Free ELSE lock
  /\ event' = IF lock.tab = t THEN event \cup mounted ELSE event \ {t}

\* releaseAttemptTabLock, when the page is hidden for good or unmounted.
Leave(t) ==
  /\ Drop(t)
  /\ lock' = IF lock.tab = t THEN Free ELSE lock
  /\ event' = (IF lock.tab = t THEN event \cup mounted ELSE event) \ {t}

Close(t) == t \in mounted /\ acquiring[t] = "no" /\ Leave(t)

\* The tab crashes, or the browser discards it: no handler runs.
Crash(t) ==
  /\ t \in mounted /\ Drop(t)
  /\ event' = event \ {t}
  /\ lock' = IF lock.tab = t THEN [lock EXCEPT !.tab = Gone] ELSE lock

\* handleSubmit, of the candidate or of a guard.
Submit(t) ==
  /\ t \in mounted \ (submitting \cup blocked)
  /\ submitting' = submitting \cup {t}
  /\ UNCHANGED <<lockVars, mounted, front, mounts>>

\* The router replaces the page.
SubmitSucceeds(t) == t \in submitting /\ acquiring[t] = "no" /\ Leave(t)

SubmitFails(t) ==
  /\ t \in submitting
  /\ submitting' = submitting \ {t}
  /\ UNCHANGED <<lockVars, mounted, front, mounts>>

-----------------------------------------------------------------------------
\* Time passes; the tab in front has run its heartbeat.
Tick ==
  /\ \A t \in Tab : acquiring[t] = "no"
  /\ front \in mounted => beat[front] > 0
  /\ lock' = IF Fresh THEN [lock EXCEPT !.age = @ + 1] ELSE lock
  /\ beat' = [t \in Tab |-> IF beat[t] > 0 THEN beat[t] - 1 ELSE 0]
  /\ UNCHANGED <<blocked, acquiring, event, deaf, tabVars>>

Next ==
  \/ \E t \in Tab :
       \/ WriteLock(t) \/ CheckLock(t) \/ Heartbeat(t) \/ StorageEvent(t)
       \/ Mount(t) \/ Close(t) \/ Crash(t)
       \/ Submit(t) \/ SubmitSucceeds(t) \/ SubmitFails(t)
  \/ \E t \in Tab \cup {Nobody} : Turn(t)
  \/ Tick

Spec == Init /\ [][Next]_vars

\* Code that runs goes on, timers and events come, requests are answered.
Fairness ==
  /\ WF_vars(Tick)
  /\ \A t \in Tab :
       /\ WF_vars(WriteLock(t)) /\ WF_vars(CheckLock(t))
       /\ WF_vars(Heartbeat(t)) /\ WF_vars(StorageEvent(t))
       /\ WF_vars(SubmitSucceeds(t) \/ SubmitFails(t))

FairSpec == Spec /\ Fairness

-----------------------------------------------------------------------------
(***************************************************************************)
(* Properties.                                                             *)
(***************************************************************************)
\* What the variables hold; a page that is not shown has no state.
TypeOK ==
  /\ lock \in [tab : Tab \cup {Nobody, Gone}, age : 0 .. Ttl]
  /\ mounted \subseteq Tab /\ front \in Tab \cup {Nobody}
  /\ blocked \subseteq mounted /\ event \subseteq mounted
  /\ deaf \subseteq mounted /\ submitting \subseteq mounted
  /\ acquiring \in [Tab -> {"no", "write", "check"}]
  /\ \A t \in Tab \ mounted : acquiring[t] = "no"
  /\ beat \in [Tab -> 0 .. HeartbeatEvery]
  /\ mounts \in 0 .. MaxMounts

\* A tab that works while another one holds the lock is about to be told: a
\* storage event is on its way, or it has missed one during a submit that failed
\* and its own heartbeat follows.
LockRespected ==
  \A t \in mounted \ (blocked \cup submitting) :
    acquiring[t] = "no" => lock.tab = t \/ ~Fresh \/ t \in event \cup deaf

\* The tab in front does not lose the lock by its age: its heartbeat comes in
\* time, with the same exception.
HolderStaysFresh ==
  front \in mounted \ submitting /\ lock.tab = front =>
    Fresh \/ front \in deaf \/ beat[front] = 0 \/ acquiring[front] # "no"

\* A tab that is alone gets to work, although a crashed one left its lock behind.
LoneTabWorks ==
  \A t \in Tab : mounted = {t} /\ t \in blocked ~> mounted # {t} \/ t \notin blocked

=============================================================================
