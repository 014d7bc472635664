------------------------- MODULE AttemptPageProofs -------------------------
(***************************************************************************)
(* Proofs about AttemptPage, for any questions, texts, saves and submits   *)
(* under way and any bounds.                                               *)
(***************************************************************************)
EXTENDS AttemptPage, TLAPS

USE DEF Saver, Nothing, Answers, Step, Given, Goto, formVars, timerVars, viewVars,
        saverVars, serverVars, netVars, historyVars

-----------------------------------------------------------------------------
(***************************************************************************)
(* Type correctness.                                                       *)
(***************************************************************************)
\* The page as it is first loaded is well typed.
LEMMA TypeInit == Init => TypeOK
  <1> SUFFICES ASSUME Init PROVE TypeOK
    OBVIOUS
  <1> USE PageAssumption DEF Init
  <1>1. text \in Seq(Text) /\ Len(text) = 0
    OBVIOUS
  <1>2. Nothing \in Answers
    BY <1>1
  <1>3. /\ pending \in [Saver -> Answers] /\ goal \in [Saver -> Answers]
        /\ pc \in [Saver -> Step]
        /\ todo \in [Saver -> SUBSET Question] /\ chunk \in [Saver -> SUBSET Question]
    BY <1>2
  <1>4. \A p \in Saver : todo[p] \cup chunk[p] \subseteq Given(pending[p])
    OBVIOUS
  <1>5. /\ saveTimer \in BOOLEAN /\ retryTimer \in BOOLEAN /\ resyncTimer \in BOOLEAN
        /\ blocked \in BOOLEAN /\ timeUp \in BOOLEAN
        /\ open \in BOOLEAN /\ expired \in BOOLEAN
    BY Zenon
  <1>6. \A p \in Saver : pc[p] = "idle" => pending[p] = Nothing
    OBVIOUS
  <1>7. /\ text \in Seq(Text) /\ Len(text) <= MaxEdits
        /\ faults \in 0 .. MaxFaults
    BY <1>1
  <1>8. QED
    BY <1>2, <1>3, <1>4, <1>5, <1>6, <1>7 DEF TypeOK

\* What a request takes from qs leaves snapshot and parts in order.
LEMMA SendTypes ==
  ASSUME TypeOK, NEW p \in Saver, NEW qs \in SUBSET Question, Send(p, qs)
  PROVE  /\ chunk' \in [Saver -> SUBSET Question]
         /\ todo' \in [Saver -> SUBSET Question]
         /\ pc' \in [Saver -> Step]
         /\ pc'[p] = "save"
         /\ todo'[p] \cup chunk'[p] = qs
         /\ \A s \in Saver \ {p} :
              chunk'[s] = chunk[s] /\ todo'[s] = todo[s] /\ pc'[s] = pc[s]
  BY DEF Send, TypeOK

\* A save that begins has all of its snapshot before it.
LEMMA BeginSaveTypes ==
  ASSUME TypeOK, NEW p \in Saver, NEW snapshot \in Answers, BeginSave(p, snapshot)
  PROVE  /\ chunk' \in [Saver -> SUBSET Question]
         /\ todo' \in [Saver -> SUBSET Question]
         /\ pc' \in [Saver -> Step]
         /\ pending' \in [Saver -> Answers]
         /\ saving' \in SUBSET Question /\ retrying' \in SUBSET Question
         /\ \A s \in Saver : /\ todo'[s] \cup chunk'[s] \subseteq Given(pending'[s])
                             /\ pc'[s] = "idle" => pending'[s] = Nothing
  <1> USE DEF BeginSave
  <1>1. Given(snapshot) \in SUBSET Question /\ Send(p, Given(snapshot))
    OBVIOUS
  <1>2. pending' = [pending EXCEPT ![p] = snapshot]
    OBVIOUS
  <1>3. /\ pending' \in [Saver -> Answers]
        /\ pending'[p] = snapshot /\ \A s \in Saver \ {p} : pending'[s] = pending[s]
    BY <1>2 DEF TypeOK
  <1>4. saving' \in SUBSET Question /\ retrying' \in SUBSET Question
    BY DEF TypeOK
  <1>5. /\ chunk' \in [Saver -> SUBSET Question] /\ todo' \in [Saver -> SUBSET Question]
        /\ pc' \in [Saver -> Step] /\ pc'[p] = "save"
        /\ todo'[p] \cup chunk'[p] = Given(snapshot)
        /\ \A s \in Saver \ {p} :
             chunk'[s] = chunk[s] /\ todo'[s] = todo[s] /\ pc'[s] = pc[s]
    BY <1>1, SendTypes
  <1>6. \A s \in Saver : /\ todo'[s] \cup chunk'[s] \subseteq Given(pending'[s])
                         /\ pc'[s] = "idle" => pending'[s] = Nothing
    <2> TAKE s \in Saver
    <2>1. CASE s = p
      BY <2>1, <1>3, <1>5
    <2>2. CASE s # p
      BY <2>2, <1>3, <1>5 DEF TypeOK
    <2>3. QED
      BY <2>1, <2>2
  <1>7. QED
    BY <1>3, <1>4, <1>5, <1>6

\* What belongs to the saves is in order.
SaverTypes ==
  /\ pc \in [Saver -> Step]
  /\ pending \in [Saver -> Answers] /\ goal \in [Saver -> Answers]
  /\ todo \in [Saver -> SUBSET Question] /\ chunk \in [Saver -> SUBSET Question]
  /\ \A p \in Saver : /\ todo[p] \cup chunk[p] \subseteq Given(pending[p])
                      /\ pc[p] = "idle" => pending[p] = Nothing

\* It stays in order when a save is over,
LEMMA FinishTypes ==
  ASSUME TypeOK, NEW p \in Saver, Finish(p), text' = text
  PROVE  SaverTypes'
  BY DEF TypeOK, Finish, SaverTypes

\* when a save waits for something else,
LEMMA GotoTypes ==
  ASSUME TypeOK, NEW p \in Saver, NEW l \in Step \ {"idle"}, Goto(p, l),
         UNCHANGED <<pending, todo, chunk, goal, text>>
  PROVE  SaverTypes'
  BY DEF TypeOK, SaverTypes

\* and when nothing about it changes.
LEMMA SameSaverTypes ==
  ASSUME TypeOK, UNCHANGED <<saverVars, text>>
  PROVE  SaverTypes'
  BY DEF TypeOK, SaverTypes

\* handleSaveSuccess sets answers that were sent, and forgets others.
LEMMA MarkSavedTypes ==
  ASSUME TypeOK, NEW p \in Saver, MarkSaved(p)
  PROVE  /\ UNCHANGED <<text, answers>>
         /\ saved' \in Answers /\ dirty' \in Answers
         /\ failed' \subseteq Question /\ saving' \subseteq Question
         /\ retrying' \subseteq Question /\ crossed' \subseteq Question
  <1>1. pending[p] \in Answers
    BY DEF TypeOK
  <1>2. QED
    BY <1>1 DEF TypeOK, MarkSaved, ClearFeedback

\* The server keeps answers that were sent.
LEMMA StoreTypes ==
  ASSUME TypeOK, NEW f \in Answers, StoreAnswers(f)
  PROVE  /\ store' \in Answers
         /\ crossed' \subseteq Question /\ swallowed' \subseteq Question
  <1>1. \A q \in Question : Later(store[q], f[q]) \in 0 .. Len(text)
    BY DEF TypeOK, Later
  <1>2. CASE AnswerFromCache(f)
    <2>1. /\ swallowed' = swallowed \cup {q \in Given(f) : ~Same(store[q], f[q])}
          /\ store' = [q \in Question |->
               IF Same(store[q], f[q]) THEN Later(store[q], f[q]) ELSE store[q]]
          /\ crossed' = crossed
      BY <1>2 DEF AnswerFromCache
    <2>2. QED
      BY <1>1, <2>1 DEF TypeOK
  <1>3. CASE Store(f)
    <2>1. /\ store' = [q \in Question |->
               IF f[q] = 0 THEN store[q]
               ELSE IF Same(store[q], f[q]) THEN Later(store[q], f[q]) ELSE f[q]]
          /\ crossed' = crossed \cup
               {q \in Given(f) : f[q] < store[q] /\ ~Same(f[q], store[q])}
          /\ swallowed' = swallowed
      BY <1>3 DEF Store
    <2>2. QED
      BY <1>1, <2>1 DEF TypeOK
  <1>4. QED
    BY <1>2, <1>3 DEF StoreAnswers

\* A request carries answers of its save.
LEMMA RequestTypes ==
  ASSUME TypeOK, NEW p \in Saver
  PROVE  Request(p) \in Answers
  <1>1. pending[p] \in Answers
    BY DEF TypeOK
  <1>2. QED
    BY <1>1 DEF Request

\* A submit saves, and has to carry, what is shown or dirty.
LEMMA SnapshotTypes == TypeOK => SubmitSnapshot \in Answers /\ Goal \in Answers
  BY DEF TypeOK, SubmitSnapshot, Goal

\* A submit that begins touches the saves and its own state alone.
LEMMA BeginSubmitTypes ==
  ASSUME TypeOK, NEW s \in Flow, BeginSubmit(s)
  PROVE  /\ SaverTypes'
         /\ saving' \in SUBSET Question /\ retrying' \in SUBSET Question
         /\ submitState' = "submitting" /\ saveTimer' = FALSE /\ retryTimer' = FALSE
         /\ UNCHANGED <<text, answers, dirty, saved, failed, rendered, page, serverVars,
                        netVars, historyVars>>
  <1> USE DEF BeginSubmit
  <1>1. s \in Saver /\ UNCHANGED text
    OBVIOUS
  <1>2. goal' \in [Saver -> Answers]'
    <2>1. Goal \in Answers /\ goal \in [Saver -> Answers]
      BY SnapshotTypes DEF TypeOK
    <2>2. goal' = [goal EXCEPT ![s] = Goal]
      OBVIOUS
    <2>3. QED
      BY <2>1, <2>2, <1>1
  <1>3. CASE Given(SubmitSnapshot) = {}
    <2>1. Goto(s, "submit") /\ UNCHANGED <<pending, todo, chunk, saving, retrying>>
      BY <1>3
    <2>2. QED
      BY <1>1, <1>2, <2>1 DEF TypeOK, SaverTypes
  <1>4. CASE Given(SubmitSnapshot) # {}
    <2>1. BeginSave(s, SubmitSnapshot)
      BY <1>4
    <2>2. QED
      BY <1>1, <1>2, <2>1, SnapshotTypes, BeginSaveTypes DEF SaverTypes
  <1>5. QED
    BY <1>3, <1>4


\* Every step of the candidate, of the page, its timers and replies, of the
\* server and the network keeps the types; one step per action.
LEMMA TypeStep == TypeOK /\ [Next]_vars => TypeOK'
  <1> SUFFICES ASSUME TypeOK, [Next]_vars PROVE TypeOK'
    OBVIOUS
  <1> USE PageAssumption
  <1>1. ASSUME NEW q \in Question, NEW v \in Text, Answer(q, v) PROVE TypeOK'
    <2>1. /\ Len(text) + 1 <= MaxEdits
          /\ text' = Append(text, v)
          /\ saved' = [saved EXCEPT ![q] = 0]
          /\ UNCHANGED <<saverVars, serverVars, netVars, historyVars>>
      BY <1>1 DEF Answer, TypeOK
    <2>2. /\ text' \in Seq(Text) /\ Len(text') = Len(text) + 1 /\ Len(text) \in Nat
      BY <2>1 DEF TypeOK
    <2>3. Answers \subseteq Answers'
      BY <2>2
    <2>4. answers' \in Answers' /\ dirty' \in Answers' /\ saved' \in Answers'
      <3>1. answers \in Answers' /\ dirty \in Answers' /\ saved \in Answers'
        BY <2>3 DEF TypeOK
      <3>2. PICK n \in 0 .. Len(text') :
              answers' = [answers EXCEPT ![q] = n] /\ dirty' = [dirty EXCEPT ![q] = n]
        <4>1. answers[q] \in 0 .. Len(text') /\ Len(text) + 1 \in 0 .. Len(text')
          BY <2>2, <3>1
        <4>2. QED
          BY <1>1, <4>1 DEF Answer
      <3>3. 0 \in 0 .. Len(text')
        BY <2>2
      <3>4. QED
        BY <2>1, <3>1, <3>2, <3>3
    <2>5. /\ store' \in Answers' /\ rows' \in Answers' /\ late' \subseteq Answers'
          /\ pending' \in [Saver -> Answers]' /\ goal' \in [Saver -> Answers]'
      BY <2>1, <2>3 DEF TypeOK
    <2>6. SaverTypes'
      BY <2>1, <2>5 DEF TypeOK, SaverTypes
    <2>7. /\ failed' \subseteq Question /\ saving' \subseteq Question
          /\ retrying' \subseteq Question
      BY <1>1 DEF TypeOK, Answer, ClearFeedback
    <2>8. saveTimer' \in BOOLEAN /\ retryTimer' \in BOOLEAN
      BY <1>1 DEF Answer, Rearm
    <2>9. UNCHANGED <<resyncTimer, viewVars>>
      BY <1>1 DEF Answer
    <2>10. QED
      BY <2>1, <2>2, <2>4, <2>5, <2>6, <2>7, <2>8, <2>9 DEF TypeOK, SaverTypes
  <1>2. ASSUME Render PROVE TypeOK'
    BY <1>2, SameSaverTypes DEF TypeOK, SaverTypes, Render
  <1>3. ASSUME AutosaveSkipped PROVE TypeOK'
    BY <1>3, SameSaverTypes DEF TypeOK, SaverTypes, AutosaveSkipped
  <1>4. ASSUME RetryFires PROVE TypeOK'
    BY <1>4, SameSaverTypes DEF TypeOK, SaverTypes, RetryFires
  <1>5. ASSUME NEW p \in Autosave, AutosaveFires(p) PROVE TypeOK'
    <2>1. p \in Saver /\ dirty \in Answers /\ BeginSave(p, dirty)
      BY <1>5 DEF TypeOK, AutosaveFires
    <2>2. QED
      BY <1>5, <2>1, BeginSaveTypes DEF TypeOK, AutosaveFires
  <1>6. ASSUME NEW p \in Saver, ChunkSaved(p) PROVE TypeOK'
    <2>1. todo[p] \in SUBSET Question /\ Send(p, todo[p])
      BY <1>6 DEF TypeOK, ChunkSaved
    <2>2. UNCHANGED <<text, pending, goal>>
      BY <1>6 DEF ChunkSaved
    <2>3. \A s \in Saver : /\ todo'[s] \cup chunk'[s] \subseteq Given(pending'[s])
                           /\ pc'[s] = "idle" => pending'[s] = Nothing
      <3>1. /\ pc'[p] = "save" /\ todo'[p] \cup chunk'[p] = todo[p]
            /\ \A s \in Saver \ {p} :
                 chunk'[s] = chunk[s] /\ todo'[s] = todo[s] /\ pc'[s] = pc[s]
        BY <2>1, SendTypes
      <3>2. \A s \in Saver : /\ todo[s] \cup chunk[s] \subseteq Given(pending[s])
                             /\ pc[s] = "idle" => pending[s] = Nothing
        BY DEF TypeOK
      <3>3. QED
        BY <2>2, <3>1, <3>2
    <2>4. QED
      BY <1>6, <2>1, <2>3, SendTypes DEF TypeOK, ChunkSaved
  <1>7. ASSUME NEW p \in Saver, AutosaveSucceeds(p) PROVE TypeOK'
    BY <1>7, FinishTypes, MarkSavedTypes DEF TypeOK, SaverTypes, AutosaveSucceeds, Rearm
  <1>8. ASSUME NEW p \in Saver, SaveRefused(p) PROVE TypeOK'
    <2>1. SaverTypes' /\ UNCHANGED text
      BY <1>8, FinishTypes DEF SaveRefused, MarkRefused
    <2>2. /\ failed' \subseteq Question /\ saving' \subseteq Question
          /\ retrying' \subseteq Question /\ dirty' \in Answers
      BY <1>8 DEF TypeOK, SaveRefused, MarkRefused
    <2>3. submitState' \in {"idle", "submitting"} /\ saveTimer' \in BOOLEAN
      BY <1>8 DEF TypeOK, SaveRefused, Rearm
    <2>4. QED
      BY <1>8, <2>1, <2>2, <2>3 DEF TypeOK, SaverTypes, SaveRefused, MarkRefused
  <1>9. ASSUME NEW p \in Saver, SaveFailed(p) PROVE TypeOK'
    <2>1. SaverTypes' /\ UNCHANGED text
      BY <1>9, FinishTypes DEF SaveFailed
    <2>2. /\ saving' \subseteq Question /\ retrying' \subseteq Question
          /\ submitState' \in {"idle", "submitting"} /\ retryTimer' = TRUE
      BY <1>9 DEF TypeOK, SaveFailed
    <2>3. QED
      BY <1>9, <2>1, <2>2 DEF TypeOK, SaverTypes, SaveFailed
  <1>10. ASSUME NEW s \in Flow, Submit(s) PROVE TypeOK'
    BY <1>10, BeginSubmitTypes DEF TypeOK, SaverTypes, Submit
  <1>11. ASSUME NEW p \in Saver, SubmitSaved(p) PROVE TypeOK'
    <2>1. /\ p \in Flow /\ todo[p] = {} /\ Goto(p, "submit")
          /\ pending' = [pending EXCEPT ![p] = Nothing]
          /\ chunk' = [chunk EXCEPT ![p] = {}]
          /\ UNCHANGED <<todo, goal, text>>
      BY <1>11 DEF SubmitSaved, MarkSaved
    <2>2. SaverTypes'
      <3>1. SaverTypes
        BY DEF TypeOK, SaverTypes
      <3>2. /\ pc' \in [Saver -> Step] /\ pending' \in [Saver -> Answers]
            /\ goal' \in [Saver -> Answers] /\ todo' \in [Saver -> SUBSET Question]
            /\ chunk' \in [Saver -> SUBSET Question]
        BY <2>1, <3>1, 0 \in 0 .. Len(text) DEF SaverTypes
      <3>3. \A s \in Saver : /\ todo'[s] \cup chunk'[s] \subseteq Given(pending'[s])
                             /\ pc'[s] = "idle" => pending'[s] = Nothing
        BY <2>1, <3>1 DEF SaverTypes
      <3>4. QED
        BY <2>1, <3>2, <3>3 DEF SaverTypes
    <2>3. QED
      BY <1>11, <2>2, MarkSavedTypes DEF TypeOK, SaverTypes, SubmitSaved, Rearm
  <1>12. ASSUME NEW p \in Saver, SubmitSucceeds(p) PROVE TypeOK'
    BY <1>12, FinishTypes DEF TypeOK, SaverTypes, SubmitSucceeds
  <1>13. ASSUME NEW p \in Saver, SubmitFails(p) PROVE TypeOK'
    BY <1>13, FinishTypes DEF TypeOK, SaverTypes, SubmitFails
  <1>14. ASSUME NEW s \in Flow, TimeUp(s) PROVE TypeOK'
    <2>1. timeUp' \in BOOLEAN /\ blocked' \in BOOLEAN /\ resyncTimer' \in BOOLEAN
      BY <1>14 DEF TypeOK, TimeUp
    <2>2. CASE BeginSubmit(s)
      BY <2>1, <2>2, BeginSubmitTypes DEF TypeOK, SaverTypes
    <2>3. CASE ~BeginSubmit(s)
      <3>1. /\ rendered' = submitState
            /\ UNCHANGED <<formVars, saveTimer, retryTimer, submitState, page, saverVars,
                           serverVars, netVars, historyVars>>
        BY <1>14, <2>3 DEF TimeUp, CountdownEffect
      <3>2. SaverTypes'
        BY <3>1, SameSaverTypes
      <3>3. QED
        BY <2>1, <3>1, <3>2 DEF TypeOK, SaverTypes
    <2>4. QED
      BY <2>2, <2>3
  <1>15. ASSUME TabBlocked PROVE TypeOK'
    <2>1. SaverTypes'
      BY <1>15, SameSaverTypes DEF TabBlocked
    <2>2. faults' \in 0 .. MaxFaults
      BY <1>15 DEF TypeOK, TabBlocked
    <2>3. QED
      BY <1>15, <2>1, <2>2, Zenon DEF TypeOK, SaverTypes, TabBlocked, Rearm
  <1>16. ASSUME TabUnblocked PROVE TypeOK'
    <2>1. SaverTypes' /\ blocked' \in BOOLEAN /\ resyncTimer' \in BOOLEAN
      BY <1>16, SameSaverTypes DEF TabUnblocked
    <2>2. saveTimer' \in BOOLEAN
      BY <1>16 DEF TabUnblocked
    <2>3. QED
      BY <1>16, <2>1, <2>2 DEF TypeOK, SaverTypes, TabUnblocked
  <1>17. ASSUME Resync PROVE TypeOK'
    BY <1>17, SameSaverTypes DEF TypeOK, SaverTypes, Resync
  <1>18. ASSUME Reload PROVE TypeOK'
    <2>1. SaverTypes' /\ UNCHANGED text
      BY <1>18 DEF Reload, TypeOK, SaverTypes
    <2>2. late' \subseteq Answers
      <3>1. late \subseteq Answers
        BY DEF TypeOK
      <3>2. late' = late \cup {Request(p) : p \in {s \in Saver : pc[s] = "save"}}
        BY <1>18 DEF Reload
      <3>3. QED
        BY <3>1, <3>2, RequestTypes
    <2>3. faults' \in 0 .. MaxFaults
      BY <1>18 DEF Reload, TypeOK
    <2>4. /\ open' \in BOOLEAN /\ page' \in {"exam", "error", "left"}
      BY <1>18 DEF Reload, TypeOK
    <2>5. timeUp' \in BOOLEAN
      BY <1>18 DEF Reload, TypeOK
    <2>6. /\ UNCHANGED <<blocked, store, rows, cached, expired, historyVars>>
          /\ answers' = rows /\ saved' = rows /\ dirty' = Nothing
          /\ failed' = {} /\ saving' = {} /\ retrying' = {}
          /\ saveTimer' = FALSE /\ retryTimer' = FALSE /\ resyncTimer' = TRUE
          /\ submitState' = "idle" /\ rendered' = "idle"
      BY <1>18 DEF Reload
    <2>7. dirty' \in Answers'
      BY <2>1, <2>6 DEF TypeOK
    <2>8. QED
      BY <2>1, <2>2, <2>3, <2>4, <2>5, <2>6, <2>7 DEF TypeOK, SaverTypes
  <1>19. ASSUME NEW p \in Saver, SaveArrives(p) PROVE TypeOK'
    <2>1. /\ UNCHANGED <<formVars, timerVars, viewVars, pending, todo, chunk, goal, rows,
                         open, expired, netVars>>
          /\ \/ StoreAnswers(Request(p)) /\ Goto(p, "saved")
             \/ Goto(p, "refused") /\ UNCHANGED <<store, cached, historyVars>>
      BY <1>19 DEF SaveArrives
    <2>2. SaverTypes'
      BY <2>1, GotoTypes
    <2>3. /\ store' \in Answers
          /\ crossed' \subseteq Question /\ swallowed' \subseteq Question
      BY <2>1, StoreTypes, RequestTypes DEF TypeOK
    <2>4. QED
      BY <2>1, <2>2, <2>3 DEF TypeOK, SaverTypes
  <1>20. ASSUME NEW p \in Saver, SaveUnauthorized(p) PROVE TypeOK'
    <2>1. SaverTypes'
      BY <1>20, GotoTypes DEF SaveUnauthorized
    <2>2. faults' \in 0 .. MaxFaults
      BY <1>20 DEF TypeOK, SaveUnauthorized
    <2>3. QED
      BY <1>20, <2>1, <2>2 DEF TypeOK, SaverTypes, SaveUnauthorized
  <1>21. ASSUME NEW p \in Saver, SaveTimesOut(p) PROVE TypeOK'
    <2>1. SaverTypes'
      BY <1>21, GotoTypes DEF SaveTimesOut
    <2>2. faults' \in 0 .. MaxFaults
      BY <1>21 DEF TypeOK, SaveTimesOut
    <2>3. late' \subseteq Answers
      BY <1>21, RequestTypes DEF TypeOK, SaveTimesOut
    <2>4. QED
      BY <1>21, <2>1, <2>2, <2>3 DEF TypeOK, SaverTypes, SaveTimesOut
  <1>22. ASSUME LateSaveArrives PROVE TypeOK'
    <2>1. PICK f \in late :
            /\ late' = late \ {f}
            /\ StoreAnswers(f) \/ UNCHANGED <<store, cached, historyVars>>
            /\ UNCHANGED <<formVars, timerVars, viewVars, saverVars, rows, open, expired,
                           faults>>
      BY <1>22 DEF LateSaveArrives
    <2>2. SaverTypes'
      BY <2>1, SameSaverTypes
    <2>3. /\ store' \in Answers
          /\ crossed' \subseteq Question /\ swallowed' \subseteq Question
      BY <2>1, StoreTypes DEF TypeOK
    <2>4. QED
      BY <2>1, <2>2, <2>3 DEF TypeOK, SaverTypes
  <1>23. ASSUME NEW p \in Saver, SubmitArrives(p) PROVE TypeOK'
    BY <1>23, GotoTypes DEF TypeOK, SaverTypes, SubmitArrives
  <1>24. ASSUME NEW p \in Saver, SubmitTimesOut(p) PROVE TypeOK'
    <2>1. SaverTypes'
      BY <1>24, GotoTypes DEF SubmitTimesOut
    <2>2. faults' \in 0 .. MaxFaults
      BY <1>24 DEF TypeOK, SubmitTimesOut
    <2>3. QED
      BY <1>24, <2>1, <2>2 DEF TypeOK, SaverTypes, SubmitTimesOut
  <1>25. ASSUME Flush PROVE TypeOK'
    BY <1>25, SameSaverTypes DEF TypeOK, SaverTypes, Flush
  <1>26. ASSUME Expire PROVE TypeOK'
    BY <1>26, SameSaverTypes DEF TypeOK, SaverTypes, Expire
  <1>27. ASSUME Sweep PROVE TypeOK'
    BY <1>27, SameSaverTypes DEF TypeOK, SaverTypes, Sweep
  <1>28. ASSUME UNCHANGED vars PROVE TypeOK'
    BY <1>28, SameSaverTypes DEF TypeOK, SaverTypes, vars
  <1>29. QED
    BY <1>1, <1>2, <1>3, <1>4, <1>5, <1>6, <1>7, <1>8, <1>9, <1>10, <1>11, <1>12,
       <1>13, <1>14, <1>15, <1>16, <1>17, <1>18, <1>19, <1>20, <1>21, <1>22, <1>23,
       <1>24, <1>25, <1>26, <1>27, <1>28
      DEF Next, Reply, Arrival, Failure, ResyncFires, ResyncOnEvent

\* Whatever requests fail or cross, an answer is an edit that was made, a request
\* is part of the snapshot of its save, and a save that is over has none.
THEOREM TypeCorrect == Spec => []TypeOK
  BY TypeInit, TypeStep, PTL DEF Spec

-----------------------------------------------------------------------------
(***************************************************************************)
(* The inductive invariant. A submit carries its answers because a request *)
(* only moves the store forward, and the page knows of every answer        *)
(* whether its request has arrived.                                        *)
(***************************************************************************)
\* Questions whose requests and replies have come in order and were stored.
Sound == Question \ (crossed \cup swallowed)

\* The questions of p whose request the server has carried out.
Arrived(p) ==
  {q \in Given(pending[p]) : q \notin todo[p] /\ (q \notin chunk[p] \/ pc[p] = "saved")}

\* What the page calls saved, and what a reload would show, has been stored.
SavedInv ==
  /\ \A q \in Sound : rows[q] <= store[q] /\ saved[q] <= store[q]
  /\ \A q \in Question \ crossed : saved[q] = 0 \/ saved[q] = answers[q]

\* What has arrived is in the store, or something newer.
ArrivedInv == \A p \in Saver : \A q \in Sound \cap Arrived(p) : pending[p][q] <= store[q]

\* An answer a submit has to carry is in the store or is being saved by it.
GoalInv ==
  \A s \in Flow, q \in Sound :
    pc[s] # "idle" /\ goal[s][q] # 0 =>
      \/ goal[s][q] <= store[q]
      \/ pending[s][q] = goal[s][q] /\ pc[s] \in {"save", "saved", "refused", "failed"}

\* A question is being saved only while some save has it.
SavingInv ==
  /\ \A p \in Saver : pc[p] \in {"submit", "submitted", "submitFailed"} => pending[p] = Nothing
  /\ \A q \in saving : \E p \in Saver : pending[p][q] # 0

\* NoSilentLoss, also of a page that is not shown.
LossInv ==
  \A q \in Question \ crossed :
    answers[q] # 0 =>
      Same(saved[q], answers[q]) \/ dirty[q] = answers[q] \/ q \in failed

IInv == SavedInv /\ ArrivedInv /\ GoalInv /\ SavingInv /\ LossInv

coreVars == <<text, answers, dirty, saved, failed, saving, store, rows, historyVars,
              saverVars>>

\* A request moves the store forward, but for the questions that are named.
LEMMA StoreStep ==
  ASSUME TypeOK, NEW f \in Answers, StoreAnswers(f)
  PROVE  /\ crossed \subseteq crossed' /\ swallowed \subseteq swallowed'
         /\ \A q \in Sound' : store[q] <= store'[q] /\ f[q] <= store'[q]
  <1>1. \A q \in Question : /\ store[q] \in Nat /\ f[q] \in Nat
                            /\ Same(store[q], f[q]) <=> Same(f[q], store[q])
    BY DEF TypeOK, Same
  <1>2. CASE AnswerFromCache(f)
    <2>1. /\ swallowed' = swallowed \cup {q \in Given(f) : ~Same(store[q], f[q])}
          /\ store' = [q \in Question |->
               IF Same(store[q], f[q]) THEN Later(store[q], f[q]) ELSE store[q]]
          /\ crossed' = crossed
      BY <1>2 DEF AnswerFromCache
    <2>2. QED
      BY <1>1, <2>1 DEF Sound, Later
  <1>3. CASE Store(f)
    <2>1. /\ store' = [q \in Question |->
               IF f[q] = 0 THEN store[q]
               ELSE IF Same(store[q], f[q]) THEN Later(store[q], f[q]) ELSE f[q]]
          /\ crossed' = crossed \cup
               {q \in Given(f) : f[q] < store[q] /\ ~Same(f[q], store[q])}
          /\ swallowed' = swallowed
      BY <1>3 DEF Store
    <2>2. QED
      BY <1>1, <2>1 DEF Sound, Later
  <1>4. QED
    BY <1>2, <1>3 DEF StoreAnswers

\* The first page knows nothing.
LEMMA IInvInit == Init => IInv
  <1> SUFFICES ASSUME Init PROVE IInv
    OBVIOUS
  <1>1. SavedInv /\ LossInv
    BY DEF Init, SavedInv, LossInv, Sound
  <1>2. ArrivedInv /\ GoalInv /\ SavingInv
    BY DEF Init, ArrivedInv, GoalInv, SavingInv, Arrived, Sound
  <1>3. QED
    BY <1>1, <1>2 DEF IInv

\* A step that touches no answer keeps the invariant.
LEMMA QuietStep ==
  ASSUME IInv, UNCHANGED coreVars
  PROVE  IInv'
  <1> USE DEF coreVars
  <1>1. SavedInv' /\ LossInv'
    BY DEF IInv, SavedInv, LossInv, Sound, Same
  <1>2. ArrivedInv' /\ GoalInv' /\ SavingInv'
    BY DEF IInv, ArrivedInv, GoalInv, SavingInv, Arrived, Sound
  <1>3. QED
    BY <1>1, <1>2 DEF IInv

\* An answer that is typed is dirty and not saved.
LEMMA EditStep ==
  ASSUME TypeOK, IInv, NEW q \in Question, NEW v \in Text, Answer(q, v)
  PROVE  IInv'
  <1>1. PICK n \in Int :
          /\ text' = Append(text, v)
          /\ answers' = [answers EXCEPT ![q] = n] /\ dirty' = [dirty EXCEPT ![q] = n]
          /\ saved' = [saved EXCEPT ![q] = 0]
          /\ failed' = failed \ {q} /\ saving' = saving \ {q}
          /\ UNCHANGED <<store, rows, historyVars, saverVars>>
    <2>1. answers[q] \in Int /\ Len(text) + 1 \in Int
      BY DEF TypeOK
    <2>2. QED
      BY <2>1 DEF Answer, ClearFeedback
  <1>2. /\ answers \in Answers /\ dirty \in Answers /\ saved \in Answers /\ store \in Answers
        /\ text \in Seq(Text) /\ Len(text) \in Nat
    BY DEF TypeOK
  <1>3. \A i \in 1 .. Len(text) : text'[i] = text[i]
    BY <1>1, <1>2
  <1>4. SavedInv'
    BY <1>1, <1>2 DEF IInv, SavedInv, Sound
  <1>5. LossInv'
    <2> SUFFICES ASSUME NEW r \in Question \ crossed, answers'[r] # 0
                 PROVE  \/ (Same(saved[r], answers[r]))'
                        \/ dirty'[r] = answers'[r] \/ r \in failed'
      BY <1>1 DEF LossInv
    <2>1. CASE r = q
      BY <2>1, <1>1, <1>2
    <2>2. CASE r # q
      <3>1. /\ answers'[r] = answers[r] /\ saved'[r] = saved[r] /\ dirty'[r] = dirty[r]
            /\ r \in failed' <=> r \in failed
            /\ answers[r] \in 0 .. Len(text) /\ saved[r] \in 0 .. Len(text)
        BY <2>2, <1>1, <1>2
      <3>2. Same(saved[r], answers[r]) => (Same(saved[r], answers[r]))'
        BY <3>1, <1>3 DEF Same
      <3>3. QED
        BY <3>1, <3>2 DEF IInv, LossInv
    <2>3. QED
      BY <2>1, <2>2
  <1>6. ArrivedInv' /\ GoalInv' /\ SavingInv'
    BY <1>1 DEF IInv, ArrivedInv, GoalInv, SavingInv, Arrived, Sound
  <1>7. QED
    BY <1>4, <1>5, <1>6 DEF IInv

\* Of a save that begins nothing has arrived.
LEMMA BeginStep ==
  ASSUME TypeOK, IInv, NEW p \in Saver, NEW snapshot \in Answers, BeginSave(p, snapshot),
         pc[p] = "idle",
         UNCHANGED <<text, answers, dirty, saved, failed, store, rows, historyVars>>
  PROVE  SavedInv' /\ ArrivedInv' /\ SavingInv' /\ LossInv'
  <1>1. /\ pending' = [pending EXCEPT ![p] = snapshot]
        /\ saving' = saving \cup Given(snapshot)
        /\ Send(p, Given(snapshot))
    BY DEF BeginSave
  <1>2. /\ pc'[p] = "save" /\ todo'[p] \cup chunk'[p] = Given(snapshot)
        /\ \A s \in Saver \ {p} :
             chunk'[s] = chunk[s] /\ todo'[s] = todo[s] /\ pc'[s] = pc[s]
    BY <1>1, SendTypes
  <1>3. /\ pending'[p] = snapshot /\ \A s \in Saver \ {p} : pending'[s] = pending[s]
    BY <1>1 DEF TypeOK
  <1>4. SavedInv' /\ LossInv'
    BY DEF IInv, SavedInv, LossInv, Sound, Same
  <1>5. ArrivedInv'
    BY <1>2, <1>3 DEF IInv, ArrivedInv, Arrived, Sound
  <1>6. SavingInv'
    <2>1. \A s \in Saver :
            pc'[s] \in {"submit", "submitted", "submitFailed"} => pending'[s] = Nothing
      BY <1>2, <1>3 DEF IInv, SavingInv
    <2>2. ASSUME NEW q \in saving' PROVE \E s \in Saver : pending'[s][q] # 0
      <3>1. CASE q \in Given(snapshot)
        BY <3>1, <1>3
      <3>2. CASE q \notin Given(snapshot)
        <4>1. PICK s \in Saver : pending[s][q] # 0
          BY <1>1, <2>2, <3>2 DEF IInv, SavingInv
        <4>2. s # p
          <5>1. q \in Question
            BY <1>1, <2>2 DEF TypeOK
          <5>2. pending[p] = Nothing
            BY DEF TypeOK
          <5>3. QED
            BY <4>1, <5>1, <5>2
        <4>3. QED
          BY <4>1, <4>2, <1>3
      <3>3. QED
        BY <3>1, <3>2
    <2>3. QED
      BY <2>1, <2>2 DEF SavingInv
  <1>7. QED
    BY <1>4, <1>5, <1>6


\* An autosave leaves the submits alone.
LEMMA AutosaveStep ==
  ASSUME TypeOK, IInv, NEW p \in Autosave, AutosaveFires(p)
  PROVE  IInv'
  <1>1. /\ p \in Saver /\ dirty \in Answers /\ BeginSave(p, dirty) /\ pc[p] = "idle"
        /\ UNCHANGED <<text, answers, dirty, saved, failed, store, rows, historyVars, goal>>
    BY DEF TypeOK, AutosaveFires
  <1>2. SavedInv' /\ ArrivedInv' /\ SavingInv' /\ LossInv'
    BY <1>1, BeginStep
  <1>3. \A s \in Flow : s \in Saver \ {p}
    BY PageAssumption
  <1>4. \A s \in Flow : pc'[s] = pc[s] /\ pending'[s] = pending[s] /\ goal'[s] = goal[s]
    <2>1. Send(p, Given(dirty)) /\ Given(dirty) \in SUBSET Question
      BY <1>1 DEF BeginSave
    <2>2. \A s \in Saver \ {p} : pc'[s] = pc[s]
      BY <1>1, <2>1, SendTypes
    <2>3. \A s \in Saver \ {p} : pending'[s] = pending[s]
      BY <1>1 DEF TypeOK, BeginSave
    <2>4. QED
      BY <1>1, <1>3, <2>2, <2>3
  <1>5. GoalInv'
    BY <1>1, <1>4 DEF IInv, GoalInv, Sound
  <1>6. QED
    BY <1>2, <1>5 DEF IInv

\* What a submit has to carry and is not saved is in its snapshot: of the cleared
\* answers those that are still to be saved, because no other is lost (LossInv).
LEMMA SnapshotCarries ==
  ASSUME TypeOK, IInv, NEW q \in Sound, Goal[q] # 0
  PROVE  Goal[q] <= store[q] \/ SubmitSnapshot[q] = Goal[q]
  <1>1. q \in Question /\ q \in Question \ crossed
    BY DEF Sound
  <1>2. Goal[q] = answers[q] /\ ~GivenUp(q)
    BY <1>1 DEF Goal
  <1>3. CASE Same(saved[q], answers[q])
    <2>1. saved[q] # 0
      BY <1>2, <1>3 DEF Same
    <2>2. saved[q] = answers[q] /\ saved[q] <= store[q]
      BY <1>1, <2>1 DEF IInv, SavedInv
    <2>3. QED
      BY <1>2, <2>2
  <1>4. CASE ~Same(saved[q], answers[q]) /\ ~Cleared(q)
    BY <1>1, <1>2, <1>4 DEF SubmitSnapshot
  <1>5. CASE ~Same(saved[q], answers[q]) /\ Cleared(q)
    <2>1. SubmitSnapshot[q] = dirty[q]
      BY <1>1, <1>5 DEF SubmitSnapshot
    <2>2. dirty[q] = answers[q]
      BY <1>1, <1>2, <1>5 DEF IInv, LossInv, GivenUp
    <2>3. QED
      BY <1>2, <2>1, <2>2
  <1>6. QED
    BY <1>3, <1>4, <1>5

\* So a submit that begins has its answers in the store or with it.
LEMMA SubmitStep ==
  ASSUME TypeOK, IInv, NEW s \in Flow, BeginSubmit(s)
  PROVE  IInv'
  <1>1. /\ s \in Saver /\ pc[s] = "idle" /\ goal' = [goal EXCEPT ![s] = Goal]
        /\ UNCHANGED <<text, answers, dirty, saved, failed, store, rows, historyVars>>
    BY DEF BeginSubmit
  <1>2. /\ goal'[s] = Goal /\ \A r \in Saver \ {s} : goal'[r] = goal[r]
        /\ pending[s] = Nothing
    BY <1>1 DEF TypeOK
  <1>3. CASE Given(SubmitSnapshot) = {}
    <2>1. Goto(s, "submit") /\ UNCHANGED <<pending, todo, chunk, saving>>
      BY <1>3 DEF BeginSubmit
    <2>2. pc'[s] = "submit" /\ \A r \in Saver \ {s} : pc'[r] = pc[r]
      BY <1>1, <2>1 DEF TypeOK
    <2>3. SavedInv' /\ LossInv'
      BY <1>1 DEF IInv, SavedInv, LossInv, Sound, Same
    <2>4. ArrivedInv'
      BY <1>1, <1>2, <2>1, <2>2 DEF IInv, ArrivedInv, Arrived, Sound
    <2>5. SavingInv'
      BY <1>2, <2>1, <2>2 DEF IInv, SavingInv
    <2>6. \A q \in Sound : Goal[q] # 0 => Goal[q] <= store[q]
      BY <1>3, SnapshotCarries DEF Sound
    <2>7. GoalInv'
      BY <1>1, <1>2, <2>1, <2>2, <2>6 DEF IInv, GoalInv, Sound
    <2>8. QED
      BY <2>3, <2>4, <2>5, <2>7 DEF IInv
  <1>4. CASE Given(SubmitSnapshot) # {}
    <2>1. BeginSave(s, SubmitSnapshot) /\ SubmitSnapshot \in Answers
      BY <1>4, SnapshotTypes DEF BeginSubmit
    <2>2. SavedInv' /\ ArrivedInv' /\ SavingInv' /\ LossInv'
      BY <1>1, <2>1, BeginStep
    <2>3. /\ pending'[s] = SubmitSnapshot
          /\ \A r \in Saver \ {s} : pending'[r] = pending[r]
      BY <1>1, <2>1 DEF TypeOK, BeginSave
    <2>4. pc'[s] = "save" /\ \A r \in Saver \ {s} : pc'[r] = pc[r]
      <3>1. Send(s, Given(SubmitSnapshot)) /\ Given(SubmitSnapshot) \in SUBSET Question
        BY <2>1 DEF BeginSave
      <3>2. QED
        BY <1>1, <3>1, SendTypes
    <2>5. \A q \in Sound :
            Goal[q] # 0 => Goal[q] <= store[q] \/ SubmitSnapshot[q] = Goal[q]
      BY SnapshotCarries
    <2>6. GoalInv'
      BY <1>1, <1>2, <2>3, <2>4, <2>5 DEF IInv, GoalInv, Sound
    <2>7. QED
      BY <2>2, <2>6 DEF IInv
  <1>5. QED
    BY <1>3, <1>4

\* The next request takes only what the last one left.
LEMMA ChunkStep ==
  ASSUME TypeOK, IInv, NEW p \in Saver, ChunkSaved(p)
  PROVE  IInv'
  <1>1. /\ pc[p] = "saved" /\ todo[p] \in SUBSET Question /\ Send(p, todo[p])
        /\ UNCHANGED <<formVars, pending, goal, store, rows, historyVars>>
    BY DEF TypeOK, ChunkSaved
  <1>2. /\ pc'[p] = "save" /\ todo'[p] \cup chunk'[p] = todo[p]
        /\ \A s \in Saver \ {p} :
             chunk'[s] = chunk[s] /\ todo'[s] = todo[s] /\ pc'[s] = pc[s]
    BY <1>1, SendTypes
  <1>3. SavedInv' /\ LossInv'
    BY <1>1 DEF IInv, SavedInv, LossInv, Sound, Same
  <1>4. ArrivedInv'
    <2>1. \A s \in Saver : Arrived(s)' \subseteq Arrived(s)
      BY <1>1, <1>2 DEF Arrived
    <2>2. QED
      BY <1>1, <2>1 DEF IInv, ArrivedInv, Sound
  <1>5. GoalInv' /\ SavingInv'
    BY <1>1, <1>2 DEF IInv, GoalInv, SavingInv, Sound
  <1>6. QED
    BY <1>3, <1>4, <1>5 DEF IInv

\* When a save is over, what it had is not being saved; nothing else is known less.
LEMMA FinishStep ==
  ASSUME TypeOK, IInv, NEW p \in Saver, Finish(p),
         saving' = saving \ Given(pending[p]),
         crossed \subseteq crossed', UNCHANGED <<text, store, swallowed>>
  PROVE  ArrivedInv' /\ GoalInv' /\ SavingInv'
  <1>1. /\ pc'[p] = "idle" /\ pending'[p] = Nothing
        /\ \A s \in Saver \ {p} :
             /\ pc'[s] = pc[s] /\ pending'[s] = pending[s] /\ goal'[s] = goal[s]
             /\ chunk'[s] = chunk[s] /\ todo'[s] = todo[s]
    BY DEF TypeOK, Finish
  <1>2. ArrivedInv'
    BY <1>1 DEF IInv, ArrivedInv, Arrived, Sound
  <1>3. GoalInv'
    BY <1>1 DEF IInv, GoalInv, Sound
  <1>4. SavingInv'
    <2>1. \A q \in saving' : \E s \in Saver : pending'[s][q] # 0
      <3> TAKE q \in saving'
      <3>1. q \in saving /\ q \in Question /\ q \notin Given(pending[p])
        BY DEF TypeOK
      <3>2. PICK s \in Saver : pending[s][q] # 0
        BY <3>1 DEF IInv, SavingInv
      <3>3. s # p
        BY <3>1, <3>2
      <3>4. QED
        BY <1>1, <3>2, <3>3
    <2>2. QED
      BY <1>1, <2>1 DEF IInv, SavingInv
  <1>5. QED
    BY <1>2, <1>3, <1>4

\* What is called saved when the last reply is there has arrived; what is not
\* called so is still dirty or refused, or has crossed.
LEMMA MarkSavedStep ==
  ASSUME TypeOK, IInv, NEW p \in Saver, pc[p] = "saved", todo[p] = {}, MarkSaved(p),
         UNCHANGED <<store, rows, swallowed>>
  PROVE  /\ SavedInv' /\ LossInv'
         /\ saving' = saving \ Given(pending[p]) /\ crossed \subseteq crossed'
  <1>1. /\ UNCHANGED <<text, answers>>
        /\ saved' = [q \in Question |->
             IF q \in Settled(p) THEN pending[p][q] ELSE saved[q]]
        /\ dirty' = [q \in Question |-> IF q \in Settled(p) THEN 0 ELSE dirty[q]]
        /\ failed' = failed \ Given(pending[p]) /\ saving' = saving \ Given(pending[p])
        /\ crossed' = crossed \cup {q \in Given(pending[p]) :
                                      /\ answers[q] # pending[p][q]
                                      /\ q \in Settled(p) \cup failed}
    BY DEF MarkSaved, ClearFeedback
  <1>2. Settled(p) \subseteq Given(pending[p])
    BY DEF Settled
  <1>3. \A q \in Sound' : q \in Sound /\ q \in Question
    BY <1>1 DEF Sound
  <1>4. \A q \in Sound' \cap Given(pending[p]) : pending[p][q] <= store[q]
    BY <1>3 DEF IInv, ArrivedInv, Arrived
  <1>5. SavedInv'
    <2>1. \A q \in Sound' : rows'[q] <= store'[q] /\ saved'[q] <= store'[q]
      BY <1>1, <1>2, <1>3, <1>4 DEF IInv, SavedInv
    <2>2. \A q \in Question \ crossed' : saved'[q] = 0 \/ saved'[q] = answers'[q]
      BY <1>1, <1>2 DEF IInv, SavedInv
    <2>3. QED
      BY <2>1, <2>2 DEF SavedInv
  <1>6. LossInv'
    <2> SUFFICES ASSUME NEW q \in Question \ crossed', answers[q] # 0
                 PROVE  Same(saved'[q], answers[q]) \/ dirty'[q] = answers[q] \/ q \in failed'
      BY <1>1 DEF LossInv, Same
    <2>1. CASE q \in Settled(p)
      BY <1>1, <2>1 DEF Settled, Same
    <2>2. CASE q \notin Settled(p)
      <3>1. saved'[q] = saved[q] /\ dirty'[q] = dirty[q] /\ q \in Question \ crossed
        BY <1>1, <2>2
      <3>2. q \in failed => q \in failed'
        <4>1. q \in Given(pending[p]) => answers[q] # pending[p][q]
          BY <2>2 DEF Settled, Same
        <4>2. QED
          BY <1>1, <4>1
      <3>3. QED
        BY <3>1, <3>2 DEF IInv, LossInv
    <2>3. QED
      BY <2>1, <2>2
  <1>7. QED
    BY <1>1, <1>5, <1>6

\* The last reply to an autosave.
LEMMA AutosavedStep ==
  ASSUME TypeOK, IInv, NEW p \in Saver, AutosaveSucceeds(p)
  PROVE  IInv'
  <1>1. /\ pc[p] = "saved" /\ todo[p] = {} /\ MarkSaved(p) /\ Finish(p)
        /\ UNCHANGED <<text, store, rows, swallowed>>
    BY DEF AutosaveSucceeds, MarkSaved
  <1>2. QED
    BY <1>1, MarkSavedStep, FinishStep DEF IInv

\* The submit is sent: all of its answers have arrived.
LEMMA SubmitSavedStep ==
  ASSUME TypeOK, IInv, NEW s \in Saver, SubmitSaved(s)
  PROVE  IInv'
  <1>1. /\ s \in Flow /\ pc[s] = "saved" /\ todo[s] = {} /\ MarkSaved(s) /\ Goto(s, "submit")
        /\ pending' = [pending EXCEPT ![s] = Nothing]
        /\ UNCHANGED <<text, todo, goal, store, rows, swallowed>>
    BY DEF SubmitSaved, MarkSaved
  <1>2. /\ SavedInv' /\ LossInv' /\ crossed \subseteq crossed'
        /\ saving' = saving \ Given(pending[s])
    BY <1>1, MarkSavedStep
  <1>3. /\ pc'[s] = "submit" /\ pending'[s] = Nothing
        /\ \A r \in Saver \ {s} :
             pc'[r] = pc[r] /\ pending'[r] = pending[r] /\ chunk'[r] = chunk[r]
    BY <1>1 DEF TypeOK, SubmitSaved
  <1>4. ArrivedInv'
    BY <1>1, <1>2, <1>3 DEF IInv, ArrivedInv, Arrived, Sound
  <1>5. GoalInv'
    <2>1. \A q \in Sound' : q \in Sound /\ q \in Question
      BY <1>1, <1>2 DEF Sound
    <2>2. \A q \in Sound : pending[s][q] # 0 => pending[s][q] <= store[q]
      BY <1>1 DEF IInv, ArrivedInv, Arrived, Sound
    <2>3. QED
      BY <1>1, <1>3, <2>1, <2>2 DEF IInv, GoalInv
  <1>6. SavingInv'
    <2>1. \A q \in saving' : \E r \in Saver : pending'[r][q] # 0
      <3> TAKE q \in saving'
      <3>1. q \in saving /\ q \in Question /\ q \notin Given(pending[s])
        BY <1>2 DEF TypeOK
      <3>2. PICK r \in Saver : pending[r][q] # 0
        BY <3>1 DEF IInv, SavingInv
      <3>3. r # s
        BY <3>1, <3>2
      <3>4. QED
        BY <1>3, <3>2, <3>3
    <2>2. QED
      BY <1>3, <2>1 DEF IInv, SavingInv
  <1>7. QED
    BY <1>2, <1>4, <1>5, <1>6 DEF IInv

\* A refused save takes its questions out of dirty and marks them.
LEMMA RefusedStep ==
  ASSUME TypeOK, IInv, NEW p \in Saver, SaveRefused(p)
  PROVE  IInv'
  <1>1. /\ failed' = failed \cup Given(pending[p])
        /\ saving' = saving \ Given(pending[p])
        /\ dirty' = [q \in Question |-> IF q \in Given(pending[p]) THEN 0 ELSE dirty[q]]
        /\ Finish(p) /\ UNCHANGED <<text, answers, saved, store, rows, historyVars>>
    BY DEF SaveRefused, MarkRefused
  <1>2. SavedInv' /\ LossInv'
    BY <1>1 DEF IInv, SavedInv, LossInv, Sound, Same
  <1>3. QED
    BY <1>1, <1>2, FinishStep DEF IInv

\* A failed save leaves its questions dirty.
LEMMA FailedStep ==
  ASSUME TypeOK, IInv, NEW p \in Saver, SaveFailed(p)
  PROVE  IInv'
  <1>1. /\ saving' = saving \ Given(pending[p]) /\ Finish(p)
        /\ UNCHANGED <<text, answers, dirty, saved, failed, store, rows, historyVars>>
    BY DEF SaveFailed
  <1>2. SavedInv' /\ LossInv'
    BY <1>1 DEF IInv, SavedInv, LossInv, Sound, Same
  <1>3. QED
    BY <1>1, <1>2, FinishStep DEF IInv

\* A submit that is over has no snapshot any more.
LEMMA SubmitEndStep ==
  ASSUME TypeOK, IInv, NEW p \in Saver, SubmitSucceeds(p) \/ SubmitFails(p)
  PROVE  IInv'
  <1>1. /\ pc[p] \in {"submitted", "submitFailed"} /\ Finish(p)
        /\ UNCHANGED <<formVars, store, rows, historyVars>>
    BY DEF SubmitSucceeds, SubmitFails
  <1>2. pending[p] = Nothing
    BY <1>1 DEF IInv, SavingInv
  <1>3. saving' = saving \ Given(pending[p])
    BY <1>1, <1>2
  <1>4. SavedInv' /\ LossInv'
    BY <1>1 DEF IInv, SavedInv, LossInv, Sound, Same
  <1>5. QED
    BY <1>1, <1>3, <1>4, FinishStep DEF IInv

\* A request that is lost or refused, and a submit that arrives.
LEMMA GotoStep ==
  ASSUME TypeOK, IInv, NEW p \in Saver, NEW l,
         \/ pc[p] = "save" /\ l \in {"refused", "failed"}
         \/ pc[p] = "submit" /\ l \in {"submitted", "submitFailed"},
         Goto(p, l),
         UNCHANGED <<formVars, store, rows, historyVars, pending, todo, chunk, goal>>
  PROVE  IInv'
  <1>1. pc'[p] = l /\ \A s \in Saver \ {p} : pc'[s] = pc[s]
    BY DEF TypeOK
  <1>2. SavedInv' /\ LossInv'
    BY DEF IInv, SavedInv, LossInv, Sound, Same
  <1>3. ArrivedInv'
    BY <1>1 DEF IInv, ArrivedInv, Arrived, Sound
  <1>4. GoalInv' /\ SavingInv'
    BY <1>1 DEF IInv, GoalInv, SavingInv, Sound
  <1>5. QED
    BY <1>2, <1>3, <1>4 DEF IInv

\* The store moves forward; nothing else the page knows changes.
LEMMA ForwardStep ==
  ASSUME TypeOK, IInv, NEW f \in Answers, StoreAnswers(f),
         UNCHANGED <<formVars, rows>>
  PROVE  /\ SavedInv' /\ LossInv'
         /\ \A q \in Sound' : /\ q \in Sound /\ q \in Question
                              /\ store[q] \in Nat /\ store'[q] \in Nat /\ f[q] \in Nat
                              /\ store[q] <= store'[q] /\ f[q] <= store'[q]
  <1>1. /\ crossed \subseteq crossed'
        /\ \A q \in Sound' : store[q] <= store'[q] /\ f[q] <= store'[q]
    BY StoreStep
  <1>2. \A q \in Sound' : q \in Sound /\ q \in Question
    BY StoreStep DEF Sound
  <1>3. \A q \in Question : store[q] \in Nat /\ store'[q] \in Nat /\ f[q] \in Nat
                            /\ rows[q] \in Nat /\ saved[q] \in Nat
    <2>1. store' \in Answers
      BY StoreTypes
    <2>2. store \in Answers /\ rows \in Answers /\ saved \in Answers
      BY DEF TypeOK
    <2>3. QED
      BY <2>1, <2>2
  <1>4. SavedInv'
    <2>1. \A q \in Sound' : rows'[q] <= store'[q] /\ saved'[q] <= store'[q]
      BY <1>1, <1>2, <1>3 DEF IInv, SavedInv
    <2>2. \A q \in Question \ crossed' : saved'[q] = 0 \/ saved'[q] = answers'[q]
      BY <1>1 DEF IInv, SavedInv
    <2>3. QED
      BY <2>1, <2>2 DEF SavedInv
  <1>5. LossInv'
    BY <1>1 DEF IInv, LossInv, Same
  <1>6. QED
    BY <1>1, <1>2, <1>3, <1>4, <1>5

\* A request of p that arrives brings what it carries to the store.
LEMMA ArriveStep ==
  ASSUME TypeOK, IInv, NEW p \in Saver, SaveArrives(p)
  PROVE  IInv'
  <1>1. /\ pc[p] = "save"
        /\ UNCHANGED <<formVars, rows, pending, todo, chunk, goal>>
    BY DEF SaveArrives
  <1>2. CASE ~open
    <2>1. Goto(p, "refused") /\ UNCHANGED <<store, historyVars>>
      BY <1>2 DEF SaveArrives
    <2>2. QED
      BY <1>1, <2>1, GotoStep
  <1>3. CASE open
    <2>1. StoreAnswers(Request(p)) /\ Goto(p, "saved") /\ Request(p) \in Answers
      BY <1>3, RequestTypes DEF SaveArrives
    <2>2. pc'[p] = "saved" /\ \A s \in Saver \ {p} : pc'[s] = pc[s]
      BY <2>1 DEF TypeOK
    <2>3. /\ SavedInv' /\ LossInv'
          /\ \A q \in Sound' : /\ q \in Sound /\ q \in Question
                               /\ store[q] \in Nat /\ store'[q] \in Nat
                               /\ Request(p)[q] \in Nat
                               /\ store[q] <= store'[q] /\ Request(p)[q] <= store'[q]
      BY <1>1, <2>1, ForwardStep
    <2>4. \A s \in Saver, q \in Question : pending[s][q] \in Nat /\ goal[s][q] \in Nat
      BY DEF TypeOK
    <2>5. \A q \in chunk[p] \cap Question : Request(p)[q] = pending[p][q]
      BY DEF Request
    <2>6. ArrivedInv'
      <3> SUFFICES ASSUME NEW s \in Saver, NEW q \in Sound', q \in Arrived(s)'
                   PROVE  pending[s][q] <= store'[q]
        BY <1>1 DEF ArrivedInv
      <3>1. CASE q \in Arrived(s)
        BY <3>1, <2>3, <2>4 DEF IInv, ArrivedInv
      <3>2. CASE q \notin Arrived(s)
        <4>1. s = p /\ q \in chunk[p]
          BY <1>1, <2>2, <3>2 DEF Arrived
        <4>2. QED
          BY <4>1, <2>3, <2>5
      <3>3. QED
        BY <3>1, <3>2
    <2>7. GoalInv'
      BY <1>1, <2>2, <2>3, <2>4 DEF IInv, GoalInv
    <2>8. SavingInv'
      BY <1>1, <2>2 DEF IInv, SavingInv
    <2>9. QED
      BY <2>3, <2>6, <2>7, <2>8 DEF IInv
  <1>4. QED
    BY <1>2, <1>3 DEF TypeOK

\* A request the client has given up arrives.
LEMMA LateStep ==
  ASSUME TypeOK, IInv, LateSaveArrives
  PROVE  IInv'
  <1>1. PICK f \in late :
          /\ StoreAnswers(f) \/ UNCHANGED <<store, historyVars>>
          /\ UNCHANGED <<formVars, saverVars, rows>>
    BY DEF LateSaveArrives
  <1>2. CASE UNCHANGED <<store, historyVars>>
    BY <1>1, <1>2, QuietStep DEF coreVars
  <1>3. CASE StoreAnswers(f)
    <2>1. f \in Answers
      BY DEF TypeOK
    <2>2. /\ SavedInv' /\ LossInv'
          /\ \A q \in Sound' : /\ q \in Sound /\ q \in Question
                               /\ store[q] \in Nat /\ store'[q] \in Nat
                               /\ store[q] <= store'[q]
      BY <1>1, <1>3, <2>1, ForwardStep
    <2>3. \A s \in Saver, q \in Question : pending[s][q] \in Nat /\ goal[s][q] \in Nat
      BY DEF TypeOK
    <2>4. ArrivedInv'
      BY <1>1, <2>2, <2>3 DEF IInv, ArrivedInv, Arrived
    <2>5. GoalInv' /\ SavingInv'
      BY <1>1, <2>2, <2>3 DEF IInv, GoalInv, SavingInv
    <2>6. QED
      BY <2>2, <2>4, <2>5 DEF IInv
  <1>4. QED
    BY <1>1, <1>2, <1>3

\* What a reload shows as saved has been stored, and nothing is under way.
LEMMA ReloadStep ==
  ASSUME TypeOK, IInv, Reload
  PROVE  IInv'
  <1>1. /\ answers' = rows /\ saved' = rows /\ saving' = {}
        /\ pc' = [p \in Saver |-> "idle"]
        /\ pending' = [p \in Saver |-> Nothing]
        /\ UNCHANGED <<text, store, rows, historyVars>>
    BY DEF Reload
  <1>2. SavedInv' /\ LossInv'
    BY <1>1 DEF IInv, SavedInv, LossInv, Sound, Same
  <1>3. ArrivedInv' /\ GoalInv' /\ SavingInv'
    BY <1>1 DEF ArrivedInv, GoalInv, SavingInv, Arrived
  <1>4. QED
    BY <1>2, <1>3 DEF IInv

\* What a reload would show becomes what is stored.
LEMMA FlushStep ==
  ASSUME TypeOK, IInv, Flush
  PROVE  IInv'
  <1>1. /\ rows' = store
        /\ UNCHANGED <<text, answers, dirty, saved, failed, saving, store, historyVars,
                       saverVars>>
    BY DEF Flush
  <1>2. \A q \in Question : store[q] \in Nat
    BY DEF TypeOK
  <1>3. SavedInv'
    BY <1>1, <1>2 DEF IInv, SavedInv, Sound
  <1>4. LossInv'
    BY <1>1 DEF IInv, LossInv, Same
  <1>5. ArrivedInv' /\ GoalInv' /\ SavingInv'
    BY <1>1 DEF IInv, ArrivedInv, GoalInv, SavingInv, Arrived, Sound
  <1>6. QED
    BY <1>3, <1>4, <1>5 DEF IInv


\* Every step keeps the invariant; one step per action, those that touch none of
\* the answers together.
LEMMA IInvStep == TypeOK /\ IInv /\ [Next]_vars => IInv'
  <1> SUFFICES ASSUME TypeOK, IInv, [Next]_vars PROVE IInv'
    OBVIOUS
  <1>1. ASSUME NEW q \in Question, NEW v \in Text, Answer(q, v) PROVE IInv'
    BY <1>1, EditStep
  <1>2. ASSUME Render \/ AutosaveSkipped \/ RetryFires PROVE IInv'
    BY <1>2, QuietStep DEF coreVars, Render, AutosaveSkipped, RetryFires
  <1>3. ASSUME NEW p \in Autosave, AutosaveFires(p) PROVE IInv'
    BY <1>3, AutosaveStep
  <1>4. ASSUME NEW p \in Saver, ChunkSaved(p) PROVE IInv'
    BY <1>4, ChunkStep
  <1>5. ASSUME NEW p \in Saver, AutosaveSucceeds(p) PROVE IInv'
    BY <1>5, AutosavedStep
  <1>6. ASSUME NEW p \in Saver, SaveRefused(p) PROVE IInv'
    BY <1>6, RefusedStep
  <1>7. ASSUME NEW p \in Saver, SaveFailed(p) PROVE IInv'
    BY <1>7, FailedStep
  <1>8. ASSUME NEW p \in Saver, SubmitSaved(p) PROVE IInv'
    BY <1>8, SubmitSavedStep
  <1>9. ASSUME NEW p \in Saver, SubmitSucceeds(p) \/ SubmitFails(p) PROVE IInv'
    BY <1>9, SubmitEndStep
  <1>10. ASSUME NEW s \in Flow, Submit(s) PROVE IInv'
    BY <1>10, SubmitStep DEF Submit
  <1>11. ASSUME NEW s \in Flow, TimeUp(s) PROVE IInv'
    <2>1. CASE BeginSubmit(s)
      BY <2>1, SubmitStep
    <2>2. CASE ~BeginSubmit(s)
      BY <1>11, <2>2, QuietStep DEF coreVars, TimeUp, CountdownEffect
    <2>3. QED
      BY <2>1, <2>2
  <1>12. ASSUME TabBlocked \/ TabUnblocked \/ Resync PROVE IInv'
    BY <1>12, QuietStep DEF coreVars, TabBlocked, TabUnblocked, Resync
  <1>13. ASSUME Reload PROVE IInv'
    BY <1>13, ReloadStep
  <1>14. ASSUME NEW p \in Saver, SaveArrives(p) PROVE IInv'
    BY <1>14, ArriveStep
  <1>15. ASSUME NEW p \in Saver, Failure(p) \/ SubmitArrives(p) PROVE IInv'
    <2>1. CASE SaveUnauthorized(p)
      BY <2>1, GotoStep DEF SaveUnauthorized
    <2>2. CASE SaveTimesOut(p)
      BY <2>2, GotoStep DEF SaveTimesOut
    <2>3. CASE SubmitTimesOut(p)
      BY <2>3, GotoStep DEF SubmitTimesOut
    <2>4. CASE SubmitArrives(p)
      BY <2>4, GotoStep DEF SubmitArrives
    <2>5. QED
      BY <1>15, <2>1, <2>2, <2>3, <2>4 DEF Failure
  <1>16. ASSUME LateSaveArrives PROVE IInv'
    BY <1>16, LateStep
  <1>17. ASSUME Flush PROVE IInv'
    BY <1>17, FlushStep
  <1>18. ASSUME Expire \/ Sweep PROVE IInv'
    BY <1>18, QuietStep DEF coreVars, Expire, Sweep
  <1>19. ASSUME UNCHANGED vars PROVE IInv'
    BY <1>19, QuietStep DEF coreVars, vars
  <1>20. QED
    BY <1>1, <1>2, <1>3, <1>4, <1>5, <1>6, <1>7, <1>8, <1>9, <1>10, <1>11, <1>12,
       <1>13, <1>14, <1>15, <1>16, <1>17, <1>18, <1>19
      DEF Next, Reply, Arrival, ResyncFires, ResyncOnEvent

\* The types and the invariant hold in every reachable state.
LEMMA IInvAlways == Spec => [](TypeOK /\ IInv)
  BY TypeInit, TypeStep, IInvInit, IInvStep, PTL DEF Spec

-----------------------------------------------------------------------------
(***************************************************************************)
(* The safety properties.                                                  *)
(***************************************************************************)
\* No answer is forgotten: what handleSaveSuccess, a refusal or a reload does to
\* it, it stays acknowledged, still to be saved, or marked as refused.
THEOREM NothingForgotten == Spec => []NoSilentLoss
  <1>1. IInv => NoSilentLoss
    BY DEF IInv, LossInv, NoSilentLoss
  <1>2. QED
    BY <1>1, IInvAlways, PTL

\* What the page calls saved is on the server: of every answer it has heard of,
\* the request has been carried out, and requests that come in order move the
\* store forward.
THEOREM SavedIsTrue == Spec => []SavedIsStored
  <1>1. TypeOK /\ IInv => SavedIsStored
    <2> SUFFICES ASSUME TypeOK, IInv, NEW q \in Sound, saved[q] # 0
                 PROVE  Same(store[q], saved[q]) \/ store[q] > saved[q]
      BY DEF SavedIsStored, Sound
    <2>1. saved[q] <= store[q]
      BY DEF IInv, SavedInv
    <2>2. saved[q] \in Nat /\ store[q] \in Nat
      BY DEF TypeOK, Sound
    <2>3. QED
      BY <2>1, <2>2 DEF Same
  <1>2. QED
    BY <1>1, IInvAlways, PTL

\* A submit is sent when every answer that was on the page when it began is on the
\* server, cleared ones too unless GivenUp names them, whatever was typed, refused or
\* sent again by an autosave meanwhile.
THEOREM SubmitsCarryAnswers == Spec => []SubmitCarriesAnswers
  <1>1. TypeOK /\ IInv => SubmitCarriesAnswers
    <2> SUFFICES ASSUME TypeOK, IInv, NEW s \in Flow, NEW q \in Sound,
                        pc[s] \in {"submit", "submitted"}, goal[s][q] # 0
                 PROVE  store[q] >= goal[s][q] \/ Same(store[q], goal[s][q])
      BY DEF SubmitCarriesAnswers, Sound
    <2>1. goal[s][q] <= store[q]
      BY DEF IInv, GoalInv
    <2>2. goal[s][q] \in Nat /\ store[q] \in Nat
      BY DEF TypeOK, Sound
    <2>3. QED
      BY <2>1, <2>2
  <1>2. QED
    BY <1>1, IInvAlways, PTL

\* The badge of a question calls an answer saved only if the server has it or a
\* newer one, and says that it is being saved only while some save has it.
THEOREM BadgesHonest == Spec => []BadgeHonest
  <1>1. TypeOK /\ IInv => BadgeHonest
    <2> SUFFICES ASSUME TypeOK, IInv, NEW q \in Question
                 PROVE  /\ Badge(q) = "saved" /\ q \notin crossed \cup swallowed =>
                             Same(store[q], answers[q]) \/ store[q] > answers[q]
                        /\ Badge(q) = "saving" => \E p \in Saver : pending[p][q] # 0
      BY DEF BadgeHonest
    <2>1. ASSUME Badge(q) = "saved", q \notin crossed \cup swallowed
          PROVE  Same(store[q], answers[q]) \/ store[q] > answers[q]
      <3>1. answers[q] # 0 /\ Same(saved[q], answers[q])
        BY <2>1 DEF Badge, TypeOK
      <3>2. saved[q] = answers[q] /\ saved[q] <= store[q]
        BY <2>1, <3>1 DEF IInv, SavedInv, Sound, Same
      <3>3. saved[q] \in Nat /\ store[q] \in Nat
        BY DEF TypeOK
      <3>4. QED
        BY <3>2, <3>3 DEF Same
    <2>2. ASSUME Badge(q) = "saving" PROVE \E p \in Saver : pending[p][q] # 0
      <3>1. q \in saving
        BY <2>2 DEF Badge, TypeOK
      <3>2. QED
        BY <3>1 DEF IInv, SavingInv
    <2>3. QED
      BY <2>1, <2>2
  <1>2. QED
    BY <1>1, IInvAlways, PTL

=============================================================================
