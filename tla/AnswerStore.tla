---------------------------- MODULE AnswerStore ----------------------------
(***************************************************************************)
(* What saving answers promises a candidate, with no word of how: every    *)
(* accepted answer is the current one until a later save replaces it, and  *)
(* what is durable follows what is current without ever going back.        *)
(*                                                                         *)
(* An answer is named by the number of the save that carried it, so that   *)
(* "newer" is ">"; 0 stands for a question nobody has answered.            *)
(***************************************************************************)
EXTENDS Naturals

CONSTANT Question

VARIABLES
  current,   \* per question, the answer the system stands by
  durable,   \* per question, the answer in the database
  saves      \* how many saves were accepted

storeVars == <<current, durable, saves>>

Init ==
  /\ current = [q \in Question |-> 0]
  /\ durable = [q \in Question |-> 0]
  /\ saves = 0

\* A save of the questions qs becomes their current answer.
Accept(qs) ==
  /\ saves' = saves + 1
  /\ current' = [q \in Question |-> IF q \in qs THEN saves + 1 ELSE current[q]]
  /\ UNCHANGED durable

\* Some accepted answers reach the database, none of them older than what
\* the database already holds and none that was not accepted.
Persist ==
  /\ durable' \in [Question -> Nat]
  /\ \A q \in Question : durable[q] <= durable'[q] /\ durable'[q] <= current[q]
  /\ UNCHANGED <<current, saves>>

Next ==
  \/ \E qs \in SUBSET Question : qs # {} /\ Accept(qs)
  \/ Persist

Spec == Init /\ [][Next]_storeVars
=============================================================================
