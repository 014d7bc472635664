----------------------------- MODULE AttemptFlow -----------------------------
(***************************************************************************)
(* An attempt from the first page to the last: the guarded exam, its       *)
(* submission, the grading, the result and the review. Each page starts    *)
(* anew when it is shown.                                                  *)
(***************************************************************************)
EXTENDS AttemptGuards, ResultPages

vars == <<routeVars, guardVars, resultVars>>

Init == RouteInit /\ GuardsInit /\ ResultInit

\* A step of the exam page; where it leads to another page, that one opens.
GuardsStep ==
  /\ GuardsNext
  /\ UNCHANGED windowOpen
  /\ IF route' = route THEN UNCHANGED <<loadVars, offerVars>> ELSE Open

ResultStep == ResultNext /\ UNCHANGED guardVars

Next == GuardsStep \/ ResultStep

Spec == Init /\ [][Next]_vars

FairSpec == Spec /\ GuardsFairness /\ ResultFairness

\* What the variables hold; what belongs to a page that is not shown is as new.
TypeOK ==
  /\ route \in Page /\ status \in {"open", "grading", "graded"}
  /\ sheet \in Sheet \cup {NoSheet} /\ faults \in 0 .. MaxFaults
  /\ GuardsTypeOK /\ ResultTypeOK
  /\ route # "attempt" => Mounted
  /\ route = "home" => Opened

=============================================================================
