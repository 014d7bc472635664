----------------------------- MODULE AttemptRoute -----------------------------
(***************************************************************************)
(* What the pages about an attempt share: the page that is shown and the   *)
(* state of the attempt on the server (AnswerBuffer and SubmitPipeline     *)
(* have its details).                                                      *)
(***************************************************************************)
EXTENDS Integers, Paper

CONSTANTS
  MaxFaults,   \* bounds the failed requests and the reloads
  Sheet        \* the papers with answers an attempt can end with

ASSUME RouteAssumption ==
  /\ MaxFaults \in Nat
  /\ \A s \in Sheet : WellFormed(s.paper) /\ StatementsKeyed(s)

VARIABLES
  route,    \* "attempt", "result", "review", or "home" for all other pages
  status,   \* "open", "grading" or "graded"
  sheet,    \* what was graded
  faults    \* failed requests and reloads so far

routeVars == <<route, status, sheet, faults>>

Page == {"attempt", "result", "review", "home"}
NoSheet == [paper |-> <<>>, key |-> <<>>, given |-> <<>>, window |-> FALSE]

RouteInit ==
  /\ route = "home" /\ status = "open"
  /\ sheet = NoSheet /\ faults = 0

\* One more request fails.
Fault == faults < MaxFaults /\ faults' = faults + 1

=============================================================================
