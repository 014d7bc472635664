---------------------------- MODULE MCAttemptFlow ----------------------------
EXTENDS AttemptFlow

\* A question of each kind, the cluster with two statements, in an order that is
\* not that of the sections.
MCPaper ==
  << [id |-> "n", type |-> "short_answer",    parent |-> NoParent],
     [id |-> "c", type |-> "cluster_context", parent |-> NoParent],
     [id |-> "a", type |-> "true_false",      parent |-> "c"],
     [id |-> "s", type |-> "single_choice",   parent |-> NoParent],
     [id |-> "b", type |-> "true_false",      parent |-> "c"] >>

\* Answers that are right, wrong or missing, all combinations of the cluster; keys
\* written otherwise in some; an exam with a window if the short answer is wrong.
MCSheet ==
  {[paper  |-> MCPaper,
    key    |-> [q \in {"n", "a", "b", "s", "c"} |->
                  [text |-> "True",
                   plain |-> ~(q \in {"n", "a"} /\ n = "True" /\ b = Blank)]],
    given  |-> [q \in {"n", "a", "b", "s", "c"} |->
                  CASE q = "c" -> Blank [] q = "n" -> n [] q = "a" -> a [] q = "b" -> b
                    [] OTHER -> IF a = "True" THEN "False" ELSE IF a = "False" THEN Blank
                                ELSE "True"],
    window |-> n = "False"] :
   n \in {"True", "False"}, a \in {"True", "False", Blank}, b \in {"True", Blank}}

=============================================================================
