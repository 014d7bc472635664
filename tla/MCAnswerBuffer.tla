--------------------------- MODULE MCAnswerBuffer ---------------------------
(***************************************************************************)
(* Small instances of AnswerBuffer for TLC.                                *)
(***************************************************************************)
EXTENDS AnswerBuffer, TLC

CONSTANTS q1, q2, s1, s2

\* Two questions, each in a section of its own.
MCSectionOf == (q1 :> s1) @@ (q2 :> s2)
=============================================================================
