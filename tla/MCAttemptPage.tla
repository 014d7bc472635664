---------------------------- MODULE MCAttemptPage ----------------------------
(***************************************************************************)
(* Small instances of AttemptPage for TLC.                                 *)
(***************************************************************************)
EXTENDS AttemptPage, TLC

\* Slots of one kind, questions, and texts that are not blank, differ only in their
\* names.
Symmetry == Permutations(Autosave) \cup Permutations(Flow)
              \cup Permutations(Text \ {Blank}) \cup Permutations(Question)
=============================================================================
