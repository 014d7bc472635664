-------------------------------- MODULE Paper --------------------------------
(***************************************************************************)
(* An exam paper, its grading by the server (gradeMathAttemptResult) and   *)
(* the three ways in which the pages of the client read the same answers   *)
(* again: the dots of the result page, the navigator of the review page    *)
(* and the marks on the options of its questions.                          *)
(*                                                                         *)
(* A paper is a sequence of rows; the statements of a true/false question  *)
(* are rows of their own below a cluster_context. A sheet is a paper with  *)
(* its key and the answers given. The key of a row can be written unlike   *)
(* the answers ("true" for "True"): then it is not plain.                  *)
(***************************************************************************)
EXTENDS Integers, Sequences, FiniteSets, SequencesExt

NoParent == "none"     \* parent_id is null
Blank == ""            \* no answer

\* A paper as the exam import makes it: the statements, and nothing else, belong
\* to a cluster.
WellFormed(paper) ==
  /\ Len(paper) \in Nat /\ DOMAIN paper = 1 .. Len(paper)
  /\ \A i, j \in DOMAIN paper : paper[i].id = paper[j].id => i = j
  /\ \A i \in DOMAIN paper :
       LET r == paper[i] IN
       /\ r.id # NoParent
       /\ r.type \in {"single_choice", "short_answer", "cluster_context", "true_false"}
       /\ r.type = "true_false" <=> r.parent # NoParent
       /\ r.type = "true_false" =>
            \E j \in DOMAIN paper : /\ paper[j].id = r.parent
                                    /\ paper[j].type = "cluster_context"

\* The statements have a key, True or False.
StatementsKeyed(sheet) ==
  \A r \in ToSet(sheet.paper) : r.type = "true_false" => sheet.key[r.id].text # Blank

-----------------------------------------------------------------------------
(***************************************************************************)
(* How the pages lay the paper out: buildGroupedQuestions and the grouping *)
(* of the attempt page.                                                    *)
(***************************************************************************)
\* The rows at the positions I, in the order of the paper.
RowsAt(paper, I) ==
  [n \in 1 .. Cardinality(I) |->
     paper[CHOOSE i \in I : Cardinality({j \in I : j <= i}) = n]]

Section(paper, type) ==
  RowsAt(paper, {i \in DOMAIN paper : paper[i].parent = NoParent /\ paper[i].type = type})

Children(paper, q) == {r \in ToSet(paper) : r.parent = q}

Statements(paper, q) == {r.id : r \in Children(paper, q)}

\* The rows that take an answer to the question q.
Parts(paper, q) == IF q.type = "cluster_context" THEN Statements(paper, q.id) ELSE {q.id}

Sections(paper) ==
  << Section(paper, "single_choice"), Section(paper, "cluster_context"),
     Section(paper, "short_answer") >>

\* In this order, numbered from 1.
Grouped(paper) == Sections(paper)[1] \o Sections(paper)[2] \o Sections(paper)[3]

\* answeredQuestions of the attempt page: the numbers of the questions with an
\* answer to them or to one of their statements.
Answered(paper, given) ==
  {n \in DOMAIN Grouped(paper) :
     \E p \in Parts(paper, Grouped(paper)[n]) : given[p] # Blank}

-----------------------------------------------------------------------------
(***************************************************************************)
(* The server: points in hundredths, from the rows one by one; statements  *)
(* in groups by parent. Both sides lower-case and trim before comparing.   *)
(***************************************************************************)
Points(type) == IF type = "single_choice" THEN 25 ELSE 50

\* Points of a group for the number of its statements that are right.
GroupPoints(n) ==
  CASE n = 1 -> 10 [] n = 2 -> 25 [] n = 3 -> 50 [] n = 4 -> 100 [] OTHER -> 0

Right(sheet, q) == sheet.given[q] # Blank /\ sheet.given[q] = sheet.key[q].text

Score(sheet) ==
  LET rows == ToSet(sheet.paper)
      simple == {r \in rows : r.type \in {"single_choice", "short_answer"}}
      groups == {r.parent : r \in {x \in rows : x.type = "true_false"}}
      right(g) == {r \in rows : r.parent = g /\ Right(sheet, r.id)}
  IN SumFunction([r \in {x \in simple : Right(sheet, x.id)} |-> Points(r.type)])
     + SumFunction([g \in groups |-> GroupPoints(Cardinality(right(g)))])

\* correct, wrong and skipped of the result.
Counts(sheet) ==
  LET graded == {r.id : r \in {x \in ToSet(sheet.paper) : x.type # "cluster_context"}}
      skipped == {q \in graded : sheet.given[q] = Blank}
      correct == {q \in graded : Right(sheet, q)}
  IN [correct |-> Cardinality(correct),
      wrong   |-> Cardinality(graded \ (skipped \cup correct)),
      skipped |-> Cardinality(skipped)]

-----------------------------------------------------------------------------
(***************************************************************************)
(* The result page: buildDetailSections, one dot per question.             *)
(***************************************************************************)
\* Mutant of Normalized: the key is compared as it is written.
AsWritten(sheet, q) ==
  IF sheet.key[q].plain THEN sheet.key[q].text ELSE "otherwise"

\* normalizeAnswer of the key.
Normalized(sheet, q) == sheet.key[q].text

SimpleDot(sheet, q) ==
  LET selected == sheet.given[q] IN
  [correct |-> IF selected # Blank /\ selected = Normalized(sheet, q) THEN 1 ELSE 0,
   wrong   |-> IF selected # Blank /\ selected # Normalized(sheet, q) THEN 1 ELSE 0,
   skipped |-> IF selected # Blank THEN 0 ELSE 1]

TrueFalseDot(sheet, q) ==
  LET statements == Statements(sheet.paper, q)
      skipped == {s \in statements : sheet.given[s] = Blank}
      correct == {s \in statements \ skipped : sheet.given[s] = Normalized(sheet, s)}
  IN [correct |-> Cardinality(correct),
      wrong   |-> Cardinality(statements \ (skipped \cup correct)),
      skipped |-> Cardinality(skipped)]

Dot(sheet, q) ==
  IF q.type = "cluster_context" THEN TrueFalseDot(sheet, q.id) ELSE SimpleDot(sheet, q.id)

\* All dots of a section, in its order.
DetailSections(sheet) ==
  [i \in 1 .. 3 |-> [n \in DOMAIN Sections(sheet.paper)[i] |->
                       Dot(sheet, Sections(sheet.paper)[i][n])]]

-----------------------------------------------------------------------------
(***************************************************************************)
(* The review page compares answers with the key as it is written.         *)
(***************************************************************************)
Matches(sheet, q) == sheet.given[q] = sheet.key[q].text /\ sheet.key[q].plain

\* Mutant of ResultsMap: one right statement is enough.
ResultsMapAny(sheet) ==
  [n \in Answered(sheet.paper, sheet.given) |->
     \E p \in Parts(sheet.paper, Grouped(sheet.paper)[n]) : Matches(sheet, p)]

\* resultsMap: whether the question with a number is right, for those with an
\* answer. A cluster is right if all its statements are, one without an answer
\* is not.
ResultsMap(sheet) ==
  [n \in Answered(sheet.paper, sheet.given) |->
     \A p \in Parts(sheet.paper, Grouped(sheet.paper)[n]) : Matches(sheet, p)]

\* QuestionNavigator in the mode "review".
NavigatorColour(results, n) ==
  IF n \notin DOMAIN results THEN "plain" ELSE IF results[n] THEN "green" ELSE "red"

\* MultipleChoice: how an option is marked.
OptionMark(sheet, q, option) ==
  LET checked == sheet.given[q] = option
      correct == sheet.key[q].plain /\ sheet.key[q].text = option
  IN CASE checked /\ correct -> "chosen"
       [] ~checked /\ correct -> "key"
       [] checked /\ ~correct -> "wrong"
       [] OTHER -> "plain"

\* TrueFalse: how a cell of a statement is marked.
StatementMark(sheet, s, option) ==
  LET selected == sheet.given[s] = option
      correct == sheet.key[s].plain /\ sheet.key[s].text = option
  IN IF correct THEN IF selected THEN "chosen" ELSE "key"
     ELSE IF selected THEN "wrong" ELSE "plain"

\* ShortAnswer: how its boxes are marked.
BoxMark(sheet, q) ==
  CASE sheet.given[q] = Blank -> "plain"
    [] sheet.given[q] # Blank /\ Matches(sheet, q) -> "chosen"
    [] OTHER -> "wrong"

\* The marks of the answers to a question.
AnswerMarks(sheet, q) ==
  LET mark(p) ==
        CASE q.type = "short_answer" -> BoxMark(sheet, p)
          [] q.type # "short_answer" /\ sheet.given[p] = Blank -> "plain"
          [] q.type = "single_choice" /\ sheet.given[p] # Blank ->
               OptionMark(sheet, p, sheet.given[p])
          [] OTHER -> StatementMark(sheet, p, sheet.given[p])
  IN {mark(p) : p \in Parts(sheet.paper, q)}

=============================================================================
