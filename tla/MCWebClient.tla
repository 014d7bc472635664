----------------------------- MODULE MCWebClient -----------------------------
EXTENDS WebClient

CONSTANTS u1, u2

\* The session with each group of pages; a second user where what is shown could be
\* another's.
MCTours ==
  { [links |-> {"login", "register", "rooms", "room", "payment"}, users |-> {u1, u2}],
    [links |-> {"landing", "login", "exams"}, users |-> {u1, u2}],
    [links |-> {"login", "rooms", "room", "exam"}, users |-> {u1}],
    [links |-> {"login", "exams", "exam"}, users |-> {u1}],
    [links |-> {"login", "profile"}, users |-> {u1}],
    [links |-> {"login", "history"}, users |-> {u1, u2}] }

=============================================================================
