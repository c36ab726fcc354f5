----------------------------- MODULE MCTransport -----------------------------
EXTENDS Transport

Theme(kinds, says, calls) == [kinds |-> kinds, says |-> says, calls |-> calls]

\* Three calls while the server says two things; two messages of the agent before
\* a turn completes; a turn whose messages and completion are on two connections.
MCThemes ==
  {Theme({"note", "delta"}, 2, 3), Theme({"ask", "note", "broken"}, 2, 3),
   Theme({"item", "completed"}, 3, 1), Theme({"item", "completed"}, 2, 2)}
=============================================================================
