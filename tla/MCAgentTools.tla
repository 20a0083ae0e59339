---------------------------- MODULE MCAgentTools ----------------------------
(* A small instance of AgentTools for TLC.                                 *)
EXTENDS AgentTools

CONSTANTS p, q

MCChars == {"k", "x", "X", " ", "lf", "cr"}
MCWhitespace == {" ", "lf", "cr"}
MCLower == [c \in MCChars |-> IF c = "X" THEN "x" ELSE c]
MCOneByte == [c \in MCChars |-> 1]

At(l, c) == [line |-> l, column |-> c]
Edit(start, end, text) == [start |-> start, end |-> end, text |-> text]
MCContents == {<<"k", "cr", "lf">>, <<" ", "k", "X">>}
(* A join of two lines, an insertion, and one that only a text of two      *)
(* lines accepts.                                                          *)
MCEdits == {Edit(At(1, 1), At(2, 1), <<>>), Edit(At(1, 1), At(1, 1), <<"lf">>)}
MCQueries == {<<"x">>, <<"lf">>}
MCNames == {<<"x">>, <<>>}
MCSpots == {[line |-> 1, column |-> 0]}
MCMaxVersion == (p :> 3) @@ (q :> 1)
MCMaxLives == (p :> 2) @@ (q :> 1)
==============================================================================
