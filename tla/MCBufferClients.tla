--------------------------- MODULE MCBufferClients ---------------------------
(* Small instances of BufferClients for TLC.                               *)
EXTENDS BufferClients

MCChars == {"a", "b", "lf", "cr"}
MCOneByte == [c \in MCChars |-> 1]

At(l, c) == [line |-> l, column |-> c]
MCPositions == {At(1, 1), At(1, 2), At(1, 3), At(2, 1), At(2, 2)}
MCContents == {<<"a", "b">>, <<"b", "lf", "a">>}
MCInserts == {<<>>, <<"a">>, <<"b", "lf">>}
==============================================================================
