---------------------------- MODULE MCTextBuffer ----------------------------
(* Small instances of TextBuffer for TLC.                                  *)
EXTENDS TextBuffer

MCChars == {"a", "b", "lf", "cr"}
MCOneByte == [c \in MCChars |-> 1]
(* With a letter outside ASCII: two bytes, one UTF-16 unit.                *)
MCTwoByteLetter == [MCOneByte EXCEPT !["b"] = 2]

At(l, c) == [line |-> l, column |-> c]
MCPositions == {At(1, 1), At(1, 3), At(2, 1), At(2, 2)}
MCContents == {<<"a", "b">>, <<"b", "lf", "a">>}
MCInserts == {<<>>, <<"a">>, <<"b", "lf">>}
(* The last batch is one of which an undo and a redo change the text and   *)
(* report nothing.                                                         *)
MCBatches ==
  {<<[start |-> At(1, 2), end |-> At(1, 3), text |-> <<"lf">>],
     [start |-> At(1, 1), end |-> At(2, 1), text |-> <<"b">>]>>,
   <<[start |-> At(2, 1), end |-> At(1, 1), text |-> <<>>],
     [start |-> At(2, 1), end |-> At(2, 1), text |-> <<"a">>]>>,
   <<[start |-> At(1, 1), end |-> At(1, 2), text |-> <<"a">>],
     [start |-> At(1, 1), end |-> At(2, 2), text |-> <<"b">>]>>}
==============================================================================
