---------------------------- MODULE MCEditorSync ----------------------------
(* Small instances of EditorSync for TLC.                                  *)
EXTENDS EditorSync

Put(i, n, t) == [at |-> i, cut |-> n, put |-> t]

MCTexts == {<<"a">>}
(* An insertion, a deletion, a replacement.                                *)
MCEdits == {<<Put(0, 0, <<"b">>)>>, <<Put(0, 1, <<>>)>>, <<Put(1, 1, <<"a", "b">>)>>}
(* With two cursors, an insertion at each.                                 *)
MCTwoCursors == {<<Put(0, 0, <<"b">>)>>, <<Put(1, 0, <<"c">>), Put(0, 0, <<"c">>)>>}
==============================================================================
