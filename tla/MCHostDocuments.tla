--------------------------- MODULE MCHostDocuments ---------------------------
(* A small instance of HostDocuments for TLC.                              *)
EXTENDS HostDocuments

CONSTANTS p, q, d, e, short, long, binary

MCDirOf == (p :> d) @@ (q :> e)
(* Two changes can wait for p; q is the path p is saved as and opened over. *)
MCMaxVersion == (p :> 3) @@ (q :> 1)
(* A long file is too large to be opened, a text can grow to be long.      *)
MCSize == (short :> 0) @@ (long :> 2) @@ (binary :> 1)
==============================================================================
