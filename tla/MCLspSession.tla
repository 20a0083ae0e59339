----------------------------- MODULE MCLspSession -----------------------------
(* A small instance of LspSession for TLC.                                 *)
EXTENDS LspSession
==============================================================================
