----------------------------- MODULE MCDidChange -----------------------------
(* Small instances of DidChange for TLC.                                    *)
EXTENDS DidChange
==============================================================================
