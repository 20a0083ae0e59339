---------------------------- MODULE MCTokenCache ----------------------------
(* Small instances of TokenCache for TLC.                                  *)
EXTENDS TokenCache, TLC

MCInputs == [source : {1, 2}, language : {"rust"}]
              \union {[source |-> 1, language |-> "js"], [source |-> 5, language |-> "js"]}

(* A source of size 5 exceeds the cache of 4; the others do not.           *)
MCSizeOf == [i \in MCInputs |-> i.source]

MCSymmetry == Permutations(Resources)
==============================================================================
