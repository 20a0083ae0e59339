----------------------------- MODULE TokenCache -----------------------------
(***************************************************************************)
(* The token cache of the WASM module (wasm/src/cache.rs): tokenization    *)
(* results by resource, bounded in bytes, the least recently used evicted  *)
(* first.  It lives on one thread, and each exported call is one action.   *)
(*                                                                         *)
(* The tokens of a source in a language are named by the pair itself, and  *)
(* so is the hash the cache compares sources by.                           *)
(***************************************************************************)
EXTENDS Integers, FiniteSetsExt

CONSTANTS
  Resources,
  Inputs,        (* what is tokenized: records of a source and a language   *)
  SizeOf,        (* the bytes of an entry for an input                      *)
  MaxBytes,      (* MAX_CACHE_BYTES                                         *)
  MaxAccesses    (* bound: calls stop when the counter reaches it           *)

ASSUME TokenCacheAssumption ==
  /\ SizeOf \in [Inputs -> Nat]
  /\ MaxBytes \in Nat \ {0}

VARIABLES
  cache,           (* TOKEN_CACHE: a function on the cached resources       *)
  total_bytes,     (* TOTAL_BYTES                                           *)
  access_counter,  (* ACCESS_COUNTER                                        *)
  served           (* auxiliary: what the last call asked for and was given *)

vars == <<cache, total_bytes, access_counter, served>>

Init ==
  /\ cache = [r \in {} |-> 0]
  /\ total_bytes = 0
  /\ access_counter = 0
  /\ served = {}

SaturatingSub(a, b) == IF b <= a THEN a - b ELSE 0

Bytes(entries, rs) == MapThenSumSet(LAMBDA r : entries[r].size_bytes, rs)

Without(entries, rs) == [r \in DOMAIN entries \ rs |-> entries[r]]

(* A mutant: the n most recently used.                                     *)
Newest(n) ==
  {r \in DOMAIN cache :
     Cardinality({s \in DOMAIN cache : cache[s].last_access > cache[r].last_access}) < n}

(* The n least recently used of the cached resources.                      *)
Oldest(n) ==
  {r \in DOMAIN cache :
     Cardinality({s \in DOMAIN cache : cache[s].last_access < cache[r].last_access}) < n}

(* A mutant: evicts until what is cached fits, without the new entry.      *)
EvictedWithoutNeed(needed) ==
  LET count == Cardinality(DOMAIN cache)
      room  == {n \in 0..count :
                  SaturatingSub(total_bytes, Bytes(cache, Oldest(n))) <= MaxBytes}
  IN  IF needed > MaxBytes THEN {} ELSE Oldest(Min(room \union {count}))

(* evict_if_needed removes the least recently used until there is room, or *)
(* nothing left; it makes no room for what exceeds the whole cache.        *)
Evicted(needed) ==
  LET count == Cardinality(DOMAIN cache)
      room  == {n \in 0..count :
                  SaturatingSub(total_bytes, Bytes(cache, Oldest(n))) + needed <= MaxBytes}
  IN  IF needed > MaxBytes THEN {} ELSE Oldest(Min(room \union {count}))

(* Mutants: the bytes of the entry that is replaced stay in the total; the *)
(* entry is stamped before the counter moves.                              *)
StoreOverOld(resource, input) ==
  LET size  == SizeOf[input]
      gone  == Evicted(size)
      kept  == Without(cache, gone \union {resource})
      total == SaturatingSub(total_bytes, Bytes(cache, gone))
  IN  /\ access_counter' = access_counter + 1
      /\ cache' = [r \in DOMAIN kept \union {resource} |->
                     IF r = resource
                       THEN [input |-> input, tokens |-> input, size_bytes |-> size,
                             last_access |-> access_counter + 1]
                       ELSE kept[r]]
      /\ total_bytes' = total + size

StoreStampedEarly(resource, input) ==
  LET size  == SizeOf[input]
      gone  == Evicted(size)
      old   == {resource} \intersect (DOMAIN cache \ gone)
      kept  == Without(cache, gone \union old)
      total == SaturatingSub(SaturatingSub(total_bytes, Bytes(cache, gone)),
                             Bytes(cache, old))
  IN  /\ access_counter' = access_counter + 1
      /\ cache' = [r \in DOMAIN kept \union {resource} |->
                     IF r = resource
                       THEN [input |-> input, tokens |-> input, size_bytes |-> size,
                             last_access |-> access_counter]
                       ELSE kept[r]]
      /\ total_bytes' = total + size

(* What prime, tokenize and tokenize_range do on a miss: evict for the new *)
(* entry, then take out the old one of the resource, then insert.          *)
Store(resource, input) ==
  LET size  == SizeOf[input]
      gone  == Evicted(size)
      old   == {resource} \intersect (DOMAIN cache \ gone)
      kept  == Without(cache, gone \union old)
      total == SaturatingSub(SaturatingSub(total_bytes, Bytes(cache, gone)),
                             Bytes(cache, old))
  IN  /\ access_counter' = access_counter + 1
      /\ cache' = [r \in DOMAIN kept \union {resource} |->
                     IF r = resource
                       THEN [input |-> input, tokens |-> input, size_bytes |-> size,
                             last_access |-> access_counter + 1]
                       ELSE kept[r]]
      /\ total_bytes' = total + size

AccessBound == access_counter < MaxAccesses

Prime(resource, input) ==
  /\ AccessBound
  /\ Store(resource, input)
  /\ served' = {}

(* A mutant: only the source is compared.                                  *)
IsHitOfSource(resource, input) ==
  resource \in DOMAIN cache /\ cache[resource].input.source = input.source

(* The source is compared by its hash, the language by name.               *)
IsHit(resource, input) ==
  resource \in DOMAIN cache /\ cache[resource].input = input

(* tokenize, and tokenize_range, which returns the tokens of some lines of *)
(* the same result.                                                        *)
Tokenize(resource, input) ==
  /\ AccessBound
  /\ IF IsHit(resource, input)
       THEN /\ access_counter' = access_counter + 1
            /\ cache' = [cache EXCEPT ![resource].last_access = access_counter + 1]
            /\ served' = {[asked |-> input, given |-> cache[resource].tokens]}
            /\ UNCHANGED total_bytes
       ELSE /\ Store(resource, input)
            /\ served' = {[asked |-> input, given |-> input]}

(* A mutant: the entry stays, and the subtraction may go below zero.       *)
InvalidateKept(resource) ==
  /\ resource \in DOMAIN cache
  /\ total_bytes' = total_bytes - cache[resource].size_bytes
  /\ served' = {}
  /\ UNCHANGED <<cache, access_counter>>

Invalidate(resource) ==
  /\ resource \in DOMAIN cache
  /\ cache' = Without(cache, {resource})
  /\ total_bytes' = SaturatingSub(total_bytes, cache[resource].size_bytes)
  /\ served' = {}
  /\ UNCHANGED access_counter

Clear ==
  /\ cache' = [r \in {} |-> 0]
  /\ total_bytes' = 0
  /\ served' = {}
  /\ UNCHANGED access_counter

Next ==
  \/ \E resource \in Resources, input \in Inputs :
       Prime(resource, input) \/ Tokenize(resource, input)
  \/ \E resource \in Resources : Invalidate(resource)
  \/ Clear

Spec == Init /\ [][Next]_vars

----------------------------------------------------------------------------
(* Properties.                                                             *)

Entry == [input : Inputs, tokens : Inputs, size_bytes : Nat, last_access : Nat]

(* Every variable holds a value of its type.                               *)
TypeOK ==
  /\ DOMAIN cache \subseteq Resources
  /\ \A r \in DOMAIN cache : cache[r] \in Entry
  /\ total_bytes \in Nat
  /\ access_counter \in Nat
  /\ served \subseteq [asked : Inputs, given : Inputs]

(* The running total is the sum of what is cached, through every miss that *)
(* evicts, replaces and inserts at once: the saturating subtractions never *)
(* hide a difference.                                                      *)
BytesAccounted == total_bytes = Bytes(cache, DOMAIN cache)

(* The entries that fit the cache fit it together (cache.rs, MAX_CACHE_BYTES *)
(* and evict_if_needed).                                                   *)
WithinLimit ==
  Bytes(cache, {r \in DOMAIN cache : cache[r].size_bytes <= MaxBytes}) <= MaxBytes

(* No two entries were last used at the same time, so that which one is    *)
(* evicted never depends on the order the map happens to iterate in.       *)
RecencyUnique ==
  \A r, s \in DOMAIN cache : cache[r].last_access = cache[s].last_access => r = s

(* What a call returns is the result for the source and the language it    *)
(* asked for, whatever was cached for the resource before.                 *)
ServedFresh == \A answer \in served : answer.given = answer.asked

(* A step that evicts to store an entry keeps nothing that was used less   *)
(* recently than what it evicts, and never evicts when there was room.     *)
EvictsOldest ==
  [][\A resource \in Resources, input \in Inputs :
       Store(resource, input) =>
         LET gone == DOMAIN cache \ DOMAIN cache'
             kept == (DOMAIN cache \intersect DOMAIN cache') \ {resource}
         IN  /\ \A g \in gone, k \in kept : cache[g].last_access < cache[k].last_access
             /\ gone # {} => total_bytes + SizeOf[input] > MaxBytes]_vars
==============================================================================
