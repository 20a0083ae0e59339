--------------------------- MODULE LspSession_proof ---------------------------
(***************************************************************************)
(* Proofs about the clients of language servers and the locks, for any     *)
(* number of commands and tasks and a server that writes what it likes:    *)
(* what the map of pending requests holds; the order in which every        *)
(* program takes the locks; and, from that order, who can be deadlocked.   *)
(***************************************************************************)
EXTENDS LspSession, TLAPS

(***************************************************************************)
(* The client's map of pending requests.                                   *)
(***************************************************************************)

(* A client whose last request, if any, has come to its end: only requests *)
(* that could not be written have left an entry.                           *)
Settled(c) ==
  /\ c \in ClientRecord
  /\ \A id \in c.pending : 0 < id /\ id < c.next_id
  /\ c.pending \subseteq c.left

(* A client with r in the hands of its reader thread.                      *)
Sound(c, r) ==
  /\ c \in ClientRecord
  /\ \A id \in c.pending : 0 < id /\ id < c.next_id
  /\ c.call.id < c.next_id
  /\ c.pending \subseteq c.left \union {c.call.id}
  /\ c.call.id # 0 /\ ~c.call.answered => c.call.id \in c.pending \/ r = c.call.id

Inv ==
  /\ reader \in {None} \union (Nat \ {0})
  /\ client # None => Sound(client, reader)

----------------------------------------------------------------------------
(* A new request has an id of its own, whatever the reader thread is at.   *)
LEMMA CalledSound ==
  ASSUME NEW c, Settled(c), NEW method \in {"initialize", "query", "shutdown"}, NEW r
  PROVE  Sound(Called(c, method), r)
<1> DEFINE id == c.next_id
           call == [method |-> method, id |-> id, written |-> FALSE, answered |-> FALSE]
           d == Called(c, method)
<1>1. id \in Nat \ {0} /\ c.pending \subseteq Nat /\ c.left \subseteq Nat
  BY DEF Settled, ClientRecord
<1>2. call \in CallRecord /\ call.id = id
  BY <1>1 DEF CallRecord
<1> HIDE DEF call
<1>3. /\ d = [c EXCEPT !.next_id = id + 1, !.pending = c.pending \union {id}, !.call = call]
      /\ c \in ClientRecord
  BY DEF Called, Settled, call
<1> HIDE DEF d
<1> DEFINE pending == c.pending \union {id}
<1>4. /\ d \in ClientRecord
      /\ d.next_id = id + 1 /\ d.pending = pending
      /\ d.left = c.left /\ d.call = call
  <2>1. pending \in SUBSET Nat /\ id + 1 \in Nat \ {0}
    BY <1>1
  <2> HIDE DEF pending, id
  <2>2. d = [[[c EXCEPT !.next_id = id + 1] EXCEPT !.pending = pending] EXCEPT !.call = call]
    BY <1>3 DEF pending, id
  <2>3. [c EXCEPT !.next_id = id + 1] \in ClientRecord
    BY <1>3, <2>1 DEF ClientRecord
  <2>4. [[c EXCEPT !.next_id = id + 1] EXCEPT !.pending = pending] \in ClientRecord
    BY <2>1, <2>3 DEF ClientRecord
  <2>5. d \in ClientRecord
    BY <1>2, <2>2, <2>4 DEF ClientRecord
  <2> QED BY <1>3, <2>2, <2>5 DEF ClientRecord
<1>5. /\ \A i \in d.pending : 0 < i /\ i < d.next_id
      /\ d.call.id < d.next_id
      /\ d.pending \subseteq d.left \union {d.call.id}
      /\ d.call.id \in d.pending
  BY <1>1, <1>2, <1>4 DEF Settled
<1>6. Sound(d, r)
  BY <1>4, <1>5 DEF Sound
<1> QED BY <1>6 DEF d

(* A notification makes no entry.                                          *)
LEMMA NotifiedSound ==
  ASSUME NEW c, Settled(c), NEW method \in {"initialized", "did", "exit"}, NEW r
  PROVE  Sound(Notified(c, method), r)
<1> DEFINE call == [method |-> method, id |-> 0, written |-> FALSE, answered |-> FALSE]
           d == [next_id |-> c.next_id, pending |-> c.pending, left |-> c.left, call |-> call]
<1>1. Notified(c, method) = [c EXCEPT !.call = call]
  BY DEF Notified
<1>2. call \in CallRecord /\ call.id = 0
  BY DEF CallRecord
<1> HIDE DEF call
<1>3. [c EXCEPT !.call = call] = d
  BY DEF Settled, ClientRecord
<1>4. d \in ClientRecord /\ d.call.id < d.next_id
  BY <1>2 DEF Settled, ClientRecord
<1> QED BY <1>1, <1>2, <1>3, <1>4 DEF Sound, Settled

(* After a call the client is idle, has the next one to make, or is gone.  *)
LEMMA EndedSound ==
  ASSUME NEW c, Settled(c), NEW succeeded \in BOOLEAN, NEW r
  PROVE  Ended(c, succeeded) = None \/ Sound(Ended(c, succeeded), r)
<1>1. CASE c.call.method = "initialize" /\ succeeded
  BY <1>1, NotifiedSound DEF Ended
<1>2. CASE c.call.method = "initialize" /\ ~succeeded
  BY <1>2, CalledSound DEF Ended
<1>3. CASE c.call.method = "shutdown"
  BY <1>3, NotifiedSound DEF Ended
<1>4. CASE c.call.method = "exit"
  BY <1>4 DEF Ended
<1>5. CASE c.call.method \notin {"initialize", "shutdown", "exit"}
  <2> DEFINE d == [next_id |-> c.next_id, pending |-> c.pending,
                   left |-> c.left, call |-> NoCall]
  <2>1. Ended(c, succeeded) = d
    BY <1>5 DEF Ended, Settled, ClientRecord
  <2>2. d \in ClientRecord
    BY DEF Settled, ClientRecord
  <2>3. d.call.id = 0 /\ d.call.id < d.next_id
    BY <2>2 DEF NoCall, ClientRecord
  <2> QED BY <2>1, <2>2, <2>3 DEF Sound, Settled
<1> QED BY <1>1, <1>2, <1>3, <1>4, <1>5

(* So does every call that ends, with what is left of its entry.           *)
LEMMA EndCallSound ==
  ASSUME Inv, NEW p, NEW c, Settled(c), NEW succeeded \in BOOLEAN, NEW s,
         EndCall(p, c, succeeded, s)
  PROVE  Inv'
<1>1. client' = Ended(c, succeeded)
  BY DEF EndCall
<1>2. client' # None => Sound(client', reader')
  BY <1>1, EndedSound
<1>3. reader' = None \/ reader' = reader
  BY DEF EndCall
<1> QED BY <1>2, <1>3 DEF Inv

(* A request that could not be written leaves its entry behind.            *)
LEMMA LeftSettled ==
  ASSUME NEW c, NEW r, Sound(c, r), c.call # NoCall
  PROVE  Settled([c EXCEPT !.left = @ \union {c.call.id}])
<1> DEFINE d == [next_id |-> c.next_id, pending |-> c.pending,
                 left |-> c.left \union {c.call.id}, call |-> c.call]
<1>1. [c EXCEPT !.left = @ \union {c.call.id}] = d
  BY DEF Sound, ClientRecord
<1>2. c.call \in CallRecord /\ c.call.id \in Nat
  BY DEF Sound, ClientRecord, CallRecord
<1>3. d \in ClientRecord
  BY <1>2 DEF Sound, ClientRecord
<1> QED BY <1>1, <1>3 DEF Settled, Sound

(* One that was answered or given up does not.                             *)
LEMMA ForgottenSettled ==
  ASSUME NEW c, NEW r, Sound(c, r)
  PROVE  Settled(Forgotten(c))
<1> DEFINE d == [next_id |-> c.next_id, pending |-> c.pending \ {c.call.id},
                 left |-> c.left, call |-> c.call]
<1>1. Forgotten(c) = d
  BY DEF Forgotten, Sound, ClientRecord
<1>2. d \in ClientRecord
  BY DEF Sound, ClientRecord
<1> QED BY <1>1, <1>2 DEF Settled, Sound

----------------------------------------------------------------------------
LEMMA InitInv == Init => Inv
  BY DEF Init, Inv

LEMMA SpawnInv ==
  ASSUME Inv, NEW p, Spawn(p)
  PROVE  Inv'
<1> DEFINE c == [next_id |-> 1, pending |-> {}, left |-> {}, call |-> NoCall]
<1>1. CASE UNCHANGED conversation
  BY <1>1 DEF Inv, conversation
<1>2. CASE client' = Called(c, "initialize") /\ UNCHANGED reader
  <2>1. Settled(c)
    BY DEF Settled, ClientRecord
  <2>2. Sound(client', reader')
    BY <1>2, <2>1, CalledSound
  <2> QED BY <1>2, <2>2 DEF Inv
<1> QED BY <1>1, <1>2 DEF Spawn

(* A client that waits for nothing has settled.                            *)
LEMMA IdleSettled ==
  ASSUME NEW c, NEW r, Sound(c, r), c.call.id = 0
  PROVE  Settled(c)
  BY DEF Sound, Settled

LEMMA CallInv ==
  ASSUME Inv, NEW p, Call(p)
  PROVE  Inv'
<1>1. client # None /\ client.call = NoCall /\ reader' = reader
  BY DEF Call, Calling
<1>2. client' = Called(client, "query") \/ client' = Notified(client, "did")
  BY DEF Call
<1>3. Settled(client)
  BY <1>1, IdleSettled DEF Inv, NoCall
<1>4. Sound(client', reader')
  BY <1>2, <1>3, CalledSound, NotifiedSound
<1> QED BY <1>1, <1>4 DEF Inv

LEMMA WriteRequestInv ==
  ASSUME Inv, NEW p, WriteRequest(p)
  PROVE  Inv'
<1>1. client # None /\ client.call # NoCall /\ Sound(client, reader)
  BY DEF WriteRequest, Writes, Calling, Inv
<1>2. CASE server.alive
  <2> DEFINE call == [client.call EXCEPT !.written = TRUE]
             d == [client EXCEPT !.call = call]
  <2>1. client.call \in CallRecord /\ client \in ClientRecord
    BY <1>1 DEF Sound, ClientRecord
  <2>2. client' = [client EXCEPT !.call.written = TRUE] /\ reader' = reader
    BY <1>2 DEF WriteRequest
  <2>3. call \in CallRecord /\ call.id = client.call.id /\ call.answered = client.call.answered
    BY <2>1 DEF CallRecord
  <2>4. client' = d
    BY <2>2
  <2> HIDE DEF call
  <2>5. /\ d \in ClientRecord
        /\ d.next_id = client.next_id /\ d.pending = client.pending
        /\ d.left = client.left /\ d.call = call
    BY <2>1, <2>3 DEF ClientRecord
  <2> HIDE DEF d
  <2>6. Sound(d, reader)
    BY <1>1, <2>3, <2>5 DEF Sound
  <2> QED BY <2>2, <2>4, <2>6 DEF Inv
<1>3. CASE ~server.alive
  <2>1. EndCall(p, [client EXCEPT !.left = @ \union {client.call.id}], FALSE, server)
    BY <1>3 DEF WriteRequest
  <2>2. Settled([client EXCEPT !.left = @ \union {client.call.id}])
    BY <1>1, LeftSettled
  <2> QED BY <2>1, <2>2, EndCallSound
<1> QED BY <1>2, <1>3

LEMMA WriteNotificationInv ==
  ASSUME Inv, NEW p, WriteNotification(p)
  PROVE  Inv'
<1>1. Sound(client, reader) /\ client.call.id = 0
  BY DEF WriteNotification, Writes, Requesting, Calling, Inv
<1>2. Settled(client)
  BY <1>1, IdleSettled
<1>3. EndCall(p, client, TRUE, Written)
  BY DEF WriteNotification
<1> QED BY <1>2, <1>3, EndCallSound

LEMMA AnsweredInv ==
  ASSUME Inv, NEW p, Receive(p) \/ TimeOut(p)
  PROVE  Inv'
<1>1. client # None /\ Sound(client, reader)
  BY DEF Receive, TimeOut, Calling, Inv
<1>2. Settled(Forgotten(client))
  BY <1>1, ForgottenSettled
<1>3. \E succeeded \in BOOLEAN : EndCall(p, Forgotten(client), succeeded, server)
  BY DEF Receive, TimeOut
<1> QED BY <1>2, <1>3, EndCallSound

(* The reader takes an entry out of the map and into its hands ...         *)
LEMMA ReaderReadsInv ==
  ASSUME Inv, ReaderReads
  PROVE  Inv'
<1>1. client # None /\ reader = None /\ Sound(client, reader)
  BY DEF ReaderReads, Inv
<1>2. PICK m \in server.output :
        IF m.form \in Decodable /\ m.id \in client.pending
          THEN /\ client' = [client EXCEPT !.pending = @ \ {m.id}]
               /\ reader' = m.id
          ELSE UNCHANGED <<client, reader>>
  BY DEF ReaderReads
<1>3. CASE m.id \in client.pending /\ reader' = m.id
           /\ client' = [client EXCEPT !.pending = @ \ {m.id}]
  <2> DEFINE d == [next_id |-> client.next_id, pending |-> client.pending \ {m.id},
                   left |-> client.left, call |-> client.call]
  <2>1. client' = d
    BY <1>1, <1>3 DEF Sound, ClientRecord
  <2>2. d \in ClientRecord
    BY <1>1 DEF Sound, ClientRecord
  <2>3. m.id \in Nat \ {0}
    BY <1>1, <1>3 DEF Sound, ClientRecord
  <2>4. None \notin Nat
    BY LspSessionAssumption DEF LspSessionAssumption
  <2>5. client.call.id \in Nat
    BY <1>1 DEF Sound, ClientRecord, CallRecord, NoCall
  <2>6. Sound(d, m.id)
    BY <1>1, <2>2, <2>4, <2>5 DEF Sound
  <2> QED BY <1>3, <2>1, <2>3, <2>6 DEF Inv
<1>4. CASE UNCHANGED <<client, reader>>
  BY <1>4 DEF Inv
<1> QED BY <1>2, <1>3, <1>4

(* ... and answers the call it belongs to, if that still waits.            *)
LEMMA ReaderSendsInv ==
  ASSUME Inv, ReaderSends
  PROVE  Inv'
<1>1. client # None /\ reader \in Nat \ {0} /\ Sound(client, reader) /\ reader' = None
  BY DEF ReaderSends, Inv
<1>2. CASE client.call.id = reader
  <2> DEFINE call == [client.call EXCEPT !.answered = TRUE]
             d == [client EXCEPT !.call = call]
  <2>1. client.call \in CallRecord /\ client \in ClientRecord
    BY <1>1, <1>2 DEF Sound, ClientRecord, NoCall
  <2>2. client' = [client EXCEPT !.call.answered = TRUE]
    BY <1>2 DEF ReaderSends
  <2>3. call \in CallRecord /\ call.id = client.call.id /\ call.answered
    BY <2>1 DEF CallRecord
  <2>4. client' = d
    BY <2>2
  <2> HIDE DEF call
  <2>5. /\ d \in ClientRecord
        /\ d.next_id = client.next_id /\ d.pending = client.pending
        /\ d.left = client.left /\ d.call = call
    BY <2>1, <2>3 DEF ClientRecord
  <2> HIDE DEF d
  <2>6. Sound(d, None)
    BY <1>1, <2>3, <2>5 DEF Sound
  <2> QED BY <1>1, <2>4, <2>6 DEF Inv
<1>3. CASE client.call.id # reader
  <2>1. client' = client
    BY <1>3 DEF ReaderSends
  <2>2. Sound(client, None)
    BY <1>1, <1>3 DEF Sound
  <2> QED BY <1>1, <2>1, <2>2 DEF Inv
<1> QED BY <1>2, <1>3

(* All other steps leave client and reader thread alone.                   *)
LEMMA StepInv ==
  ASSUME Inv, [Next]_vars
  PROVE  Inv'
<1>1. ASSUME NEW p \in Processes, Step(p) PROVE Inv'
  <2>1. CASE Spawn(p)
    BY <2>1, SpawnInv
  <2>2. CASE Call(p)
    BY <2>2, CallInv
  <2>3. CASE WriteRequest(p)
    BY <2>3, WriteRequestInv
  <2>4. CASE WriteNotification(p)
    BY <2>4, WriteNotificationInv
  <2>5. CASE Receive(p) \/ TimeOut(p)
    BY <2>5, AnsweredInv
  <2>6. CASE Acquire(p) \/ Unlock(p) \/ End(p) \/ GoOn(p) \/ Start(p)
    <3>1. UNCHANGED conversation
      BY <2>6 DEF Acquire, Unlock, End, GoOn, Start
    <3> QED BY <3>1 DEF Inv, conversation
  <2> QED BY <1>1, <2>1, <2>2, <2>3, <2>4, <2>5, <2>6 DEF Step
<1>2. CASE UNCHANGED <<client, reader>>
  BY <1>2 DEF Inv
<1>3. CASE (\E name \in Commands : Give(name)) \/ ServerReads \/ ServerAsks \/ ServerExits
             \/ UNCHANGED vars
  BY <1>2, <1>3 DEF Give, ServerReads, ServerAsks, ServerExits, vars, conversation
<1> QED BY <1>1, <1>3, ReaderReadsInv, ReaderSendsInv DEF Next

(* The map of pending requests holds the one request that waits and those  *)
(* that could not be written, and nothing else, whatever the server writes *)
(* and however answers and timeouts race (client.rs, request_with_timeout  *)
(* and reader_loop).                                                       *)
THEOREM PendingIsWaiting == Spec => []PendingMeansWaiting
<1>1. Inv => PendingMeansWaiting
  BY DEF Inv, Sound, PendingMeansWaiting, Requesting, Calling
<1>2. Inv /\ [Next]_vars => Inv'
  BY StepInv
<1> QED BY InitInv, <1>1, <1>2, PTL DEF Spec

----------------------------------------------------------------------------
(***************************************************************************)
(* Which lock every command and every task waits for with which locks in   *)
(* its hands.                                                              *)
(*                                                                         *)
(* A program is in order if it can be annotated, step by step, with the    *)
(* locks held, such that no step waits for a lock it should not wait for   *)
(* with these.                                                             *)
(***************************************************************************)

TaskNames == {"diagnostics task", "debounce task"}
Names == {"none"} \union Commands \union TaskNames

Steps ==
  {Read(l) : l \in Locks} \union {Write(l) : l \in Locks}
    \union {Release(l) : l \in Locks} \union {Started(n) : n \in TaskNames}
    \union {Request, Notify, MayEnd, Asleep}

(* What is held after a step.                                              *)
After(L, step) ==
  {lm \in Locks \X Modes : \/ lm \in L /\ step # Release(lm[1])
                           \/ step = <<"acquire", lm[1], lm[2]>>}

Owns(L, l) == \E m \in Modes : <<l, m>> \in L

(* The locks the main thread may hold when it waits for one, and a task.   *)
MainInOrder(name, L, l) ==
  /\ ~Owns(L, "pending") /\ ~Owns(L, "versions")
  /\ Owns(L, "lsp") => l = "registry"
  /\ l = "registry" => ~Owns(L, "registry")
  /\ <<"registry", "write">> \in L => name = "save_document_as"

TaskInOrder(name, L, l, m) ==
  /\ l = "registry" => m = "read" /\ name = "diagnostics task"
  /\ ~Owns(L, "registry")
  /\ Owns(L, "lsp") => l = "registry"
  /\ Owns(L, "versions") => l = "lsp"
  /\ Owns(L, "pending") => l \in {"versions", "lsp"}

InOrder(p, name, L, step) ==
  /\ \A l \in Locks, m \in Modes : step = <<"acquire", l, m>> =>
       IF p = "main" THEN MainInOrder(name, L, l) ELSE TaskInOrder(name, L, l, m)
  /\ step = Asleep => L = {}

(* A step that may be taken with L, and M may then be held.                *)
Follows(p, name, L, step, M) == InOrder(p, name, L, step) /\ After(L, step) \subseteq M

Annotates(K, p, name, L, s) ==
  /\ L \subseteq K[1]
  /\ \A i \in 1..Len(s) : Follows(p, name, K[i], s[i], K[i + 1])

Orderly(p, name, L, s) == \E K : Annotates(K, p, name, L, s)

----------------------------------------------------------------------------
(* Less held is as much in order.                                          *)
LEMMA LessInOrder ==
  ASSUME NEW p, NEW name, NEW step, NEW L, NEW K, K \subseteq L, InOrder(p, name, L, step)
  PROVE  InOrder(p, name, K, step)
  BY DEF InOrder, MainInOrder, TaskInOrder, Owns

LEMMA LessOrderly ==
  ASSUME NEW p, NEW name, NEW s, NEW L, NEW M, M \subseteq L, Orderly(p, name, L, s)
  PROVE  Orderly(p, name, M, s)
  BY DEF Orderly, Annotates

(* What is in order is so step for step.                                   *)
LEMMA HeadInOrder ==
  ASSUME NEW p, NEW name, NEW L, NEW s \in Seq(Steps), s # <<>>, Orderly(p, name, L, s)
  PROVE  InOrder(p, name, L, Head(s))
<1>1. PICK K : Annotates(K, p, name, L, s)
  BY DEF Orderly
<1>2. 1 \in 1..Len(s) /\ Head(s) = s[1]
  OBVIOUS
<1> QED BY <1>1, <1>2, LessInOrder DEF Annotates, Follows

LEMMA TailOrderly ==
  ASSUME NEW p, NEW name, NEW L, NEW s \in Seq(Steps), s # <<>>, Orderly(p, name, L, s)
  PROVE  Orderly(p, name, After(L, Head(s)), Tail(s)) /\ Tail(s) \in Seq(Steps)
<1> DEFINE t == Tail(s)
<1>1. PICK K : Annotates(K, p, name, L, s)
  BY DEF Orderly
<1>2. /\ t \in Seq(Steps) /\ Len(t) = Len(s) - 1 /\ Len(s) \in Nat /\ Len(s) > 0
      /\ \A i \in 1..Len(t) : t[i] = s[i + 1]
      /\ Head(s) = s[1]
  OBVIOUS
<1> HIDE DEF t
<1> DEFINE J == [i \in 1..Len(s) |-> K[i + 1]]
<1>3. After(L, Head(s)) \subseteq J[1]
  <2>1. 1 \in 1..Len(s) /\ J[1] = K[1 + 1]
    BY <1>2
  <2>2. After(K[1], s[1]) \subseteq K[1 + 1] /\ L \subseteq K[1]
    BY <1>1, <2>1 DEF Annotates, Follows
  <2>3. After(L, s[1]) \subseteq After(K[1], s[1])
    BY <2>2 DEF After
  <2> QED BY <1>2, <2>1, <2>2, <2>3
<1>4. ASSUME NEW i \in 1..Len(t) PROVE Follows(p, name, J[i], t[i], J[i + 1])
  <2>1. /\ i + 1 \in 1..Len(s) /\ t[i] = s[i + 1]
        /\ J[i] = K[i + 1] /\ J[i + 1] = K[(i + 1) + 1]
    BY <1>2
  <2> QED BY <1>1, <2>1 DEF Annotates
<1>5. Annotates(J, p, name, After(L, Head(s)), t)
  BY <1>3, <1>4 DEF Annotates
<1> QED BY <1>2, <1>5 DEF Orderly, t

----------------------------------------------------------------------------
(* The steps there are, by kind.                                           *)
LEMMA Acquiring ==
  ASSUME NEW p, NEW name, NEW L, NEW M, NEW l \in Locks, NEW m \in Modes,
         IF p = "main" THEN MainInOrder(name, L, l) ELSE TaskInOrder(name, L, l, m),
         L \union {<<l, m>>} \subseteq M
  PROVE  Follows(p, name, L, <<"acquire", l, m>>, M)
<1>1. After(L, <<"acquire", l, m>>) \subseteq L \union {<<l, m>>}
  BY DEF After, Locks, Modes, Release
<1>2. InOrder(p, name, L, <<"acquire", l, m>>)
  BY DEF InOrder, Asleep
<1> QED BY <1>1, <1>2 DEF Follows

LEMMA Releasing ==
  ASSUME NEW p, NEW name, NEW L, NEW M, NEW l \in Locks, {lm \in L : lm[1] # l} \subseteq M
  PROVE  Follows(p, name, L, Release(l), M)
<1>1. After(L, Release(l)) \subseteq {lm \in L : lm[1] # l}
  BY DEF After, Release
<1>2. InOrder(p, name, L, Release(l))
  BY DEF InOrder, Asleep, Release
<1> QED BY <1>1, <1>2 DEF Follows

Others == {Request, Notify, MayEnd} \union {Started(n) : n \in TaskNames}

LEMMA Passing ==
  ASSUME NEW p, NEW name, NEW L, NEW step \in Others \union {Asleep}, step = Asleep => L = {}
  PROVE  Follows(p, name, L, step, L)
<1>1. step[1] # "acquire"
  <2>1. CASE step = Request \/ step = Notify
    BY <2>1 DEF Request, Notify
  <2>2. CASE step = MayEnd
    BY <2>2 DEF MayEnd
  <2>3. CASE step = Asleep
    BY <2>3 DEF Asleep
  <2>4. CASE \E n \in TaskNames : step = Started(n)
    BY <2>4 DEF Started
  <2> QED BY <2>1, <2>2, <2>3, <2>4 DEF Others
<1>2. \A l, m : step # <<"acquire", l, m>>
  BY <1>1
<1>3. After(L, step) \subseteq L
  BY <1>2 DEF After
<1>4. InOrder(p, name, L, step)
  BY <1>2 DEF InOrder
<1> QED BY <1>3, <1>4 DEF Follows

LEMMA AllPass ==
  ASSUME NEW p, NEW name, NEW L
  PROVE  /\ Follows(p, name, L, Request, L) /\ Follows(p, name, L, Notify, L)
         /\ Follows(p, name, L, MayEnd, L) /\ Follows(p, name, {}, Asleep, {})
         /\ Follows(p, name, L, Started("diagnostics task"), L)
         /\ Follows(p, name, L, Started("debounce task"), L)
<1>1. {Request, Notify, MayEnd} \subseteq Others
  BY DEF Others
<1>2. Started("diagnostics task") \in Others /\ Started("debounce task") \in Others
  BY DEF Others, TaskNames
<1>3. Asleep \notin Others
  BY DEF Others, Asleep, Request, Notify, MayEnd, Started
<1> QED BY <1>1, <1>2, <1>3, Passing

(* What is held in the course of commands and tasks.                       *)
R == {<<"registry", "read">>}
W == {<<"registry", "write">>}
C == {<<"lsp", "write">>}
RC == R \union C
WC == W \union C
P == {<<"pending", "write">>}
V == {<<"versions", "write">>}
PV == P \union V
PVC == PV \union C

LEMMA MainAcquires ==
  ASSUME NEW name
  PROVE  /\ Follows("main", name, {}, Read("registry"), R)
         /\ Follows("main", name, {}, Write("registry"), W)
         /\ Follows("main", name, {}, Write("lsp"), C)
         /\ Follows("main", name, {}, Write("pending"), P)
         /\ Follows("main", name, {}, Write("versions"), V)
         /\ Follows("main", name, R, Write("lsp"), RC)
         /\ Follows("main", name, C, Write("registry"), WC)
         /\ Follows("main", "save_document_as", W, Write("lsp"), WC)
<1>1. \A l : MainInOrder(name, {}, l)
  BY DEF MainInOrder, Owns
<1>2. MainInOrder(name, R, "lsp")
  BY DEF MainInOrder, Owns, R, Modes
<1>3. MainInOrder(name, C, "registry")
  BY DEF MainInOrder, Owns, C, Modes
<1>4. MainInOrder("save_document_as", W, "lsp")
  BY DEF MainInOrder, Owns, W, Modes
<1>5. "read" \in Modes /\ "write" \in Modes
  BY DEF Modes
<1>6. {"registry", "lsp", "pending", "versions"} \subseteq Locks
  BY DEF Locks
<1>7. Follows("main", name, {}, Read("registry"), R)
  BY <1>1, <1>5, <1>6, Acquiring DEF Read, R
<1>8. Follows("main", name, {}, Write("registry"), W)
  BY <1>1, <1>5, <1>6, Acquiring DEF Write, W
<1>9. Follows("main", name, {}, Write("lsp"), C)
  BY <1>1, <1>5, <1>6, Acquiring DEF Write, C
<1>10. Follows("main", name, {}, Write("pending"), P)
  BY <1>1, <1>5, <1>6, Acquiring DEF Write, P
<1>11. Follows("main", name, {}, Write("versions"), V)
  BY <1>1, <1>5, <1>6, Acquiring DEF Write, V
<1>12. Follows("main", name, R, Write("lsp"), RC)
  BY <1>2, <1>5, <1>6, Acquiring DEF Write, RC, C
<1>13. Follows("main", name, C, Write("registry"), WC)
  BY <1>3, <1>5, <1>6, Acquiring DEF Write, WC, W
<1>14. Follows("main", "save_document_as", W, Write("lsp"), WC)
  BY <1>4, <1>5, <1>6, Acquiring DEF Write, WC, C
<1> QED BY <1>7, <1>8, <1>9, <1>10, <1>11, <1>12, <1>13, <1>14

LEMMA TaskAcquires ==
  ASSUME NEW p, p # "main", NEW name
  PROVE  /\ Follows(p, name, {}, Write("lsp"), C)
         /\ Follows(p, "diagnostics task", C, Read("registry"), RC)
         /\ Follows(p, name, {}, Write("pending"), P)
         /\ Follows(p, name, P, Write("versions"), PV)
         /\ Follows(p, name, PV, Write("lsp"), PVC)
<1>1. TaskInOrder(name, {}, "lsp", "write") /\ TaskInOrder(name, {}, "pending", "write")
  BY DEF TaskInOrder, Owns
<1>2. TaskInOrder("diagnostics task", C, "registry", "read")
  BY DEF TaskInOrder, Owns, C, Modes
<1>3. TaskInOrder(name, P, "versions", "write")
  BY DEF TaskInOrder, Owns, P, Modes
<1>4. TaskInOrder(name, PV, "lsp", "write")
  BY DEF TaskInOrder, Owns, PV, P, V, Modes
<1>5. "read" \in Modes /\ "write" \in Modes
  BY DEF Modes
<1>6. {"registry", "lsp", "pending", "versions"} \subseteq Locks
  BY DEF Locks
<1>7. Follows(p, name, {}, Write("lsp"), C)
  BY <1>1, <1>5, <1>6, Acquiring DEF Write, C
<1>8. Follows(p, "diagnostics task", C, Read("registry"), RC)
  BY <1>2, <1>5, <1>6, Acquiring DEF Read, RC, R
<1>9. Follows(p, name, {}, Write("pending"), P)
  BY <1>1, <1>5, <1>6, Acquiring DEF Write, P
<1>10. Follows(p, name, P, Write("versions"), PV)
  BY <1>3, <1>5, <1>6, Acquiring DEF Write, PV, V
<1>11. Follows(p, name, PV, Write("lsp"), PVC)
  BY <1>4, <1>5, <1>6, Acquiring DEF Write, PVC, C
<1> QED BY <1>7, <1>8, <1>9, <1>10, <1>11

LEMMA Releases ==
  ASSUME NEW p, NEW name
  PROVE  /\ Follows(p, name, R, Release("registry"), {})
         /\ Follows(p, name, W, Release("registry"), {})
         /\ Follows(p, name, C, Release("lsp"), {})
         /\ Follows(p, name, WC, Release("registry"), C)
         /\ Follows(p, name, WC, Release("lsp"), W)
         /\ Follows(p, name, P, Release("pending"), {})
         /\ Follows(p, name, V, Release("versions"), {})
<1>1. {"registry", "lsp", "pending", "versions"} \subseteq Locks
  BY DEF Locks
<1>2. Follows(p, name, R, Release("registry"), {}) /\ Follows(p, name, W, Release("registry"), {})
  BY <1>1, Releasing DEF R, W
<1>3. Follows(p, name, C, Release("lsp"), {})
  BY <1>1, Releasing DEF C
<1>4. Follows(p, name, WC, Release("registry"), C)
  BY <1>1, Releasing DEF WC, W, C
<1>5. Follows(p, name, WC, Release("lsp"), W)
  BY <1>1, Releasing DEF WC, W, C
<1>6. Follows(p, name, P, Release("pending"), {}) /\ Follows(p, name, V, Release("versions"), {})
  BY <1>1, Releasing DEF P, V
<1> QED BY <1>2, <1>3, <1>4, <1>5, <1>6

----------------------------------------------------------------------------
(* Every command and every task is in order from its start.                *)
LEMMA OpenDocumentOrderly ==
  OpenDocument \in Seq(Steps) /\ Orderly("main", "open_document", {}, OpenDocument)
<1> DEFINE s == OpenDocument
           K == <<{}, R, R, {}, W, W, {}, C, C>>
<1>1. s \in Seq(Steps) /\ Len(s) = 8
  BY DEF OpenDocument, Steps, Locks, TaskNames
<1>2. /\ Follows("main", "open_document", {}, Read("registry"), R)
      /\ Follows("main", "open_document", R, MayEnd, R)
      /\ Follows("main", "open_document", R, Release("registry"), {})
      /\ Follows("main", "open_document", {}, Write("registry"), W)
      /\ Follows("main", "open_document", W, MayEnd, W)
      /\ Follows("main", "open_document", W, Release("registry"), {})
      /\ Follows("main", "open_document", {}, Write("lsp"), C)
      /\ Follows("main", "open_document", C, Notify, C)
  BY MainAcquires, Releases, AllPass
<1>3. /\ s[1] = Read("registry") /\ K[1] = {}
      /\ s[2] = MayEnd /\ K[2] = R
      /\ s[3] = Release("registry") /\ K[3] = R
      /\ s[4] = Write("registry") /\ K[4] = {}
      /\ s[5] = MayEnd /\ K[5] = W
      /\ s[6] = Release("registry") /\ K[6] = W
      /\ s[7] = Write("lsp") /\ K[7] = {}
      /\ s[8] = Notify /\ K[8] = C
      /\ K[9] = C
  BY DEF OpenDocument
<1> HIDE DEF s, K
<1>4. ASSUME NEW i \in 1..8 PROVE Follows("main", "open_document", K[i], s[i], K[i + 1])
  <2>1. \/ i = 1 /\ i + 1 = 2
        \/ i = 2 /\ i + 1 = 3
        \/ i = 3 /\ i + 1 = 4
        \/ i = 4 /\ i + 1 = 5
        \/ i = 5 /\ i + 1 = 6
        \/ i = 6 /\ i + 1 = 7
        \/ i = 7 /\ i + 1 = 8
        \/ i = 8 /\ i + 1 = 9
    BY <1>4
  <2> QED BY <1>2, <1>3, <2>1
<1> QED BY <1>1, <1>3, <1>4 DEF Orderly, Annotates, s

LEMMA SaveDocumentOrderly ==
  SaveDocument \in Seq(Steps) /\ Orderly("main", "save_document", {}, SaveDocument)
<1> DEFINE s == SaveDocument
           K == <<{}, R>>
<1>1. s \in Seq(Steps) /\ Len(s) = 1
  BY DEF SaveDocument, Steps, Locks, TaskNames
<1>2. /\ Follows("main", "save_document", {}, Read("registry"), R)
  BY MainAcquires
<1>3. /\ s[1] = Read("registry") /\ K[1] = {}
      /\ K[2] = R
  BY DEF SaveDocument
<1> HIDE DEF s, K
<1>4. ASSUME NEW i \in 1..1 PROVE Follows("main", "save_document", K[i], s[i], K[i + 1])
  <2>1. i = 1 /\ i + 1 = 2
    BY <1>4
  <2> QED BY <1>2, <1>3, <2>1
<1> QED BY <1>1, <1>3, <1>4 DEF Orderly, Annotates, s

LEMMA SaveDocumentAsOrderly ==
  SaveDocumentAs \in Seq(Steps) /\ Orderly("main", "save_document_as", {}, SaveDocumentAs)
<1> DEFINE s == SaveDocumentAs
           K == <<{}, W, WC, WC, W, W, WC, WC>>
<1>1. s \in Seq(Steps) /\ Len(s) = 7
  BY DEF SaveDocumentAs, Steps, Locks, TaskNames
<1>2. /\ Follows("main", "save_document_as", {}, Write("registry"), W)
      /\ Follows("main", "save_document_as", W, Write("lsp"), WC)
      /\ Follows("main", "save_document_as", WC, Notify, WC)
      /\ Follows("main", "save_document_as", WC, Release("lsp"), W)
      /\ Follows("main", "save_document_as", W, MayEnd, W)
  BY MainAcquires, Releases, AllPass
<1>3. /\ s[1] = Write("registry") /\ K[1] = {}
      /\ s[2] = Write("lsp") /\ K[2] = W
      /\ s[3] = Notify /\ K[3] = WC
      /\ s[4] = Release("lsp") /\ K[4] = WC
      /\ s[5] = MayEnd /\ K[5] = W
      /\ s[6] = Write("lsp") /\ K[6] = W
      /\ s[7] = Notify /\ K[7] = WC
      /\ K[8] = WC
  BY DEF SaveDocumentAs
<1> HIDE DEF s, K
<1>4. ASSUME NEW i \in 1..7 PROVE Follows("main", "save_document_as", K[i], s[i], K[i + 1])
  <2>1. \/ i = 1 /\ i + 1 = 2
        \/ i = 2 /\ i + 1 = 3
        \/ i = 3 /\ i + 1 = 4
        \/ i = 4 /\ i + 1 = 5
        \/ i = 5 /\ i + 1 = 6
        \/ i = 6 /\ i + 1 = 7
        \/ i = 7 /\ i + 1 = 8
    BY <1>4
  <2> QED BY <1>2, <1>3, <2>1
<1> QED BY <1>1, <1>3, <1>4 DEF Orderly, Annotates, s

LEMMA CloseDocumentOrderly ==
  CloseDocument \in Seq(Steps) /\ Orderly("main", "close_document", {}, CloseDocument)
<1> DEFINE s == CloseDocument
           K == <<{}, R, {}, {}, C, C, WC, C, {}, R>>
<1>1. s \in Seq(Steps) /\ Len(s) = 9
  BY DEF CloseDocument, Steps, Locks, TaskNames
<1>2. /\ Follows("main", "close_document", {}, Read("registry"), R)
      /\ Follows("main", "close_document", R, Release("registry"), {})
      /\ Follows("main", "close_document", {}, MayEnd, {})
      /\ Follows("main", "close_document", {}, Write("lsp"), C)
      /\ Follows("main", "close_document", C, Notify, C)
      /\ Follows("main", "close_document", C, Write("registry"), WC)
      /\ Follows("main", "close_document", WC, Release("registry"), C)
      /\ Follows("main", "close_document", C, Release("lsp"), {})
  BY MainAcquires, Releases, AllPass
<1>3. /\ s[1] = Read("registry") /\ K[1] = {}
      /\ s[2] = Release("registry") /\ K[2] = R
      /\ s[3] = MayEnd /\ K[3] = {}
      /\ s[4] = Write("lsp") /\ K[4] = {}
      /\ s[5] = Notify /\ K[5] = C
      /\ s[6] = Write("registry") /\ K[6] = C
      /\ s[7] = Release("registry") /\ K[7] = WC
      /\ s[8] = Release("lsp") /\ K[8] = C
      /\ s[9] = Read("registry") /\ K[9] = {}
      /\ K[10] = R
  BY DEF CloseDocument
<1> HIDE DEF s, K
<1>4. ASSUME NEW i \in 1..9 PROVE Follows("main", "close_document", K[i], s[i], K[i + 1])
  <2>1. \/ i = 1 /\ i + 1 = 2
        \/ i = 2 /\ i + 1 = 3
        \/ i = 3 /\ i + 1 = 4
        \/ i = 4 /\ i + 1 = 5
        \/ i = 5 /\ i + 1 = 6
        \/ i = 6 /\ i + 1 = 7
        \/ i = 7 /\ i + 1 = 8
        \/ i = 8 /\ i + 1 = 9
        \/ i = 9 /\ i + 1 = 10
    BY <1>4
  <2> QED BY <1>2, <1>3, <2>1
<1> QED BY <1>1, <1>3, <1>4 DEF Orderly, Annotates, s

LEMMA CloseBuffersBatchOrderly ==
  CloseBuffersBatch \in Seq(Steps) /\ Orderly("main", "close_buffers_batch", {}, CloseBuffersBatch)
<1> DEFINE s == CloseBuffersBatch
           K == <<{}, W>>
<1>1. s \in Seq(Steps) /\ Len(s) = 1
  BY DEF CloseBuffersBatch, Steps, Locks, TaskNames
<1>2. /\ Follows("main", "close_buffers_batch", {}, Write("registry"), W)
  BY MainAcquires
<1>3. /\ s[1] = Write("registry") /\ K[1] = {}
      /\ K[2] = W
  BY DEF CloseBuffersBatch
<1> HIDE DEF s, K
<1>4. ASSUME NEW i \in 1..1 PROVE Follows("main", "close_buffers_batch", K[i], s[i], K[i + 1])
  <2>1. i = 1 /\ i + 1 = 2
    BY <1>4
  <2> QED BY <1>2, <1>3, <2>1
<1> QED BY <1>1, <1>3, <1>4 DEF Orderly, Annotates, s

LEMMA ApplyEditsOrderly ==
  ApplyEdits \in Seq(Steps) /\ Orderly("main", "apply_edits", {}, ApplyEdits)
<1> DEFINE s == ApplyEdits
           K == <<{}, R, R, {}, {}, {}, P, {}, V, {}, {}>>
<1>1. s \in Seq(Steps) /\ Len(s) = 10
  BY DEF ApplyEdits, Steps, Locks, TaskNames
<1>2. /\ Follows("main", "apply_edits", {}, Read("registry"), R)
      /\ Follows("main", "apply_edits", R, MayEnd, R)
      /\ Follows("main", "apply_edits", R, Release("registry"), {})
      /\ Follows("main", "apply_edits", {}, Started("diagnostics task"), {})
      /\ Follows("main", "apply_edits", {}, MayEnd, {})
      /\ Follows("main", "apply_edits", {}, Write("pending"), P)
      /\ Follows("main", "apply_edits", P, Release("pending"), {})
      /\ Follows("main", "apply_edits", {}, Write("versions"), V)
      /\ Follows("main", "apply_edits", V, Release("versions"), {})
      /\ Follows("main", "apply_edits", {}, Started("debounce task"), {})
  BY MainAcquires, Releases, AllPass
<1>3. /\ s[1] = Read("registry") /\ K[1] = {}
      /\ s[2] = MayEnd /\ K[2] = R
      /\ s[3] = Release("registry") /\ K[3] = R
      /\ s[4] = Started("diagnostics task") /\ K[4] = {}
      /\ s[5] = MayEnd /\ K[5] = {}
      /\ s[6] = Write("pending") /\ K[6] = {}
      /\ s[7] = Release("pending") /\ K[7] = P
      /\ s[8] = Write("versions") /\ K[8] = {}
      /\ s[9] = Release("versions") /\ K[9] = V
      /\ s[10] = Started("debounce task") /\ K[10] = {}
      /\ K[11] = {}
  BY DEF ApplyEdits
<1> HIDE DEF s, K
<1>4. ASSUME NEW i \in 1..10 PROVE Follows("main", "apply_edits", K[i], s[i], K[i + 1])
  <2>1. \/ i = 1 /\ i + 1 = 2
        \/ i = 2 /\ i + 1 = 3
        \/ i = 3 /\ i + 1 = 4
        \/ i = 4 /\ i + 1 = 5
        \/ i = 5 /\ i + 1 = 6
        \/ i = 6 /\ i + 1 = 7
        \/ i = 7 /\ i + 1 = 8
        \/ i = 8 /\ i + 1 = 9
        \/ i = 9 /\ i + 1 = 10
        \/ i = 10 /\ i + 1 = 11
    BY <1>4
  <2> QED BY <1>2, <1>3, <2>1
<1> QED BY <1>1, <1>3, <1>4 DEF Orderly, Annotates, s

LEMMA DebounceTaskOrderly ==
  ASSUME NEW p, p # "main"
  PROVE  DebounceTask \in Seq(Steps) /\ Orderly(p, "debounce task", {}, DebounceTask)
<1> DEFINE s == DebounceTask
           K == <<{}, {}, P, PV, PV, PVC, PVC>>
<1>1. s \in Seq(Steps) /\ Len(s) = 6
  BY DEF DebounceTask, Steps, Locks, TaskNames
<1>2. /\ Follows(p, "debounce task", {}, Asleep, {})
      /\ Follows(p, "debounce task", {}, Write("pending"), P)
      /\ Follows(p, "debounce task", P, Write("versions"), PV)
      /\ Follows(p, "debounce task", PV, MayEnd, PV)
      /\ Follows(p, "debounce task", PV, Write("lsp"), PVC)
      /\ Follows(p, "debounce task", PVC, Notify, PVC)
  BY TaskAcquires, AllPass
<1>3. /\ s[1] = Asleep /\ K[1] = {}
      /\ s[2] = Write("pending") /\ K[2] = {}
      /\ s[3] = Write("versions") /\ K[3] = P
      /\ s[4] = MayEnd /\ K[4] = PV
      /\ s[5] = Write("lsp") /\ K[5] = PV
      /\ s[6] = Notify /\ K[6] = PVC
      /\ K[7] = PVC
  BY DEF DebounceTask
<1> HIDE DEF s, K
<1>4. ASSUME NEW i \in 1..6 PROVE Follows(p, "debounce task", K[i], s[i], K[i + 1])
  <2>1. \/ i = 1 /\ i + 1 = 2
        \/ i = 2 /\ i + 1 = 3
        \/ i = 3 /\ i + 1 = 4
        \/ i = 4 /\ i + 1 = 5
        \/ i = 5 /\ i + 1 = 6
        \/ i = 6 /\ i + 1 = 7
    BY <1>4
  <2> QED BY <1>2, <1>3, <2>1
<1> QED BY <1>1, <1>3, <1>4 DEF Orderly, Annotates, s

(* Beyond the locks, a query of a language only uses the client.            *)
LEMMA Handlers ==
  ASSUME NEW handler \in {Completion, Diagnostics, CodeActions}
  PROVE  handler \in Seq({MayEnd, Request}) /\ handler \in Seq(Steps)
<1>1. Completion \in Seq({MayEnd, Request}) /\ Diagnostics \in Seq({MayEnd, Request})
  BY DEF Completion, Diagnostics
<1>2. CodeActions \in Seq({MayEnd, Request})
  BY DEF CodeActions
<1>3. {MayEnd, Request} \subseteq Steps
  BY DEF Steps
<1> QED BY <1>1, <1>2, <1>3

LEMMA LanguageQueryOrderly ==
  ASSUME NEW handler \in {Completion, Diagnostics, CodeActions}
  PROVE  /\ LanguageQuery(handler) \in Seq(Steps)
         /\ Orderly("main", "language query", {}, LanguageQuery(handler))
<1> DEFINE n == "language query"
           s == LanguageQuery(handler)
           K == [i \in 1..Len(s) + 1 |-> IF i = 1 THEN {} ELSE IF i = 2 THEN R ELSE RC]
<1>1. /\ handler \in Seq({MayEnd, Request}) /\ handler \in Seq(Steps)
  BY Handlers
<1>2. Read("registry") \in Steps /\ Write("lsp") \in Steps
  BY DEF Steps, Locks
<1>3. s \in Seq(Steps) /\ Len(s) = Len(handler) + 2 /\ Len(handler) \in Nat
  BY <1>1, <1>2 DEF LanguageQuery
<1>4. s[1] = Read("registry") /\ s[2] = Write("lsp")
  BY <1>1 DEF LanguageQuery
<1>5. ASSUME NEW i \in 3..Len(s) PROVE s[i] \in {MayEnd, Request}
  <2>1. s[i] = handler[i - 2] /\ i - 2 \in 1..Len(handler)
    BY <1>1, <1>3 DEF LanguageQuery
  <2> QED BY <1>1, <2>1
<1> HIDE DEF s
<1>6. ASSUME NEW i \in 1..Len(s) PROVE Follows("main", n, K[i], s[i], K[i + 1])
  <2>1. CASE i = 1
    <3>1. K[i] = {} /\ K[i + 1] = R
      BY <1>3, <2>1
    <3> QED BY <1>4, <2>1, <3>1, MainAcquires
  <2>2. CASE i = 2
    <3>1. K[i] = R /\ K[i + 1] = RC
      BY <1>3, <2>2
    <3> QED BY <1>4, <2>2, <3>1, MainAcquires
  <2>3. CASE i \in 3..Len(s)
    <3>1. K[i] = RC /\ K[i + 1] = RC
      BY <1>3, <2>3
    <3> QED BY <1>5, <2>3, <3>1, AllPass
  <2>4. i = 1 \/ i = 2 \/ i \in 3..Len(s)
    BY <1>3, <1>6
  <2> QED BY <2>1, <2>2, <2>3, <2>4
<1>7. {} \subseteq K[1]
  OBVIOUS
<1>8. Annotates(K, "main", n, {}, s)
  BY <1>6, <1>7 DEF Annotates
<1> QED BY <1>3, <1>8 DEF Orderly, s

LEMMA DiagnosticsTaskOrderly ==
  ASSUME NEW p, p # "main"
  PROVE  DiagnosticsTask \in Seq(Steps) /\ Orderly(p, "diagnostics task", {}, DiagnosticsTask)
<1> DEFINE n == "diagnostics task"
           s == DiagnosticsTask
           K == [i \in 1..Len(s) + 1 |-> IF i <= 2 THEN {} ELSE IF i = 3 THEN C ELSE RC]
<1>1. /\ Diagnostics \in Seq({MayEnd, Request}) /\ Diagnostics \in Seq(Steps)
  BY Handlers
<1>2. Asleep \in Steps /\ Read("registry") \in Steps /\ Write("lsp") \in Steps
  BY DEF Steps, Locks
<1>3. s \in Seq(Steps) /\ Len(s) = Len(Diagnostics) + 3 /\ Len(Diagnostics) \in Nat
  BY <1>1, <1>2 DEF DiagnosticsTask
<1>4. s[1] = Asleep /\ s[2] = Write("lsp") /\ s[3] = Read("registry")
  BY <1>1 DEF DiagnosticsTask
<1>5. ASSUME NEW i \in 4..Len(s) PROVE s[i] \in {MayEnd, Request}
  <2>1. s[i] = Diagnostics[i - 3] /\ i - 3 \in 1..Len(Diagnostics)
    BY <1>1, <1>3 DEF DiagnosticsTask
  <2> QED BY <1>1, <2>1
<1> HIDE DEF s
<1>6. ASSUME NEW i \in 1..Len(s) PROVE Follows(p, n, K[i], s[i], K[i + 1])
  <2>1. CASE i = 1
    <3>1. K[i] = {} /\ K[i + 1] = {}
      BY <1>3, <2>1
    <3> QED BY <1>4, <2>1, <3>1, AllPass
  <2>2. CASE i = 2
    <3>1. K[i] = {} /\ K[i + 1] = C
      BY <1>3, <2>2
    <3> QED BY <1>4, <2>2, <3>1, TaskAcquires
  <2>3. CASE i = 3
    <3>1. K[i] = C /\ K[i + 1] = RC
      BY <1>3, <2>3
    <3> QED BY <1>4, <2>3, <3>1, TaskAcquires
  <2>4. CASE i \in 4..Len(s)
    <3>1. K[i] = RC /\ K[i + 1] = RC
      BY <1>3, <2>4
    <3> QED BY <1>5, <2>4, <3>1, AllPass
  <2>5. i = 1 \/ i = 2 \/ i = 3 \/ i \in 4..Len(s)
    BY <1>3, <1>6
  <2> QED BY <2>1, <2>2, <2>3, <2>4, <2>5
<1>7. {} \subseteq K[1]
  BY <1>3
<1>8. Annotates(K, p, n, {}, s)
  BY <1>6, <1>7 DEF Annotates
<1> QED BY <1>3, <1>8 DEF Orderly, s

(* Whatever is begun is in order.                                          *)
LEMMA BegunOrderly ==
  ASSUME NEW p, NEW name,
         IF p = "main" THEN name \in Commands ELSE name \in TaskNames,
         NEW begun \in Begun(name)
  PROVE  /\ begun \in [name : Names \ {"none"}, todo : Seq(Steps)]
         /\ begun.name = name /\ Orderly(p, name, {}, begun.todo)
<1>1. begun \in Plans /\ begun.name = name
  BY DEF Begun
<1>2. CASE \E handler \in {Completion, Diagnostics, CodeActions} :
             begun = [name |-> "language query", todo |-> LanguageQuery(handler)]
  <2>1. PICK handler \in {Completion, Diagnostics, CodeActions} :
          begun = [name |-> "language query", todo |-> LanguageQuery(handler)]
    BY <1>2
  <2>2. name = "language query" /\ p = "main"
    BY <1>1, <2>1 DEF TaskNames
  <2>3. /\ LanguageQuery(handler) \in Seq(Steps)
        /\ Orderly("main", "language query", {}, LanguageQuery(handler))
    BY LanguageQueryOrderly
  <2>4. name \in Names \ {"none"}
    BY <2>2 DEF Names, Commands
  <2> QED BY <2>1, <2>2, <2>3, <2>4
<1>3. CASE begun = [name |-> "open_document", todo |-> OpenDocument]
  BY <1>1, <1>3, OpenDocumentOrderly DEF Names, Commands, TaskNames
<1>4. CASE begun = [name |-> "save_document", todo |-> SaveDocument]
  BY <1>1, <1>4, SaveDocumentOrderly DEF Names, Commands, TaskNames
<1>5. CASE begun = [name |-> "save_document_as", todo |-> SaveDocumentAs]
  BY <1>1, <1>5, SaveDocumentAsOrderly DEF Names, Commands, TaskNames
<1>6. CASE begun = [name |-> "close_document", todo |-> CloseDocument]
  BY <1>1, <1>6, CloseDocumentOrderly DEF Names, Commands, TaskNames
<1>7. CASE begun = [name |-> "close_buffers_batch", todo |-> CloseBuffersBatch]
  BY <1>1, <1>7, CloseBuffersBatchOrderly DEF Names, Commands, TaskNames
<1>8. CASE begun = [name |-> "apply_edits", todo |-> ApplyEdits]
  BY <1>1, <1>8, ApplyEditsOrderly DEF Names, Commands, TaskNames
<1>9. CASE begun = [name |-> "diagnostics task", todo |-> DiagnosticsTask]
  BY <1>1, <1>9, DiagnosticsTaskOrderly DEF Names, Commands, TaskNames
<1>10. CASE begun = [name |-> "debounce task", todo |-> DebounceTask]
  BY <1>1, <1>10, DebounceTaskOrderly DEF Names, Commands, TaskNames
<1> QED BY <1>1, <1>2, <1>3, <1>4, <1>5, <1>6, <1>7, <1>8, <1>9, <1>10 DEF Plans

----------------------------------------------------------------------------
(***************************************************************************)
(* No processes but save_document_as and a diagnostics task are ever       *)
(* deadlocked, for any number of tasks: every process always has its       *)
(* program in order with the locks it holds, and with that no other circle *)
(* can close.                                                              *)
(***************************************************************************)
(* The invariant: what every process has left is in order.                 *)
Held == SUBSET (Locks \X Modes \X Processes)
Mine(p, H) == {lm \in Locks \X Modes : <<lm[1], lm[2], p>> \in H}

Tidy(p, w, L) ==
  /\ w \in [name : Names, todo : Seq(Steps)]
  /\ Orderly(p, w.name, L, w.todo)
  /\ w.name = "none" => w.todo = <<>> /\ L = {}

AllTidy ==
  /\ held \in Held
  /\ DOMAIN work = Processes
  /\ \A p \in Processes : Tidy(p, work[p], Mine(p, held))

LEMMA LessTidy ==
  ASSUME NEW p, NEW w, NEW L, NEW M, M \subseteq L, Tidy(p, w, L)
  PROVE  Tidy(p, w, M)
  BY LessOrderly DEF Tidy

LEMMA IdleTidy ==
  ASSUME NEW p
  PROVE  Tidy(p, Idle, {})
<1> DEFINE K == [i \in {1} |-> {}]
<1>1. Annotates(K, p, "none", {}, <<>>)
  BY DEF Annotates
<1>2. Orderly(p, "none", {}, <<>>)
  BY <1>1 DEF Orderly
<1> QED BY <1>2 DEF Tidy, Idle, Names

(* A process goes on to its next step, and the others hold no more.        *)
LEMMA Moved ==
  ASSUME AllTidy, NEW p \in Processes, work[p].todo # <<>>, Advance(p),
         held' \in Held,
         Mine(p, held') \subseteq After(Mine(p, held), Head(work[p].todo)),
         \A q \in Processes \ {p} : Mine(q, held') \subseteq Mine(q, held)
  PROVE  AllTidy'
<1> DEFINE w == work[p]
           L == Mine(p, held)
<1>1. w \in [name : Names, todo : Seq(Steps)] /\ w.todo # <<>> /\ w.name # "none"
      /\ Orderly(p, w.name, L, w.todo)
  BY DEF AllTidy, Tidy
<1>2. /\ DOMAIN work' = Processes
      /\ work'[p] = [name |-> w.name, todo |-> Tail(w.todo)]
      /\ \A q \in Processes \ {p} : work'[q] = work[q]
  BY <1>1 DEF Advance, AllTidy
<1>3. Orderly(p, w.name, After(L, Head(w.todo)), Tail(w.todo)) /\ Tail(w.todo) \in Seq(Steps)
  BY <1>1, TailOrderly
<1>4. Tidy(p, work'[p], Mine(p, held'))
  <2>1. Orderly(p, w.name, Mine(p, held'), Tail(w.todo))
    BY <1>3, LessOrderly
  <2> HIDE DEF w
  <2> QED BY <1>1, <1>2, <1>3, <2>1 DEF Tidy
<1>5. ASSUME NEW q \in Processes \ {p} PROVE Tidy(q, work'[q], Mine(q, held'))
  BY <1>2, <1>5, LessTidy DEF AllTidy
<1> QED BY <1>2, <1>4, <1>5 DEF AllTidy

(* The steps that take or release no lock.                                 *)
LEMMA Stays ==
  ASSUME AllTidy, NEW p \in Processes, work[p].todo # <<>>,
         Head(work[p].todo)[1] # "release", Advance(p), held' = held
  PROVE  AllTidy'
<1>1. Mine(p, held) \subseteq After(Mine(p, held), Head(work[p].todo))
  BY DEF After, Mine, Release
<1> QED BY <1>1, Moved DEF AllTidy

LEMMA Waiting ==
  ASSUME AllTidy, NEW p \in Processes, Wants(p)
  PROVE  \E l \in Locks, m \in Modes : Wanted(p) = <<"acquire", l, m>>
<1>1. work[p].todo \in Seq(Steps) /\ work[p].todo # <<>>
  BY DEF AllTidy, Tidy, Wants
<1>2. Wanted(p) \in Steps
  BY <1>1 DEF Wanted
<1>3. Wanted(p)[1] = "acquire"
  BY DEF Wants
<1>4. CASE \E l \in Locks : Wanted(p) = Read(l) \/ Wanted(p) = Write(l)
  BY <1>4 DEF Read, Write, Modes
<1>5. CASE \E l \in Locks : Wanted(p) = Release(l)
  BY <1>3, <1>5 DEF Release
<1>6. CASE \E n \in TaskNames : Wanted(p) = Started(n)
  BY <1>3, <1>6 DEF Started
<1>7. CASE Wanted(p) = Request
  BY <1>3, <1>7 DEF Request
<1>8. CASE Wanted(p) = Notify
  BY <1>3, <1>8 DEF Notify
<1>9. CASE Wanted(p) = MayEnd
  BY <1>3, <1>9 DEF MayEnd
<1>10. CASE Wanted(p) = Asleep
  BY <1>3, <1>10 DEF Asleep
<1> QED BY <1>2, <1>4, <1>5, <1>6, <1>7, <1>8, <1>9, <1>10 DEF Steps

----------------------------------------------------------------------------
(* The steps of a process, one by one.                                     *)
LEMMA AcquireTidy ==
  ASSUME AllTidy, NEW p \in Processes, Acquire(p)
  PROVE  AllTidy'
<1>1. PICK l \in Locks, m \in Modes : Wanted(p) = <<"acquire", l, m>>
  BY Waiting DEF Acquire
<1>2. held' = held \union {<<l, m, p>>}
  BY <1>1 DEF Acquire
<1>3. held' \in Held
  BY <1>2 DEF Held, AllTidy
<1>4. Mine(p, held') \subseteq After(Mine(p, held), <<"acquire", l, m>>)
  <2>1. ASSUME NEW lm \in Locks \X Modes, <<lm[1], lm[2], p>> \in held'
        PROVE  lm \in After(Mine(p, held), <<"acquire", l, m>>)
    <3>1. CASE <<lm[1], lm[2], p>> \in held
      <4>1. lm \in Mine(p, held)
        BY <3>1 DEF Mine
      <4>2. <<"acquire", l, m>> # Release(lm[1])
        BY DEF Release
      <4> QED BY <4>1, <4>2 DEF After
    <3>2. CASE <<lm[1], lm[2], p>> = <<l, m, p>>
      BY <3>2 DEF After
    <3> QED BY <1>2, <2>1, <3>1, <3>2
  <2> QED BY <2>1 DEF Mine
<1>5. \A q \in Processes \ {p} : Mine(q, held') \subseteq Mine(q, held)
  BY <1>2 DEF Mine
<1>6. Advance(p) /\ work[p].todo # <<>> /\ Head(work[p].todo) = <<"acquire", l, m>>
  BY <1>1 DEF Acquire, Wants, Wanted
<1> QED BY <1>3, <1>4, <1>5, <1>6, Moved

LEMMA UnlockTidy ==
  ASSUME AllTidy, NEW p \in Processes, Unlock(p)
  PROVE  AllTidy'
<1>1. PICK lock \in Locks :
        At(p, Release(lock)) /\ held' = {h \in held : ~(h[1] = lock /\ h[3] = p)}
  BY DEF Unlock
<1>2. held' \in Held
  BY <1>1 DEF Held, AllTidy
<1>3. Mine(p, held') \subseteq After(Mine(p, held), Release(lock))
  <2>1. ASSUME NEW lm \in Locks \X Modes, <<lm[1], lm[2], p>> \in held'
        PROVE  lm \in After(Mine(p, held), Release(lock))
    <3>1. <<lm[1], lm[2], p>> \in held /\ lm[1] # lock
      BY <1>1, <2>1
    <3>2. Release(lock) # Release(lm[1])
      BY <3>1 DEF Release
    <3> QED BY <3>1, <3>2 DEF After, Mine
  <2> QED BY <2>1 DEF Mine
<1>4. \A q \in Processes \ {p} : Mine(q, held') \subseteq Mine(q, held)
  BY <1>1 DEF Mine
<1>5. Advance(p) /\ work[p].todo # <<>> /\ Head(work[p].todo) = Release(lock)
  BY <1>1 DEF Unlock, At
<1> QED BY <1>2, <1>3, <1>4, <1>5, Moved

LEMMA EndTidy ==
  ASSUME AllTidy, NEW p \in Processes, End(p)
  PROVE  AllTidy'
<1>1. held' = {h \in held : h[3] # p} /\ work' = [work EXCEPT ![p] = Idle]
  BY DEF End
<1>2. held' \in Held /\ DOMAIN work' = Processes
  BY <1>1 DEF Held, AllTidy
<1>3. Mine(p, held') = {}
  BY <1>1 DEF Mine
<1>4. Tidy(p, work'[p], Mine(p, held'))
  BY <1>1, <1>3, IdleTidy DEF AllTidy
<1>5. ASSUME NEW q \in Processes \ {p} PROVE Tidy(q, work'[q], Mine(q, held'))
  <2>1. Mine(q, held') \subseteq Mine(q, held) /\ work'[q] = work[q]
    BY <1>1 DEF Mine, AllTidy
  <2> QED BY <2>1, LessTidy DEF AllTidy
<1> QED BY <1>2, <1>4, <1>5 DEF AllTidy

LEMMA GoOnTidy ==
  ASSUME AllTidy, NEW p \in Processes, GoOn(p)
  PROVE  AllTidy'
<1>1. CASE At(p, MayEnd)
  BY <1>1, Stays DEF GoOn, At, MayEnd
<1>2. CASE At(p, Asleep)
  BY <1>2, Stays DEF GoOn, At, Asleep
<1> QED BY <1>1, <1>2 DEF GoOn

(* A process that begins anew holds nothing.                               *)
LEMMA BegunTidy ==
  ASSUME NEW p, NEW name,
         IF p = "main" THEN name \in Commands ELSE name \in TaskNames,
         NEW begun \in Begun(name)
  PROVE  Tidy(p, begun, {})
  BY BegunOrderly DEF Tidy

LEMMA GiveTidy ==
  ASSUME AllTidy, NEW name \in Commands, Give(name)
  PROVE  AllTidy'
<1>1. PICK begun \in Begun(name) : work' = [work EXCEPT !["main"] = begun]
  BY DEF Give
<1>2. Tidy("main", begun, {})
  BY BegunTidy
<1>3. Mine("main", held) = {}
  BY DEF Give, IsIdle, Idle, AllTidy, Tidy, Processes
<1> QED BY <1>1, <1>2, <1>3 DEF Give, AllTidy, Processes

LEMMA StartTidy ==
  ASSUME AllTidy, NEW p \in Processes, Start(p)
  PROVE  AllTidy'
<1>1. PICK name \in TaskNames :
        /\ At(p, Started(name))
        /\ \E t \in Tasks, begun \in Begun(name) :
             /\ IsIdle(t) \/ At(t, Asleep)
             /\ work' = [work EXCEPT ![t] = begun, ![p].todo = Tail(@)]
  BY DEF Start, TaskNames
<1>2. PICK t \in Tasks, begun \in Begun(name) :
        /\ IsIdle(t) \/ At(t, Asleep)
        /\ work' = [work EXCEPT ![t] = begun, ![p].todo = Tail(@)]
  BY <1>1
<1>3. t \in Processes /\ t # "main"
  BY LspSessionAssumption DEF Processes
<1>4. t # p /\ Mine(t, held) = {}
  <2>1. CASE IsIdle(t)
    BY <1>1, <1>3, <2>1 DEF IsIdle, Idle, At, AllTidy, Tidy
  <2>2. CASE At(t, Asleep)
    <3>1. Asleep # Started(name)
      BY DEF Asleep, Started
    <3>2. InOrder(t, work[t].name, Mine(t, held), Asleep)
      BY <1>3, <2>2, HeadInOrder DEF At, AllTidy, Tidy
    <3> QED BY <1>1, <2>2, <3>1, <3>2 DEF At, InOrder
  <2> QED BY <1>2, <2>1, <2>2
<1> DEFINE moved == [work EXCEPT ![p].todo = Tail(@)]
<1>5. /\ work' = [moved EXCEPT ![t] = begun] /\ held' = held
  BY <1>2, <1>4 DEF Start
<1>6. Tidy(t, begun, Mine(t, held))
  BY <1>3, <1>4, BegunTidy
<1>7. ASSUME NEW q \in Processes PROVE Tidy(q, moved[q], Mine(q, held))
  <2>1. CASE q # p
    BY <2>1 DEF AllTidy
  <2>2. CASE q = p
    <3> DEFINE w == work[p]
               L == Mine(p, held)
    <3>1. w \in [name : Names, todo : Seq(Steps)] /\ w.todo # <<>> /\ w.name # "none"
          /\ Orderly(p, w.name, L, w.todo) /\ Head(w.todo) = Started(name)
      BY <1>1 DEF AllTidy, Tidy, At
    <3>2. Orderly(p, w.name, After(L, Head(w.todo)), Tail(w.todo)) /\ Tail(w.todo) \in Seq(Steps)
      BY <3>1, TailOrderly
    <3>3. L \subseteq After(L, Head(w.todo))
      <4>1. \A l : Started(name) # Release(l)
        BY DEF Started, Release
      <4> QED BY <3>1, <4>1 DEF After, Mine
    <3>4. Orderly(p, w.name, L, Tail(w.todo))
      BY <3>2, <3>3, LessOrderly
    <3>5. moved[q] = [name |-> w.name, todo |-> Tail(w.todo)]
      BY <2>2, <3>1 DEF AllTidy
    <3> HIDE DEF w, moved
    <3> QED BY <2>2, <3>1, <3>2, <3>4, <3>5 DEF Tidy
  <2> QED BY <2>1, <2>2
<1>8. DOMAIN moved = Processes
  BY DEF AllTidy
<1> HIDE DEF moved
<1>9. ASSUME NEW q \in Processes PROVE Tidy(q, work'[q], Mine(q, held'))
  BY <1>5, <1>6, <1>7, <1>8
<1> QED BY <1>5, <1>8, <1>9 DEF AllTidy

LEMMA CallTidy ==
  ASSUME AllTidy, NEW p \in Processes, Uses(p), held' = held,
         Advance(p) \/ work' = work
  PROVE  AllTidy'
<1>1. work[p].todo # <<>> /\ Head(work[p].todo)[1] # "release"
  BY DEF Uses, At, Request, Notify
<1>2. CASE Advance(p)
  BY <1>1, <1>2, Stays
<1>3. CASE work' = work
  BY <1>3 DEF AllTidy
<1> QED BY <1>2, <1>3

LEMMA StepTidy ==
  ASSUME AllTidy, NEW p \in Processes, Step(p)
  PROVE  AllTidy'
<1>1. CASE Acquire(p)
  BY <1>1, AcquireTidy
<1>2. CASE Unlock(p)
  BY <1>2, UnlockTidy
<1>3. CASE End(p)
  BY <1>3, EndTidy
<1>4. CASE GoOn(p)
  BY <1>4, GoOnTidy
<1>5. CASE Start(p)
  BY <1>5, StartTidy
<1>6. CASE Spawn(p)
  BY <1>6, CallTidy DEF Spawn
<1>7. CASE Call(p)
  BY <1>7, CallTidy DEF Call
<1>8. CASE WriteRequest(p)
  BY <1>8, CallTidy DEF WriteRequest, Writes, EndCall
<1>9. CASE WriteNotification(p)
  BY <1>9, CallTidy DEF WriteNotification, Writes, EndCall
<1>10. CASE Receive(p)
  BY <1>10, CallTidy DEF Receive, EndCall
<1>11. CASE TimeOut(p)
  BY <1>11, CallTidy DEF TimeOut, EndCall
<1> QED BY <1>1, <1>2, <1>3, <1>4, <1>5, <1>6, <1>7, <1>8, <1>9, <1>10, <1>11 DEF Step

LEMMA InitTidy == Init => AllTidy
<1> SUFFICES ASSUME Init PROVE AllTidy
  OBVIOUS
<1>1. held \in Held /\ DOMAIN work = Processes
  BY DEF Init, Held
<1>2. ASSUME NEW p \in Processes PROVE Tidy(p, work[p], Mine(p, held))
  <2>1. work[p] = Idle /\ Mine(p, held) = {}
    BY DEF Init, Mine
  <2> QED BY <2>1, IdleTidy
<1> QED BY <1>1, <1>2 DEF AllTidy

LEMMA NextTidy == AllTidy /\ [Next]_vars => AllTidy'
<1> SUFFICES ASSUME AllTidy, [Next]_vars PROVE AllTidy'
  OBVIOUS
<1>1. CASE \E name \in Commands : Give(name)
  BY <1>1, GiveTidy
<1>2. CASE \E p \in Processes : Step(p)
  BY <1>2, StepTidy
<1>3. CASE ServerReads \/ ServerAsks \/ ServerExits \/ ReaderReads \/ ReaderSends
  BY <1>3 DEF ServerReads, ServerAsks, ServerExits, ReaderReads, ReaderSends, AllTidy
<1>4. CASE UNCHANGED vars
  BY <1>4 DEF vars, AllTidy
<1> QED BY <1>1, <1>2, <1>3, <1>4 DEF Next

----------------------------------------------------------------------------
(* In a deadlock everyone waits for a lock that is held by one of them.    *)
LEMMA TidyDeadlock == AllTidy => OneDeadlock
<1> SUFFICES ASSUME AllTidy, NEW S \in SUBSET Processes, Deadlocked(S)
             PROVE  /\ "main" \in S /\ work["main"].name = "save_document_as"
                    /\ \E t \in S : work[t].name = "diagnostics task"
  BY DEF OneDeadlock
<1> DEFINE Wish(p, l, m) == Wants(p) /\ Wanted(p) = <<"acquire", l, m>>
           Ordered(p, l, m) == IF p = "main" THEN MainInOrder(work[p].name, Mine(p, held), l)
                               ELSE TaskInOrder(work[p].name, Mine(p, held), l, m)
<1>1. ASSUME NEW p \in S
      PROVE  \E l \in Locks, m \in Modes :
               /\ Wish(p, l, m) /\ Ordered(p, l, m)
               /\ \E q \in S, k \in Modes : <<l, k>> \in Mine(q, held) /\ ~(k = "read" /\ m = "read")
  <2>1. PICK q \in S : WaitsFor(p, q)
    BY DEF Deadlocked
  <2>2. PICK h \in held : h[3] = q /\ Excludes(h, p)
    BY <2>1 DEF WaitsFor
  <2>3. PICK l \in Locks, m \in Modes : Wanted(p) = <<"acquire", l, m>>
    BY <2>1, Waiting DEF WaitsFor
  <2>4. Ordered(p, l, m)
    <3>1. InOrder(p, work[p].name, Mine(p, held), Wanted(p))
      BY <2>1, HeadInOrder DEF AllTidy, Tidy, WaitsFor, Wants, Wanted
    <3> QED BY <2>3, <3>1 DEF InOrder
  <2>5. h \in Locks \X Modes \X Processes
    BY DEF AllTidy, Held
  <2>6. h[1] = l /\ h[2] \in Modes /\ ~(h[2] = "read" /\ m = "read") /\ h = <<h[1], h[2], h[3]>>
    BY <2>2, <2>3, <2>5 DEF Excludes
  <2>7. <<l, h[2]>> \in Mine(q, held)
    BY <2>2, <2>6 DEF Mine
  <2> QED BY <2>1, <2>3, <2>4, <2>6, <2>7 DEF WaitsFor
<1>2. ASSUME NEW p, NEW l1, NEW m1, NEW l2, NEW m2, Wish(p, l1, m1), Wish(p, l2, m2)
      PROVE  l1 = l2 /\ m1 = m2
  BY <1>2
<1> HIDE DEF Wish
<1>3. ASSUME NEW p \in S, NEW m, Wish(p, "lsp", m)
      PROVE  \E q \in S, k \in Modes : Wish(q, "registry", k)
  <2>1. PICK q \in S : Owns(Mine(q, held), "lsp")
    BY <1>1, <1>2, <1>3 DEF Owns
  <2>2. PICK l \in Locks, k \in Modes : Wish(q, l, k) /\ Ordered(q, l, k)
    BY <1>1
  <2>3. l = "registry"
    BY <2>1, <2>2 DEF MainInOrder, TaskInOrder
  <2> QED BY <2>2, <2>3
<1>4. ASSUME NEW p \in S, NEW m, Wish(p, "versions", m)
      PROVE  \E q \in S, k \in Modes : Wish(q, "registry", k)
  <2>1. PICK q \in S : Owns(Mine(q, held), "versions")
    BY <1>1, <1>2, <1>4 DEF Owns
  <2>2. PICK l \in Locks, k \in Modes : Wish(q, l, k) /\ Ordered(q, l, k)
    BY <1>1
  <2>3. l = "lsp"
    BY <2>1, <2>2 DEF MainInOrder, TaskInOrder
  <2> QED BY <1>3, <2>2, <2>3
<1>5. ASSUME NEW p \in S, NEW m, Wish(p, "pending", m)
      PROVE  \E q \in S, k \in Modes : Wish(q, "registry", k)
  <2>1. PICK q \in S : Owns(Mine(q, held), "pending")
    BY <1>1, <1>2, <1>5 DEF Owns
  <2>2. PICK l \in Locks, k \in Modes : Wish(q, l, k) /\ Ordered(q, l, k)
    BY <1>1
  <2>3. l = "lsp" \/ l = "versions"
    BY <2>1, <2>2 DEF MainInOrder, TaskInOrder
  <2> QED BY <1>3, <1>4, <2>2, <2>3
<1>6. PICK t \in S, k \in Modes : Wish(t, "registry", k)
  <2>1. PICK p \in S : TRUE
    BY DEF Deadlocked
  <2>2. PICK l \in Locks, m \in Modes : Wish(p, l, m)
    BY <1>1
  <2> QED BY <1>3, <1>4, <1>5, <2>2 DEF Locks
<1>7. PICK q \in S, j \in Modes :
        Ordered(t, "registry", k) /\ <<"registry", j>> \in Mine(q, held) /\ ~(j = "read" /\ k = "read")
  BY <1>1, <1>2, <1>6
<1>8. PICK l \in Locks, m \in Modes : Wish(q, l, m) /\ Ordered(q, l, m)
  BY <1>1
<1>9. q = "main" /\ l # "registry"
  BY <1>7, <1>8 DEF TaskInOrder, MainInOrder, Owns
<1>10. t # "main"
  BY <1>2, <1>6, <1>8, <1>9
<1>11. k = "read" /\ work[t].name = "diagnostics task" /\ j = "write"
  BY <1>7, <1>10 DEF TaskInOrder, Modes
<1>12. work["main"].name = "save_document_as"
  BY <1>7, <1>8, <1>9, <1>11 DEF MainInOrder
<1> QED BY <1>9, <1>11, <1>12

(* However many tasks there are, a deadlock is one of save_document_as,    *)
(* which waits for the client with the registry locked, and a diagnostics  *)
(* task, which waits for the registry with the client locked.              *)
THEOREM DeadlockIsOne == Spec => []OneDeadlock
<1>1. Spec => []AllTidy
  BY InitTidy, NextTidy, PTL DEF Spec
<1> QED BY <1>1, TidyDeadlock, PTL

----------------------------------------------------------------------------
(* The rest of the types: the count of commands and the server process.    *)
ServerShape(s) == s \in [alive : BOOLEAN, input : {s.input}, output : {s.output}]

Counts == given \in Nat /\ ServerShape(server)

LEMMA EndCallCounts ==
  ASSUME Counts, NEW p, NEW c, NEW succeeded, NEW s, ServerShape(s), EndCall(p, c, succeeded, s)
  PROVE  Counts'
<1>1. given' = given /\ (server' = s \/ server' = NoServer)
  BY DEF EndCall
<1>2. ServerShape(NoServer)
  BY DEF ServerShape, NoServer
<1> QED BY <1>1, <1>2 DEF Counts

LEMMA WrittenShape == Counts => ServerShape(Written)
<1> SUFFICES ASSUME Counts PROVE ServerShape(Written)
  OBVIOUS
<1> DEFINE sent == Append(server.input, client.call.id)
<1>1. Written = [server EXCEPT !.input = sent] \/ Written = server
  BY DEF Written
<1> HIDE DEF sent
<1> QED BY <1>1 DEF Counts, ServerShape

LEMMA StepCounts ==
  ASSUME Counts, NEW p \in Processes, Step(p)
  PROVE  Counts'
<1>1. CASE Acquire(p) \/ Unlock(p) \/ End(p) \/ GoOn(p) \/ Start(p)
  <2>1. given' = given /\ server' = server
    BY <1>1 DEF Acquire, Unlock, End, GoOn, Start, conversation
  <2> QED BY <2>1 DEF Counts, ServerShape
<1>2. CASE Spawn(p)
  <2>1. given' = given
        /\ (server' = server \/ server' = [NoServer EXCEPT !.alive = TRUE])
    BY <1>2 DEF Spawn, conversation
  <2> QED BY <2>1 DEF Counts, ServerShape, NoServer
<1>3. CASE Call(p)
  BY <1>3 DEF Call, Counts, ServerShape
<1>4. CASE WriteRequest(p)
  <2>1. CASE server.alive
    <3>1. given' = given /\ server' = Written
      BY <1>4, <2>1 DEF WriteRequest
    <3> QED BY <3>1, WrittenShape DEF Counts
  <2>2. CASE ~server.alive
    <3>1. EndCall(p, [client EXCEPT !.left = @ \union {client.call.id}], FALSE, server)
      BY <1>4, <2>2 DEF WriteRequest
    <3>2. ServerShape(server)
      BY DEF Counts
    <3> QED BY <3>1, <3>2, EndCallCounts
  <2> QED BY <2>1, <2>2
<1>5. CASE WriteNotification(p)
  BY <1>5, WrittenShape, EndCallCounts DEF WriteNotification
<1>6. CASE Receive(p) \/ TimeOut(p)
  <2>1. \E succeeded \in BOOLEAN : EndCall(p, Forgotten(client), succeeded, server)
    BY <1>6 DEF Receive, TimeOut
  <2>2. ServerShape(server)
    BY DEF Counts
  <2> QED BY <2>1, <2>2, EndCallCounts
<1> QED BY <1>1, <1>2, <1>3, <1>4, <1>5, <1>6 DEF Step

LEMMA ServerCounts ==
  ASSUME Counts, ServerReads \/ ServerAsks \/ ServerExits \/ ReaderReads \/ ReaderSends
  PROVE  Counts'
<1>1. given' = given
  BY DEF ServerReads, ServerAsks, ServerExits, ReaderReads, ReaderSends
<1>2. \A in, out : ServerShape([server EXCEPT !.input = in, !.output = out])
  BY DEF Counts, ServerShape
<1>3. \A in : ServerShape([server EXCEPT !.input = in])
  BY DEF Counts, ServerShape
<1>4. \A out : ServerShape([server EXCEPT !.output = out])
  BY DEF Counts, ServerShape
<1>5. \A in : ServerShape([server EXCEPT !.alive = FALSE, !.input = in])
  BY DEF Counts, ServerShape
<1>6. CASE ServerReads
  <2> DEFINE in == Tail(server.input)
             out(form) == server.output \union {Message(Head(server.input), form)}
  <2>1. \/ \E form \in Forms : server' = [server EXCEPT !.input = in, !.output = out(form)]
        \/ server' = [server EXCEPT !.input = in]
    BY <1>6 DEF ServerReads
  <2>2. CASE server' = [server EXCEPT !.input = in]
    BY <1>1, <1>3, <2>2 DEF Counts
  <2>3. ASSUME NEW form \in Forms, server' = [server EXCEPT !.input = in, !.output = out(form)]
        PROVE  Counts'
    BY <1>1, <1>2, <2>3 DEF Counts
  <2> QED BY <2>1, <2>2, <2>3
<1>7. CASE ServerAsks
  BY <1>1, <1>4, <1>7 DEF ServerAsks, Counts
<1>8. CASE ServerExits
  BY <1>1, <1>5, <1>8 DEF ServerExits, Counts
<1>9. CASE ReaderReads
  BY <1>1, <1>4, <1>9 DEF ReaderReads, Counts
<1>10. CASE ReaderSends
  BY <1>1, <1>10 DEF ReaderSends, Counts
<1> QED BY <1>6, <1>7, <1>8, <1>9, <1>10

LEMMA NextCounts ==
  ASSUME Counts, [Next]_vars
  PROVE  Counts'
<1>1. ASSUME NEW name \in Commands, Give(name) PROVE Counts'
  BY <1>1 DEF Give, Counts, ServerShape, conversation
<1>2. CASE UNCHANGED vars
  BY <1>2 DEF vars, Counts, ServerShape, conversation
<1> QED BY <1>1, <1>2, StepCounts, ServerCounts DEF Next

(* Every variable holds a value of its type, whatever the server writes,   *)
(* and the id of a request is one its client gave out.                     *)
THEOREM TypeCorrect == Spec => []TypeOK
<1>1. Spec => []AllTidy
  BY InitTidy, NextTidy, PTL DEF Spec
<1>2. Inv /\ [Next]_vars => Inv'
  BY StepInv
<1>3. Spec => []Inv
  BY InitInv, <1>2, PTL DEF Spec
<1>4. Init => Counts
  BY DEF Init, NoServer, Counts, ServerShape
<1>5. Counts /\ [Next]_vars => Counts'
  BY NextCounts
<1>6. Spec => []Counts
  BY <1>4, <1>5, PTL DEF Spec
<1>7. AllTidy /\ Inv /\ Counts => TypeOK
  <2> SUFFICES ASSUME AllTidy, Inv, Counts PROVE TypeOK
    OBVIOUS
  <2>1. \A p \in Processes : work[p].name \in Names
    BY DEF AllTidy, Tidy
  <2>2. given \in Nat /\ server.alive \in BOOLEAN
    BY DEF Counts, ServerShape
  <2>3. held \subseteq Locks \X Modes \X Processes
    BY DEF AllTidy, Held
  <2>4. /\ client \in {None} \union ClientRecord
        /\ client # None => \A id \in client.pending \union {client.call.id} : id < client.next_id
    BY DEF Inv, Sound
  <2>5. reader \in {None} \union Nat
    BY DEF Inv
  <2> QED BY <2>1, <2>2, <2>3, <2>4, <2>5 DEF TypeOK, Names, TaskNames
<1> QED BY <1>1, <1>3, <1>6, <1>7, PTL
===============================================================================
