--------------------------- MODULE DidChange_proof ---------------------------
(***************************************************************************)
(* Proofs about the batching of didChange notifications, for every set of  *)
(* paths and any number of edits: nothing queued is lost, repeated or      *)
(* reordered, no change is left without a task to send it, and the version *)
(* the server is told never runs ahead of the changes it was sent.         *)
(***************************************************************************)
EXTENDS DidChange, SequenceTheorems, TLAPS

(* A task holds exactly the locks its place in the code says.              *)
LockInv ==
  /\ \A t \in Tasks : task[t].at \in {"locking", "locked", "sending"}
                        <=> pending_lock = t
  /\ \A t \in Tasks : task[t].at \in {"locked", "sending"}
                        <=> versions_lock = t

(* Tasks are spawned in the order of their numbers, one per call of        *)
(* queue_did_change, and a handle is that of a task of its path.           *)
SpawnInv ==
  /\ main # Idle => spawned < MaxEdits
  /\ \A t \in Tasks : task[t].at = "unborn" <=> t > spawned
  /\ \A p \in Paths : handles[p] # None =>
       handles[p] <= spawned /\ task[handles[p]].path = p

(* A version on its way to the server is that of a change which is at most *)
(* as far behind.                                                          *)
VersionInv ==
  /\ \A p \in Paths : versions[p] <= queued[p]
  /\ \A t \in Tasks : task[t].at = "sending" =>
       task[t].version <= Len(sent[task[t].path]) + Len(task[t].changes)

Inv ==
  /\ TypeOK
  /\ LockInv
  /\ SpawnInv
  /\ ChangesInOrder
  /\ VersionInv
  /\ LabelNeverAhead
  /\ PendingHasTask

----------------------------------------------------------------------------
(* What the type invariant says of one task.                               *)
LEMMA TaskType ==
  ASSUME TypeOK, NEW t \in Tasks
  PROVE  /\ task[t].at \in {"unborn", "sleeping", "aborted", "awake", "locking",
                            "locked", "sending", "done"}
         /\ task[t].at # "unborn" => task[t].path \in Paths
         /\ task[t].at = "sending" =>
              task[t].changes \in Seq(Nat) /\ task[t].version \in Nat
         /\ task[t].at = "awake" => task[t] = [at |-> "awake", path |-> task[t].path]
<1>1. task[t] \in TaskState  BY DEF TypeOK
<1> QED BY <1>1 DEF TaskState

(* Moving a task on to another state that only has a path.                 *)
LEMMA MoveType ==
  ASSUME TypeOK, NEW t \in Tasks, task[t].at \notin {"unborn", "sending"},
         NEW a \in {"sleeping", "aborted", "awake", "locking", "locked", "done"}
  PROVE  [task[t] EXCEPT !.at = a] \in TaskState
<1>1. task[t] \in [at : {"sleeping", "aborted", "awake", "locking", "locked", "done"},
                   path : Paths]
  BY DEF TypeOK, TaskState
<1> QED BY <1>1 DEF TaskState

LEMMA MainType ==
  ASSUME TypeOK
  PROVE  /\ main.at \in {"idle", "extended", "stored"}
         /\ main.at = "idle" <=> main = Idle
         /\ main # Idle => main.path \in Paths
BY DEF TypeOK, Idle

LEMMA InitTypeOK == Init => TypeOK
BY DidChangeAssumption DEF Init, TypeOK, Idle, Unborn, TaskState, Tasks

LEMMA StepTypeOK == TypeOK /\ SpawnInv /\ [Next]_vars => TypeOK'
<1> SUFFICES ASSUME TypeOK, SpawnInv, [Next]_vars PROVE TypeOK'  OBVIOUS
<1> USE DidChangeAssumption DEF maps, locks, server
<1>1. ASSUME NEW p \in Paths, Extend(p) PROVE TypeOK'
  <2>1. queued' \in [Paths -> Nat] /\ pending' \in [Paths -> Seq(Nat)]
    BY <1>1 DEF Extend, TypeOK
  <2>2. main' \in [at : {"extended", "stored"}, path : Paths]
    BY <1>1 DEF Extend
  <2> QED BY <1>1, <2>1, <2>2 DEF Extend, TypeOK
<1>2. CASE StoreVersion
  <2>1. main.path \in Paths /\ main' = [at |-> "stored", path |-> main.path]
    BY <1>2, MainType DEF StoreVersion, TypeOK, Idle
  <2> QED BY <1>2, <2>1 DEF StoreVersion, TypeOK
<1>3. CASE ReplaceTask
  <2>1. main # Idle /\ main.path \in Paths  BY <1>3, MainType DEF ReplaceTask
  <2>2. spawned' \in Tasks /\ spawned' = spawned + 1
    BY <1>3, <2>1 DEF ReplaceTask, SpawnInv, TypeOK, Tasks
  <2>3. Aborted(task, handles[main.path]) \in [Tasks -> TaskState]
    <3>1. CASE handles[main.path] # None /\ task[handles[main.path]].at = "sleeping"
      <4>1. handles[main.path] \in Tasks  BY <2>1, <3>1 DEF TypeOK
      <4>2. [task[handles[main.path]] EXCEPT !.at = "aborted"] \in TaskState
        BY <3>1, <4>1, MoveType
      <4> QED BY <3>1, <4>1, <4>2 DEF Aborted, TypeOK
    <3>2. CASE ~(handles[main.path] # None /\ task[handles[main.path]].at = "sleeping")
      BY <3>2 DEF Aborted, TypeOK
    <3> QED BY <3>1, <3>2
  <2>4. [at |-> "sleeping", path |-> main.path] \in TaskState
    BY <2>1 DEF TaskState
  <2>5. task' \in [Tasks -> TaskState]
    BY <1>3, <2>2, <2>3, <2>4 DEF ReplaceTask
  <2>6. handles' \in [Paths -> Tasks \union {None}]
    BY <1>3, <2>1, <2>2 DEF ReplaceTask, TypeOK
  <2>7. main' = Idle /\ UNCHANGED <<queued, maps, locks, server>>
    BY <1>3 DEF ReplaceTask
  <2>8. spawned' \in 0..MaxEdits
    BY <2>2 DEF Tasks
  <2> QED BY <2>5, <2>6, <2>7, <2>8 DEF TypeOK, maps, locks, server
<1>4. ASSUME NEW t \in Tasks, Wake(t) PROVE TypeOK'
  BY <1>4, MoveType DEF Wake, TypeOK
<1>5. ASSUME NEW t \in Tasks, LockPending(t) PROVE TypeOK'
  BY <1>5, MoveType DEF LockPending, TypeOK
<1>6. ASSUME NEW t \in Tasks, LockVersions(t) PROVE TypeOK'
  BY <1>6, MoveType DEF LockVersions, TypeOK
<1>7. ASSUME NEW t \in Tasks, Take(t) PROVE TypeOK'
  <2>1. task[t].path \in Paths  BY <1>7, TaskType DEF Take
  <2>2. [at |-> "sending", path |-> task[t].path, changes |-> pending[task[t].path],
         version |-> versions[task[t].path]] \in TaskState
    BY <2>1 DEF TypeOK, TaskState
  <2>3. task' \in [Tasks -> TaskState]  BY <1>7, <2>2 DEF Take, TypeOK
  <2> QED BY <1>7, <2>1, <2>3 DEF Take, TypeOK
<1>8. ASSUME NEW t \in Tasks, task[t].at # "unborn", Finish(t)
      PROVE  /\ task' \in [Tasks -> TaskState]
             /\ pending_lock' \in Tasks \union {None}
             /\ versions_lock' \in Tasks \union {None}
  <2>1. [at |-> "done", path |-> task[t].path] \in TaskState
    BY <1>8, TaskType DEF TaskState
  <2> QED BY <1>8, <2>1 DEF Finish, TypeOK
<1>9. ASSUME NEW t \in Tasks, FindNothing(t) PROVE TypeOK'
  BY <1>8, <1>9 DEF FindNothing, TypeOK
<1>10. ASSUME NEW t \in Tasks, Send(t) PROVE TypeOK'
  <2>1. /\ task[t].path \in Paths /\ task[t].changes \in Seq(Nat)
        /\ task[t].version \in Nat
    BY <1>10, TaskType DEF Send
  <2>2. sent' \in [Paths -> Seq(Nat)] /\ label' \in [Paths -> Nat]
    BY <1>10, <2>1 DEF Send, TypeOK
  <2> QED BY <1>8, <1>10, <2>2 DEF Send, TypeOK
<1>11. CASE UNCHANGED vars  BY <1>11 DEF vars, TypeOK
<1> QED BY <1>1, <1>2, <1>3, <1>4, <1>5, <1>6, <1>7, <1>9, <1>10, <1>11
        DEF Next, Queue, Debounce

----------------------------------------------------------------------------
(* What spawning a task does to the tasks: a new one sleeps, and one of    *)
(* the same path is aborted if it still slept.                             *)
LEMMA Replaced ==
  ASSUME TypeOK, SpawnInv, ReplaceTask
  PROVE  /\ main # Idle /\ main.path \in Paths
         /\ spawned' \in Tasks /\ spawned' = spawned + 1
         /\ task[spawned'].at = "unborn"
         /\ task'[spawned'] = [at |-> "sleeping", path |-> main.path]
         /\ \A t \in Tasks \ {spawned'} :
              \/ task'[t] = task[t]
              \/ /\ t = handles[main.path] /\ task[t].at = "sleeping"
                 /\ task'[t].at = "aborted" /\ task'[t].path = task[t].path
<1> USE DidChangeAssumption
<1>1. main # Idle /\ main.path \in Paths  BY MainType DEF ReplaceTask
<1>2. spawned' \in Tasks /\ spawned' = spawned + 1
  BY <1>1 DEF ReplaceTask, SpawnInv, TypeOK, Tasks
<1>3. task[spawned'].at = "unborn"  BY <1>2 DEF SpawnInv, TypeOK, Tasks
<1> DEFINE rest == Aborted(task, handles[main.path])
<1>4. /\ DOMAIN rest = Tasks
      /\ \A t \in Tasks :
           \/ rest[t] = task[t]
           \/ /\ t = handles[main.path] /\ task[t].at = "sleeping"
              /\ rest[t] = [task[t] EXCEPT !.at = "aborted"]
  BY DEF Aborted, TypeOK
<1>5. task' = [rest EXCEPT ![spawned'] = [at |-> "sleeping", path |-> main.path]]
  BY DEF ReplaceTask
<1> HIDE DEF rest
<1>6. task'[spawned'] = [at |-> "sleeping", path |-> main.path]
  BY <1>2, <1>4, <1>5
<1>7. ASSUME NEW t \in Tasks \ {spawned'}
      PROVE  \/ task'[t] = task[t]
             \/ /\ t = handles[main.path] /\ task[t].at = "sleeping"
                /\ task'[t].at = "aborted" /\ task'[t].path = task[t].path
  <2>1. task'[t] = rest[t]  BY <1>4, <1>5
  <2>2. CASE rest[t] = task[t]  BY <2>1, <2>2
  <2>3. CASE /\ t = handles[main.path] /\ task[t].at = "sleeping"
             /\ rest[t] = [task[t] EXCEPT !.at = "aborted"]
    <3>1. task[t] \in [at : {"sleeping", "aborted", "awake", "locking", "locked", "done"},
                       path : Paths]
      BY <2>3 DEF TypeOK, TaskState
    <3> QED BY <2>1, <2>3, <3>1
  <2> QED BY <1>4, <2>2, <2>3
<1> QED BY <1>1, <1>2, <1>3, <1>6, <1>7

(* What a step of a task does to the tasks: this one moves on, its path    *)
(* stays.                                                                  *)
LEMMA Moved ==
  ASSUME TypeOK, NEW t \in Tasks, Debounce(t)
  PROVE  /\ \A u \in Tasks \ {t} : task'[u] = task[u]
         /\ task[t].at \in {"sleeping", "awake", "locking", "locked", "sending"}
         /\ task'[t].path = task[t].path
         /\ Wake(t) => task[t].at = "sleeping" /\ task'[t].at = "awake"
         /\ LockPending(t) => task[t].at = "awake" /\ task'[t].at = "locking"
         /\ LockVersions(t) => task[t].at = "locking" /\ task'[t].at = "locked"
         /\ Take(t) => task[t].at = "locked" /\ task'[t].at = "sending"
         /\ FindNothing(t) => task[t].at = "locked" /\ task'[t].at = "done"
         /\ Send(t) => task[t].at = "sending" /\ task'[t].at = "done"
         /\ UNCHANGED <<main, handles, spawned, queued>>
<1>1. ASSUME task[t].at \notin {"unborn", "sending"}, NEW a,
             task' = [task EXCEPT ![t].at = a]
      PROVE  /\ \A u \in Tasks \ {t} : task'[u] = task[u]
             /\ task'[t].at = a /\ task'[t].path = task[t].path
  <2>1. task[t] \in [at : {"sleeping", "aborted", "awake", "locking", "locked", "done"},
                     path : Paths]
    BY <1>1 DEF TypeOK, TaskState
  <2> QED BY <1>1, <2>1 DEF TypeOK
<1>2. ASSUME NEW r, task' = [task EXCEPT ![t] = r]
      PROVE  (\A u \in Tasks \ {t} : task'[u] = task[u]) /\ task'[t] = r
  BY <1>2 DEF TypeOK
<1>3. CASE Wake(t)
  BY <1>1, <1>3 DEF Wake, LockPending, LockVersions, Take, FindNothing, Send
<1>4. CASE LockPending(t)
  BY <1>1, <1>4 DEF Wake, LockPending, LockVersions, Take, FindNothing, Send
<1>5. CASE LockVersions(t)
  BY <1>1, <1>5 DEF Wake, LockPending, LockVersions, Take, FindNothing, Send
<1>6. CASE Take(t)
  <2> DEFINE r == [at |-> "sending", path |-> task[t].path,
                   changes |-> pending[task[t].path], version |-> versions[task[t].path]]
  <2>1. task' = [task EXCEPT ![t] = r] /\ task[t].at = "locked"  BY <1>6 DEF Take
  <2>2. (\A u \in Tasks \ {t} : task'[u] = task[u]) /\ task'[t] = r
    BY <1>2, <2>1
  <2>3. pending[task[t].path] # <<>>  BY <1>6 DEF Take
  <2> QED BY <1>6, <2>1, <2>2, <2>3
          DEF Wake, LockPending, LockVersions, Take, FindNothing, Send
<1>7. CASE FindNothing(t)
  BY <1>2, <1>7 DEF Wake, LockPending, LockVersions, Take, FindNothing, Send, Finish
<1>8. CASE Send(t)
  BY <1>2, <1>8 DEF Wake, LockPending, LockVersions, Take, FindNothing, Send, Finish
<1> QED BY <1>3, <1>4, <1>5, <1>6, <1>7, <1>8 DEF Debounce

LEMMA StepLockInv == TypeOK /\ SpawnInv /\ LockInv /\ [Next]_vars => LockInv'
<1> SUFFICES ASSUME TypeOK, SpawnInv, LockInv, [Next]_vars PROVE LockInv'
  OBVIOUS
<1> USE DidChangeAssumption DEF locks
<1>1. ASSUME NEW p \in Paths, Extend(p) PROVE LockInv'
  BY <1>1 DEF Extend, LockInv
<1>2. CASE StoreVersion  BY <1>2 DEF StoreVersion, LockInv
<1>3. CASE ReplaceTask
  <2>1. \A t \in Tasks : \/ task'[t] = task[t]
                         \/ /\ task[t].at \in {"unborn", "sleeping"}
                            /\ task'[t].at \in {"sleeping", "aborted"}
    BY <1>3, Replaced
  <2>2. UNCHANGED <<pending_lock, versions_lock>>  BY <1>3 DEF ReplaceTask
  <2> QED BY <2>1, <2>2 DEF LockInv
<1>4. ASSUME NEW t \in Tasks, Debounce(t) PROVE LockInv'
  <2>1. None \notin Tasks  BY DEF Tasks
  <2>2. \A u \in Tasks \ {t} : task'[u] = task[u]  BY <1>4, Moved
  <2>3. CASE Wake(t)
    <3>1. task[t].at = "sleeping" /\ task'[t].at = "awake"  BY <1>4, <2>3, Moved
    <3>2. UNCHANGED <<pending_lock, versions_lock>>
      BY <2>3 DEF Wake
    <3> QED BY <1>4, <2>1, <2>2, <3>1, <3>2 DEF LockInv
  <2>4. CASE LockPending(t)
    <3>1. task[t].at = "awake" /\ task'[t].at = "locking"  BY <1>4, <2>4, Moved
    <3>2. pending_lock = None /\ pending_lock' = t /\ UNCHANGED versions_lock
      BY <2>4 DEF LockPending
    <3> QED BY <1>4, <2>1, <2>2, <3>1, <3>2 DEF LockInv
  <2>5. CASE LockVersions(t)
    <3>1. task[t].at = "locking" /\ task'[t].at = "locked"  BY <1>4, <2>5, Moved
    <3>2. versions_lock = None /\ versions_lock' = t /\ UNCHANGED pending_lock
      BY <2>5 DEF LockVersions
    <3> QED BY <1>4, <2>1, <2>2, <3>1, <3>2 DEF LockInv
  <2>6. CASE Take(t)
    <3>1. task[t].at = "locked" /\ task'[t].at = "sending"  BY <1>4, <2>6, Moved
    <3>2. UNCHANGED <<pending_lock, versions_lock>>
      BY <2>6 DEF Take
    <3> QED BY <1>4, <2>1, <2>2, <3>1, <3>2 DEF LockInv
  <2>7. CASE FindNothing(t)
    <3>1. task[t].at = "locked" /\ task'[t].at = "done"  BY <1>4, <2>7, Moved
    <3>2. pending_lock' = None /\ versions_lock' = None
      BY <2>7 DEF FindNothing, Finish
    <3> QED BY <1>4, <2>1, <2>2, <3>1, <3>2 DEF LockInv
  <2>8. CASE Send(t)
    <3>1. task[t].at = "sending" /\ task'[t].at = "done"  BY <1>4, <2>8, Moved
    <3>2. pending_lock' = None /\ versions_lock' = None
      BY <2>8 DEF Send, Finish
    <3> QED BY <1>4, <2>1, <2>2, <3>1, <3>2 DEF LockInv
  <2> QED BY <1>4, <2>3, <2>4, <2>5, <2>6, <2>7, <2>8 DEF Debounce
<1>5. CASE UNCHANGED vars  BY <1>5 DEF vars, LockInv
<1> QED BY <1>1, <1>2, <1>3, <1>4, <1>5 DEF Next, Queue

LEMMA StepSpawnInv == TypeOK /\ SpawnInv /\ [Next]_vars => SpawnInv'
<1> SUFFICES ASSUME TypeOK, SpawnInv, [Next]_vars PROVE SpawnInv'  OBVIOUS
<1> USE DidChangeAssumption
<1>1. ASSUME NEW p \in Paths, Extend(p) PROVE SpawnInv'
  BY <1>1 DEF Extend, SpawnInv
<1>2. CASE StoreVersion
  <2>1. main # Idle  BY <1>2, MainType DEF StoreVersion
  <2> QED BY <1>2, <2>1 DEF StoreVersion, SpawnInv
<1>3. CASE ReplaceTask
  <2>1. /\ main' = Idle
        /\ handles' = [handles EXCEPT ![main.path] = spawned']
    BY <1>3 DEF ReplaceTask
  <2>2. \A t \in Tasks : task'[t].at = "unborn" <=> t > spawned'
    <3>1. TAKE t \in Tasks
    <3>2. CASE t = spawned'  BY <1>3, <3>2, Replaced DEF TypeOK, Tasks
    <3>3. CASE t # spawned'
      <4>1. task'[t].at = "unborn" <=> task[t].at = "unborn"
        BY <1>3, <3>3, Replaced
      <4> QED BY <1>3, <3>3, <4>1, Replaced DEF SpawnInv, TypeOK, Tasks
    <3> QED BY <3>2, <3>3
  <2>3. ASSUME NEW p \in Paths, handles'[p] # None
        PROVE  handles'[p] <= spawned' /\ task'[handles'[p]].path = p
    <3>1. CASE p = main.path
      <4>1. handles \in [Paths -> Tasks \cup {None}]  BY DEF TypeOK
      <4>2. handles'[p] = spawned'  BY <2>1, <3>1, <4>1
      <4>3. spawned' \in Tasks /\ task'[spawned'].path = p
        BY <1>3, <3>1, Replaced
      <4>4. spawned' \in Nat  BY <4>3 DEF Tasks
      <4> QED BY <4>2, <4>3, <4>4
    <3>2. CASE p # main.path
      <4>1. handles'[p] = handles[p] /\ handles[p] \in Tasks
        BY <2>1, <2>3, <3>2 DEF TypeOK
      <4>2. handles[p] <= spawned /\ task[handles[p]].path = p
        BY <2>3, <4>1 DEF SpawnInv
      <4>3. handles[p] # spawned'
        BY <1>3, <4>1, <4>2, Replaced DEF TypeOK, Tasks
      <4>4. task'[handles[p]].path = task[handles[p]].path
        BY <1>3, <4>1, <4>3, Replaced
      <4> QED BY <1>3, <4>1, <4>2, <4>4, Replaced DEF TypeOK, Tasks
    <3> QED BY <3>1, <3>2
  <2> QED BY <2>1, <2>2, <2>3 DEF SpawnInv
<1>4. ASSUME NEW t \in Tasks, Debounce(t) PROVE SpawnInv'
  <2>1. \A u \in Tasks : /\ task'[u].at = "unborn" <=> task[u].at = "unborn"
                        /\ task'[u].path = task[u].path
    BY <1>4, Moved DEF Debounce
  <2>2. \A p \in Paths : handles[p] # None => handles[p] \in Tasks  BY DEF TypeOK
  <2>3. UNCHANGED <<main, handles, spawned>>  BY <1>4, Moved
  <2> QED BY <2>1, <2>2, <2>3 DEF SpawnInv
<1>5. CASE UNCHANGED vars  BY <1>5 DEF vars, SpawnInv
<1> QED BY <1>1, <1>2, <1>3, <1>4, <1>5 DEF Next, Queue

----------------------------------------------------------------------------
(* The sequences: one change more, and changes handed from one holder to   *)
(* the next.                                                               *)
LEMMA OneMore ==
  ASSUME NEW s \in Seq(Nat), NEW r \in Seq(Nat), NEW n \in Nat,
         s \o <<>> \o r = InOrder(n)
  PROVE  s \o <<>> \o Append(r, n + 1) = InOrder(n + 1)
<1>1. s \o <<>> = s  BY ConcatEmptySeq
<1>2. /\ s \o r \in Seq(Nat)
      /\ s \o r = [i \in 1..n |-> i]
  BY <1>1, ConcatProperties DEF InOrder
<1>3. Len(s \o r) = n
  <2>1. DOMAIN (s \o r) = 1..Len(s \o r) /\ Len(s \o r) \in Nat
    BY <1>2, LenProperties
  <2> QED BY <1>2, <2>1
<1>4. s \o Append(r, n + 1) = Append(s \o r, n + 1)
  <2>1. n + 1 \in Nat /\ <<n + 1>> \in Seq(Nat)  OBVIOUS
  <2>2. Append(r, n + 1) = r \o <<n + 1>>  BY <2>1, AppendIsConcat
  <2>3. Append(s \o r, n + 1) = (s \o r) \o <<n + 1>>
    BY <1>2, <2>1, AppendIsConcat
  <2> QED BY <2>1, <2>2, <2>3, ConcatAssociative
<1>5. Append(s \o r, n + 1) = [i \in 1..(n + 1) |-> i]
  <2> DEFINE a == Append(s \o r, n + 1)
  <2>1. /\ a \in Seq(Nat) /\ Len(a) = n + 1
        /\ \A i \in 1..n : a[i] = (s \o r)[i]
        /\ a[n + 1] = n + 1
    BY <1>2, <1>3, AppendProperties
  <2>2. a \in [1..(n + 1) -> Nat]  BY <2>1, LenProperties
  <2> HIDE DEF a
  <2>3. \A i \in 1..(n + 1) : a[i] = i
    <3>1. TAKE i \in 1..(n + 1)
    <3>2. CASE i = n + 1  BY <2>1, <3>2
    <3>3. CASE i # n + 1  BY <1>2, <2>1, <3>3
    <3> QED BY <3>2, <3>3
  <2>4. a = [i \in 1..(n + 1) |-> i]  BY <2>2, <2>3
  <2> QED BY <2>4 DEF a
<1> QED BY <1>1, <1>4, <1>5 DEF InOrder

LEMMA HandOver ==
  ASSUME NEW s \in Seq(Nat), NEW c \in Seq(Nat), NEW r \in Seq(Nat)
  PROVE  /\ s \o <<>> \o c = s \o c \o <<>>
         /\ (s \o c) \o <<>> \o r = s \o c \o r
<1>1. s \o c \in Seq(Nat)  BY ConcatProperties
<1> QED BY <1>1, ConcatEmptySeq

(* What a task has taken changes with that task alone.                     *)
LEMMA TakenIsItsHolders ==
  ASSUME LockInv, NEW p \in Paths
  PROVE  /\ \A t \in Tasks : task[t].at = "sending" /\ task[t].path = p
                => Taken(p) = task[t].changes
         /\ (\A t \in Tasks : task[t].at = "sending" => task[t].path # p)
              /\ pending_lock \in Tasks \union {None}
                => Taken(p) = <<>>
<1>1. None \notin Tasks  BY DidChangeAssumption DEF Tasks
<1> QED BY <1>1 DEF LockInv, Taken

LEMMA TakenType ==
  ASSUME TypeOK, NEW p \in Paths
  PROVE  Taken(p) \in Seq(Nat)
<1>1. CASE /\ pending_lock # None /\ task[pending_lock].at = "sending"
           /\ task[pending_lock].path = p
  <2>1. pending_lock \in Tasks  BY <1>1 DEF TypeOK
  <2> QED BY <1>1, <2>1, TaskType DEF Taken
<1>2. CASE ~(/\ pending_lock # None /\ task[pending_lock].at = "sending"
             /\ task[pending_lock].path = p)
  BY <1>2, EmptySeq DEF Taken
<1> QED BY <1>1, <1>2

LEMMA StepChangesInOrder ==
  ASSUME TypeOK, SpawnInv, LockInv, LockInv', TypeOK', ChangesInOrder, [Next]_vars
  PROVE  ChangesInOrder'
<1> USE DidChangeAssumption DEF maps, locks, server
<1> DEFINE Whole(p) == sent[p] \o Taken(p) \o pending[p] = InOrder(queued[p])
<1>1. \A p \in Paths : Whole(p)  BY DEF ChangesInOrder
<1>2. SUFFICES ASSUME NEW p \in Paths PROVE Whole(p)'  BY DEF ChangesInOrder
<1>3. ASSUME UNCHANGED <<sent, pending, queued>>, Taken(p)' = Taken(p)
      PROVE  Whole(p)'
  BY <1>1, <1>3
<1>4. ASSUME NEW q \in Paths, Extend(q) PROVE Whole(p)'
  <2>1. Taken(p)' = <<>> /\ Taken(p) = <<>>  BY <1>4 DEF Extend, Taken
  <2>2. UNCHANGED sent  BY <1>4 DEF Extend
  <2>3. CASE p = q
    <3>1. /\ pending'[p] = Append(pending[p], queued[p] + 1)
          /\ queued'[p] = queued[p] + 1
      BY <1>4, <2>3 DEF Extend, TypeOK
    <3>2. sent[p] \in Seq(Nat) /\ pending[p] \in Seq(Nat) /\ queued[p] \in Nat
      BY DEF TypeOK
    <3>3. sent[p] \o <<>> \o pending[p] = InOrder(queued[p])
      BY <1>1, <2>1
    <3>4. sent[p] \o <<>> \o Append(pending[p], queued[p] + 1)
            = InOrder(queued[p] + 1)
      BY <3>2, <3>3, OneMore
    <3> QED BY <2>1, <2>2, <3>1, <3>4
  <2>4. CASE p # q
    <3>1. pending'[p] = pending[p] /\ queued'[p] = queued[p]
      BY <1>4, <2>4 DEF Extend, TypeOK
    <3> QED BY <1>1, <2>1, <2>2, <3>1
  <2> QED BY <2>3, <2>4
<1>5. CASE StoreVersion  BY <1>3, <1>5 DEF StoreVersion, Taken
<1>6. CASE ReplaceTask
  <2>1. ASSUME pending_lock # None PROVE task'[pending_lock] = task[pending_lock]
    <3>1. pending_lock \in Tasks /\ task[pending_lock].at \in {"locking", "locked", "sending"}
      BY <2>1 DEF LockInv, TypeOK
    <3> QED BY <1>6, <3>1, Replaced
  <2>2. UNCHANGED <<pending_lock, sent, pending, queued>>  BY <1>6 DEF ReplaceTask
  <2>3. Taken(p)' = Taken(p)
    <3>1. CASE pending_lock = None  BY <2>2, <3>1 DEF Taken
    <3>2. CASE pending_lock # None  BY <2>1, <2>2, <3>2 DEF Taken
    <3> QED BY <3>1, <3>2
  <2> QED BY <1>3, <2>2, <2>3
<1>7. ASSUME NEW t \in Tasks, Debounce(t) PROVE Whole(p)'
  <2>1. \A u \in Tasks \ {t} : task'[u] = task[u]  BY <1>7, Moved
  <2>2. None \notin Tasks  BY DEF Tasks
  <2>3. task[t].at = "locked" => Taken(p) = <<>>
    BY DEF LockInv, Taken
  <2>4. CASE Wake(t)
    <3>1. pending_lock # t /\ UNCHANGED pending_lock
      BY <1>7, <2>4, Moved DEF LockInv, Wake
    <3>2. Taken(p)' = Taken(p)  BY <2>1, <3>1 DEF Taken, TypeOK
    <3> QED BY <1>3, <2>4, <3>2 DEF Wake
  <2>5. CASE LockPending(t)
    <3>1. Taken(p)' = <<>> /\ Taken(p) = <<>>
      BY <1>7, <2>2, <2>5, Moved DEF LockPending, Taken
    <3> QED BY <1>3, <2>5, <3>1 DEF LockPending
  <2>6. CASE LockVersions(t)
    <3>1. pending_lock = t /\ UNCHANGED pending_lock
      BY <1>7, <2>6, Moved DEF LockVersions, LockInv
    <3>2. Taken(p)' = <<>> /\ Taken(p) = <<>>
      BY <1>7, <2>6, <3>1, Moved DEF Taken
    <3> QED BY <1>3, <2>6, <3>2 DEF LockVersions
  <2>7. CASE Take(t)
    <3>1. pending_lock = t /\ UNCHANGED <<pending_lock, sent, queued>>
      BY <1>7, <2>7, Moved DEF Take, LockInv
    <3>2. Taken(p) = <<>>  BY <1>7, <2>3, <2>7, Moved
    <3>3. task'[t] = [at |-> "sending", path |-> task[t].path,
                      changes |-> pending[task[t].path],
                      version |-> versions[task[t].path]]
      BY <2>7 DEF Take, TypeOK
    <3>4. task[t].path \in Paths  BY <2>7, TaskType DEF Take
    <3>5. CASE p = task[t].path
      <4>0. /\ task'[t].at = "sending" /\ task'[t].path = p
            /\ task'[t].changes = pending[p]
        BY <3>3, <3>5
      <4>1. Taken(p)' = pending[p] /\ pending'[p] = <<>>
        <5>1. pending_lock' = t /\ t # None  BY <2>2, <3>1
        <5>2. pending'[p] = <<>>  BY <2>7, <3>4, <3>5 DEF Take, TypeOK
        <5> QED BY <4>0, <5>1, <5>2 DEF Taken
      <4>2. sent[p] \in Seq(Nat) /\ pending[p] \in Seq(Nat)  BY DEF TypeOK
      <4>3. sent[p] \o <<>> \o pending[p] = sent[p] \o pending[p] \o <<>>
        BY <4>2, HandOver
      <4> QED BY <1>1, <3>1, <3>2, <4>1, <4>3
    <3>6. CASE p # task[t].path
      <4>0. task'[t].path # p  BY <3>3, <3>6
      <4>1. Taken(p)' = <<>> /\ pending'[p] = pending[p]
        <5>1. pending'[p] = pending[p]  BY <2>7, <3>4, <3>6 DEF Take, TypeOK
        <5> QED BY <3>1, <4>0, <5>1 DEF Taken
      <4> QED BY <1>1, <3>1, <3>2, <4>1
    <3> QED BY <3>5, <3>6
  <2>8. CASE FindNothing(t)
    <3>1. Taken(p)' = <<>> /\ Taken(p) = <<>>
      BY <1>7, <2>3, <2>8, Moved DEF FindNothing, Finish, Taken
    <3> QED BY <1>3, <2>8, <3>1 DEF FindNothing
  <2>9. CASE Send(t)
    <3>1. pending_lock = t /\ pending_lock' = None /\ UNCHANGED <<pending, queued>>
      BY <1>7, <2>9, Moved DEF Send, Finish, LockInv
    <3>2. Taken(p)' = <<>>  BY <3>1 DEF Taken
    <3>3. task[t].path \in Paths /\ task[t].at = "sending" /\ task[t].changes \in Seq(Nat)
      BY <2>9, TaskType DEF Send
    <3>4. CASE p = task[t].path
      <4>1. Taken(p) = task[t].changes  BY <2>2, <3>1, <3>3, <3>4 DEF Taken
      <4>2. sent'[p] = sent[p] \o task[t].changes
        BY <2>9, <3>4 DEF Send, TypeOK
      <4>3. sent[p] \in Seq(Nat) /\ pending[p] \in Seq(Nat)  BY DEF TypeOK
      <4>4. (sent[p] \o task[t].changes) \o <<>> \o pending[p]
              = sent[p] \o task[t].changes \o pending[p]
        BY <3>3, <4>3, HandOver
      <4> QED BY <1>1, <3>1, <3>2, <4>1, <4>2, <4>4
    <3>5. CASE p # task[t].path
      <4>1. Taken(p) = <<>> /\ sent'[p] = sent[p]
        BY <2>9, <3>1, <3>3, <3>5 DEF Taken, Send, TypeOK
      <4> QED BY <1>1, <3>1, <3>2, <4>1
    <3> QED BY <3>4, <3>5
  <2> QED BY <1>7, <2>4, <2>5, <2>6, <2>7, <2>8, <2>9 DEF Debounce
<1>8. CASE UNCHANGED vars  BY <1>3, <1>8 DEF vars, Taken
<1> QED BY <1>4, <1>5, <1>6, <1>7, <1>8 DEF Next, Queue

----------------------------------------------------------------------------
LEMMA SameInterval ==
  ASSUME NEW m \in Nat, NEW n \in Nat, 1..m = 1..n
  PROVE  m = n
<1>1. m \in 1..m \/ m = 0  OBVIOUS
<1>2. n \in 1..n \/ n = 0  OBVIOUS
<1> QED BY <1>1, <1>2

(* Seen as lengths: with nothing taken, what is queued is what was sent    *)
(* and what waits.                                                         *)
LEMMA Lengths ==
  ASSUME TypeOK, ChangesInOrder, NEW p \in Paths, Taken(p) = <<>>
  PROVE  queued[p] = Len(sent[p]) + Len(pending[p])
<1>1. sent[p] \in Seq(Nat) /\ pending[p] \in Seq(Nat) /\ queued[p] \in Nat
  BY DEF TypeOK
<1>2. sent[p] \o <<>> = sent[p]  BY <1>1, ConcatEmptySeq
<1>3. sent[p] \o pending[p] = InOrder(queued[p])  BY <1>2 DEF ChangesInOrder
<1>4. /\ sent[p] \o pending[p] \in Seq(Nat)
      /\ Len(sent[p] \o pending[p]) = Len(sent[p]) + Len(pending[p])
  BY <1>1, ConcatProperties
<1>5. DOMAIN (sent[p] \o pending[p]) = 1..Len(sent[p] \o pending[p])
  BY <1>4, LenProperties
<1>6. 1..queued[p] = 1..(Len(sent[p]) + Len(pending[p]))
  BY <1>3, <1>4, <1>5 DEF InOrder
<1>7. Len(sent[p]) \in Nat /\ Len(pending[p]) \in Nat  BY <1>1, LenProperties
<1> DEFINE a == Len(sent[p])  b == Len(pending[p])  n == a + b
<1>8. queued[p] \in Nat  BY <1>1
<1>9. n \in Nat
  <2>1. a \in Nat /\ b \in Nat  BY <1>7
  <2> HIDE DEF a, b
  <2> QED BY <2>1
<1>10. 1..queued[p] = 1..n  BY <1>6, Zenon
<1> HIDE DEF n
<1>11. queued[p] = n  BY <1>8, <1>9, <1>10, SameInterval
<1> QED BY <1>11 DEF n

LEMMA StepVersionInv ==
  ASSUME TypeOK, SpawnInv, LockInv, ChangesInOrder, VersionInv, LabelNeverAhead,
         [Next]_vars
  PROVE  VersionInv' /\ LabelNeverAhead'
<1> USE DidChangeAssumption DEF maps, locks, server
<1>0. None \notin Tasks  BY DEF Tasks
<1>1. ASSUME NEW q \in Paths, Extend(q) PROVE VersionInv' /\ LabelNeverAhead'
  <2>1. \A p \in Paths : queued'[p] \in {queued[p], queued[p] + 1}
    BY <1>1 DEF Extend, TypeOK
  <2>2. \A p \in Paths : versions[p] \in Nat /\ queued[p] \in Nat  BY DEF TypeOK
  <2>3. \A p \in Paths : versions[p] <= queued'[p]
    BY <2>1, <2>2 DEF VersionInv
  <2>4. UNCHANGED <<versions, task, sent, label>>  BY <1>1 DEF Extend
  <2> QED BY <2>3, <2>4 DEF VersionInv, LabelNeverAhead
<1>2. CASE StoreVersion
  <2>1. main.path \in Paths  BY <1>2, MainType DEF StoreVersion
  <2>2. \A p \in Paths : versions'[p] \in {versions[p], queued[p]}
    BY <1>2, <2>1 DEF StoreVersion, TypeOK
  <2>3. UNCHANGED <<queued, task, sent, label>>  BY <1>2 DEF StoreVersion
  <2>4. \A p \in Paths : versions'[p] <= queued'[p]
    <3>1. TAKE p \in Paths
    <3>2. versions[p] <= queued[p] /\ queued[p] \in Nat  BY DEF VersionInv, TypeOK
    <3>3. versions'[p] = versions[p] \/ versions'[p] = queued[p]  BY <2>2
    <3> QED BY <2>3, <3>2, <3>3
  <2> QED BY <2>3, <2>4 DEF VersionInv, LabelNeverAhead
<1>3. CASE ReplaceTask
  <2>1. \A t \in Tasks : task'[t].at = "sending" => task'[t] = task[t]
    BY <1>3, Replaced
  <2>2. UNCHANGED <<queued, versions, sent, label>>  BY <1>3 DEF ReplaceTask
  <2> QED BY <2>1, <2>2 DEF VersionInv, LabelNeverAhead
<1>4. ASSUME NEW t \in Tasks, Debounce(t) PROVE VersionInv' /\ LabelNeverAhead'
  <2>1. \A u \in Tasks \ {t} : task'[u] = task[u]  BY <1>4, Moved
  <2>2. UNCHANGED queued  BY <1>4, Moved
  <2>3. ASSUME UNCHANGED <<versions, sent, label>>, task'[t].at # "sending"
        PROVE  VersionInv' /\ LabelNeverAhead'
    BY <2>1, <2>2, <2>3 DEF VersionInv, LabelNeverAhead
  <2>4. CASE Wake(t)  BY <1>4, <2>3, <2>4, Moved DEF Wake
  <2>5. CASE LockPending(t)  BY <1>4, <2>3, <2>5, Moved DEF LockPending
  <2>6. CASE LockVersions(t)  BY <1>4, <2>3, <2>6, Moved DEF LockVersions
  <2>7. CASE FindNothing(t)  BY <1>4, <2>3, <2>7, Moved DEF FindNothing
  <2>8. CASE Take(t)
    <3> DEFINE p == task[t].path
    <3>1. p \in Paths /\ task[t].at = "locked"  BY <2>8, TaskType DEF Take
    <3>2. Taken(p) = <<>>  BY <3>1 DEF Taken, LockInv
    <3>3. queued[p] = Len(sent[p]) + Len(pending[p])  BY <3>1, <3>2, Lengths
    <3>4. /\ task'[t] = [at |-> "sending", path |-> p,
                         changes |-> pending[p], version |-> versions[p]]
          /\ versions' = [versions EXCEPT ![p] = 0]
          /\ UNCHANGED <<sent, label>>
      BY <2>8 DEF Take, TypeOK
    <3>5. \A q \in Paths : versions'[q] <= queued'[q]
      BY <2>2, <3>4 DEF VersionInv, TypeOK
    <3>6. versions[p] <= Len(sent[p]) + Len(pending[p])
      BY <3>1, <3>3 DEF VersionInv
    <3>7. /\ task'[t].path = p /\ task'[t].changes = pending[p]
          /\ task'[t].version = versions[p]
      BY <3>4
    <3>8. task'[t].version <= Len(sent'[task'[t].path]) + Len(task'[t].changes)
      BY <3>4, <3>6, <3>7
    <3>9. ASSUME NEW u \in Tasks, task'[u].at = "sending"
          PROVE  task'[u].version <= Len(sent'[task'[u].path]) + Len(task'[u].changes)
      <4>1. CASE u = t  BY <3>8, <4>1
      <4>2. CASE u # t  BY <2>1, <3>4, <3>9, <4>2 DEF VersionInv
      <4> QED BY <4>1, <4>2
    <3> QED BY <3>4, <3>5, <3>9 DEF VersionInv, LabelNeverAhead
  <2>9. CASE Send(t)
    <3> DEFINE p == task[t].path
    <3>1. /\ p \in Paths /\ task[t].at = "sending"
          /\ task[t].changes \in Seq(Nat) /\ task[t].version \in Nat
      BY <2>9, TaskType DEF Send
    <3>2. /\ sent' = [sent EXCEPT ![p] = @ \o task[t].changes]
          /\ label' = [label EXCEPT ![p] = task[t].version]
          /\ UNCHANGED versions
      BY <2>9 DEF Send
    <3>3. sent[p] \in Seq(Nat)  BY <3>1 DEF TypeOK
    <3>4. Len(sent[p] \o task[t].changes) = Len(sent[p]) + Len(task[t].changes)
      BY <3>1, <3>3, ConcatProperties
    <3>5. task[t].version <= Len(sent[p]) + Len(task[t].changes)
      BY <3>1 DEF VersionInv
    <3>6. ASSUME NEW q \in Paths PROVE label'[q] <= Len(sent'[q])
      <4>1. CASE q = p  BY <3>1, <3>2, <3>4, <3>5, <4>1 DEF TypeOK
      <4>2. CASE q # p  BY <3>2, <4>2 DEF TypeOK, LabelNeverAhead
      <4> QED BY <4>1, <4>2
    <3>7. \A u \in Tasks : task'[u].at # "sending"
      BY <1>0, <1>4, <2>1, <2>9, <3>1, Moved DEF LockInv
    <3> QED BY <2>2, <3>2, <3>6, <3>7 DEF VersionInv, LabelNeverAhead
  <2> QED BY <1>4, <2>4, <2>5, <2>6, <2>7, <2>8, <2>9 DEF Debounce
<1>5. CASE UNCHANGED vars  BY <1>5 DEF vars, VersionInv, LabelNeverAhead
<1> QED BY <1>1, <1>2, <1>3, <1>4, <1>5 DEF Next, Queue

----------------------------------------------------------------------------
LEMMA StepPendingHasTask ==
  ASSUME TypeOK, SpawnInv, PendingHasTask, [Next]_vars
  PROVE  PendingHasTask'
<1> USE DidChangeAssumption DEF maps, locks, server
<1> DEFINE Waited(p) == \/ main # Idle /\ main.path = p
                        \/ \E t \in Tasks : Coming(t) /\ task[t].path = p
<1>1. SUFFICES ASSUME NEW p \in Paths, pending'[p] # <<>> PROVE Waited(p)'
  BY DEF PendingHasTask
<1>2. pending[p] # <<>> => Waited(p)  BY DEF PendingHasTask
<1>3. ASSUME NEW q \in Paths, Extend(q) PROVE Waited(p)'
  <2>1. main = Idle /\ main' = [at |-> "extended", path |-> q] /\ UNCHANGED task
    BY <1>3 DEF Extend
  <2>2. CASE p = q  BY <2>1, <2>2 DEF Idle
  <2>3. CASE p # q
    <3>1. pending[p] # <<>>  BY <1>1, <1>3, <2>3 DEF Extend, TypeOK
    <3> QED BY <1>2, <2>1, <3>1 DEF Coming
  <2> QED BY <2>2, <2>3
<1>4. CASE StoreVersion
  <2>1. /\ main # Idle /\ main' = [main EXCEPT !.at = "stored"]
        /\ UNCHANGED <<pending, task>>
    BY <1>4, MainType DEF StoreVersion
  <2>2. main' # Idle /\ main'.path = main.path
    BY <2>1 DEF TypeOK, Idle
  <2> QED BY <1>1, <1>2, <2>1, <2>2 DEF Coming
<1>5. CASE ReplaceTask
  <2>1. spawned' \in Tasks /\ task'[spawned'] = [at |-> "sleeping", path |-> main.path]
    BY <1>5, Replaced
  <2>2. CASE main.path = p  BY <2>1, <2>2 DEF Coming
  <2>3. CASE main.path # p
    <3>1. pending[p] # <<>>  BY <1>1, <1>5 DEF ReplaceTask
    <3>2. PICK t \in Tasks : Coming(t) /\ task[t].path = p  BY <1>2, <2>3, <3>1
    <3>3. t # spawned'  BY <1>5, <3>2, Replaced DEF Coming
    <3>4. t # handles[main.path]
      BY <1>5, <2>3, <3>2, Replaced DEF SpawnInv, Tasks
    <3>5. task'[t] = task[t]  BY <1>5, <3>3, <3>4, Replaced
    <3> QED BY <3>2, <3>5 DEF Coming
  <2> QED BY <2>2, <2>3
<1>6. ASSUME NEW t \in Tasks, Debounce(t) PROVE Waited(p)'
  <2>1. /\ \A u \in Tasks \ {t} : task'[u] = task[u]
        /\ task'[t].path = task[t].path /\ UNCHANGED main
    BY <1>6, Moved
  <2>2. ASSUME Coming(t) => Coming(t)', pending[p] # <<>> PROVE Waited(p)'
    BY <1>2, <2>1, <2>2 DEF Coming
  <2>3. ASSUME task[t].path # p, pending[p] # <<>> PROVE Waited(p)'
    BY <1>2, <2>1, <2>3 DEF Coming
  <2>4. CASE Wake(t)
    <3>1. UNCHANGED pending  BY <2>4 DEF Wake
    <3> QED BY <1>1, <1>6, <2>2, <2>4, <3>1, Moved DEF Coming
  <2>5. CASE LockPending(t)
    <3>1. UNCHANGED pending  BY <2>5 DEF LockPending
    <3> QED BY <1>1, <1>6, <2>2, <2>5, <3>1, Moved DEF Coming
  <2>6. CASE LockVersions(t)
    <3>1. UNCHANGED pending  BY <2>6 DEF LockVersions
    <3> QED BY <1>1, <1>6, <2>2, <2>6, <3>1, Moved DEF Coming
  <2>7. CASE Take(t)
    <3>1. pending' = [pending EXCEPT ![task[t].path] = <<>>]  BY <2>7 DEF Take
    <3>2. task[t].path # p /\ pending[p] # <<>>  BY <1>1, <3>1 DEF TypeOK
    <3> QED BY <2>3, <3>2
  <2>8. CASE FindNothing(t)
    <3>1. UNCHANGED pending /\ pending[task[t].path] = <<>>  BY <2>8 DEF FindNothing
    <3>2. task[t].path # p /\ pending[p] # <<>>  BY <1>1, <3>1
    <3> QED BY <2>3, <3>2
  <2>9. CASE Send(t)
    <3>1. UNCHANGED pending /\ ~Coming(t)  BY <2>9 DEF Send, Coming
    <3> QED BY <1>1, <2>2, <3>1
  <2> QED BY <1>6, <2>4, <2>5, <2>6, <2>7, <2>8, <2>9 DEF Debounce
<1>7. CASE UNCHANGED vars  BY <1>1, <1>2, <1>7 DEF vars, Coming
<1> QED BY <1>3, <1>4, <1>5, <1>6, <1>7 DEF Next, Queue

----------------------------------------------------------------------------
LEMMA InitInv == Init => Inv
<1> SUFFICES ASSUME Init PROVE Inv  OBVIOUS
<1> USE DidChangeAssumption
<1>1. TypeOK  BY InitTypeOK
<1>2. LockInv  BY DEF Init, LockInv, Unborn, Tasks
<1>3. SpawnInv  BY DEF Init, SpawnInv, Unborn, Tasks
<1>4. ChangesInOrder
  <2>1. ASSUME NEW p \in Paths PROVE sent[p] \o Taken(p) \o pending[p] = InOrder(queued[p])
    <3>1. sent[p] = <<>> /\ Taken(p) = <<>> /\ pending[p] = <<>> /\ queued[p] = 0
      BY DEF Init, Taken
    <3>2. InOrder(0) = <<>>  BY DEF InOrder
    <3> QED BY <3>1, <3>2
  <2> QED BY <2>1 DEF ChangesInOrder
<1>5. VersionInv /\ LabelNeverAhead  BY DEF Init, VersionInv, LabelNeverAhead, Unborn
<1>6. PendingHasTask  BY DEF Init, PendingHasTask
<1> QED BY <1>1, <1>2, <1>3, <1>4, <1>5, <1>6 DEF Inv

THEOREM Invariance == Spec => []Inv
<1>1. Inv /\ [Next]_vars => Inv'
  <2> SUFFICES ASSUME Inv, [Next]_vars PROVE Inv'  OBVIOUS
  <2>1. TypeOK'  BY StepTypeOK DEF Inv
  <2>2. LockInv'  BY StepLockInv DEF Inv
  <2>3. SpawnInv'  BY StepSpawnInv DEF Inv
  <2>4. ChangesInOrder'  BY <2>1, <2>2, StepChangesInOrder DEF Inv
  <2>5. VersionInv' /\ LabelNeverAhead'  BY StepVersionInv DEF Inv
  <2>6. PendingHasTask'  BY StepPendingHasTask DEF Inv
  <2> QED BY <2>1, <2>2, <2>3, <2>4, <2>5, <2>6 DEF Inv
<1> QED BY InitInv, <1>1, PTL DEF Spec

(* The state of queue_did_change and its tasks keeps its types.            *)
THEOREM TypeCorrectness == Spec => []TypeOK
<1>1. Inv => TypeOK  BY DEF Inv
<1> QED BY Invariance, <1>1, PTL

(* No change that was queued for a path is lost, sent twice or sent before *)
(* an earlier one (host_handlers.rs, queue_did_change).                    *)
THEOREM NothingLost == Spec => []ChangesInOrder
<1>1. Inv => ChangesInOrder  BY DEF Inv
<1> QED BY Invariance, <1>1, PTL

(* Pending changes always have a task coming for them, although each edit  *)
(* aborts the task of the one before (host_handlers.rs, queue_did_change). *)
THEOREM NobodyForgotten == Spec => []PendingHasTask
<1>1. Inv => PendingHasTask  BY DEF Inv
<1> QED BY Invariance, <1>1, PTL

(* The server is never told a version whose changes it has not been sent.  *)
THEOREM LabelsLag == Spec => []LabelNeverAhead
<1>1. Inv => LabelNeverAhead  BY DEF Inv
<1> QED BY Invariance, <1>1, PTL
==============================================================================
