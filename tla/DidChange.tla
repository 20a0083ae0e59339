------------------------------ MODULE DidChange ------------------------------
(***************************************************************************)
(* The batching of didChange notifications: MonacoHostState's              *)
(* queue_did_change (host_handlers.rs) and the debounce tasks it spawns.   *)
(*                                                                         *)
(* The commands that edit a buffer run one after the other on the main     *)
(* thread; the debounce tasks run on the runtime's threads beside it.      *)
(* They share two maps, each with a mutex of its own: the changes waiting  *)
(* to be sent, and the version to send them under.  The main thread locks  *)
(* one after the other and holds each for one statement; a task holds both *)
(* until its notification is written.                                      *)
(*                                                                         *)
(* A change is the number of the call that queued it, counted per path, so *)
(* the version a call stores is named by the same number, and 0 is the     *)
(* version a task sends when it finds none.                                *)
(***************************************************************************)
EXTENDS Naturals, Sequences

CONSTANTS
  Paths,
  MaxEdits,   (* bound: how many edits are made, over all paths             *)
  None        (* no task                                                    *)

Tasks == 1..MaxEdits

ASSUME DidChangeAssumption ==
  /\ MaxEdits \in Nat
  /\ None \notin Nat

VARIABLES
  queued,        (* per path: how many changes queue_did_change was given   *)
  main,          (* the main thread: where it is in queue_did_change        *)
  pending,       (* pending_did_changes; no entry is the empty sequence     *)
  versions,      (* pending_did_change_versions; no entry is 0              *)
  handles,       (* did_change_tasks: the task to abort for a path          *)
  spawned,       (* how many tasks were spawned                             *)
  task,          (* the tasks                                               *)
  pending_lock,  (* the task that holds pending_did_changes, if one does    *)
  versions_lock, (* the task that holds pending_did_change_versions         *)
  sent,          (* per path: the changes written to the language server    *)
  label          (* per path: the version the last of them were sent under  *)

locks == <<pending_lock, versions_lock>>
server == <<sent, label>>
maps == <<pending, versions>>
vars == <<queued, main, maps, handles, spawned, task, locks, server>>

Idle == [at |-> "idle"]

(* A task before it is spawned.                                            *)
Unborn == [at |-> "unborn"]

Init ==
  /\ queued = [p \in Paths |-> 0]
  /\ main = Idle
  /\ pending = [p \in Paths |-> <<>>]
  /\ versions = [p \in Paths |-> 0]
  /\ handles = [p \in Paths |-> None]
  /\ spawned = 0
  /\ task = [t \in Tasks |-> Unborn]
  /\ pending_lock = None /\ versions_lock = None
  /\ sent = [p \in Paths |-> <<>>]
  /\ label = [p \in Paths |-> 0]

----------------------------------------------------------------------------
(* The main thread: an edit, undo or redo has changed the buffer of p and  *)
(* calls queue_did_change.                                                 *)

(* A mutant: the changes are inserted over those already waiting.          *)
ExtendOver(p) ==
  /\ main = Idle
  /\ spawned < MaxEdits
  /\ pending_lock = None
  /\ queued' = [queued EXCEPT ![p] = @ + 1]
  /\ pending' = [pending EXCEPT ![p] = <<queued[p] + 1>>]
  /\ main' = [at |-> "extended", path |-> p]
  /\ UNCHANGED <<versions, handles, spawned, task, locks, server>>

Extend(p) ==
  /\ main = Idle
  /\ spawned < MaxEdits
  /\ pending_lock = None
  /\ queued' = [queued EXCEPT ![p] = @ + 1]
  /\ pending' = [pending EXCEPT ![p] = Append(@, queued[p] + 1)]
  /\ main' = [at |-> "extended", path |-> p]
  /\ UNCHANGED <<versions, handles, spawned, task, locks, server>>

StoreVersion ==
  /\ main.at = "extended"
  /\ versions_lock = None
  /\ versions' = [versions EXCEPT ![main.path] = queued[main.path]]
  /\ main' = [main EXCEPT !.at = "stored"]
  /\ UNCHANGED <<queued, pending, handles, spawned, task, locks, server>>

(* A mutant: a task is stopped wherever it is, whatever it holds.          *)
AbortedAnywhere(tasks, old) ==
  IF old # None /\ tasks[old].at # "done"
    THEN [tasks EXCEPT ![old] = [at |-> "aborted", path |-> @.path]] ELSE tasks

(* Aborting a task cancels it at its only suspension point, the sleep; a   *)
(* task past it is not stopped.                                            *)
Aborted(tasks, old) ==
  IF old # None /\ tasks[old].at = "sleeping"
    THEN [tasks EXCEPT ![old].at = "aborted"] ELSE tasks

(* A mutant: a path that has had a task is not given another.              *)
ReplaceTaskOnce ==
  /\ main.at = "stored"
  /\ spawned' = IF handles[main.path] = None THEN spawned + 1 ELSE spawned
  /\ task' = IF handles[main.path] # None THEN task
             ELSE [task EXCEPT ![spawned'] = [at |-> "sleeping", path |-> main.path]]
  /\ handles' = [handles EXCEPT ![main.path] = IF @ = None THEN spawned' ELSE @]
  /\ main' = Idle
  /\ UNCHANGED <<queued, maps, locks, server>>

ReplaceTask ==
  /\ main.at = "stored"
  /\ spawned' = spawned + 1
  /\ task' = [Aborted(task, handles[main.path]) EXCEPT
                ![spawned'] = [at |-> "sleeping", path |-> main.path]]
  /\ handles' = [handles EXCEPT ![main.path] = spawned']
  /\ main' = Idle
  /\ UNCHANGED <<queued, maps, locks, server>>

----------------------------------------------------------------------------
(* A debounce task.                                                        *)

Wake(t) ==
  /\ task[t].at = "sleeping"
  /\ task' = [task EXCEPT ![t].at = "awake"]
  /\ UNCHANGED <<queued, main, maps, handles, spawned, locks, server>>

LockPending(t) ==
  /\ task[t].at = "awake"
  /\ pending_lock = None
  /\ pending_lock' = t
  /\ task' = [task EXCEPT ![t].at = "locking"]
  /\ UNCHANGED <<queued, main, maps, handles, spawned, versions_lock, server>>

LockVersions(t) ==
  /\ task[t].at = "locking"
  /\ versions_lock = None
  /\ versions_lock' = t
  /\ task' = [task EXCEPT ![t].at = "locked"]
  /\ UNCHANGED <<queued, main, maps, handles, spawned, pending_lock, server>>

(* Mutants: a missing version is kept missing; one change at a time is     *)
(* taken, under the newest version.                                        *)
TakeUnversioned(t) ==
  LET p == task[t].path
  IN  /\ task[t].at = "locked"
      /\ pending[p] # <<>>
      /\ task' = [task EXCEPT ![t] = [at |-> "sending", path |-> p,
                    changes |-> pending[p],
                    version |-> IF versions[p] = 0 THEN None ELSE versions[p]]]
      /\ pending' = [pending EXCEPT ![p] = <<>>]
      /\ versions' = [versions EXCEPT ![p] = 0]
      /\ UNCHANGED <<queued, main, handles, spawned, locks, server>>

TakeOne(t) ==
  LET p == task[t].path
  IN  /\ task[t].at = "locked"
      /\ pending[p] # <<>>
      /\ task' = [task EXCEPT ![t] = [at |-> "sending", path |-> p,
                    changes |-> <<Head(pending[p])>>, version |-> versions[p]]]
      /\ pending' = [pending EXCEPT ![p] = Tail(@)]
      /\ versions' = [versions EXCEPT ![p] = 0]
      /\ UNCHANGED <<queued, main, handles, spawned, locks, server>>

(* With both locks, the task takes what is pending for its path, if there  *)
(* is anything, and goes for the language server's lock.                   *)
Take(t) ==
  LET p == task[t].path
  IN  /\ task[t].at = "locked"
      /\ pending[p] # <<>>
      /\ task' = [task EXCEPT ![t] = [at |-> "sending", path |-> p,
                    changes |-> pending[p], version |-> versions[p]]]
      /\ pending' = [pending EXCEPT ![p] = <<>>]
      /\ versions' = [versions EXCEPT ![p] = 0]
      /\ UNCHANGED <<queued, main, handles, spawned, locks, server>>

Finish(t) ==
  /\ task' = [task EXCEPT ![t] = [at |-> "done", path |-> task[t].path]]
  /\ pending_lock' = None /\ versions_lock' = None

FindNothing(t) ==
  /\ task[t].at = "locked"
  /\ pending[task[t].path] = <<>>
  /\ Finish(t)
  /\ UNCHANGED <<queued, main, maps, handles, spawned, server>>

(* The notification is written under the language server's lock.           *)
Send(t) ==
  LET p == task[t].path
  IN  /\ task[t].at = "sending"
      /\ sent' = [sent EXCEPT ![p] = @ \o task[t].changes]
      /\ label' = [label EXCEPT ![p] = task[t].version]
      /\ Finish(t)
      /\ UNCHANGED <<queued, main, maps, handles, spawned>>

----------------------------------------------------------------------------
Queue == StoreVersion \/ ReplaceTask

Debounce(t) ==
  \/ Wake(t) \/ LockPending(t) \/ LockVersions(t)
  \/ Take(t) \/ FindNothing(t) \/ Send(t)

Next ==
  \/ \E p \in Paths : Extend(p)
  \/ Queue
  \/ \E t \in Tasks : Debounce(t)

(* The main thread finishes what it started and every task runs: the sleep *)
(* ends, and no lock is withheld forever.  Nobody has to edit.             *)
Fairness == WF_vars(Queue) /\ \A t \in Tasks : WF_vars(Debounce(t))

Spec == Init /\ [][Next]_vars /\ Fairness

----------------------------------------------------------------------------
(* Properties.                                                             *)

TaskState ==
  [at : {"unborn"}]
    \union [at : {"sleeping", "aborted", "awake", "locking", "locked", "done"},
            path : Paths]
    \union [at : {"sending"}, path : Paths, changes : Seq(Nat), version : Nat]

(* Every variable holds a value of its type.                               *)
TypeOK ==
  /\ queued \in [Paths -> Nat]
  /\ main \in {Idle} \union [at : {"extended", "stored"}, path : Paths]
  /\ pending \in [Paths -> Seq(Nat)]
  /\ versions \in [Paths -> Nat]
  /\ handles \in [Paths -> Tasks \union {None}]
  /\ spawned \in 0..MaxEdits
  /\ task \in [Tasks -> TaskState]
  /\ pending_lock \in Tasks \union {None}
  /\ versions_lock \in Tasks \union {None}
  /\ sent \in [Paths -> Seq(Nat)]
  /\ label \in [Paths -> Nat]

(* The changes of p a task has taken and not yet sent.                     *)
Taken(p) ==
  IF pending_lock # None /\ task[pending_lock].at = "sending"
     /\ task[pending_lock].path = p
    THEN task[pending_lock].changes ELSE <<>>

(* The changes 1..n in the order they were queued.                         *)
InOrder(n) == [i \in 1..n |-> i]

(* Sent, taken and waiting changes of a path are, in this order, the       *)
(* changes that were queued: whatever is aborted and however the tasks     *)
(* race, no change is lost, sent twice or sent out of order.               *)
ChangesInOrder ==
  \A p \in Paths :
    sent[p] \o Taken(p) \o pending[p] = InOrder(queued[p])

(* A task that will still look at the pending changes.                     *)
Coming(t) ==
  task[t].at \in {"sleeping", "awake", "locking", "locked"}

(* Changes never wait for nobody: while some are pending, the main thread  *)
(* is about to spawn a task for them or one is on its way, although each   *)
(* edit aborts the task of the edit before it.                             *)
PendingHasTask ==
  \A p \in Paths :
    pending[p] # <<>> =>
      \/ main # Idle /\ main.path = p
      \/ \E t \in Tasks : Coming(t) /\ task[t].path = p

(* A notification may carry an older version than its changes (a task can  *)
(* run between the two statements that store them) but never a newer one:  *)
(* the version the server was last told is one whose changes it has.       *)
LabelNeverAhead ==
  \A p \in Paths : label[p] <= Len(sent[p])

(* Every change that was queued is sent, once the edits stop.              *)
EventuallySent ==
  \A p \in Paths : []<>(Len(sent[p]) = queued[p])
==============================================================================
