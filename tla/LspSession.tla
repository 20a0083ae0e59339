------------------------------ MODULE LspSession ------------------------------
(***************************************************************************)
(* Who waits for whom around the language server: the commands of the main *)
(* thread and the tasks they start (main.rs, host_handlers.rs), the locks  *)
(* they take, the client they share (lsp/registry.rs, lsp/client.rs), its  *)
(* reader thread and the server process.                                   *)
(*                                                                         *)
(* A command or a task is the list of what it does that others can notice, *)
(* in the order of the code: locks, uses of the client, tasks started.     *)
(* What it holds is released when it ends.  One language, one document;    *)
(* DidChange has the changes the debounce task sends.  Locks are not       *)
(* reentrant (parking_lot); only the main thread writes the registry, so   *)
(* that no reader ever waits behind a waiting writer.                      *)
(***************************************************************************)
EXTENDS Naturals, SequencesExt

CONSTANTS
  Tasks,        (* bound: the tasks there can be at the same time           *)
  Forms,        (* the forms of the messages of the server                  *)
  Decodable,    (* the forms a JsonRpcResponse is made of                   *)
  Prompt,       (* TRUE: the server answers all, and in time                *)
  MaxCommands,  (* bound: the commands given                                *)
  PipeSize,     (* how much a server can leave unread, in messages          *)
  None

ASSUME LspSessionAssumption ==
  /\ Prompt \in BOOLEAN
  /\ MaxCommands \in Nat /\ PipeSize \in Nat
  /\ None \notin Tasks \union Nat /\ "main" \notin Tasks

VARIABLES
  given,   (* how many commands were given                                  *)
  work,    (* per process: what it is at and what it has left to do         *)
  held,    (* the locks that are held: <<lock, mode, process>>              *)
  client,  (* the client of the registry, or the one being made             *)
  server,  (* its process: alive, what it has to read, what it wrote        *)
  reader   (* the request whose answer the reader thread holds              *)

conversation == <<client, server, reader>>
vars == <<given, work, held, conversation>>

Processes == Tasks \union {"main"}
Locks == {"registry", "lsp", "pending", "versions"}
Modes == {"read", "write"}

----------------------------------------------------------------------------
(* What commands and tasks do.                                             *)

Read(lock) == <<"acquire", lock, "read">>
Write(lock) == <<"acquire", lock, "write">>
Release(lock) == <<"release", lock>>
Started(task) == <<"start", task>>
Request == <<"request">>    (* client_for_language, then a request          *)
Notify == <<"notify">>      (* client_for_language, then a notification     *)
MayEnd == <<"may_end">>     (* an early return, or one a step later with no
                               lock more or less                            *)
Asleep == <<"asleep">>      (* an await, where a task can be aborted        *)

(* The handlers of syntax_handlers.rs, given both registries.  Without an  *)
(* answer they fall back on the syntax tree.                               *)
Completion == <<MayEnd, Request>>
Diagnostics == <<MayEnd, Request>>
CodeActions == <<Request>>

LanguageQuery(handler) == <<Read("registry"), Write("lsp")>> \o handler

OpenDocument ==
  <<Read("registry"), MayEnd, Release("registry"),
    Write("registry"), MayEnd, Release("registry"), Write("lsp"), Notify>>

SaveDocument == <<Read("registry")>>

(* The registry is kept from one end to the other.                         *)
SaveDocumentAs ==
  <<Write("registry"), Write("lsp"), Notify, Release("lsp"), MayEnd,
    Write("lsp"), Notify>>

(* A mutant: the registry is locked before the client.                     *)
CloseDocumentRegistryFirst ==
  <<Read("registry"), Release("registry"), MayEnd, Write("registry"),
    Write("lsp"), Notify>>

(* The event is pushed to the subscribers when the handler has returned.   *)
CloseDocument ==
  <<Read("registry"), Release("registry"), MayEnd, Write("lsp"), Notify,
    Write("registry"), Release("registry"), Release("lsp"), Read("registry")>>

CloseBuffersBatch == <<Write("registry")>>

(* apply_edits with queue_did_change; undo and redo start one task less.   *)
ApplyEdits ==
  <<Read("registry"), MayEnd, Release("registry"), Started("diagnostics task"), MayEnd,
    Write("pending"), Release("pending"), Write("versions"), Release("versions"),
    Started("debounce task")>>

DiagnosticsTask == <<Asleep, Write("lsp"), Read("registry")>> \o Diagnostics

DebounceTask ==
  <<Asleep, Write("pending"), Write("versions"), MayEnd, Write("lsp"), Notify>>

Commands == {"language query", "open_document", "save_document", "save_document_as",
             "close_document", "close_buffers_batch", "apply_edits"}

(* A command or a task with what it has to do.                             *)
Plans ==
  {[name |-> "language query", todo |-> LanguageQuery(handler)] :
     handler \in {Completion, Diagnostics, CodeActions}}
  \union {[name |-> "open_document",       todo |-> OpenDocument],
          [name |-> "save_document",       todo |-> SaveDocument],
          [name |-> "save_document_as",    todo |-> SaveDocumentAs],
          [name |-> "close_document",      todo |-> CloseDocument],
          [name |-> "close_buffers_batch", todo |-> CloseBuffersBatch],
          [name |-> "apply_edits",         todo |-> ApplyEdits],
          [name |-> "diagnostics task",    todo |-> DiagnosticsTask],
          [name |-> "debounce task",       todo |-> DebounceTask]}

----------------------------------------------------------------------------
Idle == [name |-> "none", todo |-> <<>>]
IsIdle(p) == work[p] = Idle
Begun(name) == {plan \in Plans : plan.name = name}

NoServer == [alive |-> FALSE, input |-> <<>>, output |-> {}]

Init ==
  /\ given = 0
  /\ work = [p \in Processes |-> Idle]
  /\ held = {}
  /\ client = None
  /\ server = NoServer
  /\ reader = None

At(p, step) == work[p].todo # <<>> /\ Head(work[p].todo) = step
Advance(p) == work' = [work EXCEPT ![p].todo = Tail(@)]

Give(name) ==
  /\ IsIdle("main")
  /\ given < MaxCommands
  /\ given' = given + 1
  /\ \E begun \in Begun(name) : work' = [work EXCEPT !["main"] = begun]
  /\ UNCHANGED <<held, conversation>>

(* Whether h keeps p from the lock it wants.                               *)
Wanted(p) == Head(work[p].todo)
Wants(p) == work[p].todo # <<>> /\ Wanted(p)[1] = "acquire"
Excludes(h, p) ==
  h[1] = Wanted(p)[2] /\ ~(h[2] = "read" /\ Wanted(p)[3] = "read")

Acquire(p) ==
  /\ Wants(p)
  /\ \A h \in held : ~Excludes(h, p)
  /\ held' = held \union {<<Wanted(p)[2], Wanted(p)[3], p>>}
  /\ Advance(p)
  /\ UNCHANGED <<given, conversation>>

Unlock(p) ==
  /\ \E lock \in Locks :
       /\ At(p, Release(lock))
       /\ held' = {h \in held : ~(h[1] = lock /\ h[3] = p)}
  /\ Advance(p)
  /\ UNCHANGED <<given, conversation>>

End(p) ==
  /\ ~IsIdle(p)
  /\ work[p].todo = <<>> \/ At(p, MayEnd)
  /\ work' = [work EXCEPT ![p] = Idle]
  /\ held' = {h \in held : h[3] # p}
  /\ UNCHANGED <<given, conversation>>

GoOn(p) ==
  /\ At(p, MayEnd) \/ At(p, Asleep)
  /\ Advance(p)
  /\ UNCHANGED <<given, held, conversation>>

(* replace_diagnostic_task, queue_did_change: the task before is aborted,  *)
(* which it takes notice of only if it is asleep.                          *)
Start(p) ==
  /\ \E name \in {"diagnostics task", "debounce task"} :
       /\ At(p, Started(name))
       /\ LET aborted == {t \in Tasks : work[t].name = name /\ At(t, Asleep)}
          IN  \E t \in Tasks, begun \in Begun(name) :
                /\ IF aborted = {} THEN IsIdle(t) ELSE t \in aborted
                /\ work' = [work EXCEPT ![t] = begun, ![p].todo = Tail(@)]
  /\ UNCHANGED <<given, held, conversation>>

----------------------------------------------------------------------------
(* The client.  It is used by the holder of the lsp lock only, so that one *)
(* call is made at a time: a request, or a notification, which has no id.  *)

NoCall == [method |-> "none", id |-> 0, written |-> FALSE, answered |-> FALSE]
Calling == client # None /\ client.call # NoCall
Requesting == Calling /\ client.call.id # 0
Uses(p) == At(p, Request) \/ At(p, Notify)

(* A mutant: the counter stays where it is.                                *)
CalledAlike(c, method) ==
  [c EXCEPT !.pending = @ \union {c.next_id},
            !.call = [method |-> method, id |-> c.next_id,
                      written |-> FALSE, answered |-> FALSE]]

(* request_with_timeout takes an id and makes an entry in the map.         *)
Called(c, method) ==
  [c EXCEPT !.next_id = @ + 1, !.pending = @ \union {c.next_id},
            !.call = [method |-> method, id |-> c.next_id,
                      written |-> FALSE, answered |-> FALSE]]

(* notify.                                                                 *)
Notified(c, method) ==
  [c EXCEPT !.call = [method |-> method, id |-> 0, written |-> FALSE, answered |-> FALSE]]

(* client_for_language when there is no client: either the process cannot  *)
(* be started, or there is one that has to be initialized.                 *)
Spawn(p) ==
  /\ Uses(p)
  /\ client = None
  /\ \/ Advance(p) /\ UNCHANGED conversation
     \/ /\ client' = Called([next_id |-> 1, pending |-> {}, left |-> {}, call |-> NoCall],
                            "initialize")
        /\ server' = [NoServer EXCEPT !.alive = TRUE]
        /\ UNCHANGED <<work, reader>>
  /\ UNCHANGED <<given, held>>

Call(p) ==
  /\ Uses(p)
  /\ client # None /\ ~Calling
  /\ client' = IF At(p, Request) THEN Called(client, "query") ELSE Notified(client, "did")
  /\ UNCHANGED <<given, work, held, server, reader>>

(* What follows a call.  The handshake ends with a notification.  A client *)
(* that could not be initialized is dropped, and asks its server to shut   *)
(* down and to exit before it goes (Drop, try_shutdown); nobody reads from *)
(* that one any more.                                                      *)
Ended(c, succeeded) ==
  CASE c.call.method = "initialize" /\ succeeded -> Notified(c, "initialized")
    [] c.call.method = "initialize" /\ ~succeeded -> Called(c, "shutdown")
    [] c.call.method = "shutdown" -> Notified(c, "exit")
    [] c.call.method = "exit" -> None
    [] OTHER -> [c EXCEPT !.call = NoCall]

EndCall(p, c, succeeded, s) ==
  /\ client' = Ended(c, succeeded)
  /\ IF client' = None THEN server' = NoServer /\ reader' = None
                       ELSE server' = s /\ UNCHANGED reader
  /\ IF client.call.method \in {"initialize", "initialized", "shutdown"}
       THEN UNCHANGED work ELSE Advance(p)
  /\ UNCHANGED <<given, held>>

(* write_all waits, without limit, for a server that leaves its input      *)
(* unread.                                                                 *)
Writes(p) == Uses(p) /\ Calling /\ ~client.call.written
Full == server.alive /\ Len(server.input) >= PipeSize
Written ==
  IF server.alive THEN [server EXCEPT !.input = Append(@, client.call.id)] ELSE server

(* A write to a server that is gone fails, and the entry is left behind.   *)
WriteRequest(p) ==
  /\ Writes(p) /\ Requesting /\ ~Full
  /\ IF server.alive
       THEN /\ server' = Written
            /\ client' = [client EXCEPT !.call.written = TRUE]
            /\ UNCHANGED <<given, work, held, reader>>
       ELSE EndCall(p, [client EXCEPT !.left = @ \union {client.call.id}], FALSE, server)

WriteNotification(p) ==
  /\ Writes(p) /\ ~Requesting /\ ~Full
  /\ EndCall(p, client, TRUE, Written)

(* A mutant: the entry stays.                                              *)
Kept(c) == c

Forgotten(c) == [c EXCEPT !.pending = @ \ {c.call.id}]

(* An answer is a result or an error.                                      *)
Receive(p) ==
  /\ Uses(p) /\ Calling
  /\ client.call.written /\ client.call.answered
  /\ \E succeeded \in BOOLEAN : EndCall(p, Forgotten(client), succeeded, server)

(* A mutant: a request is given up only if the server is gone.             *)
TimeOutOfGone(p) ==
  /\ Uses(p) /\ Calling
  /\ client.call.written /\ ~client.call.answered /\ ~server.alive
  /\ EndCall(p, Forgotten(client), FALSE, server)

TimeOut(p) ==
  /\ Uses(p) /\ Calling
  /\ client.call.written /\ ~client.call.answered
  /\ Prompt => server.input = <<>> /\ server.output = {} /\ reader = None
  /\ EndCall(p, Forgotten(client), FALSE, server)

----------------------------------------------------------------------------
(* The server answers requests in any order, or never; it may write with   *)
(* any id: its own requests have ids, too, and the reader does not tell    *)
(* them from answers.  It may stop reading for good, as one does that has  *)
(* filled its error output, a pipe from which nobody reads.                *)

Message(id, form) == [id |-> id, form |-> form]

ServerReads ==
  /\ server.alive /\ server.input # <<>>
  /\ \/ /\ Head(server.input) # 0
        /\ \E form \in Forms :
             server' = [server EXCEPT !.input = Tail(@),
                                      !.output = @ \union {Message(Head(server.input), form)}]
     \/ /\ Head(server.input) = 0 \/ ~Prompt
        /\ server' = [server EXCEPT !.input = Tail(@)]
  /\ UNCHANGED <<given, work, held, client, reader>>

ServerAsks ==
  /\ server.alive /\ ~Prompt
  /\ Requesting /\ server.output = {}
  /\ \E form \in Forms : server' = [server EXCEPT !.output = {Message(client.call.id, form)}]
  /\ UNCHANGED <<given, work, held, client, reader>>

ServerExits ==
  /\ server.alive /\ ~Prompt
  /\ server' = [server EXCEPT !.alive = FALSE, !.input = <<>>]
  /\ UNCHANGED <<given, work, held, client, reader>>

(* reader_loop: a message that cannot be decoded, or with an id that is    *)
(* not in the map, is dropped; else the entry is taken out of the map ...  *)
ReaderReads ==
  /\ client # None /\ reader = None
  /\ \E m \in server.output :
       /\ server' = [server EXCEPT !.output = @ \ {m}]
       /\ IF m.form \in Decodable /\ m.id \in client.pending
            THEN /\ client' = [client EXCEPT !.pending = @ \ {m.id}]
                 /\ reader' = m.id
            ELSE UNCHANGED <<client, reader>>
  /\ UNCHANGED <<given, work, held>>

(* ... and its sender used, whether someone still waits or not.            *)
ReaderSends ==
  /\ client # None /\ reader # None
  /\ client' = IF client.call.id = reader THEN [client EXCEPT !.call.answered = TRUE]
               ELSE client
  /\ reader' = None
  /\ UNCHANGED <<given, work, held, server>>

----------------------------------------------------------------------------
Step(p) ==
  \/ Acquire(p) \/ Unlock(p) \/ End(p) \/ GoOn(p) \/ Start(p)
  \/ Spawn(p) \/ Call(p) \/ WriteRequest(p) \/ WriteNotification(p)
  \/ Receive(p) \/ TimeOut(p)

Next ==
  \/ \E name \in Commands : Give(name)
  \/ \E p \in Processes : Step(p)
  \/ ServerReads \/ ServerAsks \/ ServerExits
  \/ ReaderReads \/ ReaderSends

(* Threads are scheduled, sleeps and waits for an answer run out.  Nothing *)
(* is asked of the server.                                                 *)
Fairness == \A p \in Processes : WF_vars(Step(p))

Spec == Init /\ [][Next]_vars /\ Fairness

----------------------------------------------------------------------------
(* Properties.                                                             *)

CallRecord ==
  [method : {"initialize", "query", "shutdown", "initialized", "did", "exit"}, id : Nat,
   written : BOOLEAN, answered : BOOLEAN]

ClientRecord ==
  [next_id : Nat \ {0}, pending : SUBSET Nat, left : SUBSET Nat,
   call : {NoCall} \union CallRecord]

(* Every variable holds a value of its type; the id of a call is its own.  *)
TypeOK ==
  /\ given \in Nat
  /\ \A p \in Processes : work[p].name \in {"none", "diagnostics task", "debounce task"}
                                           \union Commands
  /\ held \subseteq Locks \X Modes \X Processes
  /\ client \in {None} \union ClientRecord
  /\ client # None => \A id \in client.pending \union {client.call.id} : id < client.next_id
  /\ server.alive \in BOOLEAN
  /\ reader \in {None} \union Nat

(* The map holds the entry of a request as long as it waits for an answer  *)
(* and no longer, whatever the server writes and when: the only entries    *)
(* that stay are those of requests that could not be written (client.rs,   *)
(* request_with_timeout and reader_loop).                                  *)
PendingMeansWaiting ==
  client # None =>
    /\ client.pending \subseteq client.left \union {client.call.id}
    /\ Requesting /\ ~client.call.answered =>
         client.call.id \in client.pending \/ reader = client.call.id

(* Who waits for a lock that another, or it itself, holds.                 *)
WaitsFor(p, q) == Wants(p) /\ \E h \in held : h[3] = q /\ Excludes(h, p)

Deadlocked(S) == S # {} /\ \A p \in S : \E q \in S : WaitsFor(p, q)

(* Only save_document_as waits for the client with the registry held for   *)
(* writing, and only a diagnostics task waits for the registry with the    *)
(* client held: no others are ever deadlocked (host_handlers.rs, main.rs). *)
OneDeadlock ==
  \A S \in SUBSET Processes : Deadlocked(S) =>
    /\ "main" \in S /\ work["main"].name = "save_document_as"
    /\ \E t \in S : work[t].name = "diagnostics task"

(* Who waits to write to a server that does not read.                      *)
Blocked(p) == Writes(p) /\ Full

(* Every command ends, whatever the server answers, leaves unanswered or   *)
(* asks, and wherever it exits, unless it runs into that deadlock, or a    *)
(* write waits forever for a server that stopped reading (client.rs, the   *)
(* timeouts of request and try_shutdown, which do not cover write_all).    *)
CommandsEnd ==
  \/ ~IsIdle("main") ~> (IsIdle("main") \/ \E S \in SUBSET Processes : Deadlocked(S))
  \/ <>[](\E p \in Processes : Blocked(p))

(* If the server answers every request, and before the time is up, no      *)
(* request times out (client.rs, request_with_timeout).                    *)
AnswersArrive == [][\A p \in Processes : ~TimeOut(p)]_vars
==============================================================================
