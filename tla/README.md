# A verification of the Monaco/Tauri editor backend

The repository is a desktop editor: a Tauri host in Rust (`src/src-tauri/src`) keeps the
text of every open document, undo histories, a language server client, agent tools and
quotas; a web view (`src/tauri`) shows the editor; a WASM module (`src/wasm/src`) tokenizes
and diffs in the web view. This directory holds TLA+ modules for the parts where state is
kept and can go wrong, TLC configurations that check them on small instances, and proofs,
checked by TLAPS, for every instance.

Paths below are relative to `src/src-tauri/src` unless they start with `wasm/` or `tauri/`.

## 1. Inventory

| component | source | state | operations | hard behaviour | correct when |
|---|---|---|---|---|---|
| text buffer | `buffer/text_buffer.rs`, `undo.rs`, `content_change.rs`, `position.rs` | rope, version, alternative version, dirty flag, line ending, undo and redo stacks, dirty line ranges, lineage of snapshots | `apply_change(s)`, `undo`, `redo`, `set_value`, `mark_as_saved`, `set_undo_limit`, readers | offsets of one text used on another; entries that fail half way; limits | every change has a version, the lineage has no gap, undo is the inverse of edit, clean means saved |
| line index | `buffer/line_index.rs` | byte offsets of the line starts | `new`, `update`, conversions | incremental rescan; bytes, characters and UTF-16 units | equals the index of a full scan |
| buffer registry | `buffer/registry.rs` | path to buffer (each behind its own lock), subscriptions with capped queues | open, close, edit, optimistic edit, undo, redo, subscribe, poll, push | check and act under one lock; queue at 1024 drops the oldest | one buffer per path; a stale edit is refused; a subscriber sees a suffix |
| didChange batching | `host_handlers.rs` 225-292 | pending changes and versions per path, a debounce task per path | `queue_did_change`, the task, abort | abort races the task; two maps, two mutexes | no change lost, doubled or reordered; all sent in the end |
| host documents | `host_handlers.rs` | disk, registry, language server documents, quotas | open, save, save as, close, edit, undo, redo | several stores changed one after the other; a failing step in between | stores agree; clean means on disk |
| commands and locks | `main.rs` | registry lock, LSP lock, diagnostics task per path | the Tauri commands | lock order of commands against background tasks | no deadlock |
| sandbox | `security/sandbox.rs` | counters per principal | check, record | check and record are two calls | counters match what is open |
| capabilities | `security/capabilities.rs` | grants, audit log | grant, revoke, check | bounded log | nothing passes without a grant |
| LSP client | `lsp/client.rs`, `lsp/registry.rs` | pending requests by id, reader thread, one client per language | request, async request, notify, answers | timeout against late answer, failed write, death of the server | an answer goes to its request; pending entries end |
| MCP tools | `mcp/tools.rs` | none of their own, over the registry | EditFile, ApplyEdits, queries | read then edit; several edits called atomic | a tool that fails changed nothing |
| syntax services | `syntax_handlers.rs`, `syntax/` | parser per call | tokens, token delta, hover, folding | version ids as result ids | same id, same text |
| WASM sync | `wasm_sync.rs`, `tauri/wasm-sync.js` | buffers, timers, barriers in the web view | refresh, debounced refresh, deltas, clear | promises settled out of order, delta against another base | the copy becomes the host's text |
| WASM token cache | `wasm/src/cache.rs` | entries by resource, byte total, access counter | `prime`, `tokenize`, `tokenize_range`, `invalidate`, `clear_all` | eviction while replacing; oversized entries | fresh answers, LRU, within the limit |
| WASM compute | `wasm/src/{lib,diff,layout,incremental,tokenize,tree_sitter_tokenizer}.rs` | none | pure functions | incremental equals full | reference definitions |
| web view edit sync | `tauri/index.html`, `main.rs` and `host_handlers.rs` `apply_edits`, `save_document` | the editor's models, the current tab, calls and events on their way | type, save, change tabs, receive an event | two copies of each text with two ways of counting versions; handlers that read what is current | nothing lost or applied twice; the copies agree once the user pauses |
| frontend, renderer | `tauri/index.html`, `tauri/src/renderer` | DOM, scroll window, decorations | events | layout | not state the backend relies on |
| sparse files, events, protobuf, build | `sparse_file.rs`, `events.rs`, `proto` | little | paging, emission, generated types | - | - |

How they interact. The web view calls a Tauri command (`main.rs`); all commands are
synchronous and run one after the other on the main thread. A command takes the registry's
lock, changes the buffer, and gets a change event back. From the event it (a) emits an event
to the web view and pushes one to the subscribers, (b) calls `queue_did_change`, which stores
the change and spawns a debounce task, and (c) spawns a diagnostics task. The tasks run on
the tokio runtime's threads and call the language server client. MCP tools edit through the
same registry. Shared state is therefore: the registry and LSP locks (`parking_lot`), the
pending maps, and the task handles.

The code's hazards are listed, each at its line, in `PROJECT.json`; the properties below are
aimed at them, and a hazard that no property covers yet says why.

## 2. Modules

| module | models | depends on |
|---|---|---|
| `LineIndex` | rope slices and the line index, as operators | - |
| `TextBuffer` | one document: state machine | `LineIndex` |
| `UndoHistory` | what undo promises, abstractly | - |
| `BufferClients` | a document and its user, who undoes | `TextBuffer`, `UndoHistory` |
| `DidChange` | the main thread, the debounce tasks, the language server's end | - |
| `TokenCache` | the WASM token cache | - |
| `EditorSync` | the web view's models, the host's buffers, what is on its way between them | - |
| `HostDocuments` | the document commands over disk, registry, sandbox and language server | - |
| `AgentText` | what the agent tools compute from a text, as operators | `LineIndex` |
| `AgentTools` | an agent, a user and subscribers at the registry | `AgentText` |
| `LspSession` | commands, tasks, locks, the language client, its reader thread, the server | - |
| `FoldTheorems` | lemmas for the proofs: sequences, induction, folds | - |
| `MC...` | instances for TLC | the module named |
| `..._proof` | theorems and proofs | the module named |

Operators whose comment starts with "A mutant" are plausible mistakes in the definition that
follows; putting one in the place of that definition makes a property fail, which
`PROJECT.json` records property by property. No specification uses them.

### LineIndex and TextBuffer

A text is a sequence of characters, each with a length in UTF-8 bytes (`Utf8Len`) and UTF-16
units (`Utf16Len`). The code computes byte offsets and gives them to the rope. The rope is
ropey, whose `get_slice`, `remove` and `insert` count characters: `Slice`, `RopeRemove` and
`RopeInsert` model that, and return `None` where ropey returns `None` or panics. With
characters of one byte the two agree; the run `unicode_line_index` uses a letter of two.
`LineStarts` is `LineIndex::new`, `UpdateLineStarts` is the incremental `update` and
`UpdateLineIndex` is how the buffer calls it. A column past the end of a line is clamped; a
line past the end has no offset.

The variables of `TextBuffer` are the fields of the struct; `saved` is added and holds the
text of the last open or save. Each mutating method is one action because the registry runs it
under the buffer's write lock:

| action | code |
|---|---|
| `ApplyChange` | `apply_change`: nothing changes when the range does not resolve |
| `ApplyChanges` | `apply_changes`: one transaction, changes that do not resolve skipped |
| `Undo`, `Redo` | `undo`, `redo`: pop, apply the entries (`UndoEntry`, `RedoEntry`), push to the other stack |
| `SetValue` | `set_value` |
| `MarkAsSaved` | `mark_as_saved` |

`Applied` keeps three outcomes of an entry apart: skipped because an offset does not resolve,
applied but unreported because the end of the reported range has no position, and a panic in
the rope or in `offset_to_position`, which cuts a line by bytes (`Panic`), after which the rest of the transaction is not reached and the `parking_lot` lock is
released without being poisoned. The undo limit is a constant, so `set_undo_limit` is not an
action.

### UndoHistory and BufferClients

`UndoHistory` knows a present text, the texts before and the texts after. `BufferClients`
implements it: `past` and `future` are history variables moved along with the stacks, and
`UndoRestores` is the abstract specification under `present <- rope`. `Kinds` says which edits the client makes, so that a run can show undo to be right for
insertions and deletions and wrong for replacements.

### DidChange

The main thread's `queue_did_change` is three steps, as its mutexes are: `Extend` (pending),
`StoreVersion` (versions), `ReplaceTask` (abort the old task, spawn a new one). A task sleeps
(`Wake` ends the sleep), takes the pending lock, then the versions lock, and with both takes
what is pending (`Take` or `FindNothing`) and writes it to the server (`Send`), releasing
both. `Aborted` stops a task only in its sleep: that is its only suspension point. A change is
the number of the call that queued it, and the version stored with it is the same number.
The module ends at the hand-over to `lsp.did_change`: who waits for the lock of the client is
`LspSession`'s question, and what the server then holds `HostDocuments`'s.

### TokenCache

`cache` maps resources to entries, `Store` is the common tail of `prime`, `tokenize` and
`tokenize_range` on a miss: evict, take out the old entry, insert. `Evicted` says what the
loop of `evict_if_needed` removes: the fewest least recently used entries that make room, all
of them if that is not enough, none if the new entry exceeds the whole cache. Hashes are
taken as injective; `served` records what the last call was asked and answered.

### EditorSync

The web view has a model per open document, the host a buffer. The view's change handler sends
what a model went through with `apply_edits`; the host applies it and emits
`buffer-content-changed` to every view, the sender included; the listener drops events whose
version is not above the model's. `calls` and `events` hold what is on its way.

| action | code |
|---|---|
| `Type` | a content change of the current model and the handler it runs (`SendEdits`) |
| `SaveCurrentDocument` | `saveCurrentDocument`: the text of the model goes with the call |
| `ActivateTab` | `activateTab` |
| `Receive` | the listener: the guard `IsStale`, or `ApplyRemote` with the handler inside it |
| `HandleEdits` | `apply_edits` of `main.rs` and `host_handlers.rs`: each change an edit with a version of its own, one event |
| `HandleSave` | `save_document`: write the text sent, mark the buffer saved |

Monaco's model is external: a content change takes its alternative version up by one, whatever
the number of ranges, while the host counts each change. `from`, `to` and `of` of a call are
auxiliary and say where the model that made it stood. Assumed: calls of one document are
handled in the order they were made, and its events delivered in order (Tauri runs synchronous
commands on the main thread one by one); there is one window, as `tauri.conf.json` says; the
documents are open from the start. Left out: opening and closing, edits by agents (which emit
no event; `HostDocuments` and `AgentTools` have them), `state.currentVersionId` (written, never read) and Monaco's own undo, which takes
the alternative version back and so opens the same gap between the two counts as an edit with
two cursors does.

### HostDocuments

A document is kept in six books: the file, the buffer in the registry, the count of the
sandbox, the text a tab of the web view shows, the copy of the language server and the changes
that wait to be sent to it. Each command changes some of them, one after the other, and a
write to the disk may fail.

| action | code |
|---|---|
| `SetPrimaryRoot` | `set_primary_root`: the old roots stay roots |
| `OpenDocument` | `open_document`: read, weigh, open, book (`OpenFresh`), or answer from the buffer (`AnswerOpen`); `did_open` unless the file cannot be stat'ed any more |
| `SaveDocument` | `save_document`: what the view shows is written, the buffer counts as saved; a failed write leaves `Unknown` in the file |
| `SaveDocumentAs` | `save_document_as`: what the view shows is written; the source is closed and the target opened in the registry and at the server, not in the sandbox |
| `CloseDocument` | `close_document`, with the save it may make first; the view drops its tab |
| `CloseBuffersBatch` | `close_buffers_batch` of `main.rs`: the registry only |
| `ApplyEdits`, `UndoRedo` | the handlers of those names, with `queue_did_change` and what the view makes of it |
| `TypeIntoClosed` | an edit of a tab whose buffer is gone, which the host refuses |
| `AgentEdit` | an edit by a tool: the registry only |
| `SendPending` | a debounce task, reduced to its effect |

A text is a value with a size, and a change leads from one text to another: applied to any
other it gives `Unknown` at the server, and any text in the view (`ViewFollows`). A view that
shows what the buffer holds follows it at once here; its lag is `EditorSync`'s question.

Some commands change a buffer, or open one, without telling the view or the server what
happened. `unseen` and `untold` collect the documents they were given, until the next close,
and nothing in the model reads them but the properties. For both it is an edit by a tool; an
undo whose event is not what it did (section 4); a save as onto a document that is open, which
keeps its own buffer while view and server are given the new text; and an open whose file is
gone when it is stat'ed. For the server it is also an open, or a save as, of a path for which
changes still wait from before its last close. `ServerInStep` and `CleanMeansOnDisk` say that
nothing else sets the copy, or a clean buffer and its file, apart.

### AgentText and AgentTools

`AgentText` has what the tools of `mcp/tools.rs` compute: ranges of lines, searches with and
without case, positions and offsets, the line diff, the symbols found by keyword, and the text
after a structural edit. Lines are those of `str::lines` where the tools use it (`LinesOf`: no
newline, no carriage return before it, no empty last line) and those of the line index where
the buffer does. The search that ignores case works on lower-cased copies and takes their
offsets for those of the text (`Searched`); characters are one byte before and after, so that
the copies are as long as the text, which is not so of all characters. Declarations begin,
after white space, with one `Keyword` instead of nine prefixes, and the wrappers of a
structural edit are one character. The syntax tree is an external parser's: a structural edit
may be given any part of the text that holds the offset, of any kind, for the node found there
(`NodesAt`), and whether a text has errors is open (`InspectContradictions`).

In `AgentTools` each tool that only reads is an operator, its answer, and the tools that edit
are actions, each one step because `execute_mcp_tool` is a synchronous command:

| action | code |
|---|---|
| `Learn` | `read_file`, `replay_buffer` and the exchange of semantic tokens by version: the agent keeps the answer |
| `EditFile`, `ApplyEdits`, `StructuralEdit` | the tools, with or without the expected version |
| `Subscribe`, `Poll`, `PushEvents` | the event queues of the registry |
| `OpenBuffer`, `CloseDocument`, `CloseBuffersBatch`, `UserEdit` | the user, for what the tools can notice |

`memory` is what the agent must believe: a version and its text, carried on through its own
edits from the answers it got. Subscribers are told of closes, of any document, whatever
they subscribed to, since that is what the code does (section 4). `misled` marks the two answers that name a version the buffer
does not have, and `life` counts how often a document was opened, since versions start again
at 1. `BeliefsHold` then says what the optimistic check of `registry.rs` is for.

### LspSession

A command or a task is the sequence of what it does that others notice: locks taken and
released, uses of the client, tasks started. What it holds it releases when it ends; `MayEnd`
is an early return, `Asleep` an await, at which alone a task can be aborted. A lock excludes
as `parking_lot`'s do; only the main thread writes the registry, so a reader never queues
behind a waiting writer.

The client is used by whoever holds the LSP lock, so one call is made at a time.

| action | code |
|---|---|
| `Give`, `Acquire`, `Unlock`, `GoOn`, `End` | a command or task and its locks |
| `Start` | `replace_diagnostic_task` and the end of `queue_did_change`: abort, spawn |
| `Spawn` | `client_for_language` and `LspClient::spawn`, whose `initialize` is a call |
| `Call`, `WriteRequest`, `Receive`, `TimeOut` | `request_with_timeout`; an answer is a result or an error |
| `Call`, `WriteNotification` | `notify` |
| `Ended` | what follows: `initialized` after a handshake, or `shutdown` and `exit` when it failed and the client is dropped |
| `ReaderReads`, `ReaderSends` | `reader_loop`: the entry is taken out of the map, then its sender used |
| `ServerReads`, `ServerAsks`, `ServerExits` | the server: it answers late, never, in any order, uses ids of its own, dies |

A write puts a message in the server's input, which takes `PipeSize` of them, and waits while
it is full: `write_all` has no timeout, and the writer holds the LSP lock. A server need not
read, which stands for one that hangs and for one that waits to write to its error output, a
pipe nobody reads. `Decodable` are the forms of message the reader can decode, which in the
code excludes every real server's (section 4); the passing run takes a server that writes the
decodable form, so that what follows an answer is checked as well. Not modelled:
`request_async` and `shutdown` (no caller), and what a dropped client's server still does.

## 3. Runs

| run | configuration | shows | states |
|---|---|---|---|
| `text_buffer` | `TextBuffer.cfg` | index, lineage, dirty flag, versions, undo limit and dirty ranges of one document | 206 000 |
| `undo_restores` | `UndoRestores.cfg` | insertions, deletions, saves, undo and redo implement `UndoHistory` | 35 000 |
| `did_change` | `DidChange.cfg` | order, no loss, labels, a task for what is pending, and liveness | 23 000 |
| `token_cache` | `TokenCache.cfg` | accounting, limit, LRU, fresh answers | 5 400 up to symmetry |
| `editor_sync` | `EditorSync.cfg` | view and host agree, with edits of one change | 323 000 |
| `misdirected_edits` | `MisdirectedEdits.cfg` | a counterexample to `EditsStayHome`, with an edit of two changes | |
| `unicode_line_index` | `UnicodeLineIndex.cfg` | a counterexample to `LineIndexCoherent` | |
| `undo_of_replace` | `UndoOfReplace.cfg` | a counterexample to `UndoRestores` | |
| `host_documents` | `HostDocuments.cfg` | which commands set server and buffer, or a clean buffer and its file, apart | 1 143 000 |
| `agent_tools` | `AgentTools.cfg` | what an agent may believe, that edits and answers are where they say, and event queues | 54 000 |
| `lsp_session` | `LspSession.cfg` | pending requests, the one deadlock, and when commands end | 376 000 |
| `lsp_unanswered` | `LspUnanswered.cfg` | a counterexample to `AnswersArrive` | |

The properties of the passing runs:

- `LineIndexCoherent`: the incrementally kept index is the one a full scan builds.
- `LineageContiguous`: the lineage is the last versions without a gap.
- `LineageCurrent`, `CleanMeansSaved`: the newest snapshot is the text, and a clean buffer holds
  what was saved, at first and after every step that finds it so, but for an undo or redo of
  several changes done in part (`PartlyDone`), which is real and reached.
- `UndoBounded`: both stacks together stay within the limit, though redo does not trim.
- `ChangesAreVersioned`: versions never skip, and a changed text has a new version, with the
  same exception.
- `DirtyRangeCovers`: lines outside the recorded range are the old lines.
- `UndoRestores`: see above.
- `ChangesInOrder`: sent, taken and waiting changes are the queued ones, in order.
- `PendingHasTask`: changes never wait for nobody.
- `LabelNeverAhead`: the version the server was told is one whose changes it has.
- `EventuallySent`: infinitely often everything queued is sent.
- `BytesAccounted`, `WithinLimit`, `RecencyUnique`, `ServedFresh`, `EvictsOldest`: the cache.
- `CallsConnect`: the calls on their way lead from the host's text and version to the view's.
- `EchoesAreStale`: the guard drops every event about the view's own edits.
- `CleanMeansOnDisk`: a clean buffer is what the file holds, though the text written is the
  view's and the flag cleared the host's.
- `EventuallyInSync`: infinitely often, view and host hold the same text.
- `ServerInStep`: the server knows every open buffer, and its copy with the waiting changes
  is the buffer, until a command named above does not tell it.
- `CleanMeansOnDisk` (`HostDocuments`): a buffer that is not dirty is what its file holds,
  though saves write what the view shows, until a command named above does not tell the view;
  through failed writes, save as and batch close.
- `BeliefsHold`: an accepted edit changes the text the agent took it to change.
- `FoundTextReplaced`, `MatchesInPlace`: offsets, lines and columns of tools and buffer agree.
- `DiffsExplain`: a diff leads from the old lines to the new, and its counts add up. It is
  about lines: a newline at the end, or a carriage return, that came or went is not told.
- `ToolsAgree`: tools that answer one question in different ways give one answer: reads by
  piece and whole, lines counted by `str::lines` and by the index, listed and queried symbols
  and the lines read, the two tools that tell of a drift.
- `QueueIsRecent`: a subscriber has the latest closes, and all of them if it keeps up.
- `PendingMeansWaiting`: an entry in the client's map is a request somebody waits for, or one
  that could not be written.
- `OneDeadlock`: only `save_document_as` and a diagnostics task can deadlock.
- `CommandsEnd`: apart from that, and from a write that waits forever for a server that does
  not read, every command ends, whatever the server does. Leaving out either exception makes
  the property fail.

`CHECK_DEADLOCK FALSE` is set where the model stops by its bound (`MaxVersion`, `MaxEdits`,
`MaxAccesses`, `MaxCalls`, `MaxCommands`); a real deadlock would still violate `EventuallySent`
in `DidChange`, and is what `OneDeadlock` and `CommandsEnd` are about in `LspSession`.

### Bounds

- `MaxVersion = 4` (5 for undo): three or four changes, enough for edit, undo, redo with a
  limit of two transactions and two snapshots, so that both limits are reached and passed.
  `MAX_HISTORY` is 50 in the code and `MaxHistory` 2 here; the proofs hold for any value.
- `MaxLen = 4`, two or three initial lines, insertions of nothing, a letter, a letter and a
  line end, at positions at the start, inside, past the end of a line and in a second line
  that need not exist: joins, splits, clamping and refused changes all occur. Batches are
  three fixed ones: one whose second change only resolves because of the first, one whose
  first change is reversed and skipped, and the one of section 4 of which an undo, and a redo,
  is done in part.
- `MaxEdits = 4` over two paths: three tasks can be alive for one path (one past its sleep,
  one aborted, one asleep) while the other path holds the lock.
- `MaxBytes = 4`, sizes 1, 2 and 5, four resources: three entries can be evicted at once, an
  entry can replace its own predecessor with or without that having been evicted, and one
  exceeds the cache. `MaxAccesses = 6`. Resources are interchangeable (symmetry); the run
  has no liveness property.

- `EditorSync`: two documents, an insertion, a deletion and a replacement, `MaxVersion = 3`
  (two edits per document) and `MaxCalls = 2` calls on their way per document: an edit, a save
  and an edit overlap in every order with events not yet delivered and tabs changed between.
  `misdirected_edits` adds one edit with two changes and needs no more.
- `HostDocuments`: two documents in two directories, one of which is no root at first; texts of
  sizes 0 and 2 and one, of size 1, that is not UTF-8. One buffer may be open and a file of
  size 2 is too large to open, so that both limits refuse; the limit on memory, which a check
  compares with what is booked, never decides here. One document is edited twice (`MaxVersion`
  3, two changes waiting); the other is what it is saved as, or opened over (`MaxVersion` 1).
- `AgentTools`: one document is opened twice and edited twice, with a lineage of two, so that
  a version the agent knows is dropped; texts up to three characters with a declaration,
  indented or not, a line end of one or two characters, and a letter in both cases. The other
  path is opened once. A queue of two events and four turns, opens and closes together
  (`MaxTurns`): it overflows with closes of both paths, polled or not.
- `LspSession`: two commands and two tasks: an edit whose two tasks run beside any other
  command, or an edit that replaces the tasks of the one before. The deadlock needs no more;
  its theorem holds for any number of tasks. The pipe takes two messages (`PipeSize`): a
  handshake that is not read fills it, and so does one that is followed by a notification.

### Fairness

`LspSession` assumes `WF_vars(Step(p))` of each process: threads are scheduled, sleeps end,
and waits for an answer run out. Nothing is assumed of the server or of the reader thread.

`EditorSync` assumes that calls are handled and events delivered; both are the work of a loop
that waits for nothing else. The user is not assumed to do anything.

`DidChange` assumes that the main thread finishes a call it
has begun (its statements do not wait for anything but a mutex), and that a spawned task is
run by the runtime. Nobody is assumed to edit. The language server's lock is taken inside
`Send` and assumed to be released by whoever holds it; the lock order of `save_document_as`
and the diagnostics task, and a server that no longer reads, can break this assumption, which
is a question about `main.rs` and the client and not about the batching: `LspSession` answers
it. That `tokio::spawn` may be called from a synchronous command is assumed as well.

## 4. Disagreements found

1. **Bytes and characters** (`unicode_line_index`, `text_buffer.rs:284`). Byte offsets are
   given to a rope that counts characters. One character of two bytes makes the suffix short
   or `None`, and the index loses lines. The property tests edit ASCII texts only.
2. **Undo of a replacement** (`undo_of_replace`, `text_buffer.rs:582`). Undo removes the text
   in the range of the old text, not what was inserted; lengths that differ leave characters
   behind or take neighbours away.
3. **Edits sent to another document** (`misdirected_edits`, `tauri/index.html:819`). The event
   of an edit with two cursors passes the sender's own version guard and is applied a second
   time. If its document is no longer the current one, the change handler looks up the wrong
   path in `remoteEditPaths` and sends the changes to the document that is.
4. **Answers never arrive** (`lsp_unanswered`, `lsp/client.rs:49`). `JsonRpcResponse` requires a
   field `_jsonrpc`, without a rename: no answer of a language server is ever decoded,
   `initialize` times out after two seconds and each use of the client spawns a server again.

Met while reading and modelling, and without a run of their own:

5. **Events of undo** (`text_buffer.rs:559`). Undoing an insertion reports an empty range, so a
   copy fed by the events keeps the inserted text.
6. **Batches before the quiet period** (`host_handlers.rs:275`). A task past its sleep takes
   changes that were queued after it woke, against the documented 50 ms of inactivity.
   Harmless for order and content, as `ChangesInOrder` shows.
7. **Oversized cache entries** (`wasm/src/cache.rs:56`). What "don't cache it" describes is
   inserted all the same.
8. **The deadlock** (`host_handlers.rs:630`). `save_document_as` keeps the registry while it
   takes the client, a diagnostics task the other way round. `OneDeadlock` and `CommandsEnd`
   except it by name; no line of the repository promises its absence.
9. **Drifting quota** (`security/sandbox.rs:65`: "Tracks actual resource usage against
   limits."). `save_document_as` opens without a booking, `close_buffers_batch` closes without
   a release, edits change sizes without a word. What is booked can be more or less than what
   is open. No property is about it: an open is checked against what is booked.
10. **Versions that are not there** (`mcp/tools.rs:2517`). `structural_edit` answers the next
    version when the text stayed the same, and `apply_edits` of no edits answers 0.
11. **"Atomically"** (`mcp/tools.rs:647`). `apply_edits` leaves the edits before a refused one
    applied.
12. **Versions across lives.** A version names a text only until the document is closed: after
    it is opened again, an edit or a token delta for a version of before may be accepted.
13. **Subscriptions** (`mcp/tools.rs:2177`, `:2184`) promise lifecycle and content-change events
    and take a filter of paths; `:2189` ignores the arguments, and only closes are pushed, of
    any path. `QueueIsRecent` is about these closes and shows nothing of what is missing.
14. **Columns and offsets** (`mcp/tools.rs:2634`). `byte_offset_from_line_col` compares the
    column with the offset in the whole text, so that on any line but the first a column
    smaller than the line's offset finds the start of the line.
15. **Line deltas** (`wasm_sync.rs:122`, `tauri/wasm-sync.js:33`). The text of a delta is joined
    without the newline of its last line, while the view cuts out the old lines with theirs:
    a change in any line but the last joins it with the next. It does not come to that, as
    the command the manager invokes, `wasm_sync_state_json`, is registered under another name
    (`main.rs:1612`).
16. **The sync barrier** (`tauri/wasm-sync.js:92`). A refresh that settles late takes down the
    barrier that a newer one has put up, and a replaced one never settles its promise.
17. **Saving after an agent's edit** (`host_handlers.rs:580`: "Buffer content is already the
    source of truth; just mark saved"). The view is told nothing of an agent's edit
    (`main.rs:1384`), and a save writes what the view shows: the older text goes to the file and
    the buffer counts as clean. `CleanMeansOnDisk` excepts it by name (`unseen`).
18. **Undone in part** (`text_buffer.rs:487`). See below.
19. **Searching without case** (`mcp/tools.rs:1787`). Offsets in a lower-cased copy are used for
    the content. The two differ after a character whose lower case has another length, which
    is none of one byte.
20. **Writes without a limit** (`lsp/client.rs:152`, `:251`). `write_all` waits under the LSP lock
    as long as the server does not read, which it may not do either when the pipe of its error
    output is full (`:72`, never read). `CommandsEnd` excepts it by name (`Blocked`).

`editor_sync` passes because its edits are of one change, the case in which the two ways of
counting versions agree; the theorems name that condition (`OneChangePerEdit`).

`text_buffer` passes in spite of 2 and 5: its properties are about versions, lineage and
index, which stay right while the text restored is wrong. Not so with several changes at
once: for the text `"b\na"` and the batch [replace (1,1)-(1,2) by `"a"`; replace (1,1)-(2,2) by
`"b"`], which is one of the run's, undo and then redo meet an entry that changes the text
without reporting a change, or panics after an earlier entry was applied. Nothing is
recorded then: the text has no version of its own, the newest snapshot is another text, and a
clean buffer stays clean. This is a consequence of 2 and vanishes with it. `PartlyDone` is such
a step, and `LineageCurrent`, `CleanMeansSaved` and `ChangesAreVersioned` say that there is no
other: what it spoils they do not ask for again until a step has put it right. As plain
invariants (`LineageHasText`, `SavedWhenClean`) the first two fail in this run. With
batches of one change they hold, as a theorem has it (`OneChange`, `SingleChangesStayKept`),
and the program makes no others: nothing calls `apply_changes` (`text_buffer.rs:353`). Nor does
anything set a limit of transactions (`with_max_undo`, which `UndoBounded` is about).

## 5. Proofs

All theorems are of the form `Spec => ...` or lemmas on the operators, for every value of
the constants that satisfies the named assumptions. `FoldTheorems` holds what several of the
proofs need: sequences of anything, and induction without an operator parameter, in the form
of a set of numbers that contains 0 and every successor (`SetNatInduction`, from
`LeastNatural`). From that, folds over sequences are unrolled (`FoldInOrder`, `FoldUnfolds`,
`FoldUnique`), a recursive function over `0..n` is what its steps make of it (`RecursionSteps`,
`RecursionIs`), and a sum over a finite set is shown not to depend on the order
(`SumAnyOrder`).

`TextBuffer_proof` (assumes `BufferAssumption`, which also says that the marker `None` is not
a document) has four layers.

1. *Counting.* `LineageIsContiguous`, `UndoIsBounded`, `VersionsStep`, `LineageAnswers`. The
   inductive invariant `Inv` adds to the two properties `Shapes`: the version is a positive
   number and lineage and stacks are sequences. `LineageContiguous` is inductive together with
   it because each action either records exactly one snapshot with the next version
   (`NewVersion`) or touches neither version nor lineage. `UndoBounded` must speak of the sum
   of the two stacks: the undo stack alone is not inductively bounded, as redo pushes on it.
2. *Texts.* `TypeCorrect` and, for one-byte characters (`OneByte`), `IndexIsCoherent`. A
   transaction is a fold over its entries. The lemmas say of a set `D` of documents (rope and
   index) that is `Closed` under one splice that every edit, batch, undo and redo stays in it,
   whatever it skips and wherever it panics; `D` is `TDoc`, the well-typed documents, for the
   one theorem, and `CDoc`, those whose index is `LineStarts` of the rope, for the other. That
   `CDoc` is closed is the correctness of the incremental line index: `StartsOfConcat` (the
   starts of a text put together of two), `MovedBeyond` and `UpdatedIs` give `Rescan`, that the
   index updated from the edited line on is the index of the new text. It needs `OneByte`: the
   run `unicode_line_index` shows it false without.
3. *Telling.* `LineageIsCurrent`, `CleanIsSaved`, `ChangesHaveVersions`, under `OneByte`: none of
   the three goes wrong but by a `PartlyDone` step, an undo or redo of a transaction of several
   entries that reports nothing. An entry that changes the text reports a change or the
   position after it does not exist; `PositionExists` shows that it does when the index is
   coherent. So an undo or redo of one entry that reports nothing has done nothing
   (`SilentUndo`, `SilentRedo`), and one that reports something gives a version, like every
   other change. Under `OneChange`, that no call applies more than one change, which is the
   program's case, there is never more than one entry (`Singles`) and hence no such step:
   `SingleChangesStayKept` has the plain invariants.
4. *Undoing.* `UndoIsRestored`: `CSpec` of `BufferClients` implements `UndoHistory`, under
   `OneByte`, `OneUnit` and a client that only inserts and deletes at exact positions. Each
   transaction on a stack `Bridges` two texts: undone at the one it gives the other, and redone
   at the other the one. The invariant `Traces` says that the stack `Leads` from text to text
   of `past` up to the rope, and the redo stack to those of `future`; trimming cuts both at the
   same end (`PushIsPart`). That a new entry is a bridge (`ChangeBridges`) is the heart of it:
   an exact position has the same offset in two texts that agree before it (`OffsetStays`), so
   that the entry finds the place of the change again (`EntryBack`), and putting back what was
   cut out, or cutting out what was put in, gives the old text (`PutBack`). Replacements and
   clamped positions are excluded because for replacements it is false (run `undo_of_replace`).

`DidChange_proof` (assumes `DidChangeAssumption`): `TypeCorrectness`, `NothingLost`,
`NobodyForgotten`, `LabelsLag`. The invariant adds
- `LockInv`: who holds a mutex is where the code says, so only one task has taken changes;
- `SpawnInv`: tasks up to `spawned` exist, the handle of a path is its newest task, and a
  path's task is of that path;
- `VersionInv`: the version stored for a path is at most what has been queued, and what a
  task took it took with a version not above the changes it took.
`ChangesInOrder` needs `LockInv` (two takers could send in the wrong order), `PendingHasTask`
needs `SpawnInv` (abort must hit a task of the same path, and the new one must be alive).

`TokenCache_proof` (assumes `TokenCacheAssumption`): `RecencyIsUnique`, `AnswersAreFresh`,
`EvictionIsLRU`, `MissEvictsOldest`, `TotalIsSum`, `CacheIsWithinLimit`, `TypeCorrect`. The
invariant adds that every stamp is at most the access counter, so that a new stamp is unlike
all others, and that the tokens of an entry are those of its input. That `Evicted` is closed
under "older than" needs the least number that makes room, from well-foundedness of `<` on the
naturals. `Accounted` adds that the cache is finite and the total its sum: `Bytes` is a fold
in an order nobody chose, so that first `BytesAdd` and `BytesSplit` say that the order is of
no matter. The limit follows from the total: a miss makes room for what it stores
(`RoomIsMade`), or stores something that by itself does not fit; nothing is shown of a cache
that holds such an entry, for as long as it does (7 of section 4).

`EditorSync_proof` (assumes `EditorSyncAssumption` and, named in each theorem but the last,
`OneChangePerEdit`): `CallsAlwaysConnect`, `EchoesAreAlwaysStale`, `CleanIsAlwaysOnDisk`,
`TypeCorrect`. The invariant is one predicate, `Coherent`, of the five values of one document:
calls are honest about what they did to the model, they connect host and view, and the model
is at least as new as every call and event on its way. One lemma per action shows `Coherent`
of the values after it, and `OneDocument` lifts that to all paths. None of the first three
theorems is inductive alone: that an event is stale follows from the version of the call that
caused it, and that a save writes the buffer's text from the calls before it having led there.
`Spliced` is not opened for them: the two sides only have to do the same. `TypeCorrect` opens
it, for edits of any number of changes.

`HostDocuments_proof` (assumes `HostDocumentsAssumption`): `CleanStaysOnDisk`,
`ServerStaysInStep`, `TypeCorrect`, and `CopiesMatch`, the invariant of the second. That clean
means on disk goes through one predicate, `Kept`, of the file, the buffer and the view of one
document: the view shows what the buffer holds, or nothing, which is why writing the view's
text and calling the buffer saved is right, and a clean buffer is in its file. Each command
keeps it for the documents it touches, or puts them in `unseen`; which ones do is what the
theorem is about. It is not inductive without the view. `ServerStaysInStep` has a predicate of
the same kind, `Matches`, of the buffer, the server's copy, what waits and `untold`; that
changes queued behind others lead where the edits led (`ReplayedAlong`, `ReplayedSteps`) is an
induction over the fold of `Replayed`. The assumption says that the markers `None` and
`Unknown` are not texts.

`AgentTools_proof` (assumes `AgentToolsAssumption`, which also says that the marker `None` is
not a change): `BeliefsAreTrue`, `QueuesAreRecent`, and under `OneByte` and `OneUnit`, which
say that characters are one byte and one UTF-16 unit, `FoundIsReplaced` and
`MatchesAreInPlace`, and under `OneByte` alone `TypeCorrect`, `DiffsAreExplained` and
`ToolsAlwaysAgree`. The
invariant of the first, proved of the specification as `MemoryIsTrue`, says of each document
that its lineage is gapless up to its version, and of what an agent remembers of the same life
that the lineage, where it still has that version, has that text. It then survives the edits
of others, which only append to the lineage or drop its oldest end. The lists of edits of
`apply_edits` are unrolled one by one, through the first that is refused. The second: a queue,
the events received before and those since the subscription are sequences of closes; the queue
is a suffix of what was pushed, all of it as long as the cap was never reached, also after a
batch of any number of closes.
The others are about texts. The tools count newlines from the start of a text, the buffer
looks lines up in an index it scanned; `StartsCover` shows, one character at a time, that for
every offset the index has the line the tools count and the start they count from (`Covers`),
so that a tool's position leads the buffer back to its offset (`ThereAndBack`). Hence a match
is where it is said to be, whatever subset of the occurrences the search returns
(`MatchesAreInPlace`: the recursion that skips overlapping ones is unrolled by `RecursionIs`),
and `edit_file` cuts out exactly what `find` found (`FoundIsReplaced`, with `Spliced`). Both
need that buffers hold texts, which is `TextsInv`, inductive with the invariant of the first:
changes, structural edits (`RestructuredType`), lists of edits and old versions only ever yield
texts. `DiffsAreExplained` joins the two parts: what the agent remembers is what the lineage has
(`MemoryIsTrue`), and a diff of two sequences of lines (`IsDiff`), flattened side by side, is
those lines again (`SideFlattened`, by induction over the chunks), while the chunks of each
kind of the excess are an interval, which is counted (`DiffCounts`). For `ToolsAlwaysAgree` a
text is cut at a line or a byte and put together again (`ReadInPieces`, `BytesInPieces`), and
the declarations found in a text are those found in its lines read one by one (`DeclaresIn`).
A match without case is one in the lower-cased copies, which have the lengths of the texts
(`OneByte`), and so it holds of the text up to case.
The two hypotheses are needed: the tools' offsets are bytes and their columns bytes or
characters, while the buffer takes columns as UTF-16 units and cuts its rope by characters.

`LspSession_proof` (assumes `LspSessionAssumption`): `PendingIsWaiting`, `DeadlockIsOne`,
`TypeCorrect`. The invariant `Sound` of a client and the id in the hands of its reader bounds
the ids by the counter, so that a new request is unlike all that are pending, left behind, or
just being answered; `Settled` is what `Sound` becomes when a call ends, and what the next
call needs. For `DeadlockIsOne`, a program is
`Orderly` with the locks a process holds if every step of it can be annotated with the locks
held by then, such that no step waits for a lock it must not wait for with these
(`MainInOrder`, `TaskInOrder`) and nobody sleeps with a lock in hand. The first part shows
this of each command and task from its start, by giving the annotation, and that what is left
of an orderly program is orderly with the locks of then. The second shows that every step
keeps it so for every process (`AllTidy`): it needs that a task is only aborted asleep, and so
without locks. In a circle of waiters someone then waits for the registry: whoever holds
`pending`, `versions` or the client waits for a lock later in that order. The one who holds
the registry and still waits can only be the main thread, and as tasks only read the
registry, it has it for writing, which among the commands that go on to wait is
`save_document_as`.

Only model-checked:
- `EventuallySent`, `EventuallyInSync` and `CommandsEnd`, as liveness is beyond the prover;
- `DirtyRangeCovers`, about the lines of two texts.

## 6. Plan

1. `WasmSync`: the JavaScript manager with timers and promises, composed with the host's line
   delta; convergence of the copy once edits stop, which needs 15 of section 4 repaired first.
2. `EditorSync` extended: edits by agents without events, opening and closing tabs with calls
   still on their way, Monaco's undo.
3. The documents of `HostDocuments` in `LspSession`: what a server spawned late, or again,
   knows of the documents opened before it.
4. Proofs: `DirtyRangeCovers` for one-byte characters, from the index lemmas of
   `TextBuffer_proof`.

### Not modelled

- Capabilities and the audit log: one principal, granted everything at the start and never
  revoked, so that no check can refuse. Limits of tools and rates are never checked.
- Sparse files: paged reads of files that never become buffers.
- The syntax services' answers and the pure functions of the WASM module: they depend on
  tree-sitter's trees; only the exchange by version and the waiting are modelled.
- `get_symbol_index` and `get_symbol_at_position`: they pass on what an external parser finds.
- `diff_files` (the same diff, of two buffers) and `watch_workspace` (events of the file
  system) of the tools.
- The conversions between JSON, protobuf and the handlers' types in `main.rs`, directory
  listing and file metadata.
- The DOM and layout code, the generated protobuf types, the event emitter and the build,
  which keep no state that other parts rely on.
