---------------------------- MODULE AgentTools ----------------------------
(***************************************************************************)
(* An agent at work on the buffers of the registry (buffer/registry.rs)    *)
(* through the tools of mcp/tools.rs, while the user edits, saves, closes  *)
(* and opens the same documents.  execute_mcp_tool runs one tool at a time *)
(* on the main thread, as every command is run: a tool is one step.        *)
(*                                                                         *)
(* A tool that only reads is an operator, its answer: the version it names *)
(* and what it says.  memory is what the agent keeps of the answers: the   *)
(* last version it was told of and the text it must then take the buffer   *)
(* to hold, after a tool that edits by doing to its text what it asked     *)
(* for.  It is also what a view keeps that asks for semantic tokens by the *)
(* version of its last answer.  The dirty flag and the undo stacks, which  *)
(* some answers tell of, are TextBuffer's; an undo is one more edit here.  *)
(***************************************************************************)
EXTENDS AgentText

CONSTANTS
  Paths,
  Subscribers,
  Contents,   (* what files hold when they are opened                       *)
  Edits,      (* the changes edits ask for                                  *)
  Queries,    (* texts that are searched for, and replaced                  *)
  Names,      (* texts that are written in their place                      *)
  Spots,      (* lines and columns a structural edit is asked for at        *)
  MaxHistory, (* MAX_HISTORY: snapshots kept in the lineage                 *)
  MaxQueue,   (* events kept for a subscriber that does not poll            *)
  MaxVersion, (* bound, per path: the last version an edit leads to         *)
  MaxLen,     (* bound: edits that would grow the text beyond it are left out *)
  MaxLives,   (* bound, per path: how often it is opened                    *)
  MaxTurns    (* bound: the opens and closes of documents, all told         *)

ASSUME AgentToolsAssumption ==
  /\ Contents \subseteq Text /\ Queries \subseteq Text /\ Names \subseteq Text
  /\ Edits \subseteq Change /\ None \notin Change
  /\ MaxHistory \in Nat \ {0} /\ MaxQueue \in Nat \ {0}
  /\ MaxVersion \in [Paths -> Nat] /\ MaxLives \in [Paths -> Nat]

VARIABLES
  buffer,        (* per path: the buffer                                    *)
  lives,         (* per path: how often it was opened                       *)
  memory,        (* per path: what the agent knows of it                    *)
  closed,        (* auxiliary: the documents closed so far                  *)
  subscriptions  (* per subscriber: its queue and what it polled            *)

vars == <<buffer, lives, memory, closed, subscriptions>>
events == <<closed, subscriptions>>

IsOpen(p) == buffer[p] # None
Open == {p \in Paths : IsOpen(p)}

Snapshot(text, version) == [text |-> text, version |-> version]

RecordSnapshot(lineage, snapshot) ==
  Append(IF Len(lineage) >= MaxHistory THEN Tail(lineage) ELSE lineage, snapshot)

(* TextBuffer::new                                                         *)
Fresh(text, life) ==
  [text |-> text, version |-> 1,
   lineage |-> <<Snapshot(text, 1)>>, life |-> life]

(* A buffer after a change: apply_change, set_value.                       *)
Edited(b, text) ==
  [b EXCEPT !.text = text, !.version = @ + 1,
            !.lineage = RecordSnapshot(@, Snapshot(text, b.version + 1))]

Init ==
  /\ buffer = [p \in Paths |-> None]
  /\ lives = [p \in Paths |-> 0]
  /\ memory = [p \in Paths |-> None]
  /\ closed = <<>>
  /\ subscriptions = [s \in Subscribers |-> None]

----------------------------------------------------------------------------
(* The tools that read.  Those that name a path fail if it is not open.    *)

Answer(version, data) == [version_id |-> version, data |-> data]

ReadFile(p, start, end) ==
  Answer(buffer[p].version, LineRange(buffer[p].text, start, end))
ReadWholeFile(p) == Answer(buffer[p].version, buffer[p].text)

GetBufferSnapshotProof(p) == Answer(buffer[p].version, buffer[p].text)

GetBufferMetadata(p) ==
  Answer(buffer[p].version,
         [byte_len |-> ByteLen(buffer[p].text),
          line_count |-> Len(LinesOf(buffer[p].text))])

ListOpenBuffers == [p \in Open |-> GetBufferMetadata(p)]

(* A length beyond the end is cut; an offset beyond it is refused.         *)
GetBufferByteRange(p, offset, length) ==
  LET total == ByteLen(buffer[p].text)
  IN  IF offset > total THEN None
      ELSE Answer(buffer[p].version,
                  Slice(buffer[p].text, offset, Min({offset + length, total})))

GetBufferVersionLineage(p) ==
  Answer(buffer[p].version,
         {buffer[p].lineage[i].version : i \in DOMAIN buffer[p].lineage})

(* get_snapshot_at_version takes version 0 for the last one.               *)
ReplayBuffer(p, version) ==
  LET lineage == buffer[p].lineage
      at == {i \in DOMAIN lineage : lineage[i].version = version}
  IN  IF version = 0 THEN Answer(Last(lineage).version, Last(lineage).text)
      ELSE IF at = {} THEN None
      ELSE Answer(version, lineage[Min(at)].text)

CompareBufferVersions(p, from, to) ==
  IF None \in {ReplayBuffer(p, from), ReplayBuffer(p, to)} THEN None
  ELSE Answer(to, LineDiff(ReplayBuffer(p, from).data, ReplayBuffer(p, to).data))

(* file is what the disk holds, or None.                                   *)
InspectBufferDrift(p, file) ==
  IF file = None THEN None
  ELSE Answer(buffer[p].version,
              [has_drift |-> buffer[p].text # file,
               diff |-> LineDiff(file, buffer[p].text)])

SearchTextInBuffers(query, case_sensitive) ==
  [p \in Open |-> Answer(buffer[p].version, Matches(buffer[p].text, query, case_sensitive))]

QuerySymbolsInBuffers(pattern) ==
  [p \in Open |-> Answer(buffer[p].version, QuerySymbols(buffer[p].text, pattern))]

(* A file that cannot be read counts as empty here.  has_error is the      *)
(* verdict of the external parser, that of Rust whatever the document is.  *)
InspectContradictions(p, file, has_error) ==
  LET read == IF file = None THEN <<>> ELSE file
  IN  Answer(buffer[p].version,
             {kind \in {"buffer_disk_mismatch", "parse_errors"} :
                IF kind = "parse_errors" THEN has_error ELSE buffer[p].text # read})

(* semantic_tokens_delta_document: nothing new, the tokens of before       *)
(* stand, if the last answer was for this version.  Tokens are a function  *)
(* of the text.                                                            *)
SemanticTokensDelta(p, previous) ==
  Answer(buffer[p].version,
         IF previous.version = buffer[p].version THEN previous.text ELSE buffer[p].text)

(* node is the one the parser finds where spot is.                         *)
NodesOn(p, spot) ==
  NodesAt(buffer[p].text, OffsetFrom(buffer[p].text, spot.line, spot.column))

PreviewStructuralEdit(p, node, edit_type, new_name) ==
  Restructured(buffer[p].text, node, edit_type, new_name)

----------------------------------------------------------------------------
(* What the agent learns.                                                  *)

Belief(answer, life, misled) ==
  [version |-> answer.version_id, text |-> answer.data, life |-> life,
   misled |-> misled]

Learn(p) ==
  /\ IsOpen(p)
  /\ \/ memory' = [memory EXCEPT ![p] = Belief(ReadWholeFile(p), buffer[p].life, FALSE)]
     \/ \E version \in 1..buffer[p].version :
          /\ ReplayBuffer(p, version) # None
          /\ memory' = [memory EXCEPT ![p] =
                          Belief(ReplayBuffer(p, version), buffer[p].life, FALSE)]
     \/ /\ memory[p] # None
        /\ memory' = [memory EXCEPT ![p] =
                        Belief(SemanticTokensDelta(p, memory[p]),
                               IF memory[p].version = buffer[p].version
                                 THEN memory[p].life ELSE buffer[p].life,
                               /\ memory[p].misled
                               /\ memory[p].version = buffer[p].version)]
  /\ UNCHANGED <<buffer, lives, events>>

(* A mutant: an edit for an older version is accepted too.                 *)
AcceptedLate(p, checked) ==
  /\ IsOpen(p)
  /\ checked => memory[p] # None /\ memory[p].version <= buffer[p].version

(* The version the agent gives with an edit, if it gives one, is the one   *)
(* it knows; the edit is refused if it is not the buffer's.                *)
Accepted(p, checked) ==
  /\ IsOpen(p)
  /\ checked => memory[p] # None /\ memory[p].version = buffer[p].version

(* What it then knows: its text after the edit, under the version answered. *)
Learned(p, checked, version, text, misled) ==
  memory' = [memory EXCEPT ![p] =
               IF ~checked \/ text = None THEN None
               ELSE Belief(Answer(version, text), memory[p].life,
                           memory[p].misled \/ misled)]

(* bound: an agent asks for no edit at the last version                    *)
CanEdit(p) == IsOpen(p) /\ buffer[p].version < MaxVersion[p]

WithinBounds(p, b) == b.version <= MaxVersion[p] /\ Len(b.text) <= MaxLen

(* edit_file makes a change of the place where the old text is found.      *)
FoundChange(t, old_text, new_text) ==
  LET at == Find(t, old_text)
  IN  IF at = None THEN None
      ELSE [start |-> PositionAt(t, at), end |-> PositionAt(t, at + Len(old_text)),
            text |-> new_text]

EditFound(t, old_text, new_text) ==
  IF FoundChange(t, old_text, new_text) = None THEN None
  ELSE Changed(t, FoundChange(t, old_text, new_text))

EditFile(p, old_text, new_text, checked) ==
  /\ Accepted(p, checked)
  /\ LET text == EditFound(buffer[p].text, old_text, new_text)
     IN  /\ text # None
         /\ buffer' = [buffer EXCEPT ![p] = Edited(@, text)]
         /\ WithinBounds(p, buffer'[p])
         /\ Learned(p, checked, buffer'[p].version,
                    IF checked THEN EditFound(memory[p].text, old_text, new_text)
                               ELSE None, FALSE)
  /\ UNCHANGED <<lives, events>>

(* apply_edits applies one edit after the other; one that is refused ends  *)
(* it with an error, which leaves the ones before it applied.  The version *)
(* answered is that of the last edit, or 0 for no edits: the agent is      *)
(* misled, 0 is no version.                                                *)
Applied(b, edits) ==
  LET Apply(acc, change) ==
        IF acc.refused \/ Changed(acc.b.text, change) = None
          THEN [acc EXCEPT !.refused = TRUE]
          ELSE [acc EXCEPT !.b = Edited(@, Changed(@.text, change))]
  IN  FoldLeft(Apply, [b |-> b, refused |-> FALSE], edits)

ApplyEdits(p, edits, checked) ==
  /\ Accepted(p, checked)
  /\ LET out == Applied(buffer[p], edits)
         own == Applied([buffer[p] EXCEPT !.text = memory[p].text], edits)
     IN  /\ WithinBounds(p, out.b)
         /\ buffer' = [buffer EXCEPT ![p] = out.b]
         /\ IF out.refused THEN UNCHANGED memory
            ELSE Learned(p, checked, IF edits = <<>> THEN 0 ELSE out.b.version,
                         IF checked /\ ~own.refused THEN own.b.text ELSE None,
                         edits = <<>>)
  /\ UNCHANGED <<lives, events>>

(* structural_edit answers the next version even if set_value, given the   *)
(* text the buffer holds, changes nothing: the agent is misled.            *)
StructuralEdit(p, spot, edit_type, new_name, checked) ==
  /\ Accepted(p, checked)
  /\ \E node \in NodesOn(p, spot) :
       LET text == PreviewStructuralEdit(p, node, edit_type, new_name)
           same == text = buffer[p].text
       IN  /\ text # None
           /\ buffer' = IF same THEN buffer
                        ELSE [buffer EXCEPT ![p] = Edited(@, text)]
           /\ WithinBounds(p, buffer'[p])
           /\ Learned(p, checked, buffer[p].version + 1, text, same)
  /\ UNCHANGED <<lives, events>>

----------------------------------------------------------------------------
(* Event subscriptions of the registry.  Only closes are pushed, and for   *)
(* every document: subscribe_buffer_events offers content changes and a    *)
(* path to filter by, but ignores its arguments.                           *)

(* bound: documents have been opened and closed this often                 *)
Turns == FoldFunction(+, 0, lives) + Len(closed)

Subscribe(s) ==
  /\ subscriptions[s] = None
  /\ subscriptions' = [subscriptions EXCEPT ![s] =
                         [queue |-> <<>>, received |-> <<>>, from |-> Len(closed)]]
  /\ UNCHANGED <<buffer, lives, memory, closed>>

Poll(s, limit) ==
  /\ subscriptions[s] # None
  /\ LET queue == subscriptions[s].queue
         count == Min({limit, Len(queue)})
     IN  subscriptions' = [subscriptions EXCEPT
           ![s].queue = SubSeq(@, count + 1, Len(@)),
           ![s].received = @ \o SubSeq(queue, 1, count)]
  /\ UNCHANGED <<buffer, lives, memory, closed>>

(* Mutants: a full queue takes one more event; it refuses the event.       *)
EnqueuedBeyond(queue, event) ==
  IF Len(queue) <= MaxQueue THEN Append(queue, event) ELSE Tail(Append(queue, event))

EnqueuedIfRoom(queue, event) ==
  IF Len(queue) < MaxQueue THEN Append(queue, event) ELSE queue

(* push_event drops the oldest event of a queue that is too long.          *)
Enqueued(queue, event) ==
  IF Len(queue) < MaxQueue THEN Append(queue, event) ELSE Tail(Append(queue, event))

AllEnqueued(queue, ps) == FoldLeft(Enqueued, queue, ps)

PushEvents(ps) ==
  /\ closed' = closed \o ps
  /\ Turns + Len(ps) <= MaxTurns
  /\ subscriptions' = [s \in Subscribers |->
       IF subscriptions[s] = None THEN None
       ELSE [subscriptions[s] EXCEPT !.queue = AllEnqueued(@, ps)]]

----------------------------------------------------------------------------
(* The user and the world.                                                 *)

OpenBuffer(p, text) ==
  /\ ~IsOpen(p)
  /\ lives[p] < MaxLives[p] /\ Turns < MaxTurns
  /\ lives' = [lives EXCEPT ![p] = @ + 1]
  /\ buffer' = [buffer EXCEPT ![p] = Fresh(text, lives'[p])]
  /\ UNCHANGED <<memory, events>>

(* close_document tells of a close even if the document was not open.      *)
CloseDocument(p) ==
  /\ buffer' = [buffer EXCEPT ![p] = None]
  /\ PushEvents(<<p>>)
  /\ UNCHANGED <<lives, memory>>

(* close_buffers_batch closes one document after the other and tells of    *)
(* those that are open when their turn comes.                              *)
ClosesOf(ps) ==
  LET Close(es, p) == IF IsOpen(p) /\ p \notin Range(es) THEN Append(es, p) ELSE es
  IN  FoldLeft(Close, <<>>, ps)

CloseBuffersBatch(ps) ==
  /\ buffer' = [p \in Paths |-> IF p \in Range(ps) THEN None ELSE buffer[p]]
  /\ PushEvents(ClosesOf(ps))
  /\ UNCHANGED <<lives, memory>>

UserEdit(p, change) ==
  /\ IsOpen(p)
  /\ Changed(buffer[p].text, change) # None
  /\ buffer' = [buffer EXCEPT ![p] = Edited(@, Changed(@.text, change))]
  /\ WithinBounds(p, buffer'[p])
  /\ UNCHANGED <<lives, memory, events>>

----------------------------------------------------------------------------
EditTypes == {"rename", "extract_function", "wrap_in_try", "add_async"}
EditLists == {<<>>} \union {<<e>> : e \in Edits} \union {<<e, f>> : e, f \in Edits}
Batches == {<<p>> : p \in Paths} \union {<<p, q>> : p, q \in Paths}

AgentEdit(p, checked) ==
  \/ \E old \in Queries, new \in Names : EditFile(p, old, new, checked)
  \/ \E edits \in EditLists : ApplyEdits(p, edits, checked)
  \/ \E spot \in Spots, type \in EditTypes, name \in Names :
       StructuralEdit(p, spot, type, name, checked)

AgentStep(p) ==
  \/ Learn(p)
  \/ CanEdit(p) /\ \E checked \in BOOLEAN : AgentEdit(p, checked)

UserStep(p) ==
  \/ \E text \in Contents : OpenBuffer(p, text)
  \/ CloseDocument(p)
  \/ \E change \in Edits : UserEdit(p, change)

Next ==
  \/ \E p \in Paths : AgentStep(p) \/ UserStep(p)
  \/ \E ps \in Batches : CloseBuffersBatch(ps)
  \/ \E s \in Subscribers : Subscribe(s) \/ \E limit \in 1..2 : Poll(s, limit)

Spec == Init /\ [][Next]_vars

----------------------------------------------------------------------------
(* Properties.                                                             *)

Buffer ==
  [text : Text, version : Nat \ {0},
   lineage : Seq([text : Text, version : Nat \ {0}]), life : Nat \ {0}]
Memory == [version : Nat, text : Text, life : Nat \ {0}, misled : BOOLEAN]
Subscription == [queue : Seq(Paths), received : Seq(Paths), from : Nat]

(* Every variable holds a value of its type, the queues within their cap.  *)
TypeOK ==
  /\ lives \in [Paths -> Nat]
  /\ \A p \in Paths : buffer[p] \in {None} \union Buffer
                      /\ memory[p] \in {None} \union Memory
  /\ closed \in Seq(Paths)
  /\ \A s \in Subscribers : subscriptions[s] # None =>
       /\ subscriptions[s] \in Subscription
       /\ Len(subscriptions[s].queue) <= MaxQueue

(* What the agent knows of a version is what that version is, as long as   *)
(* the lineage holds it: so an edit it makes under that version, if it is  *)
(* accepted, changes the text the agent took it to change, whatever the    *)
(* user did in between (registry.rs, apply_edit_optimistic).  Not so once  *)
(* the document was closed and opened again, or after the answer to a      *)
(* structural edit that changed nothing or to a list of no edits.          *)
BeliefsHold ==
  \A p \in Open :
    memory[p] # None /\ memory[p].life = buffer[p].life /\ ~memory[p].misled =>
      LET version == ReplayBuffer(p, memory[p].version)
      IN  version # None => version.data = memory[p].text

(* What a tool says has changed since a version the agent knows leads from *)
(* the lines of the text it knows to the lines of the buffer's, and the    *)
(* counts it gives add up (tools.rs, compare_buffer_versions).  The lines  *)
(* are without their ends: a last newline or a carriage return that came   *)
(* or went is told as no change.                                           *)
DiffsExplain ==
  \A p \in Open :
    memory[p] # None /\ memory[p].life = buffer[p].life /\ ~memory[p].misled =>
      LET diff == CompareBufferVersions(p, memory[p].version, buffer[p].version)
      IN  diff # None => Explains(diff.data, memory[p].text, buffer[p].text)

(* The matches of a search are where the answer says: the query stands at  *)
(* the offset, in the search that ignores case up to case, and the buffer  *)
(* takes the line and column, if an edit names them, to that offset        *)
(* (tools.rs, find_text_matches, and text_buffer.rs, position_to_offset).  *)
MatchesInPlace ==
  \A p \in Open, query \in Queries, case_sensitive \in BOOLEAN :
    \A m \in SearchTextInBuffers(query, case_sensitive)[p].data :
      IsInPlace(buffer[p].text, query, case_sensitive, m)

(* Whatever part of the text an agent asks to have replaced, edit_file     *)
(* replaces where it is found first and nothing else, though it goes from  *)
(* the offset to positions and the buffer from positions to offsets        *)
(* (tools.rs, offset_to_position, text_buffer.rs, position_to_offset).     *)
FoundTextReplaced ==
  \A p \in Open, new \in Names :
    LET t == buffer[p].text
    IN  \A from, to \in 1..Len(t) :
          LET old == SubSeq(t, from, to)
              at  == Find(t, old)
          IN  EditFound(t, old, new) =
                SubSeq(t, 1, at) \o new \o SubSeq(t, at + Len(old) + 1, Len(t))

(* Tools that answer one question in different ways give one answer: a     *)
(* file read in pieces, by lines or by bytes, is the file; the lines       *)
(* list_open_buffers counts, which are str::lines', are all that read_file *)
(* reads by the line index; the lines list_symbols names are those that    *)
(* read_file reads a declaration on, and query_symbols names no other;     *)
(* inspect_contradictions tells of a mismatch with the disk just if        *)
(* inspect_buffer_drift tells of a drift, whatever the parser says.        *)
ToolsAgree ==
  \A p \in Open :
    LET t == GetBufferSnapshotProof(p).data
        Line(i) == ReadFile(p, i - 1, i).data
    IN
    /\ \A line \in 0..Len(t) + 1 :
         ReadFile(p, 0, line).data \o ReadFile(p, line, Len(t) + 1).data = t
    /\ \A offset \in 0..Len(t) :
         GetBufferByteRange(p, 0, offset).data
           \o GetBufferByteRange(p, offset, Len(t) + 1).data = t
    /\ ReadFile(p, 0, ListOpenBuffers[p].data.line_count).data = t
    /\ {s.line : s \in ListSymbols(t)} = {i \in 1..Len(t) + 1 : Declares(Line(i))}
    /\ \A query \in Queries : \A s \in QuerySymbolsInBuffers(query)[p].data :
         Declares(Line(s.line))
    /\ \A file \in Contents, has_error \in BOOLEAN :
         InspectBufferDrift(p, file).data.has_drift
           <=> "buffer_disk_mismatch" \in InspectContradictions(p, file, has_error).data

(* What waits for a subscriber are the latest closes, and nothing is       *)
(* missing for one that never had more than the cap to wait for            *)
(* (registry.rs, push_event and poll_events; main.rs pushes closes only).  *)
QueueIsRecent ==
  \A s \in Subscribers : subscriptions[s] # None =>
    LET sub   == subscriptions[s]
        since == SubSeq(closed, sub.from + 1, Len(closed))
    IN  /\ IsSuffix(sub.queue, since)
        /\ Len(since) <= MaxQueue => sub.received \o sub.queue = since
==============================================================================
