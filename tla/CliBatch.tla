------------------------------ MODULE CliBatch ------------------------------
(***************************************************************************)
(* The command line batch: swift-cli commands over one DuckDB file, with    *)
(* swift-duckdb as store and swift-db making the rows.                     *)
(*                                                                         *)
(* Load fills the inbound table from files, Migrate brings the tables up   *)
(* to the schema catalog, Run turns a batch of inbound messages into rows  *)
(* and marks it processed, Export and Render write files from the rows.    *)
(* DuckDB lets one process open the file at a time, so commands do not     *)
(* overlap; each may fail or be killed between any two statements.         *)
(*                                                                         *)
(* A row of the inbound table is known by its position.  What Run makes of *)
(* it is counted by table: a table maps positions to how often the row's   *)
(* output is there.  Values are abstracted to whether they convert to the  *)
(* columns' types; a schema stands for its tables and their columns.       *)
(***************************************************************************)
EXTENDS Naturals, Sequences, FiniteSets

CONSTANTS
  Kind,          \* message types
  Described,     \* those a schema exists for
  File,          \* input files
  Contents,      \* the messages split from a file, in order
  StemOf,        \* the stem of a file's name, as its rank in the order of names
  OutputStem,    \* what output_stem makes of a stem: a rank again
  BatchSize,     \* runtime.batch_size or --limit
  MaxRows,       \* bound: rows ever loaded
  MaxWrites      \* bound: how often one row is written before Run is not tried again

Message == [kind : Kind, converts : BOOLEAN]
Row     == 1..MaxRows

ASSUME FileAssumption ==
  /\ Described \subseteq Kind
  /\ Contents \in [File -> Seq(Message)]
  /\ StemOf \in [File -> Nat] /\ OutputStem \in [{StemOf[f] : f \in File} -> Nat]
ASSUME BoundAssumption ==
  BatchSize \in Nat \ {0} /\ MaxRows \in Nat /\ MaxWrites \in Nat

VARIABLES
  config,     \* fail_on_missing_schema, and whether there is a processed column
  inbound,    \* the inbound table
  catalog,    \* the schemas on disk
  tables,     \* the layout in the database: "swift" for the four fixed tables
  sink,       \* committed output, by table
  tx,         \* output as the open transaction sees it
  files,      \* rendered files by name: of which id, and whether of its present rows
  exports,    \* the tables whose exported file shows the present rows
  pc, todo, batch,   \* the running command and its locals
  redone      \* history: how often a row was written and then not marked

db   == <<inbound, tables, sink>>
vars == <<config, inbound, catalog, tables, sink, tx, files, exports, pc, todo, batch, redone>>

Table == {"raw", "fields", "errors", "normalized"}
NextTable ==
  [raw |-> "fields", fields |-> "errors", errors |-> "normalized", normalized |-> "commit"]
Nothing == [t \in Table |-> [r \in Row |-> 0]]

Loaded == 1..Len(inbound)

Render  == {"render_all", "render_one"}
Command == {"migrate", "run"} \cup Render

At(place) == <<place, "-">>

Init ==
  /\ config \in [strict : BOOLEAN, marks : BOOLEAN]
  /\ inbound = <<>>
  /\ catalog = {}
  /\ tables = {}
  /\ sink = Nothing /\ tx = Nothing
  /\ files = [n \in {} |-> 0] /\ exports = {}
  /\ pc = At("idle") /\ todo = <<>> /\ batch = {}
  /\ redone = [r \in Row |-> 0]

(* A command ends, well or not: what it held in memory is gone, and an     *)
(* open transaction with it.                                               *)
Ends == pc' = At("idle") /\ todo' = <<>> /\ batch' = {} /\ tx' = Nothing

-----------------------------------------------------------------------------
(* Load: every insert commits on its own, and nothing keeps ids apart. *)

StartLoad(f) ==
  /\ pc = At("idle")
  /\ Len(inbound) + Len(Contents[f]) <= MaxRows
  /\ pc' = At("load")
  /\ todo' = [n \in DOMAIN Contents[f] |->
                [id |-> <<StemOf[f], n>>, message |-> Contents[f][n], processed |-> FALSE]]
  /\ UNCHANGED <<config, db, catalog, tx, files, exports, batch, redone>>

InsertInbound ==
  /\ pc = At("load") /\ todo # <<>>
  /\ inbound' = Append(inbound, Head(todo))
  /\ todo' = Tail(todo)
  /\ UNCHANGED <<config, catalog, tables, sink, tx, files, exports, pc, batch, redone>>

EndLoad ==
  /\ pc = At("load") /\ todo = <<>>
  /\ Ends
  /\ UNCHANGED <<config, db, catalog, files, exports, redone>>

-----------------------------------------------------------------------------
(* Migrate, and the same at the start of Run and Render *)

Layout == {"swift"} \cup catalog

(* A command works with the catalog it loaded, so a schema that is added   *)
(* meanwhile is as good as added afterwards.                               *)
AddSchema(k) ==
  /\ pc = At("idle") /\ k \notin catalog
  /\ catalog' = catalog \cup {k}
  /\ UNCHANGED <<config, db, tx, files, exports, pc, todo, batch, redone>>

StartLayout(command) ==
  /\ pc = At("idle")
  /\ command = "run" => \A r \in Row : sink["raw"][r] < MaxWrites
  /\ pc' = <<"layout", command>>
  /\ UNCHANGED <<config, db, catalog, tx, files, exports, todo, batch, redone>>

(* CREATE TABLE IF NOT EXISTS and ALTER TABLE commit one by one. *)
ApplyTable(t) ==
  /\ \E command \in Command : pc = <<"layout", command>>
  /\ t \in Layout \ tables
  /\ tables' = tables \cup {t}
  /\ UNCHANGED <<config, inbound, catalog, sink, tx, files, exports, pc, todo, batch, redone>>

LayoutApplied(command) ==
  /\ pc = <<"layout", command>> /\ Layout \subseteq tables
  /\ IF command = "migrate" THEN Ends
     ELSE pc' = <<"read", command>> /\ UNCHANGED <<todo, batch, tx>>
  /\ UNCHANGED <<config, db, catalog, files, exports, redone>>

-----------------------------------------------------------------------------
(* Run *)

Before(i, j) == i[1] < j[1] \/ (i[1] = j[1] /\ i[2] < j[2])

Waiting == {r \in Loaded : config.marks => ~inbound[r].processed}

AtMostBatchSize(n) == IF n < BatchSize THEN n ELSE BatchSize

(* ORDER BY id LIMIT; rows with equal ids come in any order. *)
FirstRows ==
  {S \in SUBSET Waiting :
     /\ Cardinality(S) = AtMostBatchSize(Cardinality(Waiting))
     /\ \A r \in S, q \in Waiting \ S : ~Before(inbound[q].id, inbound[r].id)}

HasSchema(r) == inbound[r].message.kind \in catalog

ReadBatch ==
  /\ pc = <<"read", "run">>
  /\ \E S \in FirstRows :
       /\ config.strict => \A r \in S : HasSchema(r)
       /\ batch' = S
  /\ pc' = <<"insert", "raw">> /\ tx' = sink
  /\ UNCHANGED <<config, db, catalog, files, exports, todo, redone>>

(* fail_on_missing_schema: one unknown type stops the batch. *)
RefuseBatch ==
  /\ pc = <<"read", "run">>
  /\ config.strict /\ \E S \in FirstRows : \E r \in S : ~HasSchema(r)
  /\ Ends
  /\ UNCHANGED <<config, db, catalog, files, exports, redone>>

(* The tables a message has output in: with a schema its rows, without one *)
(* an error instead (materialize_message and its fallback).                *)
OutputOf(r) ==
  {"raw", "fields"} \cup (IF HasSchema(r) THEN {"normalized"} ELSE {"errors"})

(* A value that does not convert fails the INSERT, and the batch with it. *)
InsertFails(t) ==
  t = "normalized" /\ \E r \in batch : HasSchema(r) /\ ~inbound[r].message.converts

Adds(t, r) == IF r \in batch /\ t \in OutputOf(r) THEN 1 ELSE 0

InsertOutsideTransaction(t) ==   \* mutant: no transaction around the inserts
  /\ pc = <<"insert", t>> /\ ~InsertFails(t)
  /\ tx' = [tx EXCEPT ![t] = [r \in Row |-> @[r] + Adds(t, r)]]
  /\ sink' = tx'
  /\ pc' = <<"insert", NextTable[t]>>
  /\ UNCHANGED <<config, inbound, tables, catalog, files, exports, todo, batch, redone>>

Insert(t) ==
  /\ pc = <<"insert", t>> /\ ~InsertFails(t)
  /\ tx' = [tx EXCEPT ![t] = [r \in Row |-> @[r] + Adds(t, r)]]
  /\ pc' = <<"insert", NextTable[t]>>
  /\ UNCHANGED <<config, db, catalog, files, exports, todo, batch, redone>>

InsertError(t) ==
  /\ pc = <<"insert", t>> /\ InsertFails(t)
  /\ Ends
  /\ UNCHANGED <<config, db, catalog, files, exports, redone>>

(* Files made before show older rows from now on. *)
Commit ==
  /\ pc = <<"insert", "commit">>
  /\ sink' = tx
  /\ files' = [n \in DOMAIN files |->
       [files[n] EXCEPT !.current = @ /\ \A r \in batch : inbound[r].id # files[n].id]]
  /\ exports' = IF batch = {} THEN exports ELSE {}
  /\ pc' = At("mark")
  /\ UNCHANGED <<config, inbound, tables, catalog, tx, todo, batch, redone>>

MarkAllRead ==   \* mutant: everything that waits is marked, not only what was read
  /\ pc = At("mark")
  /\ inbound' = [r \in Loaded |-> [inbound[r] EXCEPT !.processed = @ \/ (config.marks /\ r \in Waiting)]]
  /\ Ends
  /\ UNCHANGED <<config, tables, sink, catalog, files, exports, redone>>

MarkTheRest ==   \* mutant: the update skips the last row of the batch
  /\ pc = At("mark")
  /\ inbound' = [r \in Loaded |->
       [inbound[r] EXCEPT !.processed = @ \/ (config.marks /\ \E q \in batch :
            inbound[q].id = inbound[r].id /\ \E p \in batch : p > q)]]
  /\ Ends
  /\ UNCHANGED <<config, tables, sink, catalog, files, exports, redone>>

(* One transaction; the update goes by id. *)
MarkProcessed ==
  /\ pc = At("mark")
  /\ inbound' = [r \in Loaded |->
       [inbound[r] EXCEPT !.processed =
          @ \/ (config.marks /\ \E q \in batch : inbound[q].id = inbound[r].id)]]
  /\ Ends
  /\ UNCHANGED <<config, tables, sink, catalog, files, exports, redone>>

-----------------------------------------------------------------------------
(* Export: COPY writes one file after the other, in place. *)

StartExport ==
  /\ pc = At("idle")
  /\ pc' = At("export") /\ todo' = <<>>
  /\ UNCHANGED <<config, db, catalog, tx, files, exports, batch, redone>>

(* todo holds the tables done. *)
Remaining == Layout \ {todo[i] : i \in DOMAIN todo}

(* A table that was never made is an error. *)
ExportTable(t) ==
  /\ pc = At("export")
  /\ t \in Remaining \cap tables
  /\ exports' = exports \cup {t}
  /\ todo' = Append(todo, t)
  /\ UNCHANGED <<config, db, catalog, tx, files, pc, batch, redone>>

EndExport ==
  /\ pc = At("export") /\ Remaining = {}
  /\ Ends
  /\ UNCHANGED <<config, db, catalog, files, exports, redone>>

-----------------------------------------------------------------------------
(* Render *)

(* SELECT DISTINCT message_id, message_type FROM swift_raw_messages *)
Headers ==
  {[id |-> inbound[r].id, kind |-> inbound[r].message.kind] : r \in {q \in Loaded : sink["raw"][q] > 0}}

Ambiguous(id) == Cardinality({h \in Headers : h.id = id}) > 1

Name(id) == <<OutputStem[id[1]], id[2]>>

Renders(h) == h.kind \in catalog

Collide(H) == \E h, g \in H : h.id # g.id /\ Name(h.id) = Name(g.id)

RenderAllBlindly ==   \* mutant: output paths are not compared
  /\ pc = <<"read", "render_all">>
  /\ \A h \in Headers : ~Ambiguous(h.id) /\ Renders(h)
  /\ pc' = <<"write", pc[2]>>
  /\ todo' = <<>> /\ batch' = {r \in Loaded : sink["raw"][r] > 0}
  /\ UNCHANGED <<config, db, catalog, tx, files, exports, redone>>

(* --all renders everything in memory before it writes the first file. *)
RenderAll ==
  /\ pc = <<"read", "render_all">>
  /\ \A h \in Headers : ~Ambiguous(h.id) /\ Renders(h)
  /\ ~Collide(Headers)
  /\ pc' = <<"write", pc[2]>>
  /\ todo' = <<>> /\ batch' = {r \in Loaded : sink["raw"][r] > 0}
  /\ UNCHANGED <<config, db, catalog, tx, files, exports, redone>>

(* --message-id: an ambiguous type is an error unless one is given. *)
RenderOne(h) ==
  /\ pc = <<"read", "render_one">>
  /\ h \in Headers /\ Renders(h)
  /\ pc' = <<"write", pc[2]>>
  /\ todo' = <<>>
  /\ batch' = {r \in Loaded : sink["raw"][r] > 0 /\ inbound[r].id = h.id}
  /\ UNCHANGED <<config, db, catalog, tx, files, exports, redone>>

(* In the order of ids; write_file_atomic renames a temporary file, or     *)
(* nothing happens.                                                        *)
WriteFile(id) ==
  /\ \E c \in Render : pc = <<"write", c>>
  /\ \E r \in batch : inbound[r].id = id
  /\ \A r \in batch : ~Before(inbound[r].id, id)
  /\ files' = [n \in DOMAIN files \cup {Name(id)} |->
                 IF n = Name(id) THEN [id |-> id, current |-> TRUE] ELSE files[n]]
  /\ batch' = {r \in batch : inbound[r].id # id}
  /\ UNCHANGED <<config, db, catalog, tx, exports, pc, todo, redone>>

EndRender ==
  /\ \E c \in Render : pc = <<"write", c>>
  /\ batch = {}
  /\ Ends
  /\ UNCHANGED <<config, db, catalog, files, exports, redone>>

-----------------------------------------------------------------------------
(* An error or a signal, anywhere. *)
Stop ==
  /\ pc # At("idle")
  /\ redone' = [r \in Row |-> redone[r] + (IF pc = At("mark") /\ r \in batch THEN 1 ELSE 0)]
  /\ Ends
  /\ UNCHANGED <<config, db, catalog, files, exports>>

Next ==
  \/ \E f \in File : StartLoad(f)
  \/ InsertInbound \/ EndLoad
  \/ \E k \in Described : AddSchema(k)
  \/ \E c \in Command : StartLayout(c) \/ LayoutApplied(c)
  \/ \E t \in {"swift"} \cup Described : ApplyTable(t) \/ ExportTable(t)
  \/ ReadBatch \/ RefuseBatch
  \/ \E t \in Table : Insert(t) \/ InsertError(t)
  \/ Commit \/ MarkProcessed
  \/ StartExport \/ EndExport
  \/ RenderAll \/ EndRender
  \/ \E h \in Headers : RenderOne(h)
  \/ \E id \in {inbound[r].id : r \in batch} : WriteFile(id)
  \/ Stop

Spec == Init /\ [][Next]_vars

-----------------------------------------------------------------------------
IdsAreUnique == \A r, q \in Loaded : inbound[r].id = inbound[q].id => r = q

(* The four tables agree: a message is in all of those it has output in or *)
(* in none, whatever interrupted the batch (write_batch is one             *)
(* transaction).                                                           *)
TablesAgree ==
  \A r \in Row : /\ sink["fields"][r] = sink["raw"][r]
                 /\ sink["errors"][r] + sink["normalized"][r] = sink["raw"][r]

(* A processed message is in the tables; if ids repeat, at least one       *)
(* message of its id is.                                                   *)
NothingIsSkipped ==
  \A r \in Loaded : inbound[r].processed =>
    \E q \in Loaded : inbound[q].id = inbound[r].id /\ sink["raw"][q] > 0

(* Where ids are unique a message is written once, and once more for every *)
(* time its batch was interrupted between the commit and the mark.         *)
WrittenOncePerInterruption ==
  config.marks /\ IdsAreUnique =>
    \A r \in Loaded :
      sink["raw"][r] = redone[r]
        + (IF inbound[r].processed \/ (pc = At("mark") /\ r \in batch) THEN 1 ELSE 0)

(* When Render --all ends well every message in the tables has a file of   *)
(* its own with its present rows; when Export does, every table of the     *)
(* layout has.                                                             *)
FilesShowTheTables ==
  [][/\ EndRender /\ pc[2] = "render_all" =>
          \A h \in Headers : /\ Name(h.id) \in DOMAIN files
                             /\ files[Name(h.id)] = [id |-> h.id, current |-> TRUE]
     /\ pc = At("export") /\ pc' = At("idle") /\ ~Stop => Layout \subseteq exports]_vars
=============================================================================
