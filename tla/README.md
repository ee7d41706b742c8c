# A verification of ofdb

TLA+ models of ofdb (this repository): local-first SQL databases whose rows are
Automerge documents and which synchronize in sessions between pairs of replicas.
The models are checked by TLC on small instances; the safety of replication, of
sessions, of both kernels, of index records, of statements, of the in-memory tree
and of the tree of documents is proved with TLAPS for instances of any size.

Paths below are relative to the repository; `codec.rs` is
`crates/engine-automerge/src/codec.rs`, `session.rs` is
`crates/sync/src/session.rs`, `in_memory_btree.rs` is in `crates/btree/src`,
`database.rs` is `src/database.rs`, and other files named alone are in `crates/engine/src`.

## The system

A *replica* is an `Engine` over a *kernel* (transactional storage of byte maps)
and a *row codec*. Everything an engine does is one kernel transaction per call;
a session makes many such calls.

| Component | State | Operations | What makes it correct |
|---|---|---|---|
| Kernel, in memory (`in_memory.rs`) | tables, revision; a clone of both per transaction | begin, table and entry operations, commit, rollback | commits are serial; one that did not see an earlier commit is refused |
| Kernel, redb (`crates/engine-redb`, `crates/btree-redb`) | a redb file, one open write transaction | the same | the same, and a crash loses only the open transaction |
| Row codec (`codec.rs`, `crates/btree-automerge`) | per row: snapshot, incremental and metadata entries | encode, merge, delete and resolve a row; export and merge states, metadata and changes | rows always reconstruct; no change is lost; deletions and conflicts last |
| Catalog (`schema.rs`) | entries of tables, columns, indexes and index fields, with deletion marks | create, drop, add column; import of a peer's entries | names resolve to what statements declared |
| Index records (`index.rs`, `change.rs`) | per index: keys to row UUIDs | update by row, rebuild by table, lookup | records are those of the visible rows; unique keys are enforced locally and canonical otherwise |
| Executor (`executor.rs`) | none | DDL, INSERT, UPDATE, DELETE, SELECT, resolution | a batch of statements is applied whole or not at all; statements mean what SQL says |
| Sync session (`session.rs`) | per endpoint: position, peer's manifest and inventories, what to send, what to request | hello, manifest, inventory, states, changes, requests, recovery, abort | it ends; it delivers; repeated, it makes replicas agree |
| Ordered encoding (`row_table.rs`) | none | encode and decode keys | the order of bytes is the order of rows |
| B-trees (`crates/btree`, `crates/btree-automerge`) | maps with patches; documents with compaction | transactions, ranges, compaction | patches read as the map they will become; documents read as the calls made them |
| Facade (`database.rs`) | the kernel chosen by the URI | opening, dispatch of every call | all calls reach one engine |
| SQL translator (`crates/sql-translator`) | none | a parsed statement to the query model | nothing is lost on the way |
| Values, macros, proto, wasm, examples | none of their own | conversion | outside this verification, but for the order of values |

Components meet in three ways. The executor and the session *call* the codec and
the index code inside kernel transactions. Two sessions, one per replica,
exchange *messages* over a FIFO transport that the application provides. And
statements, sessions with different peers and other tasks *share* a replica's
kernel, so that between any two transactions of a session the replica may change.

What is hard here: the several stored forms of one row, written in any order by
three kinds of writers; stale, repeated and reordered deliveries; deletions
against changes; sessions that read a moving replica in many transactions;
sessions cut at any point; derived records under statements that fail half way;
and transactions that overlap. `PROJECT.json` lists the hazards at their lines.

## Modules

| Module | Models | Role |
|---|---|---|
| `RowStore` | the stored form of a row and the codec's operations on it | pure operators, used by the next two |
| `RowHistory` | nothing in the code: what replication promises | abstract specification |
| `Replication` | replicas that execute statements and accept any exported unit or batch at any time | implements `RowHistory` |
| `Session` | sessions between replicas, message by message | implements `Replication` |
| `IndexRecords` | catalog, rows and index records of one engine | |
| `SerialStore` | nothing in the code: what the engine expects of a kernel | abstract specification |
| `ByteTables` | tables of byte entries and their operations | pure operators, used by both kernels |
| `InMemoryKernel` | the in-memory kernel under concurrent clients | implements `SerialStore` |
| `RedbKernel` | the redb kernel under concurrent clients and crashes | implements `SerialStore` |
| `Database` | a database opened over one of the two | composes them |
| `Expressions` | values, their order, predicates; the logic of SQL as a reference | pure operators, used by the next one |
| `Statements` | SQL statements on one table, from the translator to the rows | |
| `PatchTree` | the in-memory B-tree: patches, its lock, ranges | |
| `DocumentTree` | Automerge documents in a tree of entries, and compaction | |
| `KeyOrder` | the encodings of keys against the orders of rows and of entries | |
| `Replication_proofs`, `Session_proofs`, `Delivery_proofs`, `Database_proofs`, `Statements_proofs`, `Trees_proofs`, `DocumentTree_proofs`, `IndexRecords_proofs` | theorems | |
| `MC...` | instances for TLC; `MCIndexes`, `MCEngine` and `MCTrees` hold several instances, of which a behaviour has one (`scope`) | |

Operators whose comment begins with "Fault" are variants with a plausible bug of
the definition they precede. Nothing uses them but the checks that each property
fails when its definition is replaced by its fault.

### RowStore

A document is the set of the changes it contains. A change is an opaque hash; the
log gives its row, the changes its author had seen (`past`) and the columns it
writes. A stored row is `[base, incs, deleted]`: the changes of its snapshot
entry, the keys of its incremental entries, and its metadata mark. What the
operators abstract is Automerge: `Loaded` (a change whose past is missing stays
queued), `Candidates` (concurrent writes of a column) and `Payload` (what an
incremental entry contains). Whether `save_incremental` on a loaded document
writes one change or the history is decided by that library, so `FullPayload`
is a constant; both values are checked (in `replication` and `session_faults`)
and the proofs hold for both. That two replicas with the
same changes save the same bytes, on which digests rely, is assumed of it too.

`MergeRow` is a local write (`merge_row`), `ApplyUnit` a received unit
(`apply_sync_state_for`: metadata, then state), `ApplyOutcome` the branches of
`apply_change`: known under its key, no document, gained by the document or not.

### Replication

Variables: `store` (per replica and row) and `log`. `Insert`, `Update`,
`Resolve` and `Delete` are statements; `ApplyState` accepts any complete set of
the row's changes, or a deletion some replica made; `ApplyChanges` accepts any
batch that can be applied. This is more than sessions deliver, so its properties
hold of every protocol that only sends what replicas export.

### Session

Each endpoint of a link is one call of `synchronize`. Its actions are the
receipts of a message with all the calls up to the next receipt that do not read
the engine, and each reading of the engine in a transaction of its own is a step:
`ReceiveManifest` reads the catalog, `ReadRows` the rows, `ReadInventory` the
inventory of one row (`inventories_for`), `ReadMissing` that of one row again
(`build_outbound`), `ExportChange` one change, which may have become part of the
snapshot since and is then not found, `ReadSnapshot` one requested row
(`recovery_snapshots`). The rows come in any order, more than the code has. Taken
as one step though the code uses a transaction per row are only the rows of a
manifest (`ReceiveHello`) and those of an export (`ReadRows`). When nothing is left
to read, `ReadOn` goes on in the same step: the initiator sends what it has read,
the responder keeps it for its turn (`outbound`).

A received state unit is applied per step (`ReceiveUnit`), a batch of changes is
one (`ReceiveChanges`). An endpoint that fails drops what was on its way to it; a
peer that ended receives nothing. `Closes` says whether callers close the transport
when a session returns (then the peer sees it end); without it a peer may only
abort. `Fail` is an interrupted transport, a kernel conflict or a stopped process; of
a conflict while something is applied the peer is told (`Abort`). `Statement` and
`Ddl` run at every replica between all of these.
`version` is the protocol version each replica runs, one of the `Deployments` the
instance allows; a hello of another version ends its receiver with no answer.

Hashes are numbers and a new change takes any free one, so that the order in
which `build_outbound` sorts changes need not be causal.

An endpoint keeps what it exported (`units`) and which changes are among what it
sends (`changes`) until its session ends. The code forgets both once they are sent;
no action reads them after that, and with them `Due` says what a session owes its
peer.

Left out: frames that do not decode, digests that do not match, and counters.
Tables have one catalog value; columns, indexes and index fields travel in the
same way and are the subject of `IndexRecords`.

### IndexRecords

One variable, the committed database. A transaction is an operator from a
database to the set of those it may commit, empty when it fails: so a statement
that fails on its last row leaves no trace by construction of the *kernel*, and
what is checked is that a statement that succeeds maintained every record.
`UpdateRecords` is `update_row` for all the rows a statement or a rebuild goes
through, `RebuildTable` is `rebuild_table`, called by the same operators as in the
code. The code goes row by row; as each row removes and adds records that end with
its own UUID, what the rows before it left is `Moved` of those rows, and a row
clashes (`RowClashes`) with that. `Merge` is a peer's row, without a check of
uniqueness; `Import` (when `PeerCatalogs`) stores one catalog entry as it came.

### InMemoryKernel, RedbKernel and Database

In memory, clients begin, operate on their clone and commit, refused when the
revision has moved. `began` is a history variable: the tables a transaction
cloned.

Over redb a client waits for the one write transaction (`Request`, `Admit`), and
the order in which waiting clients get it is any. redb itself is taken at its
word: a write transaction sees its own changes, commits them as one, and leaves
the last commit when the process stops (`Crash`). What the repository adds and
the model follows is which calls open tables (opening creates, so `get_bytes` and
`scan_bytes` create too, where the in-memory kernel reports an error), and the
handles of single tables, whose own commit and rollback do nothing.

`Database` chooses a kernel when it is opened; both are checked in one instance.

### Expressions and Statements

`IndexRecords` has one statement at a time on rows that are functions of columns.
In the code, a row is a list of values, and two lists of columns say which value
is which: the executor's schema and the row codec's columns, each made from the
table's field entries when it is needed. `Statements` keeps this: `SchemaColumns`
and `CodecColumns`, `Decode`, `Encode`, `Padded` (`materialize_defaults`) and the
projection and predicates on top. Field entries come from CREATE TABLE, ALTER TABLE
and peers, so that positions may be equal and rows may lack columns.

A statement is a record of what SQL says; `Translate` is what of it reaches the
executor. `Refused` are the clauses that fail the statement and `Dropped` those
that a parser accepts and the translator forgets. A statement's outcomes are a set,
empty when it fails: a failed statement changes nothing, which is the kernel's
promise. `Evaluate` is the executor's evaluation, which knows true and false, and
`Truth` the three-valued logic of SQL to compare it with. An expression is an
operand, a condition on operands, or AND or OR of those (a bound): `Node` is
`evaluate_expr` for one node and what its operands are, and `Evaluate` goes down
these three levels.

Left out: names qualified by a table, joins and aggregates that only the query
model can express, CREATE TABLE IF NOT EXISTS of a table that exists (no change),
and checks of types, which the executor does not make. An UPDATE that assigns what
a row has already may fail, since Automerge may report no change; both outcomes
are covered, a failure being no change. `UPDATE ... WHERE c = NULL` matches nulls
where SELECT does not (`matching_rows` compares values, `compare_expr` does not
compare nulls); `ChangesExactly` speaks of the other values. Peers' rows arrive
after the fields of their table, as the session sends them.

### PatchTree

A transaction of `InMemoryBTree` is a patch: for each written key a value or
`Deleted`. Every call takes the lock of the map anew, so a step of the model is a
call, and commits of others come between. `remove_range` reads its keys in one
step and removes them in further ones, as its stream is read; a `range` of the
tree itself holds the read lock from its first entry to its last. `gone` is a
history variable: the keys a transaction found and removed.

The lock is `async_lock`'s: many readers or one writer, one task at a time in
`write()`, and a task that waits there keeps new readers out. A task that has a
range of the tree open is assumed to make no other call: one that commits there
waits for itself, and nothing in the code prevents it.

### DocumentTree

The tree of documents is a byte tree of entries: each document has snapshot and
incremental entries, named by a hash of the heads it had, and is loaded from all
of them. The model names an entry by the changes the document had, and keeps for
every transaction what it `written` and `erased` over the committed entries.
Underneath is the in-memory tree (patches that overlap and commit in any order) or
redb's (one transaction at a time); a call of the document tree is several of the
byte tree's, but nothing of the caller's comes between two of them other than
commits of other tasks, which every next call sees.

A transaction is begun and ended by `DocBegin`, `DocCommit` and `DocRollback`; its
calls are `Insert` (over a document that is there it merges, since the entries
stay), `InsertAgain`, `Update` (of a document that is missing it writes an
incremental entry nothing can load), `DocRemove`, `RemoveRange`, and a compaction:
`ReadToCompact` and `Compact`, the reading of the document and `run_compaction`. That
function is public; `tx_get_document` calls it when the tree's policy says so and its
`allow_compaction` is set, which its callers (`automerge_tree.rs:53`, `util.rs:96`)
never do. It keeps the document if it is as it was read and not one snapshot yet (`Compactable`).
Otherwise it may lose: the snapshot it writes is then one of the keys it removes
after, or changes made since are removed unread. The model has these outcomes, and
no property forbids them: `DocumentsFaithful` says that no other documents than these
(`astray`) and those that two transactions wrote at a time (`behind`, `mixed`) come
to harm.

The numbers of changes nobody has are used again, so that two changes do for any
number of calls. Metadata entries are the row codec's and in `RowStore`. The
repository's plan for its key-value store asks for a proof that compaction and
reconstruction agree (`docs/kv-plan.md`, lines 38 and 66); `CompactionKeeps` is
the part of it this code can be held to.

### KeyOrder

A table keeps entries in the order of the bytes of their keys. `EncodeKey` is that
of index and catalog rows (`encode_key` in `row_table.rs`), `EncodeOrdered` that of
document entries (`document_change_key.rs`), both with their decoders. Values and
keys are chosen for what encodings get wrong: zeros at each end and before 255,
prefixes, the ends of the numbers, the order of types. A UUID and a number have
two bytes in the run where the code has 16 and 8: the encoding treats their bytes
alike, and the theorem is of any width. The serialized row behind the values is left
out; `decode_key` is held to find where it begins. A
float is its bits, in which order `Value::cmp` has them too; the run shows that
the two agree, not that negative floats sort below positive ones, which they do
not.

## Runs

Passing, with the bounds and why they are enough:

| Run | Instance | Shows |
|---|---|---|
| `replication` | 2 replicas, 2 rows, 4 changes, 2 columns, one change per payload | all of `Replication`; four changes make a concurrent pair, its merge and an update on it; two rows make batches of several rows |
| `session` | one link, opened again for ever, 1 row, 3 changes, frames of 2 units, 1 DDL statement, transport left open | sessions end, deliver, and converge when they stop failing, after one CREATE TABLE; three changes are a snapshot and two incremental entries, in either order of hashes, and a frame that is not full |
| `session_faults` | sessions of one link, 2 rows, 2 changes, frames of 2 units, 2 DDL statements, 1 failure, equal and different versions, transport closed by callers, payloads with history; and, once one of these has brought a row to the other replica, a session of each of two more links at the same time | failure at each step; a batch with changes of two rows; a table dropped during a session; an inventory that another session has made stale, and changes it has folded into the snapshot before they are exported; no two ends wait for each other |
| `indexes` | three scopes: 3 rows, 2 columns, one value and null, 1 index; 2 tables, 2 rows, 1 column, 2 values; 1 row and catalog entries from peers, in a database of its own | composite keys, nulls, defaults, three contenders; an index moved between tables, updates over several rows; rebuilding after any import |
| `engine` | three scopes: 3 clients, 1 table, 1 key, 2 values, 3 commits, either kernel; documents with 2 tasks, 1 document, 2 changes, 2 calls a transaction, over both trees; 2 rows, 3 columns of which one is the key, first or last, one literal, null, defaults, a column added here and by a peer at an occupied position | in memory, a transaction overtaken twice and equal tables at different revisions; in a file, clients that wait, tables made by reads, crashes. Two transactions on one document, compaction before and after a commit of the other. At every database that statements and a peer can reach, that all statements of the small grammar agree: predicates with SQL's logic, INSERT with SELECT, UPDATE and DELETE with SELECT; and that no change of the schema moves values between columns |
| `trees` | two scopes: the in-memory tree with 2 tasks, 2 keys, 2 values; pairs of keys of up to 2 columns | two patches over one map with each commit between any two calls, removal by key and by range, a commit among readers; zeros, prefixes and signs in keys |

The bounds: `Change` bounds the changes ever authored, `MaxOpen` the sessions at a
time, `MaxFailures` the endpoints that fail, `MaxDdl` the DDL statements,
`MaxRevision` the commits, `Batch` is `max_units_per_frame`, `Defaults` and
`Definitions` the declared defaults and index column lists; `Literal` the values
statements write, `Schemas`, `Additions` and `PeerFields` the columns tables are
created with, given later, and received; `MaxCalls` the calls of a transaction on
documents; `Values`, `MaxColumns` and `ChangeKeys` the keys that are compared.

Two calls and two changes are enough for documents: each hazard there needs a
document, and one call of each of two transactions, or two calls of one. One
document is enough because no call reads another's entries; `DocumentTree_proofs`
covers any number of all of them.

`indexes`, and the runs of its modules that end in a counterexample, are without
the deadlock check: a database whose only table was dropped with contending rows
really allows no statement (see `index_recreate`).

Runs that end in a counterexample, each of something a document or test states:

| Run | Stated | What the code does |
|---|---|---|
| `session_convergence` | sessions retry by exchanging manifests again | changes in the order of hashes are refused again in every retry |
| `session_transfers` | a session transfers the units that differ | of a row the peer has and lacks changes of, the changes are sent and not the unit: a deletion, or what else the snapshot holds, stays behind |
| `session_drops` | a tombstone is permanent | the last received catalog value wins, so a drop is undone by a peer |
| `index_peer_catalogs` | the engine maintains index records under sync | an imported index is not built |
| `index_recreate` | a dropped name can be created again | not with contending rows in a unique index |
| `sql_discards` | unsupported query shapes are rejected and no clause is silently discarded | the translator drops ON CONFLICT, RETURNING of UPDATE and DELETE, FROM, USING, FOR UPDATE, and all rows of VALUES but the first |

`SuccessConverges` and `EventuallyConverged` belong together: replicas agree
unless sessions fail again and again, and they can. Both speak of catalogs with
one statement, CREATE TABLE. After a DROP TABLE they fail for another reason:
when one replica's entry of a table is dropped and the other's is active, each
session swaps the two (`session_drops`), for ever if nothing else happens, and the
rows of a dropped table are not exported at all.

`SuccessDelivers` speaks of what a session owes (`Due`): of a row the changes it
sends, if it sends any, and otherwise the whole unit. That the unit itself has
arrived (`DeliversUnits`) is what the document says and is not so: `build_outbound`
sends the exported changes and not the exported unit, so that both ends succeed and
a deletion that came after the changes, or the snapshot below them, is left to a
later session (`session_transfers`). Within what it owes a session that succeeds
never fails to deliver, whatever the replicas do meanwhile, and that is proved.
Three more limits of sessions can be read off the model and have no
run of their own: what arrives for a deleted row is not stored (`MergeRow` and
`MergeState` return at once), although `CONTEXT.md` has later changes of a deleted
row retained as replication facts; a change that a replica holds in a snapshot and receives again
as a change aborts the session (the last branch of `ApplyOutcome`), and a full
state is sent to a replica that has the row when no incremental key is missing
there (`OutboundUnits`), although `CONTEXT.md` keeps full states for bootstrap and
recovery.

## Fairness

A session is one task that is polled until it returns: weak fairness on every
endpoint (`Fairness`), so an endpoint that can go on does. Nothing is assumed of
statements, failures or the opening of sessions, except in `RetryingSpec`, where
the host opens each link's session again and again, as the cluster tests do
(`crates/test/src/cluster.rs`); strong, since other links may be busy at times.

In `PatchTree`, a task in commit is polled, and the lock serves those who wait in
turn: strong fairness of `Lock`, which another task that commits disables for a
while, and weak fairness of `Commit`. A range that was begun is read to its end
or dropped: weak fairness of `EndStream`, an assumption about the callers, without
which one of them can hold all commits up. New ranges and new transactions are
never assumed to stop.

## What is proved

`Replication_proofs`, for any sets of replicas, rows, changes and columns, and
both payload forms, from `PayloadAssumption` alone:

- the inductive invariant `IInv == TypeOK /\ Readable /\ CausallyComplete`. No
  part is inductive alone: a batch is stored only on a document, and the document
  is what is stored only when that is complete; what a new change has seen is
  complete only when the row it was read from is readable;
- `TypeCorrect`, `AlwaysReadable`, `AlwaysComplete` from it;
- `NeverLoses` and `StaysDeleted`, the action properties, from it per step;
- `Refinement`: `Replication` implements `RowHistory`;
- `AlwaysApart`: what is stored of a row, and what the authors of its changes had
  seen, are changes of that row. It needs `IInv`, and nothing that is received is
  trusted for it beyond belonging to the row it names;
- `ConflictsStay`: a conflict stays until a change resolves it.

`ConflictsStay` needs more than the rest. A conflict may disappear
through a change whose author saw only one of its candidates, if another change
joined them before, so that documents alone do not show it. The invariant speaks
of the log: in a complete set of changes every write of a column is a candidate or
was replaced by one (`Topped`), and where an author had seen two concurrent writes
there is a first who had, and that one resolved them (`Resolved`). Each statement
keeps both, since it is authored on a complete document and an update names no
conflicted column. Being inductive over the steps that author changes, they take
the place of an induction over the order of changes.

`Session_proofs`, for any replicas, links, tables and rows of which there are
finitely many (an engine reads all of them into one manifest), any `Batch` and
either value of `Closes`: the invariant `Inv`, `SessionInvariance`, follows the
two ends of each link. Unless one of them has ended, one direction of the wire is
always empty, and whoever is ahead has sent what the other waits for (`Lockstep`,
fourteen cases in the order of the protocol); frames of units and changes stand in
a queue that announces its end exactly once, in its last frame (`Stream`), and
keep that form when one is taken from its head. `NoDeadlock` follows where callers
close their transports. That it is finite, hence ends, is what the engine sends,
so that the proof speaks of cardinalities; batches are therefore defined by the
entries that precede each (`ChangeSeq`, `Upto`) and not as folds, of which the
prover could show nothing.

The second invariant, `Carried`, is what `Refinement` (`Session` implements
`Replication`) and `TypeCorrect` rest on: whatever an endpoint has read and keeps,
and whatever is on a wire, was exported by some engine. A unit of a row holds a
document some replica may have had, and no document if it is deleted, in which
case some replica has deleted the row (`GoodUnits`); a change is one of the row it
names (`GoodChanges`). This stays so when rows go on, however long a frame is
under way, because changes are never unmade and deletions stay (`RowStep`, from
`DeletedStays` of `Replication_proofs`); hence a unit received is a state
`Replication` may bring. For a batch, `Session` says which entry is in error, one
after another, and `Replication` says that all new changes find their past among
what was stored and each other: `RowApplies` goes from one to the other by the
least index at which a change stands. With the refinement, every theorem of
`Replication_proofs` holds of any schedule of sessions, statements and failures.
Assumed, besides what is above: rows and tables have different keys
(`KeyAssumption`), and what the bounds are (`DeploymentAssumption`,
`BoundAssumption`).

`Delivery_proofs`, from the same assumptions: `Delivered`, that `SuccessDelivers`
holds of any number of replicas, rows and links, with statements, other sessions of
the same engines and failures at any point. `SuccessDelivers` speaks only of two
ends that have finished; its invariant, `Delivery`, of each end at any time, in
three parts.

- `ReadOK`: a replica still has what it exported, as units and as changes, and its
  peer what its manifest lists, since rows only grow (`RowsGrow`, from `StoredGrows` and `DeletedStays` of
  `Replication_proofs`). So a unit left out because both manifests have it is at
  the peer's when the session ends, too.
- `Delivers`: from the time an end has built what it sends, all it owes of a row is
  `Brought` to the peer, in one of four ways: it is stored there; it is, together
  with the changes on their way; a unit on its way has it; or the row is asked for
  as a snapshot, or will be. What is on its way is on the wire or kept by the
  responder (`Pending`), or is a snapshot read and not sent yet (`Answered`); what is
  asked for is on the wire back or kept by the other end (`Wanted`), or received and
  not read yet (`Asked`). Each step turns one way into another: a unit is stored, a
  batch is stored or becomes requests, a row asked for becomes a snapshot of what the
  owner has by then, which is no less. A change that was listed and is not found when it
  is exported is not owed; when none is found, the unit goes (`BuiltOwes`). An inventory may be out of date when changes are
  built from it: what it lists the peer has gone on having.
- `Finishing`: the responder is the first to finish, and what it then leaves for the
  initiator is a stream of frames that ends. So an end that receives the last frame
  has nothing left on its way to it, and nothing asked for that was not answered:
  of the four ways only the first is left (`RecoveredSides`).

`Inv` says which frames can be under way at each position, and `Carried` what they
contain; neither knows what has arrived, so that `Delivery` needs both and not
conversely.

`Database_proofs`, of the in-memory kernel, for any clients, names, keys, values
and number of commits:

- the inductive invariant `Inv`: types; every client's last clone has at most
  the current revision, is what is committed if it has the current one, and
  equals every other clone with the same revision. It speaks of all clients and
  not only of those with a transaction, which costs nothing and spares a case;
- `TypeCorrect`, `RevisionsIdentify`, and `SerialCommits`: the kernel implements
  `SerialStore`.

And of a database over either kernel: a step of it is one of its kernel, so that
types and `SerialStore` carry over from both (`DatabaseTypes`, `MemorySerial`,
`FileSerial`). Over redb the invariant is
that the open transaction began with the tables the file has. That is what the one
write transaction is for: nobody commits while it is open, so its commit is not
checked against anything. What is assumed of redb is in the actions.

`Statements_proofs`, for any rows, finitely many columns, any values, lists of
columns that statements declare and field entries that peers send, assuming only
that these are of their types (`ColumnAssumption`, `LiteralAssumption`,
`SchemaAssumption`, `PeerAssumption`):

- the inductive invariant is `WellFormed`: the database is a record of its parts, and
  documents are of live rows. `StatementsTypes` follows. What carries the rest is not
  in the invariant but in the lists: the columns, ordered by position and, where
  positions are equal, by name, are a list that has each field exactly once
  (`FieldsListed`), whatever the entries say. The proof counts: an element's rank, the
  number of those before it, takes each value below the size of the set once (`Ranks`);
- from that, what SELECT shows of a row has no lists in it (`ShownIsSeen`): what the
  document has, and the declared defaults of the rest;
- `SelectsTruth`: the executor's two truth values agree with SQL's three on what is
  selected, since a part is evaluated to true exactly if SQL calls it true (`Judged`),
  and AND and OR distinguish nothing below true;
- `InsertsRead`: whichever way the columns are listed, each value is found at the
  place of its name (`GiftInserted`), it is stored under the name the row codec has for
  that place (`EncodeOK`), and the returned row and the next SELECT read it there;
- `ChangesAreExact`: what an equality with a value that is not null matches among the
  lists is what the executor's evaluation selects (`MatchingSelected`), and what is put
  into the documents of these rows is what is assigned, the last of one column;
- `ValuesStay`: each step keeps the fields there were, so that what rows have stored is
  shown as before when only the table or its fields change.

`Trees_proofs`, of the in-memory B-tree, for any tasks, values and natural keys: the invariant `Inv`
adds to the types that every key in `gone` is marked removed in the patch: a key
that was pending or in the map keeps its mark, whatever the map becomes.
`ReadsAgree`, `RemovalsStay` and `CommitsWhatWasRead` follow from it or per step.

And of the encodings of keys, for any rows of any bytes and lengths, numbers of any
width, and keys of documents whose hashes are equally long (`ValueAssumption`,
`WidthAssumption`, `ChangeAssumption`): `KeysAlwaysSort`. The bytes are those of the
parts, one after another (`FlattenIs`); of the first parts that differ the less sorts
first at a byte both have (`PieceSorts`, `BigEndianOrder`, `ValueOrder`), and the same
bytes before and any bytes behind leave it so (`SortsWithin`). Where one key ends, its
two zeros are less than the code of any type and than what any byte is escaped to
(`EndSorts`). Decoding goes through the bytes by index: `SkipsEscaped` and
`SkipsValue` say where it continues behind a part, whatever follows. The proof is by
induction over the parts, and the induction is of sets of numbers (`Induction`), from
the least element of a set; that the recursive functions of `KeyOrder` and the folds of
the community modules are what their definitions say is proved first (`PowerIs`,
`SkipIs`, `FromIs`, `UnescapedIs`, from `Backwards`).

`DocumentTree_proofs`, for any tasks, documents, changes and calls, assuming
`Constants` (that `Absent` and `Unreadable` are no sets of changes, and differ):
the invariant `Inv` is types, `PastsComplete` (changes' pasts and the contents of
entries are complete), `PatchIsIntended` (a document a transaction has not touched
has no entry in its patch), `ReadsIntended` (what a transaction reads of a document
nobody else has committed since, and that it did not write out of place, is what
its calls made of it) and `DocumentsFaithful`. A commit makes of the committed
entries what its transaction reads, hence the last from the one before it; and
that one needs complete pasts, without which loading would leave changes queued.
`AdditionsStay` needs no assumption and no invariant: entries that stay load to no
less. `CompactionsKeep` follows from the invariant at its step.

`IndexRecords_proofs`, for any tables, indexes, rows, columns, values and column
lists, assuming `Constants` (row UUIDs are numbers, defaults are values, an index is
declared with a column at least), which `MCIndexes` evaluates of its instances (its first two scopes act on the
database `db` of `IndexRecords` itself, so their steps are steps of it):

- `TypeCorrect` and `SchemaRepairs` (the run's `ImportsRepaired`), whatever catalog entries peers send. Their
  invariant is `Typed`: the database is one, and an index has finitely many parts,
  without which its columns would be no sequence;
- `RecordsExact`, `NoneContend` and `LowestFound`, where no catalog entry comes from
  a peer (`index_peer_catalogs` shows that it must not). The inductive invariant is
  `Sound`: also, every index has a column and its table has all of the index's
  columns (`Coherent`), and every index of a table that is found is exact. A row that
  is written takes its old record away because what is read of it before the write
  is what made the record; of two rows with one key, the one that is written last
  finds the record of the other. Indexes of dropped tables may be anything, and
  CREATE TABLE makes them again.

A statement on the catalog is, for the proofs, what it declares of one table
(`Declares`) and a rebuild, once or twice, or a drop.

Only model-checked:

- `SessionsEnd`, `SuccessConverges` and `CommitsFinish`, and everything else about
  liveness, which the prover does not reach (fairness and ENABLED).

Nothing proved here is about a recursive operator: `KeyOrder` has recursive functions.
The library's induction takes an operator as a parameter, which the prover cannot
instantiate; the places that need a least or a greatest element take it from the
library's well-founded order of finite sets (`LeastIndex`, `LeastNumber`) or from ranks
(`Greatest`).

## Plan

Done: the modules above. What is left, in this order:

1. Columns in `Session`: catalogs that differ in columns while rows arrive.
2. The redb tree's own `update` and `remove_range`: nothing in the repository calls
   them on that tree, so there is no behaviour of the system to state about them yet.

## Not modelled

- Values beyond their order, macros and derived conversions: no state and no
  interleaving; a unit test reaches all of them.
- The syntax of SQL below the level of clauses: expressions and column definitions
  are taken as the parser gives them.
- Frames that do not decode and digests that do not match, on which a session
  ends as it does on any failure.
- URIs' syntax, the generated code of the protocol, WebAssembly bindings and
  examples. `docs/grpc-protocol-plan.md` describes a service that does not exist
  yet.
- redb, Automerge, `async_lock` and the SQL parser are taken at their word, as the
  modules that use them state.
