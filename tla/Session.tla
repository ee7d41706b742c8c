------------------------------- MODULE Session ------------------------------
(***************************************************************************)
(* Sync sessions between replicas that keep executing local statements.    *)
(*                                                                         *)
(* A link joins an initiator and a responder and runs one session at a     *)
(* time over a FIFO transport.  A session exchanges, in this order:        *)
(* hellos, manifests, row inventories, the units and changes each side     *)
(* lacks, requests for snapshots of rows whose changes could not be        *)
(* applied, and those snapshots.  In every exchange the initiator sends    *)
(* first.  What an endpoint sends it reads from its engine in several      *)
(* transactions, one step each here, with local statements and other       *)
(* sessions between them: the catalog, the rows, the inventory of each row *)
(* and again when it is compared, each change that is sent, each snapshot. *)
(* Only the rows of a manifest or an export are read at once.              *)
(*                                                                         *)
(* Rows are stored as RowStore describes; the catalog entry of a table     *)
(* (and of its columns and indexes, which are handled alike) is a value    *)
(* that a received unit overwrites.  The digest of a unit is represented   *)
(* by the unit.  Incremental changes are sent in the order of their        *)
(* hashes: a hash is a number here, and a new change takes any free one.   *)
(***************************************************************************)
EXTENDS RowStore, SequencesExt

CONSTANTS
  Replica, Row, Table,
  TableOf,      (* the table of each row                                   *)
  Link,         (* pairs of replicas that synchronize                      *)
  End,          (* End[l][role]: the replica at that end of link l         *)
  Deployments,  (* the protocol versions the replicas may run              *)
  Batch,        (* max_units_per_frame                                     *)
  Closes,       (* does a caller close the transport when its session ends?*)
  MaxOpen,      (* bound: sessions running at one time                     *)
  MaxFailures,  (* bound: endpoints that fail by themselves                *)
  MaxDdl        (* bound: CREATE TABLE and DROP TABLE statements           *)

Role == {"initiator", "responder"}
Peer(role) == IF role = "initiator" THEN "responder" ELSE "initiator"

ASSUME LinkAssumption == End \in [Link -> [Role -> Replica]]
ASSUME HashAssumption == Change \subseteq Nat
ASSUME BatchAssumption == Batch \in Nat \ {0}
ASSUME KeyAssumption == Row \cap Table = {}
ASSUME DeploymentAssumption == Deployments \subseteq [Replica -> Nat]
ASSUME BoundAssumption == MaxFailures \in Nat /\ MaxDdl \in Nat

VARIABLES
  store,    \* store[r][w]: the entries replica r stores for row w
  log,      \* the changes authored so far: their row, past and columns
  catalog,  \* catalog[r][t]: replica r's entry of table t
  end,      \* end[l][role]: the state of one endpoint's session
  wire,     \* wire[l][role]: frames sent by that end and not yet received
  version,  \* version[r]: the protocol version replica r runs
  failures, \* endpoints that have failed by themselves
  ddl       \* CREATE TABLE and DROP TABLE statements executed

engines == <<store, log, catalog>>
vars == <<store, log, catalog, end, wire, version, failures, ddl>>

EntryValue == {"absent", "active", "dropped"}
Active(r, t) == catalog[r][t] = "active"
Dropped(r, t) == catalog[r][t] = "dropped"

\* A sync state unit with its key: a row's, or a table's catalog entry.
Unit == [key : Row, value : RowUnit] \cup [key : Table, value : EntryValue \ {"absent"}]

\* A change as it is sent.
RowChange == [row : Row, id : Change]

\* An endpoint: how far its session got, the peer's manifest, the units it
\* exported, the inventory it will send and then the peer's, the rows it has still to
\* read, the changes of the last of them it has still to export, the changes and the
\* snapshots it will send, the frames of these it keeps until it has received the
\* peer's, and the rows it must request.
Endpoint == [pc : {"idle", "hello", "manifest", "rows", "inventory", "build", "export",
                   "receive", "requests", "snapshots", "recovery", "ok", "failed"},
             remote : SUBSET Unit, units : SUBSET Unit, unread : SUBSET Row,
             exports : SUBSET RowChange, changes : SUBSET RowChange,
             snapshots : SUBSET Unit, requests : SUBSET Row]

Idle == [pc |-> "idle", remote |-> {}, units |-> {}, inventory |-> <<>>, unread |-> {},
         exports |-> {}, changes |-> {}, snapshots |-> {}, outbound |-> <<>>,
         requests |-> {}]

Ended == {"idle", "ok", "failed"}

TypeOK ==
  /\ store \in [Replica -> [Row -> StoredRow]]
  /\ log \in [DOMAIN log -> [row : Row, past : SUBSET Change, cols : SUBSET Column]]
  /\ catalog \in [Replica -> [Table -> EntryValue]]
  /\ \A l \in Link, role \in Role :
       LET e == end[l][role]
       IN  /\ [f \in DOMAIN e \ {"inventory", "outbound"} |-> e[f]] \in Endpoint
           /\ DOMAIN e.inventory \subseteq Row
           /\ \A w \in DOMAIN e.inventory : e.inventory[w] \subseteq Change
  /\ version \in [Replica -> Nat]
  /\ failures \in 0..MaxFailures
  /\ ddl \in 0..MaxDdl

Init ==
  /\ store = [r \in Replica |-> [w \in Row |-> NoRow]]
  /\ log = [c \in {} |-> {}]
  /\ catalog = [r \in Replica |-> [t \in Table |-> "absent"]]
  /\ end = [l \in Link |-> [role \in Role |-> Idle]]
  /\ wire = [l \in Link |-> [role \in Role |-> <<>>]]
  /\ version \in Deployments
  /\ failures = 0
  /\ ddl = 0

-----------------------------------------------------------------------------
(* Local statements *)

Rows == INSTANCE Replication

sessions == <<end, wire, version, failures>>

\* A statement on a row finds its table in the catalog.
Statement ==
  \E r \in Replica, w \in Row :
    /\ Active(r, TableOf[w])
    /\ \/ Rows!Delete(r, w)
       \/ \E c \in Change :
            \/ Rows!Insert(r, w, c)
            \/ \E cols \in SUBSET Column \ {{}} :
                 Rows!Update(r, w, c, cols) \/ Rows!Resolve(r, w, c, cols)
    /\ UNCHANGED <<catalog, ddl, sessions>>

\* CREATE TABLE: the name is free, or its table was dropped.
CreateTable(r, t) ==
  /\ ~Active(r, t)
  /\ catalog' = [catalog EXCEPT ![r][t] = "active"]

DropTable(r, t) ==
  /\ Active(r, t)
  /\ catalog' = [catalog EXCEPT ![r][t] = "dropped"]

Ddl ==
  /\ ddl < MaxDdl
  /\ \E r \in Replica, t \in Table : CreateTable(r, t) \/ DropTable(r, t)
  /\ ddl' = ddl + 1
  /\ UNCHANGED <<store, log, sessions>>

-----------------------------------------------------------------------------
(* What an endpoint reads from its engine *)

\* The rows of tables that are not dropped, and what of them is exported.
ExportedRows(r) ==
  {w \in Row : Active(r, TableOf[w]) /\ Exported(log, store[r][w])}

RowUnitOf(r, w) == [key |-> w, value |-> UnitOf(log, store[r][w])]

RowUnits(r) == {RowUnitOf(r, w) : w \in ExportedRows(r)}

\* Fault: tables that have no entry are exported, too.
EveryCatalogUnit(r) == {[key |-> t, value |-> catalog[r][t]] : t \in Table}

CatalogUnits(r) ==
  {[key |-> t, value |-> catalog[r][t]] : t \in {t \in Table : catalog[r][t] # "absent"}}

Manifest(r) == CatalogUnits(r) \cup RowUnits(r)

UnitRows(units) == {u.key : u \in units} \cap Row

\* The changes of a mismatched row that the peer's inventory lacks.
Missing(r, w, theirs) ==
  {[row |-> w, id |-> c] : c \in Inventory(log, store[r][w]) \ theirs[w]}

\* An incremental entry that was read into a snapshot since is not found any more.
Found(r, change) == change.id \in store[r][change.row].incs

\* What is sent of a requested row, in whatever table: a unit, unless nothing is stored.
Snapshot(r, w) == {RowUnitOf(r, x) : x \in {x \in {w} : Exported(log, store[r][x])}}

\* A row the peer exported, too, goes as changes when any are found.
AsChanges(e) == {c.row : c \in e.changes}

\* Fault: a row the peer does not have is not sent.
KnownUnits(e) ==
  {u \in e.units \ e.remote : u.key \in Table \cup DOMAIN e.inventory /\ u.key \notin AsChanges(e)}

\* Fault: a row the peer has is sent as changes only.
NewUnits(e) == {u \in e.units \ e.remote : u.key \notin DOMAIN e.inventory}

OutboundUnits(e) == {u \in e.units \ e.remote : u.key \notin AsChanges(e)}

-----------------------------------------------------------------------------
(* Frames *)

Message(kind, body) == [kind |-> kind, body |-> body]
Hello(r) == Message("hello", version[r])
Done == Message("done", <<>>)
Abort == Message("abort", <<>>)

\* Fault: the last frame is sent only when it is full.
FullChunks(seq) ==
  [i \in 1..(Len(seq) \div Batch) |-> SubSeq(seq, (i - 1) * Batch + 1, i * Batch)]

Chunks(seq) ==
  [i \in 1..((Len(seq) + Batch - 1) \div Batch) |->
     SubSeq(seq, (i - 1) * Batch + 1, IF i * Batch < Len(seq) THEN i * Batch ELSE Len(seq))]

Frames(kind, seq) == [i \in DOMAIN Chunks(seq) |-> Message(kind, Chunks(seq)[i])]

\* Catalog entries sort before rows.
UnitSeq(units) ==
  SetToSeq({u \in units : u.key \in Table}) \o SetToSeq({u \in units : u.key \in Row})

\* Changes are sent in the order of their hashes.
ChangeSeq(changes) ==
  [i \in 1..Cardinality(changes) |->
     CHOOSE c \in changes : Cardinality({d \in changes : d.id <= c.id}) = i]

\* Fault: the end of the frames is not announced.
OutboundUnended(e) ==
  Frames("state", UnitSeq(OutboundUnits(e))) \o Frames("changes", ChangeSeq(e.changes))

OutboundFrames(e) ==
  Frames("state", UnitSeq(OutboundUnits(e))) \o Frames("changes", ChangeSeq(e.changes)) \o <<Done>>

RecoveryFrames(e) == Frames("state", UnitSeq(e.snapshots)) \o <<Done>>

-----------------------------------------------------------------------------
(* Steps of an endpoint *)

At(l, role, pc) == end[l][role].pc = pc

Incoming(l, role) == wire[l][Peer(role)]

Received(l, role, kind) ==
  Incoming(l, role) # <<>> /\ Head(Incoming(l, role)).kind = kind

Body(l, role) == Head(Incoming(l, role)).body

\* The endpoint goes on as e, with `left` to receive and having sent `sent`;
\* a peer that is gone receives nothing.
GoOn(l, role, e, left, sent) ==
  /\ end' = [end EXCEPT ![l][role] = e]
  /\ wire' = [wire EXCEPT ![l] =
                [x \in Role |-> IF x # role THEN left
                                ELSE IF end[l][Peer(role)].pc \in Ended THEN <<>>
                                ELSE @[x] \o sent]]
  /\ UNCHANGED <<version, ddl>>

\* It has received one frame.
Go(l, role, e, sent) == GoOn(l, role, e, Tail(Incoming(l, role)), sent)

\* It returns an error; what is still on its way to it is dropped.
Stop(l, role, sent) == GoOn(l, role, [Idle EXCEPT !.pc = "failed"], <<>>, sent)

\* A session starts when the link is free.  The initiator sends its hello.
Open(l) ==
  /\ Cardinality({k \in Link : \E role \in Role : end[k][role].pc \notin Ended}) < MaxOpen
  /\ \A role \in Role : end[l][role].pc \in Ended
  /\ end' = [end EXCEPT ![l] = [role \in Role |-> [Idle EXCEPT !.pc = "hello"]]]
  /\ wire' = [wire EXCEPT ![l] = [role \in Role |->
                IF role = "initiator" THEN <<Hello(End[l][role])>> ELSE <<>>]]
  /\ UNCHANGED <<engines, version, failures, ddl>>

\* A hello of another version ends the session, with no answer.  The responder
\* answers and prepares its manifest; the initiator sends its own.
ReceiveHello(l, role) ==
  LET r == End[l][role]
  IN  /\ At(l, role, "hello") /\ Received(l, role, "hello")
      /\ \/ /\ Body(l, role) # version[r]
            /\ Stop(l, role, <<>>)
         \/ /\ Body(l, role) = version[r]
            /\ role = "initiator"
            /\ Go(l, role, [Idle EXCEPT !.pc = "manifest"], <<Message("manifest", Manifest(r))>>)
         \/ /\ Body(l, role) = version[r]
            /\ role = "responder"
            /\ Go(l, role, [Idle EXCEPT !.pc = "manifest", !.units = Manifest(r)], <<Hello(r)>>)
      /\ UNCHANGED <<engines, failures>>

\* The catalog is exported after the manifests, in a transaction of its own.
ReceiveManifest(l, role) ==
  LET mine == end[l][role].units
  IN  /\ At(l, role, "manifest") /\ Received(l, role, "manifest")
      /\ Go(l, role,
            [Idle EXCEPT !.pc = "rows", !.remote = Body(l, role),
                         !.units = CatalogUnits(End[l][role])],
            IF role = "responder" THEN <<Message("manifest", mine)>> ELSE <<>>)
      /\ UNCHANGED <<engines, failures>>

\* It goes on as e while it has something to read, and then as `next`, with frames
\* of what it has read: the initiator sends them, the responder keeps them for its turn.
ReadOn(l, role, e, next, frames, left, sent) ==
  IF e.unread \cup e.exports # {} THEN GoOn(l, role, e, left, sent)
  ELSE IF role = "initiator" THEN GoOn(l, role, next, left, sent \o frames)
  ELSE GoOn(l, role, [next EXCEPT !.outbound = frames], left, sent)

Inventoried(l, role, e) ==
  ReadOn(l, role, e, [e EXCEPT !.pc = "build", !.inventory = <<>>],
         <<Message("inventory", e.inventory)>>, Incoming(l, role), <<>>)

ReadRows(l, role) ==
  LET r == End[l][role]
  IN  /\ At(l, role, "rows")
      /\ Inventoried(l, role, [end[l][role] EXCEPT !.pc = "inventory", !.units = @ \cup RowUnits(r),
                                                   !.unread = ExportedRows(r)])
      /\ UNCHANGED <<engines, failures>>

ReadInventory(l, role) ==
  LET e == end[l][role]
  IN  /\ At(l, role, "inventory")
      /\ \E w \in e.unread :
           Inventoried(l, role,
             [e EXCEPT !.unread = @ \ {w},
                       !.inventory = [v \in DOMAIN @ \cup {w} |->
                         IF v = w THEN Inventory(log, store[End[l][role]][w]) ELSE @[v]]])
      /\ UNCHANGED <<engines, failures>>

Exporting(l, role, e, left, sent) ==
  ReadOn(l, role, e, [e EXCEPT !.pc = "receive", !.remote = {}, !.inventory = <<>>],
         OutboundFrames(e), left, sent)

\* Of the rows that the manifests do not agree on and the peer exported, too, it
\* reads what the peer lacks; the others need no reading.
ReceiveInventory(l, role) ==
  LET e == end[l][role]
      theirs == Body(l, role)
  IN  /\ At(l, role, "build") /\ Received(l, role, "inventory")
      /\ Exporting(l, role,
           [e EXCEPT !.pc = "export", !.inventory = theirs, !.outbound = <<>>,
                     !.unread = UnitRows(e.units \ e.remote) \cap DOMAIN theirs],
           Tail(Incoming(l, role)), e.outbound)
      /\ UNCHANGED <<engines, failures>>

ReadMissing(l, role) ==
  LET e == end[l][role]
  IN  /\ At(l, role, "export") /\ e.exports = {}
      /\ \E w \in e.unread :
           Exporting(l, role,
             [e EXCEPT !.unread = @ \ {w}, !.exports = Missing(End[l][role], w, e.inventory)],
             Incoming(l, role), <<>>)
      /\ UNCHANGED <<engines, failures>>

ExportChange(l, role) ==
  LET e == end[l][role]
  IN  /\ At(l, role, "export")
      /\ \E c \in e.exports :
           Exporting(l, role,
             [e EXCEPT !.exports = @ \ {c},
                       !.changes = @ \cup {d \in {c} : Found(End[l][role], d)}],
             Incoming(l, role), <<>>)
      /\ UNCHANGED <<engines, failures>>

-----------------------------------------------------------------------------
(* Receiving units and changes *)

\* Fault: the units of a frame are never used up.
FrameKept(l, role) == Incoming(l, role)

\* The units of a frame are applied one by one, each in a transaction.  A row
\* of a table that is not known yet is stored; one of a dropped table has no
\* schema to update its index records by, and is an error.
FrameLeft(l, role) ==
  IF Len(Body(l, role)) = 1 THEN Tail(Incoming(l, role))
  ELSE <<Message("state", Tail(Body(l, role)))>> \o Tail(Incoming(l, role))

ReceiveUnit(l, role) ==
  LET r == End[l][role]
      u == Head(Body(l, role))
  IN  /\ end[l][role].pc \in {"receive", "recovery"} /\ Received(l, role, "state")
      /\ \/ /\ u.key \in Table
            /\ catalog' = [catalog EXCEPT ![r][u.key] = u.value]
            /\ GoOn(l, role, end[l][role], FrameLeft(l, role), <<>>)
            /\ UNCHANGED <<store, log>>
         \/ /\ u.key \in Row /\ ~Dropped(r, TableOf[u.key])
            /\ store' = [store EXCEPT ![r][u.key] = ApplyUnit(log, @, u.value)]
            /\ GoOn(l, role, end[l][role], FrameLeft(l, role), <<>>)
            /\ UNCHANGED <<log, catalog>>
         \/ /\ u.key \in Row /\ Dropped(r, TableOf[u.key])
            /\ Stop(l, role, <<Abort>>)
            /\ UNCHANGED engines
      /\ UNCHANGED failures

\* A row once the changes before the i-th of a batch are stored.
Upto(r, w, batch, i) ==
  AddChanges(store[r][w], {batch[j].id : j \in {j \in 1..i-1 : batch[j].row = w}})

\* The changes of a batch that cannot be applied once those before them are.
Errors(r, batch) ==
  {i \in DOMAIN batch :
     \E s \in {Upto(r, batch[i].row, batch, i)} :
       ApplyOutcome(log, s, batch[i].id) \notin {"applied", "known"}}

\* Changes are applied in the order received, and the first error is returned.
FirstError(r, batch) ==
  LET i == Min(Errors(r, batch))
  IN  ApplyOutcome(log, Upto(r, batch[i].row, batch, i), batch[i].id)

BatchRows(batch) == {batch[i].row : i \in DOMAIN batch}

\* A batch of changes is one transaction.  One that finds no document for one of
\* its changes is requested as snapshots of all of its rows; any other error
\* aborts the session.
ReceiveChanges(l, role) ==
  LET r == End[l][role]
      batch == Body(l, role)
      applied == Errors(r, batch) = {}
      indexed == \A w \in BatchRows(batch) : ~Dropped(r, TableOf[w])
  IN  /\ At(l, role, "receive") /\ Received(l, role, "changes")
      /\ \/ /\ applied /\ indexed
            /\ store' = [store EXCEPT ![r] = [w \in Row |-> Upto(r, w, batch, Len(batch) + 1)]]
            /\ Go(l, role, end[l][role], <<>>)
            /\ UNCHANGED <<log, catalog>>
         \/ /\ ~applied /\ FirstError(r, batch) = "unavailable"
            /\ Go(l, role, [end[l][role] EXCEPT !.requests = @ \cup BatchRows(batch)], <<>>)
            /\ UNCHANGED engines
         \/ /\ IF applied THEN ~indexed ELSE FirstError(r, batch) = "mismatch"
            /\ Stop(l, role, <<Abort>>)
            /\ UNCHANGED engines
      /\ UNCHANGED failures

\* The initiator asks for snapshots at once, the responder sends what it built.
ReceiveDone(l, role) ==
  LET e == end[l][role]
  IN  /\ At(l, role, "receive") /\ Received(l, role, "done")
      /\ Go(l, role, [e EXCEPT !.pc = "requests", !.outbound = <<>>],
            IF role = "initiator" THEN <<Message("requests", e.requests)>> ELSE e.outbound)
      /\ UNCHANGED <<engines, failures>>

Snapped(l, role, e, left, sent) ==
  ReadOn(l, role, e, [e EXCEPT !.pc = "recovery", !.snapshots = {}], RecoveryFrames(e),
         left, sent)

ReceiveRequests(l, role) ==
  LET e == end[l][role]
  IN  /\ At(l, role, "requests") /\ Received(l, role, "requests")
      /\ Snapped(l, role,
           [e EXCEPT !.pc = "snapshots", !.unread = Body(l, role), !.requests = {}],
           Tail(Incoming(l, role)),
           IF role = "responder" THEN <<Message("requests", e.requests)>> ELSE <<>>)
      /\ UNCHANGED <<engines, failures>>

ReadSnapshot(l, role) ==
  LET e == end[l][role]
  IN  /\ At(l, role, "snapshots")
      /\ \E w \in e.unread :
           Snapped(l, role,
             [e EXCEPT !.unread = @ \ {w}, !.snapshots = @ \cup Snapshot(End[l][role], w)],
             Incoming(l, role), <<>>)
      /\ UNCHANGED <<engines, failures>>

\* The session has succeeded; the responder still sends its snapshots.
ReceiveRecovered(l, role) ==
  LET e == end[l][role]
  IN  /\ At(l, role, "recovery") /\ Received(l, role, "done")
      /\ Go(l, role, [e EXCEPT !.pc = "ok", !.outbound = <<>>], e.outbound)
      /\ UNCHANGED <<engines, failures>>

-----------------------------------------------------------------------------
(* Failures *)

Awaits(pc) ==
  CASE pc \in {"hello", "manifest", "requests"} -> {pc}
    [] pc = "build" -> {"inventory"}
    [] pc = "receive" -> {"state", "changes", "done"}
    [] pc = "recovery" -> {"state", "done"}
    [] OTHER -> {}

\* An abort, or any message out of place, ends the session with no answer.
ReceiveOther(l, role) ==
  /\ Awaits(end[l][role].pc) # {}
  /\ Incoming(l, role) # <<>>
  /\ Head(Incoming(l, role)).kind \notin Awaits(end[l][role].pc)
  /\ Stop(l, role, <<>>)
  /\ UNCHANGED <<engines, failures>>

\* The peer's session is over and its caller has closed the transport.
Disconnected(l, role) ==
  /\ Closes
  /\ Awaits(end[l][role].pc) # {}
  /\ Incoming(l, role) = <<>>
  /\ end[l][Peer(role)].pc \in Ended
  /\ Stop(l, role, <<>>)
  /\ UNCHANGED <<engines, failures>>

\* It has units or changes to apply.
Applies(l, role) ==
  \E kind \in Awaits(end[l][role].pc) \cap {"state", "changes"} : Received(l, role, kind)

\* The transport is interrupted, the process is killed, or the engine reports a
\* transaction conflict: at any point, and what was committed stays.  Of a conflict
\* while something is applied the peer is told.
Fail(l, role) ==
  /\ failures < MaxFailures
  /\ end[l][role].pc \notin Ended
  /\ Stop(l, role, <<>>) \/ (Applies(l, role) /\ Stop(l, role, <<Abort>>))
  /\ failures' = failures + 1
  /\ UNCHANGED engines

Proceed(l, role) ==
  \/ ReceiveHello(l, role) \/ ReceiveManifest(l, role)
  \/ ReadRows(l, role) \/ ReadInventory(l, role)
  \/ ReceiveInventory(l, role)
  \/ ReadMissing(l, role) \/ ExportChange(l, role)
  \/ ReceiveUnit(l, role) \/ ReceiveChanges(l, role) \/ ReceiveDone(l, role)
  \/ ReceiveRequests(l, role) \/ ReadSnapshot(l, role)
  \/ ReceiveRecovered(l, role)
  \/ ReceiveOther(l, role) \/ Disconnected(l, role)

Next ==
  \/ Statement \/ Ddl
  \/ \E l \in Link : Open(l)
  \/ \E l \in Link, role \in Role : Proceed(l, role) \/ Fail(l, role)

\* A session is one task that is polled until it returns.
Fairness == \A l \in Link, role \in Role : WF_vars(Proceed(l, role))

Spec == Init /\ [][Next]_vars /\ Fairness

\* The host synchronizes every pair again and again.
RetryingSpec == Spec /\ \A l \in Link : SF_vars(Open(l))

-----------------------------------------------------------------------------
(* Properties *)

\* What sessions do to the rows, with frames lost by failures, stale reads and
\* other sessions between the reads of one, is what Replication allows: all
\* that is shown and proved of Replication holds of every schedule of sessions.
ImplementsReplication == Rows!Spec

\* The changes of a row that an endpoint sends.
SentChanges(e, w) == {c.id : c \in {c \in e.changes : c.row = w}}

\* What its session owes the peer of a row it exported: the changes it sends of it,
\* or the whole unit when it sends none.
Due(e, u) ==
  IF SentChanges(e, u.key) = {} THEN u.value
  ELSE [state |-> SentChanges(e, u.key), deleted |-> FALSE]

\* A stored row that is deleted, or has all of a unit.
Has(s, v) == s.deleted \/ (~v.deleted /\ v.state \subseteq Stored(log, s))

\* A session that both ends finished delivered all it owed, however it went: skipped
\* because the manifests agreed, as changes, as a snapshot, or as a requested snapshot.
SuccessDelivers ==
  \A l \in Link, role \in Role :
    At(l, role, "ok") /\ At(l, Peer(role), "ok") =>
      \A u \in end[l][role].units :
        u.key \in Row => Has(store[End[l][Peer(role)]][u.key], Due(end[l][role], u))

\* Every session comes to an end at both ends: no order of messages leaves the
\* two waiting for each other.
SessionsEnd ==
  \A l \in Link, role \in Role : []<>(end[l][role].pc \in Ended)

\* No two ends wait for each other: when an end waits and nothing is on its way
\* to it, its peer is not waiting for nothing too, or has ended and its caller
\* closes the transport.
Waits(l, role) == Awaits(end[l][role].pc) # {} /\ Incoming(l, role) = <<>>

NoneWaitForever ==
  \A l \in Link, role \in Role :
    Waits(l, role) =>
      IF At(l, Peer(role), "ok") \/ At(l, Peer(role), "failed") THEN Closes
      ELSE ~Waits(l, Peer(role))

\* When statements stop, replicas that go on synchronizing come to agree on every
\* catalog entry and on every row of an active table, and stay so.
Converged ==
  \A r, q \in Replica : catalog[r] = catalog[q] /\ RowUnits(r) = RowUnits(q)

EventuallyConverged == <>[]Converged

\* They agree in any case if sessions stop failing: a session that succeeds
\* leaves less to transfer.
SuccessConverges ==
  (<>[](\A l \in Link, role \in Role : ~At(l, role, "failed"))) => EventuallyConverged

-----------------------------------------------------------------------------
(* Properties the documents state and the code does not have *)

\* A session that both ends finished transferred every row it exported.  A row goes
\* as its incremental changes alone when the peer lacks one of them, even when it
\* lacks the row's deletion, too, or changes that are in its snapshot.
DeliversUnits ==
  \A l \in Link, role \in Role :
    At(l, role, "ok") /\ At(l, Peer(role), "ok") =>
      \A u \in end[l][role].units :
        u.key \in Row => Has(store[End[l][Peer(role)]][u.key], u.value)

\* A dropped table stays dropped but for a statement that creates it again.
DropsStay ==
  [][ddl' = ddl =>
       \A r \in Replica, t \in Table : catalog[r][t] = "dropped" => catalog'[r][t] = "dropped"]_vars
=============================================================================
