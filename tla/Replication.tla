----------------------------- MODULE Replication ----------------------------
(***************************************************************************)
(* Replicas writing their rows and exchanging them, over an arbitrary      *)
(* network.                                                                *)
(*                                                                         *)
(* Each replica stores its rows as RowStore describes.  What reaches a     *)
(* replica is any row state some replica could have exported and any batch *)
(* of incremental changes, at any time: late, duplicated, reordered, from  *)
(* any peer.  The session protocol (module Session) delivers a subset of   *)
(* this, so what holds here holds under every schedule of sessions.        *)
(***************************************************************************)
EXTENDS RowStore

CONSTANTS Replica, Row

VARIABLES
  store,   \* store[r][w]: the entries replica r stores for row w
  log      \* the changes authored so far: their row, past and columns

vars == <<store, log>>

Authors == [row : Row, past : SUBSET Change, cols : SUBSET Column]

TypeOK ==
  /\ store \in [Replica -> [Row -> StoredRow]]
  /\ DOMAIN log \subseteq Change
  /\ log \in [DOMAIN log -> Authors]

Init ==
  /\ store = [r \in Replica |-> [w \in Row |-> NoRow]]
  /\ log = [c \in {} |-> {}]

-----------------------------------------------------------------------------
(* Local statements, each one Engine Transaction on one row *)

\* The change c is materialised in row w of replica r.
Write(r, w, c, cols) ==
  LET s == store[r][w]
      grown == Authored(log, c, w, Document(log, s), cols)
  IN  /\ c \notin DOMAIN log
      /\ log' = grown
      /\ store' = [store EXCEPT ![r][w] = MergeRow(log, s, c)]

\* INSERT: the primary key was neither deleted nor is it present.
Insert(r, w, c) ==
  /\ CanInsert(log, store[r][w])
  /\ Write(r, w, c, Column)

\* UPDATE of a visible row; a conflicted column rejects the statement.
Update(r, w, c, cols) ==
  /\ CanUpdate(log, store[r][w], cols)
  /\ Write(r, w, c, cols)

\* An explicit resolution of conflicted columns.
Resolve(r, w, c, cols) ==
  /\ CanResolve(log, store[r][w], cols)
  /\ Write(r, w, c, cols)

\* DELETE of a visible row.
Delete(r, w) ==
  /\ Document(log, store[r][w]) # {}
  /\ store' = [store EXCEPT ![r][w] = RemoveRow(@)]
  /\ UNCHANGED log

-----------------------------------------------------------------------------
(* Replicated writes *)

RowChanges(w) == {c \in DOMAIN log : log[c].row = w}

\* A document some replica may have had: a set of the row's changes that is
\* complete.
States(w) == {X \in SUBSET RowChanges(w) : Complete(log, X)}

\* One received unit, in one transaction.  A unit of a deleted row has no state.
ApplyState(r, w, u) ==
  /\ u.state \in States(w)
  /\ u.deleted => u.state = {} /\ \E q \in Replica : store[q][w].deleted
  /\ store' = [store EXCEPT ![r][w] = ApplyUnit(log, @, u)]
  /\ UNCHANGED log

\* Fault: changes are stored whether or not they find their past.
BatchForced(s, C) ==
  LET new == C \ s.incs
      doc == Document(log, s)
  IN  new # {} => doc # {} /\ new \cap doc = {}

\* The state of a row after the new changes of a batch were stored one by one,
\* in an order in which each found its past (ApplyOutcome = "applied").
BatchApplies(s, C) ==
  LET new == C \ s.incs
      doc == Document(log, s)
  IN  new # {} =>
        /\ doc # {}
        /\ \A c \in new : c \notin doc /\ log[c].past \subseteq doc \cup Payloads(log, new)

\* A batch of received changes, all of its rows in one transaction.
ApplyChanges(r, batch) ==
  /\ \A w \in Row : batch[w] \subseteq RowChanges(w) /\ BatchApplies(store[r][w], batch[w])
  /\ store' = [store EXCEPT ![r] = [w \in Row |-> AddChanges(store[r][w], batch[w])]]
  /\ UNCHANGED log

Next ==
  \/ \E r \in Replica : \E batch \in [Row -> SUBSET Change] : ApplyChanges(r, batch)
  \/ \E r \in Replica, w \in Row, c \in Change :
       \/ Insert(r, w, c)
       \/ \E cols \in SUBSET Column \ {{}} : Update(r, w, c, cols) \/ Resolve(r, w, c, cols)
  \/ \E r \in Replica, w \in Row : Delete(r, w)
  \/ \E r \in Replica, w \in Row : \E u \in [state : States(w), deleted : BOOLEAN] : ApplyState(r, w, u)

Spec == Init /\ [][Next]_vars

-----------------------------------------------------------------------------
(* Properties *)

\* Every stored row reconstructs: no replica ever holds incremental entries of
\* a row without the snapshot they build on, whatever mix of inserts, merged
\* snapshots (which drop the incremental entries) and received changes wrote
\* it.  A row that did not would fail every later scan of its table
\* (reconstruct_document).
Readable == \A r \in Replica, w \in Row : Reconstructs(store[r][w])

\* What a replica stores of a row is causally complete: with a change it holds
\* every change its author had seen, and all that those authors had seen, so
\* that loading the entries never leaves a change queued and the document is
\* all of what is stored.
CausallyComplete ==
  /\ \A c \in DOMAIN log : Complete(log, log[c].past)
  /\ \A r \in Replica, w \in Row : Complete(log, Stored(log, store[r][w]))

\* A change a replica stores stays stored: compaction into a snapshot, a stale
\* or duplicated snapshot, and a deletion all keep it.
NoChangeLost ==
  [][\A r \in Replica, w \in Row :
       Stored(log, store[r][w]) \subseteq Stored(log', store'[r][w])]_vars

\* A deleted row is never visible again at the replica that saw the deletion,
\* not by a snapshot or change that comes late and not by an insert of the same
\* primary key.
TombstonePermanent ==
  [][\A r \in Replica, w \in Row :
       store[r][w].deleted => store'[r][w].deleted /\ Document(log', store'[r][w]) = {}]_vars

\* Only a statement that names a conflicted column replaces its concurrent
\* candidates: a conflict disappears from a document by a resolution, by one
\* that arrives from a peer, or with the row.
ConflictsKept ==
  [][\A r \in Replica, w \in Row :
       LET before == Document(log, store[r][w])
           after == Document(log', store'[r][w])
       IN  after # {} =>
             \A col \in Conflicted(log, before) \ Conflicted(log', after) :
               \E c \in after \ before :
                 /\ col \in log'[c].cols
                 /\ log'[c].cols \subseteq Conflicted(log', log'[c].past)]_vars

\* Replicas implement the abstract history: incremental entries, snapshots and
\* metadata are one growing complete set of changes and one permanent deletion.
History == INSTANCE RowHistory WITH
  past <- [c \in DOMAIN log |-> log[c].past],
  known <- [r \in Replica |-> [w \in Row |-> Stored(log, store[r][w])]],
  dead <- [r \in Replica |-> {w \in Row : store[r][w].deleted}]

ImplementsHistory == History!Spec
=============================================================================
