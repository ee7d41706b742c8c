------------------------------ MODULE RowStore ------------------------------
(***************************************************************************)
(* The stored form of one Logical Row in the Automerge row codec, and the  *)
(* operations of the codec on it.                                          *)
(*                                                                         *)
(* A row is kept as entries of its table's storage: at most one snapshot   *)
(* of its document, incremental changes keyed by change hash, and a        *)
(* metadata entry that marks it deleted.  A document is abstracted to the  *)
(* set of changes it contains; a change's hash is an element of Change,    *)
(* and what the hash covers (the changes its author had seen, the columns  *)
(* it writes, its row) is its entry in the change log.                     *)
(*                                                                         *)
(* This module holds no state: every operator takes the log and the stored *)
(* row, and the modules that own a replica's state apply them.             *)
(***************************************************************************)
EXTENDS Naturals, FiniteSets

CONSTANTS
  Change,      (* change hashes                                            *)
  Column,      (* columns of a row other than its primary key              *)
  FullPayload  (* does an incremental payload carry its whole history?     *)
               (* AutoCommit::save_incremental on a document that was just *)
               (* loaded decides this, outside this repository, so both    *)
               (* are checked and proved.                                  *)

ASSUME PayloadAssumption == FullPayload \in BOOLEAN

\* The entries found in the range of keys of one row: the changes of its snapshot
\* (none when no snapshot is stored), the hashes in the keys of its incremental
\* entries, the tombstone.
StoredRow == [base : SUBSET Change, incs : SUBSET Change, deleted : BOOLEAN]

NoRow == [base |-> {}, incs |-> {}, deleted |-> FALSE]

\* What a sync state unit carries of a row: the saved document and the
\* deletion metadata.  Its digest is a digest of exactly these two.
RowUnit == [state : SUBSET Change, deleted : BOOLEAN]

-----------------------------------------------------------------------------
(* Documents *)

\* Fault: a change also records a write of the primary key.
AuthoredWithKey(log, c, row, seen, cols) ==
  [d \in DOMAIN log \cup {c} |->
     IF d = c THEN [row |-> row, past |-> seen, cols |-> cols \cup {row}] ELSE log[d]]

\* The log after change c was authored on a document that holds `seen`.
Authored(log, c, row, seen, cols) ==
  [d \in DOMAIN log \cup {c} |->
     IF d = c THEN [row |-> row, past |-> seen, cols |-> cols] ELSE log[d]]

\* The changes a stored incremental entry brings when it is loaded.
Payload(log, c) == IF FullPayload THEN log[c].past \cup {c} ELSE {c}

Payloads(log, C) == UNION {Payload(log, c) : c \in C}

\* A set of changes that holds the past of each: what a document contains.
Complete(log, X) == \A c \in X : c \in DOMAIN log /\ log[c].past \subseteq X

\* Loading changes into a document: one whose past is missing stays queued.
Loaded(log, X) == {c \in X : log[c].past \subseteq X}

\* Every change the row's entries hold.
Stored(log, s) == s.base \cup Payloads(log, s.incs)

\* An incremental entry without a snapshot before it is a reconstruction error.
Reconstructs(s) == s.incs # {} => s.base # {}

\* The document the entries reconstruct to; the metadata entry comes last and
\* clears it.
Document(log, s) == IF s.deleted THEN {} ELSE Loaded(log, Stored(log, s))

\* The concurrent writes of a column that no later write has replaced.
Candidates(log, doc, col) ==
  LET writes == {c \in doc : col \in log[c].cols}
  IN  {c \in writes : \A d \in writes : c \notin log[d].past}

Conflicted(log, doc) ==
  {col \in Column : \E c, d \in Candidates(log, doc, col) : c # d}

-----------------------------------------------------------------------------
(* What a replica publishes of a row *)

UnitOf(log, s) == [state |-> Document(log, s), deleted |-> s.deleted]

\* A row with neither state nor metadata is not exported.
Exported(log, s) == s.deleted \/ Document(log, s) # {}

\* The incremental keys, those of the document when there is one.
Inventory(log, s) ==
  IF Document(log, s) = {} THEN s.incs ELSE s.incs \cap Document(log, s)

-----------------------------------------------------------------------------
(* Local writes: the change is authored on the current document *)

\* Fault: only the document is looked for, and a deleted row has none.
CanInsertUnseen(log, s) == Document(log, s) = {}

CanInsert(log, s) == ~s.deleted /\ Document(log, s) = {}

\* Fault: an update may write a conflicted column.
CanOverwrite(log, s, cols) == Document(log, s) # {}

CanUpdate(log, s, cols) ==
  /\ Document(log, s) # {}
  /\ cols \cap Conflicted(log, Document(log, s)) = {}

CanResolve(log, s, cols) ==
  /\ Document(log, s) # {}
  /\ cols \subseteq Conflicted(log, Document(log, s))

\* Fault: the first change of a row is stored as an incremental entry, too.
MergeIncrement(log, s, c) == IF s.deleted THEN s ELSE [s EXCEPT !.incs = @ \cup {c}]

\* The first change of a row is stored as its snapshot, later ones as
\* incremental entries; a deleted row keeps neither.
MergeRow(log, s, c) ==
  IF s.deleted THEN s
  ELSE IF Document(log, s) = {} THEN [s EXCEPT !.base = {c}]
       ELSE [s EXCEPT !.incs = @ \cup {c}]

RemoveRow(s) == [s EXCEPT !.deleted = TRUE]

-----------------------------------------------------------------------------
(* Replicated writes *)

MergeMetadata(s) == [s EXCEPT !.deleted = TRUE]

\* Fault: the received document replaces the stored one.
ReplaceState(log, s, state) ==
  IF s.deleted THEN s ELSE [s EXCEPT !.base = state, !.incs = {}]

\* Fault: the merged row is written without looking for its deletion.
ReviveState(log, s, state) ==
  [base |-> Document(log, s) \cup state, incs |-> {}, deleted |-> FALSE]

\* All entries of the document are removed and one snapshot is stored.
AsSnapshot(s, doc) == [s EXCEPT !.base = doc, !.incs = {}]

\* Merging a received document rewrites the row as one snapshot: the row's
\* incremental entries are gone afterwards.
MergeState(log, s, state) ==
  IF s.deleted THEN s ELSE AsSnapshot(s, Document(log, s) \cup state)

\* A received unit: its metadata first, then its state.
ApplyUnit(log, s, u) ==
  LET marked == IF u.deleted THEN MergeMetadata(s) ELSE s
  IN  IF u.state = {} THEN marked ELSE MergeState(log, marked, u.state)

\* Fault: a change is stored without looking whether the document gains it.
ApplyBlindly(log, s, c) == IF c \in s.incs THEN "known" ELSE "applied"

\* What applying one received change does: it is already stored under its
\* key, there is no document to apply it to, the loaded document does not gain
\* it (it was there already, or its past is missing), or it is stored.
ApplyOutcome(log, s, c) ==
  LET doc == Document(log, s)
      loaded == Loaded(log, doc \cup Payload(log, c))
  IN  IF c \in s.incs THEN "known"
      ELSE IF doc = {} THEN "unavailable"
      ELSE IF c \in loaded \ doc THEN "applied" ELSE "mismatch"

\* Changes of a batch, stored one by one.
AddChanges(s, C) == [s EXCEPT !.incs = @ \cup C]
=============================================================================
