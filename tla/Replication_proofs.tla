------------------------- MODULE Replication_proofs -------------------------
(***************************************************************************)
(* Proofs about Replication, for every number of replicas, rows, changes   *)
(* and columns and for both forms of incremental payload.                  *)
(***************************************************************************)
EXTENDS Replication, TLAPS

\* The inductive invariant: each conjunct needs the others.  A statement's
\* change is complete because the document it was authored on is all that is
\* stored; that holds because what is stored is complete.
IInv == TypeOK /\ Readable /\ CausallyComplete

-----------------------------------------------------------------------------
(* The storage operators *)

\* A complete set loads whole.
LEMMA LoadedComplete ==
  ASSUME NEW L, NEW X, Complete(L, X)
  PROVE  Loaded(L, X) = X
BY DEF Complete, Loaded

\* The stored entries of a live row reconstruct to all they hold.
LEMMA DocumentIsStored ==
  ASSUME NEW L, NEW s, Complete(L, Stored(L, s)), s.deleted = FALSE
  PROVE  Document(L, s) = Stored(L, s)
BY LoadedComplete DEF Document

\* A document is never more than what is stored.
LEMMA DocumentStored ==
  ASSUME NEW L, NEW s
  PROVE  Document(L, s) \subseteq Stored(L, s)
BY DEF Document, Loaded

\* Every incremental entry brings the change it is keyed by.
LEMMA IncsStored ==
  ASSUME NEW L, NEW s
  PROVE  s.incs \subseteq Stored(L, s)
BY DEF Stored, Payloads, Payload

\* A row that reconstructs and stores anything has a snapshot.
LEMMA HasSnapshot ==
  ASSUME NEW L, NEW s, Reconstructs(s), Document(L, s) # {}
  PROVE  s.base # {}
<1>1. Stored(L, s) # {}
  BY DocumentStored
<1> QED
  BY <1>1 DEF Stored, Payloads, Reconstructs

\* The entries a row already has keep what they hold when a change is authored.
LEMMA StoredStable ==
  ASSUME NEW L, NEW s, Complete(L, Stored(L, s)),
         NEW c, c \notin DOMAIN L, NEW w, NEW seen, NEW cols
  PROVE  Stored(Authored(L, c, w, seen, cols), s) = Stored(L, s)
<1> DEFINE G == Authored(L, c, w, seen, cols)
<1>1. \A d \in s.incs : d \in DOMAIN L
  BY IncsStored DEF Complete
<1>2. \A d \in DOMAIN L : G[d] = L[d]
  BY DEF Authored
<1>3. \A d \in s.incs : Payload(G, d) = Payload(L, d)
  BY <1>1, <1>2 DEF Payload
<1>4. Payloads(G, s.incs) = Payloads(L, s.incs)
  BY <1>3 DEF Payloads
<1> QED
  BY <1>4 DEF Stored

\* Completeness is not disturbed by a later change.
LEMMA CompleteStable ==
  ASSUME NEW L, NEW X, Complete(L, X),
         NEW c, c \notin DOMAIN L, NEW w, NEW seen, NEW cols
  PROVE  Complete(Authored(L, c, w, seen, cols), X)
BY DEF Complete, Authored

\* Complete sets join to complete sets.
LEMMA CompleteUnion ==
  ASSUME NEW L, NEW X, NEW Y, Complete(L, X), Complete(L, Y)
  PROVE  Complete(L, X \cup Y)
BY DEF Complete

-----------------------------------------------------------------------------
(* What each operation leaves stored *)

\* A written change joins what the row stores; its author had seen all of that.
LEMMA MergeRowFacts ==
  ASSUME NEW L, NEW s \in StoredRow, Reconstructs(s), Complete(L, Stored(L, s)),
         s.deleted = FALSE,
         NEW c \in Change, c \notin DOMAIN L, NEW w, NEW cols,
         NEW G, G = Authored(L, c, w, Document(L, s), cols)
  PROVE  /\ MergeRow(L, s, c) \in StoredRow
         /\ MergeRow(L, s, c).deleted = FALSE
         /\ Reconstructs(MergeRow(L, s, c))
         /\ Stored(G, MergeRow(L, s, c)) = Stored(L, s) \cup {c}
         /\ Complete(G, Stored(L, s) \cup {c})
<1> DEFINE t == MergeRow(L, s, c)
<1>1. Document(L, s) = Stored(L, s)
  BY DocumentIsStored
<1>2. G[c].past = Stored(L, s) /\ c \in DOMAIN G
  BY <1>1 DEF Authored
<1>3. Stored(G, s) = Stored(L, s)
  BY StoredStable
<1>4. CASE Document(L, s) = {}
  <2>1. s.base = {} /\ s.incs = {}
    BY <1>1, <1>4, IncsStored DEF Stored
  <2>2. t = [s EXCEPT !.base = {c}]
    BY <1>4 DEF MergeRow
  <2>3. t \in StoredRow /\ t.base = {c} /\ t.incs = {} /\ t.deleted = FALSE
    BY <2>1, <2>2 DEF StoredRow
  <2>4. Stored(G, t) = {c}
    BY <2>3 DEF Stored, Payloads
  <2>5. Reconstructs(t)
    BY <2>3 DEF Reconstructs
  <2>6. Complete(G, {c})
    BY <1>1, <1>2, <1>4 DEF Complete
  <2> QED
    BY <1>1, <1>4, <2>3, <2>4, <2>5, <2>6
<1>5. CASE Document(L, s) # {}
  <2>1. t = [s EXCEPT !.incs = @ \cup {c}]
    BY <1>5 DEF MergeRow
  <2>2. t \in StoredRow /\ t.base = s.base /\ t.incs = s.incs \cup {c} /\ t.deleted = FALSE
    BY <2>1 DEF StoredRow
  <2>3. Reconstructs(t)
    BY <1>5, <2>2, HasSnapshot DEF Reconstructs
  <2>4. Payload(G, c) \subseteq Stored(L, s) \cup {c} /\ c \in Payload(G, c)
    BY <1>2 DEF Payload
  <2>5. Stored(G, t) = Stored(G, s) \cup Payload(G, c)
    BY <2>2 DEF Stored, Payloads
  <2>6. Stored(G, t) = Stored(L, s) \cup {c}
    BY <1>3, <2>4, <2>5
  <2>7. Complete(G, Stored(L, s))
    BY CompleteStable
  <2>8. Complete(G, Stored(L, s) \cup {c})
    BY <1>2, <2>7 DEF Complete
  <2> QED
    BY <2>2, <2>3, <2>6, <2>8
<1> QED
  BY <1>4, <1>5

\* A received unit of a live row adds its state and drops nothing; a deleted
\* row ignores the state.
LEMMA ApplyUnitFacts ==
  ASSUME NEW L, NEW s \in StoredRow, Reconstructs(s), Complete(L, Stored(L, s)),
         DOMAIN L \subseteq Change,
         NEW u \in RowUnit, Complete(L, u.state), u.deleted => u.state = {}
  PROVE  /\ ApplyUnit(L, s, u) \in StoredRow
         /\ ApplyUnit(L, s, u).deleted = (s.deleted \/ u.deleted)
         /\ Reconstructs(ApplyUnit(L, s, u))
         /\ Stored(L, ApplyUnit(L, s, u)) =
              IF s.deleted THEN Stored(L, s) ELSE Stored(L, s) \cup u.state
<1> DEFINE t == ApplyUnit(L, s, u)
<1>1. CASE u.state = {}
  <2>1. t = IF u.deleted THEN [s EXCEPT !.deleted = TRUE] ELSE s
    BY <1>1 DEF ApplyUnit, MergeMetadata
  <2>2. /\ t \in StoredRow /\ t.base = s.base /\ t.incs = s.incs
        /\ t.deleted = (s.deleted \/ u.deleted)
    BY <2>1 DEF StoredRow, RowUnit
  <2>3. Stored(L, t) = Stored(L, s)
    BY <2>2 DEF Stored
  <2> QED
    BY <1>1, <2>2, <2>3 DEF Reconstructs
<1>2. CASE u.state # {} /\ s.deleted
  <2>1. t = s
    BY <1>2 DEF ApplyUnit, MergeState, AsSnapshot
  <2> QED
    BY <1>2, <2>1 DEF StoredRow, RowUnit
<1>3. CASE u.state # {} /\ ~s.deleted
  <2>1. u.deleted = FALSE /\ s.deleted = FALSE
    BY <1>3 DEF RowUnit, StoredRow
  <2>2. t = [s EXCEPT !.base = Document(L, s) \cup u.state, !.incs = {}]
    BY <1>3, <2>1 DEF ApplyUnit, MergeState, AsSnapshot
  <2>3. Document(L, s) = Stored(L, s)
    BY <2>1, DocumentIsStored
  <2> DEFINE B == Stored(L, s) \cup u.state
  <2>4. B \in SUBSET Change
    BY DEF Complete, RowUnit
  <2>5. t = [s EXCEPT !.base = B, !.incs = {}]
    BY <2>2, <2>3
  <2> HIDE DEF B, t
  <2>6. /\ t \in StoredRow /\ t.deleted = FALSE
        /\ t.base = B /\ t.incs = {}
    BY <2>1, <2>4, <2>5 DEF StoredRow
  <2>7. Stored(L, t) = B
    BY <2>6 DEF Stored, Payloads
  <2> QED
    BY <1>3, <2>1, <2>6, <2>7 DEF Reconstructs, t, B
<1> QED
  BY <1>1, <1>2, <1>3

-----------------------------------------------------------------------------
(* What each action does to what the replicas hold *)

\* The three facts an action's proof starts from, for one row.
LEMMA RowFacts ==
  ASSUME IInv, NEW r \in Replica, NEW w \in Row
  PROVE  /\ store[r][w] \in StoredRow
         /\ Reconstructs(store[r][w])
         /\ Complete(log, Stored(log, store[r][w]))
BY DEF IInv, TypeOK, Readable, CausallyComplete

\* One change joins one row of a replica,
Writes(r, w, c) ==
  \A q \in Replica, v \in Row :
    /\ store'[q][v].deleted = store[q][v].deleted
    /\ Stored(log', store'[q][v]) = IF q = r /\ v = w
                                     THEN Stored(log, store[q][v]) \cup {c}
                                     ELSE Stored(log, store[q][v])

\* one row of it dies,
Deletes(r, w) ==
  /\ log' = log
  /\ \A q \in Replica, v \in Row :
       /\ store'[q][v].deleted = (store[q][v].deleted \/ (q = r /\ v = w))
       /\ Stored(log', store'[q][v]) = Stored(log, store[q][v])

\* one row of it takes a unit,
Receives(r, w, u) ==
  /\ log' = log
  /\ \A q \in Replica, v \in Row :
       /\ store'[q][v].deleted = (store[q][v].deleted \/ (q = r /\ v = w /\ u.deleted))
       /\ Stored(log', store'[q][v]) =
            IF q = r /\ v = w /\ ~store[q][v].deleted
            THEN Stored(log, store[q][v]) \cup u.state ELSE Stored(log, store[q][v])

\* or all of its rows the changes of a batch.
Stores(r, batch) ==
  /\ log' = log
  /\ \A q \in Replica, v \in Row :
       /\ store'[q][v].deleted = store[q][v].deleted
       /\ Stored(log', store'[q][v]) =
            IF q = r THEN Stored(log, store[q][v]) \cup Payloads(log, batch[v])
            ELSE Stored(log, store[q][v])

\* A statement adds its change to one row and disturbs no other row.
LEMMA WriteEffect ==
  ASSUME IInv, NEW r \in Replica, NEW w \in Row, NEW c \in Change,
         NEW cols \in SUBSET Column, Write(r, w, c, cols), store[r][w].deleted = FALSE
  PROVE  IInv' /\ Writes(r, w, c)
<1> DEFINE s == store[r][w]
           D == Document(log, s)
<1>1. /\ c \notin DOMAIN log
      /\ log' = Authored(log, c, w, D, cols)
      /\ store' = [store EXCEPT ![r][w] = MergeRow(log, s, c)]
  BY DEF Write
<1>2. s \in StoredRow /\ Reconstructs(s) /\ Complete(log, Stored(log, s))
  BY RowFacts
<1>3. D = Stored(log, s)
  BY <1>2, DocumentIsStored
<1> HIDE DEF D
<1>4. /\ MergeRow(log, s, c) \in StoredRow
      /\ MergeRow(log, s, c).deleted = FALSE
      /\ Reconstructs(MergeRow(log, s, c))
      /\ Stored(log', MergeRow(log, s, c)) = Stored(log, s) \cup {c}
      /\ Complete(log', Stored(log, s) \cup {c})
  <2> DEFINE G == Authored(log, c, w, Document(log, s), cols)
  <2>1. log' = G
    BY <1>1 DEF D
  <2> HIDE DEF s
  <2>2. s.deleted = FALSE
    BY DEF s
  <2>3. /\ MergeRow(log, s, c) \in StoredRow
        /\ MergeRow(log, s, c).deleted = FALSE
        /\ Reconstructs(MergeRow(log, s, c))
        /\ Stored(G, MergeRow(log, s, c)) = Stored(log, s) \cup {c}
        /\ Complete(G, Stored(log, s) \cup {c})
    BY <1>1, <1>2, <2>2, MergeRowFacts
  <2> QED
    BY <2>1, <2>3
<1>5. \A q \in Replica, v \in Row :
        store'[q][v] = IF q = r /\ v = w THEN MergeRow(log, s, c) ELSE store[q][v]
  BY <1>1 DEF IInv, TypeOK
<1>6. \A q \in Replica, v \in Row :
        Stored(log', store'[q][v]) = IF q = r /\ v = w
                                     THEN Stored(log, store[q][v]) \cup {c}
                                     ELSE Stored(log, store[q][v])
  <2> SUFFICES ASSUME NEW q \in Replica, NEW v \in Row
               PROVE  Stored(log', store'[q][v]) = IF q = r /\ v = w
                                                   THEN Stored(log, store[q][v]) \cup {c}
                                                   ELSE Stored(log, store[q][v])
    OBVIOUS
  <2>1. CASE q = r /\ v = w
    BY <1>4, <1>5, <2>1
  <2>2. CASE ~(q = r /\ v = w)
    <3>1. store'[q][v] = store[q][v]
      BY <1>5, <2>2
    <3>2. Complete(log, Stored(log, store[q][v]))
      BY RowFacts
    <3>3. Stored(log', store[q][v]) = Stored(log, store[q][v])
      BY <1>1, <3>2, StoredStable
    <3> QED
      BY <2>2, <3>1, <3>3
  <2> QED
    BY <2>1, <2>2
<1>7. TypeOK'
  <2>1. store' \in [Replica -> [Row -> StoredRow]]
    BY <1>1, <1>4 DEF IInv, TypeOK
  <2>2. D \subseteq DOMAIN log
    BY <1>2, <1>3 DEF Complete
  <2>3. [row |-> w, past |-> D, cols |-> cols] \in Authors
    BY <2>2 DEF Authors, IInv, TypeOK
  <2>4. DOMAIN log' = DOMAIN log \cup {c}
    BY <1>1 DEF Authored
  <2>5. log' \in [DOMAIN log' -> Authors]
    BY <1>1, <2>3, <2>4 DEF Authored, IInv, TypeOK
  <2> QED
    BY <2>1, <2>4, <2>5 DEF IInv, TypeOK
<1>8. Readable'
  BY <1>4, <1>5, RowFacts DEF Readable
<1>9. CausallyComplete'
  <2>1. \A q \in Replica, v \in Row : Complete(log', Stored(log', store'[q][v]))
    <3> SUFFICES ASSUME NEW q \in Replica, NEW v \in Row
                 PROVE  Complete(log', Stored(log', store'[q][v]))
      OBVIOUS
    <3>1. Complete(log, Stored(log, store[q][v]))
      BY RowFacts
    <3>2. Complete(log', Stored(log, store[q][v]))
      BY <1>1, <3>1, CompleteStable
    <3> QED
      BY <1>4, <1>6, <3>2
  <2>2. ASSUME NEW d \in DOMAIN log'
        PROVE  Complete(log', log'[d].past)
    <3>1. CASE d = c
      <4>1. log'[d].past = D
        BY <1>1, <3>1 DEF Authored
      <4> QED
        BY <1>1, <1>2, <1>3, <4>1, CompleteStable
    <3>2. CASE d # c
      <4>1. d \in DOMAIN log /\ log'[d] = log[d]
        BY <1>1, <3>2 DEF Authored
      <4>2. Complete(log, log[d].past)
        BY <4>1 DEF IInv, CausallyComplete
      <4> QED
        BY <1>1, <4>1, <4>2, CompleteStable
    <3> QED
      BY <3>1, <3>2
  <2> QED
    BY <2>1, <2>2 DEF CausallyComplete
<1> QED
  <2>1. \A q \in Replica, v \in Row : store'[q][v].deleted = store[q][v].deleted
    BY <1>4, <1>5
  <2>2. Writes(r, w, c)
    BY <1>6, <2>1 DEF Writes
  <2> QED
    BY <1>7, <1>8, <1>9, <2>2 DEF IInv

\* A deletion sets one row's tombstone and keeps its entries.
LEMMA DeleteEffect ==
  ASSUME IInv, NEW r \in Replica, NEW w \in Row, Delete(r, w)
  PROVE  IInv' /\ Deletes(r, w)
<1> DEFINE s == store[r][w]
           t == RemoveRow(s)
<1>1. log' = log /\ store' = [store EXCEPT ![r][w] = t]
  BY DEF Delete
<1>2. s \in StoredRow
  BY RowFacts
<1>3. t \in StoredRow /\ t.base = s.base /\ t.incs = s.incs /\ t.deleted = TRUE
  BY <1>2 DEF RemoveRow, StoredRow
<1> HIDE DEF t
<1>4. \A q \in Replica, v \in Row :
        store'[q][v] = IF q = r /\ v = w THEN t ELSE store[q][v]
  BY <1>1 DEF IInv, TypeOK
<1>5. \A q \in Replica, v \in Row :
        /\ Stored(log', store'[q][v]) = Stored(log, store[q][v])
        /\ Reconstructs(store'[q][v])
        /\ store'[q][v].deleted = (store[q][v].deleted \/ (q = r /\ v = w))
  <2> SUFFICES ASSUME NEW q \in Replica, NEW v \in Row
               PROVE  /\ Stored(log', store'[q][v]) = Stored(log, store[q][v])
                      /\ Reconstructs(store'[q][v])
                      /\ store'[q][v].deleted = (store[q][v].deleted \/ (q = r /\ v = w))
    OBVIOUS
  <2>1. store[q][v] \in StoredRow /\ Reconstructs(store[q][v])
    BY RowFacts
  <2>2. /\ store'[q][v].base = store[q][v].base
        /\ store'[q][v].incs = store[q][v].incs
        /\ store'[q][v].deleted = (store[q][v].deleted \/ (q = r /\ v = w))
    BY <1>3, <1>4, <2>1 DEF StoredRow
  <2> QED
    BY <1>1, <2>1, <2>2 DEF Stored, Reconstructs
<1>6. TypeOK'
  BY <1>1, <1>3 DEF IInv, TypeOK
<1>7. CausallyComplete'
  BY <1>1, <1>5 DEF CausallyComplete, IInv
<1> QED
  BY <1>1, <1>5, <1>6, <1>7 DEF IInv, Readable, Deletes

\* A received unit adds its state to a live row, and its tombstone.
LEMMA ApplyStateEffect ==
  ASSUME IInv, NEW r \in Replica, NEW w \in Row,
         NEW u \in [state : States(w), deleted : BOOLEAN], ApplyState(r, w, u)
  PROVE  IInv' /\ Receives(r, w, u)
<1> DEFINE s == store[r][w]
           t == ApplyUnit(log, s, u)
<1>1. log' = log /\ store' = [store EXCEPT ![r][w] = t]
  BY DEF ApplyState
<1>2. s \in StoredRow /\ Reconstructs(s) /\ Complete(log, Stored(log, s))
  BY RowFacts
<1>3. DOMAIN log \subseteq Change
  BY DEF IInv, TypeOK
<1>4. u \in RowUnit /\ Complete(log, u.state) /\ (u.deleted => u.state = {})
  BY <1>3 DEF ApplyState, States, RowChanges, RowUnit
<1>5. /\ t \in StoredRow
      /\ t.deleted = (s.deleted \/ u.deleted)
      /\ Reconstructs(t)
      /\ Stored(log, t) = IF s.deleted THEN Stored(log, s) ELSE Stored(log, s) \cup u.state
  <2> HIDE DEF s
  <2> QED
    BY <1>2, <1>3, <1>4, ApplyUnitFacts
<1>6. Complete(log, Stored(log, t))
  BY <1>2, <1>4, <1>5, CompleteUnion
<1> HIDE DEF t
<1>7. \A q \in Replica, v \in Row :
        store'[q][v] = IF q = r /\ v = w THEN t ELSE store[q][v]
  BY <1>1 DEF IInv, TypeOK
<1>8. TypeOK'
  BY <1>1, <1>5 DEF IInv, TypeOK
<1>9. Readable'
  BY <1>5, <1>7, RowFacts DEF Readable
<1>10. CausallyComplete'
  BY <1>1, <1>6, <1>7, RowFacts DEF CausallyComplete, IInv
<1>11. ASSUME NEW q \in Replica, NEW v \in Row
       PROVE  /\ store'[q][v].deleted = (store[q][v].deleted \/ (q = r /\ v = w /\ u.deleted))
              /\ Stored(log', store'[q][v]) =
                   IF q = r /\ v = w /\ ~store[q][v].deleted
                   THEN Stored(log, store[q][v]) \cup u.state ELSE Stored(log, store[q][v])
  <2>1. CASE q = r /\ v = w
    BY <1>1, <1>5, <1>7, <2>1
  <2>2. CASE ~(q = r /\ v = w)
    <3>1. store[q][v].deleted \in BOOLEAN
      BY RowFacts DEF StoredRow
    <3> QED
      BY <1>1, <1>7, <2>2, <3>1
  <2> QED
    BY <2>1, <2>2
<1> QED
  BY <1>1, <1>8, <1>9, <1>10, <1>11 DEF IInv, Receives

\* Stored changes join the incremental entries.
LEMMA AddChangesFacts ==
  ASSUME NEW s \in StoredRow, NEW C \in SUBSET Change
  PROVE  /\ AddChanges(s, C) \in StoredRow
         /\ AddChanges(s, C).base = s.base
         /\ AddChanges(s, C).incs = s.incs \cup C
         /\ AddChanges(s, C).deleted = s.deleted
BY DEF AddChanges, StoredRow

\* A batch that applies adds its payloads to each of its rows.
LEMMA ApplyChangesEffect ==
  ASSUME IInv, NEW r \in Replica, NEW batch \in [Row -> SUBSET Change], ApplyChanges(r, batch)
  PROVE  IInv' /\ Stores(r, batch)
<1>1. /\ log' = log
      /\ store' = [store EXCEPT ![r] = [w \in Row |-> AddChanges(store[r][w], batch[w])]]
  BY DEF ApplyChanges
<1>2. \A q \in Replica, v \in Row :
        store'[q][v] = IF q = r THEN AddChanges(store[q][v], batch[v]) ELSE store[q][v]
  BY <1>1 DEF IInv, TypeOK
<1>3. ASSUME NEW v \in Row
      PROVE  /\ store'[r][v] \in StoredRow
             /\ store'[r][v].deleted = store[r][v].deleted
             /\ Reconstructs(store'[r][v])
             /\ Stored(log, store'[r][v]) = Stored(log, store[r][v]) \cup Payloads(log, batch[v])
             /\ Complete(log, Stored(log, store'[r][v]))
  <2> DEFINE s == store[r][v]
             t == store'[r][v]
             new == batch[v] \ s.incs
             D == Document(log, s)
  <2>1. s \in StoredRow /\ Reconstructs(s) /\ Complete(log, Stored(log, s))
    BY RowFacts
  <2>2. /\ t \in StoredRow /\ t.base = s.base /\ t.incs = s.incs \cup new
        /\ t.deleted = s.deleted
    <3>1. t = AddChanges(s, batch[v]) /\ batch[v] \in SUBSET Change
      BY <1>2
    <3>2. s.incs \cup batch[v] = s.incs \cup new
      OBVIOUS
    <3> HIDE DEF s, t, new
    <3> QED
      BY <2>1, <3>1, <3>2, AddChangesFacts
  <2>3. /\ new \subseteq DOMAIN log
        /\ new # {} => D # {}
        /\ \A c \in new : log[c].past \subseteq D \cup Payloads(log, new)
    BY DEF ApplyChanges, BatchApplies, RowChanges
  <2>4. D \subseteq Stored(log, s)
    BY DocumentStored
  <2>5. Reconstructs(t)
    BY <2>1, <2>2, <2>3, HasSnapshot DEF Reconstructs
  <2>6. Stored(log, t) = Stored(log, s) \cup Payloads(log, new)
    BY <2>2 DEF Stored, Payloads
  <2>7. Stored(log, t) = Stored(log, s) \cup Payloads(log, batch[v])
    BY <2>6 DEF Stored, Payloads
  <2> HIDE DEF new, D, t
  <2>8. ASSUME NEW d \in Payloads(log, new)
        PROVE  d \in DOMAIN log /\ log[d].past \subseteq Stored(log, s) \cup Payloads(log, new)
    <3>1. PICK c \in new : d \in Payload(log, c)
      BY DEF Payloads
    <3>2. c \in DOMAIN log /\ log[c].past \subseteq Stored(log, s) \cup Payloads(log, new)
      BY <2>3, <2>4
    <3>3. CASE d = c
      BY <3>2, <3>3
    <3>4. CASE d # c
      <4>1. d \in log[c].past
        BY <3>1, <3>4 DEF Payload
      <4>2. Complete(log, log[c].past)
        BY <3>2 DEF IInv, CausallyComplete
      <4> QED
        BY <3>2, <4>1, <4>2 DEF Complete
    <3> QED
      BY <3>3, <3>4
  <2>9. Complete(log, Stored(log, t))
    BY <2>1, <2>6, <2>8 DEF Complete
  <2> QED
    BY <2>2, <2>5, <2>7, <2>9 DEF t
<1>4. TypeOK'
  <2>1. [w \in Row |-> AddChanges(store[r][w], batch[w])] \in [Row -> StoredRow]
    BY <1>2, <1>3
  <2> QED
    BY <1>1, <2>1 DEF IInv, TypeOK
<1>5. Readable'
  BY <1>2, <1>3, RowFacts DEF Readable
<1>6. CausallyComplete'
  BY <1>1, <1>2, <1>3, RowFacts DEF CausallyComplete, IInv
<1>7. ASSUME NEW q \in Replica, NEW v \in Row
      PROVE  /\ store'[q][v].deleted = store[q][v].deleted
             /\ Stored(log', store'[q][v]) =
                  IF q = r THEN Stored(log, store[q][v]) \cup Payloads(log, batch[v])
                  ELSE Stored(log, store[q][v])
  <2>1. CASE q = r
    BY <1>1, <1>3, <2>1
  <2>2. CASE q # r
    BY <1>1, <1>2, <2>2
  <2> QED
    BY <2>1, <2>2
<1> QED
  BY <1>1, <1>4, <1>5, <1>6, <1>7 DEF IInv, Stores

-----------------------------------------------------------------------------
(* The inductive invariant *)

\* INSERT, UPDATE and a resolution are each one Write on a row that is not
\* deleted.
LEMMA StatementWrites ==
  ASSUME NEW r \in Replica, NEW w \in Row, NEW c \in Change, IInv,
         \/ Insert(r, w, c)
         \/ \E cols \in SUBSET Column \ {{}} : Update(r, w, c, cols) \/ Resolve(r, w, c, cols)
  PROVE  \E cols \in SUBSET Column : Write(r, w, c, cols) /\ store[r][w].deleted = FALSE
<1>1. store[r][w].deleted \in BOOLEAN
  BY RowFacts DEF StoredRow
<1>2. CASE Insert(r, w, c)
  BY <1>1, <1>2 DEF Insert, CanInsert
<1>3. CASE \E cols \in SUBSET Column \ {{}} : Update(r, w, c, cols) \/ Resolve(r, w, c, cols)
  <2>1. PICK cols \in SUBSET Column : Update(r, w, c, cols) \/ Resolve(r, w, c, cols)
    BY <1>3
  <2>2. Write(r, w, c, cols) /\ Document(log, store[r][w]) # {}
    BY <2>1 DEF Update, Resolve, CanUpdate, CanResolve
  <2> QED
    BY <1>1, <2>2 DEF Document
<1> QED
  BY <1>2, <1>3

\* The disjuncts of Next, with the operations on one row together.
LEMMA NextCases ==
  ASSUME Next, IInv
  PROVE  \/ \E r \in Replica, w \in Row, c \in Change : \E cols \in SUBSET Column :
              Write(r, w, c, cols) /\ store[r][w].deleted = FALSE
         \/ \E r \in Replica, w \in Row : Delete(r, w)
         \/ \E r \in Replica, w \in Row :
              \E u \in [state : States(w), deleted : BOOLEAN] : ApplyState(r, w, u)
         \/ \E r \in Replica : \E batch \in [Row -> SUBSET Change] : ApplyChanges(r, batch)
<1> DEFINE Wrote == \E r \in Replica, w \in Row, c \in Change : \E cols \in SUBSET Column :
                      Write(r, w, c, cols) /\ store[r][w].deleted = FALSE
<1>1. ASSUME NEW r \in Replica, NEW w \in Row, NEW c \in Change,
             \/ Insert(r, w, c)
             \/ \E cols \in SUBSET Column \ {{}} : Update(r, w, c, cols) \/ Resolve(r, w, c, cols)
      PROVE  Wrote
  <2>1. \E cols \in SUBSET Column : Write(r, w, c, cols) /\ store[r][w].deleted = FALSE
    BY <1>1, StatementWrites
  <2> QED
    BY <2>1
<1> HIDE DEF Wrote
<1>2. \/ Wrote
      \/ \E r \in Replica, w \in Row : Delete(r, w)
      \/ \E r \in Replica, w \in Row :
           \E u \in [state : States(w), deleted : BOOLEAN] : ApplyState(r, w, u)
      \/ \E r \in Replica : \E batch \in [Row -> SUBSET Change] : ApplyChanges(r, batch)
  BY <1>1 DEF Next
<1> QED
  BY <1>2 DEF Wrote

\* Nothing is stored and nothing authored at first.
LEMMA InitInvariant == Init => IInv
<1> SUFFICES ASSUME Init
             PROVE  IInv
  OBVIOUS
<1>1. log = [c \in {} |-> {}] /\ DOMAIN log = {}
  BY DEF Init
<1>2. NoRow \in StoredRow /\ Reconstructs(NoRow) /\ Stored(log, NoRow) = {}
  BY DEF NoRow, StoredRow, Reconstructs, Stored, Payloads
<1>3. \A r \in Replica, w \in Row : store[r][w] = NoRow
  BY DEF Init
<1>4. TypeOK
  <2>1. log \in [DOMAIN log -> Authors]
    BY <1>1
  <2> QED
    BY <1>1, <1>2, <2>1 DEF Init, TypeOK
<1>5. Readable /\ CausallyComplete
  BY <1>1, <1>2, <1>3 DEF Readable, CausallyComplete, Complete
<1> QED
  BY <1>4, <1>5 DEF IInv

\* Every step keeps the invariant.
LEMMA StepInvariant == IInv /\ [Next]_vars => IInv'
<1> SUFFICES ASSUME IInv, [Next]_vars
             PROVE  IInv'
  OBVIOUS
<1>1. CASE UNCHANGED vars
  BY <1>1 DEF vars, IInv, TypeOK, Readable, CausallyComplete
<1>2. CASE Next
  BY <1>2, NextCases, WriteEffect, DeleteEffect, ApplyStateEffect, ApplyChangesEffect
<1> QED
  BY <1>1, <1>2

\* The invariant of every behaviour.
THEOREM Invariance == Spec => []IInv
BY InitInvariant, StepInvariant, PTL DEF Spec

\* Rows, snapshots, keys and the change log are always of their types.
THEOREM TypeCorrect == Spec => []TypeOK
<1>1. IInv => TypeOK
  BY DEF IInv
<1> QED
  BY <1>1, Invariance, PTL

\* A replica can always reconstruct every row it stores: merging snapshots
\* (merge_state), writing (merge_row) and receiving (apply_change) never leave
\* incremental entries without a snapshot.
THEOREM AlwaysReadable == Spec => []Readable
<1>1. IInv => Readable
  BY DEF IInv
<1> QED
  BY <1>1, Invariance, PTL

\* A replica never stores a change without the changes its author had seen.
THEOREM AlwaysComplete == Spec => []CausallyComplete
<1>1. IInv => CausallyComplete
  BY DEF IInv
<1> QED
  BY <1>1, Invariance, PTL

-----------------------------------------------------------------------------
(* Replication implements RowHistory *)

\* The state functions the refinement maps the abstract variables to.
Past == [c \in DOMAIN log |-> log[c].past]
Known == [r \in Replica |-> [w \in Row |-> Stored(log, store[r][w])]]
Dead == [r \in Replica |-> {w \in Row : store[r][w].deleted}]

\* A statement is the authoring of its change on all that the replica knows.
LEMMA WriteAuthors ==
  ASSUME IInv, NEW r \in Replica, NEW w \in Row, NEW c \in Change,
         NEW cols \in SUBSET Column, Write(r, w, c, cols), store[r][w].deleted = FALSE
  PROVE  History!Author(r, w, c)
<1>1. w \notin Dead[r]
  BY DEF Dead
<1>2. c \notin DOMAIN Past
  BY DEF Past, Write
<1>3. Past' = [d \in DOMAIN Past \cup {c} |-> IF d = c THEN Known[r][w] ELSE Past[d]]
  <2>1. Document(log, store[r][w]) = Stored(log, store[r][w])
    BY RowFacts, DocumentIsStored
  <2>2. log' = Authored(log, c, w, Stored(log, store[r][w]), cols)
    BY <2>1 DEF Write
  <2>3. DOMAIN log' = DOMAIN log \cup {c}
    BY <2>2 DEF Authored
  <2>4. Known[r][w] = Stored(log, store[r][w])
    BY DEF Known
  <2>5. \A d \in DOMAIN log' :
          log'[d].past = IF d = c THEN Known[r][w] ELSE log[d].past
    BY <2>2, <2>4 DEF Authored
  <2>6. DOMAIN Past = DOMAIN log
    BY DEF Past
  <2>7. \A d \in DOMAIN log : Past[d] = log[d].past
    BY DEF Past
  <2>8. \A d \in DOMAIN log' :
          log'[d].past = IF d = c THEN Known[r][w] ELSE Past[d]
    BY <2>3, <2>5, <2>7
  <2> QED
    BY <2>3, <2>6, <2>8 DEF Past
<1>4. Writes(r, w, c)
  BY WriteEffect
<1>5. Known' = [Known EXCEPT ![r][w] = @ \cup {c}]
  <2>1. \A q \in Replica, v \in Row :
          Stored(log', store'[q][v]) = IF q = r /\ v = w
                                       THEN Stored(log, store[q][v]) \cup {c}
                                       ELSE Stored(log, store[q][v])
    BY <1>4 DEF Writes
  <2>2. Known' = [q \in Replica |-> [v \in Row |-> IF q = r /\ v = w
                                                   THEN Stored(log, store[q][v]) \cup {c}
                                                   ELSE Stored(log, store[q][v])]]
    BY <2>1 DEF Known
  <2> QED
    BY <2>2 DEF Known
<1>6. UNCHANGED Dead
  BY <1>4 DEF Writes, Dead
<1> QED
  BY <1>1, <1>2, <1>3, <1>5, <1>6 DEF History!Author, Past, Known, Dead

\* A DELETE is a deletion of a row that is known and alive.
LEMMA DeleteDeletes ==
  ASSUME IInv, NEW r \in Replica, NEW w \in Row, Delete(r, w)
  PROVE  History!Delete(r, w)
<1>1. store[r][w] \in StoredRow /\ Document(log, store[r][w]) # {}
  BY RowFacts DEF Delete
<1>2. w \notin Dead[r] /\ Known[r][w] # {}
  BY <1>1, DocumentStored DEF Dead, Known, Document
<1>3. Deletes(r, w)
  BY DeleteEffect
<1>4. Dead' = [Dead EXCEPT ![r] = @ \cup {w}]
  <2>1. \A q \in Replica : {v \in Row : store'[q][v].deleted}
          = IF q = r THEN {v \in Row : store[q][v].deleted} \cup {w}
            ELSE {v \in Row : store[q][v].deleted}
    BY <1>3 DEF Deletes
  <2> QED
    BY <2>1 DEF Dead
<1>5. UNCHANGED <<Past, Known>>
  BY <1>3 DEF Deletes, Past, Known
<1> QED
  BY <1>2, <1>4, <1>5 DEF History!Delete, Past, Known, Dead

\* A received unit is learning its changes (none when the row is dead here),
\* and the death it carries, which some replica has seen.
LEMMA ApplyStateLearns ==
  ASSUME IInv, NEW r \in Replica, NEW w \in Row,
         NEW u \in [state : States(w), deleted : BOOLEAN], ApplyState(r, w, u)
  PROVE  \E learned \in [Row -> SUBSET Change], died \in SUBSET Row : History!Learn(r, learned, died)
<1> DEFINE gain == IF store[r][w].deleted THEN {} ELSE u.state
           learned == [v \in Row |-> IF v = w THEN gain ELSE {}]
           died == IF u.deleted THEN {w} ELSE {}
<1>1. Receives(r, w, u)
  BY ApplyStateEffect
<1>2. gain \subseteq DOMAIN log /\ Complete(log, gain)
  BY DEF States, RowChanges, Complete
<1>3. learned \in [Row -> SUBSET Change] /\ died \in SUBSET Row
  BY <1>2 DEF IInv, TypeOK
<1>4. \A v \in Row : /\ learned[v] \subseteq DOMAIN log
                     /\ Complete(log, Stored(log, store[r][v]) \cup learned[v])
  <2> SUFFICES ASSUME NEW v \in Row
               PROVE  /\ learned[v] \subseteq DOMAIN log
                      /\ Complete(log, Stored(log, store[r][v]) \cup learned[v])
    OBVIOUS
  <2>1. learned[v] \subseteq DOMAIN log /\ Complete(log, learned[v])
    BY <1>2 DEF Complete
  <2>2. Complete(log, Stored(log, store[r][v]))
    BY RowFacts
  <2> QED
    BY <2>1, <2>2, CompleteUnion
<1>5. \A v \in died : \E q \in Replica : v \in Dead[q]
  BY DEF ApplyState, Dead
<1>6. Known' = [Known EXCEPT ![r] = [v \in Row |-> @[v] \cup learned[v]]]
  <2>1. \A q \in Replica, v \in Row :
          Stored(log', store'[q][v]) = IF q = r THEN Stored(log, store[q][v]) \cup learned[v]
                                       ELSE Stored(log, store[q][v])
    BY <1>1 DEF Receives
  <2> HIDE DEF learned
  <2> QED
    BY <2>1 DEF Known
<1>7. Dead' = [Dead EXCEPT ![r] = @ \cup died]
  <2>1. \A q \in Replica : {v \in Row : store'[q][v].deleted}
          = IF q = r THEN {v \in Row : store[q][v].deleted} \cup died
            ELSE {v \in Row : store[q][v].deleted}
    BY <1>1 DEF Receives
  <2> QED
    BY <2>1 DEF Dead
<1>8. UNCHANGED Past
  BY <1>1 DEF Receives, Past
<1>9. \A v \in Row : /\ learned[v] \subseteq DOMAIN Past
                     /\ History!Complete(Past, Known[r][v] \cup learned[v])
  BY <1>4 DEF Complete, History!Complete, Past, Known
<1> HIDE DEF learned, died
<1>10. PICK gained \in [Row -> SUBSET Change], lost \in SUBSET Row :
         gained = learned /\ lost = died
  BY <1>3
<1>11. History!Learn(r, gained, lost)
  BY <1>5, <1>6, <1>7, <1>8, <1>9, <1>10 DEF History!Learn, Past, Known, Dead
<1> QED
  BY <1>11

\* A batch is learning the payloads of its changes.
LEMMA ApplyChangesLearns ==
  ASSUME IInv, NEW r \in Replica, NEW batch \in [Row -> SUBSET Change], ApplyChanges(r, batch)
  PROVE  \E learned \in [Row -> SUBSET Change], died \in SUBSET Row : History!Learn(r, learned, died)
<1> DEFINE learned == [v \in Row |-> Payloads(log, batch[v])]
<1>1. IInv' /\ Stores(r, batch)
  BY ApplyChangesEffect
<1>2. \A v \in Row : Complete(log, Stored(log, store[r][v]) \cup Payloads(log, batch[v]))
  BY <1>1 DEF IInv, CausallyComplete, Stores
<1>3. learned \in [Row -> SUBSET Change]
  BY <1>2 DEF Complete, IInv, TypeOK
<1>4. \A v \in Row : /\ learned[v] \subseteq DOMAIN Past
                     /\ History!Complete(Past, Known[r][v] \cup learned[v])
  BY <1>2 DEF Complete, History!Complete, Past, Known
<1>5. Known' = [Known EXCEPT ![r] = [v \in Row |-> @[v] \cup learned[v]]]
  BY <1>1 DEF Stores, Known
<1>6. Dead' = [Dead EXCEPT ![r] = @ \cup {}]
  BY <1>1 DEF Stores, Dead
<1>7. UNCHANGED Past
  BY <1>1 DEF Stores, Past
<1> HIDE DEF learned
<1>8. PICK gained \in [Row -> SUBSET Change] : gained = learned
  BY <1>3
<1>9. History!Learn(r, gained, {})
  BY <1>4, <1>5, <1>6, <1>7, <1>8 DEF History!Learn, Past, Known, Dead
<1>10. {} \in SUBSET Row
  OBVIOUS
<1> QED
  BY <1>9, <1>10

\* Every step is a step of the abstract history.
LEMMA NextImplements ==
  ASSUME IInv, Next
  PROVE  History!Next
<1>1. ASSUME NEW r \in Replica, NEW w \in Row, NEW c \in Change, NEW cols \in SUBSET Column,
             Write(r, w, c, cols), store[r][w].deleted = FALSE
      PROVE  History!Next
  BY <1>1, WriteAuthors DEF History!Next
<1>2. ASSUME NEW r \in Replica, NEW w \in Row, Delete(r, w)
      PROVE  History!Next
  BY <1>2, DeleteDeletes DEF History!Next
<1>3. ASSUME NEW r \in Replica, NEW w \in Row,
             NEW u \in [state : States(w), deleted : BOOLEAN], ApplyState(r, w, u)
      PROVE  History!Next
  BY <1>3, ApplyStateLearns DEF History!Next
<1>4. ASSUME NEW r \in Replica, NEW batch \in [Row -> SUBSET Change], ApplyChanges(r, batch)
      PROVE  History!Next
  BY <1>4, ApplyChangesLearns DEF History!Next
<1> QED
  BY <1>1, <1>2, <1>3, <1>4, NextCases

\* Replicas holding snapshots, incremental entries and metadata implement the
\* abstract history: each knows a growing complete set of changes of each row,
\* authored on all it knew, and deletions that no step undoes.
THEOREM Refinement == Spec => ImplementsHistory
<1>1. Init => History!Init
  <2> SUFFICES ASSUME Init
               PROVE  History!Init
    OBVIOUS
  <2>1. log = [c \in {} |-> {}] /\ DOMAIN log = {}
    BY DEF Init
  <2>2. \A r \in Replica, w \in Row :
          store[r][w].deleted = FALSE /\ Stored(log, store[r][w]) = {}
    BY DEF Init, NoRow, Stored, Payloads
  <2> QED
    BY <2>1, <2>2 DEF History!Init
<1>2. IInv /\ [Next]_vars => [History!Next]_(History!vars)
  <2>1. CASE UNCHANGED vars
    BY <2>1 DEF vars, History!vars
  <2>2. CASE Next
    BY <2>2, NextImplements
  <2> QED
    BY <2>1, <2>2
<1> QED
  BY <1>1, <1>2, Invariance, PTL DEF Spec, ImplementsHistory, History!Spec

\* What a replica stores of a row only grows.
LEMMA StoredGrows ==
  ASSUME IInv, [Next]_vars, NEW r \in Replica, NEW w \in Row
  PROVE  Stored(log, store[r][w]) \subseteq Stored(log', store'[r][w])
<1>1. CASE UNCHANGED vars
  BY <1>1 DEF vars
<1>2. CASE Next
  <2>1. ASSUME NEW q \in Replica, NEW v \in Row, NEW c \in Change,
               NEW cols \in SUBSET Column,
               Write(q, v, c, cols), store[q][v].deleted = FALSE
        PROVE  Stored(log, store[r][w]) \subseteq Stored(log', store'[r][w])
    <3>1. Writes(q, v, c)
      BY <2>1, WriteEffect
    <3> QED
      BY <3>1 DEF Writes
  <2>2. ASSUME NEW q \in Replica, NEW v \in Row, Delete(q, v)
        PROVE  Stored(log, store[r][w]) \subseteq Stored(log', store'[r][w])
    BY <2>2, DeleteEffect DEF Deletes
  <2>3. ASSUME NEW q \in Replica, NEW v \in Row,
               NEW u \in [state : States(v), deleted : BOOLEAN], ApplyState(q, v, u)
        PROVE  Stored(log, store[r][w]) \subseteq Stored(log', store'[r][w])
    <3>1. Receives(q, v, u)
      BY <2>3, ApplyStateEffect
    <3>2. Stored(log', store'[r][w]) = IF r = q /\ w = v /\ ~store[r][w].deleted
                                       THEN Stored(log, store[r][w]) \cup u.state
                                       ELSE Stored(log, store[r][w])
      BY <3>1 DEF Receives
    <3> QED
      BY <3>2
  <2>4. ASSUME NEW q \in Replica, NEW batch \in [Row -> SUBSET Change], ApplyChanges(q, batch)
        PROVE  Stored(log, store[r][w]) \subseteq Stored(log', store'[r][w])
    BY <2>4, ApplyChangesEffect DEF Stores
  <2> QED
    BY <1>2, <2>1, <2>2, <2>3, <2>4, NextCases
<1> QED
  BY <1>1, <1>2

\* A deletion is for ever, and nothing of the row is visible.
LEMMA DeletedStays ==
  ASSUME IInv, [Next]_vars, NEW r \in Replica, NEW w \in Row, store[r][w].deleted
  PROVE  store'[r][w].deleted /\ Document(log', store'[r][w]) = {}
<1>1. CASE UNCHANGED vars
  BY <1>1 DEF vars, Document
<1>2. CASE Next
  <2>1. ASSUME NEW q \in Replica, NEW v \in Row, NEW c \in Change,
               NEW cols \in SUBSET Column,
               Write(q, v, c, cols), store[q][v].deleted = FALSE
        PROVE  store'[r][w].deleted
    <3>1. store'[r][w].deleted = store[r][w].deleted
      <4>1. Writes(q, v, c)
        BY <2>1, WriteEffect
      <4> QED
        BY <4>1 DEF Writes
    <3> QED
      BY <3>1
  <2>2. ASSUME NEW q \in Replica, NEW v \in Row, Delete(q, v)
        PROVE  store'[r][w].deleted
    BY <2>2, DeleteEffect DEF Deletes
  <2>3. ASSUME NEW q \in Replica, NEW v \in Row,
               NEW u \in [state : States(v), deleted : BOOLEAN], ApplyState(q, v, u)
        PROVE  store'[r][w].deleted
    BY <2>3, ApplyStateEffect DEF Receives
  <2>4. ASSUME NEW q \in Replica, NEW batch \in [Row -> SUBSET Change], ApplyChanges(q, batch)
        PROVE  store'[r][w].deleted
    BY <2>4, ApplyChangesEffect DEF Stores
  <2>5. store'[r][w].deleted
    BY <1>2, <2>1, <2>2, <2>3, <2>4, NextCases
  <2> QED
    BY <2>5 DEF Document
<1> QED
  BY <1>1, <1>2

\* No step of a replica's own, no snapshot and no batch makes it lose a change:
\* knowledge only grows in the abstract history.
THEOREM NeverLoses == Spec => NoChangeLost
<1>1. IInv /\ [Next]_vars =>
        [\A r \in Replica, w \in Row :
           Stored(log, store[r][w]) \subseteq Stored(log', store'[r][w])]_vars
  BY StoredGrows
<1> QED
  BY <1>1, Invariance, PTL DEF Spec, NoChangeLost

\* A row deleted at a replica stays deleted and invisible there, whatever
\* arrives later and whatever is inserted under its primary key.
THEOREM StaysDeleted == Spec => TombstonePermanent
<1>1. IInv /\ [Next]_vars =>
        [\A r \in Replica, w \in Row :
           store[r][w].deleted => store'[r][w].deleted /\ Document(log', store'[r][w]) = {}]_vars
  BY DeletedStays
<1> QED
  BY <1>1, Invariance, PTL DEF Spec, TombstonePermanent

-----------------------------------------------------------------------------
(* Rows apart *)

\* What is stored of a row, and what the authors of its changes had seen, are
\* changes of that row.
RowsApart ==
  /\ \A c \in DOMAIN log : log[c].past \subseteq RowChanges(log[c].row)
  /\ \A r \in Replica, w \in Row : Stored(log, store[r][w]) \subseteq RowChanges(w)

\* A written change is one of its row, and so is all its author had seen.
LEMMA WriteApart ==
  ASSUME IInv, RowsApart, NEW r \in Replica, NEW w \in Row, NEW c \in Change,
         NEW cols \in SUBSET Column, Write(r, w, c, cols), store[r][w].deleted = FALSE
  PROVE  RowsApart'
<1> DEFINE D == Document(log, store[r][w])
<1>1. /\ c \notin DOMAIN log
      /\ log' = [d \in DOMAIN log \cup {c} |->
                   IF d = c THEN [row |-> w, past |-> D, cols |-> cols] ELSE log[d]]
  BY DEF Write, Authored
<1>2. D \subseteq RowChanges(w)
  BY DocumentStored DEF RowsApart
<1>3. D \subseteq DOMAIN log /\ \A d \in D : log[d].row = w
  BY <1>2 DEF RowChanges
<1>4. ASSUME NEW d \in DOMAIN log', NEW e \in log'[d].past
      PROVE  e \in DOMAIN log' /\ log'[e].row = log'[d].row
  <2>1. CASE d = c
    BY <2>1, <1>1, <1>3, <1>4
  <2>2. CASE d # c
    <3>1. d \in DOMAIN log /\ log'[d] = log[d] /\ e \in log[d].past
      BY <2>2, <1>1, <1>4
    <3>2. e \in DOMAIN log /\ log[e].row = log[d].row
      BY <3>1 DEF RowsApart, RowChanges
    <3> QED BY <1>1, <3>1, <3>2
  <2> QED BY <2>1, <2>2
<1>5. Writes(r, w, c)
  BY WriteEffect
<1>6. ASSUME NEW q \in Replica, NEW v \in Row, NEW e \in Stored(log', store'[q][v])
      PROVE  e \in DOMAIN log' /\ log'[e].row = v
  <2>1. e \in Stored(log, store[q][v]) \/ (q = r /\ v = w /\ e = c)
    BY <1>5, <1>6 DEF Writes
  <2>2. e \in Stored(log, store[q][v]) => e \in DOMAIN log /\ log[e].row = v
    BY DEF RowsApart, RowChanges
  <2> QED BY <2>1, <2>2, <1>1
<1> QED BY <1>4, <1>6 DEF RowsApart, RowChanges

\* Every operation keeps rows apart.
LEMMA ApartStep == IInv /\ RowsApart /\ [Next]_vars => RowsApart'
<1> SUFFICES ASSUME IInv, RowsApart, [Next]_vars
             PROVE  RowsApart'
  OBVIOUS
<1>1. CASE UNCHANGED vars
  BY <1>1 DEF vars, RowsApart, RowChanges
<1>2. ASSUME NEW r \in Replica, NEW w \in Row, NEW c \in Change, NEW cols \in SUBSET Column,
             Write(r, w, c, cols), store[r][w].deleted = FALSE
      PROVE  RowsApart'
  BY <1>2, WriteApart
<1>3. ASSUME log' = log,
             \A q \in Replica, v \in Row : Stored(log', store'[q][v]) \subseteq RowChanges(v)
      PROVE  RowsApart'
  BY <1>3 DEF RowsApart, RowChanges
<1>4. ASSUME NEW r \in Replica, NEW w \in Row, Delete(r, w)
      PROVE  RowsApart'
  BY <1>3, <1>4, DeleteEffect DEF RowsApart, Deletes
<1>5. ASSUME NEW r \in Replica, NEW w \in Row,
             NEW u \in [state : States(w), deleted : BOOLEAN], ApplyState(r, w, u)
      PROVE  RowsApart'
  <2>1. u.state \subseteq RowChanges(w)
    BY DEF States
  <2>2. log' = log /\ \A q \in Replica, v \in Row :
          Stored(log', store'[q][v]) = IF q = r /\ v = w /\ ~store[q][v].deleted
                                       THEN Stored(log, store[q][v]) \cup u.state
                                       ELSE Stored(log, store[q][v])
    BY <1>5, ApplyStateEffect DEF Receives
  <2>3. \A q \in Replica, v \in Row : Stored(log, store[q][v]) \subseteq RowChanges(v)
    BY DEF RowsApart
  <2>4. \A q \in Replica, v \in Row : Stored(log', store'[q][v]) \subseteq RowChanges(v)
    BY <2>1, <2>2, <2>3
  <2> QED BY <1>3, <2>2, <2>4
<1>6. ASSUME NEW r \in Replica, NEW batch \in [Row -> SUBSET Change], ApplyChanges(r, batch)
      PROVE  RowsApart'
  <2>1. ASSUME NEW w \in Row
        PROVE  Payloads(log, batch[w]) \subseteq RowChanges(w)
    <3>1. batch[w] \subseteq RowChanges(w)
      BY <1>6 DEF ApplyChanges
    <3>2. \A c \in RowChanges(w) : Payload(log, c) \subseteq RowChanges(w)
      BY DEF Payload, RowsApart, RowChanges
    <3> QED BY <3>1, <3>2 DEF Payloads
  <2>2. log' = log /\ \A q \in Replica, v \in Row :
          Stored(log', store'[q][v]) = IF q = r THEN Stored(log, store[q][v]) \cup Payloads(log, batch[v])
                                       ELSE Stored(log, store[q][v])
    BY <1>6, ApplyChangesEffect DEF Stores
  <2>3. \A q \in Replica, v \in Row : Stored(log, store[q][v]) \subseteq RowChanges(v)
    BY DEF RowsApart
  <2>4. \A q \in Replica, v \in Row : Stored(log', store'[q][v]) \subseteq RowChanges(v)
    BY <2>1, <2>2, <2>3
  <2> QED BY <1>3, <2>2, <2>4
<1> QED
  BY <1>1, <1>2, <1>4, <1>5, <1>6, NextCases

\* Nothing is stored at first.
LEMMA ApartInit == Init => RowsApart
<1> SUFFICES ASSUME Init
             PROVE  RowsApart
  OBVIOUS
<1>1. DOMAIN log = {} /\ \A r \in Replica, w \in Row : store[r][w] = NoRow
  BY DEF Init
<1>2. Stored(log, NoRow) = {}
  BY DEF Stored, Payloads, NoRow
<1> QED BY <1>1, <1>2 DEF RowsApart

\* A document never holds a change of another row, and no author of a change had
\* seen one: what a snapshot or a payload brings stays in its row.
THEOREM AlwaysApart == Spec => []RowsApart
BY ApartInit, ApartStep, InitInvariant, StepInvariant, Invariance, PTL DEF Spec

-----------------------------------------------------------------------------
(* Conflicts.  It takes two facts about the log that no document shows      *)
(* alone, and that are kept because a change is authored on a complete      *)
(* document and an update names no conflicted column of it.                 *)


\* A log whose changes' authors had seen all that the changes they had seen had.
Causal(L) == \A c \in DOMAIN L : Complete(L, L[c].past)

\* In a complete set, each write of a column is a candidate or was replaced by
\* one.
Topped(L) ==
  \A X \in SUBSET DOMAIN L, col \in Column :
    Complete(L, X) =>
      \A x \in X : col \in L[x].cols =>
        \E m \in Candidates(L, X, col) : m = x \/ x \in L[m].past

\* A change that replaces one of the candidates of a conflict and is no update.
Resolution(L, e, x, y, col) ==
  /\ {x, y} \subseteq L[e].past
  /\ col \in L[e].cols
  /\ L[e].cols \subseteq Conflicted(L, L[e].past)

\* Two writes of a column that have not seen each other.
Concurrent(L, x, y, col) ==
  /\ x # y /\ x \notin L[y].past /\ y \notin L[x].past
  /\ col \in L[x].cols /\ col \in L[y].cols

\* A write whose author had seen two concurrent ones is a resolution of them, or
\* the author had seen one.
Resolved(L) ==
  \A d \in DOMAIN L, col \in Column : \A x, y \in L[d].past :
    col \in L[d].cols /\ Concurrent(L, x, y, col) =>
      \E e \in L[d].past \cup {d} : Resolution(L, e, x, y, col)

\* What statements may write on a document.
Allowed(L, seen, cols) ==
  \/ seen = {}
  \/ cols \cap Conflicted(L, seen) = {}
  \/ cols \subseteq Conflicted(L, seen)

-----------------------------------------------------------------------------
(* Logs that grow *)

\* What was authored before is as it was.
LEMMA AuthoredSame ==
  ASSUME NEW L, Causal(L), NEW c, c \notin DOMAIN L, NEW w, NEW seen, NEW cols,
         NEW G, G = Authored(L, c, w, seen, cols)
  PROVE  /\ DOMAIN G = DOMAIN L \cup {c}
         /\ G[c].past = seen /\ G[c].cols = cols
         /\ \A d \in DOMAIN L : G[d] = L[d] /\ c # d
         /\ \A d \in DOMAIN L : c \notin L[d].past
BY DEF Authored, Causal, Complete

\* The conflicts of a set of changes are in their own entries.
LEMMA ConflictedSame ==
  ASSUME NEW L, NEW G, NEW X, \A d \in X : G[d] = L[d]
  PROVE  /\ \A col : Candidates(G, X, col) = Candidates(L, X, col)
         /\ Conflicted(G, X) = Conflicted(L, X)
<1>1. \A col : Candidates(G, X, col) = Candidates(L, X, col)
  BY DEF Candidates
<1> QED BY <1>1 DEF Conflicted

\* A new write replaces what its author had seen and nothing else.
LEMMA AuthoredTopped ==
  ASSUME NEW L, Causal(L), Topped(L), NEW c, c \notin DOMAIN L, NEW w,
         NEW seen, Complete(L, seen), NEW cols,
         NEW G, G = Authored(L, c, w, seen, cols)
  PROVE  Topped(G)
<1>1. /\ DOMAIN G = DOMAIN L \cup {c}
      /\ G[c].past = seen /\ G[c].cols = cols
      /\ \A d \in DOMAIN L : G[d] = L[d] /\ c # d
      /\ \A d \in DOMAIN L : c \notin L[d].past
  BY AuthoredSame
<1> SUFFICES ASSUME NEW X \in SUBSET DOMAIN G, NEW col \in Column, Complete(G, X),
                    NEW x \in X, col \in G[x].cols
             PROVE  \E m \in Candidates(G, X, col) : m = x \/ x \in G[m].past
  BY DEF Topped
<1> DEFINE Y == X \ {c}
<1>2. Y \in SUBSET DOMAIN L /\ \A d \in Y : G[d] = L[d]
  BY <1>1
<1>3. Complete(L, Y)
  BY <1>1, <1>2 DEF Complete
<1>4. c \notin seen /\ \A d \in X : c \notin G[d].past
  BY <1>1, <1>2 DEF Complete
<1>5. CASE x = c
  <2>1. c \in Candidates(G, X, col)
    BY <1>4, <1>5 DEF Candidates
  <2> QED BY <1>5, <2>1
<1>6. CASE x # c
  <2>1. x \in Y /\ col \in L[x].cols
    BY <1>2, <1>6
  <2>2. PICK m \in Candidates(L, Y, col) : m = x \/ x \in L[m].past
    BY <1>2, <1>3, <2>1 DEF Topped
  <2>3. m \in Y /\ col \in L[m].cols /\ \A d \in Y : col \in L[d].cols => m \notin L[d].past
    BY <2>2 DEF Candidates
  <2>4. CASE c \in X /\ col \in cols /\ m \in seen
    <3>1. x \in seen
      BY <2>2, <2>4 DEF Complete
    <3>2. c \in Candidates(G, X, col)
      BY <1>1, <1>4, <2>4 DEF Candidates
    <3> QED BY <1>1, <3>1, <3>2
  <2>5. CASE ~(c \in X /\ col \in cols /\ m \in seen)
    <3>1. m \in X /\ col \in G[m].cols /\ G[m] = L[m]
      BY <1>2, <2>3
    <3>2. ASSUME NEW d \in X, col \in G[d].cols PROVE m \notin G[d].past
      <4>1. CASE d = c
        BY <1>1, <2>5, <3>2, <4>1
      <4>2. CASE d # c
        BY <1>2, <2>3, <3>2, <4>2
      <4> QED BY <4>1, <4>2
    <3>3. m \in Candidates(G, X, col)
      BY <3>1, <3>2 DEF Candidates
    <3> QED BY <2>2, <3>1, <3>3
  <2> QED BY <2>4, <2>5
<1> QED BY <1>5, <1>6

\* A change that joins two concurrent writes first is a resolution.
LEMMA JoinResolves ==
  ASSUME NEW L, Topped(L), NEW seen \in SUBSET DOMAIN L, Complete(L, seen),
         NEW cols, Allowed(L, seen, cols), NEW col \in Column, col \in cols,
         NEW x \in seen, NEW y \in seen, Concurrent(L, x, y, col),
         \A f \in seen : col \in L[f].cols => ~({x, y} \subseteq L[f].past)
  PROVE  cols \subseteq Conflicted(L, seen)
<1>1. PICK m \in Candidates(L, seen, col) : m = x \/ x \in L[m].past
  BY DEF Topped, Concurrent
<1>2. PICK n \in Candidates(L, seen, col) : n = y \/ y \in L[n].past
  BY DEF Topped, Concurrent
<1>3. m \in seen /\ col \in L[m].cols
  BY DEF Candidates
<1>4. m # n
  BY <1>1, <1>2, <1>3 DEF Concurrent
<1>5. col \in Conflicted(L, seen)
  BY <1>4 DEF Conflicted
<1> QED BY <1>5 DEF Allowed

\* A statement's change keeps the log resolved.
LEMMA AuthoredResolved ==
  ASSUME NEW L, Causal(L), Topped(L), Resolved(L), NEW c, c \notin DOMAIN L, NEW w,
         NEW seen, Complete(L, seen), NEW cols, Allowed(L, seen, cols),
         NEW G, G = Authored(L, c, w, seen, cols)
  PROVE  Resolved(G)
<1>1. /\ DOMAIN G = DOMAIN L \cup {c}
      /\ G[c].past = seen /\ G[c].cols = cols
      /\ \A d \in DOMAIN L : G[d] = L[d] /\ c # d
      /\ \A d \in DOMAIN L : c \notin L[d].past
  BY DEF Authored, Causal, Complete
<1> SUFFICES ASSUME NEW d \in DOMAIN G, NEW col \in Column, NEW x \in G[d].past, NEW y \in G[d].past,
                    col \in G[d].cols, Concurrent(G, x, y, col)
             PROVE  \E e \in G[d].past \cup {d} : Resolution(G, e, x, y, col)
  BY DEF Resolved
<1>2. seen \in SUBSET DOMAIN L /\ \A f \in DOMAIN L : L[f].past \subseteq DOMAIN L
  BY DEF Complete, Causal
<1>3. x \in DOMAIN L /\ y \in DOMAIN L
  BY <1>1, <1>2
<1>4. Concurrent(L, x, y, col)
  BY <1>1, <1>3 DEF Concurrent
<1>5. ASSUME NEW f \in DOMAIN L, Resolution(L, f, x, y, col) PROVE Resolution(G, f, x, y, col)
  <2>1. \A h \in L[f].past : G[h] = L[h]
    BY <1>1, <1>2
  <2>2. Conflicted(G, L[f].past) = Conflicted(L, L[f].past)
    BY <2>1, ConflictedSame
  <2> QED BY <1>1, <1>5, <2>2 DEF Resolution
<1>6. ASSUME NEW f \in DOMAIN L, col \in L[f].cols, x \in L[f].past, y \in L[f].past
      PROVE  \E e \in L[f].past \cup {f} : Resolution(G, e, x, y, col)
  <2>1. PICK e \in L[f].past \cup {f} : Resolution(L, e, x, y, col)
    BY <1>4, <1>6 DEF Resolved
  <2> QED BY <1>2, <1>5, <2>1
<1>7. CASE d # c
  BY <1>1, <1>6, <1>7
<1>8. CASE d = c
  <2>1. CASE \E f \in seen : col \in L[f].cols /\ {x, y} \subseteq L[f].past
    <3>1. PICK f \in seen : col \in L[f].cols /\ {x, y} \subseteq L[f].past
      BY <2>1
    <3>2. L[f].past \subseteq seen
      BY DEF Complete
    <3> QED BY <1>1, <1>2, <1>6, <1>8, <3>1, <3>2
  <2>2. CASE ~\E f \in seen : col \in L[f].cols /\ {x, y} \subseteq L[f].past
    <3>1. cols \subseteq Conflicted(L, seen)
      BY <1>1, <1>2, <1>4, <1>8, <2>2, JoinResolves
    <3>2. Conflicted(G, seen) = Conflicted(L, seen)
      BY <1>1, <1>2, ConflictedSame
    <3> QED BY <1>1, <1>8, <3>1, <3>2 DEF Resolution
  <2> QED BY <2>1, <2>2
<1> QED BY <1>7, <1>8

\* What replaced one candidate of a conflict that is gone is a resolution.
LEMMA GoneByResolution ==
  ASSUME NEW L, NEW G, DOMAIN L \subseteq DOMAIN G, \A d \in DOMAIN L : G[d] = L[d],
         Topped(G), Resolved(G),
         NEW before \in SUBSET DOMAIN L, NEW after \in SUBSET DOMAIN G,
         Complete(G, after), before \subseteq after,
         NEW col \in Conflicted(L, before) \ Conflicted(G, after)
  PROVE  \E c \in after \ before :
           col \in G[c].cols /\ G[c].cols \subseteq Conflicted(G, G[c].past)
<1>1. PICK x \in Candidates(G, before, col), y \in Candidates(G, before, col) : x # y
  BY ConflictedSame DEF Conflicted
<1>2. /\ x \in after /\ y \in after /\ Concurrent(G, x, y, col)
      /\ \A d \in before : col \in G[d].cols => x \notin G[d].past
  BY <1>1 DEF Candidates, Concurrent
<1>3. col \in Column
  BY DEF Conflicted
<1>4. PICK m \in Candidates(G, after, col) : m = x \/ x \in G[m].past
  BY <1>2, <1>3 DEF Topped, Concurrent
<1>5. PICK n \in Candidates(G, after, col) : n = y \/ y \in G[n].past
  BY <1>2, <1>3 DEF Topped, Concurrent
<1>6. m = n
  BY <1>3 DEF Conflicted
<1>7. m \in after /\ col \in G[m].cols
  BY DEF Candidates
<1>8. x \in G[m].past /\ y \in G[m].past
  BY <1>2, <1>4, <1>5, <1>6 DEF Concurrent
<1>9. PICK e \in G[m].past \cup {m} : Resolution(G, e, x, y, col)
  BY <1>2, <1>3, <1>7, <1>8 DEF Resolved
<1>10. e \in after
  BY <1>7 DEF Complete
<1> QED BY <1>2, <1>9, <1>10 DEF Resolution

-----------------------------------------------------------------------------
(* The invariant *)

Inv == IInv /\ Topped(log) /\ Resolved(log)

\* Every statement writes what it may.
LEMMA StatementAllowed ==
  ASSUME IInv, NEW r \in Replica, NEW w \in Row, NEW c \in Change,
         \/ Insert(r, w, c)
         \/ \E cols \in SUBSET Column \ {{}} : Update(r, w, c, cols) \/ Resolve(r, w, c, cols)
  PROVE  \E cols \in SUBSET Column :
           Write(r, w, c, cols) /\ Allowed(log, Document(log, store[r][w]), cols)
<1>1. CASE Insert(r, w, c)
  BY <1>1 DEF Insert, CanInsert, Allowed
<1>2. CASE \E cols \in SUBSET Column \ {{}} : Update(r, w, c, cols) \/ Resolve(r, w, c, cols)
  BY <1>2 DEF Update, Resolve, CanUpdate, CanResolve, Allowed
<1> QED BY <1>1, <1>2

\* The log stays, or a statement's change joins it.
LEMMA LogSteps ==
  ASSUME IInv, [Next]_vars
  PROVE  \/ log' = log
         \/ \E r \in Replica, w \in Row, c \in Change, cols \in SUBSET Column :
              Write(r, w, c, cols) /\ Allowed(log, Document(log, store[r][w]), cols)
<1>1. CASE UNCHANGED vars
  BY <1>1 DEF vars
<1>2. ASSUME NEW r \in Replica, NEW w \in Row, NEW c \in Change,
             \/ Insert(r, w, c)
             \/ \E cols \in SUBSET Column \ {{}} : Update(r, w, c, cols) \/ Resolve(r, w, c, cols)
      PROVE  \E cols \in SUBSET Column :
               Write(r, w, c, cols) /\ Allowed(log, Document(log, store[r][w]), cols)
  BY <1>2, StatementAllowed
<1>3. ASSUME NEW r \in Replica, NEW w \in Row, Delete(r, w) PROVE log' = log
  BY <1>3 DEF Delete
<1>4. ASSUME NEW r \in Replica, NEW w \in Row, NEW u, ApplyState(r, w, u) PROVE log' = log
  BY <1>4 DEF ApplyState
<1>5. ASSUME NEW r \in Replica, NEW batch, ApplyChanges(r, batch) PROVE log' = log
  BY <1>5 DEF ApplyChanges
<1> QED BY <1>1, <1>2, <1>3, <1>4, <1>5 DEF Next

\* The document of complete entries is complete.
LEMMA DocumentComplete ==
  ASSUME NEW L, NEW s \in StoredRow, Complete(L, Stored(L, s))
  PROVE  Complete(L, Document(L, s))
<1>1. CASE s.deleted
  BY <1>1 DEF Document, Complete
<1>2. CASE s.deleted = FALSE
  BY <1>2, DocumentIsStored
<1> QED BY <1>1, <1>2 DEF StoredRow

\* Nothing was authored at first.
LEMMA InitInv == Init => Inv
<1>1. Init => log = [c \in {} |-> {}]
  BY DEF Init
<1>2. ASSUME log = [c \in {} |-> {}] PROVE Topped(log) /\ Resolved(log)
  <2>1. DOMAIN log = {}
    BY <1>2
  <2> QED BY <2>1 DEF Topped, Resolved
<1> QED BY <1>1, <1>2, InitInvariant DEF Inv

\* Every step keeps what was authored, and the invariant.
LEMMA StepInv ==
  ASSUME Inv, [Next]_vars
  PROVE  Inv' /\ DOMAIN log \subseteq DOMAIN log' /\ \A d \in DOMAIN log : log'[d] = log[d]
<1>1. IInv /\ IInv'
  BY StepInvariant DEF Inv
<1>2. CASE log' = log
  BY <1>1, <1>2 DEF Inv
<1>3. CASE \E r \in Replica, w \in Row, c \in Change, cols \in SUBSET Column :
             Write(r, w, c, cols) /\ Allowed(log, Document(log, store[r][w]), cols)
  <2>1. PICK r \in Replica, w \in Row, c \in Change, cols \in SUBSET Column :
             Write(r, w, c, cols) /\ Allowed(log, Document(log, store[r][w]), cols)
    BY <1>3
  <2> DEFINE seen == Document(log, store[r][w])
  <2>2. Complete(log, seen)
    BY <1>1, RowFacts, DocumentComplete
  <2>3. c \notin DOMAIN log /\ log' = Authored(log, c, w, seen, cols)
    BY <2>1 DEF Write
  <2>4. Allowed(log, seen, cols)
    BY <2>1
  <2>5. Causal(log)
    BY <1>1 DEF IInv, CausallyComplete, Causal
  <2> HIDE DEF seen
  <2>6. Topped(log) /\ Resolved(log)
    BY DEF Inv
  <2>7. Topped(log')
    BY <2>2, <2>3, <2>5, <2>6, AuthoredTopped
  <2>8. Resolved(log')
    BY <2>2, <2>3, <2>4, <2>5, <2>6, AuthoredResolved
  <2>9. DOMAIN log \subseteq DOMAIN log' /\ \A d \in DOMAIN log : log'[d] = log[d]
    BY <2>3 DEF Authored
  <2> QED BY <1>1, <2>7, <2>8, <2>9 DEF Inv
<1> QED BY <1>1, <1>2, <1>3, LogSteps

\* Every behaviour keeps the log topped and its conflicts resolved only by
\* statements that name them.
THEOREM ConflictInvariance == Spec => []Inv
<1>1. Inv /\ [Next]_vars => Inv'
  BY StepInv
<1> QED BY <1>1, InitInv, PTL DEF Spec

-----------------------------------------------------------------------------

\* A conflict leaves a document by a change that names no column without a
\* conflict, or with its row: never by an update, a merge or a batch.
THEOREM ConflictsStay == Spec => ConflictsKept
<1>1. ASSUME Inv, [Next]_vars, NEW r \in Replica, NEW w \in Row,
             Document(log', store'[r][w]) # {},
             NEW col \in Conflicted(log, Document(log, store[r][w]))
                           \ Conflicted(log', Document(log', store'[r][w]))
      PROVE  \E c \in Document(log', store'[r][w]) \ Document(log, store[r][w]) :
               /\ col \in log'[c].cols
               /\ log'[c].cols \subseteq Conflicted(log', log'[c].past)
  <2> DEFINE before == Document(log, store[r][w])
             after == Document(log', store'[r][w])
  <2>1. IInv /\ IInv' /\ Topped(log') /\ Resolved(log')
    BY <1>1, StepInv DEF Inv
  <2>2. DOMAIN log \subseteq DOMAIN log' /\ \A d \in DOMAIN log : log'[d] = log[d]
    BY <1>1, StepInv
  <2>3. Complete(log, before) /\ Complete(log', after)
    <3>1. store[r][w] \in StoredRow /\ Complete(log, Stored(log, store[r][w]))
      BY <2>1 DEF IInv, TypeOK, CausallyComplete
    <3>2. store'[r][w] \in StoredRow /\ Complete(log', Stored(log', store'[r][w]))
      BY <2>1 DEF IInv, TypeOK, CausallyComplete
    <3> QED BY <3>1, <3>2, DocumentComplete
  <2>4. before \subseteq after
    <3>1. store'[r][w].deleted = FALSE /\ store'[r][w] \in StoredRow
      BY <1>1, <2>1 DEF Document, IInv, TypeOK, StoredRow
    <3>2. after = Stored(log', store'[r][w])
      <4>1. Complete(log', Stored(log', store'[r][w]))
        BY <2>1 DEF IInv, CausallyComplete
      <4> QED BY <3>1, <4>1, DocumentIsStored
    <3> QED BY <1>1, <2>1, <3>2, StoredGrows, DocumentStored
  <2>5. before \in SUBSET DOMAIN log /\ after \in SUBSET DOMAIN log'
    BY <2>3 DEF Complete
  <2> HIDE DEF before, after
  <2> QED BY <1>1, <2>1, <2>2, <2>3, <2>4, <2>5, GoneByResolution DEF before, after
<1>2. Inv /\ [Next]_vars =>
        [\A r \in Replica, w \in Row :
           LET before == Document(log, store[r][w])
               after == Document(log', store'[r][w])
           IN  after # {} =>
                 \A col \in Conflicted(log, before) \ Conflicted(log', after) :
                   \E c \in after \ before :
                     /\ col \in log'[c].cols
                     /\ log'[c].cols \subseteq Conflicted(log', log'[c].past)]_vars
  BY <1>1
<1> QED BY <1>2, ConflictInvariance, PTL DEF Spec, ConflictsKept
=============================================================================
