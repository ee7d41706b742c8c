---------------------------- MODULE Session_proofs ---------------------------
(***************************************************************************)
(* Proofs about sessions, for any links, finitely many rows and tables,    *)
(* any changes and versions, any number of units in a frame, and both      *)
(* forms of incremental payload.  No two ends of a session wait for each   *)
(* other, where a caller closes its transport when its session ends.       *)
(* Sessions implement Replication: all they carry was exported by some     *)
(* engine, and a batch that applies without an error is one it allows.     *)
(***************************************************************************)
EXTENDS Session, FiniteSetTheorems, SequenceTheorems, WellFoundedInduction, TLAPS

\* A queue with one frame, of this kind.
One(queue, kind) == \E m : queue = <<m>> /\ m.kind = kind

\* Frames up to the one that announces their end, and none behind it.
Stream(queue) ==
  \E M : /\ queue \in Seq(M)
         /\ queue # <<>>
         /\ \A k \in 1..Len(queue) : queue[k].kind = "done" <=> k = Len(queue)

\* An end reads its engine while its peer goes on, or waits for what is to come:
\* for the inventory, the units and changes, and the snapshots.
Reading == {"rows", "inventory", "build"}
Building == {"export", "receive"}
Answering == {"snapshots", "recovery"}

\* What the responder keeps for its turn; the initiator sends at once.
Kept(i, r) ==
  /\ i.outbound = <<>>
  /\ r.pc = "build" => One(r.outbound, "inventory")
  /\ r.pc \in {"receive", "recovery"} => Stream(r.outbound)

\* Two ends that are both in their session, and what is on its way from each:
\* one direction is always empty, and whoever is ahead has sent what the other
\* waits for.
Lockstep(i, r, fromI, fromR) ==
  /\ Kept(i, r)
  /\ \/ /\ i.pc = "hello" /\ r.pc = "hello"
        /\ One(fromI, "hello") /\ fromR = <<>>
     \/ /\ i.pc = "hello" /\ r.pc = "manifest"
        /\ fromI = <<>> /\ One(fromR, "hello")
     \/ /\ i.pc = "manifest" /\ r.pc = "manifest"
        /\ One(fromI, "manifest") /\ fromR = <<>>
     \/ /\ i.pc = "manifest" /\ r.pc \in Reading
        /\ fromI = <<>> /\ One(fromR, "manifest")
     \/ /\ i.pc \in {"rows", "inventory"} /\ r.pc \in Reading
        /\ fromI = <<>> /\ fromR = <<>>
     \/ /\ i.pc = "build" /\ r.pc \in Reading
        /\ One(fromI, "inventory") /\ fromR = <<>>
     \/ /\ i.pc = "build" /\ r.pc \in Building
        /\ fromI = <<>> /\ One(fromR, "inventory")
     \/ /\ i.pc = "export" /\ r.pc \in Building
        /\ fromI = <<>> /\ fromR = <<>>
     \/ /\ i.pc = "receive" /\ r.pc \in Building
        /\ Stream(fromI) /\ fromR = <<>>
     \/ /\ i.pc = "receive" /\ r.pc = "requests"
        /\ fromI = <<>> /\ Stream(fromR)
     \/ /\ i.pc = "requests" /\ r.pc = "requests"
        /\ One(fromI, "requests") /\ fromR = <<>>
     \/ /\ i.pc = "requests" /\ r.pc \in Answering
        /\ fromI = <<>> /\ One(fromR, "requests")
     \/ /\ i.pc = "snapshots" /\ r.pc \in Answering
        /\ fromI = <<>> /\ fromR = <<>>
     \/ /\ i.pc = "recovery" /\ r.pc \in Answering
        /\ Stream(fromI) /\ fromR = <<>>

\* The fields of an endpoint; it has read finitely many units, changes and snapshots.
EndpointOK(e) ==
  /\ DOMAIN e = {"pc", "remote", "units", "inventory", "unread", "exports", "changes",
                 "snapshots", "outbound", "requests"}
  /\ IsFiniteSet(e.units) /\ IsFiniteSet(e.changes) /\ IsFiniteSet(e.snapshots)

LinkOK(l) ==
  /\ \A role \in Role : EndpointOK(end[l][role])
  /\ \/ \E role \in Role : end[l][role].pc \in Ended
     \/ Lockstep(end[l]["initiator"], end[l]["responder"], wire[l]["initiator"], wire[l]["responder"])

\* The inductive invariant.
Inv ==
  /\ end = [l \in Link |-> [role \in Role |-> end[l][role]]]
  /\ wire = [l \in Link |-> [role \in Role |-> wire[l][role]]]
  /\ \A l \in Link : LinkOK(l)

-----------------------------------------------------------------------------
(* Finite sets *)

\* What is read of finitely many things is finite.
LEMMA FiniteImage ==
  ASSUME NEW S, IsFiniteSet(S), NEW f, f = [x \in S |-> f[x]]
  PROVE  IsFiniteSet({f[x] : x \in S})
<1> DEFINE T == {f[x] : x \in S}
<1>1. f \in [S -> T]
  OBVIOUS
<1>2. f \in Surjection(S, T)
  BY <1>1 DEF Surjection
<1> QED BY <1>2, FS_Surjection

\* A part of a finite set is finite.
LEMMA FinitePart ==
  ASSUME NEW S, IsFiniteSet(S), NEW T, T \subseteq S
  PROVE  IsFiniteSet(T)
BY FS_Subset

\* The sequence of a finite set has its elements, all of them.
LEMMA SetToSeqLen ==
  ASSUME NEW S, IsFiniteSet(S)
  PROVE  /\ SetToSeq(S) \in Seq(S)
         /\ \A x \in S : \E i \in 1..Len(SetToSeq(S)) : SetToSeq(S)[i] = x
<1> DEFINE n == Cardinality(S)
<1>1. n \in Nat /\ ExistsBijection(1..n, S)
  BY FS_CardinalityType
<1>2. PICK f \in [1..n -> S] : IsInjective(f)
  BY <1>1 DEF ExistsBijection, Bijection, Injection, IsInjective
<1>3. SetToSeq(S) \in [1..n -> S] /\ IsInjective(SetToSeq(S))
  BY <1>2 DEF SetToSeq
<1>4. IsFiniteSet(1..n) /\ Cardinality(1..n) = n
  BY <1>1, FS_Interval
<1>5. SetToSeq(S) \in Injection(1..n, S)
  BY <1>3 DEF Injection, IsInjective
<1>6. SetToSeq(S) \in Surjection(1..n, S)
  BY <1>4, <1>5, FS_Injection
<1>7. SetToSeq(S) \in Seq(S) /\ Len(SetToSeq(S)) = n
  BY <1>1, <1>3
<1> HIDE DEF n
<1> QED BY <1>6, <1>7 DEF Surjection

\* Some index of a set of them is the least.
LEMMA LeastIndex ==
  ASSUME NEW n \in Nat, NEW T \in SUBSET (1..n), T # {}
  PROVE  \E m \in T : \A k \in T : m <= k
<1> DEFINE Below == [m \in T |-> {k \in T : k <= m}]
           Family == {Below[m] : m \in T}
<1>1. IsFiniteSet(1..n)
  BY FS_Interval
<1>2. IsWellFoundedOn(StrictSubsetOrdering(1..n), FiniteSubsetsOf(1..n))
  BY <1>1, FS_StrictSubsetOrderingWellFounded
<1>3. Family \subseteq FiniteSubsetsOf(1..n) /\ Family # {}
  <2>1. \A m \in T : Below[m] \subseteq 1..n /\ IsFiniteSet(Below[m])
    BY <1>1, FS_Subset
  <2> QED BY <2>1 DEF FiniteSubsetsOf
<1>4. PICK X \in Family : \A Y \in Family : <<Y, X>> \notin StrictSubsetOrdering(1..n)
  BY <1>2, <1>3, WFMin
<1>5. PICK m \in T : X = Below[m]
  OBVIOUS
<1>6. ASSUME NEW k \in T, ~(m <= k)
      PROVE  FALSE
  <2>0. k \in Nat /\ m \in Nat /\ k < m /\ \A j \in T : j \in Nat
    BY <1>6
  <2>1. Below[k] = {j \in T : j <= k} /\ Below[m] = {j \in T : j <= m}
    OBVIOUS
  <2> HIDE DEF Below
  <2>3. Below[k] \subseteq Below[m] /\ m \in Below[m] /\ m \notin Below[k]
    <3>1. \A j \in T : j <= k => j <= m
      BY <2>0
    <3>2. ~(m <= k) /\ m <= m
      BY <2>0
    <3> QED BY <2>1, <3>1, <3>2
  <2>4. Below[k] \in SUBSET (1..n) /\ Below[m] \in SUBSET (1..n)
    BY <2>1
  <2>2. <<Below[k], Below[m]>> \in StrictSubsetOrdering(1..n)
    BY <2>3, <2>4 DEF StrictSubsetOrdering
  <2> QED BY <1>4, <1>5, <2>2
<1> QED BY <1>6

-----------------------------------------------------------------------------
(* Frames *)

\* The units and changes an endpoint sends become finitely many frames.
LEMMA FramesKind ==
  ASSUME NEW kind, NEW seq, Len(seq) \in Nat
  PROVE  \E M : /\ Frames(kind, seq) \in Seq(M)
                /\ \A k \in 1..Len(Frames(kind, seq)) : Frames(kind, seq)[k].kind = kind
<1> DEFINE n == (Len(seq) + Batch - 1) \div Batch
           F == Frames(kind, seq)
<1>1. n \in Nat
  BY BatchAssumption
<1>2. DOMAIN Chunks(seq) = 1..n
  BY DEF Chunks
<1>3. F = [k \in 1..n |-> Message(kind, Chunks(seq)[k])]
  BY <1>2 DEF Frames
<1> HIDE DEF n, F
<1> DEFINE M == {F[k] : k \in 1..n}
<1>4. F \in [1..n -> M]
  BY <1>3
<1>5. F \in Seq(M) /\ Len(F) = n
  BY <1>1, <1>4
<1>6. \A k \in 1..n : F[k].kind = kind
  BY <1>3 DEF Message
<1> QED BY <1>5, <1>6 DEF F

\* A queue is empty when its length is zero.
LEMMA EmptyQueue ==
  ASSUME NEW M, NEW q \in Seq(M)
  PROVE  q = <<>> <=> Len(q) = 0
<1>1. ASSUME Len(q) = 0
      PROVE  q = <<>>
  <2>1. DOMAIN q = {} /\ q = [k \in DOMAIN q |-> q[k]]
    BY <1>1
  <2>2. DOMAIN <<>> = {} /\ <<>> = [k \in {} |-> k]
    OBVIOUS
  <2> QED BY <2>1, <2>2
<1> QED BY <1>1

\* Frames that announce no end, and then the end, are a stream.
LEMMA EndedStream ==
  ASSUME NEW M, NEW q \in Seq(M), \A k \in 1..Len(q) : q[k].kind # "done"
  PROVE  Stream(q \o <<Done>>)
<1> DEFINE S == M \cup {Done}
<1>1. q \in Seq(S) /\ <<Done>> \in Seq(S)
  OBVIOUS
<1>2. q \o <<Done>> \in Seq(S) /\ Len(q \o <<Done>>) = Len(q) + 1
  BY <1>1
<1>3. \A k \in 1..Len(q) : (q \o <<Done>>)[k] = q[k]
  BY <1>1
<1>4. (q \o <<Done>>)[Len(q) + 1] = Done
  BY <1>1
<1>5. Done.kind = "done"
  BY DEF Done, Message
<1>6. \A k \in 1..Len(q \o <<Done>>) : (q \o <<Done>>)[k].kind = "done" <=> k = Len(q \o <<Done>>)
  BY <1>2, <1>3, <1>4, <1>5
<1>7. q \o <<Done>> # <<>>
  BY <1>2
<1> QED BY <1>2, <1>6, <1>7 DEF Stream

\* Units are sent as finitely many frames.
LEMMA UnitFrames ==
  ASSUME NEW units, IsFiniteSet(units)
  PROVE  Len(UnitSeq(units)) \in Nat
<1> DEFINE A == {u \in units : u.key \in Table}
           B == {u \in units : u.key \in Row}
<1>1. SetToSeq(A) \in Seq(units)
  <2>1. IsFiniteSet(A)
    BY FinitePart
  <2>2. SetToSeq(A) \in Seq(A)
    BY <2>1, SetToSeqLen
  <2> QED BY <2>2
<1>2. SetToSeq(B) \in Seq(units)
  <2>1. IsFiniteSet(B)
    BY FinitePart
  <2>2. SetToSeq(B) \in Seq(B)
    BY <2>1, SetToSeqLen
  <2> QED BY <2>2
<1>3. UnitSeq(units) = SetToSeq(A) \o SetToSeq(B)
  BY DEF UnitSeq
<1> QED BY <1>1, <1>2, <1>3

\* A catalog has finitely many entries, and a row or a table one unit.
LEMMA ManifestFinite ==
  ASSUME IsFiniteSet(Row), IsFiniteSet(Table), NEW r
  PROVE  /\ IsFiniteSet(CatalogUnits(r))
         /\ IsFiniteSet(RowUnits(r))
         /\ IsFiniteSet(Manifest(r))
<1>1. IsFiniteSet(CatalogUnits(r))
  <2> DEFINE S == {t \in Table : catalog[r][t] # "absent"}
             f == [t \in S |-> [key |-> t, value |-> catalog[r][t]]]
  <2>1. IsFiniteSet(S)
    BY FinitePart
  <2>2. {f[t] : t \in S} = CatalogUnits(r) /\ f = [t \in S |-> f[t]]
    BY DEF CatalogUnits
  <2> HIDE DEF S, f
  <2>3. IsFiniteSet({f[t] : t \in S})
    BY <2>1, <2>2, FiniteImage
  <2> QED BY <2>2, <2>3
<1>2. IsFiniteSet(RowUnits(r))
  <2> DEFINE S == ExportedRows(r)
             f == [w \in S |-> [key |-> w, value |-> UnitOf(log, store[r][w])]]
  <2>1. IsFiniteSet(S)
    BY FinitePart DEF ExportedRows
  <2>2. {f[w] : w \in S} = RowUnits(r) /\ f = [w \in S |-> f[w]]
    BY DEF RowUnits, RowUnitOf
  <2> HIDE DEF S, f
  <2>3. IsFiniteSet({f[w] : w \in S})
    BY <2>1, <2>2, FiniteImage
  <2> QED BY <2>2, <2>3
<1> QED BY <1>1, <1>2, FS_Union DEF Manifest

\* Every frame of a sequence holds some of it, and nothing else.
LEMMA ChunksOK ==
  ASSUME NEW S, NEW seq \in Seq(S)
  PROVE  \A i \in DOMAIN Chunks(seq) : Chunks(seq)[i] \in Seq(S) \ {<<>>}
<1> DEFINE n == (Len(seq) + Batch - 1) \div Batch
<1> SUFFICES ASSUME NEW i \in 1..n PROVE Chunks(seq)[i] \in Seq(S) \ {<<>>}
  BY DEF Chunks
<1>1. Len(seq) \in Nat /\ Batch \in Nat /\ Batch > 0 /\ n \in Nat
  BY BatchAssumption
<1>2. n * Batch <= Len(seq) + Batch - 1
  BY <1>1
<1>3. i * Batch <= n * Batch
  BY <1>1
<1>4. (i - 1) * Batch = i * Batch - Batch /\ (i - 1) * Batch \in Nat /\ i * Batch \in Nat
  BY <1>1
<1>5. (i - 1) * Batch + 1 <= Len(seq)
  BY <1>1, <1>2, <1>3, <1>4
<1> DEFINE a == (i - 1) * Batch + 1
           b == IF i * Batch < Len(seq) THEN i * Batch ELSE Len(seq)
<1>6. Chunks(seq)[i] = SubSeq(seq, a, b)
  BY DEF Chunks
<1>7. a \in 1..Len(seq) /\ b \in a..Len(seq)
  BY <1>1, <1>4, <1>5
<1> HIDE DEF a, b
<1>8. \A k \in a..b : seq[k] \in S
  BY <1>7, ElementOfSeq
<1>9. SubSeq(seq, a, b) \in Seq(S) /\ Len(SubSeq(seq, a, b)) = b - a + 1
  BY <1>7, <1>8, SubSeqProperties
<1> QED BY <1>6, <1>7, <1>9, EmptySeq

\* Changes are sent as a sequence of them all.
LEMMA ChangeSeqOK ==
  ASSUME NEW S, IsFiniteSet(S), \A c \in S : c.id \in Nat,
         \A c, d \in S : c.id = d.id => c = d
  PROVE  /\ ChangeSeq(S) \in Seq(S)
         /\ \A c \in S : \E i \in 1..Len(ChangeSeq(S)) : ChangeSeq(S)[i] = c
<1> DEFINE n == Cardinality(S)
           Before(c) == {d \in S : d.id <= c.id}
           rank == [c \in S |-> Cardinality(Before(c))]
<1>1. n \in Nat /\ IsFiniteSet(1..n) /\ Cardinality(1..n) = n
  BY FS_CardinalityType, FS_Interval
<1>2. ASSUME NEW c \in S
      PROVE  /\ IsFiniteSet(Before(c)) /\ Cardinality(Before(c)) \in 1..n
  <2>1. Before(c) \in SUBSET S /\ c \in Before(c)
    OBVIOUS
  <2>2. IsFiniteSet(Before(c)) /\ Cardinality(Before(c)) <= n
    BY <2>1, FS_Subset
  <2>3. Cardinality(Before(c)) \in Nat /\ Cardinality(Before(c)) # 0
    BY <2>1, <2>2, FS_CardinalityType, FS_EmptySet
  <2> QED BY <1>1, <2>2, <2>3
<1>3. ASSUME NEW c \in S, NEW d \in S, rank[c] = rank[d]
      PROVE  c = d
  <2>1. ASSUME NEW x \in S, NEW y \in S, x.id <= y.id, rank[x] = rank[y]
        PROVE  x = y
    <3>1. Before(x) \in SUBSET Before(y)
      BY <2>1
    <3>2. Before(x) = Before(y)
      BY <1>2, <2>1, <3>1, FS_Subset
    <3>3. y.id <= x.id
      BY <3>2
    <3> QED BY <2>1, <3>3
  <2>2. c.id <= d.id \/ d.id <= c.id
    OBVIOUS
  <2> QED BY <1>3, <2>1, <2>2
<1>4. rank \in Injection(S, 1..n)
  BY <1>2, <1>3 DEF Injection, IsInjective
<1>5. rank \in Surjection(S, 1..n)
  BY <1>1, <1>4, FS_Injection
<1>6. \A i \in 1..n : \E c \in S : Cardinality(Before(c)) = i
  BY <1>5 DEF Surjection
<1>7. \A i \in 1..n : ChangeSeq(S)[i] \in S
  BY <1>6 DEF ChangeSeq
<1>8. ChangeSeq(S) \in [1..n -> S]
  BY <1>7 DEF ChangeSeq
<1>9. ASSUME NEW c \in S
      PROVE  \E i \in 1..n : ChangeSeq(S)[i] = c
  <2>1. rank[c] \in 1..n /\ ChangeSeq(S)[rank[c]] = CHOOSE d \in S : Cardinality(Before(d)) = rank[c]
    BY <1>2 DEF ChangeSeq
  <2>2. \A d \in S : Cardinality(Before(d)) = rank[c] => d = c
    BY <1>3
  <2>3. ChangeSeq(S)[rank[c]] = c
    BY <2>1, <2>2
  <2> QED BY <2>1, <2>3
<1>10. ChangeSeq(S) \in Seq(S) /\ Len(ChangeSeq(S)) = n
  BY <1>1, <1>8
<1> HIDE DEF n
<1> QED BY <1>9, <1>10

\* What is sent after the inventories announces its end.
LEMMA OutboundStream ==
  ASSUME NEW e, IsFiniteSet(e.units), IsFiniteSet(e.changes)
  PROVE  Stream(OutboundFrames(e))
<1> DEFINE U == Frames("state", UnitSeq(OutboundUnits(e)))
           C == Frames("changes", ChangeSeq(e.changes))
<1>1. Len(UnitSeq(OutboundUnits(e))) \in Nat
  <2>1. IsFiniteSet(OutboundUnits(e))
    BY FinitePart DEF OutboundUnits
  <2> QED BY <2>1, UnitFrames
<1>2. Len(ChangeSeq(e.changes)) \in Nat
  BY FS_CardinalityType DEF ChangeSeq
<1>3. PICK M : U \in Seq(M) /\ \A k \in 1..Len(U) : U[k].kind = "state"
  BY <1>1, FramesKind
<1>4. PICK N : C \in Seq(N) /\ \A k \in 1..Len(C) : C[k].kind = "changes"
  BY <1>2, FramesKind
<1> HIDE DEF U, C
<1>5. U \in Seq(M \cup N) /\ C \in Seq(M \cup N)
  BY <1>3, <1>4
<1>6. U \o C \in Seq(M \cup N) /\ Len(U \o C) = Len(U) + Len(C)
  BY <1>5
<1>7. \A k \in 1..Len(U \o C) : (U \o C)[k].kind # "done"
  <2> SUFFICES ASSUME NEW k \in 1..Len(U \o C)
               PROVE  (U \o C)[k].kind # "done"
    OBVIOUS
  <2>1. Len(U) \in Nat /\ Len(C) \in Nat
    BY <1>5
  <2>2. CASE k <= Len(U)
    <3>1. k \in 1..Len(U)
      BY <2>1, <2>2
    <3>2. (U \o C)[k] = U[k]
      BY <1>5, <2>1, <2>2, <1>6
    <3> QED BY <3>1, <3>2, <1>3
  <2>3. CASE k > Len(U)
    <3>1. k - Len(U) \in 1..Len(C)
      BY <2>1, <2>3, <1>6
    <3>2. (U \o C)[k] = C[k - Len(U)]
      BY <1>5, <2>1, <2>3, <1>6
    <3> QED BY <3>1, <3>2, <1>4
  <2> QED BY <2>1, <2>2, <2>3
<1>8. Stream((U \o C) \o <<Done>>)
  BY <1>6, <1>7, EndedStream
<1> QED BY <1>8 DEF OutboundFrames, U, C

\* So do the snapshots an endpoint sends in answer to requests.
LEMMA RecoveryStream ==
  ASSUME NEW e, IsFiniteSet(e.snapshots)
  PROVE  Stream(RecoveryFrames(e))
<1> DEFINE U == Frames("state", UnitSeq(e.snapshots))
<1>1. Len(UnitSeq(e.snapshots)) \in Nat
  BY UnitFrames
<1>2. PICK M : U \in Seq(M) /\ \A k \in 1..Len(U) : U[k].kind = "state"
  BY <1>1, FramesKind
<1>3. Stream(U \o <<Done>>)
  BY <1>2, EndedStream
<1> QED BY <1>3 DEF RecoveryFrames

-----------------------------------------------------------------------------
(* Steps of an endpoint *)

\* A queue with one frame is empty when the frame is received, and is as it was
\* when nothing is sent.
LEMMA OneFrame ==
  ASSUME NEW q, NEW kind, One(q, kind)
  PROVE  /\ q # <<>> /\ Head(q).kind = kind
         /\ Tail(q) = <<>>
         /\ q \o <<>> = q
BY DEF One

\* A frame sent on an empty queue is alone on it.
LEMMA SendOne ==
  ASSUME NEW kind, NEW body
  PROVE  One(<<>> \o <<Message(kind, body)>>, kind)
<1> DEFINE m == Message(kind, body)
<1>1. m.kind = kind
  BY DEF Message
<1> HIDE DEF m
<1>2. <<m>> \in Seq({m})
  OBVIOUS
<1>3. <<>> \o <<m>> = <<m>>
  BY <1>2
<1> QED BY <1>1, <1>3 DEF One, m

\* What is sent on an empty queue is what is on it.
LEMMA SendStream ==
  ASSUME NEW q, Stream(q) \/ \E kind : One(q, kind)
  PROVE  <<>> \o q = q
<1>1. CASE Stream(q)
  BY <1>1 DEF Stream
<1>2. ASSUME NEW kind, One(q, kind)
      PROVE  <<>> \o q = q
  <2>1. PICK m : q = <<m>>
    BY <1>2 DEF One
  <2> QED BY <2>1
<1> QED BY <1>1, <1>2

\* A stream stays one until its end is received.
LEMMA StreamTail ==
  ASSUME NEW q, Stream(q)
  PROVE  /\ q # <<>>
         /\ q \o <<>> = q
         /\ Head(q).kind = "done" => Tail(q) = <<>>
         /\ Head(q).kind # "done" => Stream(Tail(q))
<1>1. PICK M : /\ q \in Seq(M) /\ q # <<>>
               /\ \A k \in 1..Len(q) : q[k].kind = "done" <=> k = Len(q)
  BY DEF Stream
<1>2. Len(q) \in Nat /\ Len(q) > 0 /\ Head(q) = q[1]
  BY <1>1
<1>3. Tail(q) \in Seq(M) /\ Len(Tail(q)) = Len(q) - 1
  BY <1>1, <1>2
<1>4. \A k \in 1..Len(Tail(q)) : Tail(q)[k] = q[k + 1]
  BY <1>1, <1>2
<1>5. ASSUME Head(q).kind = "done"
      PROVE  Tail(q) = <<>>
  <2>1. 1 \in 1..Len(q)
    BY <1>2
  <2>2. Len(q) = 1
    BY <2>1, <1>1, <1>2, <1>5
  <2>3. Len(Tail(q)) = 0
    BY <2>2, <1>3
  <2> QED BY <1>3, <2>3, EmptyQueue
<1>6. ASSUME Head(q).kind # "done"
      PROVE  Stream(Tail(q))
  <2>1. 1 \in 1..Len(q)
    BY <1>2
  <2>2. Len(q) # 1
    BY <2>1, <1>1, <1>2, <1>6
  <2>3. Len(Tail(q)) # 0
    BY <1>2, <1>3, <2>2
  <2>4. Tail(q) # <<>>
    BY <1>3, <2>3, EmptyQueue
  <2>5. ASSUME NEW k \in 1..Len(Tail(q))
        PROVE  Tail(q)[k].kind = "done" <=> k = Len(Tail(q))
    <3>1. k + 1 \in 1..Len(q) /\ (k + 1 = Len(q) <=> k = Len(Tail(q)))
      BY <1>2, <1>3
    <3>2. q[k + 1].kind = "done" <=> k + 1 = Len(q)
      BY <3>1, <1>1
    <3>3. Tail(q)[k] = q[k + 1]
      BY <1>4
    <3> QED BY <3>1, <3>2, <3>3
  <2> QED BY <1>3, <2>4, <2>5 DEF Stream
<1>7. q \o <<>> = q
  BY <1>1
<1> QED BY <1>1, <1>5, <1>6, <1>7

\* So it does while the units of a frame are applied one by one.
LEMMA StreamRest ==
  ASSUME NEW q, Stream(q), Head(q).kind = "state", NEW body
  PROVE  Stream(<<Message("state", body)>> \o Tail(q))
<1> DEFINE m == Message("state", body)
<1>1. Stream(Tail(q))
  BY StreamTail
<1>2. PICK M : /\ Tail(q) \in Seq(M)
               /\ \A k \in 1..Len(Tail(q)) : Tail(q)[k].kind = "done" <=> k = Len(Tail(q))
               /\ Tail(q) # <<>>
  BY <1>1 DEF Stream
<1> DEFINE t == Tail(q)
           S == M \cup {m}
<1> HIDE DEF t
<1>3. t \in Seq(S) /\ <<m>> \in Seq(S) /\ Len(t) \in Nat /\ Len(t) > 0
  BY <1>2 DEF t
<1>4. \A k \in 1..Len(t) : t[k].kind = "done" <=> k = Len(t)
  BY <1>2 DEF t
<1>5. <<m>> \o t \in Seq(S) /\ Len(<<m>> \o t) = Len(t) + 1
  BY <1>3
<1>6. (<<m>> \o t)[1] = m /\ m.kind = "state"
  BY <1>3 DEF Message
<1>7. \A k \in 1..Len(t) : (<<m>> \o t)[k + 1] = t[k]
  BY <1>3
<1>8. \A k \in 1..Len(<<m>> \o t) : (<<m>> \o t)[k].kind = "done" <=> k = Len(<<m>> \o t)
  <2> SUFFICES ASSUME NEW k \in 1..Len(t) + 1
               PROVE  (<<m>> \o t)[k].kind = "done" <=> k = Len(t) + 1
    BY <1>5
  <2>1. CASE k = 1
    BY <2>1, <1>3, <1>6
  <2>2. CASE k # 1
    <3>1. k - 1 \in 1..Len(t) /\ (k - 1) + 1 = k
      BY <2>2, <1>3
    <3>2. (<<m>> \o t)[k] = t[k - 1]
      BY <3>1, <1>7
    <3>3. t[k - 1].kind = "done" <=> k - 1 = Len(t)
      BY <3>1, <1>4
    <3> QED BY <3>1, <3>2, <3>3, <1>3
  <2> QED BY <2>1, <2>2
<1>9. <<m>> \o t # <<>>
  BY <1>5, <1>3
<1> QED BY <1>5, <1>8, <1>9 DEF Stream, t

\* What a step of one endpoint leaves of the links.
LEMMA GoOnStep ==
  ASSUME Inv, NEW l \in Link, NEW role \in Role, NEW e, NEW left, NEW sent,
         GoOn(l, role, e, left, sent), EndpointOK(e)
  PROVE  /\ end' = [k \in Link |-> [x \in Role |-> end'[k][x]]]
         /\ wire' = [k \in Link |-> [x \in Role |-> wire'[k][x]]]
         /\ \A k \in Link \ {l} : end'[k] = end[k] /\ wire'[k] = wire[k]
         /\ end'[l][role] = e
         /\ end'[l][Peer(role)] = end[l][Peer(role)]
         /\ wire'[l][Peer(role)] = left
         /\ end[l][Peer(role)].pc \notin Ended => wire'[l][role] = wire[l][role] \o sent
<1>1. Peer(role) \in Role /\ Peer(role) # role
  BY DEF Role, Peer
<1>2. /\ end' = [end EXCEPT ![l][role] = e]
      /\ wire' = [wire EXCEPT ![l] =
                [x \in Role |-> IF x # role THEN left
                                ELSE IF end[l][Peer(role)].pc \in Ended THEN <<>>
                                ELSE @[x] \o sent]]
  BY DEF GoOn
<1>3. /\ end = [k \in Link |-> [x \in Role |-> end[k][x]]]
      /\ wire = [k \in Link |-> [x \in Role |-> wire[k][x]]]
  BY DEF Inv
<1>4. /\ end' = [k \in Link |-> [x \in Role |-> end'[k][x]]]
      /\ \A k \in Link \ {l} : end'[k] = end[k]
      /\ end'[l][role] = e
      /\ end'[l][Peer(role)] = end[l][Peer(role)]
  BY <1>1, <1>2, <1>3
<1>5. /\ wire' = [k \in Link |-> [x \in Role |-> wire'[k][x]]]
      /\ \A k \in Link \ {l} : wire'[k] = wire[k]
      /\ wire'[l] = [x \in Role |-> IF x # role THEN left
                                ELSE IF end[l][Peer(role)].pc \in Ended THEN <<>>
                                ELSE wire[l][x] \o sent]
  BY <1>1, <1>2, <1>3
<1> QED BY <1>1, <1>4, <1>5

\* Where the ends of a link are while neither has ended.
Both(l) ==
  Lockstep(end[l]["initiator"], end[l]["responder"], wire[l]["initiator"], wire[l]["responder"])

\* Where they are after a step of the end `role`.
After(l, role, e, left, sent) ==
  IF role = "initiator"
  THEN Lockstep(e, end[l]["responder"], wire[l]["initiator"] \o sent, left)
  ELSE Lockstep(end[l]["initiator"], e, left, wire[l]["responder"] \o sent)

\* A step keeps the invariant when its end ends or the two stay in lockstep.
LEMMA StepInv ==
  ASSUME Inv, NEW l \in Link, NEW role \in Role, NEW e, NEW left, NEW sent,
         GoOn(l, role, e, left, sent), EndpointOK(e),
         end[l][role].pc \notin Ended,
         e.pc \notin Ended /\ Both(l) => After(l, role, e, left, sent)
  PROVE  Inv'
<1>1. Peer(role) \in Role /\ Role = {role, Peer(role)} /\ role # Peer(role)
  BY DEF Role, Peer
<1>2. /\ end' = [k \in Link |-> [x \in Role |-> end'[k][x]]]
      /\ wire' = [k \in Link |-> [x \in Role |-> wire'[k][x]]]
      /\ \A k \in Link \ {l} : end'[k] = end[k] /\ wire'[k] = wire[k]
      /\ end'[l][role] = e
      /\ end'[l][Peer(role)] = end[l][Peer(role)]
      /\ wire'[l][Peer(role)] = left
      /\ end[l][Peer(role)].pc \notin Ended => wire'[l][role] = wire[l][role] \o sent
  BY GoOnStep
<1>3. ASSUME NEW k \in Link \ {l}
      PROVE  LinkOK(k)'
  <2>1. LinkOK(k) /\ end'[k] = end[k] /\ wire'[k] = wire[k]
    BY <1>2 DEF Inv
  <2> QED BY <2>1 DEF LinkOK, EndpointOK
<1>4. \A x \in Role : EndpointOK(end'[l][x])
  <2>1. EndpointOK(end[l][Peer(role)])
    BY <1>1 DEF Inv, LinkOK
  <2> QED BY <2>1, <1>1, <1>2
<1>5. CASE e.pc \in Ended \/ end[l][Peer(role)].pc \in Ended
  <2>1. \E x \in Role : end'[l][x].pc \in Ended
    BY <1>1, <1>2, <1>5
  <2>2. LinkOK(l)'
    BY <2>1, <1>4 DEF LinkOK, EndpointOK
  <2> QED BY <1>2, <1>3, <2>2 DEF Inv
<1>6. CASE e.pc \notin Ended /\ end[l][Peer(role)].pc \notin Ended
  <2>1. \A x \in Role : end[l][x].pc \notin Ended
    BY <1>1, <1>6
  <2>2. Both(l)
    BY <2>1 DEF Inv, LinkOK, Both
  <2>3. After(l, role, e, left, sent)
    BY <2>2, <1>6
  <2>4. Lockstep(end'[l]["initiator"], end'[l]["responder"], wire'[l]["initiator"], wire'[l]["responder"])
    <3>1. CASE role = "initiator"
      BY <3>1, <2>3, <1>2, <1>6 DEF After, Peer
    <3>2. CASE role = "responder"
      BY <3>2, <2>3, <1>2, <1>6 DEF After, Peer
    <3> QED BY <3>1, <3>2 DEF Role
  <2>5. LinkOK(l)'
    BY <2>4, <1>4 DEF LinkOK, EndpointOK
  <2> QED BY <1>2, <1>3, <2>5 DEF Inv
<1> QED BY <1>5, <1>6

\* An end that returns an error has ended.
LEMMA StopInv ==
  ASSUME Inv, NEW l \in Link, NEW role \in Role, NEW sent, Stop(l, role, sent),
         end[l][role].pc \notin Ended
  PROVE  Inv'
<1> DEFINE e == [Idle EXCEPT !.pc = "failed"]
<1>1. EndpointOK(e) /\ e.pc \in Ended
  BY FS_EmptySet DEF EndpointOK, Idle, Ended
<1>2. GoOn(l, role, e, <<>>, sent)
  BY DEF Stop
<1> HIDE DEF e
<1> QED BY <1>1, <1>2, StepInv

\* A reading leaves an end where it is, or is the last and moves it on.
LEMMA ReadOnInv ==
  ASSUME Inv, NEW l \in Link, NEW role \in Role, NEW e, NEW next, NEW frames, NEW left, NEW sent,
         ReadOn(l, role, e, next, frames, left, sent), end[l][role].pc \notin Ended,
         EndpointOK(e), EndpointOK(next),
         Both(l) => After(l, role, e, left, sent),
         Both(l) /\ role = "initiator" => After(l, role, next, left, sent \o frames),
         Both(l) /\ role = "responder" => After(l, role, [next EXCEPT !.outbound = frames], left, sent)
  PROVE  Inv'
<1> DEFINE kept == [next EXCEPT !.outbound = frames]
<1>1. EndpointOK(kept)
  BY DEF EndpointOK
<1>2. CASE GoOn(l, role, e, left, sent)
  BY <1>2, StepInv
<1>3. CASE role = "initiator" /\ GoOn(l, role, next, left, sent \o frames)
  BY <1>3, StepInv
<1>4. CASE role = "responder" /\ GoOn(l, role, kept, left, sent)
  <2> HIDE DEF kept
  <2> QED BY <1>1, <1>4, StepInv DEF kept
<1> QED BY <1>2, <1>3, <1>4 DEF ReadOn, Role

-----------------------------------------------------------------------------
(* Each step of an endpoint keeps the lockstep *)

\* Hellos and manifests.
LEMMA HelloInv ==
  ASSUME IsFiniteSet(Row), IsFiniteSet(Table), Inv, NEW l \in Link, NEW role \in Role,
         ReceiveHello(l, role)
  PROVE  Inv'
<1> DEFINE r == End[l][role]
           left == Tail(Incoming(l, role))
<1>1. end[l][role].pc = "hello" /\ end[l][role].pc \notin Ended
  BY DEF ReceiveHello, At, Ended
<1>2. CASE Stop(l, role, <<>>)
  BY <1>1, <1>2, StopInv
<1>3. ASSUME role = "initiator",
             Go(l, role, [Idle EXCEPT !.pc = "manifest"], <<Message("manifest", Manifest(r))>>)
      PROVE  Inv'
  <2> DEFINE e == [Idle EXCEPT !.pc = "manifest"]
             sent == <<Message("manifest", Manifest(r))>>
  <2>1. EndpointOK(e) /\ e.pc = "manifest" /\ e.outbound = <<>>
    BY FS_EmptySet DEF EndpointOK, Idle
  <2>2. GoOn(l, role, e, left, sent)
    BY <1>3 DEF Go
  <2>3. ASSUME Both(l)
        PROVE  After(l, role, e, left, sent)
    <3>1. /\ end[l]["responder"].pc = "manifest"
          /\ wire[l]["initiator"] = <<>> /\ One(wire[l]["responder"], "hello")
      BY <1>1, <1>3, <2>3 DEF Both, Lockstep, ReceiveHello, Received, Incoming, Peer
    <3>2. left = <<>>
      BY <3>1, <1>3, OneFrame DEF Incoming, Peer
    <3>3. One(wire[l]["initiator"] \o sent, "manifest")
      BY <3>1, SendOne
    <3> HIDE DEF e, left, sent
    <3> QED BY <1>3, <2>1, <3>1, <3>2, <3>3 DEF After, Lockstep, Kept
  <2> HIDE DEF e, left, sent
  <2> QED BY <1>1, <2>1, <2>2, <2>3, StepInv
<1>4. ASSUME role = "responder",
             Go(l, role, [Idle EXCEPT !.pc = "manifest", !.units = Manifest(r)], <<Hello(r)>>)
      PROVE  Inv'
  <2> DEFINE e == [Idle EXCEPT !.pc = "manifest", !.units = Manifest(r)]
             sent == <<Hello(r)>>
  <2>1. EndpointOK(e) /\ e.pc = "manifest"
    BY ManifestFinite, FS_EmptySet DEF EndpointOK, Idle
  <2>2. GoOn(l, role, e, left, sent)
    BY <1>4 DEF Go
  <2>3. ASSUME Both(l)
        PROVE  After(l, role, e, left, sent)
    <3>1. /\ end[l]["initiator"].pc = "hello"
          /\ One(wire[l]["initiator"], "hello") /\ wire[l]["responder"] = <<>>
          /\ end[l]["initiator"].outbound = <<>>
      BY <1>1, <1>4, <2>3 DEF Both, Lockstep, Kept, Reading, Building, Answering
    <3>2. left = <<>>
      BY <3>1, <1>4, OneFrame DEF Incoming, Peer
    <3>3. One(wire[l]["responder"] \o sent, "hello")
      BY <3>1, SendOne DEF Hello
    <3> HIDE DEF e, left, sent
    <3> QED BY <1>4, <2>1, <3>1, <3>2, <3>3 DEF After, Lockstep, Kept
  <2> HIDE DEF e, left, sent
  <2> QED BY <1>1, <2>1, <2>2, <2>3, StepInv
<1> QED BY <1>2, <1>3, <1>4 DEF ReceiveHello

\* Manifests: the initiator sent its own before, the responder answers with its own.
LEMMA ManifestInv ==
  ASSUME IsFiniteSet(Row), IsFiniteSet(Table), Inv, NEW l \in Link, NEW role \in Role,
         ReceiveManifest(l, role)
  PROVE  Inv'
<1> DEFINE r == End[l][role]
           left == Tail(Incoming(l, role))
           e == [Idle EXCEPT !.pc = "rows", !.remote = Body(l, role), !.units = CatalogUnits(r)]
           sent == IF role = "responder" THEN <<Message("manifest", end[l][role].units)>> ELSE <<>>
<1>1. end[l][role].pc = "manifest" /\ end[l][role].pc \notin Ended
  BY DEF ReceiveManifest, At, Ended
<1>2. EndpointOK(e) /\ e.pc = "rows" /\ e.outbound = <<>>
  BY ManifestFinite, FS_EmptySet DEF EndpointOK, Idle
<1>3. GoOn(l, role, e, left, sent)
  BY DEF ReceiveManifest, Go
<1>4. ASSUME Both(l)
      PROVE  After(l, role, e, left, sent)
  <2>1. CASE role = "initiator"
    <3>1. /\ end[l]["responder"].pc \in Reading
          /\ wire[l]["initiator"] = <<>> /\ One(wire[l]["responder"], "manifest")
          /\ Kept(end[l]["initiator"], end[l]["responder"])
      BY <1>1, <1>4, <2>1 DEF Both, Lockstep, ReceiveManifest, Received, Incoming, Peer
    <3>2. left = <<>>
      BY <3>1, <2>1, OneFrame DEF Incoming, Peer
    <3>3. wire[l]["initiator"] \o sent = <<>>
      BY <3>1, <2>1
    <3>4. Kept(e, end[l]["responder"])
      BY <1>2, <3>1 DEF Kept
    <3> HIDE DEF e, left, sent
    <3> QED BY <2>1, <1>2, <3>1, <3>2, <3>3, <3>4 DEF After, Lockstep
  <2>2. CASE role = "responder"
    <3>1. /\ end[l]["initiator"].pc = "manifest"
          /\ One(wire[l]["initiator"], "manifest") /\ wire[l]["responder"] = <<>>
          /\ end[l]["initiator"].outbound = <<>>
      BY <1>1, <1>4, <2>2, OneFrame DEF Both, Lockstep, Kept, ReceiveManifest, Received, Incoming, Peer,
         Reading, Building, Answering
    <3>2. left = <<>>
      BY <3>1, <2>2, OneFrame DEF Incoming, Peer
    <3>3. One(wire[l]["responder"] \o sent, "manifest")
      BY <3>1, <2>2, SendOne
    <3> HIDE DEF e, left, sent
    <3> QED BY <2>2, <1>2, <3>1, <3>2, <3>3 DEF After, Lockstep, Kept, Reading
  <2> QED BY <2>1, <2>2 DEF Role
<1> HIDE DEF e, left, sent
<1> QED BY <1>1, <1>2, <1>3, <1>4, StepInv

\* The rows and then their inventories, which the initiator sends.
LEMMA InventoriedInv ==
  ASSUME Inv, NEW l \in Link, NEW role \in Role, NEW e, Inventoried(l, role, e),
         EndpointOK(e), e.pc = "inventory", e.outbound = end[l][role].outbound,
         end[l][role].pc \in {"rows", "inventory"}
  PROVE  Inv'
<1> DEFINE d == end[l][role]
           frames == <<Message("inventory", e.inventory)>>
           next == [e EXCEPT !.pc = "build", !.inventory = <<>>]
           kept == [next EXCEPT !.outbound = frames]
           left == Incoming(l, role)
<1>1. EndpointOK(next) /\ next.pc = "build" /\ next.outbound = d.outbound
  BY DEF EndpointOK
<1>2. kept.pc = "build" /\ kept.outbound = frames
  BY DEF EndpointOK
<1>3. One(frames, "inventory") /\ <<>> \o frames = frames
  <2> DEFINE m == Message("inventory", e.inventory)
  <2>1. m.kind = "inventory"
    BY DEF Message
  <2> HIDE DEF m
  <2>2. One(<<m>>, "inventory")
    BY <2>1 DEF One
  <2> QED BY <2>2, SendStream DEF m
<1>4. ReadOn(l, role, e, next, frames, left, <<>>) /\ d.pc \notin Ended
  BY DEF Inventoried, Ended
<1> HIDE DEF next, kept, frames
<1>5. ASSUME Both(l), role = "initiator"
      PROVE  After(l, role, e, left, <<>>) /\ After(l, role, next, left, <<>> \o frames)
  <2>1. /\ end[l]["responder"].pc \in Reading /\ Kept(d, end[l]["responder"])
        /\ wire[l]["initiator"] = <<>> /\ wire[l]["responder"] = <<>>
    BY <1>5 DEF Both, Lockstep
  <2>2. left = <<>> /\ wire[l]["initiator"] \o <<>> = <<>>
    BY <2>1, <1>5 DEF Incoming, Peer
  <2>3. wire[l]["initiator"] \o (<<>> \o frames) = frames
    BY <2>1, <1>3
  <2>4. Kept(e, end[l]["responder"]) /\ Kept(next, end[l]["responder"])
    BY <2>1, <1>1 DEF Kept
  <2> HIDE DEF d, left
  <2> QED BY <1>1, <1>3, <1>5, <2>1, <2>2, <2>3, <2>4 DEF After, Lockstep
<1>6. ASSUME Both(l), role = "responder"
      PROVE  After(l, role, e, left, <<>>) /\ After(l, role, kept, left, <<>>)
  <2> DEFINE i == end[l]["initiator"]
             own == wire[l]["responder"]
  <2>1. Kept(i, d)
    BY <1>6 DEF Both, Lockstep
  <2>2. \/ i.pc = "manifest" /\ wire[l]["initiator"] = <<>> /\ One(own, "manifest")
        \/ i.pc \in {"rows", "inventory"} /\ wire[l]["initiator"] = <<>> /\ own = <<>>
        \/ i.pc = "build" /\ One(wire[l]["initiator"], "inventory") /\ own = <<>>
    BY <1>6 DEF Both, Lockstep, Building, Answering
  <2>3. left = wire[l]["initiator"] /\ own \o <<>> = own
    BY <2>2, <1>6, OneFrame DEF Incoming, Peer
  <2>4. Kept(i, e) /\ Kept(i, kept)
    BY <2>1, <1>2, <1>3 DEF Kept
  <2> HIDE DEF d, left
  <2> QED BY <1>2, <1>6, <2>2, <2>3, <2>4 DEF After, Lockstep, Reading
<1> HIDE DEF left
<1>7. Both(l) => After(l, role, e, left, <<>>)
  BY <1>5, <1>6 DEF Role
<1>8. Both(l) /\ role = "initiator" => After(l, role, next, left, <<>> \o frames)
  BY <1>5
<1>9. Both(l) /\ role = "responder" => After(l, role, [next EXCEPT !.outbound = frames], left, <<>>)
  BY <1>6 DEF kept
<1> QED BY <1>1, <1>4, <1>7, <1>8, <1>9, ReadOnInv

LEMMA ReadRowsInv ==
  ASSUME IsFiniteSet(Row), IsFiniteSet(Table), Inv, NEW l \in Link, NEW role \in Role,
         ReadRows(l, role)
  PROVE  Inv'
<1> DEFINE d == end[l][role]
           e == [d EXCEPT !.pc = "inventory", !.units = @ \cup RowUnits(End[l][role]),
                          !.unread = ExportedRows(End[l][role])]
<1>1. EndpointOK(d)
  BY DEF Inv, LinkOK
<1>2. IsFiniteSet(d.units \cup RowUnits(End[l][role]))
  BY <1>1, ManifestFinite, FS_Union DEF EndpointOK
<1>3. EndpointOK(e) /\ e.pc = "inventory" /\ e.outbound = d.outbound
  BY <1>1, <1>2 DEF EndpointOK
<1>4. Inventoried(l, role, e) /\ d.pc \in {"rows", "inventory"}
  BY DEF ReadRows, At
<1> HIDE DEF e
<1> QED BY <1>3, <1>4, InventoriedInv

LEMMA ReadInventoryInv ==
  ASSUME Inv, NEW l \in Link, NEW role \in Role, ReadInventory(l, role)
  PROVE  Inv'
<1> DEFINE d == end[l][role]
<1>1. EndpointOK(d)
  BY DEF Inv, LinkOK
<1>2. PICK w \in d.unread :
        Inventoried(l, role,
          [d EXCEPT !.unread = @ \ {w},
                    !.inventory = [v \in DOMAIN @ \cup {w} |->
                      IF v = w THEN Inventory(log, store[End[l][role]][w]) ELSE @[v]]])
  BY DEF ReadInventory
<1> DEFINE e == [d EXCEPT !.unread = @ \ {w},
                          !.inventory = [v \in DOMAIN @ \cup {w} |->
                            IF v = w THEN Inventory(log, store[End[l][role]][w]) ELSE @[v]]]
<1>3. d.pc = "inventory"
  BY DEF ReadInventory, At
<1>4. EndpointOK(e) /\ e.pc = "inventory" /\ e.outbound = d.outbound
  BY <1>1, <1>3 DEF EndpointOK
<1>5. Inventoried(l, role, e)
  BY <1>2
<1> HIDE DEF e
<1> QED BY <1>3, <1>4, <1>5, InventoriedInv

\* An end that has read what it exports sends it, or keeps it for its turn.
LEMMA ExportingInv ==
  ASSUME Inv, NEW l \in Link, NEW role \in Role, NEW e, NEW left, NEW sent,
         Exporting(l, role, e, left, sent), end[l][role].pc \notin Ended,
         EndpointOK(e), e.pc = "export",
         Both(l) /\ role = "initiator" =>
           /\ end[l]["responder"].pc \in Building /\ Kept(e, end[l]["responder"])
           /\ wire[l]["initiator"] = <<>> /\ sent = <<>> /\ left = <<>>,
         Both(l) /\ role = "responder" =>
           /\ Kept(end[l]["initiator"], e)
           /\ \/ /\ end[l]["initiator"].pc = "build"
                 /\ left = <<>> /\ One(wire[l]["responder"] \o sent, "inventory")
              \/ /\ end[l]["initiator"].pc = "export"
                 /\ left = <<>> /\ wire[l]["responder"] \o sent = <<>>
              \/ /\ end[l]["initiator"].pc = "receive"
                 /\ Stream(left) /\ wire[l]["responder"] \o sent = <<>>
  PROVE  Inv'
<1> DEFINE next == [e EXCEPT !.pc = "receive", !.remote = {}, !.inventory = <<>>]
           frames == OutboundFrames(e)
           kept == [next EXCEPT !.outbound = frames]
<1>1. EndpointOK(next) /\ next.pc = "receive" /\ next.outbound = e.outbound
  BY DEF EndpointOK
<1>2. kept.pc = "receive" /\ kept.outbound = frames
  BY DEF EndpointOK
<1>3. Stream(frames) /\ <<>> \o frames = frames
  BY OutboundStream, SendStream DEF EndpointOK
<1>4. ReadOn(l, role, e, next, frames, left, sent)
  BY DEF Exporting
<1> HIDE DEF next, kept, frames
<1>5. ASSUME Both(l), role = "initiator"
      PROVE  After(l, role, e, left, sent) /\ After(l, role, next, left, sent \o frames)
  <2>1. Kept(next, end[l]["responder"])
    BY <1>1, <1>5 DEF Kept
  <2>2. wire[l]["initiator"] \o (sent \o frames) = frames /\ wire[l]["initiator"] \o sent = <<>>
    <3>1. wire[l]["initiator"] = <<>> /\ sent = <<>>
      BY <1>5
    <3>2. <<>> \o <<>> = <<>>
      OBVIOUS
    <3> QED BY <1>3, <3>1, <3>2
  <2>3. After(l, role, e, left, sent)
    <3>1. /\ end[l]["responder"].pc \in Building /\ Kept(e, end[l]["responder"])
          /\ left = <<>> /\ e.pc = "export"
      BY <1>5
    <3> QED BY <1>5, <2>2, <3>1 DEF After, Lockstep
  <2>4. After(l, role, next, left, sent \o frames)
    <3>1. end[l]["responder"].pc \in Building /\ left = <<>>
      BY <1>5
    <3> QED BY <1>1, <1>3, <1>5, <2>1, <2>2, <3>1 DEF After, Lockstep
  <2> QED BY <2>3, <2>4
<1>6. ASSUME Both(l), role = "responder"
      PROVE  After(l, role, e, left, sent) /\ After(l, role, kept, left, sent)
  <2>1. Kept(end[l]["initiator"], kept)
    BY <1>2, <1>3, <1>6 DEF Kept
  <2> QED BY <1>2, <1>6, <2>1 DEF After, Lockstep, Building
<1>7. Both(l) => After(l, role, e, left, sent)
  BY <1>5, <1>6 DEF Role
<1>8. Both(l) /\ role = "initiator" => After(l, role, next, left, sent \o frames)
  BY <1>5
<1>9. Both(l) /\ role = "responder" => After(l, role, [next EXCEPT !.outbound = frames], left, sent)
  BY <1>6 DEF kept
<1> QED BY <1>1, <1>4, <1>7, <1>8, <1>9, ReadOnInv

\* Inventories: whoever receives one reads what it will send.
LEMMA InventoryInv ==
  ASSUME Inv, NEW l \in Link, NEW role \in Role, ReceiveInventory(l, role)
  PROVE  Inv'
<1> DEFINE d == end[l][role]
           e == [d EXCEPT !.pc = "export", !.inventory = Body(l, role), !.outbound = <<>>,
                          !.unread = UnitRows(d.units \ d.remote) \cap DOMAIN Body(l, role)]
           left == Tail(Incoming(l, role))
<1>1. d.pc = "build" /\ d.pc \notin Ended /\ Received(l, role, "inventory")
  BY DEF ReceiveInventory, At, Ended
<1>2. EndpointOK(d)
  BY DEF Inv, LinkOK
<1>3. EndpointOK(e) /\ e.pc = "export" /\ e.outbound = <<>>
  BY <1>2 DEF EndpointOK
<1>4. Exporting(l, role, e, left, d.outbound)
  BY DEF ReceiveInventory
<1>5. ASSUME Both(l), role = "initiator"
      PROVE  /\ end[l]["responder"].pc \in Building /\ Kept(e, end[l]["responder"])
             /\ wire[l]["initiator"] = <<>> /\ d.outbound = <<>> /\ left = <<>>
  <2>1. /\ end[l]["responder"].pc \in Building /\ Kept(d, end[l]["responder"])
        /\ wire[l]["initiator"] = <<>> /\ One(wire[l]["responder"], "inventory")
    BY <1>1, <1>5 DEF Both, Lockstep, Received, Incoming, Peer
  <2>2. left = <<>>
    BY <2>1, <1>5, OneFrame DEF Incoming, Peer
  <2> HIDE DEF e, left
  <2> QED BY <1>3, <1>5, <2>1, <2>2 DEF Kept
<1>6. ASSUME Both(l), role = "responder"
      PROVE  /\ Kept(end[l]["initiator"], e) /\ end[l]["initiator"].pc = "build"
             /\ left = <<>> /\ One(wire[l]["responder"] \o d.outbound, "inventory")
  <2>1. /\ end[l]["initiator"].pc = "build" /\ Kept(end[l]["initiator"], d)
        /\ One(wire[l]["initiator"], "inventory") /\ wire[l]["responder"] = <<>>
    BY <1>1, <1>6, OneFrame DEF Both, Lockstep, Received, Incoming, Peer, Reading, Building, Answering
  <2>2. left = <<>>
    BY <2>1, <1>6, OneFrame DEF Incoming, Peer
  <2>3. One(wire[l]["responder"] \o d.outbound, "inventory")
    BY <2>1, <1>1, <1>6, SendStream DEF Kept
  <2> HIDE DEF e, left
  <2> QED BY <1>3, <1>6, <2>1, <2>2, <2>3 DEF Kept
<1> HIDE DEF e, left
<1> QED BY <1>1, <1>3, <1>4, <1>5, <1>6, ExportingInv

\* The reading of inventories and changes, while the peer goes on.
LEMMA ExportInv ==
  ASSUME Inv, NEW l \in Link, NEW role \in Role, ReadMissing(l, role) \/ ExportChange(l, role)
  PROVE  Inv'
<1> DEFINE d == end[l][role]
           left == Incoming(l, role)
<1>1. d.pc = "export" /\ d.pc \notin Ended
  BY DEF ReadMissing, ExportChange, At, Ended
<1>2. EndpointOK(d)
  BY DEF Inv, LinkOK
<1>3. ASSUME Both(l)
      PROVE  /\ role = "initiator" =>
                  /\ end[l]["responder"].pc \in Building /\ Kept(d, end[l]["responder"])
                  /\ wire[l]["initiator"] = <<>> /\ left = <<>>
             /\ role = "responder" =>
                  /\ Kept(end[l]["initiator"], d)
                  /\ \/ /\ end[l]["initiator"].pc = "build"
                        /\ left = <<>> /\ One(wire[l]["responder"], "inventory")
                     \/ /\ end[l]["initiator"].pc = "export"
                        /\ left = <<>> /\ wire[l]["responder"] = <<>>
                     \/ /\ end[l]["initiator"].pc = "receive"
                        /\ Stream(left) /\ wire[l]["responder"] = <<>>
  BY <1>1, <1>3 DEF Both, Lockstep, Incoming, Peer, Reading, Answering
<1>4. ASSUME NEW e, EndpointOK(e), e.pc = "export", e.outbound = d.outbound,
             Exporting(l, role, e, left, <<>>)
      PROVE  Inv'
  <2>1. ASSUME Both(l), role = "initiator"
        PROVE  /\ end[l]["responder"].pc \in Building /\ Kept(e, end[l]["responder"])
               /\ wire[l]["initiator"] = <<>> /\ left = <<>>
    BY <1>3, <1>4, <2>1 DEF Kept
  <2>2. ASSUME Both(l), role = "responder"
        PROVE  /\ Kept(end[l]["initiator"], e)
               /\ \/ /\ end[l]["initiator"].pc = "build"
                     /\ left = <<>> /\ One(wire[l]["responder"] \o <<>>, "inventory")
                  \/ /\ end[l]["initiator"].pc = "export"
                     /\ left = <<>> /\ wire[l]["responder"] \o <<>> = <<>>
                  \/ /\ end[l]["initiator"].pc = "receive"
                     /\ Stream(left) /\ wire[l]["responder"] \o <<>> = <<>>
    BY <1>3, <1>4, <2>2, OneFrame DEF Kept
  <2> HIDE DEF d, left
  <2> QED BY <1>1, <1>4, <2>1, <2>2, ExportingInv DEF d
<1>5. CASE ReadMissing(l, role)
  <2>1. PICK w \in d.unread :
          Exporting(l, role,
            [d EXCEPT !.unread = @ \ {w}, !.exports = Missing(End[l][role], w, d.inventory)],
            left, <<>>)
    BY <1>5 DEF ReadMissing
  <2> DEFINE e == [d EXCEPT !.unread = @ \ {w}, !.exports = Missing(End[l][role], w, d.inventory)]
  <2>2. EndpointOK(e) /\ e.pc = "export" /\ e.outbound = d.outbound
    BY <1>1, <1>2 DEF EndpointOK
  <2>3. Exporting(l, role, e, left, <<>>)
    BY <2>1
  <2> HIDE DEF d, e, left
  <2> QED BY <1>4, <2>2, <2>3
<1>6. CASE ExportChange(l, role)
  <2>1. PICK c \in d.exports :
          Exporting(l, role,
            [d EXCEPT !.exports = @ \ {c}, !.changes = @ \cup {x \in {c} : Found(End[l][role], x)}],
            left, <<>>)
    BY <1>6 DEF ExportChange
  <2> DEFINE found == {x \in {c} : Found(End[l][role], x)}
             e == [d EXCEPT !.exports = @ \ {c}, !.changes = @ \cup found]
  <2>2. IsFiniteSet(found)
    BY FS_Singleton, FinitePart
  <2>3. IsFiniteSet(d.changes \cup found)
    BY <1>2, <2>2, FS_Union DEF EndpointOK
  <2>4. Exporting(l, role, e, left, <<>>)
    BY <2>1
  <2> HIDE DEF found
  <2>5. EndpointOK(e) /\ e.pc = "export" /\ e.outbound = d.outbound
    BY <1>1, <1>2, <2>3 DEF EndpointOK
  <2> HIDE DEF d, e, left
  <2> QED BY <1>4, <2>4, <2>5
<1> QED BY <1>5, <1>6

\* An end that stays where it is while it receives a stream.
LEMMA StreamInv ==
  ASSUME Inv, NEW l \in Link, NEW role \in Role, NEW e, NEW left,
         EndpointOK(e),
         end[l][role].pc \in {"receive", "recovery"},
         e.pc = end[l][role].pc, e.outbound = end[l][role].outbound,
         Incoming(l, role) # <<>>,
         Stream(Incoming(l, role)) => Stream(left),
         GoOn(l, role, e, left, <<>>)
  PROVE  Inv'
<1>1. end[l][role].pc \notin Ended
  BY DEF Ended
<1>2. ASSUME Both(l)
      PROVE  After(l, role, e, left, <<>>)
  <2>1. Kept(end[l]["initiator"], end[l]["responder"])
    BY <1>2 DEF Both, Lockstep
  <2>2. CASE role = "initiator"
    <3>1. /\ e.pc = "receive" /\ end[l]["responder"].pc = "requests"
          /\ wire[l]["initiator"] = <<>> /\ Stream(left)
      BY <1>2, <2>2 DEF Both, Lockstep, Incoming, Peer
    <3>2. wire[l]["initiator"] \o <<>> = <<>>
      BY <3>1
    <3>3. Kept(e, end[l]["responder"])
      BY <2>1, <2>2 DEF Kept
    <3> QED BY <2>2, <3>1, <3>2, <3>3 DEF After, Lockstep
  <2>3. CASE role = "responder"
    <3>1. /\ \/ end[l]["initiator"].pc = "receive" /\ e.pc = "receive"
             \/ end[l]["initiator"].pc = "recovery" /\ e.pc = "recovery"
          /\ Stream(left) /\ wire[l]["responder"] = <<>>
      BY <1>2, <2>3 DEF Both, Lockstep, Incoming, Peer, Reading, Building, Answering
    <3>2. wire[l]["responder"] \o <<>> = <<>>
      BY <3>1
    <3>3. Kept(end[l]["initiator"], e)
      BY <2>1, <2>3 DEF Kept
    <3> QED BY <2>3, <3>1, <3>2, <3>3 DEF After, Lockstep, Building, Answering
  <2> QED BY <2>2, <2>3 DEF Role
<1> QED BY <1>1, <1>2, StepInv

\* Units of a frame, one by one.
LEMMA UnitInv ==
  ASSUME Inv, NEW l \in Link, NEW role \in Role, ReceiveUnit(l, role)
  PROVE  Inv'
<1> DEFINE d == end[l][role]
           left == FrameLeft(l, role)
<1>1. /\ d.pc \in {"receive", "recovery"} /\ d.pc \notin Ended
      /\ Received(l, role, "state") /\ Incoming(l, role) # <<>>
  BY DEF ReceiveUnit, Ended, Received
<1>2. EndpointOK(d)
  BY DEF Inv, LinkOK
<1>3. Stream(Incoming(l, role)) => Stream(left)
  BY <1>1, StreamTail, StreamRest DEF FrameLeft, Received
<1>4. CASE GoOn(l, role, d, left, <<>>)
  BY <1>1, <1>2, <1>3, <1>4, StreamInv
<1>5. CASE Stop(l, role, <<Abort>>)
  BY <1>1, <1>5, StopInv
<1> QED BY <1>4, <1>5 DEF ReceiveUnit

\* A batch of changes.
LEMMA ChangesInv ==
  ASSUME Inv, NEW l \in Link, NEW role \in Role, ReceiveChanges(l, role)
  PROVE  Inv'
<1> DEFINE d == end[l][role]
           e == [d EXCEPT !.requests = @ \cup BatchRows(Body(l, role))]
           left == Tail(Incoming(l, role))
<1>1. /\ d.pc = "receive" /\ d.pc \in {"receive", "recovery"} /\ d.pc \notin Ended
      /\ Received(l, role, "changes") /\ Incoming(l, role) # <<>>
  BY DEF ReceiveChanges, At, Ended, Received
<1>2. EndpointOK(d)
  BY DEF Inv, LinkOK
<1>3. Stream(Incoming(l, role)) => Stream(left)
  BY <1>1, StreamTail DEF Received
<1>4. CASE Go(l, role, d, <<>>)
  <2>1. GoOn(l, role, d, left, <<>>)
    BY <1>4 DEF Go
  <2> HIDE DEF left
  <2> QED BY <1>1, <1>2, <1>3, <2>1, StreamInv
<1>5. CASE Go(l, role, e, <<>>)
  <2>1. EndpointOK(e) /\ e.pc = d.pc /\ e.outbound = d.outbound
    BY <1>2 DEF EndpointOK
  <2>2. GoOn(l, role, e, left, <<>>)
    BY <1>5 DEF Go
  <2> HIDE DEF left, e
  <2> QED BY <1>1, <1>3, <2>1, <2>2, StreamInv
<1>6. CASE Stop(l, role, <<Abort>>)
  BY <1>1, <1>6, StopInv
<1> QED BY <1>4, <1>5, <1>6 DEF ReceiveChanges

\* The end of the units and changes.
LEMMA DoneInv ==
  ASSUME Inv, NEW l \in Link, NEW role \in Role, ReceiveDone(l, role)
  PROVE  Inv'
<1> DEFINE d == end[l][role]
           e == [d EXCEPT !.pc = "requests", !.outbound = <<>>]
           left == Tail(Incoming(l, role))
           sent == IF role = "initiator" THEN <<Message("requests", d.requests)>> ELSE d.outbound
<1>1. /\ d.pc = "receive" /\ d.pc \notin Ended
      /\ Received(l, role, "done") /\ Incoming(l, role) # <<>>
  BY DEF ReceiveDone, At, Ended, Received
<1>2. EndpointOK(e) /\ e.pc = "requests"
  <2>1. EndpointOK(d)
    BY DEF Inv, LinkOK
  <2> QED BY <2>1 DEF EndpointOK
<1>3. Stream(Incoming(l, role)) => left = <<>>
  BY <1>1, StreamTail DEF Received
<1>4. GoOn(l, role, e, left, sent)
  BY DEF ReceiveDone, Go
<1>5. ASSUME Both(l)
      PROVE  After(l, role, e, left, sent)
  <2>1. CASE role = "initiator"
    <3>1. /\ end[l]["responder"].pc = "requests"
          /\ wire[l]["initiator"] = <<>> /\ left = <<>>
      BY <1>1, <1>3, <1>5, <2>1 DEF Both, Lockstep, Incoming, Peer
    <3>2. One(wire[l]["initiator"] \o sent, "requests")
      BY <3>1, <2>1, SendOne
    <3>3. Kept(e, end[l]["responder"])
      BY <3>1 DEF Kept
    <3> HIDE DEF e, left, sent
    <3> QED BY <2>1, <1>2, <3>1, <3>2, <3>3 DEF After, Lockstep
  <2>2. CASE role = "responder"
    <3>1. /\ end[l]["initiator"].pc = "receive" /\ Kept(end[l]["initiator"], d)
          /\ Stream(wire[l]["initiator"]) /\ wire[l]["responder"] = <<>>
      BY <1>1, <1>5, <2>2 DEF Both, Lockstep, Reading, Building, Answering, Received, Incoming, Peer
    <3>2. Stream(sent) /\ left = <<>>
      BY <3>1, <1>1, <1>3, <2>2 DEF Kept, Incoming, Peer
    <3>3. Stream(wire[l]["responder"] \o sent)
      BY <3>1, <3>2, SendStream
    <3>4. Kept(end[l]["initiator"], e)
      BY <3>1 DEF Kept
    <3> HIDE DEF e, left, sent
    <3> QED BY <2>2, <1>2, <3>1, <3>2, <3>3, <3>4 DEF After, Lockstep
  <2> QED BY <2>1, <2>2 DEF Role
<1> HIDE DEF e, left, sent
<1> QED BY <1>1, <1>2, <1>4, <1>5, StepInv

\* An end that has read the snapshots it was asked for sends them, or keeps them for its turn.
LEMMA SnappedInv ==
  ASSUME Inv, NEW l \in Link, NEW role \in Role, NEW e, NEW left, NEW sent,
         Snapped(l, role, e, left, sent), end[l][role].pc \notin Ended,
         EndpointOK(e), e.pc = "snapshots",
         Both(l) /\ role = "initiator" =>
           /\ end[l]["responder"].pc \in Answering /\ Kept(e, end[l]["responder"])
           /\ wire[l]["initiator"] = <<>> /\ sent = <<>> /\ left = <<>>,
         Both(l) /\ role = "responder" =>
           /\ Kept(end[l]["initiator"], e)
           /\ \/ /\ end[l]["initiator"].pc = "requests"
                 /\ left = <<>> /\ One(wire[l]["responder"] \o sent, "requests")
              \/ /\ end[l]["initiator"].pc = "snapshots"
                 /\ left = <<>> /\ wire[l]["responder"] \o sent = <<>>
              \/ /\ end[l]["initiator"].pc = "recovery"
                 /\ Stream(left) /\ wire[l]["responder"] \o sent = <<>>
  PROVE  Inv'
<1> DEFINE next == [e EXCEPT !.pc = "recovery", !.snapshots = {}]
           frames == RecoveryFrames(e)
           kept == [next EXCEPT !.outbound = frames]
<1>1. EndpointOK(next) /\ next.pc = "recovery" /\ next.outbound = e.outbound
  BY FS_EmptySet DEF EndpointOK
<1>2. kept.pc = "recovery" /\ kept.outbound = frames
  BY DEF EndpointOK
<1>3. Stream(frames) /\ <<>> \o frames = frames
  BY RecoveryStream, SendStream DEF EndpointOK
<1>4. ReadOn(l, role, e, next, frames, left, sent)
  BY DEF Snapped
<1> HIDE DEF next, kept, frames
<1>5. ASSUME Both(l), role = "initiator"
      PROVE  After(l, role, e, left, sent) /\ After(l, role, next, left, sent \o frames)
  <2>1. Kept(next, end[l]["responder"])
    BY <1>1, <1>5 DEF Kept
  <2>2. wire[l]["initiator"] \o (sent \o frames) = frames /\ wire[l]["initiator"] \o sent = <<>>
    <3>1. wire[l]["initiator"] = <<>> /\ sent = <<>>
      BY <1>5
    <3>2. <<>> \o <<>> = <<>>
      OBVIOUS
    <3> QED BY <1>3, <3>1, <3>2
  <2>3. After(l, role, e, left, sent)
    <3>1. /\ end[l]["responder"].pc \in Answering /\ Kept(e, end[l]["responder"])
          /\ left = <<>> /\ e.pc = "snapshots"
      BY <1>5
    <3> QED BY <1>5, <2>2, <3>1 DEF After, Lockstep
  <2>4. After(l, role, next, left, sent \o frames)
    <3>1. end[l]["responder"].pc \in Answering /\ left = <<>>
      BY <1>5
    <3> QED BY <1>1, <1>3, <1>5, <2>1, <2>2, <3>1 DEF After, Lockstep
  <2> QED BY <2>3, <2>4
<1>6. ASSUME Both(l), role = "responder"
      PROVE  After(l, role, e, left, sent) /\ After(l, role, kept, left, sent)
  <2>1. Kept(end[l]["initiator"], kept)
    BY <1>2, <1>3, <1>6 DEF Kept
  <2> QED BY <1>2, <1>6, <2>1 DEF After, Lockstep, Answering
<1>7. Both(l) => After(l, role, e, left, sent)
  BY <1>5, <1>6 DEF Role
<1>8. Both(l) /\ role = "initiator" => After(l, role, next, left, sent \o frames)
  BY <1>5
<1>9. Both(l) /\ role = "responder" => After(l, role, [next EXCEPT !.outbound = frames], left, sent)
  BY <1>6 DEF kept
<1> QED BY <1>1, <1>4, <1>7, <1>8, <1>9, ReadOnInv

\* Requests: whoever receives them reads the snapshots.
LEMMA RequestsInv ==
  ASSUME Inv, NEW l \in Link, NEW role \in Role, ReceiveRequests(l, role)
  PROVE  Inv'
<1> DEFINE d == end[l][role]
           e == [d EXCEPT !.pc = "snapshots", !.unread = Body(l, role), !.requests = {}]
           left == Tail(Incoming(l, role))
           sent == IF role = "responder" THEN <<Message("requests", d.requests)>> ELSE <<>>
<1>1. d.pc = "requests" /\ d.pc \notin Ended /\ Received(l, role, "requests")
  BY DEF ReceiveRequests, At, Ended
<1>2. EndpointOK(d)
  BY DEF Inv, LinkOK
<1>3. EndpointOK(e) /\ e.pc = "snapshots" /\ e.outbound = d.outbound
  BY <1>2 DEF EndpointOK
<1>4. Snapped(l, role, e, left, sent)
  BY DEF ReceiveRequests
<1>5. ASSUME Both(l), role = "initiator"
      PROVE  /\ end[l]["responder"].pc \in Answering /\ Kept(e, end[l]["responder"])
             /\ wire[l]["initiator"] = <<>> /\ sent = <<>> /\ left = <<>>
  <2>1. /\ end[l]["responder"].pc \in Answering /\ Kept(d, end[l]["responder"])
        /\ wire[l]["initiator"] = <<>> /\ One(wire[l]["responder"], "requests")
    BY <1>1, <1>5 DEF Both, Lockstep, Received, Incoming, Peer
  <2>2. left = <<>> /\ sent = <<>>
    BY <2>1, <1>5, OneFrame DEF Incoming, Peer
  <2> HIDE DEF e, left, sent
  <2> QED BY <1>3, <1>5, <2>1, <2>2 DEF Kept
<1>6. ASSUME Both(l), role = "responder"
      PROVE  /\ Kept(end[l]["initiator"], e) /\ end[l]["initiator"].pc = "requests"
             /\ left = <<>> /\ One(wire[l]["responder"] \o sent, "requests")
  <2>1. /\ end[l]["initiator"].pc = "requests" /\ Kept(end[l]["initiator"], d)
        /\ One(wire[l]["initiator"], "requests") /\ wire[l]["responder"] = <<>>
    <3>1. /\ end[l]["initiator"].pc \in {"receive", "requests"} /\ Kept(end[l]["initiator"], d)
          /\ end[l]["initiator"].pc = "receive" => wire[l]["initiator"] = <<>>
          /\ end[l]["initiator"].pc = "requests" =>
               One(wire[l]["initiator"], "requests") /\ wire[l]["responder"] = <<>>
      BY <1>1, <1>6 DEF Both, Lockstep, Reading, Building, Answering
    <3> QED BY <3>1, <1>1, <1>6 DEF Received, Incoming, Peer
  <2>2. left = <<>>
    BY <2>1, <1>6, OneFrame DEF Incoming, Peer
  <2>3. One(wire[l]["responder"] \o sent, "requests")
    BY <2>1, <1>6, SendOne
  <2> HIDE DEF e, left, sent
  <2> QED BY <1>3, <1>6, <2>1, <2>2, <2>3 DEF Kept
<1> HIDE DEF e, left, sent
<1> QED BY <1>1, <1>3, <1>4, <1>5, <1>6, SnappedInv

\* The reading of snapshots, while the peer goes on.
LEMMA ReadSnapshotInv ==
  ASSUME Inv, NEW l \in Link, NEW role \in Role, ReadSnapshot(l, role)
  PROVE  Inv'
<1> DEFINE d == end[l][role]
           left == Incoming(l, role)
<1>1. d.pc = "snapshots" /\ d.pc \notin Ended
  BY DEF ReadSnapshot, At, Ended
<1>2. EndpointOK(d)
  BY DEF Inv, LinkOK
<1>3. PICK w \in d.unread :
        Snapped(l, role,
          [d EXCEPT !.unread = @ \ {w}, !.snapshots = @ \cup Snapshot(End[l][role], w)],
          left, <<>>)
  BY DEF ReadSnapshot
<1> DEFINE S == Snapshot(End[l][role], w)
           e == [d EXCEPT !.unread = @ \ {w}, !.snapshots = @ \cup S]
<1>4. Snapped(l, role, e, left, <<>>)
  BY <1>3
<1>5. IsFiniteSet(S)
  <2>1. S \subseteq {RowUnitOf(End[l][role], w)}
    BY DEF Snapshot
  <2> QED BY <2>1, FS_Singleton, FinitePart
<1> HIDE DEF S
<1>6. IsFiniteSet(d.snapshots \cup S)
  BY <1>2, <1>5, FS_Union DEF EndpointOK
<1>7. EndpointOK(e) /\ e.pc = "snapshots" /\ e.outbound = d.outbound
  BY <1>1, <1>2, <1>6 DEF EndpointOK
<1>8. ASSUME Both(l), role = "initiator"
      PROVE  /\ end[l]["responder"].pc \in Answering /\ Kept(e, end[l]["responder"])
             /\ wire[l]["initiator"] = <<>> /\ left = <<>>
  <2>1. /\ end[l]["responder"].pc \in Answering /\ Kept(d, end[l]["responder"])
        /\ wire[l]["initiator"] = <<>> /\ left = <<>>
    BY <1>1, <1>8 DEF Both, Lockstep, Incoming, Peer
  <2> HIDE DEF d, e, left
  <2> QED BY <1>7, <2>1 DEF Kept
<1>9. ASSUME Both(l), role = "responder"
      PROVE  /\ Kept(end[l]["initiator"], e)
             /\ \/ /\ end[l]["initiator"].pc = "requests"
                   /\ left = <<>> /\ One(wire[l]["responder"] \o <<>>, "requests")
                \/ /\ end[l]["initiator"].pc = "snapshots"
                   /\ left = <<>> /\ wire[l]["responder"] \o <<>> = <<>>
                \/ /\ end[l]["initiator"].pc = "recovery"
                   /\ Stream(left) /\ wire[l]["responder"] \o <<>> = <<>>
  <2>1. /\ Kept(end[l]["initiator"], d)
        /\ \/ /\ end[l]["initiator"].pc = "requests"
              /\ left = <<>> /\ One(wire[l]["responder"], "requests")
           \/ /\ end[l]["initiator"].pc = "snapshots"
              /\ left = <<>> /\ wire[l]["responder"] = <<>>
           \/ /\ end[l]["initiator"].pc = "recovery"
              /\ Stream(left) /\ wire[l]["responder"] = <<>>
    BY <1>1, <1>9 DEF Both, Lockstep, Incoming, Peer, Reading, Building
  <2> HIDE DEF d, e, left
  <2> QED BY <1>7, <2>1, OneFrame DEF Kept
<1> HIDE DEF d, e, left
<1> QED BY <1>1, <1>4, <1>7, <1>8, <1>9, SnappedInv DEF d

\* The end of the snapshots: this end has succeeded.
LEMMA RecoveredInv ==
  ASSUME Inv, NEW l \in Link, NEW role \in Role, ReceiveRecovered(l, role)
  PROVE  Inv'
<1> DEFINE d == end[l][role]
           e == [d EXCEPT !.pc = "ok", !.outbound = <<>>]
           left == Tail(Incoming(l, role))
<1>1. d.pc = "recovery" /\ d.pc \notin Ended
  BY DEF ReceiveRecovered, At, Ended
<1>2. EndpointOK(e) /\ e.pc \in Ended
  <2>1. EndpointOK(d)
    BY DEF Inv, LinkOK
  <2> QED BY <2>1 DEF EndpointOK, Ended
<1>3. GoOn(l, role, e, left, d.outbound)
  BY DEF ReceiveRecovered, Go
<1> HIDE DEF e, left
<1> QED BY <1>1, <1>2, <1>3, StepInv

-----------------------------------------------------------------------------
(* The other steps *)

\* A step that touches no session keeps the invariant.
LEMMA QuietInv ==
  ASSUME Inv, UNCHANGED <<end, wire>>
  PROVE  Inv'
BY DEF Inv, LinkOK, EndpointOK

\* A session that starts is in lockstep.
LEMMA OpenInv ==
  ASSUME Inv, NEW l \in Link, Open(l)
  PROVE  Inv'
<1> DEFINE e == [Idle EXCEPT !.pc = "hello"]
           hello == Hello(End[l]["initiator"])
<1>1. EndpointOK(e) /\ e.pc = "hello" /\ e.outbound = <<>>
  BY FS_EmptySet DEF EndpointOK, Idle
<1>2. /\ end' = [end EXCEPT ![l] = [role \in Role |-> e]]
      /\ wire' = [wire EXCEPT ![l] = [role \in Role |-> IF role = "initiator" THEN <<Hello(End[l][role])>> ELSE <<>>]]
  BY DEF Open
<1>3. hello.kind = "hello"
  BY DEF Hello, Message
<1> HIDE DEF e, hello
<1>4. One(<<hello>>, "hello")
  BY <1>3 DEF One
<1>5. /\ end = [k \in Link |-> [x \in Role |-> end[k][x]]]
      /\ wire = [k \in Link |-> [x \in Role |-> wire[k][x]]]
  BY DEF Inv
<1>6. /\ end' = [k \in Link |-> [x \in Role |-> end'[k][x]]]
      /\ wire' = [k \in Link |-> [x \in Role |-> wire'[k][x]]]
      /\ \A k \in Link \ {l} : end'[k] = end[k] /\ wire'[k] = wire[k]
  BY <1>2, <1>5
<1>7. /\ \A role \in Role : end'[l][role] = e
      /\ wire'[l]["initiator"] = <<hello>> /\ wire'[l]["responder"] = <<>>
  BY <1>2, <1>5 DEF Role, hello
<1>8. LinkOK(l)'
  <2>1. \A role \in Role : EndpointOK(end'[l][role])
    BY <1>1, <1>7
  <2>2. Lockstep(end'[l]["initiator"], end'[l]["responder"], wire'[l]["initiator"], wire'[l]["responder"])
    BY <1>1, <1>4, <1>7 DEF Lockstep, Kept, Role
  <2> QED BY <2>1, <2>2 DEF LinkOK, EndpointOK
<1>9. \A k \in Link \ {l} : LinkOK(k)'
  <2>1. \A k \in Link \ {l} : LinkOK(k) /\ end'[k] = end[k] /\ wire'[k] = wire[k]
    BY <1>6 DEF Inv
  <2> QED BY <2>1 DEF LinkOK
<1> QED BY <1>6, <1>8, <1>9 DEF Inv

\* Every step of an endpoint.
LEMMA ProceedInv ==
  ASSUME IsFiniteSet(Row), IsFiniteSet(Table), Inv, NEW l \in Link, NEW role \in Role,
         Proceed(l, role) \/ Fail(l, role)
  PROVE  Inv'
<1>1. CASE ReceiveOther(l, role) \/ Disconnected(l, role)
  <2>1. end[l][role].pc \notin Ended
    BY <1>1 DEF ReceiveOther, Disconnected, Awaits, Ended
  <2> QED BY <1>1, <2>1, StopInv DEF ReceiveOther, Disconnected
<1>2. CASE Fail(l, role)
  BY <1>2, StopInv DEF Fail
<1> QED
  BY <1>1, <1>2, HelloInv, ManifestInv, ReadRowsInv, ReadInventoryInv, InventoryInv, ExportInv, UnitInv,
     ChangesInv, DoneInv, RequestsInv, ReadSnapshotInv, RecoveredInv DEF Proceed

\* Nothing has been authored and no session runs.
LEMMA InitInv == Init => Inv
<1> SUFFICES ASSUME Init
             PROVE  Inv
  OBVIOUS
<1>1. EndpointOK(Idle) /\ Idle.pc \in Ended
  BY FS_EmptySet DEF EndpointOK, Idle, Ended
<1>2. \A l \in Link : LinkOK(l)
  BY <1>1 DEF Init, LinkOK, Role
<1> QED BY <1>2 DEF Init, Inv

\* Every step keeps the invariant.
LEMMA NextInv ==
  ASSUME IsFiniteSet(Row), IsFiniteSet(Table), Inv, [Next]_vars
  PROVE  Inv'
<1>1. CASE Statement
  BY <1>1, QuietInv DEF Statement, sessions
<1>2. CASE Ddl
  BY <1>2, QuietInv DEF Ddl, sessions
<1>3. ASSUME NEW l \in Link, Open(l)
      PROVE  Inv'
  BY <1>3, OpenInv
<1>4. ASSUME NEW l \in Link, NEW role \in Role, Proceed(l, role) \/ Fail(l, role)
      PROVE  Inv'
  BY <1>4, ProceedInv
<1>5. CASE UNCHANGED vars
  BY <1>5, QuietInv DEF vars
<1> QED BY <1>1, <1>2, <1>3, <1>4, <1>5 DEF Next

-----------------------------------------------------------------------------
(* Replication, and what is proved of it *)

RowProofs == INSTANCE Replication_proofs

\* Replication_proofs means by documents what Session does,
LEMMA SameDocuments ==
  /\ \A L, c : RowProofs!Payload(L, c) = Payload(L, c)
  /\ \A L, C : RowProofs!Payloads(L, C) = Payloads(L, C)
  /\ \A L, X : RowProofs!Complete(L, X) <=> Complete(L, X)
  /\ \A L, X : RowProofs!Loaded(L, X) = Loaded(L, X)
  /\ \A L, s : RowProofs!Stored(L, s) = Stored(L, s)
  /\ \A L, s : RowProofs!Document(L, s) = Document(L, s)
BY DEF RowProofs!Payload, Payload, RowProofs!Payloads, Payloads, RowProofs!Complete, Complete,
       RowProofs!Loaded, Loaded, RowProofs!Stored, Stored, RowProofs!Document, Document

\* so does the instance that Session names Rows,
LEMMA SameRowDocuments ==
  /\ \A L, c : Rows!Payload(L, c) = Payload(L, c)
  /\ \A L, C : Rows!Payloads(L, C) = Payloads(L, C)
  /\ \A L, X : Rows!Complete(L, X) <=> Complete(L, X)
  /\ \A L, X : Rows!Loaded(L, X) = Loaded(L, X)
  /\ \A L, s : Rows!Stored(L, s) = Stored(L, s)
  /\ \A L, s : Rows!Document(L, s) = Document(L, s)
BY DEF Rows!Payload, Payload, Rows!Payloads, Payloads, Rows!Complete, Complete,
       Rows!Loaded, Loaded, Rows!Stored, Stored, Rows!Document, Document

\* and all three mean the same by stored rows and by what a unit does to one.
LEMMA SameRows ==
  /\ RowProofs!StoredRow = StoredRow /\ RowProofs!NoRow = NoRow /\ Rows!NoRow = NoRow
  /\ \A s, C : RowProofs!AddChanges(s, C) = AddChanges(s, C)
  /\ \A s, C : Rows!AddChanges(s, C) = AddChanges(s, C)
  /\ \A L, s, u : RowProofs!ApplyUnit(L, s, u) = ApplyUnit(L, s, u)
  /\ \A L, s, u : Rows!ApplyUnit(L, s, u) = ApplyUnit(L, s, u)
<1>1. \A L, s, u : RowProofs!ApplyUnit(L, s, u) = ApplyUnit(L, s, u)
  <2>1. \A s : RowProofs!MergeMetadata(s) = MergeMetadata(s)
    BY DEF RowProofs!MergeMetadata, MergeMetadata
  <2>2. \A s, d : RowProofs!AsSnapshot(s, d) = AsSnapshot(s, d)
    BY DEF RowProofs!AsSnapshot, AsSnapshot
  <2>3. \A L, s, x : RowProofs!MergeState(L, s, x) = MergeState(L, s, x)
    BY <2>2, SameDocuments DEF RowProofs!MergeState, MergeState
  <2> QED BY <2>1, <2>3 DEF RowProofs!ApplyUnit, ApplyUnit
<1>2. \A L, s, u : Rows!ApplyUnit(L, s, u) = ApplyUnit(L, s, u)
  <2>1. \A s : Rows!MergeMetadata(s) = MergeMetadata(s)
    BY DEF Rows!MergeMetadata, MergeMetadata
  <2>2. \A s, d : Rows!AsSnapshot(s, d) = AsSnapshot(s, d)
    BY DEF Rows!AsSnapshot, AsSnapshot
  <2>3. \A L, s, x : Rows!MergeState(L, s, x) = MergeState(L, s, x)
    BY <2>2, SameRowDocuments DEF Rows!MergeState, MergeState
  <2> QED BY <2>1, <2>3 DEF Rows!ApplyUnit, ApplyUnit
<1> QED
  BY <1>1, <1>2 DEF RowProofs!StoredRow, StoredRow, RowProofs!NoRow, NoRow, Rows!NoRow,
     RowProofs!AddChanges, AddChanges, Rows!AddChanges

\* Both instances mean the same by statements,
LEMMA SameStatements == ASSUME NEW r, NEW w
  PROVE  /\ Rows!Delete(r, w) <=> RowProofs!Delete(r, w)
         /\ \A c : Rows!Insert(r, w, c) <=> RowProofs!Insert(r, w, c)
         /\ \A c, cols : Rows!Update(r, w, c, cols) <=> RowProofs!Update(r, w, c, cols)
         /\ \A c, cols : Rows!Resolve(r, w, c, cols) <=> RowProofs!Resolve(r, w, c, cols)
<1>1. /\ \A L, s : Rows!Document(L, s) = RowProofs!Document(L, s)
      /\ \A s : Rows!RemoveRow(s) = RowProofs!RemoveRow(s)
  BY SameDocuments, SameRowDocuments DEF Rows!RemoveRow, RowProofs!RemoveRow
<1>2. \A L, s, c : Rows!MergeRow(L, s, c) = RowProofs!MergeRow(L, s, c)
  BY <1>1 DEF Rows!MergeRow, RowProofs!MergeRow
<1>3. \A L, c, v, seen, cols : Rows!Authored(L, c, v, seen, cols) = RowProofs!Authored(L, c, v, seen, cols)
  BY DEF Rows!Authored, RowProofs!Authored
<1>4. \A c, cols : Rows!Write(r, w, c, cols) <=> RowProofs!Write(r, w, c, cols)
  BY <1>1, <1>2, <1>3 DEF Rows!Write, RowProofs!Write
<1>5. \A L, doc : Rows!Conflicted(L, doc) = RowProofs!Conflicted(L, doc)
  BY DEF Rows!Conflicted, RowProofs!Conflicted, Rows!Candidates, RowProofs!Candidates
<1>6. /\ \A L, s : Rows!CanInsert(L, s) <=> RowProofs!CanInsert(L, s)
      /\ \A L, s, cols : Rows!CanUpdate(L, s, cols) <=> RowProofs!CanUpdate(L, s, cols)
      /\ \A L, s, cols : Rows!CanResolve(L, s, cols) <=> RowProofs!CanResolve(L, s, cols)
  BY <1>1, <1>5 DEF Rows!CanInsert, RowProofs!CanInsert, Rows!CanUpdate, RowProofs!CanUpdate,
     Rows!CanResolve, RowProofs!CanResolve
<1>7. Rows!Delete(r, w) <=> RowProofs!Delete(r, w)
  BY <1>1 DEF Rows!Delete, RowProofs!Delete
<1>8. \A c : Rows!Insert(r, w, c) <=> RowProofs!Insert(r, w, c)
  BY <1>4, <1>6 DEF Rows!Insert, RowProofs!Insert
<1>9. \A c, cols : Rows!Update(r, w, c, cols) <=> RowProofs!Update(r, w, c, cols)
  BY <1>4, <1>6 DEF Rows!Update, RowProofs!Update
<1>10. \A c, cols : Rows!Resolve(r, w, c, cols) <=> RowProofs!Resolve(r, w, c, cols)
  BY <1>4, <1>6 DEF Rows!Resolve, RowProofs!Resolve
<1> QED BY <1>7, <1>8, <1>9, <1>10

\* by the steps that rows may take,
LEMMA SameNext == Rows!Next <=> RowProofs!Next
<1>1. /\ \A w : Rows!RowChanges(w) = RowProofs!RowChanges(w)
      /\ \A w : Rows!States(w) = RowProofs!States(w)
  BY SameDocuments, SameRowDocuments DEF Rows!RowChanges, RowProofs!RowChanges, Rows!States, RowProofs!States
<1>2. \A r, w, u : Rows!ApplyState(r, w, u) <=> RowProofs!ApplyState(r, w, u)
  BY <1>1, SameRows DEF Rows!ApplyState, RowProofs!ApplyState
<1>3. \A s, C : Rows!BatchApplies(s, C) <=> RowProofs!BatchApplies(s, C)
  BY SameDocuments, SameRowDocuments DEF Rows!BatchApplies, RowProofs!BatchApplies
<1>4. \A r, batch : Rows!ApplyChanges(r, batch) <=> RowProofs!ApplyChanges(r, batch)
  BY <1>1, <1>3, SameRows DEF Rows!ApplyChanges, RowProofs!ApplyChanges
<1> QED BY <1>1, <1>2, <1>4, SameStatements DEF Rows!Next, RowProofs!Next

\* and by how rows begin.
LEMMA SameInit == Rows!Init <=> RowProofs!Init
BY SameRows DEF Rows!Init, RowProofs!Init

-----------------------------------------------------------------------------
(* What sessions carry *)

\* Units an engine can have exported: a row's document is one some replica may
\* have had, and one that is deleted was deleted somewhere.
GoodUnits ==
  {u \in Unit :
     u.key \in Row =>
       /\ u.value.state \in RowProofs!States(u.key)
       /\ u.value.deleted => u.value.state = {} /\ \E q \in Replica : store[q][u.key].deleted}

\* Changes an engine can have exported.
GoodChanges == {c \in [row : Row, id : DOMAIN log] : log[c.id].row = c.row}

\* Inventories of some rows.
RowInventories == UNION {[S -> SUBSET Change] : S \in SUBSET Row}

\* Frames with these units and changes.
FramesOf(U, C) ==
  [kind : {"hello"}, body : Nat] \cup [kind : {"manifest"}, body : SUBSET Unit]
    \cup [kind : {"inventory"}, body : RowInventories]
    \cup [kind : {"state"}, body : Seq(U) \ {<<>>}]
    \cup [kind : {"changes"}, body : Seq(C)]
    \cup [kind : {"requests"}, body : SUBSET Row]
    \cup [kind : {"done", "abort"}, body : {<<>>}]

Endpoints(U, C, F) ==
  [pc : {"idle", "hello", "manifest", "rows", "inventory", "build", "export", "receive",
         "requests", "snapshots", "recovery", "ok", "failed"},
   remote : SUBSET Unit, units : SUBSET U, inventory : RowInventories, unread : SUBSET Row,
   exports : SUBSET C, changes : SUBSET C, snapshots : SUBSET U, outbound : Seq(F),
   requests : SUBSET Row]

GoodFrames == FramesOf(GoodUnits, GoodChanges)

\* All that is read, kept and sent is something an engine has exported.
Carried ==
  /\ RowProofs!IInv /\ RowProofs!RowsApart
  /\ catalog \in [Replica -> [Table -> EntryValue]]
  /\ end \in [Link -> [Role -> Endpoints(GoodUnits, GoodChanges, GoodFrames)]]
  /\ wire \in [Link -> [Role -> Seq(GoodFrames)]]
  /\ version \in [Replica -> Nat]
  /\ failures \in 0..MaxFailures
  /\ ddl \in 0..MaxDdl

\* Frames stay good when more units and changes are.
LEMMA FramesGrow ==
  ASSUME NEW U, NEW C, NEW V, U \subseteq V, NEW D, C \subseteq D
  PROVE  FramesOf(U, C) \subseteq FramesOf(V, D)
<1>1. Seq(U) \subseteq Seq(V) /\ Seq(C) \subseteq Seq(D)
  BY SeqMonotonic
<1> QED BY <1>1 DEF FramesOf

\* Endpoints do, too.
LEMMA EndpointsGrow ==
  ASSUME NEW U, NEW C, NEW F, NEW V, U \subseteq V, NEW D, C \subseteq D, NEW G, F \subseteq G
  PROVE  Endpoints(U, C, F) \subseteq Endpoints(V, D, G)
<1>1. Seq(F) \subseteq Seq(G)
  BY SeqMonotonic
<1> QED BY <1>1 DEF Endpoints

\* What was exported can still have been when rows have taken a step.
LEMMA RowStep ==
  ASSUME RowProofs!IInv, RowProofs!RowsApart, [RowProofs!Next]_(RowProofs!vars)
  PROVE  /\ RowProofs!IInv' /\ RowProofs!RowsApart'
         /\ GoodUnits \subseteq GoodUnits' /\ GoodChanges \subseteq GoodChanges'
<1>1. RowProofs!IInv' /\ RowProofs!RowsApart'
  BY PayloadAssumption, RowProofs!StepInvariant, RowProofs!ApartStep
<1>2. \A d \in DOMAIN log : d \in DOMAIN log' /\ log'[d] = log[d]
  <2>1. CASE UNCHANGED RowProofs!vars
    BY <2>1 DEF RowProofs!vars
  <2>2. CASE RowProofs!Next
    <3>1. ASSUME NEW r, NEW w, NEW c, NEW cols, RowProofs!Write(r, w, c, cols)
          PROVE  \A d \in DOMAIN log : d \in DOMAIN log' /\ log'[d] = log[d]
      BY <3>1 DEF RowProofs!Write, RowProofs!Authored
    <3> QED
      BY <2>2, <3>1 DEF RowProofs!Next, RowProofs!Insert, RowProofs!Update, RowProofs!Resolve,
         RowProofs!Delete, RowProofs!ApplyState, RowProofs!ApplyChanges
  <2> QED BY <2>1, <2>2
<1>3. \A q \in Replica, w \in Row : store[q][w].deleted => store'[q][w].deleted
  BY PayloadAssumption, RowProofs!DeletedStays
<1>4. \A w \in Row : RowProofs!States(w) \subseteq RowProofs!States(w)'
  <2> SUFFICES ASSUME NEW w \in Row, NEW X \in RowProofs!States(w)
               PROVE  X \in RowProofs!States(w)'
    OBVIOUS
  <2>1. X \subseteq RowProofs!RowChanges(w) /\ RowProofs!Complete(log, X)
    BY DEF RowProofs!States
  <2>2. X \subseteq RowProofs!RowChanges(w)'
    BY <1>2, <2>1 DEF RowProofs!RowChanges
  <2>3. RowProofs!Complete(log', X)
    BY <1>2, <2>1 DEF RowProofs!Complete
  <2> QED BY <2>2, <2>3 DEF RowProofs!States
<1>5. GoodUnits \subseteq GoodUnits'
  BY <1>3, <1>4 DEF GoodUnits
<1>6. GoodChanges \subseteq GoodChanges'
  BY <1>2 DEF GoodChanges
<1> QED BY <1>1, <1>5, <1>6

\* An endpoint that goes on with what engines have exported.
LEMMA GoOnCarried ==
  ASSUME end \in [Link -> [Role -> Endpoints(GoodUnits, GoodChanges, GoodFrames)]],
         wire \in [Link -> [Role -> Seq(GoodFrames)]],
         GoodUnits \subseteq GoodUnits', GoodChanges \subseteq GoodChanges',
         NEW l \in Link, NEW role \in Role, NEW e, NEW left, NEW sent, GoOn(l, role, e, left, sent),
         e \in Endpoints(GoodUnits', GoodChanges', GoodFrames'),
         left \in Seq(GoodFrames'), sent \in Seq(GoodFrames')
  PROVE  /\ end' \in [Link -> [Role -> Endpoints(GoodUnits', GoodChanges', GoodFrames')]]
         /\ wire' \in [Link -> [Role -> Seq(GoodFrames')]]
<1>1. GoodFrames \subseteq GoodFrames'
  BY FramesGrow DEF GoodFrames
<1>2. Endpoints(GoodUnits, GoodChanges, GoodFrames) \subseteq Endpoints(GoodUnits', GoodChanges', GoodFrames')
  BY <1>1, EndpointsGrow
<1>3. Seq(GoodFrames) \subseteq Seq(GoodFrames')
  BY <1>1, SeqMonotonic
<1> DEFINE E == Endpoints(GoodUnits, GoodChanges, GoodFrames)
           F == Endpoints(GoodUnits', GoodChanges', GoodFrames')
           S == Seq(GoodFrames)
           T == Seq(GoodFrames')
<1>4. <<>> \in T /\ \A x \in S : x \o sent \in T
  BY <1>3, ConcatProperties
<1> HIDE DEF E, F, S, T
<1>5. end' \in [Link -> [Role -> F]]
  BY <1>2 DEF GoOn, E, F
<1>6. wire' \in [Link -> [Role -> T]]
  BY <1>3, <1>4 DEF GoOn, S, T
<1> QED BY <1>5, <1>6 DEF F, T

-----------------------------------------------------------------------------
(* What an engine exports *)

\* What is stored of a row, for Session's own operators.
LEMMA StoredFacts ==
  ASSUME RowProofs!IInv, RowProofs!RowsApart, NEW r \in Replica, NEW w \in Row
  PROVE  /\ store[r][w] \in StoredRow
         /\ Complete(log, Stored(log, store[r][w]))
         /\ Stored(log, store[r][w]) \subseteq RowProofs!RowChanges(w)
         /\ DOMAIN log \subseteq Change
<1>1. /\ store[r][w] \in RowProofs!StoredRow
      /\ RowProofs!Complete(log, RowProofs!Stored(log, store[r][w]))
  BY PayloadAssumption, RowProofs!RowFacts
<1>2. RowProofs!Stored(log, store[r][w]) \subseteq RowProofs!RowChanges(w)
  BY DEF RowProofs!RowsApart
<1>3. DOMAIN log \subseteq Change
  BY DEF RowProofs!IInv, RowProofs!TypeOK
<1> QED BY <1>1, <1>2, <1>3, SameDocuments, SameRows

\* A live row's document is all that is stored, a deleted one has none.
LEMMA DocumentFacts ==
  ASSUME RowProofs!IInv, RowProofs!RowsApart, NEW r \in Replica, NEW w \in Row
  PROVE  Document(log, store[r][w]) = IF store[r][w].deleted THEN {} ELSE Stored(log, store[r][w])
BY StoredFacts DEF Document, Loaded, Complete

\* The unit of a row.
LEMMA UnitGood ==
  ASSUME RowProofs!IInv, RowProofs!RowsApart, NEW r \in Replica, NEW w \in Row
  PROVE  RowUnitOf(r, w) \in GoodUnits
<1> DEFINE s == store[r][w]
           D == Document(log, s)
           v == UnitOf(log, s)
<1>1. /\ s \in StoredRow /\ Complete(log, Stored(log, s))
      /\ Stored(log, s) \subseteq RowProofs!RowChanges(w) /\ DOMAIN log \subseteq Change
      /\ D = IF s.deleted THEN {} ELSE Stored(log, s)
  BY StoredFacts, DocumentFacts
<1> HIDE DEF D
<1>2. v = [state |-> D, deleted |-> s.deleted] /\ s.deleted \in BOOLEAN
  BY <1>1 DEF UnitOf, D, StoredRow
<1>3. D \subseteq RowProofs!RowChanges(w) /\ Complete(log, D)
  BY <1>1 DEF Complete
<1>4. D \in RowProofs!States(w)
  BY <1>3, SameDocuments DEF RowProofs!States
<1>5. D \in SUBSET Change
  BY <1>1, <1>3 DEF Complete
<1>6. v \in RowUnit
  BY <1>2, <1>5 DEF RowUnit
<1>7. v.deleted => v.state = {} /\ \E q \in Replica : store[q][w].deleted
  BY <1>1, <1>2
<1>8. v.state \in RowProofs!States(w)
  BY <1>2, <1>4
<1> HIDE DEF v
<1> QED BY <1>6, <1>7, <1>8 DEF GoodUnits, Unit, RowUnitOf, v

\* The manifest of an engine.
LEMMA ManifestGood ==
  ASSUME RowProofs!IInv, RowProofs!RowsApart, catalog \in [Replica -> [Table -> EntryValue]],
         NEW r \in Replica
  PROVE  /\ CatalogUnits(r) \subseteq GoodUnits
         /\ RowUnits(r) \subseteq GoodUnits
         /\ Manifest(r) \subseteq GoodUnits
<1>1. RowUnits(r) \subseteq GoodUnits
  BY UnitGood DEF RowUnits, ExportedRows
<1>2. CatalogUnits(r) \subseteq GoodUnits
  BY KeyAssumption DEF CatalogUnits, GoodUnits, Unit, EntryValue
<1> QED BY <1>1, <1>2 DEF Manifest

\* The inventory of a row is of its changes, and so is what a peer lacks of it.
LEMMA InventoryGood ==
  ASSUME RowProofs!IInv, RowProofs!RowsApart, NEW r \in Replica, NEW w \in Row
  PROVE  /\ Inventory(log, store[r][w]) \subseteq RowProofs!RowChanges(w)
         /\ Inventory(log, store[r][w]) \subseteq Change
         /\ \A theirs : Missing(r, w, theirs) \subseteq GoodChanges
<1>1. store[r][w].incs \subseteq Stored(log, store[r][w])
  BY DEF Stored, Payloads, Payload
<1>2. Inventory(log, store[r][w]) \subseteq store[r][w].incs
  BY DEF Inventory
<1>3. /\ Inventory(log, store[r][w]) \subseteq RowProofs!RowChanges(w)
      /\ Inventory(log, store[r][w]) \subseteq Change
  BY <1>1, <1>2, StoredFacts DEF RowProofs!RowChanges
<1> QED BY <1>3 DEF Missing, GoodChanges, RowProofs!RowChanges

\* A unit that answers a request.
LEMMA SnapshotGood ==
  ASSUME RowProofs!IInv, RowProofs!RowsApart, NEW r \in Replica, NEW w \in Row
  PROVE  Snapshot(r, w) \subseteq GoodUnits
BY UnitGood DEF Snapshot

\* The changes an endpoint has read are sent as a sequence.
LEMMA ChangesGood ==
  ASSUME RowProofs!IInv, NEW changes \in SUBSET GoodChanges, IsFiniteSet(changes)
  PROVE  ChangeSeq(changes) \in Seq(GoodChanges)
<1>1. \A c \in changes : c.id \in Nat
  BY HashAssumption DEF GoodChanges, RowProofs!IInv, RowProofs!TypeOK
<1>2. \A c, d \in changes : c.id = d.id => c = d
  BY DEF GoodChanges
<1>3. ChangeSeq(changes) \in Seq(changes)
  BY <1>1, <1>2, ChangeSeqOK
<1>4. Seq(changes) \subseteq Seq(GoodChanges)
  BY SeqMonotonic
<1> QED BY <1>3, <1>4

\* The units of an engine are sent as they are.
LEMMA UnitSeqGood ==
  ASSUME NEW units, IsFiniteSet(units), NEW U, units \subseteq U
  PROVE  UnitSeq(units) \in Seq(U)
<1> DEFINE A == {u \in units : u.key \in Table}
           B == {u \in units : u.key \in Row}
<1>1. IsFiniteSet(A) /\ IsFiniteSet(B)
  BY FinitePart
<1>2. SetToSeq(A) \in Seq(A) /\ SetToSeq(B) \in Seq(B)
  BY <1>1, SetToSeqLen
<1>3. SetToSeq(A) \in Seq(U) /\ SetToSeq(B) \in Seq(U)
  BY <1>2, SeqMonotonic
<1> QED BY <1>3, ConcatProperties DEF UnitSeq

\* Frames of good units and of good changes are good.
LEMMA FramesGood ==
  ASSUME NEW U, NEW C
  PROVE  /\ \A seq \in Seq(U) : Frames("state", seq) \in Seq(FramesOf(U, C))
         /\ \A seq \in Seq(C) : Frames("changes", seq) \in Seq(FramesOf(U, C))
<1>1. ASSUME NEW S, NEW seq \in Seq(S), NEW kind,
             \A body \in Seq(S) \ {<<>>} : Message(kind, body) \in FramesOf(U, C)
      PROVE  Frames(kind, seq) \in Seq(FramesOf(U, C))
  <2> DEFINE n == (Len(seq) + Batch - 1) \div Batch
  <2>1. n \in Nat
    BY BatchAssumption
  <2>2. DOMAIN Chunks(seq) = 1..n
    BY DEF Chunks
  <2>3. \A i \in 1..n : Chunks(seq)[i] \in Seq(S) \ {<<>>}
    BY <2>2, ChunksOK
  <2>4. Frames(kind, seq) = [i \in 1..n |-> Message(kind, Chunks(seq)[i])]
    BY <2>2 DEF Frames
  <2> HIDE DEF n
  <2>5. \A i \in 1..n : Frames(kind, seq)[i] \in FramesOf(U, C)
    BY <1>1, <2>3, <2>4
  <2>6. Frames(kind, seq) \in [1..n -> FramesOf(U, C)]
    BY <2>4, <2>5
  <2> QED BY <2>1, <2>6
<1>2. \A body \in Seq(U) \ {<<>>} : Message("state", body) \in FramesOf(U, C)
  BY DEF Message, FramesOf
<1>3. \A body \in Seq(C) \ {<<>>} : Message("changes", body) \in FramesOf(U, C)
  BY DEF Message, FramesOf
<1> QED BY <1>1, <1>2, <1>3

\* What is sent after the inventories.
LEMMA OutboundGood ==
  ASSUME RowProofs!IInv, NEW e \in Endpoints(GoodUnits, GoodChanges, GoodFrames), EndpointOK(e)
  PROVE  OutboundFrames(e) \in Seq(GoodFrames)
<1>1. OutboundUnits(e) \subseteq e.units /\ e.units \subseteq GoodUnits /\ e.changes \in SUBSET GoodChanges
  BY DEF OutboundUnits, Endpoints
<1>2. UnitSeq(OutboundUnits(e)) \in Seq(GoodUnits)
  BY <1>1, FinitePart, UnitSeqGood DEF EndpointOK
<1>3. ChangeSeq(e.changes) \in Seq(GoodChanges)
  BY <1>1, ChangesGood DEF EndpointOK
<1>4. /\ Frames("state", UnitSeq(OutboundUnits(e))) \in Seq(GoodFrames)
      /\ Frames("changes", ChangeSeq(e.changes)) \in Seq(GoodFrames)
  BY <1>2, <1>3, FramesGood DEF GoodFrames
<1>5. <<Done>> \in Seq(GoodFrames)
  BY DEF Done, Message, GoodFrames, FramesOf
<1> QED BY <1>4, <1>5, ConcatProperties DEF OutboundFrames

\* The snapshots of requested rows.
LEMMA RecoveryGood ==
  ASSUME NEW e \in Endpoints(GoodUnits, GoodChanges, GoodFrames), EndpointOK(e)
  PROVE  RecoveryFrames(e) \in Seq(GoodFrames)
<1>1. UnitSeq(e.snapshots) \in Seq(GoodUnits)
  BY UnitSeqGood DEF EndpointOK, Endpoints
<1>2. Frames("state", UnitSeq(e.snapshots)) \in Seq(GoodFrames)
  BY <1>1, FramesGood DEF GoodFrames
<1>3. <<Done>> \in Seq(GoodFrames)
  BY DEF Done, Message, GoodFrames, FramesOf
<1> QED BY <1>2, <1>3, ConcatProperties DEF RecoveryFrames

-----------------------------------------------------------------------------
(* Each step of an endpoint carries what engines have exported *)

\* Steps in which an endpoint goes on as e, and rows take one they may.
LEMMA StepCarried ==
  ASSUME Carried, [RowProofs!Next]_(RowProofs!vars), catalog' \in [Replica -> [Table -> EntryValue]],
         NEW l \in Link, NEW role \in Role, NEW e, NEW left, NEW sent, GoOn(l, role, e, left, sent),
         e \in Endpoints(GoodUnits, GoodChanges, GoodFrames),
         left \in Seq(GoodFrames), sent \in Seq(GoodFrames),
         failures' \in 0..MaxFailures
  PROVE  Carried'
<1>1. /\ RowProofs!IInv' /\ RowProofs!RowsApart'
      /\ GoodUnits \subseteq GoodUnits' /\ GoodChanges \subseteq GoodChanges'
  BY RowStep DEF Carried
<1>2. GoodFrames \subseteq GoodFrames'
  BY <1>1, FramesGrow DEF GoodFrames
<1>3. e \in Endpoints(GoodUnits', GoodChanges', GoodFrames')
  BY <1>1, <1>2, EndpointsGrow
<1>4. left \in Seq(GoodFrames') /\ sent \in Seq(GoodFrames')
  BY <1>2, SeqMonotonic
<1>5. /\ end \in [Link -> [Role -> Endpoints(GoodUnits, GoodChanges, GoodFrames)]]
      /\ wire \in [Link -> [Role -> Seq(GoodFrames)]]
  BY DEF Carried
<1>6. /\ end' \in [Link -> [Role -> Endpoints(GoodUnits', GoodChanges', GoodFrames')]]
      /\ wire' \in [Link -> [Role -> Seq(GoodFrames')]]
  BY <1>1, <1>3, <1>4, <1>5, GoOnCarried
<1>7. version' \in [Replica -> Nat] /\ ddl' \in 0..MaxDdl
  BY DEF Carried, GoOn
<1> QED BY <1>1, <1>6, <1>7 DEF Carried

\* Rows may stay as they are.
LEMMA EnginesStay ==
  ASSUME Carried, UNCHANGED engines
  PROVE  [RowProofs!Next]_(RowProofs!vars) /\ catalog' \in [Replica -> [Table -> EntryValue]]
BY DEF Carried, engines, RowProofs!vars

\* What a link brings.
LEMMA IncomingGood ==
  ASSUME Carried, NEW l \in Link, NEW role \in Role
  PROVE  /\ Incoming(l, role) \in Seq(GoodFrames)
         /\ end[l][role] \in Endpoints(GoodUnits, GoodChanges, GoodFrames)
         /\ End[l][role] \in Replica
BY LinkAssumption DEF Carried, Incoming, Role, Peer

\* The frame that is received, and what it carries.
LEMMA ReceivedGood ==
  ASSUME Carried, NEW l \in Link, NEW role \in Role, NEW kind, Received(l, role, kind)
  PROVE  /\ Tail(Incoming(l, role)) \in Seq(GoodFrames)
         /\ Head(Incoming(l, role)) \in GoodFrames
         /\ Head(Incoming(l, role)).kind = kind
         /\ kind = "manifest" => Body(l, role) \subseteq Unit
         /\ kind = "inventory" => Body(l, role) \in RowInventories
         /\ kind = "state" => Body(l, role) \in Seq(GoodUnits) \ {<<>>}
         /\ kind = "changes" => Body(l, role) \in Seq(GoodChanges)
         /\ kind = "requests" => Body(l, role) \subseteq Row
<1> DEFINE m == Head(Incoming(l, role))
<1>1. m \in GoodFrames /\ m.kind = kind /\ Tail(Incoming(l, role)) \in Seq(GoodFrames)
  BY IncomingGood, HeadTailProperties DEF Received
<1> HIDE DEF m
<1>2. /\ kind = "manifest" => m.body \subseteq Unit
      /\ kind = "inventory" => m.body \in RowInventories
      /\ kind = "state" => m.body \in Seq(GoodUnits) \ {<<>>}
      /\ kind = "changes" => m.body \in Seq(GoodChanges)
      /\ kind = "requests" => m.body \subseteq Row
  BY <1>1 DEF GoodFrames, FramesOf
<1> QED BY <1>1, <1>2 DEF m, Body

\* An end that has not begun, or has given up.
LEMMA IdleGood ==
  ASSUME NEW pc \in {"hello", "manifest", "failed"}
  PROVE  [Idle EXCEPT !.pc = pc] \in Endpoints(GoodUnits, GoodChanges, GoodFrames)
<1>1. <<>> \in Seq(GoodFrames)
  BY EmptySeq
<1>2. <<>> \in RowInventories
  <2>1. <<>> \in [{} -> SUBSET Change]
    OBVIOUS
  <2> QED BY <2>1 DEF RowInventories
<1> QED BY <1>1, <1>2 DEF Idle, Endpoints

\* An end that gives up.
LEMMA StopCarried ==
  ASSUME Carried, NEW l \in Link, NEW role \in Role, NEW sent, sent \in {<<>>, <<Abort>>},
         Stop(l, role, sent), UNCHANGED engines, failures' \in 0..MaxFailures
  PROVE  Carried'
<1> DEFINE e == [Idle EXCEPT !.pc = "failed"]
<1>1. <<>> \in Seq(GoodFrames)
  BY EmptySeq
<1>2. Abort \in GoodFrames
  BY DEF Abort, Message, GoodFrames, FramesOf
<1>3. <<Abort>> \in Seq(GoodFrames)
  BY <1>2
<1>4. GoOn(l, role, e, <<>>, sent)
  BY DEF Stop
<1> HIDE DEF e
<1>5. e \in Endpoints(GoodUnits, GoodChanges, GoodFrames)
  BY IdleGood DEF e
<1> QED BY <1>1, <1>3, <1>4, <1>5, EnginesStay, StepCarried

\* An end that receives one frame, and goes on.
LEMMA GoCarried ==
  ASSUME Carried, NEW l \in Link, NEW role \in Role, NEW kind, Received(l, role, kind),
         NEW e \in Endpoints(GoodUnits, GoodChanges, GoodFrames), NEW sent \in Seq(GoodFrames),
         Go(l, role, e, sent), UNCHANGED <<engines, failures>>
  PROVE  Carried'
<1>1. Tail(Incoming(l, role)) \in Seq(GoodFrames)
  BY ReceivedGood
<1>2. GoOn(l, role, e, Tail(Incoming(l, role)), sent)
  BY DEF Go
<1>3. failures' \in 0..MaxFailures
  BY DEF Carried
<1> QED BY <1>1, <1>2, <1>3, EnginesStay, StepCarried

\* One frame is sent.
LEMMA SentGood ==
  ASSUME NEW kind, NEW body, Message(kind, body) \in GoodFrames
  PROVE  <<Message(kind, body)>> \in Seq(GoodFrames)
OBVIOUS

\* A hello is answered by the hello or the manifest of the engine.
LEMMA HelloCarried ==
  ASSUME Carried, NEW l \in Link, NEW role \in Role, ReceiveHello(l, role)
  PROVE  Carried'
<1> DEFINE r == End[l][role]
<1>1. Received(l, role, "hello") /\ UNCHANGED <<engines, failures>> /\ r \in Replica
  BY LinkAssumption DEF ReceiveHello
<1>2. CASE Stop(l, role, <<>>)
  BY <1>1, <1>2, StopCarried DEF Carried
<1>3. Manifest(r) \subseteq GoodUnits
  BY <1>1, ManifestGood DEF Carried
<1>4. GoodUnits \subseteq Unit
  BY DEF GoodUnits
<1>5. CASE Go(l, role, [Idle EXCEPT !.pc = "manifest"], <<Message("manifest", Manifest(r))>>)
  <2>1. Message("manifest", Manifest(r)) \in GoodFrames
    BY <1>3, <1>4 DEF Message, GoodFrames, FramesOf
  <2> DEFINE e == [Idle EXCEPT !.pc = "manifest"]
  <2>2. e \in Endpoints(GoodUnits, GoodChanges, GoodFrames)
    BY IdleGood
  <2> HIDE DEF e, r
  <2> QED BY <1>1, <1>5, <2>1, <2>2, SentGood, GoCarried DEF e
<1>6. CASE Go(l, role, [Idle EXCEPT !.pc = "manifest", !.units = Manifest(r)], <<Hello(r)>>)
  <2>1. Hello(r) \in GoodFrames
    BY <1>1 DEF Carried, Hello, Message, GoodFrames, FramesOf
  <2> DEFINE e == [Idle EXCEPT !.pc = "manifest", !.units = Manifest(r)]
  <2>2. e \in Endpoints(GoodUnits, GoodChanges, GoodFrames)
    <3> DEFINE d == [Idle EXCEPT !.pc = "manifest"]
    <3>1. d \in Endpoints(GoodUnits, GoodChanges, GoodFrames)
      BY IdleGood
    <3>2. e = [d EXCEPT !.units = Manifest(r)]
      BY DEF Idle
    <3> HIDE DEF r, d, e
    <3> QED BY <1>3, <3>1, <3>2 DEF Endpoints
  <2> HIDE DEF e
  <2>3. <<Hello(r)>> \in Seq(GoodFrames)
    BY <2>1
  <2> QED BY <1>1, <1>6, <2>2, <2>3, GoCarried DEF e
<1> QED BY <1>2, <1>5, <1>6 DEF ReceiveHello

\* A manifest is answered by the manifest, and the catalog is read.
LEMMA ManifestCarried ==
  ASSUME Carried, NEW l \in Link, NEW role \in Role, ReceiveManifest(l, role)
  PROVE  Carried'
<1> DEFINE r == End[l][role]
           e == [Idle EXCEPT !.pc = "rows", !.remote = Body(l, role), !.units = CatalogUnits(r)]
           m == Message("manifest", end[l][role].units)
<1>1. Received(l, role, "manifest") /\ UNCHANGED <<engines, failures>> /\ r \in Replica
  BY LinkAssumption DEF ReceiveManifest
<1>2. CatalogUnits(r) \subseteq GoodUnits /\ Body(l, role) \subseteq Unit
  BY <1>1, ManifestGood, ReceivedGood DEF Carried
<1>3. e \in Endpoints(GoodUnits, GoodChanges, GoodFrames)
  <2>1. [Idle EXCEPT !.pc = "hello"] \in Endpoints(GoodUnits, GoodChanges, GoodFrames)
    BY IdleGood
  <2> QED BY <1>2, <2>1 DEF Endpoints, Idle
<1>4. m \in GoodFrames
  <2>1. end[l][role].units \subseteq GoodUnits
    BY IncomingGood DEF Endpoints
  <2>2. end[l][role].units \subseteq Unit
    BY <2>1 DEF GoodUnits
  <2> QED BY <2>2 DEF Message, GoodFrames, FramesOf
<1>5. <<m>> \in Seq(GoodFrames) /\ <<>> \in Seq(GoodFrames)
  BY <1>4, EmptySeq
<1>6. Go(l, role, e, IF role = "responder" THEN <<m>> ELSE <<>>)
  BY DEF ReceiveManifest
<1> HIDE DEF e, m
<1> QED BY <1>1, <1>3, <1>5, <1>6, GoCarried

\* A reading leaves an end where it is, or is the last and moves it on.
LEMMA ReadOnCarried ==
  ASSUME Carried, NEW l \in Link, NEW role \in Role, NEW e, NEW next, NEW frames, NEW left, NEW sent,
         ReadOn(l, role, e, next, frames, left, sent), UNCHANGED <<engines, failures>>,
         e \in Endpoints(GoodUnits, GoodChanges, GoodFrames),
         next \in Endpoints(GoodUnits, GoodChanges, GoodFrames),
         frames \in Seq(GoodFrames), left \in Seq(GoodFrames), sent \in Seq(GoodFrames)
  PROVE  Carried'
<1> DEFINE kept == [next EXCEPT !.outbound = frames]
<1>1. kept \in Endpoints(GoodUnits, GoodChanges, GoodFrames)
  BY DEF Endpoints
<1>2. failures' \in 0..MaxFailures
  BY DEF Carried
<1>3. sent \o frames \in Seq(GoodFrames)
  BY ConcatProperties
<1>4. CASE GoOn(l, role, e, left, sent)
  BY <1>2, <1>4, EnginesStay, StepCarried
<1>5. CASE GoOn(l, role, next, left, sent \o frames)
  BY <1>2, <1>3, <1>5, EnginesStay, StepCarried
<1>6. CASE GoOn(l, role, kept, left, sent)
  <2> HIDE DEF kept
  <2> QED BY <1>1, <1>2, <1>6, EnginesStay, StepCarried
<1> QED BY <1>4, <1>5, <1>6 DEF ReadOn

\* Inventories that were read.
LEMMA InventoriedCarried ==
  ASSUME Carried, NEW l \in Link, NEW role \in Role,
         NEW e \in Endpoints(GoodUnits, GoodChanges, GoodFrames),
         Inventoried(l, role, e), UNCHANGED <<engines, failures>>
  PROVE  Carried'
<1> DEFINE next == [e EXCEPT !.pc = "build", !.inventory = <<>>]
           m == Message("inventory", e.inventory)
<1>1. <<>> \in RowInventories
  <2>1. <<>> \in [{} -> SUBSET Change]
    OBVIOUS
  <2> QED BY <2>1 DEF RowInventories
<1>2. next \in Endpoints(GoodUnits, GoodChanges, GoodFrames)
  BY <1>1 DEF Endpoints
<1>3. m \in GoodFrames
  BY DEF Endpoints, Message, GoodFrames, FramesOf
<1>4. <<m>> \in Seq(GoodFrames) /\ <<>> \in Seq(GoodFrames) /\ Incoming(l, role) \in Seq(GoodFrames)
  BY <1>3, EmptySeq, IncomingGood
<1>5. ReadOn(l, role, e, next, <<m>>, Incoming(l, role), <<>>)
  BY DEF Inventoried
<1> HIDE DEF next, m
<1> QED BY <1>2, <1>4, <1>5, ReadOnCarried

\* The rows that are read are units of the engine.
LEMMA ReadRowsCarried ==
  ASSUME Carried, NEW l \in Link, NEW role \in Role, ReadRows(l, role)
  PROVE  Carried'
<1> DEFINE r == End[l][role]
           e == [end[l][role] EXCEPT !.pc = "inventory", !.units = @ \cup RowUnits(r),
                                     !.unread = ExportedRows(r)]
<1>1. r \in Replica /\ end[l][role] \in Endpoints(GoodUnits, GoodChanges, GoodFrames)
  BY IncomingGood
<1>2. RowUnits(r) \subseteq GoodUnits
  BY <1>1, ManifestGood DEF Carried
<1>3. e \in Endpoints(GoodUnits, GoodChanges, GoodFrames)
  BY <1>1, <1>2 DEF Endpoints, ExportedRows
<1>4. Inventoried(l, role, e) /\ UNCHANGED <<engines, failures>>
  BY DEF ReadRows
<1> HIDE DEF e
<1> QED BY <1>3, <1>4, InventoriedCarried

\* An inventory is that of a row of the engine.
LEMMA ReadInventoryCarried ==
  ASSUME Carried, NEW l \in Link, NEW role \in Role, ReadInventory(l, role)
  PROVE  Carried'
<1> DEFINE r == End[l][role]
           d == end[l][role]
<1>1. PICK w \in d.unread :
        Inventoried(l, role,
          [d EXCEPT !.unread = @ \ {w},
                    !.inventory = [v \in DOMAIN @ \cup {w} |->
                      IF v = w THEN Inventory(log, store[r][w]) ELSE @[v]]])
  BY DEF ReadInventory
<1> DEFINE read == [v \in DOMAIN d.inventory \cup {w} |->
                      IF v = w THEN Inventory(log, store[r][w]) ELSE d.inventory[v]]
           e == [d EXCEPT !.unread = @ \ {w}, !.inventory = read]
<1>2. /\ r \in Replica /\ d \in Endpoints(GoodUnits, GoodChanges, GoodFrames) /\ w \in Row
      /\ UNCHANGED <<engines, failures>>
  BY IncomingGood DEF ReadInventory, Endpoints
<1>3. Inventory(log, store[r][w]) \subseteq Change
  BY <1>2, InventoryGood DEF Carried
<1>4. read \in RowInventories
  <2>1. PICK S \in SUBSET Row : d.inventory \in [S -> SUBSET Change]
    BY <1>2 DEF Endpoints, RowInventories
  <2>2. read \in [S \cup {w} -> SUBSET Change]
    BY <1>3, <2>1
  <2> QED BY <1>2, <2>2 DEF RowInventories
<1>5. Inventoried(l, role, e)
  BY <1>1
<1> HIDE DEF read
<1>6. e \in Endpoints(GoodUnits, GoodChanges, GoodFrames)
  BY <1>2, <1>4 DEF Endpoints
<1> HIDE DEF e
<1> QED BY <1>2, <1>5, <1>6, InventoriedCarried

\* Units and changes that were read to be sent.
LEMMA ExportingCarried ==
  ASSUME Carried, NEW l \in Link, NEW role \in Role,
         NEW e \in Endpoints(GoodUnits, GoodChanges, GoodFrames), EndpointOK(e),
         NEW left \in Seq(GoodFrames), NEW sent \in Seq(GoodFrames),
         Exporting(l, role, e, left, sent), UNCHANGED <<engines, failures>>
  PROVE  Carried'
<1> DEFINE next == [e EXCEPT !.pc = "receive", !.remote = {}, !.inventory = <<>>]
<1>1. <<>> \in RowInventories
  <2>1. <<>> \in [{} -> SUBSET Change]
    OBVIOUS
  <2> QED BY <2>1 DEF RowInventories
<1>2. next \in Endpoints(GoodUnits, GoodChanges, GoodFrames)
  BY <1>1 DEF Endpoints
<1>3. OutboundFrames(e) \in Seq(GoodFrames)
  BY OutboundGood DEF Carried
<1>4. ReadOn(l, role, e, next, OutboundFrames(e), left, sent)
  BY DEF Exporting
<1> HIDE DEF next
<1> QED BY <1>2, <1>3, <1>4, ReadOnCarried

\* An inventory that is received is one of rows, and what was kept is sent.
LEMMA InventoryCarried ==
  ASSUME Inv, Carried, NEW l \in Link, NEW role \in Role, ReceiveInventory(l, role)
  PROVE  Carried'
<1> DEFINE d == end[l][role]
           e == [d EXCEPT !.pc = "export", !.inventory = Body(l, role), !.outbound = <<>>,
                          !.unread = UnitRows(d.units \ d.remote) \cap DOMAIN Body(l, role)]
           left == Tail(Incoming(l, role))
<1>1. /\ Received(l, role, "inventory") /\ UNCHANGED <<engines, failures>>
      /\ d \in Endpoints(GoodUnits, GoodChanges, GoodFrames)
  BY IncomingGood DEF ReceiveInventory
<1>2. Body(l, role) \in RowInventories /\ left \in Seq(GoodFrames) /\ d.outbound \in Seq(GoodFrames)
  BY <1>1, ReceivedGood DEF Endpoints
<1>3. e \in Endpoints(GoodUnits, GoodChanges, GoodFrames)
  <2>1. <<>> \in Seq(GoodFrames) /\ UnitRows(d.units \ d.remote) \subseteq Row
    BY EmptySeq DEF UnitRows
  <2> QED BY <1>1, <1>2, <2>1 DEF Endpoints
<1>4. EndpointOK(e)
  <2>1. EndpointOK(d)
    BY DEF Inv, LinkOK
  <2> QED BY <2>1 DEF EndpointOK
<1>5. Exporting(l, role, e, left, d.outbound)
  BY DEF ReceiveInventory
<1> HIDE DEF e, left
<1> QED BY <1>1, <1>2, <1>3, <1>4, <1>5, ExportingCarried

\* What is read to be sent are changes of the engine.
LEMMA ExportCarried ==
  ASSUME Inv, Carried, NEW l \in Link, NEW role \in Role, ReadMissing(l, role) \/ ExportChange(l, role)
  PROVE  Carried'
<1> DEFINE r == End[l][role]
           d == end[l][role]
           left == Incoming(l, role)
<1>1. /\ r \in Replica /\ d \in Endpoints(GoodUnits, GoodChanges, GoodFrames)
      /\ left \in Seq(GoodFrames) /\ <<>> \in Seq(GoodFrames) /\ UNCHANGED <<engines, failures>>
  BY IncomingGood, EmptySeq DEF ReadMissing, ExportChange
<1>2. EndpointOK(d)
  BY DEF Inv, LinkOK
<1>3. CASE ReadMissing(l, role)
  <2>1. PICK w \in d.unread :
          Exporting(l, role, [d EXCEPT !.unread = @ \ {w}, !.exports = Missing(r, w, d.inventory)],
                    left, <<>>)
    BY <1>3 DEF ReadMissing
  <2> DEFINE e == [d EXCEPT !.unread = @ \ {w}, !.exports = Missing(r, w, d.inventory)]
  <2>2. w \in Row
    BY <1>1 DEF Endpoints
  <2>3. Missing(r, w, d.inventory) \subseteq GoodChanges
    BY <1>1, <2>2, InventoryGood DEF Carried
  <2>4. e \in Endpoints(GoodUnits, GoodChanges, GoodFrames)
    BY <1>1, <2>3 DEF Endpoints
  <2>5. EndpointOK(e)
    BY <1>2 DEF EndpointOK
  <2>6. Exporting(l, role, e, left, <<>>)
    BY <2>1
  <2> HIDE DEF e, left
  <2> QED BY <1>1, <2>4, <2>5, <2>6, ExportingCarried
<1>4. CASE ExportChange(l, role)
  <2>1. PICK c \in d.exports :
          Exporting(l, role,
            [d EXCEPT !.exports = @ \ {c}, !.changes = @ \cup {x \in {c} : Found(r, x)}], left, <<>>)
    BY <1>4 DEF ExportChange
  <2> DEFINE found == {x \in {c} : Found(r, x)}
             e == [d EXCEPT !.exports = @ \ {c}, !.changes = @ \cup found]
  <2>2. Exporting(l, role, e, left, <<>>)
    BY <2>1
  <2>3. found \subseteq GoodChanges /\ d.changes \subseteq GoodChanges
    BY <1>1 DEF Endpoints
  <2>4. IsFiniteSet(found)
    BY FS_Singleton, FinitePart
  <2>5. IsFiniteSet(d.changes \cup found)
    BY <1>2, <2>4, FS_Union DEF EndpointOK
  <2> HIDE DEF found
  <2>6. e \in Endpoints(GoodUnits, GoodChanges, GoodFrames)
    BY <1>1, <2>3 DEF Endpoints
  <2>7. EndpointOK(e)
    BY <1>2, <2>5 DEF EndpointOK
  <2> HIDE DEF e, left
  <2> QED BY <1>1, <2>2, <2>6, <2>7, ExportingCarried
<1> QED BY <1>3, <1>4

-----------------------------------------------------------------------------
(* Receiving units and changes *)

\* A unit of a row is a state Replication may bring.
LEMMA UnitStep ==
  ASSUME NEW r \in Replica, NEW u \in GoodUnits, u.key \in Row,
         store' = [store EXCEPT ![r][u.key] = ApplyUnit(log, @, u.value)], UNCHANGED log
  PROVE  RowProofs!Next
<1> DEFINE w == u.key
           v == u.value
<1>1. v \in RowUnit
  BY KeyAssumption DEF GoodUnits, Unit
<1>2. v.state \in RowProofs!States(w) /\ (v.deleted => v.state = {} /\ \E q \in Replica : store[q][w].deleted)
  BY DEF GoodUnits
<1>3. v \in [state : RowProofs!States(w), deleted : BOOLEAN]
  BY <1>1, <1>2 DEF RowUnit
<1>4. store' = [store EXCEPT ![r][w] = RowProofs!ApplyUnit(log, @, v)]
  BY SameRows
<1>5. RowProofs!ApplyState(r, w, v)
  BY <1>2, <1>4 DEF RowProofs!ApplyState
<1> HIDE DEF w, v
<1> QED BY <1>3, <1>5 DEF RowProofs!Next, w

\* Taking one unit of a frame leaves good frames.
LEMMA FrameLeftGood ==
  ASSUME Carried, NEW l \in Link, NEW role \in Role, Received(l, role, "state")
  PROVE  FrameLeft(l, role) \in Seq(GoodFrames) /\ Head(Body(l, role)) \in GoodUnits
<1> DEFINE b == Body(l, role)
           t == Tail(Incoming(l, role))
<1>1. b \in Seq(GoodUnits) /\ b # <<>> /\ t \in Seq(GoodFrames)
  BY ReceivedGood
<1>2. FrameLeft(l, role) = IF Len(b) = 1 THEN t ELSE <<Message("state", Tail(b))>> \o t
  BY DEF FrameLeft
<1> HIDE DEF b, t
<1>3. Tail(b) \in Seq(GoodUnits) /\ Len(Tail(b)) = Len(b) - 1 /\ Head(b) \in GoodUnits
  BY <1>1, HeadTailProperties
<1>4. CASE Len(b) = 1
  BY <1>1, <1>2, <1>3, <1>4 DEF b
<1>5. CASE Len(b) # 1
  <2>1. Tail(b) # <<>>
    <3>1. Len(b) \in Nat
      BY <1>1
    <3>2. Len(Tail(b)) # 0
      BY <3>1, <1>3, <1>5
    <3>3. Len(<<>>) = 0
      OBVIOUS
    <3> QED BY <3>2, <3>3
  <2>2. Message("state", Tail(b)) \in GoodFrames
    BY <1>3, <2>1 DEF Message, GoodFrames, FramesOf
  <2>3. <<Message("state", Tail(b))>> \in Seq(GoodFrames)
    BY <2>2
  <2> QED BY <1>1, <1>2, <1>3, <1>5, <2>3, ConcatProperties DEF b
<1> QED BY <1>4, <1>5

\* A unit that is applied, or refused.
LEMMA UnitCarried ==
  ASSUME Carried, NEW l \in Link, NEW role \in Role, ReceiveUnit(l, role)
  PROVE  Carried'
<1> DEFINE r == End[l][role]
           d == end[l][role]
           u == Head(Body(l, role))
           left == FrameLeft(l, role)
<1>1. /\ Received(l, role, "state") /\ failures' \in 0..MaxFailures
      /\ r \in Replica /\ d \in Endpoints(GoodUnits, GoodChanges, GoodFrames)
  BY IncomingGood DEF ReceiveUnit, Carried
<1>2. u \in GoodUnits /\ left \in Seq(GoodFrames) /\ <<>> \in Seq(GoodFrames)
  BY <1>1, FrameLeftGood, EmptySeq
<1>3. ASSUME GoOn(l, role, d, left, <<>>), [RowProofs!Next]_(RowProofs!vars),
             catalog' \in [Replica -> [Table -> EntryValue]]
      PROVE  Carried'
  <2> HIDE DEF d, left
  <2> QED BY <1>1, <1>2, <1>3, StepCarried
<1>4. CASE /\ u.key \in Table
           /\ catalog' = [catalog EXCEPT ![r][u.key] = u.value]
           /\ GoOn(l, role, d, left, <<>>)
           /\ UNCHANGED <<store, log>>
  <2>1. u.value \in EntryValue
    BY <1>2, <1>4, KeyAssumption DEF GoodUnits, Unit
  <2>2. catalog \in [Replica -> [Table -> EntryValue]]
    BY DEF Carried
  <2> HIDE DEF u, d, left, r
  <2>3. catalog' \in [Replica -> [Table -> EntryValue]]
    BY <1>1, <1>4, <2>1, <2>2
  <2> QED BY <1>3, <1>4, <2>3 DEF RowProofs!vars
<1>5. CASE /\ u.key \in Row
           /\ store' = [store EXCEPT ![r][u.key] = ApplyUnit(log, @, u.value)]
           /\ GoOn(l, role, d, left, <<>>)
           /\ UNCHANGED <<log, catalog>>
  <2> HIDE DEF u, d, left, r
  <2>1. RowProofs!Next
    BY <1>1, <1>2, <1>5, UnitStep
  <2> QED BY <1>3, <1>5, <2>1 DEF Carried
<1>6. CASE Stop(l, role, <<Abort>>) /\ UNCHANGED engines
  BY <1>1, <1>6, StopCarried
<1> QED BY <1>4, <1>5, <1>6 DEF ReceiveUnit

\* The end of the frames is answered by requests, or by the frames that were kept.
LEMMA DoneCarried ==
  ASSUME Carried, NEW l \in Link, NEW role \in Role, ReceiveDone(l, role)
  PROVE  Carried'
<1> DEFINE d == end[l][role]
           e == [d EXCEPT !.pc = "requests", !.outbound = <<>>]
           m == Message("requests", d.requests)
<1>1. /\ Received(l, role, "done") /\ UNCHANGED <<engines, failures>>
      /\ d \in Endpoints(GoodUnits, GoodChanges, GoodFrames)
  BY IncomingGood DEF ReceiveDone
<1>2. <<>> \in Seq(GoodFrames) /\ d.outbound \in Seq(GoodFrames)
  BY <1>1, EmptySeq DEF Endpoints
<1>3. e \in Endpoints(GoodUnits, GoodChanges, GoodFrames)
  BY <1>1, <1>2 DEF Endpoints
<1>4. m \in GoodFrames
  BY <1>1 DEF Endpoints, Message, GoodFrames, FramesOf
<1>5. <<m>> \in Seq(GoodFrames)
  BY <1>4
<1>6. Go(l, role, e, IF role = "initiator" THEN <<m>> ELSE d.outbound)
  BY DEF ReceiveDone
<1> HIDE DEF e, m, d
<1> QED BY <1>1, <1>2, <1>3, <1>5, <1>6, GoCarried

\* Snapshots that were read to be sent.
LEMMA SnappedCarried ==
  ASSUME Carried, NEW l \in Link, NEW role \in Role,
         NEW e \in Endpoints(GoodUnits, GoodChanges, GoodFrames), EndpointOK(e),
         NEW left \in Seq(GoodFrames), NEW sent \in Seq(GoodFrames),
         Snapped(l, role, e, left, sent), UNCHANGED <<engines, failures>>
  PROVE  Carried'
<1> DEFINE next == [e EXCEPT !.pc = "recovery", !.snapshots = {}]
<1>1. next \in Endpoints(GoodUnits, GoodChanges, GoodFrames)
  BY DEF Endpoints
<1>2. RecoveryFrames(e) \in Seq(GoodFrames)
  BY RecoveryGood
<1>3. ReadOn(l, role, e, next, RecoveryFrames(e), left, sent)
  BY DEF Snapped
<1> HIDE DEF next
<1> QED BY <1>1, <1>2, <1>3, ReadOnCarried

\* Requests are of rows, and the responder sends its own.
LEMMA RequestsCarried ==
  ASSUME Inv, Carried, NEW l \in Link, NEW role \in Role, ReceiveRequests(l, role)
  PROVE  Carried'
<1> DEFINE d == end[l][role]
           e == [d EXCEPT !.pc = "snapshots", !.unread = Body(l, role), !.requests = {}]
           left == Tail(Incoming(l, role))
           m == Message("requests", d.requests)
           sent == IF role = "responder" THEN <<m>> ELSE <<>>
<1>1. /\ Received(l, role, "requests") /\ UNCHANGED <<engines, failures>>
      /\ d \in Endpoints(GoodUnits, GoodChanges, GoodFrames)
  BY IncomingGood DEF ReceiveRequests
<1>2. Body(l, role) \subseteq Row /\ left \in Seq(GoodFrames)
  BY <1>1, ReceivedGood
<1>3. e \in Endpoints(GoodUnits, GoodChanges, GoodFrames)
  BY <1>1, <1>2 DEF Endpoints
<1>4. EndpointOK(e)
  <2>1. EndpointOK(d)
    BY DEF Inv, LinkOK
  <2> QED BY <2>1 DEF EndpointOK
<1>5. m \in GoodFrames
  BY <1>1 DEF Endpoints, Message, GoodFrames, FramesOf
<1>6. sent \in Seq(GoodFrames)
  BY <1>5, EmptySeq
<1>7. Snapped(l, role, e, left, sent)
  BY DEF ReceiveRequests
<1> HIDE DEF e, left, sent
<1> QED BY <1>1, <1>2, <1>3, <1>4, <1>6, <1>7, SnappedCarried

\* Snapshots are units of the engine.
LEMMA ReadSnapshotCarried ==
  ASSUME Inv, Carried, NEW l \in Link, NEW role \in Role, ReadSnapshot(l, role)
  PROVE  Carried'
<1> DEFINE r == End[l][role]
           d == end[l][role]
           left == Incoming(l, role)
<1>1. /\ r \in Replica /\ d \in Endpoints(GoodUnits, GoodChanges, GoodFrames)
      /\ left \in Seq(GoodFrames) /\ <<>> \in Seq(GoodFrames) /\ UNCHANGED <<engines, failures>>
  BY IncomingGood, EmptySeq DEF ReadSnapshot
<1>2. PICK w \in d.unread :
        Snapped(l, role, [d EXCEPT !.unread = @ \ {w}, !.snapshots = @ \cup Snapshot(r, w)], left, <<>>)
  BY DEF ReadSnapshot
<1> DEFINE S == Snapshot(r, w)
           e == [d EXCEPT !.unread = @ \ {w}, !.snapshots = @ \cup S]
<1>3. w \in Row
  BY <1>1 DEF Endpoints
<1>4. S \subseteq GoodUnits
  BY <1>1, <1>3, SnapshotGood DEF Carried
<1>5. IsFiniteSet(S)
  <2>1. S \subseteq {RowUnitOf(r, w)}
    BY DEF Snapshot
  <2> QED BY <2>1, FS_Singleton, FinitePart
<1>6. Snapped(l, role, e, left, <<>>)
  BY <1>2
<1>7. EndpointOK(d)
  BY DEF Inv, LinkOK
<1> HIDE DEF S
<1>8. IsFiniteSet(d.snapshots \cup S)
  BY <1>5, <1>7, FS_Union DEF EndpointOK
<1>9. EndpointOK(e)
  BY <1>7, <1>8 DEF EndpointOK
<1>10. e \in Endpoints(GoodUnits, GoodChanges, GoodFrames)
  BY <1>1, <1>4 DEF Endpoints
<1> HIDE DEF e, left
<1> QED BY <1>1, <1>6, <1>9, <1>10, SnappedCarried

\* The last frames of the responder.
LEMMA RecoveredCarried ==
  ASSUME Carried, NEW l \in Link, NEW role \in Role, ReceiveRecovered(l, role)
  PROVE  Carried'
<1> DEFINE d == end[l][role]
           e == [d EXCEPT !.pc = "ok", !.outbound = <<>>]
<1>1. /\ Received(l, role, "done") /\ UNCHANGED <<engines, failures>>
      /\ d \in Endpoints(GoodUnits, GoodChanges, GoodFrames)
  BY IncomingGood DEF ReceiveRecovered
<1>2. <<>> \in Seq(GoodFrames) /\ d.outbound \in Seq(GoodFrames)
  BY <1>1, EmptySeq DEF Endpoints
<1>3. e \in Endpoints(GoodUnits, GoodChanges, GoodFrames)
  BY <1>1, <1>2 DEF Endpoints
<1>4. Go(l, role, e, d.outbound)
  BY DEF ReceiveRecovered
<1> HIDE DEF e, d
<1> QED BY <1>1, <1>2, <1>3, <1>4, GoCarried

\* A session that ends, with an abort or without an answer.
LEMMA EndsCarried ==
  ASSUME Carried, NEW l \in Link, NEW role \in Role,
         ReceiveOther(l, role) \/ Disconnected(l, role) \/ Fail(l, role)
  PROVE  Carried'
<1>1. (Stop(l, role, <<>>) \/ Stop(l, role, <<Abort>>)) /\ UNCHANGED engines
  BY DEF ReceiveOther, Disconnected, Fail
<1>2. failures' \in 0..MaxFailures
  BY BoundAssumption DEF ReceiveOther, Disconnected, Fail, Carried
<1> QED BY <1>1, <1>2, StopCarried

\* A session that is opened.
LEMMA OpenCarried ==
  ASSUME Carried, NEW l \in Link, Open(l)
  PROVE  Carried'
<1> DEFINE e == [Idle EXCEPT !.pc = "hello"]
           E == Endpoints(GoodUnits, GoodChanges, GoodFrames)
           F == Seq(GoodFrames)
<1>1. UNCHANGED <<engines, version, failures, ddl>>
  BY DEF Open
<1>2. GoodUnits' = GoodUnits /\ GoodChanges' = GoodChanges /\ GoodFrames' = GoodFrames
  <2>1. UNCHANGED <<store, log>>
    BY <1>1 DEF engines
  <2>2. \A w : RowProofs!States(w)' = RowProofs!States(w)
    BY <2>1 DEF RowProofs!States, RowProofs!RowChanges
  <2>3. GoodUnits' = GoodUnits /\ GoodChanges' = GoodChanges
    BY <2>1, <2>2 DEF GoodUnits, GoodChanges
  <2> QED BY <2>3 DEF GoodFrames
<1>3. e \in E /\ <<>> \in F
  BY IdleGood, EmptySeq
<1>4. <<Hello(End[l]["initiator"])>> \in F
  <2>1. End[l]["initiator"] \in Replica
    BY LinkAssumption DEF Role
  <2>2. Hello(End[l]["initiator"]) \in GoodFrames
    BY <2>1 DEF Carried, Hello, Message, GoodFrames, FramesOf
  <2> QED BY <2>2
<1>5. /\ end' = [end EXCEPT ![l] = [role \in Role |-> e]]
      /\ wire' = [wire EXCEPT ![l] = [role \in Role |-> IF role = "initiator" THEN <<Hello(End[l][role])>> ELSE <<>>]]
  BY DEF Open
<1>6. end \in [Link -> [Role -> E]] /\ wire \in [Link -> [Role -> F]]
  BY DEF Carried
<1> HIDE DEF e, E, F
<1>7. end' \in [Link -> [Role -> E]] /\ wire' \in [Link -> [Role -> F]]
  BY <1>3, <1>4, <1>5, <1>6
<1>8. RowProofs!IInv' /\ RowProofs!RowsApart'
  BY <1>1, RowStep DEF Carried, engines, RowProofs!vars
<1> QED BY <1>1, <1>2, <1>7, <1>8 DEF Carried, engines, E, F

\* A step that no session takes.
LEMMA QuietCarried ==
  ASSUME Carried, [RowProofs!Next]_(RowProofs!vars), UNCHANGED sessions,
         catalog' \in [Replica -> [Table -> EntryValue]], ddl' \in 0..MaxDdl
  PROVE  Carried'
<1>1. /\ RowProofs!IInv' /\ RowProofs!RowsApart'
      /\ GoodUnits \subseteq GoodUnits' /\ GoodChanges \subseteq GoodChanges'
  BY RowStep DEF Carried
<1>2. GoodFrames \subseteq GoodFrames'
  BY <1>1, FramesGrow DEF GoodFrames
<1> DEFINE E == Endpoints(GoodUnits, GoodChanges, GoodFrames)
           F == Endpoints(GoodUnits', GoodChanges', GoodFrames')
<1>3. E \subseteq F
  BY <1>1, <1>2, EndpointsGrow
<1>4. Seq(GoodFrames) \subseteq Seq(GoodFrames')
  BY <1>2, SeqMonotonic
<1>5. end \in [Link -> [Role -> E]] /\ wire \in [Link -> [Role -> Seq(GoodFrames)]]
  BY DEF Carried
<1> HIDE DEF E, F
<1>6. end' \in [Link -> [Role -> F]] /\ wire' \in [Link -> [Role -> Seq(GoodFrames')]]
  BY <1>3, <1>4, <1>5 DEF sessions
<1> QED BY <1>1, <1>6 DEF Carried, sessions, F

\* Statements.
LEMMA StatementCarried ==
  ASSUME Carried, Statement
  PROVE  RowProofs!Next /\ Carried'
<1>1. RowProofs!Next
  BY SameStatements DEF Statement, RowProofs!Next
<1> QED BY <1>1, QuietCarried DEF Statement, Carried

\* Tables are created and dropped.
LEMMA DdlCarried ==
  ASSUME Carried, Ddl
  PROVE  Carried'
<1>1. catalog' \in [Replica -> [Table -> EntryValue]]
  <2>1. PICK r \in Replica, t \in Table, v \in EntryValue : catalog' = [catalog EXCEPT ![r][t] = v]
    BY DEF Ddl, CreateTable, DropTable, EntryValue
  <2>2. catalog \in [Replica -> [Table -> EntryValue]]
    BY DEF Carried
  <2> QED BY <2>1, <2>2
<1>2. ddl' \in 0..MaxDdl
  BY BoundAssumption DEF Ddl, Carried
<1> QED BY <1>1, <1>2, QuietCarried DEF Ddl, RowProofs!vars

\* The hashes of a row's changes before the i-th of a batch.
Ids(w, batch, i) == {batch[j].id : j \in {j \in 1..i-1 : batch[j].row = w}}

\* What is stored of a row once these are.
LEMMA UptoFacts ==
  ASSUME NEW r, NEW w, NEW batch, NEW i, store[r][w] \in StoredRow
  PROVE  /\ Upto(r, w, batch, i).deleted = store[r][w].deleted
         /\ Upto(r, w, batch, i).incs = store[r][w].incs \cup Ids(w, batch, i)
         /\ Stored(log, Upto(r, w, batch, i)) =
              Stored(log, store[r][w]) \cup Payloads(log, Ids(w, batch, i))
<1> DEFINE s == store[r][w]
           t == Upto(r, w, batch, i)
           C == Ids(w, batch, i)
<1>1. t = AddChanges(s, C)
  BY DEF Upto, Ids
<1> HIDE DEF s, t, C
<1>2. t.base = s.base /\ t.incs = s.incs \cup C /\ t.deleted = s.deleted
  BY <1>1 DEF AddChanges, StoredRow, s
<1>3. Payloads(log, s.incs \cup C) = Payloads(log, s.incs) \cup Payloads(log, C)
  BY DEF Payloads
<1> QED BY <1>2, <1>3 DEF Stored, s, t, C

\* A change that is no error, and not stored yet, finds a document and its past.
LEMMA AppliedAt ==
  ASSUME RowProofs!IInv, RowProofs!RowsApart, NEW r \in Replica, NEW w \in Row,
         NEW batch, Errors(r, batch) = {}, NEW i \in DOMAIN batch,
         batch[i].row = w, batch[i].id \notin Upto(r, w, batch, i).incs
  PROVE  LET c == batch[i].id
             t == Upto(r, w, batch, i)
         IN  /\ Document(log, t) # {}
             /\ c \notin Stored(log, store[r][w])
             /\ log[c].past \subseteq Stored(log, store[r][w]) \cup Payloads(log, Ids(w, batch, i) \cup {c})
<1> DEFINE c == batch[i].id
           s == store[r][w]
           t == Upto(r, w, batch, i)
           D == Document(log, t)
<1>1. ApplyOutcome(log, t, c) \in {"applied", "known"}
  BY DEF Errors
<1>2. /\ D # {} /\ c \notin D
      /\ c \in Loaded(log, D \cup Payload(log, c))
  BY <1>1 DEF ApplyOutcome
<1>3. /\ s \in StoredRow /\ Complete(log, Stored(log, s))
      /\ Stored(log, t) = Stored(log, s) \cup Payloads(log, Ids(w, batch, i))
      /\ t.deleted = s.deleted
  BY StoredFacts, UptoFacts
<1> HIDE DEF c, s, t, D
<1>4. D = Loaded(log, Stored(log, t))
  BY <1>2 DEF Document, D
<1>5. Stored(log, s) \subseteq D
  BY <1>3, <1>4 DEF Loaded, Complete
<1>6. D \subseteq Stored(log, s) \cup Payloads(log, Ids(w, batch, i))
  BY <1>3, <1>4 DEF Loaded
<1>7. log[c].past \subseteq D \cup Payload(log, c)
  BY <1>2 DEF Loaded
<1>8. Payloads(log, Ids(w, batch, i) \cup {c}) = Payloads(log, Ids(w, batch, i)) \cup Payload(log, c)
  BY DEF Payloads
<1> QED BY <1>2, <1>5, <1>6, <1>7, <1>8 DEF c, s, t, D

\* Of a row's changes that are new, the first finds the document that was stored,
\* and all find their past among what was stored and the new ones.
LEMMA RowApplies ==
  ASSUME RowProofs!IInv, RowProofs!RowsApart, NEW r \in Replica, NEW w \in Row,
         NEW batch \in Seq(GoodChanges), Errors(r, batch) = {}
  PROVE  RowProofs!BatchApplies(store[r][w], Ids(w, batch, Len(batch) + 1))
<1> DEFINE s == store[r][w]
           n == Len(batch)
           C == Ids(w, batch, n + 1)
           new == C \ s.incs
           IndexesOf(c) == {i \in 1..n : batch[i].row = w /\ batch[i].id = c}
           New == {i \in 1..n : batch[i].row = w /\ batch[i].id \notin s.incs}
<1>1. n \in Nat /\ DOMAIN batch = 1..n /\ (n + 1) - 1 = n
  OBVIOUS
<1>2. /\ s \in StoredRow /\ Complete(log, Stored(log, s))
      /\ Document(log, s) = IF s.deleted THEN {} ELSE Stored(log, s)
  BY StoredFacts, DocumentFacts
<1>3. \A i \in 1..n : Ids(w, batch, i) \subseteq C
  BY <1>1 DEF Ids
<1> SUFFICES ASSUME new # {}
             PROVE  /\ Document(log, s) # {}
                    /\ \A c \in new : /\ c \notin Document(log, s)
                                      /\ log[c].past \subseteq Document(log, s) \cup Payloads(log, new)
  BY SameDocuments DEF RowProofs!BatchApplies
<1>4. New # {}
  BY <1>1 DEF Ids
<1>5. PICK m \in New : \A k \in New : m <= k
  BY <1>1, <1>4, LeastIndex
<1>6. Document(log, s) # {}
  <2> DEFINE t == Upto(r, w, batch, m)
  <2>1. Ids(w, batch, m) \subseteq s.incs
    BY <1>1, <1>5 DEF Ids
  <2>2. t.incs = s.incs /\ t.deleted = s.deleted /\ Stored(log, t) = Stored(log, s) \cup Payloads(log, Ids(w, batch, m))
    <3>1. /\ t.deleted = s.deleted /\ t.incs = s.incs \cup Ids(w, batch, m)
          /\ Stored(log, t) = Stored(log, s) \cup Payloads(log, Ids(w, batch, m))
      BY <1>2, UptoFacts
    <3> HIDE DEF s, t
    <3> QED BY <2>1, <3>1
  <2>3. Stored(log, t) = Stored(log, s)
    BY <2>1, <2>2 DEF Stored, Payloads
  <2>4. Document(log, t) # {}
    BY <1>1, <2>2, AppliedAt
  <2> HIDE DEF t
  <2> QED BY <2>2, <2>3, <2>4 DEF Document
<1>7. Document(log, s) = Stored(log, s)
  BY <1>2, <1>6
<1>8. ASSUME NEW c \in new
      PROVE  /\ c \notin Document(log, s)
             /\ log[c].past \subseteq Document(log, s) \cup Payloads(log, new)
  <2>1. IndexesOf(c) # {}
    BY <1>1 DEF Ids
  <2>2. PICK i \in IndexesOf(c) : \A k \in IndexesOf(c) : i <= k
    BY <1>1, <2>1, LeastIndex
  <2>3. c \notin Ids(w, batch, i)
    BY <1>1, <2>2 DEF Ids
  <2>4. c \notin Upto(r, w, batch, i).incs
    BY <1>2, <2>3, UptoFacts
  <2>5. /\ c \notin Stored(log, s)
        /\ log[c].past \subseteq Stored(log, s) \cup Payloads(log, Ids(w, batch, i) \cup {c})
    <3>1. i \in DOMAIN batch /\ batch[i].row = w /\ batch[i].id = c
      BY <1>1, <2>2
    <3> HIDE DEF s, new, n, C
    <3>2. batch[i].id \notin Upto(r, w, batch, i).incs
      BY <2>4, <3>1
    <3>3. /\ batch[i].id \notin Stored(log, store[r][w])
          /\ log[batch[i].id].past \subseteq
               Stored(log, store[r][w]) \cup Payloads(log, Ids(w, batch, i) \cup {batch[i].id})
      BY <3>1, <3>2, AppliedAt
    <3> QED BY <3>1, <3>3 DEF s
  <2>6. Ids(w, batch, i) \cup {c} \subseteq s.incs \cup new
    BY <1>3, <2>2
  <2>7. Payloads(log, Ids(w, batch, i) \cup {c}) \subseteq Payloads(log, s.incs) \cup Payloads(log, new)
    BY <2>6 DEF Payloads
  <2>8. Payloads(log, s.incs) \subseteq Stored(log, s)
    BY DEF Stored
  <2> QED BY <1>7, <2>5, <2>7, <2>8
<1> QED BY <1>6, <1>8

\* A batch that is applied is one that Replication may bring.
LEMMA BatchStep ==
  ASSUME RowProofs!IInv, RowProofs!RowsApart, NEW r \in Replica,
         NEW batch \in Seq(GoodChanges), Errors(r, batch) = {},
         store' = [store EXCEPT ![r] = [w \in Row |-> Upto(r, w, batch, Len(batch) + 1)]],
         UNCHANGED log
  PROVE  RowProofs!Next
<1> DEFINE all == [w \in Row |-> Ids(w, batch, Len(batch) + 1)]
<1>1. \A i \in 1..Len(batch) : batch[i] \in GoodChanges
  BY ElementOfSeq
<1>2. ASSUME NEW w \in Row
      PROVE  all[w] \subseteq RowProofs!RowChanges(w)
  BY <1>1 DEF Ids, GoodChanges, RowProofs!RowChanges
<1>3. all \in [Row -> SUBSET Change]
  BY <1>2 DEF RowProofs!RowChanges, RowProofs!IInv, RowProofs!TypeOK
<1>4. store' = [store EXCEPT ![r] = [w \in Row |-> RowProofs!AddChanges(store[r][w], all[w])]]
  <2>1. \A w \in Row : Upto(r, w, batch, Len(batch) + 1) = RowProofs!AddChanges(store[r][w], all[w])
    BY SameRows DEF Upto, Ids
  <2> HIDE DEF all
  <2> QED BY <2>1
<1>5. \A w \in Row : RowProofs!BatchApplies(store[r][w], all[w])
  BY RowApplies
<1> HIDE DEF all
<1>6. RowProofs!ApplyChanges(r, all)
  BY <1>2, <1>4, <1>5 DEF RowProofs!ApplyChanges
<1> QED BY <1>3, <1>6 DEF RowProofs!Next

\* A batch that is applied, requested as snapshots, or refused.
LEMMA ChangesCarried ==
  ASSUME Carried, NEW l \in Link, NEW role \in Role, ReceiveChanges(l, role)
  PROVE  Carried'
<1> DEFINE r == End[l][role]
           d == end[l][role]
           batch == Body(l, role)
<1>1. /\ Received(l, role, "changes") /\ failures' \in 0..MaxFailures
      /\ r \in Replica /\ d \in Endpoints(GoodUnits, GoodChanges, GoodFrames)
  BY IncomingGood DEF ReceiveChanges, Carried
<1>2. /\ batch \in Seq(GoodChanges) /\ <<>> \in Seq(GoodFrames)
      /\ Tail(Incoming(l, role)) \in Seq(GoodFrames)
  BY <1>1, ReceivedGood, EmptySeq
<1>3. CASE /\ Errors(r, batch) = {}
           /\ store' = [store EXCEPT ![r] = [w \in Row |-> Upto(r, w, batch, Len(batch) + 1)]]
           /\ Go(l, role, d, <<>>)
           /\ UNCHANGED <<log, catalog>>
  <2> HIDE DEF batch, d, r
  <2>1. RowProofs!Next
    BY <1>1, <1>2, <1>3, BatchStep DEF Carried
  <2>2. GoOn(l, role, d, Tail(Incoming(l, role)), <<>>)
    BY <1>3 DEF Go
  <2>3. catalog' \in [Replica -> [Table -> EntryValue]]
    BY <1>3 DEF Carried
  <2> QED BY <1>1, <1>2, <2>1, <2>2, <2>3, StepCarried
<1>4. CASE /\ Go(l, role, [d EXCEPT !.requests = @ \cup BatchRows(batch)], <<>>)
           /\ UNCHANGED <<engines, failures>>
  <2> DEFINE e == [d EXCEPT !.requests = @ \cup BatchRows(batch)]
  <2>1. BatchRows(batch) \subseteq Row
    BY <1>2, ElementOfSeq DEF BatchRows, GoodChanges
  <2> HIDE DEF batch, d
  <2>2. e \in Endpoints(GoodUnits, GoodChanges, GoodFrames)
    BY <1>1, <2>1 DEF Endpoints
  <2> HIDE DEF e
  <2> QED BY <1>1, <1>2, <1>4, <2>2, GoCarried DEF e
<1>5. CASE Stop(l, role, <<Abort>>) /\ UNCHANGED engines
  BY <1>1, <1>5, StopCarried
<1> QED BY <1>3, <1>4, <1>5 DEF ReceiveChanges

-----------------------------------------------------------------------------
(* Sessions are replication *)

\* A step of a session, or of the engines, is one that rows may take.
LEMMA CarriedStep ==
  ASSUME Inv, Carried, [Next]_vars
  PROVE  Carried'
<1>1. CASE UNCHANGED vars
  <2>1. [RowProofs!Next]_(RowProofs!vars) /\ UNCHANGED sessions /\ catalog' = catalog /\ ddl' = ddl
    BY <1>1 DEF vars, RowProofs!vars, sessions
  <2> QED BY <2>1, QuietCarried DEF Carried
<1>2. CASE Statement \/ Ddl
  BY <1>2, StatementCarried, DdlCarried
<1>3. ASSUME NEW l \in Link, Open(l)
      PROVE  Carried'
  BY <1>3, OpenCarried
<1>4. ASSUME NEW l \in Link, NEW role \in Role, Proceed(l, role)
      PROVE  Carried'
  BY <1>4, HelloCarried, ManifestCarried, ReadRowsCarried, ReadInventoryCarried, InventoryCarried,
     ExportCarried, UnitCarried, ChangesCarried, DoneCarried, RequestsCarried, ReadSnapshotCarried,
     RecoveredCarried, EndsCarried DEF Proceed
<1>5. ASSUME NEW l \in Link, NEW role \in Role, Fail(l, role)
      PROVE  Carried'
  BY <1>5, EndsCarried
<1> QED BY <1>1, <1>2, <1>3, <1>4, <1>5 DEF Next

\* Nothing is stored or sent at first.
LEMMA InitCarried == Init => Carried
<1> SUFFICES ASSUME Init
             PROVE  Carried
  OBVIOUS
<1>1. Rows!Init
  BY SameRows DEF Init, Rows!Init
<1>2. RowProofs!IInv /\ RowProofs!RowsApart
  BY <1>1, SameInit, PayloadAssumption, RowProofs!InitInvariant, RowProofs!ApartInit
<1>3. Idle \in Endpoints(GoodUnits, GoodChanges, GoodFrames)
  <2>1. <<>> \in [{} -> SUBSET Change]
    OBVIOUS
  <2>2. <<>> \in RowInventories /\ <<>> \in Seq(GoodFrames)
    BY <2>1, EmptySeq DEF RowInventories
  <2> QED BY <2>2 DEF Idle, Endpoints
<1>4. <<>> \in Seq(GoodFrames)
  BY EmptySeq
<1>5. catalog \in [Replica -> [Table -> EntryValue]]
  BY DEF Init, EntryValue
<1>6. /\ end \in [Link -> [Role -> Endpoints(GoodUnits, GoodChanges, GoodFrames)]]
      /\ wire \in [Link -> [Role -> Seq(GoodFrames)]]
  BY <1>3, <1>4 DEF Init
<1>7. version \in [Replica -> Nat] /\ failures \in 0..MaxFailures /\ ddl \in 0..MaxDdl
  BY DeploymentAssumption, BoundAssumption DEF Init
<1> QED BY <1>2, <1>5, <1>6, <1>7 DEF Carried

\* Every step of sessions and engines is one that Replication allows.
LEMMA SessionStep ==
  ASSUME Inv, Carried, [Next]_vars
  PROVE  [Rows!Next]_(Rows!vars)
<1>1. ASSUME NEW l \in Link, NEW role \in Role, ReceiveUnit(l, role)
      PROVE  RowProofs!Next \/ UNCHANGED <<store, log>>
  <2> DEFINE r == End[l][role]
             u == Head(Body(l, role))
  <2>1. r \in Replica /\ u \in GoodUnits
    BY <1>1, IncomingGood, FrameLeftGood DEF ReceiveUnit
  <2>2. \/ UNCHANGED <<store, log>>
        \/ /\ u.key \in Row /\ UNCHANGED log
           /\ store' = [store EXCEPT ![r][u.key] = ApplyUnit(log, @, u.value)]
    BY <1>1 DEF ReceiveUnit, engines
  <2> HIDE DEF r, u
  <2> QED BY <2>1, <2>2, UnitStep
<1>2. ASSUME NEW l \in Link, NEW role \in Role, ReceiveChanges(l, role)
      PROVE  RowProofs!Next \/ UNCHANGED <<store, log>>
  <2> DEFINE r == End[l][role]
             batch == Body(l, role)
  <2>1. r \in Replica /\ batch \in Seq(GoodChanges)
    BY <1>2, IncomingGood, ReceivedGood DEF ReceiveChanges
  <2>2. \/ UNCHANGED <<store, log>>
        \/ /\ Errors(r, batch) = {} /\ UNCHANGED log
           /\ store' = [store EXCEPT ![r] = [w \in Row |-> Upto(r, w, batch, Len(batch) + 1)]]
    BY <1>2 DEF ReceiveChanges, engines
  <2> HIDE DEF r, batch
  <2> QED BY <2>1, <2>2, BatchStep DEF Carried
<1>3. ASSUME NEW l \in Link, NEW role \in Role, Proceed(l, role)
      PROVE  RowProofs!Next \/ UNCHANGED <<store, log>>
  BY <1>1, <1>2, <1>3 DEF Proceed, ReceiveHello, ReceiveManifest, ReadRows, ReadInventory,
     ReceiveInventory, ReadMissing, ExportChange, ReceiveDone, ReceiveRequests, ReadSnapshot,
     ReceiveRecovered, ReceiveOther, Disconnected, engines
<1>4. CASE UNCHANGED vars \/ Ddl \/ (\E l \in Link : Open(l)) \/ (\E l \in Link, role \in Role : Fail(l, role))
  BY <1>4 DEF vars, Ddl, Open, Fail, engines, Rows!vars
<1>5. CASE Statement
  BY <1>5, StatementCarried, SameNext
<1> QED BY <1>3, <1>4, <1>5, SameNext DEF Next, Rows!vars

-----------------------------------------------------------------------------
(* Theorems *)

\* Two ends in lockstep do not both wait.
LEMMA OneGoesOn ==
  ASSUME NEW l \in Link, LinkOK(l), NEW role \in Role,
         Waits(l, role), Waits(l, Peer(role))
  PROVE  FALSE
<1>1. \A x \in Role : /\ end[l][x].pc \notin Ended
                      /\ end[l][x].pc \notin {"rows", "inventory", "export", "snapshots"}
                      /\ Incoming(l, x) = <<>>
  BY DEF Waits, Awaits, Ended, Role, Peer
<1>2. wire[l]["initiator"] = <<>> /\ wire[l]["responder"] = <<>>
  BY <1>1 DEF Incoming, Role, Peer
<1>3. Both(l)
  BY <1>1 DEF LinkOK, Both
<1>4. \A kind : ~One(<<>>, kind) /\ ~Stream(<<>>)
  BY DEF One, Stream
<1> QED BY <1>1, <1>2, <1>3, <1>4 DEF Both, Lockstep, Role

\* In every behaviour each session's ends stay in lockstep until one has ended.
THEOREM SessionInvariance ==
  ASSUME IsFiniteSet(Row), IsFiniteSet(Table)
  PROVE  Spec => []Inv
<1>1. Init => Inv
  BY InitInv
<1>2. Inv /\ [Next]_vars => Inv'
  BY NextInv
<1> QED BY <1>1, <1>2, PTL DEF Spec

\* Where a caller closes its transport when its session ends, no two ends wait
\* for each other (SyncSession::run at both ends of a transport).
THEOREM NoDeadlock ==
  ASSUME IsFiniteSet(Row), IsFiniteSet(Table), Closes
  PROVE  Spec => []NoneWaitForever
<1>1. Inv => NoneWaitForever
  BY OneGoesOn DEF Inv, NoneWaitForever
<1> QED BY <1>1, SessionInvariance, PTL

\* In every behaviour, whatever a session has read, keeps or has sent is something
\* some engine has exported (state_transfer, and the frames of SyncSession).
THEOREM CarriedInvariance ==
  ASSUME IsFiniteSet(Row), IsFiniteSet(Table)
  PROVE  Spec => []Carried
<1>1. Inv /\ Carried /\ [Next]_vars => Carried'
  BY CarriedStep
<1> QED BY <1>1, InitCarried, SessionInvariance, PTL DEF Spec

\* Engines, ends of sessions and what is on its way between them have their types
\* (the fields of Units and of the messages of SyncSession).
THEOREM TypeCorrect ==
  ASSUME IsFiniteSet(Row), IsFiniteSet(Table)
  PROVE  Spec => []TypeOK
<1>1. Carried => TypeOK
  <2> SUFFICES ASSUME Carried
               PROVE  TypeOK
    OBVIOUS
  <2>1. /\ store \in [Replica -> [Row -> StoredRow]]
        /\ log \in [DOMAIN log -> [row : Row, past : SUBSET Change, cols : SUBSET Column]]
    BY SameRows DEF Carried, RowProofs!IInv, RowProofs!TypeOK, RowProofs!Authors
  <2>2. ASSUME NEW l \in Link, NEW role \in Role
        PROVE  LET e == end[l][role]
               IN  /\ [f \in DOMAIN e \ {"inventory", "outbound"} |-> e[f]] \in Endpoint
                   /\ DOMAIN e.inventory \subseteq Row
                   /\ \A w \in DOMAIN e.inventory : e.inventory[w] \subseteq Change
    <3> DEFINE e == end[l][role]
               part == [f \in DOMAIN e \ {"inventory", "outbound"} |-> e[f]]
               fields == [pc |-> e.pc, remote |-> e.remote, units |-> e.units, unread |-> e.unread,
                          exports |-> e.exports, changes |-> e.changes, snapshots |-> e.snapshots,
                          requests |-> e.requests]
    <3>1. e \in Endpoints(GoodUnits, GoodChanges, GoodFrames)
      BY IncomingGood
    <3>2. GoodUnits \subseteq Unit /\ GoodChanges \subseteq RowChange
      BY DEF GoodUnits, GoodChanges, RowChange, Carried, RowProofs!IInv, RowProofs!TypeOK
    <3> HIDE DEF e
    <3>3. PICK S \in SUBSET Row : e.inventory \in [S -> SUBSET Change]
      BY <3>1 DEF Endpoints, RowInventories
    <3>4. fields \in Endpoint
      BY <3>1, <3>2 DEF Endpoints, Endpoint
    <3>5. part = fields
      <4>1. DOMAIN e = {"pc", "remote", "units", "inventory", "unread", "exports", "changes",
                        "snapshots", "outbound", "requests"}
        BY <3>1 DEF Endpoints
      <4>2. DOMAIN part = DOMAIN fields
        BY <4>1
      <4> QED BY <4>1, <4>2
    <3> HIDE DEF part, fields
    <3>6. part \in Endpoint
      BY <3>4, <3>5
    <3> QED BY <3>3, <3>6 DEF part, e
  <2> QED BY <2>1, <2>2 DEF Carried, TypeOK
<1> QED BY <1>1, CarriedInvariance, PTL

\* Whatever sessions and statements do to the rows, in any order and with any
\* failure, is what Replication allows: apply_state and apply_changes are only ever
\* called with states and batches that it may bring.
THEOREM Refinement ==
  ASSUME IsFiniteSet(Row), IsFiniteSet(Table)
  PROVE  Spec => ImplementsReplication
<1>1. Init => Rows!Init
  BY SameRows DEF Init, Rows!Init
<1>2. Inv /\ Carried /\ [Next]_vars => [Rows!Next]_(Rows!vars)
  BY SessionStep
<1>3. Spec => Rows!Spec
  BY <1>1, <1>2, SessionInvariance, CarriedInvariance, PTL DEF Spec, Rows!Spec
<1> QED BY <1>3 DEF ImplementsReplication
=============================================================================
