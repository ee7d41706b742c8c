---------------------------- MODULE Delivery_proofs ---------------------------
(***************************************************************************)
(* A session that both ends finished delivered what it owed, for any       *)
(* replicas, links, statements in between, other sessions of the same      *)
(* engines, and failures of them.  What an end owes is at the peer, or in  *)
(* frames on their way to it, or kept for it, or asked for as a snapshot,  *)
(* from the time it has built what it sends until both have finished.      *)
(***************************************************************************)
EXTENDS Session_proofs

-----------------------------------------------------------------------------
(* What is held, and what is on its way *)

\* A stored row, with this log, is deleted or has all of a unit.
HasIn(L, s, v) == s.deleted \/ (~v.deleted /\ v.state \subseteq Stored(L, s))

\* These rows have all of the units of rows among these.
Holds(L, rows, units) == \A u \in units : u.key \in Row => HasIn(L, rows[u.key], u.value)

\* These rows have all of these changes.
Keeps(L, rows, changes) == \A c \in changes : c.row \in Row => c.id \in Stored(L, rows[c.row])

\* What an endpoint owes its peer.
Owes(e) == {[key |-> u.key, value |-> Due(e, u)] : u \in {u \in e.units : u.key \in Row}}

FramesIn(F, kind) == {m \in F : m.kind = kind}
UnitsIn(F) == UNION {Range(m.body) : m \in FramesIn(F, "state")}
ChangesIn(F) == UNION {Range(m.body) : m \in FramesIn(F, "changes")}
RequestsIn(F) == UNION {m.body : m \in FramesIn(F, "requests")}

\* The frames an endpoint has sent, and those it keeps until it may send them.
Pending(e, to) == Range(to) \cup Range(e.outbound)

\* The rows an endpoint has asked for, or will: the initiator sends its requests
\* before it waits for those of the responder.
Wanted(role, f, sent) ==
  RequestsIn(Range(sent))
    \cup (IF f.pc = "receive" \/ (f.pc = "requests" /\ role = "responder") THEN f.requests ELSE {})

\* What the peer has asked for, and an endpoint has read of it, or has still to read.
Answered(e) == IF e.pc = "snapshots" THEN e.snapshots ELSE {}
Asked(e) == IF e.pc = "snapshots" THEN e.unread ELSE {}

\* What is owed of a row is stored, or comes with changes, or in a unit, or will
\* be sent as a snapshot that was asked for.
Brought(L, s, o, units, changes, wanted) ==
  \/ HasIn(L, s, o.value)
  \/ /\ ~o.value.deleted
     /\ o.value.state \subseteq Stored(L, s) \cup {c.id : c \in {c \in changes : c.row = o.key}}
  \/ \E u \in units :
       /\ u.key = o.key
       /\ u.value.deleted \/ (~o.value.deleted /\ o.value.state \subseteq u.value.state)
  \/ ~o.value.deleted /\ o.key \in wanted

\* An endpoint has built what it sends.
Built == {"receive", "requests", "snapshots", "recovery", "ok"}

\* Only the responder keeps frames, while the initiator sends its own.
OutboundOK(x, e) ==
  e.outbound # <<>> =>
    /\ x = "responder" /\ e.pc \in {"build", "receive", "recovery"}
    /\ FramesIn(Range(e.outbound), "manifest") = {}

\* What is true of an endpoint, whatever its peer does: both replicas still have
\* what the session has read of them.
ReadOK(x, e, to, L, mine, theirs) ==
  /\ Holds(L, mine, e.units)
  /\ Keeps(L, mine, e.changes)
  /\ Holds(L, theirs, e.remote)
  /\ \A m \in FramesIn(Range(to), "manifest") : Holds(L, mine, m.body)
  /\ OutboundOK(x, e)

\* What it owes has arrived when the peer is done, and will before it is.
Delivers(x, e, f, to, from, L, theirs) ==
  e.pc \in Built =>
    /\ f.pc = "ok" => Holds(L, theirs, Owes(e))
    /\ f.pc \notin Ended =>
         \A o \in Owes(e) :
           Brought(L, theirs[o.key], o, UnitsIn(Pending(e, to)) \cup Answered(e),
                   ChangesIn(Pending(e, to)), Wanted(Peer(x), f, from) \cup Asked(e))

Side(x, e, f, to, from, L, mine, theirs) ==
  /\ ReadOK(x, e, to, L, mine, theirs)
  /\ Delivers(x, e, f, to, from, L, theirs)

Sides ==
  \A l \in Link, x \in Role :
    Side(x, end[l][x], end[l][Peer(x)], wire[l][x], wire[l][Peer(x)], log,
         store[End[l][x]], store[End[l][Peer(x)]])

\* The responder is the first to finish, when all that is left is what the
\* initiator has to receive.
Finishing(i, r, fromI, fromR) ==
  /\ i.pc = "ok" => r.pc \in Ended
  /\ r.pc = "ok" /\ i.pc \notin Ended =>
       i.pc = "recovery" /\ fromI = <<>> /\ Stream(fromR)

FinishOK(l) ==
  Finishing(end[l]["initiator"], end[l]["responder"], wire[l]["initiator"], wire[l]["responder"])

\* The invariant that is inductive, with Inv and Carried.
Delivery == Sides /\ \A l \in Link : FinishOK(l)

-----------------------------------------------------------------------------
(* Rows only grow *)

\* A stored row has become another that has as much.
Grown(L, s, M, t) == (s.deleted => t.deleted) /\ Stored(L, s) \subseteq Stored(M, t)

RowsGrown(L, rows, M, rows2) == \A w \in Row : Grown(L, rows[w], M, rows2[w])

\* No step of an engine takes anything from a row.
LEMMA RowsGrow ==
  ASSUME Carried, [RowProofs!Next]_(RowProofs!vars)
  PROVE  \A q \in Replica : RowsGrown(log, store[q], log', store'[q])
BY PayloadAssumption, RowProofs!StoredGrows, RowProofs!DeletedStays, SameDocuments
   DEF Carried, Grown, RowsGrown

\* What has all of a unit goes on having it,
LEMMA HasGrows ==
  ASSUME NEW L, NEW s, NEW M, NEW t, Grown(L, s, M, t), NEW v, HasIn(L, s, v)
  PROVE  HasIn(M, t, v)
BY DEF Grown, HasIn

\* and so do all rows of a replica.
LEMMA HoldsGrows ==
  ASSUME NEW L, NEW rows, NEW M, NEW rows2, RowsGrown(L, rows, M, rows2),
         NEW units, Holds(L, rows, units)
  PROVE  Holds(M, rows2, units)
BY HasGrows DEF Holds, RowsGrown

\* So do its changes stay.
LEMMA KeepsGrows ==
  ASSUME NEW L, NEW rows, NEW M, NEW rows2, RowsGrown(L, rows, M, rows2),
         NEW changes, Keeps(L, rows, changes)
  PROVE  Keeps(M, rows2, changes)
BY DEF Keeps, RowsGrown, Grown

\* What is brought still is when rows grow and nothing is lost.
LEMMA BroughtGrows ==
  ASSUME NEW L, NEW s, NEW M, NEW t, Grown(L, s, M, t), NEW o,
         NEW units, NEW changes, NEW wanted, Brought(L, s, o, units, changes, wanted),
         NEW units2, units \subseteq units2, NEW changes2, changes \subseteq changes2,
         NEW wanted2, wanted \subseteq wanted2
  PROVE  Brought(M, t, o, units2, changes2, wanted2)
<1>1. CASE HasIn(L, s, o.value)
  BY <1>1, HasGrows DEF Brought
<1>2. CASE /\ ~o.value.deleted
           /\ o.value.state \subseteq Stored(L, s) \cup {c.id : c \in {c \in changes : c.row = o.key}}
  BY <1>2 DEF Brought, Grown
<1>3. CASE \E u \in units : /\ u.key = o.key
                            /\ u.value.deleted \/ (~o.value.deleted /\ o.value.state \subseteq u.value.state)
  BY <1>3 DEF Brought
<1>4. CASE ~o.value.deleted /\ o.key \in wanted
  BY <1>4 DEF Brought
<1> QED BY <1>1, <1>2, <1>3, <1>4 DEF Brought

\* An endpoint that neither reads nor builds, with what it sent still under way.
LEMMA SideGrows ==
  ASSUME NEW x, NEW e, NEW f, NEW to, NEW from, NEW L, NEW mine, NEW theirs,
         Side(x, e, f, to, from, L, mine, theirs),
         NEW e2, NEW f2, NEW to2, NEW from2, NEW M, NEW mine2, NEW theirs2,
         RowsGrown(L, mine, M, mine2), RowsGrown(L, theirs, M, theirs2),
         e2.units \subseteq e.units, e2.changes \subseteq e.changes, Owes(e2) \subseteq Owes(e),
         e2.remote \subseteq e.remote,
         FramesIn(Range(to2), "manifest") \subseteq FramesIn(Range(to), "manifest"),
         OutboundOK(x, e2),
         e2.pc \in Built => e.pc \in Built,
         e2.pc \in Built /\ f2.pc = "ok" => f.pc = "ok",
         e2.pc \in Built /\ f2.pc \notin Ended =>
           /\ f.pc \notin Ended
           /\ Answered(e) \subseteq Answered(e2) /\ Asked(e) \subseteq Asked(e2)
           /\ UnitsIn(Pending(e, to)) \subseteq UnitsIn(Pending(e2, to2))
           /\ ChangesIn(Pending(e, to)) \subseteq ChangesIn(Pending(e2, to2))
           /\ Wanted(Peer(x), f, from) \subseteq Wanted(Peer(x), f2, from2)
  PROVE  Side(x, e2, f2, to2, from2, M, mine2, theirs2)
<1>1. /\ Holds(L, mine, e2.units) /\ Keeps(L, mine, e2.changes) /\ Holds(L, theirs, e2.remote)
      /\ \A m \in FramesIn(Range(to2), "manifest") : Holds(L, mine, m.body)
  BY DEF Side, ReadOK, Holds, Keeps
<1>2. ReadOK(x, e2, to2, M, mine2, theirs2)
  BY <1>1, HoldsGrows, KeepsGrows DEF ReadOK
<1>3. ASSUME e2.pc \in Built, f2.pc = "ok"
      PROVE  Holds(M, theirs2, Owes(e2))
  <2>1. Holds(L, theirs, Owes(e2))
    BY <1>3 DEF Side, Delivers, Holds
  <2> QED BY <2>1, HoldsGrows
<1>4. ASSUME e2.pc \in Built, f2.pc \notin Ended, NEW o \in Owes(e2)
      PROVE  Brought(M, theirs2[o.key], o, UnitsIn(Pending(e2, to2)) \cup Answered(e2),
                     ChangesIn(Pending(e2, to2)), Wanted(Peer(x), f2, from2) \cup Asked(e2))
  <2>1. Brought(L, theirs[o.key], o, UnitsIn(Pending(e, to)) \cup Answered(e),
                ChangesIn(Pending(e, to)), Wanted(Peer(x), f, from) \cup Asked(e))
    BY <1>4 DEF Side, Delivers
  <2>2. o.key \in Row
    BY DEF Owes
  <2>3. Grown(L, theirs[o.key], M, theirs2[o.key])
    BY <2>2 DEF RowsGrown
  <2>4. /\ UnitsIn(Pending(e, to)) \cup Answered(e) \subseteq UnitsIn(Pending(e2, to2)) \cup Answered(e2)
        /\ ChangesIn(Pending(e, to)) \subseteq ChangesIn(Pending(e2, to2))
        /\ Wanted(Peer(x), f, from) \cup Asked(e) \subseteq Wanted(Peer(x), f2, from2) \cup Asked(e2)
    BY <1>4
  <2> QED BY <2>1, <2>3, <2>4, BroughtGrows
<1> QED BY <1>2, <1>3, <1>4 DEF Side, Delivers

\* A side that does nothing itself stays when rows grow.
LEMMA SideStays ==
  ASSUME NEW x, NEW e, NEW f, NEW to, NEW from, NEW L, NEW mine, NEW theirs,
         Side(x, e, f, to, from, L, mine, theirs),
         NEW M, NEW mine2, NEW theirs2, RowsGrown(L, mine, M, mine2), RowsGrown(L, theirs, M, theirs2)
  PROVE  Side(x, e, f, to, from, M, mine2, theirs2)
<1>1. OutboundOK(x, e)
  BY DEF Side, ReadOK
<1> QED BY <1>1, SideGrows

-----------------------------------------------------------------------------
(* Frames *)

\* More frames bring no less.
LEMMA FramesMore ==
  ASSUME NEW F, NEW G, F \subseteq G
  PROVE  /\ UnitsIn(F) \subseteq UnitsIn(G)
         /\ ChangesIn(F) \subseteq ChangesIn(G)
         /\ RequestsIn(F) \subseteq RequestsIn(G)
         /\ FramesIn(F, "manifest") \subseteq FramesIn(G, "manifest")
BY DEF UnitsIn, ChangesIn, RequestsIn, FramesIn

\* No frames bring nothing.
LEMMA NoFrames ==
  /\ Range(<<>>) = {}
  /\ UnitsIn({}) = {} /\ ChangesIn({}) = {} /\ RequestsIn({}) = {}
  /\ \A kind : FramesIn({}, kind) = {}
<1>1. Range(<<>>) = {}
  BY DEF Range
<1>2. \A kind : FramesIn({}, kind) = {}
  BY DEF FramesIn
<1> QED BY <1>1, <1>2 DEF UnitsIn, ChangesIn, RequestsIn

\* A queue is its first frame and the rest.
LEMMA RangeSplit ==
  ASSUME NEW S, NEW q \in Seq(S), q # <<>>
  PROVE  Range(q) = {Head(q)} \cup Range(Tail(q))
<1> DEFINE h == <<Head(q)>>
           t == Tail(q)
<1>1. h \in Seq(S) /\ t \in Seq(S) /\ q = h \o t
  BY HeadTailProperties, ConcatProperties
<1>2. Range(h) = {Head(q)}
  BY DEF Range
<1> HIDE DEF h, t
<1>3. Range(h \o t) = Range(h) \cup Range(t)
  BY <1>1, RangeConcatenation
<1>4. Range(q) = Range(h \o t)
  BY <1>1
<1>5. Range(q) = {Head(q)} \cup Range(t)
  BY <1>2, <1>3, <1>4, Zenon
<1> QED BY <1>5 DEF t

\* A queue of one frame.
LEMMA RangeOne ==
  ASSUME NEW m
  PROVE  Range(<<m>>) = {m}
BY DEF Range

\* A frame put at the end of a queue.
LEMMA RangeOneMore ==
  ASSUME NEW S, NEW q \in Seq(S), NEW m \in S
  PROVE  Range(q \o <<m>>) = Range(q) \cup {m}
<1> DEFINE t == <<m>>
<1>1. t \in Seq(S)
  OBVIOUS
<1>2. Range(t) = {m}
  BY RangeOne
<1> HIDE DEF t
<1>3. Range(q \o t) = Range(q) \cup Range(t)
  BY <1>1, RangeConcatenation
<1> QED BY <1>2, <1>3 DEF t

-----------------------------------------------------------------------------
(* One step of one endpoint *)

\* What is on its way from an endpoint that has sent this, too.
Out(l, z, sent) == IF end[l][Peer(z)].pc \in Ended THEN <<>> ELSE wire[l][z] \o sent

\* What a step leaves of its link, and of the others.
LEMMA GoOnLink ==
  ASSUME Carried, NEW l \in Link, NEW z \in Role, NEW e, NEW left, NEW sent,
         GoOn(l, z, e, left, sent)
  PROVE  /\ \A k \in Link \ {l} : end'[k] = end[k] /\ wire'[k] = wire[k]
         /\ end'[l][z] = e /\ end'[l][Peer(z)] = end[l][Peer(z)]
         /\ wire'[l][z] = Out(l, z, sent) /\ wire'[l][Peer(z)] = left
<1>1. Peer(z) \in Role /\ Peer(z) # z
  BY DEF Role, Peer
<1> DEFINE E == Endpoints(GoodUnits, GoodChanges, GoodFrames)
           F == Seq(GoodFrames)
<1>2. end \in [Link -> [Role -> E]] /\ wire \in [Link -> [Role -> F]]
  BY DEF Carried
<1> HIDE DEF E, F
<1>3. /\ \A k \in Link \ {l} : end'[k] = end[k]
      /\ end'[l][z] = e /\ end'[l][Peer(z)] = end[l][Peer(z)]
  BY <1>1, <1>2 DEF GoOn
<1>4. /\ \A k \in Link \ {l} : wire'[k] = wire[k]
      /\ wire'[l] = [x \in Role |-> IF x # z THEN left
                                ELSE IF end[l][Peer(z)].pc \in Ended THEN <<>>
                                ELSE wire[l][x] \o sent]
  BY <1>1, <1>2 DEF GoOn
<1> QED BY <1>1, <1>3, <1>4 DEF Out

\* The queue that an endpoint's step leaves.
LEMMA OutRange ==
  ASSUME Carried, NEW l \in Link, NEW z \in Role, NEW sent \in Seq(GoodFrames)
  PROVE  /\ Range(Out(l, z, sent)) \subseteq Range(wire[l][z]) \cup Range(sent)
         /\ end[l][Peer(z)].pc \notin Ended =>
              Range(Out(l, z, sent)) = Range(wire[l][z]) \cup Range(sent)
<1>1. wire[l][z] \in Seq(GoodFrames)
  BY DEF Carried
<1>2. Range(wire[l][z] \o sent) = Range(wire[l][z]) \cup Range(sent)
  BY <1>1, RangeConcatenation
<1> QED BY <1>2, NoFrames DEF Out

\* A step keeps all sides when it keeps those of its link.
LEMMA StepSides ==
  ASSUME Carried, Sides, [RowProofs!Next]_(RowProofs!vars),
         NEW l \in Link, NEW z \in Role, NEW e, NEW left, NEW sent, GoOn(l, z, e, left, sent),
         Side(z, e, end[l][Peer(z)], Out(l, z, sent), left, log',
              store'[End[l][z]], store'[End[l][Peer(z)]]),
         Side(Peer(z), end[l][Peer(z)], e, left, Out(l, z, sent), log',
              store'[End[l][Peer(z)]], store'[End[l][z]])
  PROVE  Sides'
<1>1. \A q \in Replica : RowsGrown(log, store[q], log', store'[q])
  BY RowsGrow
<1>2. /\ \A k \in Link \ {l} : end'[k] = end[k] /\ wire'[k] = wire[k]
      /\ end'[l][z] = e /\ end'[l][Peer(z)] = end[l][Peer(z)]
      /\ wire'[l][z] = Out(l, z, sent) /\ wire'[l][Peer(z)] = left
  BY GoOnLink
<1>3. \A k \in Link, x \in Role : End[k][x] \in Replica /\ End[k][Peer(x)] \in Replica
  BY LinkAssumption DEF Role, Peer
<1> SUFFICES ASSUME NEW k \in Link, NEW x \in Role
             PROVE  Side(x, end'[k][x], end'[k][Peer(x)], wire'[k][x], wire'[k][Peer(x)], log',
                         store'[End[k][x]], store'[End[k][Peer(x)]])
  BY DEF Sides
<1>4. CASE k # l
  <2>1. end'[k] = end[k] /\ wire'[k] = wire[k]
    BY <1>2, <1>4
  <2>2. /\ RowsGrown(log, store[End[k][x]], log', store'[End[k][x]])
        /\ RowsGrown(log, store[End[k][Peer(x)]], log', store'[End[k][Peer(x)]])
    BY <1>1, <1>3
  <2>3. Side(x, end[k][x], end[k][Peer(x)], wire[k][x], wire[k][Peer(x)], log,
             store[End[k][x]], store[End[k][Peer(x)]])
    BY DEF Sides
  <2>4. Side(x, end[k][x], end[k][Peer(x)], wire[k][x], wire[k][Peer(x)], log',
             store'[End[k][x]], store'[End[k][Peer(x)]])
    BY <2>2, <2>3, SideStays
  <2> QED BY <2>1, <2>4
<1>5. CASE k = l /\ x = z
  BY <1>2, <1>5
<1>6. CASE k = l /\ x = Peer(z)
  <2>1. Peer(Peer(z)) = z
    BY DEF Peer, Role
  <2> QED BY <1>2, <1>6, <2>1
<1>7. x \in {z, Peer(z)}
  BY DEF Role, Peer
<1> QED BY <1>4, <1>5, <1>6, <1>7

\* What is left when a frame has been received.
LEMMA TailBrings ==
  ASSUME Carried, NEW l \in Link, NEW z \in Role, NEW kind, Received(l, z, kind)
  PROVE  LET F == Range(Incoming(l, z))
             G == Range(Tail(Incoming(l, z)))
         IN  /\ G \subseteq F
             /\ UnitsIn(F) = UnitsIn(G) \cup (IF kind = "state" THEN Range(Body(l, z)) ELSE {})
             /\ ChangesIn(F) = ChangesIn(G) \cup (IF kind = "changes" THEN Range(Body(l, z)) ELSE {})
             /\ RequestsIn(F) = RequestsIn(G) \cup (IF kind = "requests" THEN Body(l, z) ELSE {})
             /\ kind = "manifest" => Head(Incoming(l, z)) \in FramesIn(F, "manifest")
<1> DEFINE q == Incoming(l, z)
           m == Head(q)
<1>1. q \in Seq(GoodFrames) /\ q # <<>> /\ m.kind = kind /\ Body(l, z) = m.body
  BY IncomingGood DEF Received, Body
<1> HIDE DEF q
<1>2. Range(q) = {m} \cup Range(Tail(q))
  BY <1>1, RangeSplit
<1> HIDE DEF m
<1>3. UnitsIn(Range(q)) = UnitsIn(Range(Tail(q))) \cup (IF kind = "state" THEN Range(Body(l, z)) ELSE {})
  BY <1>1, <1>2 DEF UnitsIn, FramesIn
<1>4. ChangesIn(Range(q)) = ChangesIn(Range(Tail(q))) \cup (IF kind = "changes" THEN Range(Body(l, z)) ELSE {})
  BY <1>1, <1>2 DEF ChangesIn, FramesIn
<1>6. RequestsIn(Range(q)) = RequestsIn(Range(Tail(q))) \cup (IF kind = "requests" THEN Body(l, z) ELSE {})
  BY <1>1, <1>2 DEF RequestsIn, FramesIn
<1>5. kind = "manifest" => m \in FramesIn(Range(q), "manifest")
  BY <1>1, <1>2 DEF FramesIn
<1> QED BY <1>2, <1>3, <1>4, <1>5, <1>6 DEF q, m

\* What is left when at most an inventory has been received.
LEMMA LeftKeeps ==
  ASSUME Carried, NEW l \in Link, NEW z \in Role, NEW left,
         left = Incoming(l, z) \/ (Received(l, z, "inventory") /\ left = Tail(Incoming(l, z)))
  PROVE  /\ Range(left) \subseteq Range(Incoming(l, z))
         /\ UnitsIn(Range(Incoming(l, z))) \subseteq UnitsIn(Range(left))
         /\ ChangesIn(Range(Incoming(l, z))) \subseteq ChangesIn(Range(left))
<1>1. CASE left = Incoming(l, z)
  BY <1>1
<1>2. CASE Received(l, z, "inventory") /\ left = Tail(Incoming(l, z))
  BY <1>2, TailBrings
<1> QED BY <1>1, <1>2

\* The side of the peer of an end that goes on, having stored none of what was sent.
LEMMA PeerQuiet ==
  ASSUME Carried, Sides, [RowProofs!Next]_(RowProofs!vars),
         NEW l \in Link, NEW z \in Role, NEW e, NEW left, NEW sent,
         Range(left) \subseteq Range(Incoming(l, z)), e.pc # "ok",
         e.pc \notin Ended /\ end[l][Peer(z)].pc \in Built =>
           /\ end[l][z].pc \notin Ended
           /\ UnitsIn(Range(Incoming(l, z))) \subseteq UnitsIn(Range(left))
           /\ ChangesIn(Range(Incoming(l, z))) \subseteq ChangesIn(Range(left))
           /\ Wanted(z, end[l][z], wire[l][z]) \subseteq Wanted(z, e, Out(l, z, sent))
  PROVE  Side(Peer(z), end[l][Peer(z)], e, left, Out(l, z, sent), log',
              store'[End[l][Peer(z)]], store'[End[l][z]])
<1> DEFINE y == Peer(z)
           f == end[l][y]
           from == Out(l, z, sent)
<1>1. y \in Role /\ Peer(y) = z /\ Incoming(l, z) = wire[l][y]
  BY DEF Role, Peer, Incoming
<1>2. Side(y, f, end[l][z], wire[l][y], wire[l][z], log, store[End[l][y]], store[End[l][z]])
  BY <1>1 DEF Sides
<1>3. /\ RowsGrown(log, store[End[l][y]], log', store'[End[l][y]])
      /\ RowsGrown(log, store[End[l][z]], log', store'[End[l][z]])
  BY <1>1, RowsGrow, LinkAssumption
<1>4. FramesIn(Range(left), "manifest") \subseteq FramesIn(Range(wire[l][y]), "manifest")
  BY <1>1, FramesMore
<1>5. ASSUME UnitsIn(Range(wire[l][y])) \subseteq UnitsIn(Range(left)),
             ChangesIn(Range(wire[l][y])) \subseteq ChangesIn(Range(left))
      PROVE  /\ UnitsIn(Pending(f, wire[l][y])) \subseteq UnitsIn(Pending(f, left))
             /\ ChangesIn(Pending(f, wire[l][y])) \subseteq ChangesIn(Pending(f, left))
  BY <1>5 DEF Pending, UnitsIn, ChangesIn, FramesIn
<1> HIDE DEF f, from
<1>6. OutboundOK(y, f)
  BY <1>2 DEF Side, ReadOK
<1>7. e.pc \notin Ended /\ f.pc \in Built =>
        /\ end[l][z].pc \notin Ended
        /\ UnitsIn(Pending(f, wire[l][y])) \subseteq UnitsIn(Pending(f, left))
        /\ ChangesIn(Pending(f, wire[l][y])) \subseteq ChangesIn(Pending(f, left))
        /\ Wanted(Peer(y), end[l][z], wire[l][z]) \subseteq Wanted(Peer(y), e, from)
  BY <1>1, <1>5 DEF f, from
<1> HIDE DEF y
<1>8. Side(y, f, e, left, from, log', store'[End[l][y]], store'[End[l][z]])
  BY <1>2, <1>3, <1>4, <1>6, <1>7, SideGrows
<1> QED BY <1>8 DEF y, f, from

\* The side of an end that goes on, and has built nothing anew.
LEMMA MineQuiet ==
  ASSUME Carried, Sides, [RowProofs!Next]_(RowProofs!vars),
         NEW l \in Link, NEW z \in Role, NEW e, NEW left, NEW sent \in Seq(GoodFrames),
         e.units \subseteq end[l][z].units, e.changes \subseteq end[l][z].changes,
         Owes(e) \subseteq Owes(end[l][z]), e.remote \subseteq end[l][z].remote,
         FramesIn(Range(sent), "manifest") = {},
         OutboundOK(z, e),
         e.pc \in Built =>
           /\ end[l][z].pc \in Built \ {"snapshots"}
           /\ Range(end[l][z].outbound) \subseteq Range(e.outbound) \cup Range(sent)
           /\ RequestsIn(Range(Incoming(l, z))) \subseteq RequestsIn(Range(left))
  PROVE  Side(z, e, end[l][Peer(z)], Out(l, z, sent), left, log',
              store'[End[l][z]], store'[End[l][Peer(z)]])
<1> DEFINE y == Peer(z)
           d == end[l][z]
           f == end[l][y]
           to == Out(l, z, sent)
<1>1. y \in Role /\ Incoming(l, z) = wire[l][y]
  BY DEF Role, Peer, Incoming
<1>2. Side(z, d, f, wire[l][z], wire[l][y], log, store[End[l][z]], store[End[l][y]])
  BY <1>1 DEF Sides
<1>3. /\ RowsGrown(log, store[End[l][z]], log', store'[End[l][z]])
      /\ RowsGrown(log, store[End[l][y]], log', store'[End[l][y]])
  BY <1>1, RowsGrow, LinkAssumption
<1>4. FramesIn(Range(to), "manifest") \subseteq FramesIn(Range(wire[l][z]), "manifest")
  <2>1. Range(to) \subseteq Range(wire[l][z]) \cup Range(sent)
    BY OutRange
  <2> QED BY <2>1 DEF FramesIn
<1>5. ASSUME e.pc \in Built, f.pc \notin Ended
      PROVE  /\ UnitsIn(Pending(d, wire[l][z])) \subseteq UnitsIn(Pending(e, to))
             /\ ChangesIn(Pending(d, wire[l][z])) \subseteq ChangesIn(Pending(e, to))
  <2>1. Range(to) = Range(wire[l][z]) \cup Range(sent)
    BY <1>5, OutRange
  <2>2. Pending(d, wire[l][z]) \subseteq Pending(e, to)
    BY <1>5, <2>1 DEF Pending
  <2> QED BY <2>2 DEF UnitsIn, ChangesIn, FramesIn
<1>6. ASSUME e.pc \in Built
      PROVE  Wanted(y, f, wire[l][y]) \subseteq Wanted(y, f, left)
  BY <1>1, <1>6 DEF Wanted
<1>8. e.pc \in Built => d.pc \in Built /\ Answered(d) = {} /\ Asked(d) = {}
  BY DEF Answered, Asked
<1> HIDE DEF y, d, f, to
<1>7. Side(z, e, f, to, left, log', store'[End[l][z]], store'[End[l][y]])
  BY <1>2, <1>3, <1>4, <1>5, <1>6, <1>8, SideGrows DEF y, d
<1> QED BY <1>7 DEF y, f, to

\* An end that gives up owes nothing.
LEMMA StopSides ==
  ASSUME Carried, Sides, NEW l \in Link, NEW z \in Role, NEW sent, sent \in {<<>>, <<Abort>>},
         Stop(l, z, sent), UNCHANGED engines
  PROVE  Sides'
<1> DEFINE e == [Idle EXCEPT !.pc = "failed"]
<1>1. /\ e.pc = "failed" /\ e.units = {} /\ e.remote = {} /\ e.changes = {} /\ e.outbound = <<>>
  BY DEF Idle
<1>2. GoOn(l, z, e, <<>>, sent)
  BY DEF Stop
<1> HIDE DEF e
<1>3. Owes(e) = {} /\ e.pc \notin Built /\ e.pc \in Ended
  BY <1>1 DEF Owes, Built, Ended
<1>4. Abort \in GoodFrames /\ Abort.kind # "manifest"
  BY DEF Abort, Message, GoodFrames, FramesOf
<1>5. sent \in Seq(GoodFrames) /\ FramesIn(Range(sent), "manifest") = {}
  <2>1. CASE sent = <<>>
    BY <2>1, EmptySeq, NoFrames
  <2>2. CASE sent = <<Abort>>
    <3>1. Range(<<Abort>>) = {Abort} /\ <<Abort>> \in Seq(GoodFrames)
      BY <1>4, RangeOne
    <3> QED BY <1>4, <2>2, <3>1 DEF FramesIn
  <2> QED BY <2>1, <2>2
<1>6. [RowProofs!Next]_(RowProofs!vars)
  BY EnginesStay
<1>7. Side(z, e, end[l][Peer(z)], Out(l, z, sent), <<>>, log', store'[End[l][z]], store'[End[l][Peer(z)]])
  BY <1>1, <1>3, <1>5, <1>6, MineQuiet DEF OutboundOK
<1>8. Side(Peer(z), end[l][Peer(z)], e, <<>>, Out(l, z, sent), log', store'[End[l][Peer(z)]], store'[End[l][z]])
  BY <1>1, <1>3, <1>6, NoFrames, PeerQuiet
<1> QED BY <1>2, <1>6, <1>7, <1>8, StepSides

-----------------------------------------------------------------------------
(* Reading *)

\* An end that is not the last to finish has a peer that still receives.
LEMMA PeerReceives ==
  ASSUME Carried, NEW l \in Link, FinishOK(l), NEW z \in Role, NEW sent \in Seq(GoodFrames),
         end[l][z].pc \notin Ended, end[l][z].pc # "recovery", end[l][Peer(z)].pc \in Built
  PROVE  /\ end[l][Peer(z)].pc \notin Ended
         /\ RequestsIn(Range(wire[l][z])) \cup RequestsIn(Range(sent)) \subseteq
              RequestsIn(Range(Out(l, z, sent)))
<1>1. end[l][Peer(z)].pc # "ok"
  BY DEF FinishOK, Finishing, Role, Peer
<1>2. end[l][Peer(z)].pc \notin Ended
  BY <1>1 DEF Built, Ended
<1>3. Range(Out(l, z, sent)) = Range(wire[l][z]) \cup Range(sent)
  BY <1>2, OutRange
<1> QED BY <1>2, <1>3 DEF RequestsIn, FramesIn

\* What is owed is held when the units and the changes to be sent are.
LEMMA OwesHeld ==
  ASSUME NEW e, NEW L, NEW rows, Holds(L, rows, e.units), Keeps(L, rows, e.changes)
  PROVE  Holds(L, rows, Owes(e))
<1> SUFFICES ASSUME NEW o \in Owes(e)
             PROVE  HasIn(L, rows[o.key], o.value)
  BY DEF Holds
<1>1. PICK u \in {u \in e.units : u.key \in Row} : o = [key |-> u.key, value |-> Due(e, u)]
  BY DEF Owes
<1>2. o.key = u.key /\ o.value = Due(e, u) /\ u.key \in Row
  BY <1>1
<1>3. CASE SentChanges(e, u.key) = {}
  <2>1. o.value = u.value
    BY <1>2, <1>3 DEF Due
  <2> QED BY <1>1, <1>2, <2>1 DEF Holds
<1>4. CASE SentChanges(e, u.key) # {}
  <2>1. o.value.state = SentChanges(e, u.key) /\ ~o.value.deleted
    BY <1>2, <1>4 DEF Due
  <2>2. SentChanges(e, u.key) \subseteq Stored(L, rows[u.key])
    BY <1>2 DEF SentChanges, Keeps
  <2> QED BY <1>2, <2>1, <2>2 DEF HasIn
<1> QED BY <1>3, <1>4

\* A replica has what it exports.
LEMMA ExportHolds ==
  ASSUME Carried, NEW r \in Replica
  PROVE  /\ Holds(log, store[r], RowUnits(r))
         /\ Holds(log, store[r], CatalogUnits(r))
         /\ Holds(log, store[r], Manifest(r))
<1>1. ASSUME NEW w \in Row
      PROVE  HasIn(log, store[r][w], UnitOf(log, store[r][w]))
  <2>1. Document(log, store[r][w]) = IF store[r][w].deleted THEN {} ELSE Stored(log, store[r][w])
    BY DocumentFacts DEF Carried
  <2> QED BY <2>1 DEF HasIn, UnitOf
<1>2. Holds(log, store[r], RowUnits(r))
  BY <1>1 DEF Holds, RowUnits, RowUnitOf, ExportedRows
<1>3. Holds(log, store[r], CatalogUnits(r))
  BY KeyAssumption DEF Holds, CatalogUnits
<1> QED BY <1>2, <1>3 DEF Holds, Manifest

\* The side of an end that has read something, or nothing yet.
LEMMA MineReads ==
  ASSUME Carried, Sides, UNCHANGED <<store, log>>,
         NEW l \in Link, NEW z \in Role, NEW e, NEW left, NEW sent \in Seq(GoodFrames),
         e.pc \notin Built, OutboundOK(z, e),
         Holds(log, store[End[l][z]], e.units),
         Keeps(log, store[End[l][z]], e.changes),
         Holds(log, store[End[l][Peer(z)]], e.remote),
         \A m \in FramesIn(Range(sent), "manifest") : Holds(log, store[End[l][z]], m.body)
  PROVE  Side(z, e, end[l][Peer(z)], Out(l, z, sent), left, log',
              store'[End[l][z]], store'[End[l][Peer(z)]])
<1>1. ASSUME NEW m \in FramesIn(Range(Out(l, z, sent)), "manifest")
      PROVE  Holds(log, store[End[l][z]], m.body)
  <2>1. m \in FramesIn(Range(wire[l][z]), "manifest") \cup FramesIn(Range(sent), "manifest")
    BY OutRange DEF FramesIn
  <2>2. \A n \in FramesIn(Range(wire[l][z]), "manifest") : Holds(log, store[End[l][z]], n.body)
    BY DEF Sides, Side, ReadOK
  <2> QED BY <2>1, <2>2
<1>2. Side(z, e, end[l][Peer(z)], Out(l, z, sent), left, log, store[End[l][z]], store[End[l][Peer(z)]])
  BY <1>1 DEF Side, ReadOK, Delivers
<1> QED BY <1>2

\* A step that reads, or passes on what was read.
LEMMA ReadSides ==
  ASSUME Carried, Sides, UNCHANGED engines, NEW l \in Link, FinishOK(l),
         NEW z \in Role, NEW e, NEW left, NEW sent \in Seq(GoodFrames), GoOn(l, z, e, left, sent),
         end[l][z].pc \in {"hello", "manifest", "rows", "inventory", "build", "export"},
         left = Incoming(l, z) \/ \E kind \in {"hello", "manifest", "inventory"} :
                                    Received(l, z, kind) /\ left = Tail(Incoming(l, z)),
         e.pc \in {"manifest", "rows", "inventory", "build", "export"}, OutboundOK(z, e),
         Holds(log, store[End[l][z]], e.units),
         Keeps(log, store[End[l][z]], e.changes),
         Holds(log, store[End[l][Peer(z)]], e.remote),
         \A m \in FramesIn(Range(sent), "manifest") : Holds(log, store[End[l][z]], m.body)
  PROVE  Sides'
<1>1. [RowProofs!Next]_(RowProofs!vars) /\ UNCHANGED <<store, log>>
  BY EnginesStay DEF engines
<1>2. /\ Range(left) \subseteq Range(Incoming(l, z))
      /\ UnitsIn(Range(Incoming(l, z))) \subseteq UnitsIn(Range(left))
      /\ ChangesIn(Range(Incoming(l, z))) \subseteq ChangesIn(Range(left))
  <2>1. CASE left = Incoming(l, z)
    BY <2>1
  <2>2. ASSUME NEW kind \in {"hello", "manifest", "inventory"}, Received(l, z, kind), left = Tail(Incoming(l, z))
        PROVE  /\ Range(left) \subseteq Range(Incoming(l, z))
               /\ UnitsIn(Range(Incoming(l, z))) \subseteq UnitsIn(Range(left))
               /\ ChangesIn(Range(Incoming(l, z))) \subseteq ChangesIn(Range(left))
    <3>1. kind # "state" /\ kind # "changes"
      OBVIOUS
    <3> QED BY <2>2, <3>1, TailBrings
  <2> QED BY <2>1, <2>2
<1>3. e.pc \notin Built /\ e.pc # "ok" /\ end[l][z].pc \notin Ended /\ end[l][z].pc # "recovery"
  BY DEF Built, Ended
<1>4. end[l][Peer(z)].pc \in Built =>
        Wanted(z, end[l][z], wire[l][z]) \subseteq Wanted(z, e, Out(l, z, sent))
  <2> SUFFICES ASSUME end[l][Peer(z)].pc \in Built, NEW w \in Wanted(z, end[l][z], wire[l][z])
               PROVE  w \in RequestsIn(Range(Out(l, z, sent)))
    BY DEF Wanted
  <2>1. w \in RequestsIn(Range(wire[l][z]))
    BY DEF Wanted
  <2>2. RequestsIn(Range(wire[l][z])) \subseteq RequestsIn(Range(Out(l, z, sent)))
    BY <1>3, PeerReceives
  <2> QED BY <2>1, <2>2
<1>5. Side(z, e, end[l][Peer(z)], Out(l, z, sent), left, log', store'[End[l][z]], store'[End[l][Peer(z)]])
  BY <1>1, <1>3, MineReads
<1>6. Side(Peer(z), end[l][Peer(z)], e, left, Out(l, z, sent), log', store'[End[l][Peer(z)]], store'[End[l][z]])
  BY <1>1, <1>2, <1>3, <1>4, PeerQuiet
<1> QED BY <1>1, <1>5, <1>6, StepSides

\* What one frame that is sent says.
LEMMA OneSent ==
  ASSUME NEW kind, NEW body, NEW other
  PROVE  \A m \in FramesIn(Range(<<Message(kind, body)>>), other) : kind = other /\ m.body = body
<1>1. Range(<<Message(kind, body)>>) = {Message(kind, body)}
  BY RangeOne
<1> QED BY <1>1 DEF FramesIn, Message

\* No frame is sent.
LEMMA NoneSent ==
  /\ <<>> \in Seq(GoodFrames)
  /\ \A kind : FramesIn(Range(<<>>), kind) = {}
BY EmptySeq, NoFrames

\* The manifest of the initiator, or the responder's to be sent, is of the engine.
LEMMA HelloSides ==
  ASSUME Carried, Sides, NEW l \in Link, FinishOK(l), NEW z \in Role, ReceiveHello(l, z)
  PROVE  Sides'
<1> DEFINE r == End[l][z]
           left == Tail(Incoming(l, z))
<1>1. /\ Received(l, z, "hello") /\ UNCHANGED engines /\ r \in Replica
      /\ end[l][z].pc \in {"hello", "manifest", "rows", "inventory"}
  BY LinkAssumption DEF ReceiveHello, At
<1>2. Manifest(r) \subseteq Unit /\ Holds(log, store[r], Manifest(r))
  BY <1>1, ManifestGood, ExportHolds DEF Carried, GoodUnits
<1>3. CASE Stop(l, z, <<>>)
  BY <1>1, <1>3, StopSides
<1>4. CASE Go(l, z, [Idle EXCEPT !.pc = "manifest"], <<Message("manifest", Manifest(r))>>)
  <2> DEFINE e == [Idle EXCEPT !.pc = "manifest"]
             sent == <<Message("manifest", Manifest(r))>>
  <2>1. GoOn(l, z, e, left, sent)
    BY <1>4 DEF Go
  <2>2. e.pc = "manifest" /\ e.changes = {} /\ e.outbound = <<>> /\ e.units = {} /\ e.remote = {}
    BY DEF Idle
  <2>3. Message("manifest", Manifest(r)) \in GoodFrames
    BY <1>2 DEF Message, GoodFrames, FramesOf
  <2>4. sent \in Seq(GoodFrames)
    BY <2>3, SentGood
  <2>5. \A m \in FramesIn(Range(sent), "manifest") : Holds(log, store[r], m.body)
    BY <1>2, OneSent
  <2>6. /\ Holds(log, store[r], e.units) /\ Keeps(log, store[r], e.changes)
        /\ Holds(log, store[End[l][Peer(z)]], e.remote) /\ OutboundOK(z, e)
    BY <2>2 DEF Holds, Keeps, OutboundOK
  <2> HIDE DEF e, sent
  <2> QED BY <1>1, <2>1, <2>2, <2>4, <2>5, <2>6, ReadSides
<1>5. CASE Go(l, z, [Idle EXCEPT !.pc = "manifest", !.units = Manifest(r)], <<Hello(r)>>)
  <2> DEFINE e == [Idle EXCEPT !.pc = "manifest", !.units = Manifest(r)]
             sent == <<Hello(r)>>
  <2>1. GoOn(l, z, e, left, sent)
    BY <1>5 DEF Go
  <2>2. e.pc = "manifest" /\ e.changes = {} /\ e.outbound = <<>> /\ e.units = Manifest(r) /\ e.remote = {}
    BY DEF Idle
  <2>3. Hello(r) \in GoodFrames
    BY <1>1 DEF Carried, Hello, Message, GoodFrames, FramesOf
  <2>4. sent \in Seq(GoodFrames)
    BY <2>3
  <2>5. \A m \in FramesIn(Range(sent), "manifest") : Holds(log, store[r], m.body)
    BY OneSent DEF Hello
  <2>6. /\ Holds(log, store[r], e.units) /\ Keeps(log, store[r], e.changes)
        /\ Holds(log, store[End[l][Peer(z)]], e.remote) /\ OutboundOK(z, e)
    BY <1>2, <2>2 DEF Holds, Keeps, OutboundOK
  <2> HIDE DEF e, sent
  <2> QED BY <1>1, <2>1, <2>2, <2>4, <2>5, <2>6, ReadSides
<1> QED BY <1>3, <1>4, <1>5 DEF ReceiveHello

\* What an end has read its replica has, and its peer what its manifest listed.
LEMMA UnitsHeld ==
  ASSUME Sides, NEW l \in Link, NEW z \in Role
  PROVE  /\ Holds(log, store[End[l][z]], end[l][z].units)
         /\ Keeps(log, store[End[l][z]], end[l][z].changes)
         /\ Holds(log, store[End[l][Peer(z)]], end[l][z].remote)
         /\ OutboundOK(z, end[l][z])
BY DEF Sides, Side, ReadOK

\* The peer still has what its manifest lists.
LEMMA ManifestSides ==
  ASSUME Carried, Sides, NEW l \in Link, FinishOK(l), NEW z \in Role, ReceiveManifest(l, z)
  PROVE  Sides'
<1> DEFINE r == End[l][z]
           left == Tail(Incoming(l, z))
           mine == end[l][z].units
           e == [Idle EXCEPT !.pc = "rows", !.remote = Body(l, z), !.units = CatalogUnits(r)]
           sent == IF z = "responder" THEN <<Message("manifest", mine)>> ELSE <<>>
<1>1. /\ Received(l, z, "manifest") /\ UNCHANGED engines /\ r \in Replica
      /\ end[l][z].pc = "manifest"
  BY LinkAssumption DEF ReceiveManifest, At
<1>2. Peer(z) \in Role /\ Peer(Peer(z)) = z /\ Incoming(l, z) = wire[l][Peer(z)]
  BY DEF Role, Peer, Incoming
<1>3. Holds(log, store[End[l][Peer(z)]], Body(l, z))
  <2>1. Head(Incoming(l, z)) \in FramesIn(Range(Incoming(l, z)), "manifest")
    BY <1>1, TailBrings
  <2>2. \A m \in FramesIn(Range(wire[l][Peer(z)]), "manifest") : Holds(log, store[End[l][Peer(z)]], m.body)
    BY <1>2 DEF Sides, Side, ReadOK
  <2> QED BY <1>2, <2>1, <2>2 DEF Body
<1>4. Holds(log, store[r], mine)
  BY UnitsHeld
<1>5. /\ e.pc = "rows" /\ e.changes = {} /\ e.outbound = <<>>
      /\ e.units = CatalogUnits(r) /\ e.remote = Body(l, z)
  BY DEF Idle
<1>6. Message("manifest", mine) \in GoodFrames
  <2>1. mine \subseteq GoodUnits
    BY IncomingGood DEF Endpoints
  <2>2. mine \subseteq Unit
    BY <2>1 DEF GoodUnits
  <2> QED BY <2>2 DEF Message, GoodFrames, FramesOf
<1>7. sent \in Seq(GoodFrames)
  BY <1>6, SentGood, NoneSent
<1>8. \A m \in FramesIn(Range(sent), "manifest") : Holds(log, store[r], m.body)
  BY <1>4, OneSent, NoneSent
<1>9. /\ Holds(log, store[r], e.units) /\ Keeps(log, store[r], e.changes)
      /\ Holds(log, store[End[l][Peer(z)]], e.remote) /\ OutboundOK(z, e)
  BY <1>1, <1>3, <1>5, ExportHolds DEF Keeps, OutboundOK
<1>10. GoOn(l, z, e, left, sent)
  BY DEF ReceiveManifest, Go
<1> HIDE DEF e, sent
<1> QED BY <1>1, <1>5, <1>7, <1>8, <1>9, <1>10, ReadSides

\* Inventories that were read, which are no promise.
LEMMA InventoriedSides ==
  ASSUME Carried, Sides, NEW l \in Link, FinishOK(l), NEW z \in Role,
         end[l][z].pc \in {"rows", "inventory"}, UNCHANGED engines,
         NEW e \in Endpoints(GoodUnits, GoodChanges, GoodFrames), Inventoried(l, z, e),
         e.pc = "inventory", e.outbound = <<>>,
         Holds(log, store[End[l][z]], e.units),
         Keeps(log, store[End[l][z]], e.changes),
         Holds(log, store[End[l][Peer(z)]], e.remote)
  PROVE  Sides'
<1> DEFINE next == [e EXCEPT !.pc = "build", !.inventory = <<>>]
           m == Message("inventory", e.inventory)
           frames == <<m>>
           kept == [next EXCEPT !.outbound = frames]
           left == Incoming(l, z)
<1>1. m \in GoodFrames
  BY DEF Endpoints, Message, GoodFrames, FramesOf
<1>2. /\ frames \in Seq(GoodFrames)
      /\ FramesIn(Range(frames), "manifest") = {}
  BY <1>1, SentGood, OneSent
<1>3. /\ next.pc = "build" /\ next.units = e.units /\ next.changes = e.changes
      /\ next.remote = e.remote /\ next.outbound = <<>>
  BY DEF Endpoints
<1>4. /\ kept.pc = "build" /\ kept.units = e.units /\ kept.changes = e.changes
      /\ kept.remote = e.remote /\ kept.outbound = frames
  BY DEF Endpoints
<1>5. \/ GoOn(l, z, e, left, <<>>)
      \/ GoOn(l, z, next, left, <<>> \o frames)
      \/ z = "responder" /\ GoOn(l, z, kept, left, <<>>)
  BY DEF Inventoried, ReadOn, Role
<1> HIDE DEF next, m, kept, left, frames
<1>6. <<>> \o frames = frames
  BY <1>2
<1>7. CASE GoOn(l, z, e, left, <<>>)
  BY <1>7, NoneSent, ReadSides DEF OutboundOK, left
<1>8. CASE GoOn(l, z, next, left, frames)
  BY <1>2, <1>3, <1>8, ReadSides DEF OutboundOK, left
<1>9. CASE z = "responder" /\ GoOn(l, z, kept, left, <<>>)
  BY <1>2, <1>4, <1>9, NoneSent, ReadSides DEF OutboundOK, left
<1> QED BY <1>5, <1>6, <1>7, <1>8, <1>9

\* The rows that are read are held, too.
LEMMA ReadRowsSides ==
  ASSUME Carried, Sides, NEW l \in Link, FinishOK(l), NEW z \in Role, ReadRows(l, z)
  PROVE  Sides'
<1> DEFINE r == End[l][z]
           d == end[l][z]
           e == [d EXCEPT !.pc = "inventory", !.units = @ \cup RowUnits(r), !.unread = ExportedRows(r)]
<1>1. /\ UNCHANGED engines /\ r \in Replica /\ d.pc = "rows"
      /\ d \in Endpoints(GoodUnits, GoodChanges, GoodFrames)
  BY IncomingGood DEF ReadRows, At
<1>2. /\ Holds(log, store[r], d.units) /\ Keeps(log, store[r], d.changes)
      /\ Holds(log, store[End[l][Peer(z)]], d.remote) /\ d.outbound = <<>>
  BY <1>1, UnitsHeld DEF OutboundOK
<1>3. /\ e.pc = "inventory" /\ e.changes = d.changes /\ e.outbound = <<>>
      /\ e.units = d.units \cup RowUnits(r) /\ e.remote = d.remote
  BY <1>1, <1>2 DEF Endpoints
<1>4. e \in Endpoints(GoodUnits, GoodChanges, GoodFrames)
  <2>1. RowUnits(r) \subseteq GoodUnits
    BY <1>1, ManifestGood DEF Carried
  <2> QED BY <1>1, <2>1 DEF Endpoints, ExportedRows
<1>5. Holds(log, store[r], e.units)
  BY <1>1, <1>2, <1>3, ExportHolds DEF Holds
<1>6. Inventoried(l, z, e)
  BY DEF ReadRows
<1> HIDE DEF e
<1> QED BY <1>1, <1>2, <1>3, <1>4, <1>5, <1>6, InventoriedSides

\* An inventory is read.
LEMMA ReadInventorySides ==
  ASSUME Carried, Sides, NEW l \in Link, FinishOK(l), NEW z \in Role, ReadInventory(l, z)
  PROVE  Sides'
<1> DEFINE r == End[l][z]
           d == end[l][z]
<1>1. PICK w \in d.unread :
        Inventoried(l, z,
          [d EXCEPT !.unread = @ \ {w},
                    !.inventory = [v \in DOMAIN @ \cup {w} |->
                      IF v = w THEN Inventory(log, store[r][w]) ELSE @[v]]])
  BY DEF ReadInventory
<1> DEFINE read == [v \in DOMAIN d.inventory \cup {w} |->
                      IF v = w THEN Inventory(log, store[r][w]) ELSE d.inventory[v]]
           e == [d EXCEPT !.unread = @ \ {w}, !.inventory = read]
<1>2. /\ r \in Replica /\ d \in Endpoints(GoodUnits, GoodChanges, GoodFrames) /\ w \in Row
      /\ UNCHANGED engines /\ d.pc = "inventory"
  BY IncomingGood DEF ReadInventory, Endpoints, At
<1>3. Inventory(log, store[r][w]) \subseteq Change
  BY <1>2, InventoryGood DEF Carried
<1>4. read \in RowInventories
  <2>1. PICK S \in SUBSET Row : d.inventory \in [S -> SUBSET Change]
    BY <1>2 DEF Endpoints, RowInventories
  <2>2. read \in [S \cup {w} -> SUBSET Change]
    BY <1>3, <2>1
  <2> QED BY <1>2, <2>2 DEF RowInventories
<1>5. Inventoried(l, z, e)
  BY <1>1
<1> HIDE DEF read
<1>6. /\ e \in Endpoints(GoodUnits, GoodChanges, GoodFrames)
      /\ e.pc = "inventory" /\ e.units = d.units /\ e.changes = d.changes
      /\ e.remote = d.remote /\ e.outbound = d.outbound
  BY <1>2, <1>4 DEF Endpoints
<1>7. /\ Holds(log, store[r], d.units) /\ Keeps(log, store[r], d.changes)
      /\ Holds(log, store[End[l][Peer(z)]], d.remote) /\ d.outbound = <<>>
  BY <1>2, UnitsHeld DEF OutboundOK
<1> HIDE DEF e
<1> QED BY <1>2, <1>5, <1>6, <1>7, InventoriedSides

-----------------------------------------------------------------------------
(* Building *)

\* Every element of a sequence is in one of its frames.
LEMMA FramesBring ==
  ASSUME NEW S, NEW seq \in Seq(S), NEW kind, NEW k \in 1..Len(seq)
  PROVE  \E m \in Range(Frames(kind, seq)) : m.kind = kind /\ seq[k] \in Range(m.body)
<1> DEFINE n == (Len(seq) + Batch - 1) \div Batch
           q == (k - 1) \div Batch
           i == q + 1
           a == (i - 1) * Batch + 1
           b == IF i * Batch < Len(seq) THEN i * Batch ELSE Len(seq)
           j == k - a + 1
<1>1. Batch \in Nat /\ Batch > 0 /\ Len(seq) \in Nat /\ k \in Nat /\ 1 <= k /\ k <= Len(seq)
  BY BatchAssumption
<1>2. q \in Nat /\ q * Batch <= k - 1 /\ k - 1 < q * Batch + Batch
  BY <1>1
<1>3. n \in Nat /\ Len(seq) + Batch - 1 < n * Batch + Batch
  BY <1>1
<1> HIDE DEF q, n
<1>4. ~(n <= q)
  <2> SUFFICES ASSUME n <= q PROVE FALSE
    OBVIOUS
  <2>1. n * Batch <= q * Batch
    BY <1>1, <1>2, <1>3
  <2> QED BY <2>1, <1>1, <1>2, <1>3
<1>5. i \in 1..n
  BY <1>2, <1>3, <1>4
<1>6. i * Batch = q * Batch + Batch /\ (i - 1) * Batch = q * Batch /\ q * Batch \in Nat
  BY <1>1, <1>2
<1>7. /\ a \in Nat /\ b \in Nat /\ 1 <= a /\ a <= k /\ k <= b /\ b <= Len(seq)
      /\ j \in 1..(b - a + 1) /\ a + j - 1 = k
  BY <1>1, <1>2, <1>6
<1>8. /\ Frames(kind, seq)[i] = Message(kind, SubSeq(seq, a, b))
      /\ Frames(kind, seq)[i] \in Range(Frames(kind, seq))
  <2>1. DOMAIN Chunks(seq) = 1..n /\ Chunks(seq)[i] = SubSeq(seq, a, b)
    BY <1>5 DEF Chunks, n
  <2>2. DOMAIN Frames(kind, seq) = 1..n /\ Frames(kind, seq)[i] = Message(kind, Chunks(seq)[i])
    BY <1>5, <2>1 DEF Frames
  <2> QED BY <1>5, <2>1, <2>2 DEF Range
<1> HIDE DEF a, b, i, j
<1>9. \A x \in a..b : seq[x] \in S
  BY <1>1, <1>7, ElementOfSeq
<1>10. /\ SubSeq(seq, a, b) \in Seq(S) /\ Len(SubSeq(seq, a, b)) = b - a + 1
       /\ SubSeq(seq, a, b)[j] = seq[a + j - 1]
  BY <1>7, <1>9, SubSeqProperties
<1> DEFINE body == SubSeq(seq, a, b)
           m == Frames(kind, seq)[i]
<1>11. body \in Seq(S) /\ j \in 1..Len(body) /\ body[j] = seq[k]
  BY <1>7, <1>10
<1>12. m \in Range(Frames(kind, seq)) /\ m.kind = kind /\ m.body = body
  <2> HIDE DEF body
  <2>1. Frames(kind, seq)[i] = Message(kind, body)
    BY <1>8 DEF body
  <2> QED BY <1>8, <2>1 DEF Message
<1> HIDE DEF body
<1>13. j \in DOMAIN body
  BY <1>11
<1>14. seq[k] \in Range(body)
  BY <1>11, <1>13 DEF Range
<1> HIDE DEF m
<1> QED BY <1>12, <1>14

\* Every unit is in one of the frames of its sequence,
LEMMA UnitFramesBring ==
  ASSUME NEW units, IsFiniteSet(units), NEW u \in units, u.key \in Row
  PROVE  u \in UnitsIn(Range(Frames("state", UnitSeq(units))))
<1> DEFINE A == {v \in units : v.key \in Table}
           B == {v \in units : v.key \in Row}
           P == SetToSeq(A)
           Q == SetToSeq(B)
<1>1. IsFiniteSet(A) /\ IsFiniteSet(B) /\ u \in B
  BY FinitePart
<1>2. P \in Seq(A) /\ Q \in Seq(B)
  BY <1>1, SetToSeqLen
<1>3. PICK i \in 1..Len(Q) : Q[i] = u
  BY <1>1, SetToSeqLen
<1>4. UnitSeq(units) = P \o Q
  BY DEF UnitSeq
<1> HIDE DEF P, Q
<1>5. P \in Seq(units) /\ Q \in Seq(units)
  BY <1>2
<1>6. /\ P \o Q \in Seq(units) /\ Len(P) + i \in 1..Len(P \o Q)
      /\ (P \o Q)[Len(P) + i] = u
  BY <1>3, <1>5
<1>7. PICK m \in Range(Frames("state", P \o Q)) : m.kind = "state" /\ (P \o Q)[Len(P) + i] \in Range(m.body)
  BY <1>6, FramesBring
<1> QED BY <1>4, <1>6, <1>7 DEF UnitsIn, FramesIn

\* and every change in one of its.
LEMMA ChangeFramesBring ==
  ASSUME NEW S, IsFiniteSet(S), \A c \in S : c.id \in Nat,
         \A c, d \in S : c.id = d.id => c = d, NEW c \in S
  PROVE  c \in ChangesIn(Range(Frames("changes", ChangeSeq(S))))
<1>1. ChangeSeq(S) \in Seq(S)
  BY ChangeSeqOK
<1>2. PICK i \in 1..Len(ChangeSeq(S)) : ChangeSeq(S)[i] = c
  BY ChangeSeqOK
<1>3. PICK m \in Range(Frames("changes", ChangeSeq(S))) : m.kind = "changes" /\ ChangeSeq(S)[i] \in Range(m.body)
  BY <1>1, FramesBring
<1> QED BY <1>2, <1>3 DEF ChangesIn, FramesIn

\* What an end builds of the units and the changes it sends.
LEMMA OutboundBrings ==
  ASSUME Carried, NEW e \in Endpoints(GoodUnits, GoodChanges, GoodFrames), EndpointOK(e)
  PROVE  LET F == Range(OutboundFrames(e))
         IN  /\ \A u \in OutboundUnits(e) : u.key \in Row => u \in UnitsIn(F)
             /\ \A c \in e.changes : c \in ChangesIn(F)
             /\ FramesIn(F, "manifest") = {}
<1> DEFINE units == OutboundUnits(e)
           changes == e.changes
           U == Frames("state", UnitSeq(units))
           C == Frames("changes", ChangeSeq(changes))
           F == Range(OutboundFrames(e))
<1>1. IsFiniteSet(units) /\ units \subseteq GoodUnits
  BY FinitePart DEF OutboundUnits, EndpointOK, Endpoints
<1>2. RowProofs!IInv
  BY DEF Carried
<1>3. /\ changes \subseteq GoodChanges /\ IsFiniteSet(changes)
      /\ ChangeSeq(changes) \in Seq(GoodChanges)
  BY <1>2, ChangesGood DEF EndpointOK, Endpoints
<1>4. DOMAIN log \subseteq Nat
  BY <1>2, HashAssumption DEF RowProofs!IInv, RowProofs!TypeOK
<1> HIDE DEF units, changes
<1>5. (\A c \in changes : c.id \in Nat) /\ (\A c, d \in changes : c.id = d.id => c = d)
  BY <1>3, <1>4 DEF GoodChanges
<1>6. U \in Seq(GoodFrames) /\ C \in Seq(GoodFrames)
  <2>1. UnitSeq(units) \in Seq(GoodUnits)
    BY <1>1, UnitSeqGood
  <2> QED BY <1>3, <2>1, FramesGood DEF GoodFrames
<1>7. \A k \in DOMAIN U : U[k].kind = "state"
  BY DEF Frames, Message
<1>8. \A k \in DOMAIN C : C[k].kind = "changes"
  BY DEF Frames, Message
<1>9. ASSUME NEW u \in units, u.key \in Row
      PROVE  u \in UnitsIn(Range(U))
  BY <1>1, <1>9, UnitFramesBring
<1>10. ASSUME NEW c \in changes
       PROVE  c \in ChangesIn(Range(C))
  BY <1>3, <1>5, ChangeFramesBring
<1>11. OutboundFrames(e) = U \o C \o <<Done>>
  BY DEF OutboundFrames, units, changes
<1> HIDE DEF U, C
<1>12. Done \in GoodFrames
  BY DEF Done, Message, GoodFrames, FramesOf
<1>13. F = Range(U) \cup Range(C) \cup {Done}
  <2> DEFINE X == U \o C
             Z == <<Done>>
  <2>1. Z \in Seq(GoodFrames) /\ X \in Seq(GoodFrames)
    BY <1>6, <1>12
  <2>2. Range(X) = Range(U) \cup Range(C)
    BY <1>6, RangeConcatenation
  <2>3. Range(Z) = {Done}
    BY RangeOne
  <2>4. F = Range(X \o Z)
    BY <1>11
  <2> HIDE DEF X, Z, F
  <2>5. Range(X \o Z) = Range(X) \cup Range(Z)
    BY <2>1, RangeConcatenation
  <2> QED BY <2>2, <2>3, <2>4, <2>5, Zenon
<1> HIDE DEF F
<1>14. UnitsIn(Range(U)) \subseteq UnitsIn(F) /\ ChangesIn(Range(C)) \subseteq ChangesIn(F)
  BY <1>13 DEF UnitsIn, ChangesIn, FramesIn
<1>15. \A m \in F : m.kind \in {"state", "changes", "done"}
  BY <1>7, <1>8, <1>13 DEF Range, Done, Message
<1>16. FramesIn(F, "manifest") = {}
  BY <1>15 DEF FramesIn
<1> QED BY <1>9, <1>10, <1>14, <1>16 DEF F, units, changes

\* What is owed when it is built: the peer has it or it will be sent.
LEMMA BuiltOwes ==
  ASSUME Carried, NEW e \in Endpoints(GoodUnits, GoodChanges, GoodFrames), EndpointOK(e),
         NEW rows, Holds(log, rows, e.remote), NEW o \in Owes(e), NEW wanted
  PROVE  LET F == Range(OutboundFrames(e))
         IN  Brought(log, rows[o.key], o, UnitsIn(F), ChangesIn(F), wanted)
<1> DEFINE F == Range(OutboundFrames(e))
<1>1. PICK u \in e.units : u.key \in Row /\ o = [key |-> u.key, value |-> Due(e, u)]
  BY DEF Owes
<1>2. o.key = u.key /\ o.value = Due(e, u) /\ u.key \in Row
  BY <1>1
<1> HIDE DEF F
<1>3. /\ \A v \in OutboundUnits(e) : v.key \in Row => v \in UnitsIn(F)
      /\ \A c \in e.changes : c \in ChangesIn(F)
  BY OutboundBrings DEF F
<1>4. CASE SentChanges(e, u.key) # {}
  <2>1. o.value.state = SentChanges(e, u.key) /\ ~o.value.deleted
    BY <1>2, <1>4 DEF Due
  <2>2. ASSUME NEW c \in SentChanges(e, u.key)
        PROVE  c \in {x.id : x \in {x \in ChangesIn(F) : x.row = o.key}}
    <3>1. PICK x \in e.changes : x.row = u.key /\ x.id = c
      BY DEF SentChanges
    <3> QED BY <1>2, <1>3, <3>1
  <2> QED BY <2>1, <2>2 DEF Brought, F
<1>5. CASE SentChanges(e, u.key) = {}
  <2>1. o.value = u.value
    BY <1>2, <1>5 DEF Due
  <2>2. CASE u \in e.remote
    BY <1>2, <2>1, <2>2 DEF Holds, Brought
  <2>3. CASE u \notin e.remote
    <3>1. u.key \notin AsChanges(e)
      BY <1>5 DEF AsChanges, SentChanges
    <3>2. u \in UnitsIn(F)
      BY <1>1, <1>2, <1>3, <2>3, <3>1 DEF OutboundUnits
    <3>3. u.value.deleted \/ (~o.value.deleted /\ o.value.state \subseteq u.value.state)
      BY <2>1
    <3> QED BY <1>2, <3>2, <3>3 DEF Brought, F
  <2> QED BY <2>2, <2>3
<1> QED BY <1>4, <1>5

\* An end that is still to build has a peer that has not finished.
LEMMA NotFinished ==
  ASSUME NEW l \in Link, FinishOK(l), NEW z \in Role,
         end[l][z].pc \notin Ended, end[l][z].pc # "recovery"
  PROVE  end[l][Peer(z)].pc # "ok"
BY DEF FinishOK, Finishing, Role, Peer

\* Once all is read that is sent, all that is owed has been or will be sent.
LEMMA BuiltSides ==
  ASSUME Carried, Sides, UNCHANGED engines, NEW l \in Link, FinishOK(l), NEW z \in Role,
         end[l][z].pc \in {"build", "export"},
         NEW e \in Endpoints(GoodUnits, GoodChanges, GoodFrames), EndpointOK(e),
         Holds(log, store[End[l][z]], e.units),
         Keeps(log, store[End[l][z]], e.changes),
         Holds(log, store[End[l][Peer(z)]], e.remote),
         NEW next, NEW left, NEW sent \in Seq(GoodFrames), GoOn(l, z, next, left, sent),
         next.pc = "receive", next.units = e.units, next.changes = e.changes, next.remote = {},
         next.outbound # <<>> => z = "responder" /\ next.outbound = OutboundFrames(e),
         Range(OutboundFrames(e)) \subseteq Range(sent) \cup Range(next.outbound),
         FramesIn(Range(sent), "manifest") = {},
         left = Incoming(l, z) \/ (Received(l, z, "inventory") /\ left = Tail(Incoming(l, z)))
  PROVE  Sides'
<1> DEFINE r == End[l][z]
           d == end[l][z]
           y == Peer(z)
           q == End[l][y]
           f == end[l][y]
           to == Out(l, z, sent)
           F == Range(OutboundFrames(e))
<1>1. [RowProofs!Next]_(RowProofs!vars) /\ UNCHANGED <<store, log>>
  BY EnginesStay DEF engines
<1>2. /\ Range(left) \subseteq Range(Incoming(l, z))
      /\ UnitsIn(Range(Incoming(l, z))) \subseteq UnitsIn(Range(left))
      /\ ChangesIn(Range(Incoming(l, z))) \subseteq ChangesIn(Range(left))
  BY LeftKeeps
<1>3. FramesIn(F, "manifest") = {} /\ OutboundOK(z, next)
  BY OutboundBrings DEF OutboundOK
<1>4. f.pc # "ok" /\ d.pc \notin Ended /\ d.pc # "recovery"
  BY NotFinished DEF Ended
<1>5. Owes(next) = Owes(e)
  BY DEF Owes, Due, SentChanges
<1>6. ReadOK(z, d, wire[l][z], log, store[r], store[q])
  BY DEF Sides, Side
<1> HIDE DEF F, d
<1>7. ReadOK(z, next, to, log, store[r], store[q])
  <2>1. ASSUME NEW n \in FramesIn(Range(to), "manifest")
        PROVE  Holds(log, store[r], n.body)
    <3>1. n \in Range(wire[l][z]) \cup Range(sent) /\ n.kind = "manifest"
      BY OutRange DEF FramesIn
    <3>2. n \in FramesIn(Range(wire[l][z]), "manifest")
      BY <3>1 DEF FramesIn
    <3> QED BY <1>6, <3>2 DEF ReadOK
  <2> QED BY <1>3, <2>1 DEF ReadOK, Holds
<1>8. ASSUME f.pc \notin Ended, NEW o \in Owes(next)
      PROVE  Brought(log, store[q][o.key], o, UnitsIn(Pending(next, to)) \cup Answered(next),
                     ChangesIn(Pending(next, to)), Wanted(y, f, left) \cup Asked(next))
  <2>1. F \subseteq Pending(next, to)
    BY <1>8, OutRange DEF Pending, F
  <2>2. Brought(log, store[q][o.key], o, UnitsIn(F), ChangesIn(F), Wanted(y, f, left) \cup Asked(next))
    BY <1>5, BuiltOwes DEF F
  <2>3. Grown(log, store[q][o.key], log, store[q][o.key])
    BY DEF Grown
  <2>4. /\ UnitsIn(F) \subseteq UnitsIn(Pending(next, to)) \cup Answered(next)
        /\ ChangesIn(F) \subseteq ChangesIn(Pending(next, to))
    BY <2>1 DEF UnitsIn, ChangesIn, FramesIn
  <2> QED BY <2>2, <2>3, <2>4, BroughtGrows
<1>9. Side(z, next, f, to, left, log', store'[r], store'[q])
  <2>1. Side(z, next, f, to, left, log, store[r], store[q])
    BY <1>4, <1>7, <1>8 DEF Side, Delivers
  <2> QED BY <1>1, <2>1
<1>10. f.pc \in Built => Wanted(z, d, wire[l][z]) \subseteq Wanted(z, next, to)
  <2> SUFFICES ASSUME f.pc \in Built, NEW w \in Wanted(z, d, wire[l][z])
               PROVE  w \in RequestsIn(Range(to))
    BY DEF Wanted
  <2>1. w \in RequestsIn(Range(wire[l][z]))
    BY DEF Wanted, d
  <2>2. RequestsIn(Range(wire[l][z])) \subseteq RequestsIn(Range(to))
    BY <1>4, PeerReceives DEF d
  <2> QED BY <2>1, <2>2
<1>11. Side(y, f, next, left, to, log', store'[q], store'[r])
  BY <1>1, <1>2, <1>4, <1>10, PeerQuiet DEF d
<1> QED BY <1>1, <1>9, <1>11, StepSides

\* A reading of what is sent, which may be the last.
LEMMA ExportingSides ==
  ASSUME Carried, Sides, UNCHANGED engines, NEW l \in Link, FinishOK(l), NEW z \in Role,
         end[l][z].pc \in {"build", "export"},
         NEW e \in Endpoints(GoodUnits, GoodChanges, GoodFrames), EndpointOK(e),
         e.pc = "export", e.outbound = <<>>,
         Holds(log, store[End[l][z]], e.units),
         Keeps(log, store[End[l][z]], e.changes),
         Holds(log, store[End[l][Peer(z)]], e.remote),
         NEW left, NEW sent \in Seq(GoodFrames), Exporting(l, z, e, left, sent),
         FramesIn(Range(sent), "manifest") = {},
         left = Incoming(l, z) \/ (Received(l, z, "inventory") /\ left = Tail(Incoming(l, z)))
  PROVE  Sides'
<1> DEFINE next == [e EXCEPT !.pc = "receive", !.remote = {}, !.inventory = <<>>]
           frames == OutboundFrames(e)
           kept == [next EXCEPT !.outbound = frames]
<1>1. /\ next.pc = "receive" /\ next.units = e.units /\ next.changes = e.changes
      /\ next.remote = {} /\ next.outbound = <<>>
  BY DEF Endpoints
<1>2. /\ kept.pc = "receive" /\ kept.units = e.units /\ kept.changes = e.changes
      /\ kept.remote = {} /\ kept.outbound = frames
  BY DEF Endpoints
<1>3. frames \in Seq(GoodFrames) /\ FramesIn(Range(frames), "manifest") = {}
  BY OutboundGood, OutboundBrings DEF Carried
<1>4. \/ GoOn(l, z, e, left, sent)
      \/ GoOn(l, z, next, left, sent \o frames)
      \/ z = "responder" /\ GoOn(l, z, kept, left, sent)
  BY DEF Exporting, ReadOn, Role
<1> HIDE DEF next, kept, frames
<1>5. CASE GoOn(l, z, e, left, sent)
  <2>1. FramesIn(Range(sent), "manifest") = {} /\ OutboundOK(z, e)
    BY DEF OutboundOK
  <2> QED BY <1>5, <2>1, ReadSides
<1>6. CASE GoOn(l, z, next, left, sent \o frames)
  <2>1. sent \o frames \in Seq(GoodFrames) /\ Range(sent \o frames) = Range(sent) \cup Range(frames)
    BY <1>3, ConcatProperties, RangeConcatenation
  <2>2. FramesIn(Range(sent \o frames), "manifest") = {}
    BY <1>3, <2>1 DEF FramesIn
  <2> DEFINE out == sent \o frames
  <2>3. out \in Seq(GoodFrames) /\ GoOn(l, z, next, left, out) /\ FramesIn(Range(out), "manifest") = {}
        /\ Range(OutboundFrames(e)) \subseteq Range(out) \cup Range(next.outbound)
    BY <1>6, <2>1, <2>2 DEF frames
  <2> HIDE DEF out
  <2> QED BY <1>1, <2>3, BuiltSides
<1>7. CASE z = "responder" /\ GoOn(l, z, kept, left, sent)
  <2>1. Range(OutboundFrames(e)) \subseteq Range(sent) \cup Range(kept.outbound)
    BY <1>2 DEF frames
  <2> QED BY <1>2, <1>7, <2>1, BuiltSides DEF frames
<1> QED BY <1>4, <1>5, <1>6, <1>7

\* The inventory that the responder has kept is sent.
LEMMA InventorySides ==
  ASSUME Inv, Carried, Sides, NEW l \in Link, FinishOK(l), NEW z \in Role, ReceiveInventory(l, z)
  PROVE  Sides'
<1> DEFINE r == End[l][z]
           d == end[l][z]
           e == [d EXCEPT !.pc = "export", !.inventory = Body(l, z), !.outbound = <<>>,
                          !.unread = UnitRows(d.units \ d.remote) \cap DOMAIN Body(l, z)]
           left == Tail(Incoming(l, z))
<1>1. /\ Received(l, z, "inventory") /\ UNCHANGED engines /\ d.pc = "build"
      /\ d \in Endpoints(GoodUnits, GoodChanges, GoodFrames)
  BY IncomingGood DEF ReceiveInventory, At
<1>2. e \in Endpoints(GoodUnits, GoodChanges, GoodFrames)
  <2>1. Body(l, z) \in RowInventories
    BY <1>1, ReceivedGood
  <2>2. <<>> \in Seq(GoodFrames) /\ UnitRows(d.units \ d.remote) \subseteq Row
    BY EmptySeq DEF UnitRows
  <2> QED BY <1>1, <2>1, <2>2 DEF Endpoints
<1>3. EndpointOK(e)
  <2>1. EndpointOK(d)
    BY DEF Inv, LinkOK
  <2> QED BY <2>1 DEF EndpointOK
<1>4. /\ e.pc = "export" /\ e.units = d.units /\ e.changes = d.changes
      /\ e.remote = d.remote /\ e.outbound = <<>>
  BY <1>1 DEF Endpoints
<1>5. /\ Holds(log, store[r], d.units) /\ Keeps(log, store[r], d.changes)
      /\ Holds(log, store[End[l][Peer(z)]], d.remote)
      /\ FramesIn(Range(d.outbound), "manifest") = {}
  BY UnitsHeld, NoneSent DEF OutboundOK
<1>6. d.outbound \in Seq(GoodFrames)
  BY <1>1 DEF Endpoints
<1>7. Exporting(l, z, e, left, d.outbound)
  BY DEF ReceiveInventory
<1> HIDE DEF e
<1> QED BY <1>1, <1>2, <1>3, <1>4, <1>5, <1>6, <1>7, ExportingSides

\* What is read of a change is stored.
LEMMA ExportSides ==
  ASSUME Inv, Carried, Sides, NEW l \in Link, FinishOK(l), NEW z \in Role,
         ReadMissing(l, z) \/ ExportChange(l, z)
  PROVE  Sides'
<1> DEFINE r == End[l][z]
           d == end[l][z]
           left == Incoming(l, z)
<1>1. /\ r \in Replica /\ d \in Endpoints(GoodUnits, GoodChanges, GoodFrames)
      /\ d.pc = "export" /\ UNCHANGED engines
  BY IncomingGood DEF ReadMissing, ExportChange, At
<1>2. EndpointOK(d)
  BY DEF Inv, LinkOK
<1>3. /\ Holds(log, store[r], d.units) /\ Keeps(log, store[r], d.changes)
      /\ Holds(log, store[End[l][Peer(z)]], d.remote) /\ d.outbound = <<>>
  BY <1>1, UnitsHeld DEF OutboundOK
<1>4. ASSUME NEW e \in Endpoints(GoodUnits, GoodChanges, GoodFrames), EndpointOK(e),
             e.pc = d.pc, e.units = d.units, e.remote = d.remote, e.outbound = d.outbound,
             Keeps(log, store[r], e.changes), Exporting(l, z, e, left, <<>>)
      PROVE  Sides'
  <2> HIDE DEF left
  <2>1. left = Incoming(l, z)
    BY DEF left
  <2> QED BY <1>1, <1>3, <1>4, <2>1, NoneSent, ExportingSides
<1>5. CASE ReadMissing(l, z)
  <2>1. PICK w \in d.unread :
          Exporting(l, z, [d EXCEPT !.unread = @ \ {w}, !.exports = Missing(r, w, d.inventory)],
                    left, <<>>)
    BY <1>5 DEF ReadMissing
  <2> DEFINE e == [d EXCEPT !.unread = @ \ {w}, !.exports = Missing(r, w, d.inventory)]
  <2>2. w \in Row
    BY <1>1 DEF Endpoints
  <2>3. Missing(r, w, d.inventory) \subseteq GoodChanges
    BY <1>1, <2>2, InventoryGood DEF Carried
  <2>4. /\ e \in Endpoints(GoodUnits, GoodChanges, GoodFrames)
        /\ e.pc = d.pc /\ e.units = d.units /\ e.changes = d.changes
        /\ e.remote = d.remote /\ e.outbound = d.outbound
    BY <1>1, <2>3 DEF Endpoints
  <2>5. EndpointOK(e)
    BY <1>2 DEF EndpointOK
  <2>6. Exporting(l, z, e, left, <<>>)
    BY <2>1
  <2> HIDE DEF e, left, d, r
  <2> QED BY <1>3, <1>4, <2>4, <2>5, <2>6
<1>6. CASE ExportChange(l, z)
  <2>1. PICK c \in d.exports :
          Exporting(l, z,
            [d EXCEPT !.exports = @ \ {c}, !.changes = @ \cup {x \in {c} : Found(r, x)}], left, <<>>)
    BY <1>6 DEF ExportChange
  <2> DEFINE found == {x \in {c} : Found(r, x)}
             e == [d EXCEPT !.exports = @ \ {c}, !.changes = @ \cup found]
  <2>2. Exporting(l, z, e, left, <<>>)
    BY <2>1
  <2>3. found \subseteq GoodChanges /\ d.changes \subseteq GoodChanges
    BY <1>1 DEF Endpoints
  <2>4. IsFiniteSet(d.changes \cup found)
    <3>1. IsFiniteSet(found)
      BY FS_Singleton, FinitePart
    <3> QED BY <1>2, <3>1, FS_Union DEF EndpointOK
  <2>5. Keeps(log, store[r], found)
    BY DEF Keeps, Found, Stored, Payloads, Payload
  <2>6. Keeps(log, store[r], d.changes \cup found)
    BY <1>3, <2>5 DEF Keeps
  <2> HIDE DEF found
  <2>7. /\ e \in Endpoints(GoodUnits, GoodChanges, GoodFrames)
        /\ e.pc = d.pc /\ e.units = d.units /\ e.changes = d.changes \cup found
        /\ e.remote = d.remote /\ e.outbound = d.outbound
    BY <1>1, <2>3 DEF Endpoints
  <2>8. EndpointOK(e)
    BY <1>2, <2>4 DEF EndpointOK
  <2> HIDE DEF e, left, d, r
  <2> QED BY <1>4, <2>2, <2>6, <2>7, <2>8
<1> QED BY <1>5, <1>6

-----------------------------------------------------------------------------
(* Receiving units and changes *)

\* What an end has asked for is still on its way while its peer may answer.
LEMMA RequestsStay ==
  ASSUME Carried, NEW l \in Link, FinishOK(l), NEW z \in Role, NEW sent \in Seq(GoodFrames),
         end[l][z].pc \notin Ended, end[l][Peer(z)].pc \in Built
  PROVE  RequestsIn(Range(wire[l][z])) \subseteq RequestsIn(Range(Out(l, z, sent)))
<1>1. CASE end[l][Peer(z)].pc = "ok"
  <2>1. wire[l][z] = <<>>
    BY <1>1 DEF FinishOK, Finishing, Role, Peer
  <2> QED BY <2>1, NoFrames
<1>2. CASE end[l][Peer(z)].pc # "ok"
  <2>1. Range(Out(l, z, sent)) = Range(wire[l][z]) \cup Range(sent)
    BY <1>2, OutRange DEF Built, Ended
  <2> QED BY <2>1 DEF RequestsIn, FramesIn
<1> QED BY <1>1, <1>2

\* The side of the peer of an end that stores, or asks for, some of what it receives.
LEMMA PeerTakes ==
  ASSUME Carried, Sides, [RowProofs!Next]_(RowProofs!vars), NEW l \in Link, NEW z \in Role,
         NEW e, NEW left, NEW to,
         FramesIn(Range(left), "manifest") \subseteq FramesIn(Range(Incoming(l, z)), "manifest"),
         end[l][z].pc \notin Ended, e.pc # "ok",
         \A o \in Owes(end[l][Peer(z)]) :
           end[l][Peer(z)].pc \in Built
             /\ Brought(log, store[End[l][z]][o.key], o,
                        UnitsIn(Pending(end[l][Peer(z)], Incoming(l, z))) \cup Answered(end[l][Peer(z)]),
                        ChangesIn(Pending(end[l][Peer(z)], Incoming(l, z))),
                        Wanted(z, end[l][z], wire[l][z]) \cup Asked(end[l][Peer(z)]))
           => Brought(log', store'[End[l][z]][o.key], o,
                      UnitsIn(Pending(end[l][Peer(z)], left)) \cup Answered(end[l][Peer(z)]),
                      ChangesIn(Pending(end[l][Peer(z)], left)),
                      Wanted(z, e, to) \cup Asked(end[l][Peer(z)]))
  PROVE  Side(Peer(z), end[l][Peer(z)], e, left, to, log', store'[End[l][Peer(z)]], store'[End[l][z]])
<1> DEFINE y == Peer(z)
           f == end[l][y]
<1>1. y \in Role /\ Peer(y) = z /\ Incoming(l, z) = wire[l][y]
  BY DEF Role, Peer, Incoming
<1>2. Side(y, f, end[l][z], wire[l][y], wire[l][z], log, store[End[l][y]], store[End[l][z]])
  BY <1>1 DEF Sides
<1>3. /\ RowsGrown(log, store[End[l][y]], log', store'[End[l][y]])
      /\ RowsGrown(log, store[End[l][z]], log', store'[End[l][z]])
  BY <1>1, RowsGrow, LinkAssumption
<1>4. ReadOK(y, f, left, log', store'[End[l][y]], store'[End[l][z]])
  <2> HIDE DEF f, y
  <2>1. /\ Holds(log, store[End[l][y]], f.units) /\ Keeps(log, store[End[l][y]], f.changes)
        /\ Holds(log, store[End[l][z]], f.remote) /\ OutboundOK(y, f)
        /\ \A m \in FramesIn(Range(wire[l][y]), "manifest") : Holds(log, store[End[l][y]], m.body)
    BY <1>2 DEF Side, ReadOK
  <2>2. \A m \in FramesIn(Range(left), "manifest") : Holds(log, store[End[l][y]], m.body)
    BY <1>1, <2>1
  <2> QED BY <1>3, <2>1, <2>2, HoldsGrows, KeepsGrows DEF ReadOK
<1>5. ASSUME f.pc \in Built, NEW o \in Owes(f)
      PROVE  Brought(log', store'[End[l][z]][o.key], o, UnitsIn(Pending(f, left)) \cup Answered(f),
                     ChangesIn(Pending(f, left)), Wanted(z, e, to) \cup Asked(f))
  <2>1. Brought(log, store[End[l][z]][o.key], o, UnitsIn(Pending(f, Incoming(l, z))) \cup Answered(f),
                ChangesIn(Pending(f, Incoming(l, z))),
                Wanted(z, end[l][z], wire[l][z]) \cup Asked(f))
    BY <1>1, <1>2, <1>5 DEF Side, Delivers
  <2> QED BY <1>5, <2>1
<1> QED BY <1>1, <1>4, <1>5 DEF Side, Delivers

\* The side of an end that receives a frame of units or changes, and sends nothing.
LEMMA MineTakes ==
  ASSUME Carried, Sides, [RowProofs!Next]_(RowProofs!vars), NEW l \in Link, NEW z \in Role,
         NEW e, NEW left,
         end[l][z].pc # "snapshots",
         e.pc = end[l][z].pc, e.units = end[l][z].units, e.changes = end[l][z].changes,
         e.remote = end[l][z].remote, e.outbound = end[l][z].outbound,
         RequestsIn(Range(Incoming(l, z))) \subseteq RequestsIn(Range(left))
  PROVE  Side(z, e, end[l][Peer(z)], Out(l, z, <<>>), left, log',
              store'[End[l][z]], store'[End[l][Peer(z)]])
<1> DEFINE d == end[l][z]
<1>1. ReadOK(z, d, wire[l][z], log, store[End[l][z]], store[End[l][Peer(z)]])
  BY DEF Sides, Side
<1>2. OutboundOK(z, e)
  BY <1>1 DEF ReadOK, OutboundOK
<1>3. Owes(e) = Owes(d)
  BY DEF Owes, Due, SentChanges
<1> HIDE DEF d
<1> QED BY <1>2, <1>3, NoneSent, MineQuiet DEF d

\* What one unit leaves of a frame.
LEMMA UnitTaken ==
  ASSUME Carried, NEW l \in Link, NEW z \in Role, Received(l, z, "state")
  PROVE  LET F == Range(Incoming(l, z))
             G == Range(FrameLeft(l, z))
         IN  /\ UnitsIn(F) \subseteq {Head(Body(l, z))} \cup UnitsIn(G)
             /\ ChangesIn(F) \subseteq ChangesIn(G)
             /\ RequestsIn(F) \subseteq RequestsIn(G)
             /\ FramesIn(G, "manifest") \subseteq FramesIn(F, "manifest")
<1> DEFINE F == Range(Incoming(l, z))
           T == Range(Tail(Incoming(l, z)))
           G == Range(FrameLeft(l, z))
           b == Body(l, z)
           m == Message("state", Tail(b))
<1>1. /\ b \in Seq(GoodUnits) /\ b # <<>> /\ Tail(Incoming(l, z)) \in Seq(GoodFrames)
  BY ReceivedGood
<1>2. /\ T \subseteq F /\ UnitsIn(F) \subseteq UnitsIn(T) \cup Range(b)
      /\ ChangesIn(F) \subseteq ChangesIn(T) /\ RequestsIn(F) \subseteq RequestsIn(T)
  BY TailBrings
<1>3. FrameLeft(l, z) = IF Len(b) = 1 THEN Tail(Incoming(l, z)) ELSE <<m>> \o Tail(Incoming(l, z))
  BY DEF FrameLeft
<1>4. m.kind = "state" /\ m.body = Tail(b)
  BY DEF Message
<1> HIDE DEF b, m
<1>5. Range(b) = {Head(b)} \cup Range(Tail(b))
  BY <1>1, RangeSplit
<1>6. CASE Len(b) = 1
  <2>1. Tail(b) \in Seq(GoodUnits) /\ Len(Tail(b)) = 0
    BY <1>1, <1>6
  <2>2. Tail(b) = <<>>
    BY <2>1, EmptyQueue
  <2>3. G = T
    BY <1>3, <1>6
  <2>4. FramesIn(T, "manifest") \subseteq FramesIn(F, "manifest")
    BY <1>2 DEF FramesIn
  <2> HIDE DEF F, T, G
  <2> QED BY <1>2, <1>5, <2>2, <2>3, <2>4, NoFrames DEF F, G, b
<1>7. CASE Len(b) # 1
  <2>1. G = {m} \cup T
    <3> DEFINE X == <<m>>
               q == Tail(Incoming(l, z))
    <3>1. X \in Seq(GoodFrames \cup {m}) /\ q \in Seq(GoodFrames \cup {m})
      BY <1>1
    <3>2. Range(X) = {m}
      BY RangeOne
    <3>3. G = Range(X \o q)
      BY <1>3, <1>7
    <3>4. T = Range(q)
      OBVIOUS
    <3> HIDE DEF X, q, T, G
    <3>5. Range(X \o q) = Range(X) \cup Range(q)
      BY <3>1, RangeConcatenation
    <3> QED BY <3>2, <3>3, <3>4, <3>5, Zenon
  <2> HIDE DEF F, T, G
  <2>2. UnitsIn(T) \subseteq UnitsIn(G) /\ Range(Tail(b)) \subseteq UnitsIn(G)
    BY <1>4, <2>1 DEF UnitsIn, FramesIn
  <2>3. ChangesIn(T) \subseteq ChangesIn(G) /\ RequestsIn(T) \subseteq RequestsIn(G)
    BY <2>1 DEF ChangesIn, RequestsIn, FramesIn
  <2>4. FramesIn(G, "manifest") \subseteq FramesIn(F, "manifest")
    BY <1>2, <1>4, <2>1 DEF FramesIn
  <2> QED BY <1>2, <1>5, <2>2, <2>3, <2>4 DEF F, G, b
<1> QED BY <1>6, <1>7

\* A unit that is stored is held.
LEMMA UnitStored ==
  ASSUME NEW s \in StoredRow, NEW v \in RowUnit
  PROVE  LET t == ApplyUnit(log, s, v)
         IN  /\ v.deleted => t.deleted
             /\ t.deleted \/ v.state \subseteq Stored(log, t)
<1> DEFINE t == ApplyUnit(log, s, v)
           marked == IF v.deleted THEN MergeMetadata(s) ELSE s
<1>1. marked \in StoredRow /\ (v.deleted => marked.deleted)
  BY DEF StoredRow, RowUnit, MergeMetadata
<1>2. t = IF v.state = {} THEN marked ELSE MergeState(log, marked, v.state)
  BY DEF ApplyUnit
<1> HIDE DEF marked
<1>3. CASE v.state = {} \/ marked.deleted
  BY <1>1, <1>2, <1>3 DEF MergeState
<1>4. CASE v.state # {} /\ ~marked.deleted
  <2>1. t = AsSnapshot(marked, Document(log, marked) \cup v.state)
    BY <1>2, <1>4 DEF MergeState
  <2>2. t.base = Document(log, marked) \cup v.state
    BY <1>1, <2>1 DEF AsSnapshot, StoredRow
  <2> HIDE DEF t
  <2> QED BY <1>1, <1>4, <2>2 DEF t, Stored
<1> QED BY <1>3, <1>4

\* What is brought still is when all but one unit is as it was, and that unit's row
\* has all of it.
LEMMA BroughtTaken ==
  ASSUME NEW L, NEW s, NEW M, NEW t, Grown(L, s, M, t), NEW o,
         NEW units, NEW changes, NEW wanted, Brought(L, s, o, units, changes, wanted),
         NEW u, NEW units2, units \subseteq {u} \cup units2, NEW changes2, changes \subseteq changes2,
         NEW wanted2, wanted \subseteq wanted2,
         u.key = o.key => (u.value.deleted => t.deleted) /\ (t.deleted \/ u.value.state \subseteq Stored(M, t))
  PROVE  Brought(M, t, o, units2, changes2, wanted2)
<1>1. CASE \E v \in units2 : /\ v.key = o.key
                             /\ v.value.deleted \/ (~o.value.deleted /\ o.value.state \subseteq v.value.state)
  BY <1>1 DEF Brought
<1>2. CASE /\ u.key = o.key
           /\ u.value.deleted \/ (~o.value.deleted /\ o.value.state \subseteq u.value.state)
  <2>1. HasIn(M, t, o.value)
    BY <1>2 DEF HasIn
  <2> QED BY <2>1 DEF Brought
<1>3. CASE ~(\E v \in units : /\ v.key = o.key
                              /\ v.value.deleted \/ (~o.value.deleted /\ o.value.state \subseteq v.value.state))
  <2>1. Brought(L, s, o, {}, changes, wanted)
    BY <1>3 DEF Brought
  <2> QED BY <2>1, BroughtGrows
<1> QED BY <1>1, <1>2, <1>3

\* A unit that is received is held from then on; all else is as it was.
LEMMA UnitSides ==
  ASSUME Carried, Sides, NEW l \in Link, FinishOK(l), NEW z \in Role, ReceiveUnit(l, z)
  PROVE  Sides'
<1> DEFINE r == End[l][z]
           d == end[l][z]
           y == Peer(z)
           f == end[l][y]
           u == Head(Body(l, z))
           left == FrameLeft(l, z)
           to == Out(l, z, <<>>)
<1>1. /\ Received(l, z, "state") /\ r \in Replica /\ d.pc \in {"receive", "recovery"}
      /\ u \in GoodUnits
  BY IncomingGood, FrameLeftGood DEF ReceiveUnit
<1>2. d.pc \notin Ended /\ d.pc # "ok" /\ d.pc # "snapshots"
  BY <1>1 DEF Ended
<1>3. /\ UnitsIn(Range(Incoming(l, z))) \subseteq {u} \cup UnitsIn(Range(left))
      /\ ChangesIn(Range(Incoming(l, z))) \subseteq ChangesIn(Range(left))
      /\ RequestsIn(Range(Incoming(l, z))) \subseteq RequestsIn(Range(left))
      /\ FramesIn(Range(left), "manifest") \subseteq FramesIn(Range(Incoming(l, z)), "manifest")
  BY <1>1, UnitTaken
<1> HIDE DEF d, u, left
<1>4. ASSUME GoOn(l, z, d, left, <<>>), [RowProofs!Next]_(RowProofs!vars),
             u.key \in Row => /\ u.value.deleted => store'[r][u.key].deleted
                              /\ \/ store'[r][u.key].deleted
                                 \/ u.value.state \subseteq Stored(log', store'[r][u.key])
      PROVE  Sides'
  <2>1. RowsGrown(log, store[r], log', store'[r])
    BY <1>1, <1>4, RowsGrow
  <2>2. ASSUME f.pc \in Built
        PROVE  Wanted(z, d, wire[l][z]) \subseteq Wanted(z, d, to)
    <3>1. RequestsIn(Range(wire[l][z])) \subseteq RequestsIn(Range(to))
      BY <1>2, <2>2, NoneSent, RequestsStay DEF d
    <3> QED BY <3>1 DEF Wanted
  <2>3. UnitsIn(Pending(f, Incoming(l, z))) \subseteq {u} \cup UnitsIn(Pending(f, left))
    BY <1>3 DEF Pending, UnitsIn, FramesIn
  <2>4. ChangesIn(Pending(f, Incoming(l, z))) \subseteq ChangesIn(Pending(f, left))
    BY <1>3 DEF Pending, ChangesIn, FramesIn
  <2>5. ASSUME NEW o \in Owes(f), f.pc \in Built,
               Brought(log, store[r][o.key], o, UnitsIn(Pending(f, Incoming(l, z))) \cup Answered(f),
                       ChangesIn(Pending(f, Incoming(l, z))), Wanted(z, d, wire[l][z]) \cup Asked(f))
        PROVE  Brought(log', store'[r][o.key], o, UnitsIn(Pending(f, left)) \cup Answered(f),
                       ChangesIn(Pending(f, left)), Wanted(z, d, to) \cup Asked(f))
    <3>1. o.key \in Row
      BY DEF Owes
    <3>2. Grown(log, store[r][o.key], log', store'[r][o.key])
      BY <2>1, <3>1 DEF RowsGrown
    <3>3. u.key = o.key =>
            /\ u.value.deleted => store'[r][o.key].deleted
            /\ \/ store'[r][o.key].deleted
               \/ u.value.state \subseteq Stored(log', store'[r][o.key])
      BY <1>4, <3>1
    <3>4. Wanted(z, d, wire[l][z]) \subseteq Wanted(z, d, to)
      BY <2>2, <2>5
    <3> DEFINE s == store[r][o.key]
               t == store'[r][o.key]
               units == UnitsIn(Pending(f, Incoming(l, z))) \cup Answered(f)
               units2 == UnitsIn(Pending(f, left)) \cup Answered(f)
               changes == ChangesIn(Pending(f, Incoming(l, z)))
               changes2 == ChangesIn(Pending(f, left))
               wanted == Wanted(z, d, wire[l][z]) \cup Asked(f)
               wanted2 == Wanted(z, d, to) \cup Asked(f)
               M == log'
    <3>5. /\ Grown(log, s, M, t) /\ Brought(log, s, o, units, changes, wanted)
          /\ units \subseteq {u} \cup units2 /\ changes \subseteq changes2 /\ wanted \subseteq wanted2
          /\ u.key = o.key => (u.value.deleted => t.deleted) /\ (t.deleted \/ u.value.state \subseteq Stored(M, t))
      BY <2>3, <2>4, <2>5, <3>2, <3>3, <3>4
    <3> HIDE DEF s, t, units, units2, changes, changes2, wanted, wanted2, M
    <3>6. Brought(M, t, o, units2, changes2, wanted2)
      BY <3>5, BroughtTaken
    <3> QED BY <3>6 DEF t, units2, changes2, wanted2, M
  <2>6. Side(z, d, f, to, left, log', store'[r], store'[End[l][y]])
    BY <1>2, <1>3, <1>4, MineTakes DEF d
  <2>7. Side(y, f, d, left, to, log', store'[End[l][y]], store'[r])
    BY <1>2, <1>3, <1>4, <2>5, PeerTakes DEF d
  <2> QED BY <1>4, <2>6, <2>7, StepSides
<1>5. CASE u.key \in Table /\ GoOn(l, z, d, left, <<>>) /\ UNCHANGED <<store, log>>
  <2>1. [RowProofs!Next]_(RowProofs!vars) /\ u.key \notin Row
    BY <1>5, KeyAssumption DEF RowProofs!vars
  <2> QED BY <1>4, <1>5, <2>1
<1>6. CASE /\ u.key \in Row
           /\ store' = [store EXCEPT ![r][u.key] = ApplyUnit(log, @, u.value)]
           /\ GoOn(l, z, d, left, <<>>)
           /\ UNCHANGED <<log, catalog>>
  <2> HIDE DEF r
  <2>1. RowProofs!Next
    BY <1>1, <1>6, UnitStep
  <2>2. store[r][u.key] \in StoredRow /\ store \in [Replica -> [Row -> StoredRow]]
    BY <1>1, <1>6, StoredFacts, SameRows DEF Carried, RowProofs!IInv, RowProofs!TypeOK
  <2>3. u.value \in RowUnit
    BY <1>1, <1>6, KeyAssumption DEF GoodUnits, Unit
  <2>4. store'[r][u.key] = ApplyUnit(log, store[r][u.key], u.value) /\ log' = log
    BY <1>1, <1>6, <2>2
  <2>5. /\ u.value.deleted => store'[r][u.key].deleted
        /\ store'[r][u.key].deleted \/ u.value.state \subseteq Stored(log', store'[r][u.key])
    BY <2>2, <2>3, <2>4, UnitStored
  <2> QED BY <1>4, <1>6, <2>1, <2>5
<1>7. CASE Stop(l, z, <<Abort>>) /\ UNCHANGED engines
  BY <1>7, StopSides
<1> QED BY <1>5, <1>6, <1>7 DEF ReceiveUnit, d, u, left

\* What is brought still is when the changes of a batch are stored, or their rows
\* will be asked for.
LEMMA BroughtReceived ==
  ASSUME NEW L, NEW s, NEW M, NEW t, Grown(L, s, M, t), NEW o,
         NEW units, NEW changes, NEW wanted, Brought(L, s, o, units, changes, wanted),
         NEW units2, units \subseteq units2, NEW changes2, NEW wanted2, wanted \subseteq wanted2,
         \A c \in changes \ changes2 : c.row = o.key => c.id \in Stored(M, t) \/ o.key \in wanted2
  PROVE  Brought(M, t, o, units2, changes2, wanted2)
<1>1. CASE ~(/\ ~o.value.deleted
             /\ o.value.state \subseteq Stored(L, s) \cup {c.id : c \in {c \in changes : c.row = o.key}})
  <2>1. Brought(L, s, o, units, {}, wanted)
    BY <1>1 DEF Brought
  <2> QED BY <2>1, BroughtGrows
<1>2. CASE /\ ~o.value.deleted
           /\ o.value.state \subseteq Stored(L, s) \cup {c.id : c \in {c \in changes : c.row = o.key}}
  <2>1. CASE o.key \in wanted2
    BY <1>2, <2>1 DEF Brought
  <2>2. CASE o.key \notin wanted2
    <3>1. Stored(L, s) \subseteq Stored(M, t)
      BY DEF Grown
    <3>2. ASSUME NEW c \in changes, c.row = o.key
          PROVE  c.id \in Stored(M, t) \cup {x.id : x \in {x \in changes2 : x.row = o.key}}
      BY <2>2, <3>2
    <3>3. o.value.state \subseteq Stored(M, t) \cup {x.id : x \in {x \in changes2 : x.row = o.key}}
      BY <1>2, <3>1, <3>2
    <3> QED BY <1>2, <3>3 DEF Brought
  <2> QED BY <2>1, <2>2
<1> QED BY <1>1, <1>2

\* The changes of a batch are stored, or their rows will be asked for.
LEMMA ChangesSides ==
  ASSUME Carried, Sides, NEW l \in Link, FinishOK(l), NEW z \in Role, ReceiveChanges(l, z)
  PROVE  Sides'
<1> DEFINE r == End[l][z]
           d == end[l][z]
           y == Peer(z)
           f == end[l][y]
           batch == Body(l, z)
           left == Tail(Incoming(l, z))
           to == Out(l, z, <<>>)
<1>1. /\ Received(l, z, "changes") /\ r \in Replica /\ d.pc = "receive"
      /\ d \in Endpoints(GoodUnits, GoodChanges, GoodFrames)
  BY IncomingGood DEF ReceiveChanges, At
<1>2. d.pc \notin Ended
  BY <1>1 DEF Ended
<1>3. /\ Range(left) \subseteq Range(Incoming(l, z))
      /\ UnitsIn(Range(Incoming(l, z))) \subseteq UnitsIn(Range(left))
      /\ ChangesIn(Range(Incoming(l, z))) \subseteq Range(batch) \cup ChangesIn(Range(left))
      /\ RequestsIn(Range(Incoming(l, z))) \subseteq RequestsIn(Range(left))
  BY <1>1, TailBrings
<1>4. batch \in Seq(GoodChanges)
  BY <1>1, ReceivedGood
<1> HIDE DEF d, batch, left
<1>5. ASSUME NEW e, GoOn(l, z, e, left, <<>>), [RowProofs!Next]_(RowProofs!vars),
             e.pc = d.pc, e.units = d.units, e.changes = d.changes, e.remote = d.remote,
             e.outbound = d.outbound, d.requests \subseteq e.requests,
             \A c \in Range(batch) :
               c.row \in Row => c.id \in Stored(log', store'[r][c.row]) \/ c.row \in e.requests
      PROVE  Sides'
  <2>1. RowsGrown(log, store[r], log', store'[r])
    BY <1>1, <1>5, RowsGrow
  <2>2. ASSUME f.pc \in Built
        PROVE  Wanted(z, d, wire[l][z]) \subseteq Wanted(z, e, to) /\ e.requests \subseteq Wanted(z, e, to)
    <3>1. RequestsIn(Range(wire[l][z])) \subseteq RequestsIn(Range(to))
      BY <1>2, <2>2, NoneSent, RequestsStay DEF d
    <3> QED BY <1>1, <1>5, <3>1 DEF Wanted
  <2>3. UnitsIn(Pending(f, Incoming(l, z))) \subseteq UnitsIn(Pending(f, left))
    BY <1>3 DEF Pending, UnitsIn, FramesIn
  <2>4. ChangesIn(Pending(f, Incoming(l, z))) \subseteq Range(batch) \cup ChangesIn(Pending(f, left))
    BY <1>3 DEF Pending, ChangesIn, FramesIn
  <2>5. ASSUME NEW o \in Owes(f), f.pc \in Built,
               Brought(log, store[r][o.key], o, UnitsIn(Pending(f, Incoming(l, z))) \cup Answered(f),
                       ChangesIn(Pending(f, Incoming(l, z))), Wanted(z, d, wire[l][z]) \cup Asked(f))
        PROVE  Brought(log', store'[r][o.key], o, UnitsIn(Pending(f, left)) \cup Answered(f),
                       ChangesIn(Pending(f, left)), Wanted(z, e, to) \cup Asked(f))
    <3>1. o.key \in Row
      BY DEF Owes
    <3>2. Grown(log, store[r][o.key], log', store'[r][o.key])
      BY <2>1, <3>1 DEF RowsGrown
    <3>3. \A c \in ChangesIn(Pending(f, Incoming(l, z))) \ ChangesIn(Pending(f, left)) :
            c.row = o.key => c.id \in Stored(log', store'[r][o.key]) \/ o.key \in Wanted(z, e, to)
      BY <1>5, <2>2, <2>4, <2>5, <3>1
    <3>4. Wanted(z, d, wire[l][z]) \cup Asked(f) \subseteq Wanted(z, e, to) \cup Asked(f)
      BY <2>2, <2>5
    <3>5. UnitsIn(Pending(f, Incoming(l, z))) \cup Answered(f) \subseteq UnitsIn(Pending(f, left)) \cup Answered(f)
      BY <2>3
    <3> HIDE DEF f, to, r
    <3> QED BY <2>5, <3>2, <3>3, <3>4, <3>5, BroughtReceived
  <2>6. Side(z, e, f, to, left, log', store'[r], store'[End[l][y]])
    BY <1>1, <1>3, <1>5, MineTakes DEF d
  <2>7. FramesIn(Range(left), "manifest") \subseteq FramesIn(Range(Incoming(l, z)), "manifest")
    BY <1>3 DEF FramesIn
  <2>8. Side(y, f, e, left, to, log', store'[End[l][y]], store'[r])
    BY <1>1, <1>2, <1>5, <2>5, <2>7, PeerTakes DEF d
  <2> QED BY <1>5, <2>6, <2>8, StepSides
<1>6. CASE /\ Errors(r, batch) = {}
           /\ store' = [store EXCEPT ![r] = [w \in Row |-> Upto(r, w, batch, Len(batch) + 1)]]
           /\ Go(l, z, d, <<>>)
           /\ UNCHANGED <<log, catalog>>
  <2> HIDE DEF r
  <2>1. RowProofs!Next
    BY <1>1, <1>4, <1>6, BatchStep DEF Carried
  <2>2. ASSUME NEW c \in Range(batch), c.row \in Row
        PROVE  c.id \in Stored(log', store'[r][c.row])
    <3> DEFINE w == c.row
               t == Upto(r, w, batch, Len(batch) + 1)
    <3>1. store[r][w] \in StoredRow /\ store \in [Replica -> [Row -> StoredRow]]
      BY <1>1, <2>2, StoredFacts, SameRows DEF Carried, RowProofs!IInv, RowProofs!TypeOK
    <3>2. store'[r][w] = t /\ log' = log
      BY <1>1, <1>6, <2>2, <3>1
    <3>3. PICK j \in 1..Len(batch) : batch[j] = c
      BY <1>4 DEF Range
    <3>4. c.id \in Ids(w, batch, Len(batch) + 1)
      <4>1. Len(batch) + 1 - 1 = Len(batch)
        BY <1>4
      <4> QED BY <3>3, <4>1 DEF Ids
    <3>5. Stored(log, t) = Stored(log, store[r][w]) \cup Payloads(log, Ids(w, batch, Len(batch) + 1))
      BY <3>1, UptoFacts
    <3>6. c.id \in Payloads(log, Ids(w, batch, Len(batch) + 1))
      BY <3>4 DEF Payloads, Payload
    <3> HIDE DEF t
    <3> QED BY <3>2, <3>5, <3>6
  <2>3. GoOn(l, z, d, left, <<>>)
    BY <1>6 DEF Go, left
  <2> QED BY <1>5, <2>1, <2>2, <2>3
<1>7. CASE /\ Go(l, z, [d EXCEPT !.requests = @ \cup BatchRows(batch)], <<>>)
           /\ UNCHANGED engines
  <2> DEFINE e == [d EXCEPT !.requests = @ \cup BatchRows(batch)]
  <2>1. /\ e.pc = d.pc /\ e.units = d.units /\ e.changes = d.changes /\ e.remote = d.remote
        /\ e.outbound = d.outbound /\ e.requests = d.requests \cup BatchRows(batch)
    BY <1>1 DEF Endpoints
  <2>2. \A c \in Range(batch) : c.row \in BatchRows(batch)
    BY DEF Range, BatchRows
  <2>3. GoOn(l, z, e, left, <<>>)
    BY <1>7 DEF Go, left
  <2>4. [RowProofs!Next]_(RowProofs!vars)
    BY <1>7, EnginesStay
  <2> HIDE DEF e
  <2> QED BY <1>5, <2>1, <2>2, <2>3, <2>4
<1>8. CASE Stop(l, z, <<Abort>>) /\ UNCHANGED engines
  BY <1>8, StopSides
<1> QED BY <1>6, <1>7, <1>8 DEF ReceiveChanges, d, batch, left

-----------------------------------------------------------------------------
(* Requests and the end *)

\* What one frame of requests asks for.
LEMMA OneRequest ==
  ASSUME NEW rows
  PROVE  RequestsIn(Range(<<Message("requests", rows)>>)) = rows
<1> DEFINE m == Message("requests", rows)
<1>1. m.kind = "requests" /\ m.body = rows
  BY DEF Message
<1> HIDE DEF m
<1>2. Range(<<m>>) = {m}
  BY RangeOne
<1>3. RequestsIn({m}) = rows
  BY <1>1 DEF RequestsIn, FramesIn
<1> QED BY <1>2, <1>3 DEF m

\* The end of the peer's frames: the initiator asks for snapshots, the responder
\* sends what it has kept.
LEMMA DoneSides ==
  ASSUME Carried, Sides, NEW l \in Link, FinishOK(l), NEW z \in Role, ReceiveDone(l, z)
  PROVE  Sides'
<1> DEFINE d == end[l][z]
           y == Peer(z)
           f == end[l][y]
           e == [d EXCEPT !.pc = "requests", !.outbound = <<>>]
           m == Message("requests", d.requests)
           sent == IF z = "initiator" THEN <<m>> ELSE d.outbound
           left == Tail(Incoming(l, z))
<1>1. /\ Received(l, z, "done") /\ UNCHANGED engines /\ d.pc = "receive"
      /\ d \in Endpoints(GoodUnits, GoodChanges, GoodFrames)
  BY IncomingGood DEF ReceiveDone, At
<1>2. [RowProofs!Next]_(RowProofs!vars)
  BY <1>1, EnginesStay
<1>3. /\ e.pc = "requests" /\ e.units = d.units /\ e.changes = d.changes /\ e.remote = d.remote
      /\ e.outbound = <<>> /\ e.requests = d.requests
  BY <1>1 DEF Endpoints
<1>4. GoOn(l, z, e, left, sent)
  BY DEF ReceiveDone, Go
<1>5. /\ Range(left) \subseteq Range(Incoming(l, z))
      /\ UnitsIn(Range(Incoming(l, z))) \subseteq UnitsIn(Range(left))
      /\ ChangesIn(Range(Incoming(l, z))) \subseteq ChangesIn(Range(left))
      /\ RequestsIn(Range(Incoming(l, z))) \subseteq RequestsIn(Range(left))
  BY <1>1, TailBrings
<1>6. OutboundOK(z, d)
  BY DEF Sides, Side, ReadOK
<1>7. m \in GoodFrames
  BY <1>1 DEF Endpoints, Message, GoodFrames, FramesOf
<1>8. sent \in Seq(GoodFrames)
  <2>1. <<m>> \in Seq(GoodFrames) /\ d.outbound \in Seq(GoodFrames)
    BY <1>1, <1>7 DEF Endpoints
  <2> QED BY <2>1
<1>9. FramesIn(Range(sent), "manifest") = {}
  <2>1. FramesIn(Range(<<m>>), "manifest") = {}
    BY OneSent
  <2>2. FramesIn(Range(d.outbound), "manifest") = {}
    BY <1>6, NoneSent DEF OutboundOK
  <2> QED BY <2>1, <2>2
<1>10. Range(d.outbound) \subseteq Range(sent)
  BY <1>6, NoFrames DEF OutboundOK
<1>11. z = "initiator" => RequestsIn(Range(sent)) = d.requests
  BY OneRequest
<1> HIDE DEF e, m, sent, d, left
<1>12. Owes(e) = Owes(d)
  BY <1>3 DEF Owes, Due, SentChanges
<1>13. Side(z, e, f, Out(l, z, sent), left, log', store'[End[l][z]], store'[End[l][y]])
  <2>1. Range(d.outbound) \subseteq Range(e.outbound) \cup Range(sent)
    BY <1>10
  <2> QED BY <1>1, <1>2, <1>3, <1>5, <1>8, <1>9, <1>12, <2>1, MineQuiet DEF OutboundOK, Built, d
<1>14. f.pc \in Built => Wanted(z, d, wire[l][z]) \subseteq Wanted(z, e, Out(l, z, sent))
  <2> SUFFICES ASSUME f.pc \in Built, NEW w \in Wanted(z, d, wire[l][z])
               PROVE  w \in Wanted(z, e, Out(l, z, sent))
    OBVIOUS
  <2>1. d.pc \notin Ended /\ d.pc # "recovery"
    BY <1>1 DEF Ended
  <2>2. RequestsIn(Range(wire[l][z])) \cup RequestsIn(Range(sent)) \subseteq RequestsIn(Range(Out(l, z, sent)))
    BY <1>8, <2>1, PeerReceives DEF d
  <2>3. w \in RequestsIn(Range(wire[l][z])) \cup d.requests
    BY <1>1 DEF Wanted
  <2>4. CASE z = "initiator"
    BY <1>11, <2>2, <2>3, <2>4 DEF Wanted
  <2>5. CASE z = "responder"
    BY <1>3, <2>2, <2>3, <2>5 DEF Wanted
  <2> QED BY <2>4, <2>5 DEF Role
<1>15. Side(y, f, e, left, Out(l, z, sent), log', store'[End[l][y]], store'[End[l][z]])
  <2>1. d.pc \notin Ended /\ e.pc # "ok"
    BY <1>1, <1>3 DEF Ended
  <2> QED BY <1>2, <1>5, <1>14, <2>1, PeerQuiet DEF d
<1> QED BY <1>2, <1>4, <1>13, <1>15, StepSides

\* The snapshots that were read are sent.
LEMMA RecoveryBrings ==
  ASSUME NEW e \in Endpoints(GoodUnits, GoodChanges, GoodFrames), EndpointOK(e)
  PROVE  LET F == Range(RecoveryFrames(e))
         IN  /\ \A u \in e.snapshots : u.key \in Row => u \in UnitsIn(F)
             /\ FramesIn(F, "manifest") = {}
<1> DEFINE units == e.snapshots
           U == Frames("state", UnitSeq(units))
           F == Range(RecoveryFrames(e))
<1>1. units \subseteq GoodUnits /\ IsFiniteSet(units)
  BY DEF Endpoints, EndpointOK
<1>2. RecoveryFrames(e) = U \o <<Done>>
  BY DEF RecoveryFrames
<1> HIDE DEF units
<1>3. UnitSeq(units) \in Seq(GoodUnits)
  BY <1>1, UnitSeqGood
<1>4. U \in Seq(GoodFrames)
  BY <1>3, FramesGood DEF GoodFrames
<1>5. \A u \in units : u.key \in Row => u \in UnitsIn(Range(U))
  BY <1>1, UnitFramesBring
<1>6. \A k \in DOMAIN U : U[k].kind = "state"
  BY DEF Frames, Message
<1> HIDE DEF U
<1>7. F = Range(U) \cup {Done}
  <2>1. Done \in GoodFrames
    BY DEF Done, Message, GoodFrames, FramesOf
  <2>2. Range(U \o <<Done>>) = Range(U) \cup {Done}
    BY <1>4, <2>1, RangeOneMore
  <2> QED BY <1>2, <2>2
<1> HIDE DEF F
<1>8. UnitsIn(Range(U)) \subseteq UnitsIn(F)
  BY <1>7 DEF UnitsIn, FramesIn
<1>9. \A m \in F : m.kind # "manifest"
  BY <1>6, <1>7 DEF Range, Done, Message
<1>10. FramesIn(F, "manifest") = {}
  BY <1>9 DEF FramesIn
<1> QED BY <1>5, <1>8, <1>10 DEF F, units

\* What is brought as a snapshot to be asked for is brought as the snapshot.
LEMMA BroughtAnswered ==
  ASSUME Carried, NEW r \in Replica, NEW q \in Replica, NEW o, o.key \in Row,
         HasIn(log, store[r][o.key], o.value),
         NEW units, NEW changes, NEW wanted,
         Brought(log, store[q][o.key], o, units, changes, wanted),
         NEW units2, \A u \in units : u.key = o.key => u \in units2,
         NEW changes2, changes \subseteq changes2, NEW wanted2,
         o.key \in wanted \ wanted2 /\ Exported(log, store[r][o.key]) => RowUnitOf(r, o.key) \in units2
  PROVE  Brought(log, store[q][o.key], o, units2, changes2, wanted2)
<1> DEFINE s == store[r][o.key]
           t == store[q][o.key]
           u == RowUnitOf(r, o.key)
<1>1. Grown(log, t, log, t)
  BY DEF Grown
<1>2. CASE o.key \in wanted2 \/ o.key \notin wanted
  <2> DEFINE mine == {v \in units : v.key = o.key}
  <2>1. Brought(log, t, o, mine, changes, wanted \cap wanted2)
    BY <1>2 DEF Brought
  <2>2. mine \subseteq units2 /\ wanted \cap wanted2 \subseteq wanted2
    OBVIOUS
  <2> HIDE DEF t, mine
  <2>3. Brought(log, t, o, units2, changes2, wanted2)
    BY <1>1, <2>1, <2>2, BroughtGrows
  <2> QED BY <2>3 DEF t
<1>3. CASE o.key \in wanted \ wanted2
  <2>1. Document(log, s) = IF s.deleted THEN {} ELSE Stored(log, s)
    BY DocumentFacts DEF Carried
  <2>2. u.key = o.key /\ u.value.state = Document(log, s) /\ u.value.deleted = s.deleted
    BY DEF RowUnitOf, UnitOf
  <2>3. s.deleted \/ (~o.value.deleted /\ o.value.state \subseteq Stored(log, s))
    BY DEF HasIn
  <2> HIDE DEF s, t, u
  <2>4. CASE Exported(log, s)
    <3>1. u \in units2
      BY <1>3, <2>4 DEF s, u
    <3>2. u.value.deleted \/ (~o.value.deleted /\ o.value.state \subseteq u.value.state)
      BY <2>1, <2>2, <2>3
    <3>3. Brought(log, t, o, units2, changes2, wanted2)
      BY <2>2, <3>1, <3>2 DEF Brought
    <3> QED BY <3>3 DEF t
  <2>5. CASE ~Exported(log, s)
    <3>1. ~o.value.deleted /\ o.value.state = {}
      BY <2>1, <2>3, <2>5 DEF Exported
    <3>2. Brought(log, t, o, units2, changes2, wanted2)
      BY <3>1 DEF Brought, HasIn
    <3> QED BY <3>2 DEF t
  <2> QED BY <2>4, <2>5
<1> QED BY <1>2, <1>3

\* The steps at which an end that has been asked for snapshots reads or sends them:
\* those it has read are kept or sent.
AnswerStep(l, z, e, left, sent, units) ==
  /\ GoOn(l, z, e, left, sent)
  /\ end[l][z].pc \in {"requests", "snapshots"} /\ e.pc \in {"snapshots", "recovery"}
  /\ e.units = end[l][z].units /\ e.changes = end[l][z].changes /\ e.remote = end[l][z].remote
  /\ OutboundOK(z, e) /\ FramesIn(Range(sent), "manifest") = {}
  /\ Range(left) \subseteq Range(Incoming(l, z))
  /\ UnitsIn(Range(Incoming(l, z))) \subseteq UnitsIn(Range(left))
  /\ ChangesIn(Range(Incoming(l, z))) \subseteq ChangesIn(Range(left))
  /\ end[l][z].pc = "requests" /\ z = "responder" =>
       end[l][z].requests \subseteq RequestsIn(Range(sent))
  /\ units = UnitsIn(Range(sent) \cup Range(e.outbound)) \cup Answered(e)
  /\ \A u \in Answered(end[l][z]) : u.key \in Row => u \in units
  /\ \A w \in Row :
       w \in RequestsIn(Range(Incoming(l, z))) \cup Asked(end[l][z]) =>
         \/ w \in RequestsIn(Range(left)) \cup Asked(e)
         \/ Exported(log, store[End[l][z]][w]) => RowUnitOf(End[l][z], w) \in units

\* A step of an end that answers requests: of a row that was asked for the snapshot
\* has still to be read, or has been read, or is sent.
LEMMA AnswerSides ==
  ASSUME Carried, Sides, UNCHANGED engines, NEW l \in Link, FinishOK(l), NEW z \in Role,
         NEW e, NEW left, NEW sent \in Seq(GoodFrames), NEW units,
         AnswerStep(l, z, e, left, sent, units)
  PROVE  Sides'
<1> USE DEF AnswerStep
<1> DEFINE r == End[l][z]
           d == end[l][z]
           y == Peer(z)
           q == End[l][y]
           f == end[l][y]
           to == Out(l, z, sent)
<1>1. [RowProofs!Next]_(RowProofs!vars) /\ UNCHANGED <<store, log>>
  BY EnginesStay DEF engines
<1>2. r \in Replica /\ q \in Replica /\ Incoming(l, z) = wire[l][y]
  BY LinkAssumption DEF Role, Peer, Incoming
<1>3. d.pc \notin Ended /\ d.pc # "recovery" /\ d.outbound = <<>>
  BY UnitsHeld DEF OutboundOK, Ended
<1>4. Side(z, d, f, wire[l][z], wire[l][y], log, store[r], store[q])
  BY DEF Sides
<1> HIDE DEF d
<1>5. Owes(e) = Owes(d)
  BY DEF Owes, Due, SentChanges, d
<1>6. ReadOK(z, e, to, log, store[r], store[q])
  <2>1. /\ Holds(log, store[r], d.units) /\ Keeps(log, store[r], d.changes) /\ Holds(log, store[q], d.remote)
        /\ \A n \in FramesIn(Range(wire[l][z]), "manifest") : Holds(log, store[r], n.body)
    BY <1>4 DEF Side, ReadOK
  <2>2. Range(to) \subseteq Range(wire[l][z]) \cup Range(sent)
    BY OutRange
  <2>3. FramesIn(Range(to), "manifest") \subseteq FramesIn(Range(wire[l][z]), "manifest")
    BY <2>2 DEF FramesIn
  <2> QED BY <2>1, <2>3 DEF ReadOK, d
<1>7. f.pc = "ok" => Holds(log, store[q], Owes(e))
  BY <1>4, <1>5 DEF Side, Delivers, Built, d
<1>8. ASSUME f.pc \notin Ended, NEW o \in Owes(e)
      PROVE  Brought(log, store[q][o.key], o, UnitsIn(Pending(e, to)) \cup Answered(e),
                     ChangesIn(Pending(e, to)), Wanted(y, f, left) \cup Asked(e))
  <2>1. Brought(log, store[q][o.key], o, UnitsIn(Pending(d, wire[l][z])) \cup Answered(d),
                ChangesIn(Pending(d, wire[l][z])), Wanted(y, f, wire[l][y]) \cup Asked(d))
    BY <1>4, <1>5, <1>8 DEF Side, Delivers, Built, d
  <2>2. o.key \in Row /\ HasIn(log, store[r][o.key], o.value)
    <3>1. Holds(log, store[r], Owes(e))
      BY <1>6, OwesHeld DEF ReadOK
    <3>2. o.key \in Row
      BY DEF Owes
    <3> QED BY <3>1, <3>2 DEF Holds
  <2>3. Range(to) = Range(wire[l][z]) \cup Range(sent)
    BY <1>8, OutRange
  <2>4. /\ Pending(d, wire[l][z]) \subseteq Pending(e, to)
        /\ Range(sent) \cup Range(e.outbound) \subseteq Pending(e, to)
    BY <1>3, <2>3, NoFrames DEF Pending
  <2>5. /\ UnitsIn(Pending(d, wire[l][z])) \subseteq UnitsIn(Pending(e, to))
        /\ ChangesIn(Pending(d, wire[l][z])) \subseteq ChangesIn(Pending(e, to))
        /\ units \subseteq UnitsIn(Pending(e, to)) \cup Answered(e)
    BY <2>4 DEF UnitsIn, ChangesIn, FramesIn
  <2> DEFINE wanted == Wanted(y, f, wire[l][y]) \cup Asked(d)
             wanted2 == Wanted(y, f, left) \cup Asked(e)
             had == UnitsIn(Pending(d, wire[l][z])) \cup Answered(d)
             has == UnitsIn(Pending(e, to)) \cup Answered(e)
  <2>6. \A u \in had : u.key = o.key => u \in has
    BY <2>2, <2>5 DEF d
  <2>7. o.key \in wanted \ wanted2 /\ Exported(log, store[r][o.key]) => RowUnitOf(r, o.key) \in has
    <3> SUFFICES ASSUME o.key \in wanted \ wanted2, Exported(log, store[r][o.key])
                 PROVE  RowUnitOf(r, o.key) \in has
      OBVIOUS
    <3>1. o.key \in RequestsIn(Range(Incoming(l, z))) \cup Asked(d)
      BY <1>2 DEF Wanted
    <3>2. o.key \notin RequestsIn(Range(left)) \cup Asked(e)
      BY DEF Wanted
    <3>3. RowUnitOf(r, o.key) \in units
      BY <2>2, <3>1, <3>2 DEF d
    <3> QED BY <2>5, <3>3
  <2> DEFINE changes == ChangesIn(Pending(d, wire[l][z]))
             changes2 == ChangesIn(Pending(e, to))
  <2>8. changes \subseteq changes2 /\ Brought(log, store[q][o.key], o, had, changes, wanted)
    BY <2>1, <2>5
  <2> HIDE DEF wanted, wanted2, had, has, changes, changes2, q, r, AnswerStep
  <2>9. Brought(log, store[q][o.key], o, has, changes2, wanted2)
    BY <1>2, <2>2, <2>6, <2>7, <2>8, BroughtAnswered
  <2> QED BY <2>9 DEF wanted2, has, changes2
<1>9. Side(z, e, f, to, left, log', store'[r], store'[q])
  <2>1. Side(z, e, f, to, left, log, store[r], store[q])
    BY <1>6, <1>7, <1>8 DEF Side, Delivers
  <2> QED BY <1>1, <2>1
<1>10. f.pc \in Built => Wanted(z, d, wire[l][z]) \subseteq Wanted(z, e, to)
  <2> SUFFICES ASSUME f.pc \in Built, NEW w \in Wanted(z, d, wire[l][z])
               PROVE  w \in Wanted(z, e, to)
    OBVIOUS
  <2>1. RequestsIn(Range(wire[l][z])) \cup RequestsIn(Range(sent)) \subseteq RequestsIn(Range(to))
    BY <1>3, PeerReceives DEF d
  <2>2. \/ w \in RequestsIn(Range(wire[l][z]))
        \/ z = "responder" /\ d.pc = "requests" /\ w \in d.requests
    BY DEF Wanted, d
  <2> QED BY <2>1, <2>2 DEF Wanted, d
<1>11. Side(y, f, e, left, to, log', store'[q], store'[r])
  BY <1>1, <1>3, <1>10, PeerQuiet DEF d
<1> QED BY <1>1, <1>9, <1>11, StepSides

\* The same, of the reading itself, before it is known whether it is the last.
SnapStep(l, z, e, left, sent) ==
  /\ end[l][z].pc \in {"requests", "snapshots"}
  /\ EndpointOK(e) /\ e.pc = "snapshots" /\ e.outbound = <<>>
  /\ e.units = end[l][z].units /\ e.changes = end[l][z].changes /\ e.remote = end[l][z].remote
  /\ Snapped(l, z, e, left, sent)
  /\ FramesIn(Range(sent), "manifest") = {}
  /\ Range(left) \subseteq Range(Incoming(l, z))
  /\ UnitsIn(Range(Incoming(l, z))) \subseteq UnitsIn(Range(left))
  /\ ChangesIn(Range(Incoming(l, z))) \subseteq ChangesIn(Range(left))
  /\ end[l][z].pc = "requests" /\ z = "responder" =>
       end[l][z].requests \subseteq RequestsIn(Range(sent))
  /\ Answered(end[l][z]) \subseteq e.snapshots
  /\ \A w \in Row :
       w \in RequestsIn(Range(Incoming(l, z))) \cup Asked(end[l][z]) =>
         \/ w \in RequestsIn(Range(left)) \cup e.unread
         \/ Exported(log, store[End[l][z]][w]) => RowUnitOf(End[l][z], w) \in e.snapshots

\* A reading of the snapshots that were asked for, which may be the last.
LEMMA SnappedSides ==
  ASSUME Carried, Sides, UNCHANGED engines, NEW l \in Link, FinishOK(l), NEW z \in Role,
         NEW e \in Endpoints(GoodUnits, GoodChanges, GoodFrames),
         NEW left, NEW sent \in Seq(GoodFrames), SnapStep(l, z, e, left, sent)
  PROVE  Sides'
<1> USE DEF SnapStep
<1> DEFINE r == End[l][z]
           d == end[l][z]
           next == [e EXCEPT !.pc = "recovery", !.snapshots = {}]
           frames == RecoveryFrames(e)
           kept == [next EXCEPT !.outbound = frames]
<1>1. /\ next.pc = "recovery" /\ next.units = e.units /\ next.changes = e.changes
      /\ next.remote = e.remote /\ next.outbound = <<>>
  BY DEF Endpoints
<1>2. /\ kept.pc = "recovery" /\ kept.units = e.units /\ kept.changes = e.changes
      /\ kept.remote = e.remote /\ kept.outbound = frames
  BY DEF Endpoints
<1>3. /\ frames \in Seq(GoodFrames) /\ FramesIn(Range(frames), "manifest") = {}
      /\ \A u \in e.snapshots : u.key \in Row => u \in UnitsIn(Range(frames))
  BY RecoveryGood, RecoveryBrings
<1>4. \/ GoOn(l, z, e, left, sent)
      \/ e.unread = {} /\ GoOn(l, z, next, left, sent \o frames)
      \/ e.unread = {} /\ z = "responder" /\ GoOn(l, z, kept, left, sent)
  BY DEF Snapped, ReadOn, Role
<1> HIDE DEF next, frames, kept, d
<1>5. CASE GoOn(l, z, e, left, sent)
  <2> DEFINE units == UnitsIn(Range(sent) \cup Range(e.outbound)) \cup Answered(e)
  <2>1. e.snapshots \subseteq units /\ Asked(e) = e.unread /\ OutboundOK(z, e)
    BY DEF Answered, Asked, OutboundOK
  <2>2. units = UnitsIn(Range(sent) \cup Range(e.outbound)) \cup Answered(e)
    OBVIOUS
  <2> HIDE DEF units
  <2>3. e.pc \in {"snapshots", "recovery"}
    OBVIOUS
  <2>4. \A u \in Answered(end[l][z]) : u.key \in Row => u \in units
    BY <2>1
  <2>5. \A w \in Row :
           w \in RequestsIn(Range(Incoming(l, z))) \cup Asked(end[l][z]) =>
             \/ w \in RequestsIn(Range(left)) \cup Asked(e)
             \/ Exported(log, store[End[l][z]][w]) => RowUnitOf(End[l][z], w) \in units
    BY <2>1 DEF r
  <2>6. AnswerStep(l, z, e, left, sent, units)
    BY <1>5, <2>1, <2>2, <2>3, <2>4, <2>5 DEF AnswerStep
  <2> HIDE DEF SnapStep
  <2> QED BY <2>6, AnswerSides
<1>6. ASSUME NEW last, NEW out \in Seq(GoodFrames), GoOn(l, z, last, left, out), e.unread = {},
             last.pc = "recovery", last.units = e.units, last.changes = e.changes,
             last.remote = e.remote, OutboundOK(z, last),
             FramesIn(Range(out), "manifest") = {}, Range(sent) \subseteq Range(out),
             Range(frames) \subseteq Range(out) \cup Range(last.outbound)
      PROVE  Sides'
  <2> DEFINE units == UnitsIn(Range(out) \cup Range(last.outbound)) \cup Answered(last)
  <2>1. UnitsIn(Range(frames)) \subseteq units /\ RequestsIn(Range(sent)) \subseteq RequestsIn(Range(out))
    BY <1>6 DEF UnitsIn, RequestsIn, FramesIn
  <2>2. \A u \in e.snapshots : u.key \in Row => u \in units
    BY <1>3, <2>1
  <2>3. units = UnitsIn(Range(out) \cup Range(last.outbound)) \cup Answered(last)
    OBVIOUS
  <2> HIDE DEF units
  <2>4. \A w \in Row :
           w \in RequestsIn(Range(Incoming(l, z))) \cup Asked(end[l][z]) =>
             \/ w \in RequestsIn(Range(left)) \cup Asked(last)
             \/ Exported(log, store[End[l][z]][w]) => RowUnitOf(End[l][z], w) \in units
    BY <1>6, <2>2 DEF RowUnitOf
  <2>5. \A u \in Answered(end[l][z]) : u.key \in Row => u \in units
    BY <2>2
  <2>6. /\ end[l][z].pc = "requests" /\ z = "responder" =>
           end[l][z].requests \subseteq RequestsIn(Range(out))
        /\ last.pc \in {"snapshots", "recovery"}
        /\ last.units = end[l][z].units /\ last.changes = end[l][z].changes /\ last.remote = end[l][z].remote
    BY <1>6, <2>1
  <2>7. AnswerStep(l, z, last, left, out, units)
    BY <1>6, <2>3, <2>4, <2>5, <2>6 DEF AnswerStep
  <2> HIDE DEF SnapStep
  <2> QED BY <1>6, <2>7, AnswerSides
<1>7. CASE e.unread = {} /\ GoOn(l, z, next, left, sent \o frames)
  <2> DEFINE out == sent \o frames
  <2>1. out \in Seq(GoodFrames) /\ Range(out) = Range(sent) \cup Range(frames)
    BY <1>3, ConcatProperties, RangeConcatenation
  <2>2. FramesIn(Range(out), "manifest") = {}
    BY <1>3, <2>1 DEF FramesIn
  <2> HIDE DEF out
  <2>3. GoOn(l, z, next, left, out)
    BY <1>7 DEF out
  <2> QED BY <1>1, <1>6, <1>7, <2>1, <2>2, <2>3 DEF OutboundOK
<1>8. CASE e.unread = {} /\ z = "responder" /\ GoOn(l, z, kept, left, sent)
  BY <1>2, <1>3, <1>6, <1>8 DEF OutboundOK
<1> QED BY <1>4, <1>5, <1>7, <1>8

\* What the peer asks for has still to be read.
LEMMA RequestsSides ==
  ASSUME Inv, Carried, Sides, NEW l \in Link, FinishOK(l), NEW z \in Role, ReceiveRequests(l, z)
  PROVE  Sides'
<1> DEFINE d == end[l][z]
           e == [d EXCEPT !.pc = "snapshots", !.unread = Body(l, z), !.requests = {}]
           left == Tail(Incoming(l, z))
           m == Message("requests", d.requests)
           sent == IF z = "responder" THEN <<m>> ELSE <<>>
<1>1. /\ Received(l, z, "requests") /\ UNCHANGED engines /\ d.pc = "requests"
      /\ d \in Endpoints(GoodUnits, GoodChanges, GoodFrames)
  BY IncomingGood DEF ReceiveRequests, At
<1>2. Body(l, z) \subseteq Row
  BY <1>1, ReceivedGood
<1>3. /\ e \in Endpoints(GoodUnits, GoodChanges, GoodFrames)
      /\ e.pc = "snapshots" /\ e.units = d.units /\ e.changes = d.changes /\ e.remote = d.remote
      /\ e.outbound = d.outbound /\ e.unread = Body(l, z)
  BY <1>1, <1>2 DEF Endpoints
<1>4. EndpointOK(e)
  <2>1. EndpointOK(d)
    BY DEF Inv, LinkOK
  <2> QED BY <2>1 DEF EndpointOK
<1>5. m \in GoodFrames
  BY <1>1 DEF Endpoints, Message, GoodFrames, FramesOf
<1>6. /\ sent \in Seq(GoodFrames) /\ FramesIn(Range(sent), "manifest") = {}
      /\ z = "responder" => d.requests \subseteq RequestsIn(Range(sent))
  <2>1. <<m>> \in Seq(GoodFrames)
    BY <1>5
  <2>2. FramesIn(Range(<<m>>), "manifest") = {} /\ RequestsIn(Range(<<m>>)) = d.requests
    BY OneSent, OneRequest
  <2> QED BY <2>1, <2>2, NoneSent
<1>7. /\ Range(left) \subseteq Range(Incoming(l, z))
      /\ UnitsIn(Range(Incoming(l, z))) \subseteq UnitsIn(Range(left))
      /\ ChangesIn(Range(Incoming(l, z))) \subseteq ChangesIn(Range(left))
      /\ RequestsIn(Range(Incoming(l, z))) \subseteq RequestsIn(Range(left)) \cup Body(l, z)
  BY <1>1, TailBrings
<1>8. d.outbound = <<>> /\ Answered(d) = {} /\ Asked(d) = {}
  BY <1>1, UnitsHeld DEF OutboundOK, Answered, Asked
<1>9. Snapped(l, z, e, left, sent)
  BY DEF ReceiveRequests
<1> HIDE DEF e, left, sent, m
<1>10. SnapStep(l, z, e, left, sent)
  BY <1>1, <1>3, <1>4, <1>6, <1>7, <1>8, <1>9 DEF SnapStep
<1> QED BY <1>1, <1>3, <1>6, <1>10, SnappedSides

\* A snapshot has all that its replica owes of the row.
LEMMA ReadSnapshotSides ==
  ASSUME Inv, Carried, Sides, NEW l \in Link, FinishOK(l), NEW z \in Role, ReadSnapshot(l, z)
  PROVE  Sides'
<1> DEFINE r == End[l][z]
           d == end[l][z]
           left == Incoming(l, z)
<1>1. /\ r \in Replica /\ d \in Endpoints(GoodUnits, GoodChanges, GoodFrames)
      /\ d.pc = "snapshots" /\ UNCHANGED engines
  BY IncomingGood DEF ReadSnapshot, At
<1>2. PICK w \in d.unread :
        Snapped(l, z, [d EXCEPT !.unread = @ \ {w}, !.snapshots = @ \cup Snapshot(r, w)], left, <<>>)
  BY DEF ReadSnapshot
<1> DEFINE S == Snapshot(r, w)
           e == [d EXCEPT !.unread = @ \ {w}, !.snapshots = @ \cup S]
<1>3. w \in Row
  BY <1>1 DEF Endpoints
<1>4. S \subseteq GoodUnits /\ (Exported(log, store[r][w]) => RowUnitOf(r, w) \in S)
  <2>1. S \subseteq GoodUnits
    BY <1>1, <1>3, SnapshotGood DEF Carried
  <2> QED BY <2>1 DEF Snapshot
<1>5. IsFiniteSet(S)
  <2>1. S \subseteq {RowUnitOf(r, w)}
    BY DEF Snapshot
  <2> QED BY <2>1, FS_Singleton, FinitePart
<1>6. Snapped(l, z, e, left, <<>>)
  BY <1>2
<1>7. EndpointOK(d)
  BY DEF Inv, LinkOK
<1> HIDE DEF S
<1>8. IsFiniteSet(d.snapshots \cup S)
  BY <1>5, <1>7, FS_Union DEF EndpointOK
<1>9. EndpointOK(e)
  BY <1>7, <1>8 DEF EndpointOK
<1>10. /\ e \in Endpoints(GoodUnits, GoodChanges, GoodFrames)
       /\ e.pc = "snapshots" /\ e.units = d.units /\ e.changes = d.changes /\ e.remote = d.remote
       /\ e.outbound = d.outbound /\ e.unread = d.unread \ {w} /\ e.snapshots = d.snapshots \cup S
  BY <1>1, <1>4 DEF Endpoints
<1>11. d.outbound = <<>> /\ Answered(d) = d.snapshots /\ Asked(d) = d.unread
  BY <1>1, UnitsHeld DEF OutboundOK, Answered, Asked
<1>12. left = Incoming(l, z)
  OBVIOUS
<1> HIDE DEF e, left, d
<1>13. \A v \in Row :
         v \in RequestsIn(Range(left)) \cup Asked(d) =>
           \/ v \in RequestsIn(Range(left)) \cup e.unread
           \/ Exported(log, store[r][v]) => RowUnitOf(r, v) \in e.snapshots
  BY <1>4, <1>10, <1>11
<1>14. SnapStep(l, z, e, left, <<>>)
  BY <1>1, <1>6, <1>9, <1>10, <1>11, <1>12, <1>13, NoneSent DEF d, SnapStep
<1> QED BY <1>1, <1>10, <1>14, NoneSent, SnappedSides

\* An end that receives the last of its peer's frames while the peer has not failed:
\* either both are about to finish, the responder first, or the responder has.
LEMMA LastFrames ==
  ASSUME Inv, NEW l \in Link, FinishOK(l), NEW z \in Role, ReceiveRecovered(l, z),
         end[l][Peer(z)].pc \in Built
  PROVE  /\ wire[l][z] = <<>> /\ Stream(Incoming(l, z))
         /\ z = "responder" => end[l][Peer(z)].pc = "recovery"
         /\ z = "initiator" => end[l][Peer(z)].pc = "ok"
<1> DEFINE i == end[l]["initiator"]
           r == end[l]["responder"]
           fromI == wire[l]["initiator"]
           fromR == wire[l]["responder"]
<1>1. end[l][z].pc = "recovery" /\ end[l][z].pc \notin Ended /\ Incoming(l, z) # <<>>
  BY DEF ReceiveRecovered, At, Received, Ended
<1>2. \/ \E x \in Role : end[l][x].pc \in Ended
      \/ Lockstep(i, r, fromI, fromR)
  BY DEF Inv, LinkOK
<1>3. Finishing(i, r, fromI, fromR)
  BY DEF FinishOK
<1>4. CASE z = "initiator"
  <2>1. /\ i.pc = "recovery" /\ i.pc \notin Ended /\ fromR # <<>> /\ r.pc \in Built
        /\ Incoming(l, z) = fromR /\ end[l][Peer(z)] = r
    BY <1>1, <1>4 DEF Incoming, Peer
  <2> HIDE DEF i, r, fromI, fromR
  <2>2. ~Lockstep(i, r, fromI, fromR)
    BY <2>1 DEF Lockstep, Reading, Building, AnswerStep
  <2>3. r.pc \in Ended
    BY <1>2, <2>1, <2>2 DEF Role, i, r
  <2>4. r.pc = "ok"
    BY <2>1, <2>3 DEF Built, Ended
  <2>5. fromI = <<>> /\ Stream(fromR)
    BY <1>3, <2>1, <2>4 DEF Finishing
  <2> QED BY <1>4, <2>1, <2>4, <2>5 DEF fromI, fromR
<1>5. CASE z = "responder"
  <2>1. /\ r.pc = "recovery" /\ r.pc \notin Ended /\ fromI # <<>> /\ i.pc \in Built
        /\ Incoming(l, z) = fromI /\ end[l][Peer(z)] = i
    BY <1>1, <1>5 DEF Incoming, Peer
  <2> HIDE DEF i, r, fromI, fromR
  <2>2. i.pc # "ok"
    BY <1>3, <2>1 DEF Finishing
  <2>3. i.pc \notin Ended
    BY <2>1, <2>2 DEF Built, Ended
  <2>4. Lockstep(i, r, fromI, fromR)
    BY <1>2, <2>1, <2>3 DEF Role, i, r
  <2>5. i.pc = "recovery" /\ Stream(fromI) /\ fromR = <<>>
    BY <2>1, <2>4 DEF Lockstep, Reading, Building, AnswerStep
  <2> QED BY <1>5, <2>1, <2>5 DEF fromI, fromR
<1> QED BY <1>4, <1>5 DEF Role

\* An end succeeds when all that its peer owed has arrived, and sends the snapshots
\* it still keeps.
LEMMA RecoveredSides ==
  ASSUME Inv, Carried, Sides, NEW l \in Link, FinishOK(l), NEW z \in Role, ReceiveRecovered(l, z)
  PROVE  Sides'
<1> DEFINE r == End[l][z]
           d == end[l][z]
           y == Peer(z)
           q == End[l][y]
           f == end[l][y]
           e == [d EXCEPT !.pc = "ok", !.outbound = <<>>]
           sent == d.outbound
           left == Tail(Incoming(l, z))
           to == Out(l, z, sent)
<1>1. /\ Received(l, z, "done") /\ UNCHANGED engines /\ d.pc = "recovery"
      /\ d \in Endpoints(GoodUnits, GoodChanges, GoodFrames)
  BY IncomingGood DEF ReceiveRecovered, At
<1>2. [RowProofs!Next]_(RowProofs!vars) /\ UNCHANGED <<store, log>>
  BY <1>1, EnginesStay DEF engines
<1>3. /\ e.pc = "ok" /\ e.units = d.units /\ e.changes = d.changes /\ e.remote = d.remote
      /\ e.outbound = <<>>
  BY <1>1 DEF Endpoints
<1>4. GoOn(l, z, e, left, sent)
  BY DEF ReceiveRecovered, Go
<1>5. /\ Range(left) \subseteq Range(Incoming(l, z))
      /\ UnitsIn(Range(Incoming(l, z))) \subseteq UnitsIn(Range(left))
      /\ ChangesIn(Range(Incoming(l, z))) \subseteq ChangesIn(Range(left))
      /\ RequestsIn(Range(Incoming(l, z))) \subseteq RequestsIn(Range(left))
  BY <1>1, TailBrings
<1>6. sent \in Seq(GoodFrames) /\ FramesIn(Range(sent), "manifest") = {}
  <2>1. OutboundOK(z, d)
    BY DEF Sides, Side, ReadOK
  <2> QED BY <1>1, <2>1, NoneSent DEF OutboundOK, Endpoints
<1>7. y \in Role /\ Peer(y) = z /\ Incoming(l, z) = wire[l][y]
  BY DEF Role, Peer, Incoming
<1>8. Side(z, e, f, to, left, log', store'[r], store'[q])
  <2>1. Owes(e) = Owes(d)
    BY <1>3 DEF Owes, Due, SentChanges
  <2> HIDE DEF e, left, to
  <2> QED BY <1>1, <1>2, <1>3, <1>5, <1>6, <2>1, MineQuiet DEF OutboundOK, Built, to
<1>9. Side(y, f, d, wire[l][y], wire[l][z], log, store[q], store[r])
  BY <1>7 DEF Sides
<1> HIDE DEF e, left, to, sent
<1>10. ReadOK(y, f, left, log, store[q], store[r])
  <2>1. FramesIn(Range(left), "manifest") \subseteq FramesIn(Range(wire[l][y]), "manifest")
    BY <1>5, <1>7 DEF FramesIn
  <2> QED BY <1>9, <2>1 DEF Side, ReadOK
<1>11. ASSUME f.pc \in Built
       PROVE  Holds(log, store[r], Owes(f))
  <2>1. /\ wire[l][z] = <<>> /\ Stream(Incoming(l, z))
        /\ z = "responder" => f.pc = "recovery"
        /\ z = "initiator" => f.pc = "ok"
    BY <1>11, LastFrames
  <2>2. left = <<>>
    BY <1>1, <2>1, StreamTail DEF left, Received
  <2>3. UnitsIn(Range(wire[l][y])) = {} /\ ChangesIn(Range(wire[l][y])) = {}
    BY <1>5, <1>7, <2>2, NoFrames
  <2>4. f.outbound = <<>>
    BY <1>10, <2>1 DEF ReadOK, OutboundOK, Role, Peer
  <2>5. UnitsIn(Pending(f, wire[l][y])) = {} /\ ChangesIn(Pending(f, wire[l][y])) = {}
    <3>1. Pending(f, wire[l][y]) = Range(wire[l][y])
      BY <2>4, NoFrames DEF Pending
    <3> QED BY <2>3, <3>1
  <2>6. Wanted(z, d, wire[l][z]) = {} /\ Answered(f) = {} /\ Asked(f) = {}
    BY <1>1, <2>1, NoFrames DEF Wanted, Answered, Asked, Role
  <2>7. ASSUME NEW o \in Owes(f)
        PROVE  HasIn(log, store[r][o.key], o.value)
    <3>1. Brought(log, store[r][o.key], o, {}, {}, {})
      BY <1>1, <1>7, <1>9, <1>11, <2>5, <2>6, <2>7 DEF Side, Delivers, Ended
    <3> QED BY <3>1 DEF Brought, HasIn
  <2> QED BY <2>7 DEF Holds
<1>12. Side(y, f, e, left, to, log', store'[q], store'[r])
  <2>1. Side(y, f, e, left, to, log, store[q], store[r])
    BY <1>3, <1>10, <1>11 DEF Side, Delivers, Ended
  <2> QED BY <1>2, <2>1
<1> QED BY <1>2, <1>4, <1>6, <1>8, <1>12, StepSides DEF to, sent

-----------------------------------------------------------------------------
(* The other steps *)

\* A step that no session takes.
LEMMA QuietSides ==
  ASSUME Carried, Sides, [RowProofs!Next]_(RowProofs!vars), UNCHANGED <<end, wire>>
  PROVE  Sides'
<1>1. \A q \in Replica : RowsGrown(log, store[q], log', store'[q])
  BY RowsGrow
<1> SUFFICES ASSUME NEW k \in Link, NEW x \in Role
             PROVE  Side(x, end[k][x], end[k][Peer(x)], wire[k][x], wire[k][Peer(x)], log',
                         store'[End[k][x]], store'[End[k][Peer(x)]])
  BY DEF Sides
<1>2. End[k][x] \in Replica /\ End[k][Peer(x)] \in Replica
  BY LinkAssumption DEF Role, Peer
<1>3. /\ RowsGrown(log, store[End[k][x]], log', store'[End[k][x]])
      /\ RowsGrown(log, store[End[k][Peer(x)]], log', store'[End[k][Peer(x)]])
  BY <1>1, <1>2
<1>4. Side(x, end[k][x], end[k][Peer(x)], wire[k][x], wire[k][Peer(x)], log,
           store[End[k][x]], store[End[k][Peer(x)]])
  BY DEF Sides
<1> QED BY <1>3, <1>4, SideStays

\* A session that starts owes nothing yet.
LEMMA OpenSides ==
  ASSUME Carried, Sides, NEW l \in Link, Open(l)
  PROVE  Sides'
<1> DEFINE e == [Idle EXCEPT !.pc = "hello"]
<1>1. /\ end' = [end EXCEPT ![l] = [role \in Role |-> e]]
      /\ wire' = [wire EXCEPT ![l] = [role \in Role |-> IF role = "initiator" THEN <<Hello(End[l][role])>> ELSE <<>>]]
      /\ UNCHANGED <<store, log>>
  BY DEF Open, engines
<1>2. /\ e.pc = "hello" /\ e.units = {} /\ e.remote = {} /\ e.changes = {} /\ e.outbound = <<>>
  BY DEF Idle
<1> HIDE DEF e
<1>3. /\ end \in [Link -> [Role -> Endpoints(GoodUnits, GoodChanges, GoodFrames)]]
      /\ wire \in [Link -> [Role -> Seq(GoodFrames)]]
  BY DEF Carried
<1>4. /\ \A k \in Link \ {l} : end'[k] = end[k] /\ wire'[k] = wire[k]
      /\ \A x \in Role : end'[l][x] = e /\ wire'[l][x] \in {<<Hello(End[l][x])>>, <<>>}
  BY <1>1, <1>3
<1> SUFFICES ASSUME NEW k \in Link, NEW x \in Role
             PROVE  Side(x, end'[k][x], end'[k][Peer(x)], wire'[k][x], wire'[k][Peer(x)], log,
                         store[End[k][x]], store[End[k][Peer(x)]])
  BY <1>1 DEF Sides
<1>5. CASE k # l
  BY <1>4, <1>5 DEF Sides
<1>6. CASE k = l
  <2>1. Owes(e) = {}
    BY <1>2 DEF Owes
  <2>2. FramesIn(Range(wire'[l][x]), "manifest") = {}
    <3>1. FramesIn(Range(<<Hello(End[l][x])>>), "manifest") = {}
      BY OneSent DEF Hello
    <3> QED BY <1>4, <3>1, NoneSent
  <2>3. Side(x, e, end'[l][Peer(x)], wire'[l][x], wire'[l][Peer(x)], log,
             store[End[l][x]], store[End[l][Peer(x)]])
    BY <1>2, <2>1, <2>2 DEF Side, ReadOK, Delivers, OutboundOK, Holds, Keeps, Built
  <2> QED BY <1>4, <1>6, <2>3
<1> QED BY <1>5, <1>6

\* Every step of sessions and engines.
LEMMA SidesStep ==
  ASSUME Inv, Carried, Delivery, [Next]_vars
  PROVE  Sides'
<1>1. Sides /\ \A l \in Link : FinishOK(l)
  BY DEF Delivery
<1>2. CASE UNCHANGED vars \/ Ddl
  BY <1>1, <1>2, QuietSides DEF vars, Ddl, sessions, RowProofs!vars
<1>3. CASE Statement
  BY <1>1, <1>3, StatementCarried, QuietSides DEF Statement, sessions
<1>4. ASSUME NEW l \in Link, Open(l)
      PROVE  Sides'
  BY <1>1, <1>4, OpenSides
<1>5. ASSUME NEW l \in Link, NEW z \in Role, ReceiveOther(l, z) \/ Disconnected(l, z) \/ Fail(l, z)
      PROVE  Sides'
  BY <1>1, <1>5, StopSides DEF ReceiveOther, Disconnected, Fail
<1>6. ASSUME NEW l \in Link, NEW z \in Role, Proceed(l, z)
      PROVE  Sides'
  BY <1>1, <1>5, <1>6, HelloSides, ManifestSides, ReadRowsSides, ReadInventorySides, InventorySides,
     ExportSides, UnitSides, ChangesSides, DoneSides, RequestsSides, ReadSnapshotSides,
     RecoveredSides DEF Proceed
<1> QED BY <1>2, <1>3, <1>4, <1>5, <1>6 DEF Next

-----------------------------------------------------------------------------
(* Who finishes first *)

\* A step of an end that does not succeed by it.
LEMMA GoOnFinish ==
  ASSUME Carried, NEW l \in Link, NEW z \in Role, NEW e, NEW left, NEW sent,
         GoOn(l, z, e, left, sent), \A k \in Link : FinishOK(k), end[l][z].pc \notin Ended,
         \/ e.pc = "failed"
         \/ /\ e.pc \notin Ended
            /\ end[l][z].pc = "recovery" /\ Stream(Incoming(l, z)) => e.pc = "recovery" /\ Stream(left)
  PROVE  \A k \in Link : FinishOK(k)'
<1>1. /\ \A k \in Link \ {l} : end'[k] = end[k] /\ wire'[k] = wire[k]
      /\ end'[l][z] = e /\ end'[l][Peer(z)] = end[l][Peer(z)]
      /\ wire'[l][z] = Out(l, z, sent) /\ wire'[l][Peer(z)] = left
  BY GoOnLink
<1>2. \A k \in Link \ {l} : FinishOK(k)'
  BY <1>1 DEF FinishOK
<1>3. Finishing(end[l]["initiator"], end[l]["responder"], wire[l]["initiator"], wire[l]["responder"])
  BY DEF FinishOK
<1>4. e.pc # "ok"
  BY DEF Ended
<1>5. CASE z = "initiator"
  <2>1. /\ end'[l]["initiator"] = e /\ end'[l]["responder"] = end[l]["responder"]
        /\ wire'[l]["initiator"] = Out(l, z, sent) /\ wire'[l]["responder"] = left
        /\ Incoming(l, z) = wire[l]["responder"] /\ Peer(z) = "responder"
    BY <1>1, <1>5 DEF Peer, Incoming
  <2>2. ASSUME end[l]["responder"].pc = "ok", e.pc \notin Ended
        PROVE  e.pc = "recovery" /\ Out(l, z, sent) = <<>> /\ Stream(left)
    <3>1. end[l]["initiator"].pc = "recovery" /\ Stream(wire[l]["responder"])
      BY <1>3, <1>5, <2>2 DEF Finishing
    <3>2. e.pc = "recovery" /\ Stream(left)
      BY <1>5, <2>1, <2>2, <3>1 DEF Ended
    <3>3. Out(l, z, sent) = <<>>
      BY <2>1, <2>2 DEF Out, Ended
    <3> QED BY <3>2, <3>3
  <2> QED BY <1>2, <1>4, <2>1, <2>2 DEF FinishOK, Finishing
<1>6. CASE z = "responder"
  <2>1. end'[l]["responder"] = e /\ end'[l]["initiator"] = end[l]["initiator"]
    BY <1>1, <1>6 DEF Peer
  <2>2. end[l]["initiator"].pc # "ok"
    BY <1>3, <1>6 DEF Finishing
  <2> QED BY <1>2, <1>4, <2>1, <2>2 DEF FinishOK, Finishing
<1> QED BY <1>5, <1>6 DEF Role

\* The responder succeeds first, and leaves its snapshots to be received.
LEMMA RecoveredFinish ==
  ASSUME Inv, Carried, NEW l \in Link, \A k \in Link : FinishOK(k), NEW z \in Role,
         ReceiveRecovered(l, z)
  PROVE  \A k \in Link : FinishOK(k)'
<1> DEFINE d == end[l][z]
           e == [d EXCEPT !.pc = "ok", !.outbound = <<>>]
           left == Tail(Incoming(l, z))
           i == end[l]["initiator"]
           r == end[l]["responder"]
           fromI == wire[l]["initiator"]
           fromR == wire[l]["responder"]
<1>1. /\ d.pc = "recovery" /\ d.pc \notin Ended /\ Incoming(l, z) # <<>>
      /\ Head(Incoming(l, z)).kind = "done" /\ d \in Endpoints(GoodUnits, GoodChanges, GoodFrames)
  BY IncomingGood DEF ReceiveRecovered, At, Received, Ended
<1>2. e.pc = "ok" /\ e.pc \in Ended
  BY <1>1 DEF Endpoints, Ended
<1>3. GoOn(l, z, e, left, d.outbound)
  BY DEF ReceiveRecovered, Go
<1> HIDE DEF e, left
<1>4. /\ \A k \in Link \ {l} : end'[k] = end[k] /\ wire'[k] = wire[k]
      /\ end'[l][z] = e /\ end'[l][Peer(z)] = end[l][Peer(z)]
      /\ wire'[l][z] = Out(l, z, d.outbound) /\ wire'[l][Peer(z)] = left
  BY <1>3, GoOnLink
<1>5. \A k \in Link \ {l} : FinishOK(k)'
  BY <1>4 DEF FinishOK
<1>6. \/ \E x \in Role : end[l][x].pc \in Ended
      \/ Lockstep(i, r, fromI, fromR)
  BY DEF Inv, LinkOK
<1>7. CASE z = "initiator"
  <2>1. i.pc = "recovery" /\ i.pc \notin Ended /\ fromR # <<>>
    BY <1>1, <1>7 DEF Incoming, Peer
  <2>2. end'[l]["initiator"] = e /\ end'[l]["responder"] = r
    BY <1>4, <1>7 DEF Peer
  <2> HIDE DEF i, r, fromI, fromR
  <2>3. ~Lockstep(i, r, fromI, fromR)
    BY <2>1 DEF Lockstep, Reading, Building, AnswerStep
  <2>4. r.pc \in Ended
    BY <1>6, <2>1, <2>3 DEF Role, i, r
  <2> QED BY <1>2, <1>5, <2>2, <2>4 DEF FinishOK, Finishing
<1>8. CASE z = "responder"
  <2>1. /\ r.pc = "recovery" /\ r.pc \notin Ended /\ fromI # <<>> /\ r = d
        /\ Incoming(l, z) = fromI /\ Peer(z) = "initiator"
    BY <1>1, <1>8 DEF Incoming, Peer
  <2>2. /\ end'[l]["initiator"] = i /\ end'[l]["responder"] = e
        /\ wire'[l]["initiator"] = left /\ wire'[l]["responder"] = Out(l, z, d.outbound)
    BY <1>4, <1>8 DEF Peer
  <2> HIDE DEF i, r, fromI, fromR, d
  <2>3. ASSUME i.pc \notin Ended
        PROVE  i.pc = "recovery" /\ left = <<>> /\ Stream(Out(l, z, d.outbound))
    <3>1. Lockstep(i, r, fromI, fromR)
      BY <1>6, <2>1, <2>3 DEF Role, i, r
    <3>2. i.pc = "recovery" /\ Stream(fromI) /\ fromR = <<>> /\ Stream(d.outbound)
      BY <2>1, <3>1 DEF Lockstep, Kept, Reading, Building, AnswerStep
    <3>3. left = <<>>
      BY <1>1, <2>1, <3>2, StreamTail DEF left
    <3>4. Out(l, z, d.outbound) = d.outbound
      BY <1>8, <2>1, <2>3, <3>2, SendStream DEF Out, i, fromR
    <3> QED BY <3>2, <3>3, <3>4
  <2> QED BY <1>2, <1>5, <2>2, <2>3 DEF FinishOK, Finishing
<1> QED BY <1>7, <1>8 DEF Role

\* A reading, which may be the last.
LEMMA ReadOnFinish ==
  ASSUME Carried, NEW l \in Link, \A k \in Link : FinishOK(k), NEW z \in Role,
         end[l][z].pc \notin Ended, end[l][z].pc # "recovery",
         NEW e, "pc" \in DOMAIN e, e.pc \notin Ended,
         \/ Inventoried(l, z, e)
         \/ \E left, sent : Exporting(l, z, e, left, sent) \/ Snapped(l, z, e, left, sent)
  PROVE  \A k \in Link : FinishOK(k)'
<1>1. ASSUME NEW next, "pc" \in DOMAIN next, next.pc \notin Ended, NEW frames, NEW left, NEW sent,
             ReadOn(l, z, e, next, frames, left, sent)
      PROVE  \A k \in Link : FinishOK(k)'
  <2> DEFINE kept == [next EXCEPT !.outbound = frames]
  <2>1. kept.pc = next.pc
    BY <1>1
  <2>2. \/ GoOn(l, z, e, left, sent)
        \/ GoOn(l, z, next, left, sent \o frames)
        \/ GoOn(l, z, kept, left, sent)
    BY <1>1 DEF ReadOn
  <2> HIDE DEF kept
  <2> QED BY <1>1, <2>1, <2>2, GoOnFinish
<1>2. CASE Inventoried(l, z, e)
  <2> DEFINE next == [e EXCEPT !.pc = "build", !.inventory = <<>>]
  <2>1. "pc" \in DOMAIN next /\ next.pc = "build"
    OBVIOUS
  <2>2. ReadOn(l, z, e, next, <<Message("inventory", e.inventory)>>, Incoming(l, z), <<>>)
    BY <1>2 DEF Inventoried
  <2> HIDE DEF next
  <2> QED BY <1>1, <2>1, <2>2 DEF Ended
<1>3. ASSUME NEW left, NEW sent, Exporting(l, z, e, left, sent)
      PROVE  \A k \in Link : FinishOK(k)'
  <2> DEFINE next == [e EXCEPT !.pc = "receive", !.remote = {}, !.inventory = <<>>]
  <2>1. "pc" \in DOMAIN next /\ next.pc = "receive"
    OBVIOUS
  <2>2. ReadOn(l, z, e, next, OutboundFrames(e), left, sent)
    BY <1>3 DEF Exporting
  <2> HIDE DEF next
  <2> QED BY <1>1, <2>1, <2>2 DEF Ended
<1>4. ASSUME NEW left, NEW sent, Snapped(l, z, e, left, sent)
      PROVE  \A k \in Link : FinishOK(k)'
  <2> DEFINE next == [e EXCEPT !.pc = "recovery", !.snapshots = {}]
  <2>1. "pc" \in DOMAIN next /\ next.pc = "recovery"
    OBVIOUS
  <2>2. ReadOn(l, z, e, next, RecoveryFrames(e), left, sent)
    BY <1>4 DEF Snapped
  <2> HIDE DEF next
  <2> QED BY <1>1, <2>1, <2>2 DEF Ended
<1> QED BY <1>2, <1>3, <1>4

\* The steps of an end that read, build, or ask.
LEMMA ReadsFinish ==
  ASSUME Carried, NEW l \in Link, \A k \in Link : FinishOK(k), NEW z \in Role,
         \/ ReceiveHello(l, z) \/ ReceiveManifest(l, z) \/ ReadRows(l, z) \/ ReadInventory(l, z)
         \/ ReceiveInventory(l, z) \/ ReadMissing(l, z) \/ ExportChange(l, z)
         \/ ReceiveDone(l, z) \/ ReceiveRequests(l, z) \/ ReadSnapshot(l, z)
  PROVE  \A k \in Link : FinishOK(k)'
<1> DEFINE d == end[l][z]
<1>1. d \in Endpoints(GoodUnits, GoodChanges, GoodFrames)
  BY IncomingGood
<1>2. /\ d.pc \in {"hello", "manifest", "rows", "inventory", "build", "export", "receive", "requests",
                   "snapshots"}
      /\ d.pc \notin Ended /\ d.pc # "recovery"
  BY DEF ReceiveHello, ReceiveManifest, ReadRows, ReadInventory, ReceiveInventory, ReadMissing,
         ExportChange, ReceiveDone, ReceiveRequests, ReadSnapshot, At, Ended
<1>3. ASSUME NEW e, NEW left, NEW sent, GoOn(l, z, e, left, sent),
             e.pc \in {"failed", "manifest", "rows", "requests"}
      PROVE  \A k \in Link : FinishOK(k)'
  BY <1>2, <1>3, GoOnFinish DEF Ended
<1>4. CASE ReceiveHello(l, z)
  <2>1. \A r : /\ [Idle EXCEPT !.pc = "manifest"].pc = "manifest"
              /\ [Idle EXCEPT !.pc = "manifest", !.units = Manifest(r)].pc = "manifest"
              /\ [Idle EXCEPT !.pc = "failed"].pc = "failed"
    BY DEF Idle
  <2> QED BY <1>3, <1>4, <2>1 DEF ReceiveHello, Go, Stop
<1>5. CASE ReceiveManifest(l, z)
  <2>1. \A S, T : [Idle EXCEPT !.pc = "rows", !.remote = S, !.units = T].pc = "rows"
    BY DEF Idle
  <2> QED BY <1>3, <1>5, <2>1 DEF ReceiveManifest, Go
<1>6. CASE ReceiveDone(l, z)
  <2>1. [d EXCEPT !.pc = "requests", !.outbound = <<>>].pc = "requests"
    BY <1>1 DEF Endpoints
  <2> QED BY <1>3, <1>6, <2>1 DEF ReceiveDone, Go
<1>7. CASE ReadRows(l, z)
  <2> DEFINE e == [d EXCEPT !.pc = "inventory", !.units = @ \cup RowUnits(End[l][z]),
                            !.unread = ExportedRows(End[l][z])]
  <2>1. Inventoried(l, z, e) /\ "pc" \in DOMAIN e /\ e.pc = "inventory"
    BY <1>1, <1>7 DEF ReadRows, Endpoints
  <2> HIDE DEF e
  <2> QED BY <1>2, <2>1, ReadOnFinish DEF Ended
<1>8. CASE ReadInventory(l, z)
  <2>1. PICK w \in d.unread :
          Inventoried(l, z,
            [d EXCEPT !.unread = @ \ {w},
                      !.inventory = [v \in DOMAIN @ \cup {w} |->
                        IF v = w THEN Inventory(log, store[End[l][z]][w]) ELSE @[v]]])
    BY <1>8 DEF ReadInventory
  <2> DEFINE e == [d EXCEPT !.unread = @ \ {w},
                            !.inventory = [v \in DOMAIN @ \cup {w} |->
                              IF v = w THEN Inventory(log, store[End[l][z]][w]) ELSE @[v]]]
  <2>2. "pc" \in DOMAIN e /\ e.pc = d.pc
    BY <1>1 DEF Endpoints
  <2>3. Inventoried(l, z, e)
    BY <2>1
  <2> HIDE DEF e
  <2> QED BY <1>2, <2>2, <2>3, ReadOnFinish
<1>9. CASE ReceiveInventory(l, z)
  <2>1. \A S, T : LET e == [d EXCEPT !.pc = "export", !.inventory = S, !.outbound = <<>>, !.unread = T]
                  IN  "pc" \in DOMAIN e /\ e.pc = "export"
    BY <1>1 DEF Endpoints
  <2> QED BY <1>2, <1>9, <2>1, ReadOnFinish DEF ReceiveInventory, Ended
<1>10. CASE ReadMissing(l, z)
  <2>1. \A S, T : LET e == [d EXCEPT !.unread = S, !.exports = T]
                  IN  "pc" \in DOMAIN e /\ e.pc = d.pc
    BY <1>1 DEF Endpoints
  <2> QED BY <1>2, <1>10, <2>1, ReadOnFinish DEF ReadMissing
<1>11. CASE ExportChange(l, z)
  <2>1. PICK c \in d.exports :
          Exporting(l, z,
            [d EXCEPT !.exports = @ \ {c}, !.changes = @ \cup {x \in {c} : Found(End[l][z], x)}],
            Incoming(l, z), <<>>)
    BY <1>11 DEF ExportChange
  <2> DEFINE e == [d EXCEPT !.exports = @ \ {c},
                            !.changes = @ \cup {x \in {c} : Found(End[l][z], x)}]
  <2>2. "pc" \in DOMAIN e /\ e.pc = d.pc
    BY <1>1 DEF Endpoints
  <2>3. Exporting(l, z, e, Incoming(l, z), <<>>)
    BY <2>1
  <2> HIDE DEF e
  <2> QED BY <1>2, <2>2, <2>3, ReadOnFinish
<1>12. CASE ReceiveRequests(l, z)
  <2>1. \A S, T : LET e == [d EXCEPT !.pc = "snapshots", !.unread = S, !.requests = T]
                  IN  "pc" \in DOMAIN e /\ e.pc = "snapshots"
    BY <1>1 DEF Endpoints
  <2> QED BY <1>2, <1>12, <2>1, ReadOnFinish DEF ReceiveRequests, Ended
<1>13. CASE ReadSnapshot(l, z)
  <2>1. PICK w \in d.unread :
          Snapped(l, z,
            [d EXCEPT !.unread = @ \ {w}, !.snapshots = @ \cup Snapshot(End[l][z], w)],
            Incoming(l, z), <<>>)
    BY <1>13 DEF ReadSnapshot
  <2> DEFINE e == [d EXCEPT !.unread = @ \ {w}, !.snapshots = @ \cup Snapshot(End[l][z], w)]
  <2>2. "pc" \in DOMAIN e /\ e.pc = d.pc
    BY <1>1 DEF Endpoints
  <2>3. Snapped(l, z, e, Incoming(l, z), <<>>)
    BY <2>1
  <2> HIDE DEF e
  <2> QED BY <1>2, <2>2, <2>3, ReadOnFinish
<1> QED BY <1>4, <1>5, <1>6, <1>7, <1>8, <1>9, <1>10, <1>11, <1>12, <1>13

\* The steps of an end that receives.
LEMMA ReceivesFinish ==
  ASSUME Carried, NEW l \in Link, \A k \in Link : FinishOK(k), NEW z \in Role,
         ReceiveUnit(l, z) \/ ReceiveChanges(l, z)
  PROVE  \A k \in Link : FinishOK(k)'
<1> DEFINE d == end[l][z]
<1>1. d \in Endpoints(GoodUnits, GoodChanges, GoodFrames)
  BY IncomingGood
<1>2. d.pc \in {"receive", "recovery"} /\ d.pc \notin Ended
  BY DEF ReceiveUnit, ReceiveChanges, At, Ended
<1>3. ASSUME NEW sent, Stop(l, z, sent)
      PROVE  \A k \in Link : FinishOK(k)'
  BY <1>2, <1>3, GoOnFinish DEF Stop, Idle
<1>4. CASE Received(l, z, "state") /\ GoOn(l, z, d, FrameLeft(l, z), <<>>)
  <2>1. Stream(Incoming(l, z)) => Stream(FrameLeft(l, z))
    BY <1>4, StreamTail, StreamRest DEF FrameLeft, Received
  <2> QED BY <1>2, <1>4, <2>1, GoOnFinish
<1>5. ASSUME NEW e, NEW left, At(l, z, "receive"), e.pc = "receive", GoOn(l, z, e, left, <<>>)
      PROVE  \A k \in Link : FinishOK(k)'
  BY <1>2, <1>5, GoOnFinish DEF At, Ended
<1>6. CASE ReceiveChanges(l, z)
  BY <1>1, <1>3, <1>5, <1>6 DEF ReceiveChanges, Go, At, Endpoints
<1>7. CASE ReceiveUnit(l, z)
  BY <1>3, <1>4, <1>7 DEF ReceiveUnit
<1> QED BY <1>6, <1>7

\* Every step of sessions and engines.
LEMMA FinishStep ==
  ASSUME Inv, Carried, \A k \in Link : FinishOK(k), [Next]_vars
  PROVE  \A k \in Link : FinishOK(k)'
<1>1. CASE UNCHANGED vars \/ Ddl \/ Statement
  BY <1>1 DEF vars, Ddl, Statement, sessions, FinishOK
<1>2. ASSUME NEW l \in Link, Open(l)
      PROVE  \A k \in Link : FinishOK(k)'
  <2> DEFINE e == [Idle EXCEPT !.pc = "hello"]
  <2>1. e.pc = "hello"
    BY DEF Idle
  <2>2. end' = [end EXCEPT ![l] = [role \in Role |-> e]]
    BY <1>2 DEF Open
  <2>3. \A k \in Link \ {l} : wire'[k] = wire[k]
    BY <1>2 DEF Open, Carried
  <2> HIDE DEF e
  <2>4. end \in [Link -> [Role -> Endpoints(GoodUnits, GoodChanges, GoodFrames)]]
    BY DEF Carried
  <2>5. \A k \in Link \ {l} : FinishOK(k)'
    BY <2>2, <2>3, <2>4 DEF FinishOK
  <2>6. end'[l]["initiator"] = e /\ end'[l]["responder"] = e
    BY <2>2, <2>4 DEF Role
  <2> QED BY <2>1, <2>5, <2>6 DEF FinishOK, Finishing
<1>3. ASSUME NEW l \in Link, NEW z \in Role, ReceiveOther(l, z) \/ Disconnected(l, z) \/ Fail(l, z)
      PROVE  \A k \in Link : FinishOK(k)'
  <2>1. (Stop(l, z, <<>>) \/ Stop(l, z, <<Abort>>)) /\ end[l][z].pc \notin Ended
    BY <1>3 DEF ReceiveOther, Disconnected, Fail, Awaits, Ended
  <2> QED BY <2>1, GoOnFinish DEF Stop, Idle
<1>4. ASSUME NEW l \in Link, NEW z \in Role, Proceed(l, z)
      PROVE  \A k \in Link : FinishOK(k)'
  BY <1>3, <1>4, ReadsFinish, ReceivesFinish, RecoveredFinish DEF Proceed
<1> QED BY <1>1, <1>2, <1>3, <1>4 DEF Next

-----------------------------------------------------------------------------
(* Theorems *)

\* No session runs.
LEMMA InitDelivery == Init => Delivery
<1> SUFFICES ASSUME Init
             PROVE  Delivery
  OBVIOUS
<1>1. /\ Idle.pc = "idle" /\ Idle.units = {} /\ Idle.remote = {} /\ Idle.changes = {} /\ Idle.outbound = <<>>
  BY DEF Idle
<1>2. \A l \in Link, x \in Role : end[l][x] = Idle /\ wire[l][x] = <<>>
  BY DEF Init
<1>3. Owes(Idle) = {}
  BY <1>1 DEF Owes
<1>4. ASSUME NEW x \in Role, NEW f, NEW mine, NEW theirs
      PROVE  Side(x, Idle, f, <<>>, <<>>, log, mine, theirs)
  BY <1>1, <1>3, NoneSent DEF Side, ReadOK, Delivers, OutboundOK, Holds, Keeps, Built
<1>5. Sides
  <2> SUFFICES ASSUME NEW l \in Link, NEW x \in Role
               PROVE  Side(x, end[l][x], end[l][Peer(x)], wire[l][x], wire[l][Peer(x)], log,
                           store[End[l][x]], store[End[l][Peer(x)]])
    BY DEF Sides
  <2>1. Peer(x) \in Role
    BY DEF Role, Peer
  <2> QED BY <1>2, <1>4, <2>1
<1>6. ASSUME NEW l \in Link
      PROVE  FinishOK(l)
  BY <1>1, <1>2 DEF FinishOK, Finishing, Role
<1> QED BY <1>5, <1>6 DEF Delivery

\* In every behaviour what an end owes stays at its own replica, and is at the
\* peer's or on the way there from the time it has built what it sends
\* (SyncSession::exchange_units and exchange_recovery).
THEOREM DeliveryInvariance ==
  ASSUME IsFiniteSet(Row), IsFiniteSet(Table)
  PROVE  Spec => []Delivery
<1>1. Inv /\ Carried /\ Delivery /\ [Next]_vars => Delivery'
  BY SidesStep, FinishStep DEF Delivery
<1> QED BY <1>1, InitDelivery, SessionInvariance, CarriedInvariance, PTL DEF Spec

\* A session that both ends finished delivered what it owed: changes left out
\* because the peer's inventory lists them, changes sent and applied, and
\* snapshots requested for changes without a document (SyncSession::run).
THEOREM Delivered ==
  ASSUME IsFiniteSet(Row), IsFiniteSet(Table)
  PROVE  Spec => []SuccessDelivers
<1>1. Delivery => SuccessDelivers
  <2> SUFFICES ASSUME Delivery, NEW l \in Link, NEW x \in Role, At(l, x, "ok"), At(l, Peer(x), "ok"),
                      NEW u \in end[l][x].units, u.key \in Row
               PROVE  Has(store[End[l][Peer(x)]][u.key], Due(end[l][x], u))
    BY DEF SuccessDelivers
  <2> DEFINE e == end[l][x]
             rows == store[End[l][Peer(x)]]
             o == [key |-> u.key, value |-> Due(e, u)]
  <2>1. Holds(log, rows, Owes(e))
    BY DEF Delivery, Sides, Side, Delivers, Built, At
  <2>2. o \in Owes(e) /\ o.key = u.key /\ o.value = Due(e, u)
    BY DEF Owes
  <2> HIDE DEF e, rows, o
  <2>3. HasIn(log, rows[u.key], Due(e, u))
    <3>1. HasIn(log, rows[o.key], o.value)
      BY <2>1, <2>2 DEF Holds
    <3> QED BY <2>2, <3>1
  <2> QED BY <2>3 DEF HasIn, Has, e, rows
<1> QED BY <1>1, DeliveryInvariance, PTL
=============================================================================
