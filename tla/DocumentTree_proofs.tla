------------------------ MODULE DocumentTree_proofs ------------------------
(***************************************************************************)
(* Proofs about Automerge documents in a tree of entries, for any tasks,   *)
(* documents, changes and number of calls.                                 *)
(***************************************************************************)
EXTENDS DocumentTree, TLAPS

\* What the constants are: what is not a set of changes can be told from one.
Constants ==
  /\ MaxCalls \in Nat
  /\ Absent \notin SUBSET Change
  /\ Unreadable \notin SUBSET Change
  /\ Absent # Unreadable

Stored == entries \cup UNION {written[c] \cup erased[c] \cup held[c] : c \in Task}

\* A change's past is complete, and an entry has all that its changes had seen.
PastsComplete ==
  /\ \A n \in DOMAIN log : \A m \in log[n].past : log[m].past \subseteq log[n].past
  /\ \A e \in Stored : e.has \subseteq DOMAIN log /\ \A n \in e.has : log[n].past \subseteq e.has

\* A transaction's patch is about the documents of its calls.
PatchIsIntended ==
  \A c \in Task : \A d \in Doc \ DOMAIN intent[c] :
    Of(written[c], d) = {} /\ Of(erased[c], d) = {}

\* A transaction reads what its calls made.
ReadsIntended ==
  \A c \in Task : \A d \in DOMAIN intent[c] \ (mixed \cup behind[c] \cup astray[c]) :
    Load(View(c), d) = intent[c][d]

\* The invariant that is inductive: a commit makes of a document what its
\* transaction reads of it, which is what its calls made if nobody else wrote it.
Inv ==
  /\ DocTypeOK
  /\ PastsComplete
  /\ PatchIsIntended
  /\ ReadsIntended
  /\ DocumentsFaithful

-----------------------------------------------------------------------------
(* Loading, of entries S under a log l *)

PayloadBy(l, e) ==
  IF e.kind = "snapshot" THEN e.has
  ELSE {n \in e.has : \A m \in e.has : n \notin l[m].past}

GivenBy(l, S) == UNION {PayloadBy(l, e) : e \in S}
LoadedBy(l, S) == {n \in GivenBy(l, S) : l[n].past \subseteq GivenBy(l, S)}

DoubledBy(l, C) ==
  \E m, n \in C :
    /\ m # n
    /\ l[m].own /\ l[n].own
    /\ m \notin l[n].past /\ n \notin l[m].past

LoadBy(l, S) ==
  IF S = {} THEN Absent
  ELSE IF (\A e \in S : e.kind = "incremental") \/ DoubledBy(l, LoadedBy(l, S))
       THEN Unreadable
       ELSE LoadedBy(l, S)

Based(S) == \E e \in S : e.kind # "incremental"

\* The entries S can be loaded.
Loads(l, S) == Based(S) /\ ~DoubledBy(l, LoadedBy(l, S))

\* The three outcomes of loading.
LEMMA LoadCases ==
  ASSUME NEW l, NEW S
  PROVE  LoadBy(l, S) = IF S = {} THEN Absent
                        ELSE IF Loads(l, S) THEN LoadedBy(l, S) ELSE Unreadable
BY DEF LoadBy, Loads, Based

\* A tree loads by the log and the entries of the document alone.
LEMMA LoadIs ==
  ASSUME NEW d
  PROVE  /\ \A E : Load(E, d) = LoadBy(log, Of(E, d))
         /\ Load(entries, d)' = LoadBy(log', Of(entries', d))
         /\ \A c : Load(View(c), d)' = LoadBy(log', Of(View(c)', d))
<1>1. ASSUME NEW E PROVE Load(E, d) = LoadBy(log, Of(E, d))
  BY DEF Load, LoadBy, Loaded, LoadedBy, GivenBy, Payload, PayloadBy, Doubled, DoubledBy, Of
<1>2. Load(entries, d)' = LoadBy(log', Of(entries', d))
  BY DEF Load, LoadBy, Loaded, LoadedBy, GivenBy, Payload, PayloadBy, Doubled, DoubledBy, Of
<1>3. ASSUME NEW c PROVE Load(View(c), d)' = LoadBy(log', Of(View(c)', d))
  BY DEF Load, LoadBy, Loaded, LoadedBy, GivenBy, Payload, PayloadBy, Doubled, DoubledBy, Of
<1> QED BY <1>1, <1>2, <1>3

\* Loading looks up no changes but those of the entries.
LEMMA LoadSame ==
  ASSUME NEW l, NEW m, NEW S, \A e \in S : \A n \in e.has : m[n] = l[n]
  PROVE  /\ GivenBy(m, S) = GivenBy(l, S)
         /\ LoadedBy(m, S) = LoadedBy(l, S)
         /\ LoadBy(m, S) = LoadBy(l, S)
<1>1. ASSUME NEW e \in S PROVE PayloadBy(m, e) = PayloadBy(l, e)
  BY DEF PayloadBy
<1>2. GivenBy(m, S) = GivenBy(l, S)
  BY <1>1 DEF GivenBy
<1>3. ASSUME NEW n \in GivenBy(l, S) PROVE m[n] = l[n]
  BY <1>3 DEF GivenBy, PayloadBy
<1>4. LoadedBy(m, S) = LoadedBy(l, S)
  BY <1>2, <1>3 DEF LoadedBy
<1>5. \A n \in LoadedBy(l, S) : m[n] = l[n]
  BY <1>3 DEF LoadedBy
<1>6. DoubledBy(m, LoadedBy(l, S)) <=> DoubledBy(l, LoadedBy(l, S))
  BY <1>5 DEF DoubledBy
<1> QED BY <1>2, <1>4, <1>6, LoadCases DEF Loads

\* More entries load what fewer do.
LEMMA LoadGrows ==
  ASSUME NEW l, NEW S, NEW T, S \subseteq T, Loads(l, S)
  PROVE  LoadBy(l, T) = Unreadable \/ LoadBy(l, S) \subseteq LoadBy(l, T)
<1>1. GivenBy(l, S) \subseteq GivenBy(l, T)
  BY DEF GivenBy
<1>2. LoadedBy(l, S) \subseteq LoadedBy(l, T)
  BY <1>1 DEF LoadedBy
<1>3. S # {} /\ T # {}
  BY DEF Loads, Based
<1> QED BY <1>2, <1>3, LoadCases

\* What is loaded is complete, of changes the entries have.
LEMMA LoadedComplete ==
  ASSUME NEW l, NEW S, NEW D,
         \A n \in D : \A k \in l[n].past : l[k].past \subseteq l[n].past,
         \A e \in S : e.has \subseteq D
  PROVE  /\ LoadedBy(l, S) \subseteq D
         /\ \A n \in LoadedBy(l, S) : l[n].past \subseteq LoadedBy(l, S)
<1>1. GivenBy(l, S) \subseteq D
  BY DEF GivenBy, PayloadBy
<1>2. ASSUME NEW n \in LoadedBy(l, S), NEW k \in l[n].past PROVE k \in LoadedBy(l, S)
  BY <1>1 DEF LoadedBy
<1> QED BY <1>1, <1>2 DEF LoadedBy

-----------------------------------------------------------------------------
(* Commits keep additions *)

\* Whoever ends a transaction leaves the log as it was for what is stored.
LEMMA EndedLog ==
  ASSUME NEW c \in Task, Ended(c)
  PROVE  /\ DOMAIN log' = UNION {e.has : e \in Stored'}
         /\ \A e \in Stored' : \A n \in e.has : log'[n] = log[n]
<1>1. Used' = UNION {e.has : e \in Stored'}
  BY DEF Used, Stored
<1>2. log' = [n \in Used' |-> log[n]]
  BY DEF Ended
<1> QED BY <1>1, <1>2

\* A commit that removes no entry of a document loses none of its changes.
THEOREM AdditionsStay == DocSpec => AdditionsKept
<1>1. ASSUME NEW c \in Task, NEW d \in Doc, DocCommit(c), Of(erased[c], d) = {},
             Load(entries, d) \notin {Absent, Unreadable}
      PROVE  Load(entries, d)' = Unreadable \/ Load(entries, d) \subseteq Load(entries, d)'
  <2> DEFINE S == Of(entries, d)
             T == Of(entries', d)
  <2>1. entries' = View(c) /\ Ended(c)
    BY <1>1 DEF DocCommit
  <2>2. S \subseteq T
    BY <2>1, <1>1 DEF View, Of
  <2>3. Load(entries, d) = LoadBy(log, S) /\ Load(entries, d)' = LoadBy(log', T)
    BY LoadIs
  <2>4. Loads(log, S)
    BY <1>1, <2>3, LoadCases
  <2>5. \A e \in T : \A n \in e.has : log'[n] = log[n]
    BY <2>1, EndedLog DEF Of, Stored
  <2>6. LoadBy(log', T) = LoadBy(log, T)
    BY <2>5, LoadSame
  <2> QED BY <2>2, <2>3, <2>4, <2>6, LoadGrows
<1>2. [DocNext]_docVars =>
        [\A c \in Task, d \in Doc :
           /\ DocCommit(c)
           /\ Of(erased[c], d) = {}
           /\ Load(entries, d) \notin {Absent, Unreadable}
           => Load(entries, d)' = Unreadable \/ Load(entries, d) \subseteq Load(entries, d)']_docVars
  BY <1>1
<1> QED BY <1>2, PTL DEF DocSpec, AdditionsKept

-----------------------------------------------------------------------------
(* The patch and what is meant by it *)

\* What a transaction reads is stored.
LEMMA ViewStored == \A c \in Task : View(c) \subseteq Stored
BY DEF View, Stored

\* Where nobody else wrote a document, its transaction reads what is meant.
LEMMA CleanRead ==
  ASSUME Inv, NEW c \in Task, NEW d \in Doc \ (mixed \cup behind[c] \cup astray[c])
  PROVE  Load(View(c), d) = Before(c, d)
<1>1. CASE d \in DOMAIN intent[c]
  BY <1>1 DEF Inv, ReadsIntended, Before
<1>2. CASE d \notin DOMAIN intent[c]
  <2>1. Of(View(c), d) = Of(entries, d)
    BY <1>2 DEF Inv, PatchIsIntended, View, Of
  <2>2. Load(View(c), d) = Load(entries, d)
    BY <2>1, LoadIs
  <2> QED BY <1>2, <2>2 DEF Inv, DocumentsFaithful, Before
<1> QED BY <1>1, <1>2

\* What is meant of a document is a set of changes, if anything.
LEMMA BeforeOK ==
  ASSUME DocTypeOK, NEW c \in Task, NEW d \in Doc
  PROVE  Before(c, d) \in (SUBSET Change) \cup {Absent}
<1>1. CASE d \in DOMAIN intent[c]
  <2>1. PICK D \in SUBSET Doc : intent[c] \in [D -> (SUBSET Change) \cup {Absent}]
    BY DEF DocTypeOK
  <2> QED BY <1>1, <2>1 DEF Before
<1>2. CASE d \notin DOMAIN intent[c]
  BY <1>2 DEF DocTypeOK, Before
<1> QED BY <1>1, <1>2

\* What a transaction reads of a document is complete.
LEMMA ReadComplete ==
  ASSUME DocTypeOK, PastsComplete, NEW c \in Task, NEW d \in Doc
  PROVE  LET C == LoadedBy(log, Of(View(c), d))
         IN  C \subseteq DOMAIN log /\ \A n \in C : log[n].past \subseteq C
<1> DEFINE S == Of(View(c), d)
<1>1. \A n \in DOMAIN log : \A k \in log[n].past : log[k].past \subseteq log[n].past
  BY DEF PastsComplete
<1>2. \A e \in S : e.has \subseteq DOMAIN log
  BY ViewStored DEF PastsComplete, Of
<1> QED BY <1>1, <1>2, LoadedComplete

\* What a transaction reads of a document that nobody else wrote, in parts.
LEMMA CleanLoads ==
  ASSUME Constants, Inv, NEW c \in Task, NEW d \in Doc \ (mixed \cup behind[c] \cup astray[c])
  PROVE  LET S == Of(View(c), d)
             L == LoadedBy(log, S)
         IN  /\ LoadBy(log, S) = Before(c, d)
             /\ ~DoubledBy(log, L)
             /\ S # {} => Based(S)
             /\ Known(Before(c, d)) = L
<1> DEFINE S == Of(View(c), d)
           L == LoadedBy(log, S)
<1>1. DocTypeOK /\ PastsComplete
  BY DEF Inv
<1>2. LoadBy(log, S) = Before(c, d)
  BY CleanRead, LoadIs
<1>3. Before(c, d) # Unreadable
  BY <1>1, BeforeOK DEF Constants
<1>4. CASE S = {}
  <2>1. L = {}
    BY <1>4 DEF LoadedBy, GivenBy
  <2>2. Before(c, d) = Absent
    BY <1>2, <1>4, LoadCases
  <2> QED BY <1>2, <1>4, <2>1, <2>2 DEF DoubledBy, Known
<1>5. CASE S # {}
  <2>1. Before(c, d) = L /\ Loads(log, S)
    BY <1>2, <1>3, <1>5, LoadCases
  <2>2. L \subseteq DOMAIN log
    BY <1>1, ReadComplete
  <2>3. L # Absent
    BY <1>1, <2>2 DEF DocTypeOK, Constants
  <2> QED BY <1>2, <2>1, <2>3 DEF Known, Loads
<1> QED BY <1>4, <1>5

\* The history of a call.
LEMMA Intended ==
  ASSUME DocTypeOK, NEW c \in Task, NEW d \in Doc,
         NEW contents \in (SUBSET Change) \cup {Absent}, NEW f \in BOOLEAN,
         Intend(c, d, contents, f)
  PROVE  /\ intent' \in [Task -> UNION {[D -> (SUBSET Change) \cup {Absent}] : D \in SUBSET Doc}]
         /\ astray' \in [Task -> SUBSET Doc]
         /\ \A t \in Task : t # c => intent'[t] = intent[t] /\ astray'[t] = astray[t]
         /\ DOMAIN intent'[c] = DOMAIN intent[c] \cup {d}
         /\ intent'[c][d] = contents
         /\ \A x \in DOMAIN intent[c] \ {d} : intent'[c][x] = intent[c][x]
         /\ astray[c] \subseteq astray'[c]
         /\ f => d \in astray'[c]
         /\ UNCHANGED <<meant, behind, mixed>>
<1> DEFINE g == [x \in DOMAIN intent[c] \cup {d} |-> IF x = d THEN contents ELSE intent[c][x]]
           X == UNION {[D -> (SUBSET Change) \cup {Absent}] : D \in SUBSET Doc}
<1>1. PICK D \in SUBSET Doc : intent[c] \in [D -> (SUBSET Change) \cup {Absent}]
  BY DEF DocTypeOK
<1>2. g \in [D \cup {d} -> (SUBSET Change) \cup {Absent}]
  BY <1>1
<1> HIDE DEF g
<1>3. g \in X
  <2> DEFINE V == (SUBSET Change) \cup {Absent}
  <2>1. g \in [D \cup {d} -> V] /\ D \cup {d} \in SUBSET Doc
    BY <1>2
  <2> HIDE DEF V
  <2>2. g \in UNION {[E -> V] : E \in SUBSET Doc}
    BY <2>1
  <2> QED BY <2>2 DEF V
<1>4. intent' = [intent EXCEPT ![c] = g] /\ intent \in [Task -> X]
  BY DEF Intend, DocTypeOK, g
<1> HIDE DEF X
<1>5. /\ intent' \in [Task -> X]
      /\ intent'[c] = g
      /\ \A t \in Task : t # c => intent'[t] = intent[t]
  BY <1>3, <1>4
<1>6. /\ DOMAIN g = DOMAIN intent[c] \cup {d}
      /\ g[d] = contents
      /\ \A x \in DOMAIN intent[c] \ {d} : g[x] = intent[c][x]
  BY DEF g
<1>7. /\ astray' \in [Task -> SUBSET Doc]
      /\ \A t \in Task : t # c => astray'[t] = astray[t]
      /\ astray[c] \subseteq astray'[c]
      /\ f => d \in astray'[c]
  BY DEF Intend, DocTypeOK
<1>8. UNCHANGED <<meant, behind, mixed>>
  BY DEF Intend
<1> QED BY <1>5, <1>6, <1>7, <1>8 DEF X

\* A call about one document keeps the invariant when what it says is meant is
\* what its transaction then reads.
LEMMA CallKeeps ==
  ASSUME Inv, NEW c \in Task, NEW d \in Doc,
         NEW contents \in (SUBSET Change) \cup {Absent}, NEW f \in BOOLEAN,
         Intend(c, d, contents, f),
         UNCHANGED entries,
         \A t \in Task \ {c} : written'[t] = written[t] /\ erased'[t] = erased[t],
         \A x \in Doc \ {d} : /\ Of(written'[c], x) = Of(written[c], x)
                              /\ Of(erased'[c], x) = Of(erased[c], x),
         \A e \in Stored : \A n \in e.has : log'[n] = log[n],
         ~f /\ d \notin mixed \cup behind[c] \cup astray[c]
           => LoadBy(log', Of(View(c)', d)) = contents
  PROVE  PatchIsIntended' /\ ReadsIntended' /\ DocumentsFaithful'
<1>. DocTypeOK
  BY DEF Inv
<1>1. /\ intent' \in [Task -> UNION {[D -> (SUBSET Change) \cup {Absent}] : D \in SUBSET Doc}]
      /\ astray' \in [Task -> SUBSET Doc]
      /\ \A t \in Task : t # c => intent'[t] = intent[t] /\ astray'[t] = astray[t]
      /\ DOMAIN intent'[c] = DOMAIN intent[c] \cup {d}
      /\ intent'[c][d] = contents
      /\ \A x \in DOMAIN intent[c] \ {d} : intent'[c][x] = intent[c][x]
      /\ astray[c] \subseteq astray'[c]
      /\ f => d \in astray'[c]
      /\ UNCHANGED <<meant, behind, mixed>>
  BY Intended, Zenon
<1>2. PatchIsIntended'
  BY <1>1 DEF Inv, PatchIsIntended
<1>3. ASSUME NEW E, E \subseteq Stored, NEW x
      PROVE  LoadBy(log', Of(E, x)) = LoadBy(log, Of(E, x))
  <2>1. \A e \in Of(E, x) : \A n \in e.has : log'[n] = log[n]
    BY <1>3 DEF Of
  <2> QED BY <2>1, LoadSame
<1>4. DocumentsFaithful'
  <2>1. ASSUME NEW x \in Doc \ mixed PROVE Load(entries, x)' = meant[x]
    <3>1. entries \subseteq Stored
      BY DEF Stored
    <3>2. Load(entries, x)' = LoadBy(log', Of(entries, x))
      BY LoadIs
    <3>3. Load(entries, x) = LoadBy(log, Of(entries, x))
      BY LoadIs
    <3> QED BY <1>3, <3>1, <3>2, <3>3 DEF Inv, DocumentsFaithful
  <2> QED BY <1>1, <2>1 DEF DocumentsFaithful
<1>5. ASSUME NEW t \in Task, NEW x \in DOMAIN intent'[t] \ (mixed' \cup behind'[t] \cup astray'[t])
      PROVE  Load(View(t), x)' = intent'[t][x]
  <2>1. Load(View(t), x)' = LoadBy(log', Of(View(t)', x))
    BY LoadIs
  <2>2. x \in Doc
    BY <1>1 DEF Inv, DocTypeOK
  <2>3. CASE t = c /\ x = d
    BY <1>1, <1>5, <2>1, <2>3
  <2>4. CASE ~(t = c /\ x = d)
    <3>1. Of(View(t)', x) = Of(View(t), x)
      BY <2>2, <2>4 DEF View, Of
    <3>2. LoadBy(log', Of(View(t), x)) = LoadBy(log, Of(View(t), x))
      BY <1>3, ViewStored
    <3>3. x \in DOMAIN intent[t] \ (mixed \cup behind[t] \cup astray[t])
      BY <1>1, <1>5, <2>4
    <3>4. Load(View(t), x) = intent[t][x]
      BY <3>3 DEF Inv, ReadsIntended
    <3>5. intent'[t][x] = intent[t][x]
      BY <1>1, <2>4, <3>3
    <3> QED BY <2>1, <3>1, <3>2, <3>4, <3>5, LoadIs
  <2> QED BY <2>3, <2>4
<1>6. ReadsIntended'
  BY <1>5 DEF ReadsIntended
<1> QED BY <1>2, <1>4, <1>6

-----------------------------------------------------------------------------
(* Changes and entries *)

\* An author's new change, with a past that is complete.
LEMMA NewIs ==
  ASSUME DocTypeOK, PastsComplete,
         NEW n \in Change, NEW past \in SUBSET DOMAIN log, NEW own \in BOOLEAN,
         \A k \in past : log[k].past \subseteq past,
         New(n, past, own)
  PROVE  /\ n \notin DOMAIN log
         /\ DOMAIN log' = DOMAIN log \cup {n}
         /\ log'[n] = [past |-> past, own |-> own]
         /\ \A k \in DOMAIN log : log'[k] = log[k]
         /\ DOMAIN log' \subseteq Change
         /\ \A k \in DOMAIN log' : log'[k] \in [past : SUBSET DOMAIN log', own : BOOLEAN]
         /\ \A e \in Stored : \A k \in e.has : log'[k] = log[k]
         /\ \A k \in DOMAIN log' : \A j \in log'[k].past : log'[j].past \subseteq log'[k].past
<1>1. /\ n \notin DOMAIN log
      /\ DOMAIN log' = DOMAIN log \cup {n}
      /\ log'[n] = [past |-> past, own |-> own]
      /\ \A k \in DOMAIN log : log'[k] = log[k]
  BY DEF New
<1>2. DOMAIN log' \subseteq Change
  BY <1>1 DEF DocTypeOK
<1>3. \A k \in DOMAIN log : log[k] \in [past : SUBSET DOMAIN log, own : BOOLEAN]
  BY DEF DocTypeOK
<1>4. \A k \in DOMAIN log' : log'[k] \in [past : SUBSET DOMAIN log', own : BOOLEAN]
  BY <1>1, <1>3
<1>5. \A e \in Stored : \A k \in e.has : log'[k] = log[k]
  BY <1>1 DEF PastsComplete
<1>6. ASSUME NEW k \in DOMAIN log', NEW j \in log'[k].past
      PROVE  log'[j].past \subseteq log'[k].past
  <2>1. CASE k = n
    BY <1>1, <1>6, <2>1
  <2>2. CASE k \in DOMAIN log
    BY <1>1, <1>3, <1>6, <2>2 DEF PastsComplete
  <2> QED BY <1>1, <2>1, <2>2
<1> QED BY <1>1, <1>2, <1>4, <1>5, <1>6

\* An entry more that is complete leaves the entries complete.
LEMMA PastsKept ==
  ASSUME PastsComplete, NEW S, Stored' \subseteq Stored \cup S,
         DOMAIN log \subseteq DOMAIN log',
         \A k \in DOMAIN log : log'[k] = log[k],
         \A k \in DOMAIN log' : \A j \in log'[k].past : log'[j].past \subseteq log'[k].past,
         \A e \in S : e.has \subseteq DOMAIN log' /\ \A k \in e.has : log'[k].past \subseteq e.has
  PROVE  PastsComplete'
<1>1. ASSUME NEW e \in Stored
      PROVE  e.has \subseteq DOMAIN log' /\ \A k \in e.has : log'[k].past \subseteq e.has
  BY <1>1 DEF PastsComplete
<1>2. \A e \in Stored' : e.has \subseteq DOMAIN log' /\ \A k \in e.has : log'[k].past \subseteq e.has
  BY <1>1
<1> QED BY <1>2 DEF PastsComplete

\* Inserting an entry.
LEMMA PutIs ==
  ASSUME DocTypeOK, NEW c \in Task, NEW e \in Entry, Put(c, e), UNCHANGED <<entries, held>>
  PROVE  /\ {written', erased'} \subseteq [Task -> SUBSET Entry]
         /\ View(c)' = View(c) \cup {e}
         /\ written'[c] = written[c] \cup {e}
         /\ erased'[c] = erased[c] \ {e}
         /\ \A t \in Task \ {c} : written'[t] = written[t] /\ erased'[t] = erased[t]
         /\ Stored' \subseteq Stored \cup {e}
<1>1. written \in [Task -> SUBSET Entry] /\ erased \in [Task -> SUBSET Entry]
  BY DEF DocTypeOK
<1>2. /\ written' \in [Task -> SUBSET Entry]
      /\ erased' \in [Task -> SUBSET Entry]
      /\ written'[c] = written[c] \cup {e}
      /\ erased'[c] = erased[c] \ {e}
      /\ \A t \in Task \ {c} : written'[t] = written[t] /\ erased'[t] = erased[t]
  BY <1>1 DEF Put
<1>3. View(c)' = View(c) \cup {e}
  BY <1>2 DEF View
<1>4. \A t \in Task : written'[t] \cup erased'[t] \cup held'[t] \subseteq written[t] \cup erased[t] \cup held[t] \cup {e}
  BY <1>2
<1>5. Stored' \subseteq Stored \cup {e}
  BY <1>4 DEF Stored
<1> QED BY <1>2, <1>3, <1>5

\* Removing entries.
LEMMA EraseIs ==
  ASSUME DocTypeOK, NEW c \in Task, NEW E, Erase(c, E), UNCHANGED <<entries, held>>
  PROVE  /\ {written', erased'} \subseteq [Task -> SUBSET Entry]
         /\ View(c)' = View(c) \ E
         /\ written'[c] = written[c] \ E
         /\ erased'[c] = erased[c] \cup (E \cap View(c))
         /\ \A t \in Task \ {c} : written'[t] = written[t] /\ erased'[t] = erased[t]
         /\ Stored' \subseteq Stored
<1>1. written \in [Task -> SUBSET Entry] /\ erased \in [Task -> SUBSET Entry]
  BY DEF DocTypeOK
<1>2. View(c) \in SUBSET Entry
  BY <1>1 DEF View, DocTypeOK
<1>3. /\ written' \in [Task -> SUBSET Entry]
      /\ erased' \in [Task -> SUBSET Entry]
      /\ written'[c] = written[c] \ E
      /\ erased'[c] = erased[c] \cup (E \cap View(c))
      /\ \A t \in Task \ {c} : written'[t] = written[t] /\ erased'[t] = erased[t]
  BY <1>1, <1>2 DEF Erase
<1>4. View(c)' = View(c) \ E
  BY <1>3 DEF View
<1>5. \A t \in Task : written'[t] \cup erased'[t] \cup held'[t] \subseteq Stored
  BY <1>3, ViewStored DEF Stored
<1>6. Stored' \subseteq Stored
  BY <1>5 DEF Stored
<1> QED BY <1>3, <1>4, <1>6

\* Loading an entry more, with a new change on all or nothing of what is loaded.
LEMMA LoadAdds ==
  ASSUME NEW l, NEW m, NEW S, NEW n, NEW e,
         n \notin DOMAIN l,
         \A k \in DOMAIN l : m[k] = l[k] /\ l[k].past \subseteq DOMAIN l,
         \A x \in S : x.has \subseteq DOMAIN l,
         e.has = m[n].past \cup {n},
         m[n].past \subseteq LoadedBy(l, S),
         m[n].own \/ e.kind # "snapshot" => m[n].past = LoadedBy(l, S),
         e.kind = "snapshot" \/ Based(S),
         ~DoubledBy(l, LoadedBy(l, S))
  PROVE  LoadBy(m, S \cup {e}) = LoadedBy(l, S) \cup {n}
<1> DEFINE G == GivenBy(l, S)
           L == LoadedBy(l, S)
           D == DOMAIN l
           past == m[n].past
<1>1. G \subseteq D /\ L \subseteq G
  BY DEF GivenBy, PayloadBy, LoadedBy
<1>2. GivenBy(m, S) = G /\ LoadedBy(m, S) = L
  BY LoadSame
<1>3. PayloadBy(m, e) \subseteq past \cup {n} /\ n \in PayloadBy(m, e)
  <2>1. \A k \in past \cup {n} : n \notin m[k].past
    BY <1>1
  <2> QED BY <2>1 DEF PayloadBy
<1>4. GivenBy(m, S \cup {e}) = G \cup {n}
  <2>1. GivenBy(m, S \cup {e}) = GivenBy(m, S) \cup PayloadBy(m, e)
    BY DEF GivenBy
  <2> QED BY <1>1, <1>2, <1>3, <2>1
<1>5. \A k \in G : m[k].past \subseteq G \cup {n} <=> l[k].past \subseteq G
  BY <1>1
<1>6. LoadedBy(m, S \cup {e}) = L \cup {n}
  <2>1. LoadedBy(m, S \cup {e}) = {k \in G \cup {n} : m[k].past \subseteq G \cup {n}}
    BY <1>4 DEF LoadedBy
  <2>2. L = {k \in G : l[k].past \subseteq G}
    BY DEF LoadedBy
  <2>3. m[n].past \subseteq G \cup {n}
    BY <1>1
  <2> HIDE DEF G, L
  <2> QED BY <1>5, <2>1, <2>2, <2>3
<1>7. ~DoubledBy(m, L \cup {n})
  <2> SUFFICES ASSUME NEW a \in L \cup {n}, NEW b \in L \cup {n}, a # b,
                      m[a].own, m[b].own, a \notin m[b].past, b \notin m[a].past
               PROVE  FALSE
    BY DEF DoubledBy
  <2>1. CASE a = n
    BY <2>1
  <2>2. CASE b = n
    BY <2>2
  <2>3. CASE a # n /\ b # n
    BY <1>1, <2>3 DEF DoubledBy
  <2> QED BY <2>1, <2>2, <2>3
<1>8. Based(S \cup {e})
  BY DEF Based
<1> QED BY <1>6, <1>7, <1>8, LoadCases DEF Loads

-----------------------------------------------------------------------------
(* Each call keeps the invariant *)

\* A change and the entry it comes in.
LEMMA AdditionInv ==
  ASSUME Constants, Inv, NEW c \in Task, NEW d \in Doc, NEW n \in Change,
         NEW past, NEW own \in BOOLEAN, NEW kind \in {"snapshot", "incremental"}, NEW f \in BOOLEAN,
         past = {} \/ past = LoadedBy(log, Of(View(c), d)),
         own \/ kind # "snapshot" => past = LoadedBy(log, Of(View(c), d)),
         kind # "snapshot" /\ ~f => Load(View(c), d) # Absent,
         New(n, past, own),
         Put(c, [doc |-> d, kind |-> kind, has |-> past \cup {n}]),
         Intend(c, d, Known(Before(c, d)) \cup {n}, f),
         Call(c), UNCHANGED <<inner, entries, active, held>>
  PROVE  Inv'
<1> DEFINE S == Of(View(c), d)
           L == LoadedBy(log, S)
           e == [doc |-> d, kind |-> kind, has |-> past \cup {n}]
           contents == Known(Before(c, d)) \cup {n}
<1>1. DocTypeOK /\ PastsComplete
  BY DEF Inv
<1>2. L \subseteq DOMAIN log /\ \A k \in L : log[k].past \subseteq L
  BY <1>1, ReadComplete
<1>3. past \in SUBSET DOMAIN log /\ \A k \in past : log[k].past \subseteq past
  BY <1>2
<1>4. /\ n \notin DOMAIN log
      /\ DOMAIN log' = DOMAIN log \cup {n}
      /\ log'[n] = [past |-> past, own |-> own]
      /\ \A k \in DOMAIN log : log'[k] = log[k]
      /\ DOMAIN log' \subseteq Change
      /\ \A k \in DOMAIN log' : log'[k] \in [past : SUBSET DOMAIN log', own : BOOLEAN]
      /\ \A x \in Stored : \A k \in x.has : log'[k] = log[k]
      /\ \A k \in DOMAIN log' : \A j \in log'[k].past : log'[j].past \subseteq log'[k].past
  BY <1>1, <1>3, NewIs
<1>5. e \in Entry
  BY <1>1, <1>3 DEF Entry, DocTypeOK
<1>6. /\ {written', erased'} \subseteq [Task -> SUBSET Entry]
      /\ View(c)' = View(c) \cup {e}
      /\ written'[c] = written[c] \cup {e}
      /\ erased'[c] = erased[c] \ {e}
      /\ \A t \in Task \ {c} : written'[t] = written[t] /\ erased'[t] = erased[t]
      /\ Stored' \subseteq Stored \cup {e}
  BY <1>1, <1>5, PutIs
<1>7. contents \in (SUBSET Change) \cup {Absent}
  BY <1>1, BeforeOK DEF Known
<1>8. DocTypeOK'
  <2>0. Intend(c, d, contents, f)
    OBVIOUS
  <2> HIDE DEF contents, S, L
  <2>1. /\ intent' \in [Task -> UNION {[D -> (SUBSET Change) \cup {Absent}] : D \in SUBSET Doc}]
        /\ astray' \in [Task -> SUBSET Doc]
        /\ UNCHANGED <<meant, behind, mixed>>
    BY <1>1, <1>7, <2>0, Intended
  <2>2. calls' \in [Task -> 0 .. MaxCalls]
    BY <1>1 DEF Call, DocTypeOK, Constants
  <2> QED BY <1>1, <1>4, <1>6, <2>1, <2>2 DEF DocTypeOK
<1>9. PastsComplete'
  <2>1. e.has \subseteq DOMAIN log' /\ \A k \in e.has : log'[k].past \subseteq e.has
    BY <1>3, <1>4
  <2> QED BY <1>1, <1>4, <1>6, <2>1, PastsKept
<1>10. \A x \in Doc \ {d} : /\ Of(written'[c], x) = Of(written[c], x)
                           /\ Of(erased'[c], x) = Of(erased[c], x)
  BY <1>6 DEF Of
<1>11. ASSUME ~f, d \notin mixed \cup behind[c] \cup astray[c]
       PROVE  LoadBy(log', Of(View(c)', d)) = contents
  <2>1. Of(View(c)', d) = S \cup {e}
    BY <1>6 DEF Of
  <2>4. ~DoubledBy(log, L) /\ (S # {} => Based(S)) /\ Known(Before(c, d)) = L
    BY <1>11, CleanLoads
  <2>6. kind = "snapshot" \/ Based(S)
    <3>1. Load(View(c), d) = LoadBy(log, S)
      BY LoadIs
    <3> QED BY <1>11, <2>4, <3>1, LoadCases
  <2>7. \A x \in S : x.has \subseteq DOMAIN log
    BY <1>1, ViewStored DEF PastsComplete, Of
  <2>8. \A k \in DOMAIN log : log'[k] = log[k] /\ log[k].past \subseteq DOMAIN log
    BY <1>1, <1>4 DEF DocTypeOK
  <2>9. LoadBy(log', S \cup {e}) = L \cup {n}
    <3>1. log'[n].past = past /\ log'[n].own = own /\ n \notin DOMAIN log
      BY <1>4
    <3>2. e.has = log'[n].past \cup {n} /\ log'[n].past \subseteq LoadedBy(log, S)
      BY <3>1
    <3>3. log'[n].own \/ e.kind # "snapshot" => log'[n].past = LoadedBy(log, S)
      BY <3>1
    <3>4. ~DoubledBy(log, LoadedBy(log, S))
      BY <2>4
    <3> HIDE DEF e, S
    <3>5. e.kind = "snapshot" \/ Based(S)
      BY <2>6 DEF e
    <3> HIDE DEF e, S, L
    <3>6. LoadBy(log', S \cup {e}) = LoadedBy(log, S) \cup {n}
      BY <2>7, <2>8, <3>1, <3>2, <3>3, <3>4, <3>5, LoadAdds, SMTT(60)
    <3> QED BY <3>6 DEF L
  <2> QED BY <2>1, <2>4, <2>9
<1>12. PatchIsIntended' /\ ReadsIntended' /\ DocumentsFaithful'
  <2>1. Intend(c, d, contents, f) /\ UNCHANGED entries
    OBVIOUS
  <2>2. \A t \in Task \ {c} : written'[t] = written[t] /\ erased'[t] = erased[t]
    BY <1>6
  <2>3. \A x \in Stored : \A k \in x.has : log'[k] = log[k]
    BY <1>4
  <2>4. ~f /\ d \notin mixed \cup behind[c] \cup astray[c]
          => LoadBy(log', Of(View(c)', d)) = contents
    BY <1>11
  <2> HIDE DEF contents
  <2> QED BY <1>7, <1>10, <2>1, <2>2, <2>3, <2>4, CallKeeps, Zenon
<1> QED BY <1>8, <1>9, <1>12 DEF Inv

\* A snapshot with no changes loads nothing new.
LEMMA EmptyAdds ==
  ASSUME NEW l, NEW S, NEW e, e.kind = "snapshot", e.has = {}, ~DoubledBy(l, LoadedBy(l, S))
  PROVE  LoadBy(l, S \cup {e}) = LoadedBy(l, S)
<1>1. PayloadBy(l, e) = {}
  BY DEF PayloadBy
<1>2. GivenBy(l, S \cup {e}) = GivenBy(l, S)
  BY <1>1 DEF GivenBy
<1>3. LoadedBy(l, S \cup {e}) = LoadedBy(l, S)
  BY <1>2 DEF LoadedBy
<1>4. Based(S \cup {e})
  BY DEF Based
<1> QED BY <1>3, <1>4, LoadCases DEF Loads

\* A new document with no changes.
LEMMA EmptyInv ==
  ASSUME Constants, Inv, NEW c \in Task, NEW d \in Doc,
         Put(c, Snapshot(d, {})), Intend(c, d, Known(Before(c, d)), FALSE),
         Call(c), UNCHANGED <<inner, entries, log, active, held>>
  PROVE  Inv'
<1> DEFINE e == Snapshot(d, {})
           contents == Known(Before(c, d))
<1>1. DocTypeOK /\ PastsComplete
  BY DEF Inv
<1>2. e \in Entry
  BY DEF Entry, Snapshot
<1>3. /\ {written', erased'} \subseteq [Task -> SUBSET Entry]
      /\ View(c)' = View(c) \cup {e}
      /\ written'[c] = written[c] \cup {e}
      /\ erased'[c] = erased[c] \ {e}
      /\ \A t \in Task \ {c} : written'[t] = written[t] /\ erased'[t] = erased[t]
      /\ Stored' \subseteq Stored \cup {e}
  BY <1>1, <1>2, PutIs
<1>4. contents \in (SUBSET Change) \cup {Absent}
  BY <1>1, BeforeOK DEF Known
<1>5. DocTypeOK'
  <2>1. /\ intent' \in [Task -> UNION {[D -> (SUBSET Change) \cup {Absent}] : D \in SUBSET Doc}]
        /\ astray' \in [Task -> SUBSET Doc]
        /\ UNCHANGED <<meant, behind, mixed>>
    BY <1>1, <1>4, Intended
  <2>2. calls' \in [Task -> 0 .. MaxCalls]
    BY <1>1 DEF Call, DocTypeOK, Constants
  <2> QED BY <1>1, <1>3, <2>1, <2>2 DEF DocTypeOK
<1>6. PastsComplete'
  <2>1. e.has = {}
    BY DEF Snapshot
  <2>2. \A k \in DOMAIN log' : \A j \in log'[k].past : log'[j].past \subseteq log'[k].past
    BY <1>1 DEF PastsComplete
  <2> HIDE DEF e
  <2> QED BY <1>1, <1>3, <2>1, <2>2, PastsKept
<1>7. \A x \in Doc \ {d} : /\ Of(written'[c], x) = Of(written[c], x)
                          /\ Of(erased'[c], x) = Of(erased[c], x)
  BY <1>3 DEF Of, Snapshot
<1>8. FALSE = FALSE /\ ~FALSE /\ d \notin mixed \cup behind[c] \cup astray[c]
        => LoadBy(log', Of(View(c)', d)) = contents
  <2> SUFFICES ASSUME d \notin mixed \cup behind[c] \cup astray[c]
               PROVE  LoadBy(log', Of(View(c)', d)) = contents
    OBVIOUS
  <2> DEFINE S == Of(View(c), d)
  <2>1. Of(View(c)', d) = S \cup {e}
    BY <1>3 DEF Of, Snapshot
  <2>2. ~DoubledBy(log, LoadedBy(log, S)) /\ contents = LoadedBy(log, S)
    BY CleanLoads
  <2>3. e.kind = "snapshot" /\ e.has = {}
    BY DEF Snapshot
  <2> HIDE DEF e, S
  <2> QED BY <2>1, <2>2, <2>3, EmptyAdds
<1>9. PatchIsIntended' /\ ReadsIntended' /\ DocumentsFaithful'
  <2>1. \A t \in Task \ {c} : written'[t] = written[t] /\ erased'[t] = erased[t]
    BY <1>3
  <2>2. \A x \in Stored : \A k \in x.has : log'[k] = log[k]
    OBVIOUS
  <2>3. Intend(c, d, contents, FALSE) /\ UNCHANGED entries
    OBVIOUS
  <2>4. ~FALSE /\ d \notin mixed \cup behind[c] \cup astray[c]
          => LoadBy(log', Of(View(c)', d)) = contents
    BY <1>8
  <2> HIDE DEF contents
  <2> QED BY <1>4, <1>7, <2>1, <2>2, <2>3, <2>4, CallKeeps, Zenon
<1> QED BY <1>5, <1>6, <1>9 DEF Inv

\* Removing all entries of a document.
LEMMA RemoveInv ==
  ASSUME Constants, Inv, NEW c \in Task, NEW d \in Doc, DocRemove(c, d)
  PROVE  Inv'
<1> DEFINE E == Of(View(c), d)
<1>1. DocTypeOK /\ PastsComplete
  BY DEF Inv
<1>2. /\ {written', erased'} \subseteq [Task -> SUBSET Entry]
      /\ View(c)' = View(c) \ E
      /\ written'[c] = written[c] \ E
      /\ erased'[c] = erased[c] \cup (E \cap View(c))
      /\ \A t \in Task \ {c} : written'[t] = written[t] /\ erased'[t] = erased[t]
      /\ Stored' \subseteq Stored
  BY <1>1, EraseIs DEF DocRemove
<1>3. DocTypeOK'
  <2>1. /\ intent' \in [Task -> UNION {[D -> (SUBSET Change) \cup {Absent}] : D \in SUBSET Doc}]
        /\ astray' \in [Task -> SUBSET Doc]
        /\ UNCHANGED <<meant, behind, mixed>>
    BY <1>1, Intended DEF DocRemove
  <2>2. calls' \in [Task -> 0 .. MaxCalls]
    BY <1>1 DEF DocRemove, Call, DocTypeOK, Constants
  <2> QED BY <1>1, <1>2, <2>1, <2>2 DEF DocTypeOK, DocRemove
<1>4. PastsComplete'
  BY <1>1, <1>2 DEF PastsComplete, DocRemove
<1>5. \A x \in Doc \ {d} : /\ Of(written'[c], x) = Of(written[c], x)
                          /\ Of(erased'[c], x) = Of(erased[c], x)
  BY <1>2 DEF Of
<1>6. Of(View(c)', d) = {}
  BY <1>2 DEF Of
<1>7. PatchIsIntended' /\ ReadsIntended' /\ DocumentsFaithful'
  <2>1. \A t \in Task \ {c} : written'[t] = written[t] /\ erased'[t] = erased[t]
    BY <1>2
  <2>2. \A x \in Stored : \A k \in x.has : log'[k] = log[k]
    BY DEF DocRemove
  <2>3. Intend(c, d, Absent, FALSE) /\ UNCHANGED entries
    BY DEF DocRemove
  <2>4. ~FALSE /\ d \notin mixed \cup behind[c] \cup astray[c]
          => LoadBy(log', Of(View(c)', d)) = Absent
    BY <1>6, LoadCases
  <2>5. Absent \in (SUBSET Change) \cup {Absent}
    OBVIOUS
  <2> QED BY <1>5, <2>1, <2>2, <2>3, <2>4, <2>5, CallKeeps, Zenon
<1> QED BY <1>3, <1>4, <1>7 DEF Inv

\* Removing all entries of all documents.
LEMMA RemoveRangeInv ==
  ASSUME Constants, Inv, NEW c \in Task, RemoveRange(c)
  PROVE  Inv'
<1> DEFINE nothing == [d \in Doc |-> Absent]
<1>1. DocTypeOK /\ PastsComplete
  BY DEF Inv
<1>2. /\ {written', erased'} \subseteq [Task -> SUBSET Entry]
      /\ View(c)' = {}
      /\ \A t \in Task \ {c} : written'[t] = written[t] /\ erased'[t] = erased[t]
      /\ Stored' \subseteq Stored
  BY <1>1, EraseIs DEF RemoveRange
<1>3. /\ intent' = [intent EXCEPT ![c] = nothing]
      /\ UNCHANGED <<inner, entries, log, active, held, meant, behind, astray, mixed>>
      /\ calls' \in [Task -> 0 .. MaxCalls]
  BY <1>1 DEF RemoveRange, Call, DocTypeOK, Constants
<1>4. nothing \in UNION {[D -> (SUBSET Change) \cup {Absent}] : D \in SUBSET Doc}
  <2>1. nothing \in [Doc -> (SUBSET Change) \cup {Absent}]
    OBVIOUS
  <2> QED BY <2>1
<1>5. DOMAIN nothing = Doc /\ \A d \in Doc : nothing[d] = Absent
  OBVIOUS
<1> HIDE DEF nothing
<1>6. /\ intent' \in [Task -> UNION {[D -> (SUBSET Change) \cup {Absent}] : D \in SUBSET Doc}]
      /\ intent'[c] = nothing
      /\ \A t \in Task \ {c} : intent'[t] = intent[t]
  BY <1>1, <1>3, <1>4 DEF DocTypeOK
<1>7. DocTypeOK'
  BY <1>1, <1>2, <1>3, <1>6 DEF DocTypeOK
<1>8. PastsComplete'
  BY <1>1, <1>2, <1>3 DEF PastsComplete
<1>9. PatchIsIntended'
  BY <1>2, <1>5, <1>6 DEF Inv, PatchIsIntended
<1>10. ASSUME NEW t \in Task, NEW x \in DOMAIN intent'[t] \ (mixed' \cup behind'[t] \cup astray'[t])
       PROVE  Load(View(t), x)' = intent'[t][x]
  <2>1. Load(View(t), x)' = LoadBy(log', Of(View(t)', x))
    BY LoadIs
  <2>2. CASE t = c
    <3>1. Of(View(c)', x) = {}
      BY <1>2 DEF Of
    <3>2. intent'[c][x] = Absent
      BY <1>5, <1>6, <1>10, <2>2
    <3> QED BY <2>1, <2>2, <3>1, <3>2, LoadCases
  <2>3. CASE t # c
    <3>1. View(t)' = View(t) /\ intent'[t] = intent[t]
      BY <1>2, <1>3, <1>6, <2>3 DEF View
    <3>2. Load(View(t), x) = intent[t][x]
      BY <1>3, <1>10, <3>1 DEF Inv, ReadsIntended
    <3> QED BY <1>3, <2>1, <3>1, <3>2, LoadIs
  <2> QED BY <2>2, <2>3
<1>11. ReadsIntended'
  BY <1>10 DEF ReadsIntended
<1>12. DocumentsFaithful'
  <2>1. ASSUME NEW x \in Doc \ mixed PROVE Load(entries, x)' = meant[x]
    BY <1>3, LoadIs DEF Inv, DocumentsFaithful
  <2> QED BY <1>3, <2>1 DEF DocumentsFaithful
<1> QED BY <1>7, <1>8, <1>9, <1>11, <1>12 DEF Inv

\* The documents are read and the patches made of the same variables.
LEMMA SameReads ==
  ASSUME Inv, UNCHANGED <<entries, log, written, erased, history>>
  PROVE  PatchIsIntended' /\ ReadsIntended' /\ DocumentsFaithful'
<1>1. ASSUME NEW x PROVE Load(entries, x)' = Load(entries, x)
  BY LoadIs
<1>2. ASSUME NEW x, NEW t PROVE Load(View(t), x)' = Load(View(t), x)
  <2>1. View(t)' = View(t)
    BY DEF View
  <2> QED BY <2>1, LoadIs
<1>3. DocumentsFaithful'
  BY <1>1 DEF Inv, DocumentsFaithful, history
<1>4. ReadsIntended'
  BY <1>2 DEF Inv, ReadsIntended, history
<1>5. PatchIsIntended'
  BY DEF Inv, PatchIsIntended, history
<1> QED BY <1>3, <1>4, <1>5

LEMMA ReadToCompactInv ==
  ASSUME Constants, Inv, NEW c \in Task, NEW d \in Doc, ReadToCompact(c, d)
  PROVE  Inv'
<1> DEFINE S == Of(View(c), d)
           C == LoadedBy(log, S)
           h == [doc |-> d, has |-> C]
<1>1. DocTypeOK /\ PastsComplete
  BY DEF Inv
<1>2. C \subseteq DOMAIN log /\ \A n \in C : log[n].past \subseteq C
  BY <1>1, ReadComplete
<1>3. Read(c, d) = C
  <2>1. Read(c, d) = LoadBy(log, S)
    BY LoadIs DEF Read
  <2>2. Read(c, d) \notin {Absent, Unreadable}
    BY DEF ReadToCompact
  <2> QED BY <2>1, <2>2, LoadCases
<1>4. h \in [doc : Doc, has : SUBSET Change]
  BY <1>1, <1>2 DEF DocTypeOK
<1>5. held' = [held EXCEPT ![c] = {h}]
  BY <1>3 DEF ReadToCompact
<1>6. UNCHANGED <<inner, entries, log, active, written, erased, history>>
  BY DEF ReadToCompact
<1> HIDE DEF h
<1>7. /\ held' \in [Task -> SUBSET [doc : Doc, has : SUBSET Change]]
      /\ held'[c] = {h}
      /\ \A t \in Task \ {c} : held'[t] = held[t]
  BY <1>1, <1>4, <1>5 DEF DocTypeOK
<1>8. DocTypeOK'
  <2>1. calls' \in [Task -> 0 .. MaxCalls]
    BY <1>1 DEF ReadToCompact, Call, DocTypeOK, Constants
  <2> QED BY <1>1, <1>6, <1>7, <2>1 DEF DocTypeOK, history
<1>9. PastsComplete'
  <2>1. \A t \in Task : held'[t] \subseteq held[t] \cup {h}
    BY <1>7
  <2>2. Stored' \subseteq Stored \cup {h}
    BY <1>6, <2>1 DEF Stored
  <2>3. h.has \subseteq DOMAIN log' /\ \A n \in h.has : log'[n].past \subseteq h.has
    BY <1>2, <1>6 DEF h
  <2>4. \A k \in DOMAIN log' : \A j \in log'[k].past : log'[j].past \subseteq log'[k].past
    BY <1>1, <1>6 DEF PastsComplete
  <2> QED BY <1>1, <1>6, <2>2, <2>3, <2>4, PastsKept
<1> QED BY <1>6, <1>8, <1>9, SameReads DEF Inv

LEMMA BeginInv ==
  ASSUME Inv, NEW c \in Task, DocBegin(c)
  PROVE  Inv'
<1>1. DocTypeOK'
  BY DEF Inv, DocTypeOK, DocBegin, history
<1>2. PastsComplete'
  BY DEF Inv, PastsComplete, DocBegin, Stored
<1> QED BY <1>1, <1>2, SameReads DEF Inv, DocBegin

\* A compaction, but for what is read after it.
LEMMA CompactIs ==
  ASSUME DocTypeOK, NEW c \in Task, NEW h \in held[c], Compact(c, h)
  PROVE  LET new == Snapshot(h.doc, h.has)
         IN  /\ h \in [doc : Doc, has : SUBSET Change]
             /\ {written', erased'} \subseteq [Task -> SUBSET Entry]
             /\ held' \in [Task -> SUBSET [doc : Doc, has : SUBSET Change]]
             /\ \A t \in Task \ {c} : written'[t] = written[t] /\ erased'[t] = erased[t]
             /\ \A x \in Doc \ {h.doc} : /\ Of(written'[c], x) = Of(written[c], x)
                                         /\ Of(erased'[c], x) = Of(erased[c], x)
             /\ Stored' \subseteq Stored \cup {new}
             /\ new \notin View(c) => Of(View(c)', h.doc) = {new}
<1> DEFINE new == Snapshot(h.doc, h.has)
           keys == Of(View(c), h.doc)
<1>1. h \in [doc : Doc, has : SUBSET Change]
  BY DEF DocTypeOK
<1>2. new \in Entry /\ new.doc = h.doc
  BY <1>1 DEF Entry, Snapshot
<1>3. written \in [Task -> SUBSET Entry] /\ erased \in [Task -> SUBSET Entry]
  BY DEF DocTypeOK
<1>4. View(c) \in SUBSET Entry /\ keys \subseteq View(c) /\ \A x \in keys : x.doc = h.doc
  BY <1>3 DEF View, DocTypeOK, Of
<1>5. /\ written' = [written EXCEPT ![c] = (@ \cup {new}) \ keys]
      /\ erased' = [erased EXCEPT ![c] = (@ \ {new}) \cup keys]
      /\ held' = [held EXCEPT ![c] = {}]
      /\ UNCHANGED entries
  BY DEF Compact
<1>6. \A x \in View(c) : x.doc = h.doc => x \in keys
  BY DEF Of
<1> HIDE DEF new, keys
<1>7. /\ written' \in [Task -> SUBSET Entry]
      /\ erased' \in [Task -> SUBSET Entry]
      /\ written'[c] = (written[c] \cup {new}) \ keys
      /\ erased'[c] = (erased[c] \ {new}) \cup keys
      /\ \A t \in Task \ {c} : written'[t] = written[t] /\ erased'[t] = erased[t]
  BY <1>2, <1>3, <1>4, <1>5
<1>8. held' \in [Task -> SUBSET [doc : Doc, has : SUBSET Change]] /\ \A t \in Task : held'[t] \subseteq held[t]
  BY <1>5 DEF DocTypeOK
<1>9. ASSUME NEW x \in Doc \ {h.doc}
      PROVE  Of(written'[c], x) = Of(written[c], x) /\ Of(erased'[c], x) = Of(erased[c], x)
  BY <1>2, <1>4, <1>7 DEF Of
<1>10. Stored' \subseteq Stored \cup {new}
  <2>1. \A t \in Task : written'[t] \cup erased'[t] \cup held'[t] \subseteq Stored \cup {new}
    BY <1>4, <1>7, <1>8, ViewStored DEF Stored
  <2> QED BY <1>5, <2>1 DEF Stored
<1>11. ASSUME new \notin View(c)
       PROVE  Of(View(c)', h.doc) = {new}
  <2>1. View(c)' = (entries \ erased'[c]) \cup written'[c]
    BY <1>5 DEF View
  <2>2. new \in View(c)'
    BY <1>4, <1>7, <1>11, <2>1
  <2>3. ASSUME NEW x \in View(c)', x.doc = h.doc PROVE x = new
    <3>1. x \in View(c) \/ x = new
      BY <1>7, <2>1, <2>3 DEF View
    <3>2. x \notin keys
      BY <1>7, <2>1, <2>3
    <3> QED BY <1>6, <2>3, <3>1, <3>2
  <2> QED BY <1>2, <2>2, <2>3 DEF Of
<1> QED BY <1>1, <1>7, <1>8, <1>9, <1>10, <1>11 DEF new

\* One snapshot that is complete loads what it has.
LEMMA LoadOne ==
  ASSUME NEW l, NEW d, NEW has, \A n \in has : l[n].past \subseteq has, ~DoubledBy(l, has)
  PROVE  LoadBy(l, {Snapshot(d, has)}) = has
<1>1. GivenBy(l, {Snapshot(d, has)}) = has
  BY DEF GivenBy, PayloadBy, Snapshot
<1>2. LoadedBy(l, {Snapshot(d, has)}) = has
  BY <1>1 DEF LoadedBy
<1>3. Based({Snapshot(d, has)})
  BY DEF Based, Snapshot
<1> QED BY <1>2, <1>3, LoadCases DEF Loads

\* A compaction of the document that was read, and that was not one snapshot.
LEMMA CompactLoads ==
  ASSUME Constants, Inv, NEW c \in Task, NEW h \in held[c], Compact(c, h), Compactable(c, h)
  PROVE  LoadBy(log, Of(View(c)', h.doc)) = h.has
<1> DEFINE S == Of(View(c), h.doc)
           C == LoadedBy(log, S)
<1>1. DocTypeOK /\ PastsComplete
  BY DEF Inv
<1>2. h \in [doc : Doc, has : SUBSET Change] /\ Of(View(c)', h.doc) = {Snapshot(h.doc, h.has)}
  BY <1>1, CompactIs DEF Compactable
<1>3. LoadBy(log, S) = h.has
  BY LoadIs DEF Compactable, Read
<1>4. h.has # Absent /\ h.has # Unreadable
  BY <1>2 DEF Constants
<1>5. h.has = C /\ Loads(log, S)
  BY <1>3, <1>4, LoadCases
<1>6. \A n \in h.has : log[n].past \subseteq h.has
  BY <1>1, <1>2, <1>5, ReadComplete
<1>7. ~DoubledBy(log, h.has)
  BY <1>5 DEF Loads
<1> QED BY <1>2, <1>6, <1>7, LoadOne

LEMMA CompactInv ==
  ASSUME Constants, Inv, NEW c \in Task, NEW h \in held[c], Compact(c, h)
  PROVE  Inv'
<1> DEFINE d == h.doc
           f == ~Compactable(c, h)
           contents == Before(c, d)
           new == Snapshot(h.doc, h.has)
<1>1. DocTypeOK /\ PastsComplete
  BY DEF Inv
<1>2. /\ h \in [doc : Doc, has : SUBSET Change]
      /\ {written', erased'} \subseteq [Task -> SUBSET Entry]
      /\ held' \in [Task -> SUBSET [doc : Doc, has : SUBSET Change]]
      /\ \A t \in Task \ {c} : written'[t] = written[t] /\ erased'[t] = erased[t]
      /\ \A x \in Doc \ {d} : /\ Of(written'[c], x) = Of(written[c], x)
                              /\ Of(erased'[c], x) = Of(erased[c], x)
      /\ Stored' \subseteq Stored \cup {new}
  BY <1>1, CompactIs
<1>3. d \in Doc /\ f \in BOOLEAN
  BY <1>2 DEF Compactable
<1>4. contents \in (SUBSET Change) \cup {Absent}
  BY <1>1, <1>3, BeforeOK
<1>5. Intend(c, d, contents, f) /\ UNCHANGED <<inner, entries, log, active>>
  BY DEF Compact
<1>6. DocTypeOK'
  <2>1. /\ intent' \in [Task -> UNION {[D -> (SUBSET Change) \cup {Absent}] : D \in SUBSET Doc}]
        /\ astray' \in [Task -> SUBSET Doc]
        /\ UNCHANGED <<meant, behind, mixed>>
    <3> HIDE DEF d, f, contents
    <3> QED BY <1>1, <1>3, <1>4, <1>5, Intended
  <2>2. calls' \in [Task -> 0 .. MaxCalls]
    BY <1>1 DEF Compact, Call, DocTypeOK, Constants
  <2> QED BY <1>1, <1>2, <1>5, <2>1, <2>2 DEF DocTypeOK
<1>7. PastsComplete'
  <2>1. new.has \subseteq DOMAIN log' /\ \A n \in new.has : log'[n].past \subseteq new.has
    <3>1. h \in Stored
      BY DEF Stored
    <3> QED BY <1>1, <1>5, <3>1 DEF PastsComplete, Snapshot
  <2>2. \A k \in DOMAIN log' : \A j \in log'[k].past : log'[j].past \subseteq log'[k].past
    BY <1>1, <1>5 DEF PastsComplete
  <2> HIDE DEF new
  <2> QED BY <1>1, <1>2, <1>5, <2>1, <2>2, PastsKept
<1>8. PatchIsIntended' /\ ReadsIntended' /\ DocumentsFaithful'
  <2>1. ~f /\ d \notin mixed \cup behind[c] \cup astray[c]
          => LoadBy(log', Of(View(c)', d)) = contents
    <3> SUFFICES ASSUME Compactable(c, h), d \notin mixed \cup behind[c] \cup astray[c]
                 PROVE  LoadBy(log', Of(View(c)', d)) = contents
      OBVIOUS
    <3>1. LoadBy(log, Of(View(c)', d)) = h.has
      BY CompactLoads
    <3>2. Load(View(c), d) = contents
      BY <1>3, CleanRead
    <3> QED BY <1>5, <3>1, <3>2 DEF Compactable, Read
  <2>2. \A x \in Stored : \A k \in x.has : log'[k] = log[k]
    BY <1>5
  <2>3. \A t \in Task \ {c} : written'[t] = written[t] /\ erased'[t] = erased[t]
    BY <1>2
  <2>4. \A x \in Doc \ {d} : /\ Of(written'[c], x) = Of(written[c], x)
                             /\ Of(erased'[c], x) = Of(erased[c], x)
    BY <1>2
  <2>5. UNCHANGED entries /\ d \in Doc /\ f \in BOOLEAN
    BY <1>3, <1>5
  <2>6. Intend(c, d, contents, f)
    BY <1>5
  <2> HIDE DEF d, f, contents
  <2> QED BY <1>4, <2>1, <2>2, <2>3, <2>4, <2>5, <2>6, CallKeeps, Zenon
<1> QED BY <1>6, <1>7, <1>8 DEF Inv

-----------------------------------------------------------------------------
(* The end of a transaction *)

\* What both ways of ending it do.
LEMMA EndedIs ==
  ASSUME Constants, DocTypeOK, PastsComplete, NEW c \in Task, Ended(c),
         entries' \subseteq Stored
  PROVE  /\ Stored' \subseteq Stored
         /\ PastsComplete'
         /\ DOMAIN log' \subseteq Change
         /\ \A n \in DOMAIN log' : log'[n] \in [past : SUBSET DOMAIN log', own : BOOLEAN]
         /\ \A e \in Stored' : \A n \in e.has : log'[n] = log[n]
         /\ written' \in [Task -> SUBSET Entry] /\ written'[c] = {}
         /\ erased' \in [Task -> SUBSET Entry] /\ erased'[c] = {}
         /\ held' \in [Task -> SUBSET [doc : Doc, has : SUBSET Change]]
         /\ intent' \in [Task -> UNION {[D -> (SUBSET Change) \cup {Absent}] : D \in SUBSET Doc}]
         /\ DOMAIN intent'[c] = {}
         /\ calls' \in [Task -> 0 .. MaxCalls]
         /\ astray' \in [Task -> SUBSET Doc]
         /\ \A t \in Task \ {c} :
              /\ written'[t] = written[t] /\ erased'[t] = erased[t]
              /\ intent'[t] = intent[t] /\ astray'[t] = astray[t]
<1>1. /\ written' \in [Task -> SUBSET Entry] /\ written'[c] = {}
      /\ erased' \in [Task -> SUBSET Entry] /\ erased'[c] = {}
      /\ held' \in [Task -> SUBSET [doc : Doc, has : SUBSET Change]] /\ held'[c] = {}
      /\ calls' \in [Task -> 0 .. MaxCalls]
      /\ astray' \in [Task -> SUBSET Doc]
      /\ \A t \in Task \ {c} : /\ written'[t] = written[t] /\ erased'[t] = erased[t]
                               /\ held'[t] = held[t] /\ astray'[t] = astray[t]
  BY DEF Ended, DocTypeOK, Constants
<1>2. Empty \in UNION {[D -> (SUBSET Change) \cup {Absent}] : D \in SUBSET Doc} /\ DOMAIN Empty = {}
  <2>1. Empty \in [{} -> (SUBSET Change) \cup {Absent}] /\ DOMAIN Empty = {}
    BY DEF Empty
  <2>2. {} \in SUBSET Doc
    OBVIOUS
  <2> QED BY <2>1, <2>2
<1>3. /\ intent' \in [Task -> UNION {[D -> (SUBSET Change) \cup {Absent}] : D \in SUBSET Doc}]
      /\ DOMAIN intent'[c] = {}
      /\ \A t \in Task \ {c} : intent'[t] = intent[t]
  BY <1>2 DEF Ended, DocTypeOK
<1>4. Stored' \subseteq Stored
  <2>1. \A t \in Task : written'[t] \cup erased'[t] \cup held'[t] \subseteq Stored
    BY <1>1 DEF Stored
  <2> QED BY <2>1 DEF Stored
<1>5. /\ DOMAIN log' = UNION {e.has : e \in Stored'}
      /\ \A e \in Stored' : \A n \in e.has : log'[n] = log[n]
  BY EndedLog
<1>6. DOMAIN log' \subseteq DOMAIN log /\ \A n \in DOMAIN log' : log'[n] = log[n]
  BY <1>4, <1>5 DEF PastsComplete
<1>7. \A n \in DOMAIN log' : log[n].past \subseteq DOMAIN log'
  BY <1>4, <1>5 DEF PastsComplete
<1>8. \A n \in DOMAIN log' : log'[n] \in [past : SUBSET DOMAIN log', own : BOOLEAN]
  BY <1>6, <1>7 DEF DocTypeOK
<1>9. PastsComplete'
  <2>1. ASSUME NEW n \in DOMAIN log', NEW m \in log'[n].past
        PROVE  log'[m].past \subseteq log'[n].past
    BY <1>6, <1>7 DEF PastsComplete
  <2>2. ASSUME NEW e \in Stored'
        PROVE  e.has \subseteq DOMAIN log' /\ \A n \in e.has : log'[n].past \subseteq e.has
    BY <1>4, <1>5, <1>6 DEF PastsComplete
  <2> QED BY <2>1, <2>2 DEF PastsComplete
<1>10. DOMAIN log' \subseteq Change
  BY <1>6 DEF DocTypeOK
<1> QED BY <1>1, <1>3, <1>4, <1>5, <1>8, <1>9, <1>10

\* What is stored is loaded as before.
LEMMA EndedLoads ==
  ASSUME NEW c \in Task, Ended(c), NEW S, S \subseteq Stored'
  PROVE  LoadBy(log', S) = LoadBy(log, S)
<1>1. \A e \in S : \A n \in e.has : log'[n] = log[n]
  BY EndedLog
<1> QED BY <1>1, LoadSame

LEMMA RollbackInv ==
  ASSUME Constants, Inv, NEW c \in Task, DocRollback(c)
  PROVE  Inv'
<1>1. DocTypeOK /\ PastsComplete
  BY DEF Inv
<1>2. /\ Ended(c)
      /\ active' = active \ {c}
      /\ behind' = [behind EXCEPT ![c] = {}]
      /\ UNCHANGED <<inner, entries, meant, mixed>>
  BY DEF DocRollback, Ended
<1>3. entries' \subseteq Stored
  BY <1>2 DEF Stored
<1>4. DocTypeOK' /\ PastsComplete'
  <2>1. behind' \in [Task -> SUBSET Doc]
    BY <1>1, <1>2 DEF DocTypeOK
  <2> QED BY <1>1, <1>2, <1>3, <2>1, EndedIs DEF DocTypeOK
<1>5. /\ written'[c] = {} /\ erased'[c] = {} /\ DOMAIN intent'[c] = {}
      /\ \A t \in Task \ {c} :
           /\ written'[t] = written[t] /\ erased'[t] = erased[t]
           /\ intent'[t] = intent[t] /\ astray'[t] = astray[t] /\ behind'[t] = behind[t]
  BY <1>1, <1>2, <1>3, EndedIs DEF DocTypeOK
<1>6. PatchIsIntended'
  BY <1>5 DEF Inv, PatchIsIntended, Of
<1>7. ASSUME NEW t \in Task, NEW x \in DOMAIN intent'[t] \ (mixed' \cup behind'[t] \cup astray'[t])
      PROVE  Load(View(t), x)' = intent'[t][x]
  <2>1. t # c
    BY <1>5, <1>7
  <2>2. View(t)' = View(t) /\ Of(View(t), x) \subseteq Stored'
    BY <1>2, <1>5, <2>1 DEF View, Of, Stored
  <2>3. Load(View(t), x)' = LoadBy(log, Of(View(t), x))
    BY <1>2, <2>2, EndedLoads, LoadIs
  <2>4. /\ intent'[t] = intent[t] /\ astray'[t] = astray[t] /\ behind'[t] = behind[t]
        /\ mixed' = mixed
    BY <1>2, <1>5, <2>1
  <2>5. x \in DOMAIN intent[t] \ (mixed \cup behind[t] \cup astray[t])
    BY <1>7, <2>4
  <2>6. Load(View(t), x) = intent[t][x]
    BY <2>5 DEF Inv, ReadsIntended
  <2> QED BY <2>3, <2>4, <2>6, LoadIs
<1>8. ReadsIntended'
  BY <1>7 DEF ReadsIntended
<1>9. DocumentsFaithful'
  <2>1. ASSUME NEW x \in Doc \ mixed PROVE Load(entries, x)' = meant[x]
    <3>1. Of(entries, x) \subseteq Stored'
      BY <1>2 DEF Of, Stored
    <3> QED BY <1>2, <3>1, EndedLoads, LoadIs DEF Inv, DocumentsFaithful
  <2> QED BY <1>2, <2>1 DEF DocumentsFaithful
<1> QED BY <1>4, <1>6, <1>8, <1>9 DEF Inv

LEMMA CommitInv ==
  ASSUME Constants, Inv, NEW c \in Task, DocCommit(c)
  PROVE  Inv'
<1> DEFINE unsure == mixed \cup behind[c] \cup astray[c]
           touched == DOMAIN intent[c]
           lost == {d \in touched \cap unsure : Of(entries', d) = {}}
<1>1. DocTypeOK /\ PastsComplete
  BY DEF Inv
<1>2. /\ Ended(c)
      /\ active' = active \ {c}
      /\ entries' = View(c)
      /\ mixed' = (mixed \cup (touched \cap unsure)) \ lost
      /\ meant' = [d \in Doc |-> IF d \in touched \cap unsure THEN Absent ELSE Before(c, d)]
      /\ behind' = [t \in Task |-> IF t = c THEN {} ELSE behind[t] \cup (touched \cap DOMAIN intent[t])]
      /\ UNCHANGED inner
  BY DEF DocCommit, Ended
<1>3. entries' \subseteq Stored
  BY <1>2, ViewStored
<1>4. DocTypeOK' /\ PastsComplete'
  <2>1. \A t \in Task : DOMAIN intent[t] \subseteq Doc
    BY <1>1 DEF DocTypeOK
  <2>2. behind' \in [Task -> SUBSET Doc] /\ mixed' \subseteq Doc
    BY <1>1, <1>2, <2>1 DEF DocTypeOK
  <2>3. meant' \in [Doc -> (SUBSET Change) \cup {Absent}]
    BY <1>1, <1>2, BeforeOK
  <2>4. entries' \subseteq Entry
    BY <1>1, <1>2 DEF DocTypeOK, View
  <2> QED BY <1>1, <1>2, <1>3, <2>2, <2>3, <2>4, EndedIs DEF DocTypeOK
<1>5. /\ written'[c] = {} /\ erased'[c] = {} /\ DOMAIN intent'[c] = {}
      /\ \A t \in Task \ {c} :
           /\ written'[t] = written[t] /\ erased'[t] = erased[t]
           /\ intent'[t] = intent[t] /\ astray'[t] = astray[t]
  BY <1>1, <1>2, <1>3, EndedIs
<1>6. PatchIsIntended'
  BY <1>5 DEF Inv, PatchIsIntended, Of
<1>7. \A x \in Doc \ touched : Of(entries', x) = Of(entries, x)
  BY <1>2 DEF Inv, PatchIsIntended, View, Of
<1>8. ASSUME NEW t \in Task, NEW x \in DOMAIN intent'[t] \ (mixed' \cup behind'[t] \cup astray'[t])
      PROVE  Load(View(t), x)' = intent'[t][x]
  <2>1. t # c
    BY <1>5, <1>8
  <2>2. x \in Doc \ touched /\ x \in DOMAIN intent[t] \ (mixed \cup behind[t] \cup astray[t])
    BY <1>1, <1>2, <1>5, <1>8, <2>1 DEF DocTypeOK
  <2>3. Of(View(t)', x) = Of(View(t), x)
    BY <1>5, <1>7, <2>1, <2>2 DEF View, Of
  <2>4. Of(View(t)', x) \subseteq Stored'
    BY DEF View, Of, Stored
  <2>5. Load(View(t), x)' = LoadBy(log, Of(View(t), x))
    BY <1>2, <2>3, <2>4, EndedLoads, LoadIs
  <2> QED BY <1>5, <2>1, <2>2, <2>5, LoadIs DEF Inv, ReadsIntended
<1>9. ReadsIntended'
  BY <1>8 DEF ReadsIntended
<1>10. ASSUME NEW x \in Doc \ mixed' PROVE Load(entries, x)' = meant'[x]
  <2>1. Load(entries, x)' = LoadBy(log, Of(entries', x))
    <3>1. Of(entries', x) \subseteq Stored'
      BY DEF Of, Stored
    <3> QED BY <1>2, <3>1, EndedLoads, LoadIs
  <2>2. CASE x \in lost
    BY <1>2, <2>1, <2>2, LoadCases
  <2>3. CASE x \notin lost
    <3>1. x \notin mixed /\ x \notin touched \cap unsure
      BY <1>2, <1>10, <2>3
    <3>2. CASE x \in touched
      <4>1. Load(View(c), x) = Before(c, x)
        BY <3>1, <3>2, CleanRead
      <4> QED BY <1>2, <2>1, <3>1, <4>1, LoadIs
    <3>3. CASE x \notin touched
      <4>1. Load(entries, x) = Before(c, x)
        BY <3>1, <3>3 DEF Inv, DocumentsFaithful, Before
      <4> QED BY <1>2, <1>7, <2>1, <3>1, <3>3, <4>1, LoadIs
    <3> QED BY <3>2, <3>3
  <2> QED BY <2>2, <2>3
<1>11. DocumentsFaithful'
  BY <1>10 DEF DocumentsFaithful
<1> QED BY <1>4, <1>6, <1>9, <1>11 DEF Inv

-----------------------------------------------------------------------------
(* Theorems *)

LEMMA InsertInv ==
  ASSUME Constants, Inv, NEW c \in Task, NEW d \in Doc, Insert(c, d)
  PROVE  Inv'
<1>1. CASE Put(c, Snapshot(d, {})) /\ Intend(c, d, Known(Before(c, d)), FALSE) /\ UNCHANGED log
  BY <1>1, EmptyInv DEF Insert
<1>2. ASSUME NEW n \in Change, New(n, {}, FALSE), Put(c, Snapshot(d, {n})),
             Intend(c, d, Known(Before(c, d)) \cup {n}, FALSE)
      PROVE  Inv'
  <2>1. Put(c, [doc |-> d, kind |-> "snapshot", has |-> {} \cup {n}])
    <3>1. {} \cup {n} = {n}
      OBVIOUS
    <3> QED BY <1>2, <3>1 DEF Snapshot
  <2>2. Call(c) /\ UNCHANGED <<inner, entries, active, held>>
    BY DEF Insert
  <2> QED BY <1>2, <2>1, <2>2, AdditionInv
<1> QED BY <1>1, <1>2 DEF Insert

LEMMA InsertAgainInv ==
  ASSUME Constants, Inv, NEW c \in Task, NEW d \in Doc, InsertAgain(c, d)
  PROVE  Inv'
<1> DEFINE L == LoadedBy(log, Of(View(c), d))
<1>1. Read(c, d) = L
  BY LoadIs, LoadCases DEF InsertAgain, Read
<1>2. PICK n \in Change :
        /\ New(n, Read(c, d), TRUE)
        /\ Put(c, Snapshot(d, Read(c, d) \cup {n}))
        /\ Intend(c, d, Known(Before(c, d)) \cup {n}, FALSE)
  BY DEF InsertAgain
<1>3. New(n, L, TRUE) /\ Put(c, [doc |-> d, kind |-> "snapshot", has |-> L \cup {n}])
  BY <1>1, <1>2 DEF Snapshot
<1>4. Call(c) /\ UNCHANGED <<inner, entries, active, held>>
  BY DEF InsertAgain
<1> QED BY <1>2, <1>3, <1>4, AdditionInv

LEMMA UpdateInv ==
  ASSUME Constants, Inv, NEW c \in Task, NEW d \in Doc, Update(c, d)
  PROVE  Inv'
<1> DEFINE L == LoadedBy(log, Of(View(c), d))
           f == Read(c, d) = Absent
<1>1. Known(Read(c, d)) = L
  <2>1. Read(c, d) = LoadBy(log, Of(View(c), d)) /\ Read(c, d) # Unreadable
    BY LoadIs DEF Update, Read
  <2>2. CASE Of(View(c), d) = {}
    BY <2>1, <2>2, LoadCases DEF Known, LoadedBy, GivenBy
  <2>3. CASE Of(View(c), d) # {}
    <3>1. L # Absent
      BY ReadComplete DEF Inv, DocTypeOK, Constants
    <3> QED BY <2>1, <2>3, <3>1, LoadCases DEF Known
  <2> QED BY <2>2, <2>3
<1>2. PICK n \in Change :
        /\ New(n, Known(Read(c, d)), TRUE)
        /\ Put(c, Incremental(d, Known(Read(c, d)) \cup {n}))
        /\ Intend(c, d, Known(Before(c, d)) \cup {n}, f)
  BY DEF Update
<1>3. New(n, L, TRUE) /\ Put(c, [doc |-> d, kind |-> "incremental", has |-> L \cup {n}])
  BY <1>1, <1>2 DEF Incremental
<1>4. Call(c) /\ UNCHANGED <<inner, entries, active, held>>
  BY DEF Update
<1>5. f \in BOOLEAN /\ (~f => Load(View(c), d) # Absent)
  BY DEF Read
<1> HIDE DEF f, L
<1> QED BY <1>2, <1>3, <1>4, <1>5, AdditionInv DEF L

LEMMA InitInv == Constants /\ DocInit => Inv
<1> SUFFICES ASSUME Constants, DocInit PROVE Inv
  OBVIOUS
<1>1. Empty \in UNION {[D -> (SUBSET Change) \cup {Absent}] : D \in SUBSET Doc} /\ DOMAIN Empty = {}
  <2>1. Empty \in [{} -> (SUBSET Change) \cup {Absent}] /\ DOMAIN Empty = {}
    BY DEF Empty
  <2>2. {} \in SUBSET Doc
    OBVIOUS
  <2> QED BY <2>1, <2>2
<1>2. Stored = {}
  BY DEF Stored, DocInit
<1>3. PastsComplete
  BY <1>1, <1>2 DEF PastsComplete, DocInit
<1>4. PatchIsIntended /\ ReadsIntended
  BY <1>1 DEF DocInit, PatchIsIntended, ReadsIntended, Of
<1>5. DocumentsFaithful
  <2>1. \A d : Of(entries, d) = {}
    BY DEF DocInit, Of
  <2> QED BY <2>1, LoadIs, LoadCases DEF DocumentsFaithful, DocInit
<1>6. DocTypeOK
  <2>1. intent \in [Task -> UNION {[D -> (SUBSET Change) \cup {Absent}] : D \in SUBSET Doc}]
    BY <1>1 DEF DocInit
  <2>2. DOMAIN log \subseteq Change /\ \A n \in DOMAIN log :
          log[n] \in [past : SUBSET DOMAIN log, own : BOOLEAN]
    BY <1>1 DEF DocInit
  <2>3. calls \in [Task -> 0 .. MaxCalls]
    BY DEF DocInit, Constants
  <2> QED BY <2>1, <2>2, <2>3 DEF DocTypeOK, DocInit
<1> QED BY <1>3, <1>4, <1>5, <1>6 DEF Inv

LEMMA NextInv == Constants /\ Inv /\ [DocNext]_docVars => Inv'
<1> SUFFICES ASSUME Constants, Inv, [DocNext]_docVars PROVE Inv'
  OBVIOUS
<1>1. ASSUME NEW c \in Task, DocBegin(c) PROVE Inv'
  BY <1>1, BeginInv
<1>2. ASSUME NEW c \in Task, DocCommit(c) PROVE Inv'
  BY <1>2, CommitInv
<1>3. ASSUME NEW c \in Task, DocRollback(c) PROVE Inv'
  BY <1>3, RollbackInv
<1>4. ASSUME NEW c \in Task, RemoveRange(c) PROVE Inv'
  BY <1>4, RemoveRangeInv
<1>5. ASSUME NEW c \in Task, NEW d \in Doc, Insert(c, d) PROVE Inv'
  BY <1>5, InsertInv
<1>6. ASSUME NEW c \in Task, NEW d \in Doc, InsertAgain(c, d) PROVE Inv'
  BY <1>6, InsertAgainInv
<1>7. ASSUME NEW c \in Task, NEW d \in Doc, Update(c, d) PROVE Inv'
  BY <1>7, UpdateInv
<1>8. ASSUME NEW c \in Task, NEW d \in Doc, DocRemove(c, d) PROVE Inv'
  BY <1>8, RemoveInv
<1>9. ASSUME NEW c \in Task, NEW d \in Doc, ReadToCompact(c, d) PROVE Inv'
  BY <1>9, ReadToCompactInv
<1>10. ASSUME NEW c \in Task, NEW h \in held[c], Compact(c, h) PROVE Inv'
  BY <1>10, CompactInv
<1>11. CASE UNCHANGED docVars
  <2>1. UNCHANGED <<entries, log, written, erased, history>>
    BY <1>11 DEF docVars, history
  <2>2. DocTypeOK' /\ PastsComplete'
    BY <1>11 DEF docVars, Inv, DocTypeOK, PastsComplete, Stored
  <2> QED BY <2>1, <2>2, SameReads DEF Inv
<1> QED BY <1>1, <1>2, <1>3, <1>4, <1>5, <1>6, <1>7, <1>8, <1>9, <1>10, <1>11 DEF DocNext

\* The inductive invariant holds of every reachable state of the tree.
THEOREM Invariance == ASSUME Constants PROVE DocSpec => []Inv
<1>1. DocInit => Inv
  BY InitInv
<1>2. Inv /\ [DocNext]_docVars => Inv'
  BY NextInv
<1> QED BY <1>1, <1>2, PTL DEF DocSpec

\* Entries, patches and the log keep their types, and only their authors' actors
\* and pasts are in the log.
THEOREM TypeCorrect == ASSUME Constants PROVE DocSpec => []DocTypeOK
<1>1. Inv => DocTypeOK
  BY DEF Inv
<1> QED BY <1>1, Invariance, PTL

\* Every document reads as the committed calls made it, unless two transactions
\* wrote it at a time or a call was out of place.
THEOREM AlwaysFaithful == ASSUME Constants PROVE DocSpec => []DocumentsFaithful
<1>1. Inv => DocumentsFaithful
  BY DEF Inv
<1> QED BY <1>1, Invariance, PTL

\* A compaction in place leaves what its transaction read.
THEOREM CompactionsKeep == ASSUME Constants PROVE DocSpec => CompactionKeeps
<1>1. Inv /\ [DocNext]_docVars =>
        [\A c \in Task : \A h \in held[c] :
           Compact(c, h) /\ Compactable(c, h) => Load(View(c)', h.doc) = h.has]_docVars
  <2> SUFFICES ASSUME Inv, NEW c \in Task, NEW h \in held[c], Compact(c, h), Compactable(c, h)
               PROVE  Load(View(c)', h.doc) = h.has
    OBVIOUS
  <2>1. LoadBy(log, Of(View(c)', h.doc)) = h.has
    BY CompactLoads
  <2>2. Load(View(c)', h.doc) = LoadBy(log, Of(View(c)', h.doc))
    BY DEF Load, LoadBy, Loaded, LoadedBy, GivenBy, Payload, PayloadBy, Doubled, DoubledBy, Of
  <2> QED BY <2>1, <2>2
<1> QED BY <1>1, Invariance, PTL DEF DocSpec, CompactionKeeps
=============================================================================
