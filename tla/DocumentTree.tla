---------------------------- MODULE DocumentTree -----------------------------
(***************************************************************************)
(* Automerge documents in a B-tree of entries: a document is its snapshot  *)
(* entries and its incremental entries, loaded in this order.  A change is *)
(* a number; an entry is named by the changes its document had when it was *)
(* saved, for which the code has a hash of the heads.                      *)
(*                                                                         *)
(* The tree underneath is the in-memory one, whose transactions are patches*)
(* over the committed entries that overlap and never conflict, or redb's,  *)
(* which has one transaction at a time.                                    *)
(*                                                                         *)
(* A compaction is two calls: the document is read, and then its keys.     *)
(* `run_compaction` is public; `tx_get_document` would call it as the      *)
(* tree's policy says, but every caller of that forbids it.                *)
(*                                                                         *)
(* Of Automerge: `Payload`, the queue of changes whose past is missing, and*)
(* the refusal of two changes with one actor and one number.               *)
(***************************************************************************)
EXTENDS Naturals, FiniteSets

CONSTANTS
  Task,
  Doc,
  Change,          \* the numbers of the changes that are there at a time
  MaxCalls,        \* the calls a transaction makes
  Absent,          \* no entry
  Unreadable       \* entries whose loading fails

VARIABLES
  inner,           \* "memory" or "redb": the tree underneath
  entries,         \* its committed entries
  log,             \* log[n]: the changes n's author had, and whether the author
                   \* is the document's own actor
  active,          \* the tasks that have a transaction
  calls,           \* calls[c]: those it has made
  written, erased, \* what the transaction of a task inserts and removes
  held,            \* held[c]: the documents c has read to compact them
  meant,           \* meant[d]: what the committed calls make of d
  intent,          \* intent[c][d]: what the calls of c make of d, if any
  behind,          \* behind[c]: those of them that others have committed since
  astray,          \* astray[c]: those c has updated or compacted out of place
  mixed            \* the documents committed by one that was behind or astray

docVars == <<inner, entries, log, active, calls, written, erased, held, meant,
             intent, behind, astray, mixed>>

\* The last five are history: no call reads them.
history == <<meant, intent, behind, astray, mixed>>

Entry == [doc : Doc, kind : {"snapshot", "incremental"}, has : SUBSET Change]
Empty == [d \in {} |-> d]

DocTypeOK ==
  /\ inner \in {"memory", "redb"}
  /\ entries \subseteq Entry
  /\ DOMAIN log \subseteq Change
  /\ calls \in [Task -> 0 .. MaxCalls]
  /\ \A n \in DOMAIN log : log[n] \in [past : SUBSET DOMAIN log, own : BOOLEAN]
  /\ active \subseteq Task
  /\ {written, erased} \subseteq [Task -> SUBSET Entry]
  /\ held \in [Task -> SUBSET [doc : Doc, has : SUBSET Change]]
  /\ meant \in [Doc -> (SUBSET Change) \cup {Absent}]
  /\ intent \in [Task -> UNION {[D -> (SUBSET Change) \cup {Absent}] : D \in SUBSET Doc}]
  /\ {behind, astray} \subseteq [Task -> SUBSET Doc]
  /\ mixed \subseteq Doc

DocInit ==
  /\ inner \in {"memory", "redb"}
  /\ entries = {}
  /\ log = Empty
  /\ active = {}
  /\ calls = [c \in Task |-> 0]
  /\ written = [c \in Task |-> {}]
  /\ erased = [c \in Task |-> {}]
  /\ held = [c \in Task |-> {}]
  /\ meant = [d \in Doc |-> Absent]
  /\ intent = [c \in Task |-> Empty]
  /\ behind = [c \in Task |-> {}]
  /\ astray = [c \in Task |-> {}]
  /\ mixed = {}

-----------------------------------------------------------------------------
(* Loading *)

Of(E, d) == {e \in E : e.doc = d}

\* A snapshot is the whole document, an incremental entry what its update made.
Payload(e) ==
  IF e.kind = "snapshot" THEN e.has
  ELSE {n \in e.has : \A m \in e.has : n \notin log[m].past}

\* Fault: a snapshot replaces the one before it.
LoadedLast(E, d) ==
  LET snapshots == {e \in Of(E, d) : e.kind = "snapshot"}
      last  == {CHOOSE e \in snapshots : TRUE}
      given == UNION {Payload(e) : e \in (Of(E, d) \ snapshots) \cup last}
  IN  {n \in given : log[n].past \subseteq given}

\* Changes that follow one that is missing stay in the document's queue.
Loaded(E, d) ==
  LET given == UNION {Payload(e) : e \in Of(E, d)}
  IN  {n \in given : log[n].past \subseteq given}

\* Two updates of the document's actor that have not seen each other.
Doubled(C) ==
  \E m, n \in C :
    /\ m # n
    /\ log[m].own /\ log[n].own
    /\ m \notin log[n].past /\ n \notin log[m].past

\* The snapshots come first; with none there is nothing to load changes into.
Load(E, d) ==
  IF Of(E, d) = {} THEN Absent
  ELSE IF (\A e \in Of(E, d) : e.kind = "incremental") \/ Doubled(Loaded(E, d))
       THEN Unreadable
       ELSE Loaded(E, d)

Known(contents) == IF contents = Absent THEN {} ELSE contents

Snapshot(d, has) == [doc |-> d, kind |-> "snapshot", has |-> has]
Incremental(d, has) == [doc |-> d, kind |-> "incremental", has |-> has]

-----------------------------------------------------------------------------
(* Transactions *)

\* What c reads: the entries committed now, under its patch.
View(c) == (entries \ erased[c]) \cup written[c]
Read(c, d) == Load(View(c), d)

Put(c, e) ==
  /\ written' = [written EXCEPT ![c] = @ \cup {e}]
  /\ erased' = [erased EXCEPT ![c] = @ \ {e}]

Erase(c, E) ==
  /\ written' = [written EXCEPT ![c] = @ \ E]
  /\ erased' = [erased EXCEPT ![c] = @ \cup (E \cap View(c))]

Call(c) ==
  /\ c \in active
  /\ calls[c] < MaxCalls
  /\ calls' = [calls EXCEPT ![c] = @ + 1]

\* A change made with the document's actor or another.
New(n, past, own) ==
  /\ n \in Change \ DOMAIN log
  /\ \A m \in Change \ DOMAIN log : n <= m
  /\ log' = [m \in DOMAIN log \cup {n} |->
               IF m = n THEN [past |-> past, own |-> own] ELSE log[m]]

Before(c, d) == IF d \in DOMAIN intent[c] THEN intent[c][d] ELSE meant[d]

\* History: the calls of c make `contents` of d; f: it is against the contract.
Intend(c, d, contents, f) ==
  /\ intent' = [intent EXCEPT ![c] =
                  [x \in DOMAIN @ \cup {d} |-> IF x = d THEN contents ELSE @[x]]]
  /\ astray' = [astray EXCEPT ![c] = IF f THEN @ \cup {d} ELSE @]
  /\ UNCHANGED <<meant, behind, mixed>>

\* redb's begin_write waits for the transaction that is open.
DocBegin(c) ==
  /\ c \notin active
  /\ inner = "redb" => active = {}
  /\ active' = active \cup {c}
  /\ UNCHANGED <<inner, entries, log, calls, written, erased, held, history>>

\* A document of the caller's, with no change or one, is saved as a snapshot.
\* Entries that are there stay: the document becomes both.
Insert(c, d) ==
  /\ Call(c)
  /\ \/ Put(c, Snapshot(d, {})) /\ Intend(c, d, Known(Before(c, d)), FALSE) /\ UNCHANGED log
     \/ \E n \in Change :
          /\ New(n, {}, FALSE)
          /\ Put(c, Snapshot(d, {n}))
          /\ Intend(c, d, Known(Before(c, d)) \cup {n}, FALSE)
  /\ UNCHANGED <<inner, entries, active, held>>

\* A document that was read, changed, and inserted again.
InsertAgain(c, d) ==
  /\ Call(c)
  /\ Read(c, d) \notin {Absent, Unreadable}
  /\ \E n \in Change :
       /\ New(n, Read(c, d), TRUE)
       /\ Put(c, Snapshot(d, Read(c, d) \cup {n}))
       /\ Intend(c, d, Known(Before(c, d)) \cup {n}, FALSE)
  /\ UNCHANGED <<inner, entries, active, held>>

\* A document that is missing gets an incremental entry too.
Update(c, d) ==
  /\ Call(c)
  /\ Read(c, d) # Unreadable
  /\ \E n \in Change :
       /\ New(n, Known(Read(c, d)), TRUE)
       /\ Put(c, Incremental(d, Known(Read(c, d)) \cup {n}))
       /\ Intend(c, d, Known(Before(c, d)) \cup {n}, Read(c, d) = Absent)
  /\ UNCHANGED <<inner, entries, active, held>>

\* Fault: the incremental entries stay.
DocRemoveSnapshots(c, d) ==
  /\ Call(c)
  /\ Erase(c, {e \in Of(View(c), d) : e.kind = "snapshot"})
  /\ Intend(c, d, Absent, FALSE)
  /\ UNCHANGED <<inner, entries, log, active, held>>

\* Of a document that cannot be loaded too.
DocRemove(c, d) ==
  /\ Call(c)
  /\ Erase(c, Of(View(c), d))
  /\ Intend(c, d, Absent, FALSE)
  /\ UNCHANGED <<inner, entries, log, active, held>>

\* The stream of remove_range is read to its end; before, nothing is removed.
RemoveRange(c) ==
  /\ Call(c)
  /\ Erase(c, View(c))
  /\ intent' = [intent EXCEPT ![c] = [d \in Doc |-> Absent]]
  /\ UNCHANGED <<inner, entries, log, active, held, meant, behind, astray, mixed>>

\* The first of the two calls of a compaction.
ReadToCompact(c, d) ==
  /\ Call(c)
  /\ Read(c, d) \notin {Absent, Unreadable}
  /\ held' = [held EXCEPT ![c] = {[doc |-> d, has |-> Read(c, d)]}]
  /\ UNCHANGED <<inner, entries, log, active, written, erased, history>>

\* The document that was read is the one that is there, and not as one snapshot.
Compactable(c, h) == Read(c, h.doc) = h.has /\ Snapshot(h.doc, h.has) \notin View(c)

\* Fault: the keys are read after the snapshot was inserted.
CompactLate(c, h) ==
  LET keys == Of(View(c), h.doc) \cup {Snapshot(h.doc, h.has)} IN
  /\ Call(c)
  /\ held' = [held EXCEPT ![c] = {}]
  /\ written' = [written EXCEPT ![c] = @ \ keys]
  /\ erased' = [erased EXCEPT ![c] = @ \cup keys]
  /\ Intend(c, h.doc, Before(c, h.doc), ~Compactable(c, h))
  /\ UNCHANGED <<inner, entries, log, active>>

\* The second, run_compaction: its keys are read, the snapshot is inserted, and
\* the keys are removed.
Compact(c, h) ==
  LET keys == Of(View(c), h.doc)
      new  == Snapshot(h.doc, h.has)
  IN
  /\ Call(c)
  /\ held' = [held EXCEPT ![c] = {}]
  /\ written' = [written EXCEPT ![c] = (@ \cup {new}) \ keys]
  /\ erased' = [erased EXCEPT ![c] = (@ \ {new}) \cup keys]
  /\ Intend(c, h.doc, Before(c, h.doc), ~Compactable(c, h))
  /\ UNCHANGED <<inner, entries, log, active>>

\* The changes somebody has; the numbers of others are free again.
Used == UNION {e.has : e \in entries \cup UNION {written[c] \cup erased[c] \cup held[c] : c \in Task}}

Ended(c) ==
  /\ active' = active \ {c}
  /\ calls' = [calls EXCEPT ![c] = 0]
  /\ written' = [written EXCEPT ![c] = {}]
  /\ erased' = [erased EXCEPT ![c] = {}]
  /\ held' = [held EXCEPT ![c] = {}]
  /\ intent' = [intent EXCEPT ![c] = Empty]
  /\ astray' = [astray EXCEPT ![c] = {}]
  /\ log' = [n \in Used' |-> log[n]]
  /\ UNCHANGED inner

\* A document that no entry is left of is as good as new.
DocCommit(c) ==
  /\ c \in active
  /\ entries' = View(c)
  /\ LET unsure == mixed \cup behind[c] \cup astray[c]
         touched == DOMAIN intent[c]
         lost   == {d \in touched \cap unsure : Of(entries', d) = {}}
     IN  /\ mixed' = (mixed \cup (touched \cap unsure)) \ lost
         /\ meant' = [d \in Doc |-> IF d \in touched \cap unsure THEN Absent ELSE Before(c, d)]
         /\ behind' = [t \in Task |-> IF t = c THEN {}
                                      ELSE behind[t] \cup (touched \cap DOMAIN intent[t])]
  /\ Ended(c)

DocRollback(c) ==
  /\ c \in active
  /\ behind' = [behind EXCEPT ![c] = {}]
  /\ UNCHANGED <<entries, meant, mixed>>
  /\ Ended(c)

DocNext ==
  \E c \in Task :
    \/ DocBegin(c) \/ DocCommit(c) \/ DocRollback(c) \/ RemoveRange(c)
    \/ \E d \in Doc : Insert(c, d) \/ InsertAgain(c, d) \/ Update(c, d)
                      \/ DocRemove(c, d) \/ ReadToCompact(c, d)
    \/ \E h \in held[c] : Compact(c, h)

DocSpec == DocInit /\ [][DocNext]_docVars

-----------------------------------------------------------------------------
(* Properties *)

\* Every document reads as the committed calls made it, whatever entries they
\* left, unless two transactions wrote it at a time, or one updated it when it
\* was missing, or compacted it when it had changed or was one snapshot
\* (AutomergeBTreeTransaction).
DocumentsFaithful == \A d \in Doc \ mixed : Load(entries, d) = meant[d]

\* A commit that removes no entry of a document loses none of its changes, one
\* over commits it has not seen neither, unless updates of two transactions meet
\* and leave it unreadable (AutomergeBTreeTransaction insert, update).
AdditionsKept ==
  [][\A c \in Task, d \in Doc :
       /\ DocCommit(c)
       /\ Of(erased[c], d) = {}
       /\ Load(entries, d) \notin {Absent, Unreadable}
       => Load(entries, d)' = Unreadable \/ Load(entries, d) \subseteq Load(entries, d)']_docVars

\* A compaction leaves what its transaction reads, where the snapshot it writes
\* is not there yet and the document is as it was read (run_compaction).
CompactionKeeps ==
  [][\A c \in Task : \A h \in held[c] :
       Compact(c, h) /\ Compactable(c, h) => Load(View(c)', h.doc) = h.has]_docVars
=============================================================================
