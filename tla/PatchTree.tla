----------------------------- MODULE PatchTree ------------------------------
(***************************************************************************)
(* The in-memory B-tree.  A transaction collects its writes in a patch     *)
(* over the committed map and reads through it; every call takes the lock  *)
(* of the map anew, so commits of others come between the calls.  A commit *)
(* writes the patch with no check for conflicts.  A range read from the    *)
(* tree itself holds the read lock from its first entry to its last, and   *)
(* a task that waits for the write lock keeps new readers out.             *)
(*                                                                         *)
(* A task whose range of the tree is open makes no other call: the code    *)
(* does not prevent it, and a task that commits there waits for itself.    *)
(*                                                                         *)
(* `gone` records the keys a transaction found and removed; the code does  *)
(* not keep it, and no action reads it.  A remove_range also reports keys  *)
(* that another commit has removed since it began: those are not in it.    *)
(***************************************************************************)
EXTENDS Naturals

CONSTANTS
  Task,
  Key, Value,
  Deleted      (* the patch entry of a removed key *)

ASSUME KeyAssumption == Key \subseteq Nat
ASSUME DeletedAssumption == Deleted \notin Value

VARIABLES
  base,        \* the committed map
  open,        \* the tasks that have a transaction
  patch,       \* patch[c]: the writes of the transaction of c
  removing,    \* removing[c]: the keys its remove_range has still to remove
  gone,        \* gone[c]: keys it found, removed and has not written since
  reading,     \* the tasks that are in a range of the tree
  committing,  \* the tasks that are in commit
  writer       \* of them, the one that waits for the readers to leave

vars == <<base, open, patch, removing, gone, reading, committing, writer>>

Maps(V) == UNION {[K -> V] : K \in SUBSET Key}
Empty == [k \in {} |-> k]

TypeOK ==
  /\ base \in Maps(Value)
  /\ open \subseteq Task
  /\ patch \in [Task -> Maps(Value \cup {Deleted})]
  /\ removing \in [Task -> SUBSET Key]
  /\ gone \in [Task -> SUBSET Key]
  /\ reading \subseteq Task
  /\ committing \subseteq open
  /\ writer \subseteq committing

Init ==
  /\ base = Empty
  /\ open = {}
  /\ patch = [c \in Task |-> Empty]
  /\ removing = [c \in Task |-> {}]
  /\ gone = [c \in Task |-> {}]
  /\ reading = {}
  /\ committing = {}
  /\ writer = {}

-----------------------------------------------------------------------------
(* Patches *)

With(f, k, v) == [j \in DOMAIN f \cup {k} |-> IF j = k THEN v ELSE f[j]]

\* Where a patch has an entry it decides, and else the map.
Has(b, p, k) == IF k \in DOMAIN p THEN p[k] # Deleted ELSE k \in DOMAIN b
Get(b, p, k) == IF k \in DOMAIN p THEN p[k] ELSE b[k]

\* Fault: all of the patch is merged, whatever the range.
RangeWide(b, p, R) ==
  LET included == {k \in DOMAIN b \cap R : ~(k \in DOMAIN p /\ p[k] = Deleted)}
      present  == {k \in DOMAIN p : p[k] # Deleted}
  IN  [k \in included \cup present |-> IF k \in present THEN p[k] ELSE b[k]]

\* The map's entries in the range that are not removed, then the patch's.
ReadRange(b, p, R) ==
  LET included == {k \in DOMAIN b \cap R : ~(k \in DOMAIN p /\ p[k] = Deleted)}
      present  == {k \in DOMAIN p \cap R : p[k] # Deleted}
  IN  [k \in included \cup present |-> IF k \in present THEN p[k] ELSE b[k]]

\* Fault: removing a pending insert forgets it.
PatchForget(b, p, k) ==
  IF k \in DOMAIN p THEN [j \in DOMAIN p \ {k} |-> p[j]]
  ELSE IF k \in DOMAIN b THEN With(p, k, Deleted) ELSE p

\* Removing a key that is not there leaves no entry.
PatchRemove(b, p, k) == IF Has(b, p, k) THEN With(p, k, Deleted) ELSE p

\* Fault: the tree keeps the marks of removed keys.
CommitMarked(b, p) ==
  [k \in DOMAIN b \cup DOMAIN p |-> IF k \in DOMAIN p THEN p[k] ELSE b[k]]

\* Fault: only what the patch has is written.
CommitPresent(b, p) ==
  LET present == {k \in DOMAIN p : p[k] # Deleted}
  IN  [k \in DOMAIN b \cup present |-> IF k \in present THEN p[k] ELSE b[k]]

Committed(b, p) ==
  LET removed == {k \in DOMAIN p : p[k] = Deleted}
  IN  [k \in (DOMAIN b \cup DOMAIN p) \ removed |-> IF k \in DOMAIN p THEN p[k] ELSE b[k]]

-----------------------------------------------------------------------------
(* Transactions *)

\* What c's transaction reads.
View(c) == ReadRange(base, patch[c], Key)

\* c can call its transaction.
Free(c) == c \in open /\ c \notin reading \cup committing /\ removing[c] = {}

\* The read lock is taken and released within the call.
CanRead == writer = {}

locks == <<reading, committing, writer>>

Begin(c) ==
  /\ c \notin open \cup reading
  /\ open' = open \cup {c}
  /\ patch' = [patch EXCEPT ![c] = Empty]
  /\ gone' = [gone EXCEPT ![c] = {}]
  /\ UNCHANGED <<base, removing, locks>>

Put(c, k, v) ==
  /\ patch' = [patch EXCEPT ![c] = With(@, k, v)]
  /\ gone' = [gone EXCEPT ![c] = @ \ {k}]
  /\ UNCHANGED <<base, open, removing, locks>>

Insert(c, k, v) == Free(c) /\ Put(c, k, v)

\* The value is read and written in one call; v is what the caller makes of it.
Update(c, k, v) ==
  /\ Free(c)
  /\ CanRead
  /\ Has(base, patch[c], k)
  /\ Put(c, k, v)

Drop(c, k) ==
  /\ CanRead
  /\ patch' = [patch EXCEPT ![c] = PatchRemove(base, @, k)]
  /\ gone' = [gone EXCEPT ![c] = IF Has(base, patch[c], k) THEN @ \cup {k} ELSE @]

RemoveKey(c, k) ==
  /\ Free(c)
  /\ Drop(c, k)
  /\ UNCHANGED <<base, open, removing, locks>>

\* The keys are read at once and removed one by one, as the stream is read.
RemoveRange(c, R) ==
  /\ Free(c)
  /\ CanRead
  /\ removing' = [removing EXCEPT ![c] = DOMAIN ReadRange(base, patch[c], R)]
  /\ UNCHANGED <<base, open, patch, gone, locks>>

RemoveNext(c) ==
  \E k \in removing[c] :
    /\ \A j \in removing[c] : k <= j
    /\ Drop(c, k)
    /\ removing' = [removing EXCEPT ![c] = @ \ {k}]
    /\ UNCHANGED <<base, open, locks>>

\* The stream is dropped before its end.
RemoveStop(c) ==
  /\ removing[c] # {}
  /\ removing' = [removing EXCEPT ![c] = {}]
  /\ UNCHANGED <<base, open, patch, gone, locks>>

Rollback(c) ==
  /\ Free(c)
  /\ open' = open \ {c}
  /\ UNCHANGED <<base, patch, removing, gone, locks>>

-----------------------------------------------------------------------------
(* The lock *)

AskCommit(c) ==
  /\ Free(c)
  /\ committing' = committing \cup {c}
  /\ UNCHANGED <<base, open, patch, removing, gone, reading, writer>>

\* write(): one task at a time, and from now on no new reader.
Lock(c) ==
  /\ c \in committing
  /\ writer = {}
  /\ writer' = {c}
  /\ UNCHANGED <<base, open, patch, removing, gone, reading, committing>>

\* When the readers have left.
Commit(c) ==
  /\ c \in writer
  /\ reading = {}
  /\ base' = Committed(base, patch[c])
  /\ open' = open \ {c}
  /\ committing' = committing \ {c}
  /\ writer' = {}
  /\ UNCHANGED <<patch, removing, gone, reading>>

\* Fault: readers go before a task that waits to write.
OpenStreamAnyway(c) ==
  /\ c \notin reading \cup committing
  /\ removing[c] = {}
  /\ reading' = reading \cup {c}
  /\ UNCHANGED <<base, open, patch, removing, gone, committing, writer>>

\* The first entry of a range of the tree.
OpenStream(c) ==
  /\ c \notin reading \cup committing
  /\ removing[c] = {}
  /\ CanRead
  /\ reading' = reading \cup {c}
  /\ UNCHANGED <<base, open, patch, removing, gone, committing, writer>>

\* Its end, or the stream is dropped.
EndStream(c) ==
  /\ c \in reading
  /\ reading' = reading \ {c}
  /\ UNCHANGED <<base, open, patch, removing, gone, committing, writer>>

Step(c) ==
  \/ Begin(c) \/ Rollback(c) \/ AskCommit(c)
  \/ \E k \in Key, v \in Value : Insert(c, k, v) \/ Update(c, k, v)
  \/ \E k \in Key : RemoveKey(c, k)
  \/ \E m, n \in Key : RemoveRange(c, {k \in Key : m <= k /\ k <= n})
  \/ RemoveNext(c) \/ RemoveStop(c)
  \/ Lock(c) \/ Commit(c) \/ OpenStream(c) \/ EndStream(c)

Next == \E c \in Task : Step(c)

\* A task in commit is polled, gets the lock in its turn, and reads its ranges
\* to their ends.
Fairness ==
  \A c \in Task : SF_vars(Lock(c)) /\ WF_vars(Commit(c)) /\ WF_vars(EndStream(c))

Spec == Init /\ [][Next]_vars /\ Fairness

-----------------------------------------------------------------------------
(* Properties *)

\* A transaction that gets a key and one that reads a range over it see the
\* same, and a range has nothing else (InMemoryTransactionPatch get and range).
GetIsRange ==
  \A c \in open, m, n \in Key :
    LET R == {k \in Key : m <= k /\ k <= n}
        r == ReadRange(base, patch[c], R)
    IN  /\ DOMAIN r = {k \in R : Has(base, patch[c], k)}
        /\ \A k \in DOMAIN r : r[k] = Get(base, patch[c], k)

\* A commit leaves exactly what its transaction would have read just before
\* (InMemoryTransactionPatch range and commit).
CommitMakesView ==
  [][\A c \in Task : c \in committing /\ c \notin committing' => base' = View(c)]_vars

\* A key a transaction found and removed, alone or in a range, will not be there
\* after its commit, whatever other transactions commit meanwhile
\* (InMemoryTransactionPatch remove).
RemovalsHold == \A c \in open : \A k \in gone[c] : k \notin DOMAIN Committed(base, patch[c])

\* A commit ends, however many ranges others go on reading.
CommitsFinish == \A c \in Task : c \in committing ~> c \notin committing
=============================================================================
