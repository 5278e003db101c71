------------------------------ MODULE Storage -------------------------------
(***************************************************************************)
(* The two stores of crates/storage behind the trait Storage: MemoryStore, *)
(* a HashMap behind an RwLock, and SqliteStore, whose put is a transaction *)
(* of a select and an upsert.  Namespaces and keys are strings, that is    *)
(* sequences of characters, because MemoryStore joins the two with Sep and *)
(* takes them apart again; any string that is not blank is a namespace,    *)
(* also one that holds Sep.  Calls are numbered in the order they are      *)
(* made.                                                                   *)
(***************************************************************************)
EXTENDS SequencesExt

CONSTANTS
  MaxCalls,  \* bound on the calls of put, remove and clear_namespace
  MaxTime,   \* bound on the clock, in seconds
  Namespaces, Keys, Values,
  Sep,       \* the character '\0'
  None       \* no record, no time, no call

Calls == 1..MaxCalls
Times == 0..MaxTime

\* A stored value with its times, and the StoredRecord that names it.
Entries == [value : Values, created_at : Times, updated_at : Times]
Records == [namespace : Namespaces, key : Keys, value : Values,
            created_at : Times, updated_at : Times]

ASSUME StorageAssumption ==
  /\ {MaxCalls, MaxTime} \subseteq Nat
  /\ \A s \in Namespaces \cup Keys : s \in Seq(Range(s))
  /\ None \notin Times \cup Entries \cup Records

VARIABLES
  callers,   \* do the callers overlap their calls (never changes)
  kind,      \* which store it is, "memory" or "sqlite" (never changes)
  clock,     \* unix_seconds_now()
  store,     \* the HashMap or the table: slot -> record
  pc,        \* where each call stands
  call,      \* what a call under way does: its operation, name and value, the
             \* time it read, the created_at its transaction works with
  snapshots  \* transactions nobody has committed a write after

vars == <<callers, kind, clock, store, pc, call, snapshots>>

Init ==
  /\ callers \in {"serial", "overlapping"}
  /\ kind \in {"memory", "sqlite"}
  /\ clock = 0
  /\ store = << >>
  /\ pc = [p \in Calls |-> "idle"]
  /\ call = [p \in Calls |-> None]
  /\ snapshots = {}

Goto(p, label) == pc' = [pc EXCEPT ![p] = label]
Running == {p \in Calls : pc[p] \in {"select", "write"}}
Return(p) == Goto(p, "returned") /\ call' = [call EXCEPT ![p] = None]

-----------------------------------------------------------------------------
\* The place of a name: MemoryStore's qualified key, or the primary key.
Joined(n) == n[1] \o <<Sep>> \o n[2]
Slot(n) == IF kind = "memory" THEN Joined(n) ELSE n

\* (mutant) rsplit_once
SplitLast(q) ==
  LET at == SelectLastInSeq(q, LAMBDA c : c = Sep)
  IN  <<SubSeq(q, 1, at - 1), SubSeq(q, at + 1, Len(q))>>

\* split_once('\0') of a qualified key.
SplitOnce(q) ==
  LET at == SelectInSeq(q, LAMBDA c : c = Sep)
  IN  <<SubSeq(q, 1, at - 1), SubSeq(q, at + 1, Len(q))>>

NameOf(slot) == IF kind = "memory" THEN SplitOnce(slot) ELSE slot

\* (mutant) a namespace is taken for the slots that begin with its name
SlotsByPrefix(ns) == {q \in DOMAIN store : IsPrefix(ns, NameOf(q)[1])}

SlotsIn(ns) == {q \in DOMAIN store : NameOf(q)[1] = ns}

\* The reading operations.  count_namespace of MemoryStore looks at prefixes.
Get(n) == IF Slot(n) \in DOMAIN store THEN store[Slot(n)] ELSE None
KeysOf(ns) == {NameOf(q)[2] : q \in SlotsIn(ns)}
CountOf(ns) ==
  IF kind = "memory"
    THEN Cardinality({q \in DOMAIN store : IsPrefix(ns \o <<Sep>>, q)})
    ELSE Cardinality(SlotsIn(ns))

\* The map with a record written, and with some slots emptied.
Written(n, v, created, updated) ==
  [q \in DOMAIN store \cup {Slot(n)} |->
     IF q = Slot(n)
       THEN [namespace |-> n[1], key |-> n[2], value |-> v,
             created_at |-> created, updated_at |-> updated]
       ELSE store[q]]
Without(slots) == [q \in DOMAIN store \ slots |-> store[q]]

\* A write ends every other transaction's snapshot.
Commit(p, contents) == /\ store' = contents
                       /\ snapshots' = {}
                       /\ Return(p)

-----------------------------------------------------------------------------
Tick == /\ clock < MaxTime
        /\ clock' = clock + 1
        /\ UNCHANGED <<callers, kind, store, pc, call, snapshots>>

\* A put reads the clock before it asks for the lock or the transaction.
Requests ==
  {[op |-> "put", name |-> n, value |-> v, now |-> clock, seen |-> None] :
     n \in Namespaces \X Keys, v \in Values}
  \cup {[op |-> "remove", name |-> n] : n \in Namespaces \X Keys}
  \cup {[op |-> "clear", name |-> <<ns>>] : ns \in Namespaces}

\* Blank names (here: empty) are refused.
Valid(request) == <<>> \notin Range(request.name)

Begin(p) ==
  /\ pc[p] = "idle"
  /\ \A q \in 1..(p - 1) : pc[q] # "idle"
  /\ callers = "serial" => Running = {}
  /\ \E r \in Requests :
       IF Valid(r)
         THEN /\ call' = [call EXCEPT ![p] = r]
              /\ Goto(p, IF r.op = "put" /\ kind = "sqlite" THEN "select"
                                                            ELSE "write")
         ELSE Return(p)
  /\ UNCHANGED <<callers, kind, clock, store, snapshots>>

\* make_record: a first write looks at the clock again.
MakeRecord(n, v, time) ==
  IF Get(n) = None THEN Written(n, v, clock, clock)
                   ELSE Written(n, v, Get(n).created_at, time)

\* MemoryStore::put, with the write lock.
PutMemory(p) ==
  /\ kind = "memory" /\ pc[p] = "write" /\ call[p].op = "put"
  /\ Commit(p, MakeRecord(call[p].name, call[p].value, call[p].now))
  /\ UNCHANGED <<callers, kind, clock>>

\* (mutant) no row, no created_at
CreatedAtUnchecked(n, time) == IF Get(n) = None THEN None ELSE Get(n).created_at

CreatedAt(n, time) == IF Get(n) = None THEN time ELSE Get(n).created_at

\* SqliteStore::put: begin, and select created_at.
PutSelect(p) ==
  /\ pc[p] = "select"
  /\ call' = [call EXCEPT ![p].seen = CreatedAt(call[p].name, call[p].now)]
  /\ snapshots' = snapshots \cup {p}
  /\ Goto(p, "write")
  /\ UNCHANGED <<callers, kind, clock, store>>

\* The upsert, whose update leaves created_at alone, and the commit.  SQLite
\* serialises: a transaction whose snapshot is out of date is refused.
PutUpsert(p) ==
  /\ pc[p] = "write" /\ p \in snapshots
  /\ Commit(p, Written(call[p].name, call[p].value,
                       CreatedAt(call[p].name, call[p].seen), call[p].now))
  /\ UNCHANGED <<callers, kind, clock>>

\* Any statement may fail (database locked, I/O): nothing is written.
SqlFail(p) ==
  /\ kind = "sqlite" /\ p \in Running
  /\ Return(p)
  /\ snapshots' = snapshots \ {p}
  /\ UNCHANGED <<callers, kind, clock, store>>

\* One step in either store: under the write lock, or a single DELETE.
RemoveKey(p) ==
  /\ pc[p] = "write" /\ call[p].op = "remove"
  /\ Commit(p, Without({Slot(call[p].name)}))
  /\ UNCHANGED <<callers, kind, clock>>

ClearNamespace(p) ==
  /\ pc[p] = "write" /\ call[p].op = "clear"
  /\ Commit(p, Without(SlotsIn(call[p].name[1])))
  /\ UNCHANGED <<callers, kind, clock>>

Next ==
  \/ Tick
  \/ \E p \in Calls : \/ Begin(p) \/ PutMemory(p) \/ PutSelect(p) \/ PutUpsert(p)
                      \/ SqlFail(p) \/ RemoveKey(p) \/ ClearNamespace(p)

Spec == Init /\ [][Next]_vars

=============================================================================
