----------------------------- MODULE MCStorage ------------------------------
\* Properties of Storage and its model-checking instance: a namespace that
\* holds the separator and begins with another one's name, a key that makes
\* the other's names collide with its own, and a blank key.
EXTENDS Storage

MCNamespaces == {<<"a">>, <<"a", "0", "b">>}
MCKeys == {<<"k">>, <<"b", "0", "k">>, <<>>}

\* The names a record can have, and with them those MemoryStore makes of them.
Names == {n \in Namespaces \X Keys : <<>> \notin Range(n)}
Places == Names \cup {SplitOnce(Joined(n)) : n \in Names}

\* Does the store keep a namespace apart from the others?  MemoryStore takes
\* one that holds the separator for the part before it.
Apart(ns) == kind = "sqlite" \/ ~Contains(ns, Sep)

\* Every variable has its type.
TypeOK ==
  /\ callers \in {"serial", "overlapping"}
  /\ kind \in {"memory", "sqlite"}
  /\ clock \in Times
  /\ DOMAIN store \subseteq {Slot(n) : n \in Names}
  /\ \A q \in DOMAIN store : store[q] \in Records
  /\ pc \in [Calls -> {"idle", "select", "write", "returned"}]
  /\ \A p \in Calls :
       IF p \in Running
         THEN call[p] \in Requests
                \/ /\ call[p].op = "put" /\ call[p].now \in Times
                   /\ call[p].seen \in Times \cup {None}
         ELSE call[p] = None
  /\ snapshots \subseteq Calls

\* get, keys and count_namespace agree about what is stored under a namespace
\* that is kept apart; keys and clear_namespace find nothing under another,
\* though get does.  What get finds was put under the name it looks for, but
\* in MemoryStore, whose namespaces are not isolated (CHANGELOG.md:31) when one
\* holds the separator: then it may be a record of another name joined alike.
ViewsAgree ==
  /\ \A ns \in Namespaces :
       IF Apart(ns)
         THEN /\ KeysOf(ns) =
                   {n[2] : n \in {m \in Places : m[1] = ns /\ Get(m) # None}}
              /\ CountOf(ns) = Cardinality(KeysOf(ns))
         ELSE KeysOf(ns) = {}
  /\ \A n \in Names : Get(n) # None =>
       LET own == <<Get(n).namespace, Get(n).key>>
       IN  \/ own = n
           \/ (~Apart(n[1]) \/ ~Apart(own[1])) /\ Joined(own) = Joined(n)

\* A stored record as RecordMap has it.
Abstract(r) ==
  IF r = None THEN None
  ELSE [value |-> r.value, created_at |-> r.created_at, updated_at |-> r.updated_at]

\* A name of a namespace that is not kept apart has no record of its own: what
\* is put, removed or found there is that of the place it is taken for.
Map == INSTANCE RecordMap WITH
  Names <- Places,
  Absent <- None,
  records <- [n \in Places |-> IF Apart(n[1]) THEN Abstract(Get(n)) ELSE None],
  now <- clock

\* However calls overlap, and whatever fails half way, each store is the one
\* map of the trait, SQLite of all names and MemoryStore of the places it has
\* for them: a put keeps created_at, a clear empties one namespace only.  The
\* times of a caller who makes one call at a time are in order.
ImplementsMap == Map!Spec

\* The docs of StoredRecord: created_at is the time of the first write and
\* updated_at that of the latest, so the one is not after the other.
TimesInOrder ==
  \A n \in Names : Get(n) # None => Get(n).created_at <= Get(n).updated_at

=============================================================================
