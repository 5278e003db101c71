----------------------------- MODULE RecordMap ------------------------------
(***************************************************************************)
(* What the trait Storage promises: one map from <<namespace, key>> to a   *)
(* record, whatever holds it.  A put replaces the value and the time of    *)
(* the latest write and keeps the time of the first; a remove or a clear   *)
(* touches nothing outside its name or namespace.                          *)
(***************************************************************************)
EXTENDS Naturals

CONSTANTS Names, Values, Absent  \* Absent is not a record

VARIABLES
  callers,  \* do the calls overlap (never changes)
  records, now

vars == <<callers, records, now>>

Init == /\ callers \in {"serial", "overlapping"}
        /\ now = 0
        /\ records = [n \in Names |-> Absent]

Tick == /\ now' = now + 1
        /\ UNCHANGED <<callers, records>>

\* The times a put may write: one writer's are in order, but one that overlaps
\* with others may write any time up to now, also one before created_at.
Stamps(n) ==
  {t \in 0..now :
     callers = "serial" /\ records[n] # Absent => records[n].updated_at <= t}

Put(n, v) ==
  /\ \E t \in Stamps(n) :
       records' = [records EXCEPT ![n] =
         [value |-> v, updated_at |-> t,
          created_at |-> IF @ = Absent THEN t ELSE @.created_at]]
  /\ UNCHANGED <<callers, now>>

Delete(deleted) ==
  /\ records' = [n \in Names |-> IF n \in deleted THEN Absent ELSE records[n]]
  /\ UNCHANGED <<callers, now>>

Remove(n) == Delete({n})
Clear(ns) == Delete({n \in Names : n[1] = ns})

Next == \/ Tick
        \/ \E n \in Names : Remove(n) \/ Clear(n[1]) \/ \E v \in Values : Put(n, v)

Spec == Init /\ [][Next]_vars

=============================================================================
