--------------------------- MODULE Storage_proofs ---------------------------
(***************************************************************************)
(* Proofs, for any namespaces, keys, values and number of calls, that the  *)
(* views of both stores agree and that both implement RecordMap, however   *)
(* calls overlap and whatever statement fails, also when namespaces and    *)
(* keys hold the separator.                                                *)
(***************************************************************************)
EXTENDS MCStorage, SequenceTheorems, FiniteSetTheorems, WellFoundedInduction, TLAPS

\* A slot holds a record that was put there.
StoreOK ==
  /\ IsFiniteSet(DOMAIN store)
  /\ \A q \in DOMAIN store :
       LET own == <<store[q].namespace, store[q].key>>
       IN  own \in Names /\ Slot(own) = q

\* What a call under way works with: valid names, and a time that has been.
Puts == [op : {"put"}, name : Names, value : Values, now : 0..clock,
         seen : Times \cup {None}]
Removes == [op : {"remove"}, name : Names]
Clears == [op : {"clear"}, name : {<<ns>> : ns \in Namespaces}]

CallsOK ==
  /\ DOMAIN call = Calls
  /\ \A p \in Calls :
       /\ pc[p] = "select" => kind = "sqlite" /\ call[p] \in Puts
       /\ pc[p] = "write" => call[p] \in Puts \cup Removes \cup Clears

\* A transaction whose snapshot stands has seen what is there now.
Current(c) ==
  kind = "sqlite" /\ c \in Puts /\ c.seen = CreatedAt(c.name, c.now)

SnapshotsOK == \A p \in snapshots : pc[p] = "write" /\ Current(call[p])

\* Nothing is stored that is later than the clock; one call at a time finds
\* nothing stored that is later than what it has read.
TimesOK ==
  /\ \A q \in DOMAIN store : store[q].updated_at <= clock
  /\ callers = "serial" =>
       \A p \in Running :
         /\ \A r \in Running : r = p
         /\ call[p].op = "put" =>
              \A q \in DOMAIN store : store[q].updated_at <= call[p].now

IInv == TypeOK /\ StoreOK /\ CallsOK /\ SnapshotsOK /\ TimesOK

-----------------------------------------------------------------------------
\* A pair of strings.
IsPair(n) == /\ n = <<n[1], n[2]>>
             /\ n[1] \in Seq(Range(n[1])) /\ n[2] \in Seq(Range(n[2]))

\* The characters of a pair and the separator.
Chars(n) == Range(n[1]) \cup {Sep} \cup Range(n[2])

\* A sequence has its own characters.
LEMMA OwnCharacters ==
  ASSUME NEW S, NEW s \in Seq(S)
  PROVE  s \in Seq(Range(s))
<1>1. Len(s) \in Nat /\ DOMAIN s = 1..Len(s)
  BY LenProperties
<1>2. \A i \in 1..Len(s) : s[i] \in Range(s)
  BY <1>1 DEF Range
<1>3. SubSeq(s, 1, Len(s)) \in Seq(Range(s))
  BY <1>1, <1>2, SubSeqProperties
<1>4. QED
  BY <1>3, SubSeqFull

\* The names are pairs.
LEMMA NamesArePairs ==
  ASSUME NEW n \in Names
  PROVE  IsPair(n) /\ n[1] \in Namespaces /\ n[2] \in Keys
<1>1. n = <<n[1], n[2]>> /\ n[1] \in Namespaces /\ n[2] \in Keys
  BY DEF Names
<1>2. QED
  BY <1>1, StorageAssumption DEF IsPair

\* The parts of a pair as sequences of the same characters.
LEMMA PairCharacters ==
  ASSUME NEW n, IsPair(n)
  PROVE  /\ n[1] \in Seq(Chars(n)) /\ n[2] \in Seq(Chars(n))
         /\ <<Sep>> \in Seq(Chars(n))
         /\ Len(n[1]) \in Nat /\ Len(n[2]) \in Nat
<1>1. n[1] \in Seq(Range(n[1])) /\ n[2] \in Seq(Range(n[2]))
  BY DEF IsPair
<1>2. \A S, T : S \subseteq T => Seq(S) \subseteq Seq(T)
  BY SeqMonotonic
<1>3. n[1] \in Seq(Chars(n)) /\ n[2] \in Seq(Chars(n))
  BY <1>1, <1>2 DEF Chars
<1>4. <<Sep>> \in Seq(Chars(n))
  BY DEF Chars
<1>5. QED
  BY <1>3, <1>4, LenProperties

\* The characters of a joined name, by their position.
LEMMA JoinedCharacters ==
  ASSUME NEW n, IsPair(n)
  PROVE  /\ Joined(n) \in Seq(Chars(n))
         /\ Len(Joined(n)) = Len(n[1]) + 1 + Len(n[2])
         /\ \A i \in 1..Len(n[1]) : Joined(n)[i] = n[1][i]
         /\ Joined(n)[Len(n[1]) + 1] = Sep
         /\ \A i \in 1..Len(n[2]) : Joined(n)[Len(n[1]) + 1 + i] = n[2][i]
<1> DEFINE S == Chars(n)
           head == n[1] \o <<Sep>>
<1>1. n[1] \in Seq(S) /\ n[2] \in Seq(S) /\ <<Sep>> \in Seq(S)
  BY PairCharacters
<1> HIDE DEF S
<1>2. Len(n[1]) \in Nat /\ Len(n[2]) \in Nat /\ Len(<<Sep>>) = 1 /\ <<Sep>>[1] = Sep
  BY <1>1
<1>3. /\ head \in Seq(S) /\ Len(head) = Len(n[1]) + 1
      /\ \A i \in 1..Len(n[1]) + 1 :
           head[i] = IF i <= Len(n[1]) THEN n[1][i] ELSE <<Sep>>[i - Len(n[1])]
  BY <1>1, <1>2, ConcatProperties
<1> HIDE DEF head
<1>4. /\ head \o n[2] \in Seq(S) /\ Len(head \o n[2]) = Len(head) + Len(n[2])
      /\ \A i \in 1..Len(head) + Len(n[2]) :
           (head \o n[2])[i] = IF i <= Len(head) THEN head[i] ELSE n[2][i - Len(head)]
  <2>1. head \in Seq(S) /\ n[2] \in Seq(S)
    BY <1>1, <1>3
  <2>2. \A u, w \in Seq(S) :
          /\ u \o w \in Seq(S) /\ Len(u \o w) = Len(u) + Len(w)
          /\ \A i \in 1..Len(u) + Len(w) :
               (u \o w)[i] = IF i <= Len(u) THEN u[i] ELSE w[i - Len(u)]
    BY ConcatProperties
  <2>3. QED
    BY <2>1, <2>2
<1>5. Joined(n) = head \o n[2]
  BY DEF Joined, head
<1>6. \A i \in 1..Len(n[1]) : Joined(n)[i] = n[1][i]
  BY <1>2, <1>3, <1>4, <1>5
<1>7. Joined(n)[Len(n[1]) + 1] = Sep
  BY <1>2, <1>3, <1>4, <1>5
<1>8. \A i \in 1..Len(n[2]) : Joined(n)[Len(n[1]) + 1 + i] = n[2][i]
  BY <1>2, <1>3, <1>4, <1>5, SMTT(30)
<1>9. QED
  BY <1>3, <1>4, <1>5, <1>6, <1>7, <1>8 DEF S

\* The first separator of a joined name is the one that joins it, when the
\* namespace holds none.
LEMMA FirstSeparator ==
  ASSUME NEW n, IsPair(n), ~Contains(n[1], Sep)
  PROVE  SelectInSeq(Joined(n), LAMBDA c : c = Sep) = Len(n[1]) + 1
<1> DEFINE q == Joined(n)
           I == {i \in 1..Len(q) : q[i] = Sep}
           m == Len(n[1]) + 1
<1>1. Len(n[1]) \in Nat /\ Len(n[2]) \in Nat
  BY PairCharacters
<1>2. /\ Len(q) = m + Len(n[2]) /\ q[m] = Sep
      /\ \A i \in 1..Len(n[1]) : q[i] = n[1][i]
  BY <1>1, JoinedCharacters
<1>3. \A i \in 1..Len(n[1]) : n[1][i] # Sep
  BY DEF Contains
<1>10. m \in Nat /\ m >= 1 /\ Len(n[1]) = m - 1
  BY <1>1
<1> HIDE DEF q, m
<1>4. m \in I
  BY <1>1, <1>2, <1>10
<1>5. \A i \in I : m <= i
  BY <1>1, <1>2, <1>3, <1>10
<1>6. \A i \in I : (\A j \in I : i <= j) => i = m
  BY <1>1, <1>2, <1>4, <1>5, <1>10
<1> HIDE DEF I
<1>7. Min(I) = m
  BY <1>4, <1>5, <1>6 DEF Min
<1>8. SelectInSeq(q, LAMBDA c : c = Sep) = Min(I)
  BY <1>4 DEF SelectInSeq, I
<1>9. QED
  BY <1>7, <1>8 DEF q, m

\* So splitting such a name gives it back, whatever its key holds.
LEMMA SplitJoined ==
  ASSUME NEW n, IsPair(n), ~Contains(n[1], Sep)
  PROVE  SplitOnce(Joined(n)) = n
<1> DEFINE q == Joined(n)
           S == Chars(n)
           m == Len(n[1])
           k == Len(n[2])
<1>1. m \in Nat /\ k \in Nat /\ n[1] \in Seq(S) /\ n[2] \in Seq(S)
  BY PairCharacters
<1>2. /\ q \in Seq(S) /\ Len(q) = m + 1 + k
      /\ \A i \in 1..m : q[i] = n[1][i]
      /\ \A i \in 1..k : q[m + 1 + i] = n[2][i]
  BY JoinedCharacters
<1>3. SplitOnce(q) = <<SubSeq(q, 1, m), SubSeq(q, m + 2, Len(q))>>
  <2>1. SelectInSeq(q, LAMBDA c : c = Sep) = m + 1
    BY FirstSeparator
  <2>2. SplitOnce(q) = <<SubSeq(q, 1, (m + 1) - 1), SubSeq(q, (m + 1) + 1, Len(q))>>
    BY <2>1 DEF SplitOnce
  <2> HIDE DEF q, m
  <2>3. (m + 1) - 1 = m /\ (m + 1) + 1 = m + 2
    BY <1>1
  <2>4. QED
    BY <2>2, <2>3
<1> HIDE DEF q, S, m, k
<1>4. SubSeq(q, 1, m) = n[1]
  <2>1. /\ SubSeq(q, 1, m) \in Seq(S) /\ Len(SubSeq(q, 1, m)) = m
        /\ \A i \in 1..m : SubSeq(q, 1, m)[i] = q[i]
    BY <1>1, <1>2
  <2>2. QED
    BY <1>1, <1>2, <2>1, SeqEqual DEF m
<1>5. SubSeq(q, m + 2, Len(q)) = n[2]
  <2>1. /\ SubSeq(q, m + 2, Len(q)) \in Seq(S)
        /\ Len(SubSeq(q, m + 2, Len(q))) = k
        /\ \A i \in 1..k : SubSeq(q, m + 2, Len(q))[i] = q[m + 1 + i]
    <3>1. m + 2 \in Int /\ Len(q) \in Int /\ Len(q) - (m + 2) + 1 = k
      BY <1>1, <1>2
    <3>2. \A i \in m + 2..Len(q) : q[i] \in S
      BY <1>1, <1>2
    <3>3. /\ SubSeq(q, m + 2, Len(q)) \in Seq(S)
          /\ Len(SubSeq(q, m + 2, Len(q))) =
               IF m + 2 <= Len(q) THEN Len(q) - (m + 2) + 1 ELSE 0
          /\ \A i \in 1..Len(q) - (m + 2) + 1 :
               SubSeq(q, m + 2, Len(q))[i] = q[(m + 2) + i - 1]
      BY <3>1, <3>2, SubSeqProperties
    <3>4. m + 2 <= Len(q) \/ k = 0
      BY <1>1, <1>2
    <3>5. \A i \in 1..k : (m + 2) + i - 1 = m + 1 + i
      BY <1>1
    <3>6. QED
      BY <3>1, <3>3, <3>4, <3>5
  <2>2. /\ Len(n[2]) = k
        /\ \A i \in 1..k : SubSeq(q, m + 2, Len(q))[i] = n[2][i]
    BY <1>2, <2>1 DEF k
  <2>3. n[2] \in Seq(S)
    BY <1>1
  <2> DEFINE t == SubSeq(q, m + 2, Len(q))
  <2> HIDE DEF t
  <2>4. t \in Seq(S) /\ Len(t) = Len(n[2]) /\ \A i \in 1..Len(t) : t[i] = n[2][i]
    BY <2>1, <2>2 DEF t
  <2>5. t = n[2]
    BY <2>3, <2>4, SeqEqual
  <2>6. QED
    BY <2>5 DEF t
<1>6. QED
  BY <1>3, <1>4, <1>5 DEF q, IsPair

\* Where a joined name is split, there is the first separator.
LEMMA SplitPlace ==
  ASSUME NEW n, IsPair(n)
  PROVE  \E at \in 1..Len(Joined(n)) :
           /\ SelectInSeq(Joined(n), LAMBDA c : c = Sep) = at
           /\ Joined(n)[at] = Sep
           /\ \A i \in 1..at - 1 : Joined(n)[i] # Sep
<1> DEFINE q == Joined(n)
           I == {i \in 1..Len(q) : q[i] = Sep}
           R == OpToRel(<, Nat)
<1>1. Len(q) \in Nat /\ Len(n[1]) + 1 \in 1..Len(q) /\ q[Len(n[1]) + 1] = Sep
  <2> DEFINE x == Len(n[1])
             y == Len(n[2])
  <2>1. x \in Nat /\ y \in Nat
    BY PairCharacters
  <2>2. Len(q) = x + 1 + y /\ q[x + 1] = Sep
    BY JoinedCharacters
  <2> HIDE DEF q, x, y
  <2>3. Len(q) \in Nat /\ x + 1 \in 1..Len(q)
    BY <2>1, <2>2
  <2>4. QED
    BY <2>2, <2>3 DEF x
<1> HIDE DEF q, R
<1>2. I # {} /\ I \subseteq Nat
  BY <1>1
<1>3. SelectInSeq(q, LAMBDA c : c = Sep) = Min(I)
  BY <1>2 DEF SelectInSeq
<1>4. \A i \in I : i \in 1..Len(q) /\ q[i] = Sep
  OBVIOUS
<1>5. \A i \in 1..Len(q) : q[i] = Sep => i \in I
  OBVIOUS
<1> HIDE DEF I
<1>6. PICK at \in I : \A i \in I : ~(<<i, at>> \in R)
  BY <1>2, NatLessThanWellFounded, WFMin DEF R
<1>7. \A i \in I : at <= i
  <2>1. \A x, y \in Nat : x < y => <<x, y>> \in R
    BY DEF R, OpToRel
  <2>2. ASSUME NEW i \in I PROVE at <= i
    <3>1. at \in Nat /\ i \in Nat /\ ~(i < at)
      BY <1>2, <1>6, <2>1
    <3>2. QED
      BY <3>1
  <2>3. QED
    BY <2>2
<1>8. Min(I) = at
  <2>1. \A i \in I : (\A k \in I : i <= k) => i = at
    BY <1>2, <1>7
  <2>2. QED
    BY <1>6, <1>7, <2>1 DEF Min
<1>9. \A i \in 1..at - 1 : q[i] # Sep
  <2>1. at \in 1..Len(q)
    BY <1>4, <1>6
  <2>2. ASSUME NEW i \in 1..at - 1, q[i] = Sep PROVE FALSE
    <3>1. i \in 1..Len(q) /\ i < at
      BY <1>1, <2>1
    <3>2. at <= i
      BY <1>5, <1>7, <2>2, <3>1
    <3>3. QED
      BY <1>1, <2>1, <3>1, <3>2
  <2>3. QED
    BY <2>2
<1>10. QED
  BY <1>3, <1>4, <1>6, <1>8, <1>9 DEF q

\* What a joined name is split into is joined to the same string, and its
\* namespace holds no separator.
LEMMA SplitAnyName ==
  ASSUME NEW n, IsPair(n)
  PROVE  /\ IsPair(SplitOnce(Joined(n)))
         /\ ~Contains(SplitOnce(Joined(n))[1], Sep)
         /\ Joined(SplitOnce(Joined(n))) = Joined(n)
<1> DEFINE q == Joined(n)
           S == Chars(n)
<1>1. q \in Seq(S) /\ Len(q) \in Nat
  BY JoinedCharacters, LenProperties
<1>2. PICK at \in 1..Len(q) :
        /\ SelectInSeq(q, LAMBDA c : c = Sep) = at
        /\ q[at] = Sep /\ \A i \in 1..at - 1 : q[i] # Sep
  BY SplitPlace
<1> DEFINE a == SubSeq(q, 1, at - 1)
           b == SubSeq(q, at + 1, Len(q))
           c == <<a, b>>
<1>3. SplitOnce(q) = c
  BY <1>2 DEF SplitOnce
<1> HIDE DEF q, S
<1>4. at \in Nat /\ at >= 1 /\ at <= Len(q)
  BY <1>1, <1>2
<1>5. \A i \in 1..Len(q) : q[i] \in S
  BY <1>1
<1>6. a \in Seq(S) /\ Len(a) = at - 1 /\ \A i \in 1..at - 1 : a[i] = q[i]
  <2>1. 1 \in Int /\ at - 1 \in Int /\ \A i \in 1..at - 1 : q[i] \in S
    BY <1>1, <1>4, <1>5
  <2>2. /\ a \in Seq(S) /\ Len(a) = IF 1 <= at - 1 THEN (at - 1) - 1 + 1 ELSE 0
        /\ \A i \in 1..(at - 1) - 1 + 1 : a[i] = q[1 + i - 1]
    BY <2>1, SubSeqProperties
  <2> HIDE DEF a
  <2>3. \A i \in 1..at - 1 : i \in 1..(at - 1) - 1 + 1 /\ 1 + i - 1 = i
    BY <1>4
  <2>4. QED
    BY <1>4, <2>2, <2>3
<1>7. b \in Seq(S) /\ Len(b) = Len(q) - at /\ \A i \in 1..Len(q) - at : b[i] = q[at + i]
  <2>1. at + 1 \in Int /\ Len(q) \in Int /\ \A i \in at + 1..Len(q) : q[i] \in S
    BY <1>1, <1>4, <1>5
  <2>2. /\ b \in Seq(S)
        /\ Len(b) = IF at + 1 <= Len(q) THEN Len(q) - (at + 1) + 1 ELSE 0
        /\ \A i \in 1..Len(q) - (at + 1) + 1 : b[i] = q[(at + 1) + i - 1]
    BY <2>1, SubSeqProperties
  <2> HIDE DEF b
  <2>3. \A i \in 1..Len(q) - at : i \in 1..Len(q) - (at + 1) + 1 /\ (at + 1) + i - 1 = at + i
    BY <1>1, <1>4
  <2>4. QED
    BY <1>1, <1>4, <2>2, <2>3
<1> HIDE DEF a, b
<1>8. c[1] = a /\ c[2] = b /\ IsPair(c)
  BY <1>6, <1>7, OwnCharacters DEF IsPair
<1>9. ~Contains(a, Sep)
  BY <1>2, <1>6 DEF Contains
<1> DEFINE w == Joined(c)
           T == S \cup Chars(c)
<1>10. /\ w \in Seq(T) /\ Len(w) = Len(q)
       /\ \A i \in 1..at - 1 : w[i] = q[i]
       /\ w[at] = Sep
       /\ \A i \in 1..Len(q) - at : w[at + i] = q[at + i]
  <2>1. /\ Joined(c) \in Seq(Chars(c)) /\ Len(Joined(c)) = Len(c[1]) + 1 + Len(c[2])
        /\ \A i \in 1..Len(c[1]) : Joined(c)[i] = c[1][i]
        /\ Joined(c)[Len(c[1]) + 1] = Sep
        /\ \A i \in 1..Len(c[2]) : Joined(c)[Len(c[1]) + 1 + i] = c[2][i]
    BY <1>8, JoinedCharacters
  <2>2. w \in Seq(T)
    BY <2>1, SeqMonotonic
  <2>3. Len(c[1]) = at - 1 /\ Len(c[2]) = Len(q) - at
    BY <1>6, <1>7, <1>8
  <2> HIDE DEF c, w
  <2>4. (at - 1) + 1 = at /\ (at - 1) + 1 + (Len(q) - at) = Len(q)
    BY <1>1, <1>4
  <2>5. /\ Len(w) = Len(q) /\ w[at] = Sep
        /\ \A i \in 1..at - 1 : w[i] = c[1][i]
        /\ \A i \in 1..Len(q) - at : w[at + i] = c[2][i]
    BY <2>1, <2>3, <2>4 DEF w
  <2>6. QED
    BY <1>6, <1>7, <1>8, <2>2, <2>5
<1>11. w = q
  <2>1. q \in Seq(T)
    BY <1>1, SeqMonotonic
  <2> HIDE DEF w, T, c
  <2>2. ASSUME NEW i \in 1..Len(w)
        PROVE  w[i] = q[i]
    <3>1. i \in Nat /\ i >= 1 /\ i <= Len(q)
      BY <1>1, <1>10
    <3>2. CASE i < at
      <4>1. i \in 1..at - 1
        BY <1>4, <3>1, <3>2
      <4>2. QED
        BY <1>10, <4>1
    <3>3. CASE i = at
      BY <1>2, <1>10, <3>3
    <3>4. CASE i > at
      <4>1. i - at \in 1..Len(q) - at /\ at + (i - at) = i
        BY <1>1, <1>4, <3>1, <3>4
      <4>2. QED
        BY <1>10, <4>1
    <3>5. QED
      BY <1>4, <3>1, <3>2, <3>3, <3>4
  <2>3. QED
    BY <1>10, <2>1, <2>2, SeqEqual
<1>12. QED
  BY <1>3, <1>8, <1>9, <1>11 DEF q

-----------------------------------------------------------------------------
\* The place of a name, under which its record is found in the map.
PlaceOf(n) == NameOf(Slot(n))

\* Every place is a pair.
LEMMA PlacesArePairs ==
  ASSUME NEW n \in Places
  PROVE  IsPair(n)
BY NamesArePairs, SplitAnyName DEF Places

\* A slot gives back the name of a namespace that is kept apart.
LEMMA NameOfSlot ==
  ASSUME NEW n \in Places, Apart(n[1])
  PROVE  NameOf(Slot(n)) = n
BY PlacesArePairs, SplitJoined DEF NameOf, Slot, Apart

\* It is another's when it holds the same slot.
LEMMA SlotsDiffer ==
  ASSUME NEW m \in Places, NEW n \in Places, Apart(m[1]), Apart(n[1]), Slot(m) = Slot(n)
  PROVE  m = n
<1>1. NameOf(Slot(m)) = m /\ NameOf(Slot(n)) = n
  BY NameOfSlot
<1>2. QED
  BY <1>1

\* Each name has one place, with the same slot, and the place of a name in a
\* namespace that is kept apart is the name.
LEMMA PlaceHolds ==
  ASSUME NEW n \in Names, kind \in {"memory", "sqlite"}
  PROVE  /\ PlaceOf(n) \in Places /\ Apart(PlaceOf(n)[1])
         /\ Slot(PlaceOf(n)) = Slot(n)
         /\ Apart(n[1]) => PlaceOf(n) = n
<1>1. Apart(n[1]) => PlaceOf(n) = n
  BY NameOfSlot DEF PlaceOf, Places
<1>2. CASE kind = "memory"
  <2>1. PlaceOf(n) = SplitOnce(Joined(n))
    BY <1>2 DEF PlaceOf, NameOf, Slot
  <2>2. ~Contains(PlaceOf(n)[1], Sep) /\ Joined(PlaceOf(n)) = Joined(n)
    BY <2>1, NamesArePairs, SplitAnyName
  <2>3. PlaceOf(n) \in Places
    BY <2>1 DEF Places
  <2>4. QED
    BY <1>1, <1>2, <2>2, <2>3 DEF Apart, Slot
<1>3. CASE kind = "sqlite"
  <2>1. PlaceOf(n) = n
    BY <1>3 DEF PlaceOf, NameOf, Slot
  <2>2. QED
    BY <1>3, <2>1 DEF Apart, Places
<1>4. QED
  BY <1>2, <1>3

\* None is no record.
LEMMA NoneIsNoRecord == None \notin Records /\ None \notin Entries /\ None \notin Times
BY StorageAssumption

\* What get finds is what is in the slot.
LEMMA GetSlot ==
  ASSUME TypeOK, NEW n
  PROVE  /\ Get(n) # None <=> Slot(n) \in DOMAIN store
         /\ Get(n) # None => Get(n) = store[Slot(n)] /\ Get(n) \in Records
<1>1. Slot(n) \in DOMAIN store => store[Slot(n)] \in Records
  BY DEF TypeOK
<1>2. QED
  BY <1>1, NoneIsNoRecord DEF Get

\* The slots of a namespace are those of its places, if it is kept apart, and
\* none otherwise.
LEMMA SlotsOfNamespace ==
  ASSUME TypeOK, NEW ns
  PROVE  SlotsIn(ns) = {Slot(n) : n \in {m \in Places : /\ m[1] = ns /\ Apart(ns)
                                                        /\ Get(m) # None}}
<1>1. ASSUME NEW q \in SlotsIn(ns)
      PROVE  \E n \in Places : q = Slot(n) /\ n[1] = ns /\ Apart(ns) /\ Get(n) # None
  <2>1. q \in DOMAIN store /\ NameOf(q)[1] = ns
    BY <1>1 DEF SlotsIn
  <2>2. PICK n \in Names : q = Slot(n)
    BY <2>1 DEF TypeOK
  <2>3. /\ PlaceOf(n) \in Places /\ Apart(PlaceOf(n)[1])
        /\ Slot(PlaceOf(n)) = q /\ PlaceOf(n)[1] = ns
    BY <2>1, <2>2, PlaceHolds DEF PlaceOf, TypeOK
  <2>4. QED
    BY <2>1, <2>3, GetSlot
<1>2. ASSUME NEW n \in Places, n[1] = ns, Apart(ns), Get(n) # None
      PROVE  Slot(n) \in SlotsIn(ns)
  <2>1. Slot(n) \in DOMAIN store
    BY <1>2, GetSlot
  <2>2. QED
    BY <1>2, <2>1, NameOfSlot DEF SlotsIn
<1>3. QED
  BY <1>1, <1>2

\* A write changes what get finds in its slot, and nothing else.
LEMMA WriteOne ==
  ASSUME TypeOK, StoreOK, NEW n \in Names, NEW v \in Values,
         NEW created \in Times, NEW updated \in Times,
         store' = Written(n, v, created, updated), UNCHANGED kind
  PROVE  /\ \A m : Get(m)' = IF Slot(m) = Slot(n)
                             THEN [namespace |-> n[1], key |-> n[2], value |-> v,
                                   created_at |-> created, updated_at |-> updated]
                             ELSE Get(m)
         /\ DOMAIN store' \subseteq {Slot(m) : m \in Names}'
         /\ \A q \in DOMAIN store' :
              /\ store'[q] \in Records
              /\ \/ store'[q].updated_at = updated
                 \/ q \in DOMAIN store /\ store'[q] = store[q]
         /\ StoreOK'
<1> DEFINE r == [namespace |-> n[1], key |-> n[2], value |-> v,
                 created_at |-> created, updated_at |-> updated]
<1>1. \A m : Slot(m)' = Slot(m)
  BY DEF Slot
<1>2. /\ r \in Records /\ r # None /\ <<r.namespace, r.key>> = n
      /\ r.updated_at = updated
  <2>1. r \in Records
    BY NamesArePairs DEF Records
  <2>2. n = <<n[1], n[2]>>
    BY NamesArePairs DEF IsPair
  <2>3. QED
    BY <2>1, <2>2, NoneIsNoRecord
<1>3. /\ DOMAIN store' = DOMAIN store \cup {Slot(n)}
      /\ \A q \in DOMAIN store' : store'[q] = IF q = Slot(n) THEN r ELSE store[q]
  BY DEF Written
<1> HIDE DEF r
<1>4. \A m : Get(m)' = IF Slot(m) = Slot(n) THEN r ELSE Get(m)
  BY <1>1, <1>3 DEF Get
<1>5. DOMAIN store' \subseteq {Slot(m) : m \in Names}'
  <2>1. {Slot(m) : m \in Names}' = {Slot(m) : m \in Names}
    BY <1>1
  <2>2. QED
    BY <1>3, <2>1 DEF TypeOK
<1>6. \A q \in DOMAIN store' :
        /\ store'[q] \in Records
        /\ \/ store'[q].updated_at = updated
           \/ q \in DOMAIN store /\ store'[q] = store[q]
  BY <1>2, <1>3 DEF TypeOK
<1>7. StoreOK'
  <2>1. IsFiniteSet(DOMAIN store')
    BY <1>3, FS_AddElement DEF StoreOK
  <2>2. ASSUME NEW q \in DOMAIN store'
        PROVE  /\ <<store'[q].namespace, store'[q].key>> \in Names
               /\ Slot(<<store'[q].namespace, store'[q].key>>) = q
    <3>1. CASE q = Slot(n)
      BY <1>2, <1>3, <3>1
    <3>2. CASE q # Slot(n)
      <4>1. q \in DOMAIN store /\ store'[q] = store[q]
        BY <1>3, <3>2
      <4>2. QED
        BY <4>1 DEF StoreOK
    <3>3. QED
      BY <3>1, <3>2
  <2>3. QED
    BY <2>1, <2>2 DEF StoreOK, Slot
<1>8. QED
  BY <1>4, <1>5, <1>6, <1>7 DEF r

\* Emptying some slots changes what get finds there, and nothing else.
LEMMA EmptySome ==
  ASSUME TypeOK, StoreOK, NEW slots, store' = Without(slots), UNCHANGED kind
  PROVE  /\ \A m : Get(m)' = IF Slot(m) \in slots THEN None ELSE Get(m)
         /\ DOMAIN store' \subseteq {Slot(m) : m \in Names}'
         /\ \A q \in DOMAIN store' : /\ store'[q] \in Records
                                     /\ q \in DOMAIN store /\ store'[q] = store[q]
         /\ StoreOK'
<1>1. \A m : Slot(m)' = Slot(m)
  BY DEF Slot
<1>2. /\ DOMAIN store' = DOMAIN store \ slots
      /\ \A q \in DOMAIN store' : q \in DOMAIN store /\ store'[q] = store[q]
  BY DEF Without
<1>3. \A m : Get(m)' = IF Slot(m) \in slots THEN None ELSE Get(m)
  BY <1>1, <1>2 DEF Get
<1>4. DOMAIN store' \subseteq {Slot(m) : m \in Names}'
  <2>1. {Slot(m) : m \in Names}' = {Slot(m) : m \in Names}
    BY <1>1
  <2>2. QED
    BY <1>2, <2>1 DEF TypeOK
<1>5. \A q \in DOMAIN store' : /\ store'[q] \in Records
                               /\ q \in DOMAIN store /\ store'[q] = store[q]
  BY <1>2 DEF TypeOK
<1>6. StoreOK'
  <2>1. IsFiniteSet(DOMAIN store')
    BY <1>2, FS_Subset DEF StoreOK
  <2>2. \A q \in DOMAIN store' :
          /\ <<store'[q].namespace, store'[q].key>> \in Names
          /\ Slot(<<store'[q].namespace, store'[q].key>>) = q
    BY <1>2 DEF StoreOK
  <2>3. QED
    BY <2>1, <2>2 DEF StoreOK, Slot
<1>7. QED
  BY <1>3, <1>4, <1>5, <1>6

-----------------------------------------------------------------------------
\* What is in the store is a record in the slot of a name.
StoreTyped ==
  /\ DOMAIN store \subseteq {Slot(n) : n \in Names}
  /\ \A q \in DOMAIN store : store[q] \in Records

\* A put writes the latest time it may have read, and keeps the first one.
LEMMA PutWrites ==
  ASSUME IInv, NEW p \in Calls, PutMemory(p) \/ PutUpsert(p)
  PROVE  \E n \in Names, v \in Values, created \in Times, updated \in 0..clock :
           /\ store' = Written(n, v, created, updated)
           /\ Commit(p, store') /\ UNCHANGED <<callers, kind, clock>>
           /\ created = IF Get(n) = None THEN updated ELSE Get(n).created_at
           /\ callers = "serial" /\ Get(n) # None => Get(n).updated_at <= updated
<1> DEFINE n == call[p].name
           v == call[p].value
           now == call[p].now
<1>1. call[p] \in Puts
  BY DEF IInv, CallsOK, SnapshotsOK, Current, PutMemory, PutUpsert, Puts, Removes, Clears
<1>2. /\ n \in Names /\ v \in Values /\ now \in 0..clock
      /\ clock \in Nat /\ 0..clock \subseteq Times /\ clock \in 0..clock
  BY <1>1, StorageAssumption DEF Puts, IInv, TypeOK, Times
<1>3. Get(n) # None => Get(n).created_at \in Times
  BY <1>2, GetSlot DEF IInv, Records
<1>0. callers = "serial" /\ Get(n) # None => Get(n).updated_at <= now
  <2>1. p \in Running /\ call[p].op = "put"
    BY <1>1 DEF PutMemory, PutUpsert, Running, Puts
  <2>2. Get(n) # None => Slot(n) \in DOMAIN store /\ Get(n) = store[Slot(n)]
    BY GetSlot DEF IInv
  <2>3. QED
    BY <2>1, <2>2 DEF IInv, TimesOK
<1> HIDE DEF n, v, now
<1>4. CASE PutMemory(p)
  <2>1. Commit(p, store') /\ UNCHANGED <<callers, kind, clock>>
    BY <1>4 DEF PutMemory, Commit
  <2>2. store' = MakeRecord(n, v, now)
    BY <1>4 DEF PutMemory, Commit, n, v, now
  <2>3. CASE Get(n) = None
    <3>1. store' = Written(n, v, clock, clock)
      BY <2>2, <2>3 DEF MakeRecord
    <3>2. QED
      BY <1>2, <2>1, <2>3, <3>1
  <2>4. CASE Get(n) # None
    <3>1. store' = Written(n, v, Get(n).created_at, now)
      BY <2>2, <2>4 DEF MakeRecord
    <3>2. QED
      BY <1>0, <1>2, <1>3, <2>1, <2>4, <3>1
  <2>5. QED
    BY <2>3, <2>4
<1>5. CASE PutUpsert(p)
  <2>1. Commit(p, store') /\ UNCHANGED <<callers, kind, clock>>
    BY <1>5 DEF PutUpsert, Commit
  <2>2. store' = Written(n, v, CreatedAt(n, call[p].seen), now)
    BY <1>5 DEF PutUpsert, Commit, n, v, now
  <2>3. call[p].seen = CreatedAt(n, now)
    BY <1>5 DEF PutUpsert, IInv, SnapshotsOK, Current, n, now
  <2>4. CreatedAt(n, call[p].seen) = IF Get(n) = None THEN now ELSE Get(n).created_at
    BY <2>3 DEF CreatedAt
  <2>5. CreatedAt(n, call[p].seen) \in Times
    BY <1>2, <1>3, <2>4
  <2>6. QED
    BY <1>0, <1>2, <2>1, <2>2, <2>4, <2>5
<1>6. QED
  BY <1>4, <1>5

\* A step that ends a call over a store in order keeps the invariant.
LEMMA CommitKept ==
  ASSUME IInv, NEW p \in Running, Commit(p, store'),
         UNCHANGED <<callers, kind, clock>>, StoreTyped', StoreOK',
         \A q \in DOMAIN store' : store'[q].updated_at <= clock
  PROVE  IInv'
<1>1. /\ pc' = [pc EXCEPT ![p] = "returned"]
      /\ call' = [call EXCEPT ![p] = None]
      /\ snapshots' = {}
  BY DEF Commit, Return, Goto
<1>2. \A q \in Calls : \/ q = p /\ pc'[q] = "returned" /\ call'[q] = None
                       \/ q # p /\ pc'[q] = pc[q] /\ call'[q] = call[q]
  BY <1>1 DEF IInv, TypeOK, CallsOK, Running
<1>3. Puts' = Puts /\ Requests' = Requests
  BY DEF Puts, Requests
<1>4. CallsOK'
  BY <1>1, <1>2, <1>3 DEF IInv, CallsOK
<1>5. TypeOK'
  <2>1. \A q \in Calls :
          IF q \in Running'
            THEN call'[q] \in Requests'
                   \/ /\ call'[q].op = "put" /\ call'[q].now \in Times
                      /\ call'[q].seen \in Times \cup {None}
            ELSE call'[q] = None
    BY <1>2, <1>3 DEF IInv, TypeOK, Running
  <2>2. QED
    BY <1>1, <2>1 DEF IInv, TypeOK, StoreTyped
<1>6. TimesOK'
  <2>1. callers = "serial" => Running' = {}
    BY <1>2 DEF IInv, TimesOK, Running
  <2>2. QED
    BY <2>1 DEF TimesOK
<1>7. QED
  BY <1>1, <1>4, <1>5, <1>6 DEF IInv, SnapshotsOK, Current

\* A step that leaves the store alone keeps what is said of it.
LEMMA StoreStands ==
  ASSUME IInv, UNCHANGED <<kind, store>>
  PROVE  /\ StoreTyped' /\ StoreOK'
         /\ \A n : Get(n)' = Get(n)
         /\ \A n, time : CreatedAt(n, time)' = CreatedAt(n, time)
<1>1. \A n : Slot(n)' = Slot(n) /\ Get(n)' = Get(n)
  BY DEF Get, Slot
<1>2. \A n, time : CreatedAt(n, time)' = CreatedAt(n, time)
  BY <1>1 DEF CreatedAt
<1>3. StoreOK'
  BY <1>1 DEF IInv, StoreOK
<1>4. StoreTyped'
  BY <1>1 DEF IInv, TypeOK, StoreTyped
<1>5. QED
  BY <1>1, <1>2, <1>3, <1>4

\* Valid requests are what a call works with.
LEMMA BeginStep ==
  ASSUME IInv, NEW p \in Calls, Begin(p)
  PROVE  \/ /\ pc' = [pc EXCEPT ![p] = "returned"]
            /\ call' = [call EXCEPT ![p] = None]
         \/ \E r \in Puts :
              /\ r.now = clock
              /\ call' = [call EXCEPT ![p] = r]
              /\ pc' = [pc EXCEPT ![p] = IF kind = "sqlite" THEN "select" ELSE "write"]
         \/ \E r \in Removes \cup Clears :
              /\ call' = [call EXCEPT ![p] = r]
              /\ pc' = [pc EXCEPT ![p] = "write"]
<1>1. PICK r \in Requests :
        IF Valid(r)
          THEN /\ call' = [call EXCEPT ![p] = r]
               /\ Goto(p, IF r.op = "put" /\ kind = "sqlite" THEN "select"
                                                             ELSE "write")
          ELSE Return(p)
  BY DEF Begin
<1>2. CASE ~Valid(r)
  BY <1>1, <1>2 DEF Return, Goto
<1>3. ASSUME Valid(r), NEW n \in Namespaces \X Keys, NEW v \in Values,
             r = [op |-> "put", name |-> n, value |-> v, now |-> clock, seen |-> None]
      PROVE  \E x \in Puts :
               /\ x.now = clock
               /\ call' = [call EXCEPT ![p] = x]
               /\ pc' = [pc EXCEPT ![p] = IF kind = "sqlite" THEN "select" ELSE "write"]
  <2>1. n \in Names
    BY <1>3 DEF Valid, Names
  <2>2. clock \in 0..clock
    BY StorageAssumption DEF IInv, TypeOK, Times
  <2>3. r \in Puts
    BY <1>3, <2>1, <2>2 DEF Puts
  <2>4. QED
    BY <1>1, <1>3, <2>3 DEF Goto
<1>4. ASSUME Valid(r), NEW n \in Namespaces \X Keys, r = [op |-> "remove", name |-> n]
      PROVE  r \in Removes
  BY <1>4 DEF Valid, Names, Removes
<1>5. ASSUME NEW ns \in Namespaces, r = [op |-> "clear", name |-> <<ns>>]
      PROVE  r \in Clears
  BY <1>5 DEF Clears
<1>6. ASSUME Valid(r), r \in Removes \cup Clears
      PROVE  /\ call' = [call EXCEPT ![p] = r]
             /\ pc' = [pc EXCEPT ![p] = "write"]
  BY <1>1, <1>6 DEF Goto, Removes, Clears
<1>7. QED
  BY <1>2, <1>3, <1>4, <1>5, <1>6 DEF Requests

\* The transactions a step leaves alone keep what they have seen.
LEMMA SnapshotsStand ==
  ASSUME IInv, UNCHANGED <<kind, clock, store>>, NEW p \in Calls, NEW label, NEW c,
         pc' = [pc EXCEPT ![p] = label], call' = [call EXCEPT ![p] = c],
         snapshots' \subseteq snapshots \ {p}
  PROVE  SnapshotsOK'
<1>1. \A q \in snapshots' : /\ q \in snapshots
                            /\ pc'[q] = pc[q] /\ call'[q] = call[q]
  BY DEF IInv, TypeOK, CallsOK
<1>2. \A d : Current(d)' = Current(d)
  BY StoreStands DEF Current, Puts
<1>3. QED
  BY <1>1, <1>2 DEF IInv, SnapshotsOK

\* A step that begins a call, moves it on or ends it keeps the times in order.
LEMMA TimesStand ==
  ASSUME IInv, UNCHANGED <<callers, clock, store>>,
         NEW p \in Calls, NEW label, NEW c,
         pc' = [pc EXCEPT ![p] = label], call' = [call EXCEPT ![p] = c],
         \/ label = "returned"
         \/ p \in Running /\ call[p].op = "put" /\ c.now = call[p].now
         \/ (callers = "serial" => Running = {}) /\ (c.op = "put" => c.now = clock)
  PROVE  TimesOK'
<1>1. \A q \in Calls : \/ q = p /\ pc'[q] = label /\ call'[q] = c
                       \/ q # p /\ pc'[q] = pc[q] /\ call'[q] = call[q]
  BY DEF IInv, TypeOK, CallsOK
<1>2. \A q \in Running' : \/ q = p /\ label # "returned" /\ call'[q] = c
                          \/ q # p /\ q \in Running /\ call'[q] = call[q]
  BY <1>1 DEF Running
<1>3. ASSUME callers = "serial", NEW q \in Running'
      PROVE  /\ \A r \in Running' : r = q
             /\ call'[q].op = "put" =>
                  \A x \in DOMAIN store : store[x].updated_at <= call'[q].now
  BY <1>2, <1>3 DEF IInv, TimesOK
<1>4. QED
  BY <1>3 DEF IInv, TimesOK

\* A step that moves one call on keeps the invariant when what it leaves the
\* call and the transactions with is in order.
LEMMA CallStepKept ==
  ASSUME IInv, UNCHANGED <<callers, kind, clock, store>>,
         NEW p \in Calls, NEW label, NEW c,
         pc' = [pc EXCEPT ![p] = label], call' = [call EXCEPT ![p] = c],
         snapshots' \subseteq snapshots \cup {p}, SnapshotsOK', TimesOK',
         \/ label = "returned" /\ c = None
         \/ label = "select" /\ kind = "sqlite" /\ c \in Puts
         \/ label = "write" /\ c \in Puts \cup Removes \cup Clears
  PROVE  IInv'
<1>1. \A q \in Calls : \/ q = p /\ pc'[q] = label /\ call'[q] = c
                       \/ q # p /\ pc'[q] = pc[q] /\ call'[q] = call[q]
  BY DEF IInv, TypeOK, CallsOK
<1>2. Puts' = Puts /\ Requests' = Requests
  BY DEF Puts, Requests
<1>3. StoreTyped' /\ StoreOK' /\ \A n, time : CreatedAt(n, time)' = CreatedAt(n, time)
  BY StoreStands
<1>4. CallsOK'
  BY <1>1, <1>2 DEF IInv, CallsOK
<1>5. TypeOK'
  <2>1. c \in Puts => c.op = "put" /\ c.now \in Times /\ c.seen \in Times \cup {None}
    BY StorageAssumption DEF Puts, IInv, TypeOK, Times
  <2>2. c \in Removes \cup Clears => c \in Requests
    BY DEF Removes, Clears, Requests, Names
  <2>3. \A q \in Calls :
          IF q \in Running'
            THEN call'[q] \in Requests'
                   \/ /\ call'[q].op = "put" /\ call'[q].now \in Times
                      /\ call'[q].seen \in Times \cup {None}
            ELSE call'[q] = None
    BY <1>1, <1>2, <2>1, <2>2 DEF IInv, TypeOK, Running
  <2>4. QED
    BY <1>3, <2>3 DEF IInv, TypeOK, StoreTyped
<1>6. QED
  BY <1>3, <1>4, <1>5 DEF IInv

\* Every step keeps the invariant.
LEMMA Kept ==
  ASSUME IInv, [Next]_vars
  PROVE  IInv'
<1>0. /\ pc \in [Calls -> {"idle", "select", "write", "returned"}]
      /\ DOMAIN call = Calls /\ snapshots \subseteq Calls
      /\ \A q \in snapshots : pc[q] = "write"
  BY DEF IInv, TypeOK, CallsOK, SnapshotsOK
<1>1. CASE Tick
  <2>1. clock' \in Times /\ \A t : t \in 0..clock => t \in 0..clock'
    BY <1>1, StorageAssumption DEF Tick, IInv, TypeOK, Times
  <2>2. Puts \subseteq Puts'
    BY <2>1 DEF Puts
  <2>3. StoreTyped' /\ StoreOK' /\ \A n, time : CreatedAt(n, time)' = CreatedAt(n, time)
    BY <1>1, StoreStands DEF Tick
  <2>4. CallsOK' /\ SnapshotsOK'
    BY <1>1, <2>2, <2>3 DEF Tick, IInv, CallsOK, SnapshotsOK, Current, Removes, Clears
  <2>5. \A q \in Calls :
          IF q \in Running'
            THEN call'[q] \in Requests'
                   \/ /\ call'[q].op = "put" /\ call'[q].now \in Times
                      /\ call'[q].seen \in Times \cup {None}
            ELSE call'[q] = None
    <3>1. ASSUME NEW q \in Calls, q \in Running'
          PROVE  call[q] \in Puts \cup Removes \cup Clears
      BY <1>1, <3>1 DEF Tick, Running, IInv, CallsOK
    <3>2. ASSUME NEW c \in Puts
          PROVE  c.op = "put" /\ c.now \in Times /\ c.seen \in Times \cup {None}
      BY StorageAssumption DEF Puts, IInv, TypeOK, Times
    <3>3. ASSUME NEW c \in Removes \cup Clears
          PROVE  c \in Requests'
      BY DEF Removes, Clears, Requests, Names
    <3>4. QED
      BY <1>1, <3>1, <3>2, <3>3 DEF Tick, Running, IInv, TypeOK
  <2>6. TypeOK'
    BY <1>1, <2>1, <2>3, <2>5 DEF Tick, IInv, TypeOK, StoreTyped
  <2>7. TimesOK'
    <3>1. \A q \in DOMAIN store : store[q].updated_at \in Nat /\ store[q].updated_at <= clock
      BY StorageAssumption DEF IInv, TypeOK, TimesOK, Records, Times
    <3>2. clock \in Nat /\ clock' = clock + 1 /\ UNCHANGED <<callers, store, pc, call>>
      BY <1>1, StorageAssumption DEF Tick, IInv, TypeOK, Times
    <3>3. \A q \in DOMAIN store : store[q].updated_at <= clock'
      BY <3>1, <3>2
    <3>4. Running' = Running
      BY <3>2 DEF Running
    <3>5. QED
      BY <3>2, <3>3, <3>4 DEF IInv, TimesOK
  <2>8. QED
    BY <2>3, <2>4, <2>6, <2>7 DEF IInv
<1>2. ASSUME NEW p \in Calls, Begin(p)
      PROVE  IInv'
  <2>1. /\ p \notin snapshots /\ UNCHANGED <<callers, kind, clock, store, snapshots>>
        /\ snapshots' \subseteq snapshots \ {p} /\ snapshots' \subseteq snapshots \cup {p}
        /\ callers = "serial" => Running = {}
    BY <1>0, <1>2 DEF Begin
  <2>2. CASE /\ pc' = [pc EXCEPT ![p] = "returned"]
             /\ call' = [call EXCEPT ![p] = None]
    BY <2>1, <2>2, SnapshotsStand, TimesStand, CallStepKept
  <2>3. ASSUME NEW r \in Puts, r.now = clock, call' = [call EXCEPT ![p] = r],
               pc' = [pc EXCEPT ![p] = IF kind = "sqlite" THEN "select" ELSE "write"]
        PROVE  IInv'
    <3>1. TimesOK'
      BY <2>1, <2>3, TimesStand
    <3>2. SnapshotsOK'
      BY <2>1, <2>3, SnapshotsStand
    <3>3. QED
      BY <2>1, <2>3, <3>1, <3>2, CallStepKept
  <2>4. ASSUME NEW r \in Removes \cup Clears, call' = [call EXCEPT ![p] = r],
               pc' = [pc EXCEPT ![p] = "write"]
        PROVE  IInv'
    <3>1. r.op = "put" => r.now = clock
      BY <2>4 DEF Removes, Clears
    <3>2. ASSUME NEW label, pc' = [pc EXCEPT ![p] = label]
          PROVE  TimesOK' /\ SnapshotsOK'
      <4>1. TimesOK'
        BY <2>1, <2>4, <3>1, <3>2, TimesStand
      <4>2. SnapshotsOK'
        BY <2>1, <2>4, <3>2, SnapshotsStand
      <4>3. QED
        BY <4>1, <4>2
    <3>3. TimesOK' /\ SnapshotsOK'
      BY <2>4, <3>2
    <3>4. QED
      BY <2>1, <2>4, <3>3, CallStepKept
  <2>5. QED
    BY <1>2, <2>2, <2>3, <2>4, BeginStep
<1>3. ASSUME NEW p \in Calls, PutMemory(p) \/ PutUpsert(p)
      PROVE  IInv'
  <2>1. PICK n \in Names, v \in Values, created \in Times, updated \in 0..clock :
           /\ store' = Written(n, v, created, updated)
           /\ Commit(p, store') /\ UNCHANGED <<callers, kind, clock>>
    BY <1>3, PutWrites
  <2>2. updated \in Times
    BY StorageAssumption DEF IInv, TypeOK, Times
  <2>3. /\ DOMAIN store' \subseteq {Slot(m) : m \in Names}'
        /\ \A q \in DOMAIN store' :
             /\ store'[q] \in Records
             /\ \/ store'[q].updated_at = updated
                \/ q \in DOMAIN store /\ store'[q] = store[q]
        /\ StoreOK'
    BY <2>1, <2>2, WriteOne DEF IInv
  <2>4. \A q \in DOMAIN store' : store'[q].updated_at <= clock
    <3>1. updated <= clock
      BY StorageAssumption DEF IInv, TypeOK, Times
    <3>2. QED
      BY <2>3, <3>1 DEF IInv, TimesOK
  <2>5. p \in Running
    BY <1>0, <1>3 DEF PutMemory, PutUpsert, Running
  <2>6. QED
    BY <2>1, <2>3, <2>4, <2>5, CommitKept DEF StoreTyped
<1>4. ASSUME NEW p \in Calls, PutSelect(p)
      PROVE  IInv'
  <2>1. kind = "sqlite" /\ call[p] \in Puts
    BY <1>4 DEF PutSelect, IInv, CallsOK
  <2>2. /\ call[p].name \in Names /\ call[p].now \in 0..clock /\ 0..clock \subseteq Times
        /\ CreatedAt(call[p].name, call[p].now) \in Times
    <3>1. call[p].name \in Names /\ call[p].now \in 0..clock /\ 0..clock \subseteq Times
      BY <2>1, StorageAssumption DEF Puts, IInv, TypeOK, Times
    <3>2. Get(call[p].name) # None => Get(call[p].name).created_at \in Times
      BY <3>1, GetSlot DEF IInv, Records
    <3>3. QED
      BY <3>1, <3>2 DEF CreatedAt
  <2>3. PICK c : c = [call[p] EXCEPT !.seen = CreatedAt(call[p].name, call[p].now)]
    OBVIOUS
  <2>4. c \in Puts /\ c.seen = CreatedAt(c.name, c.now)
    BY <2>1, <2>2, <2>3 DEF Puts
  <2>5. /\ call' = [call EXCEPT ![p] = c] /\ pc' = [pc EXCEPT ![p] = "write"]
        /\ snapshots' = snapshots \cup {p}
        /\ UNCHANGED <<callers, kind, clock, store>>
    BY <1>0, <1>4, <2>3 DEF PutSelect, Goto
  <2>6. SnapshotsOK'
    <3>1. \A q \in snapshots' :
            /\ pc'[q] = "write"
            /\ q # p => q \in snapshots /\ call'[q] = call[q]
            /\ q = p => call'[q] = c
      BY <1>0, <2>5
    <3>2. \A d : Current(d)' = Current(d)
      BY <2>5, StoreStands DEF Current, Puts
    <3>3. Current(c)
      BY <2>1, <2>4 DEF Current
    <3>4. QED
      BY <3>1, <3>2, <3>3 DEF IInv, SnapshotsOK
  <2>7. TimesOK'
    <3>1. p \in Running /\ call[p].op = "put" /\ c.now = call[p].now
      BY <1>4, <2>1, <2>3 DEF PutSelect, Running, Puts
    <3>2. QED
      BY <2>5, <3>1, TimesStand
  <2>8. QED
    BY <2>4, <2>5, <2>6, <2>7, CallStepKept
<1>5. ASSUME NEW p \in Calls, SqlFail(p)
      PROVE  IInv'
  <2>1. /\ call' = [call EXCEPT ![p] = None] /\ pc' = [pc EXCEPT ![p] = "returned"]
        /\ snapshots' = snapshots \ {p} /\ UNCHANGED <<callers, kind, clock, store>>
    BY <1>5 DEF SqlFail, Return, Goto
  <2>2. QED
    BY <2>1, SnapshotsStand, TimesStand, CallStepKept
<1>6. ASSUME NEW p \in Calls, RemoveKey(p) \/ ClearNamespace(p)
      PROVE  IInv'
  <2>1. PICK slots : store' = Without(slots)
    BY <1>6 DEF RemoveKey, ClearNamespace, Commit
  <2>2. /\ Commit(p, store') /\ UNCHANGED <<callers, kind, clock>>
        /\ p \in Running
    BY <1>6 DEF RemoveKey, ClearNamespace, Commit, Running
  <2>3. /\ StoreTyped' /\ StoreOK'
        /\ \A q \in DOMAIN store' : q \in DOMAIN store /\ store'[q] = store[q]
    BY <2>1, <2>2, EmptySome DEF IInv, StoreTyped
  <2>4. \A q \in DOMAIN store' : store'[q].updated_at <= clock
    BY <2>3 DEF IInv, TimesOK
  <2>5. QED
    BY <2>2, <2>3, <2>4, CommitKept
<1>7. CASE UNCHANGED vars
  <2>1. StoreTyped' /\ StoreOK' /\ \A n, time : CreatedAt(n, time)' = CreatedAt(n, time)
    BY <1>7, StoreStands DEF vars
  <2>2. Puts' = Puts /\ Requests' = Requests /\ Running' = Running
    BY <1>7 DEF vars, Puts, Requests, Running
  <2>3. CallsOK' /\ SnapshotsOK'
    BY <1>7, <2>1, <2>2 DEF vars, IInv, CallsOK, SnapshotsOK, Current
  <2>4. TypeOK'
    BY <1>7, <2>1, <2>2 DEF vars, IInv, TypeOK, StoreTyped
  <2>5. TimesOK'
    BY <1>7, <2>2 DEF vars, IInv, TimesOK
  <2>6. QED
    BY <2>1, <2>3, <2>4, <2>5 DEF IInv
<1>8. QED
  BY <1>1, <1>2, <1>3, <1>4, <1>5, <1>6, <1>7 DEF Next

\* The store begins empty.
LEMMA Begins ==
  ASSUME Init
  PROVE  IInv
<1>1. DOMAIN store = {} /\ IsFiniteSet({})
  BY FS_EmptySet DEF Init
<1>2. StoreTyped /\ \A n : Get(n) = None
  BY <1>1 DEF Init, StoreTyped, Get
<1>3. 0 \in Times
  BY StorageAssumption DEF Times
<1>4. QED
  BY <1>1, <1>2, <1>3 DEF Init, IInv, TypeOK, StoreTyped, StoreOK, CallsOK, SnapshotsOK,
                          TimesOK, Running

LEMMA Inductive == Spec => []IInv
<1>1. Init => IInv
  BY Begins
<1>2. IInv /\ [Next]_vars => IInv'
  BY Kept
<1>3. QED
  BY <1>1, <1>2, PTL DEF Spec

-----------------------------------------------------------------------------
\* A prefix has the same characters.
LEMMA PrefixCharacters ==
  ASSUME NEW S, NEW h \in Seq(S), NEW q \in Seq(S)
  PROVE  IsPrefix(h, q) <=> /\ Len(h) <= Len(q)
                            /\ \A i \in 1..Len(h) : h[i] = q[i]
<1>1. Len(h) \in Nat /\ Len(q) \in Nat
  BY LenProperties
<1>2. SubSeq(h, 1, Len(h)) = h
  BY SubSeqFull
<1>3. ASSUME Len(h) <= Len(q)
      PROVE  SubSeq(h, 1, Len(h)) = SubSeq(q, 1, Len(h))
               <=> \A i \in 1..Len(h) : h[i] = q[i]
  <2>1. /\ SubSeq(q, 1, Len(h)) \in Seq(S) /\ Len(SubSeq(q, 1, Len(h))) = Len(h)
        /\ \A i \in 1..Len(h) : SubSeq(q, 1, Len(h))[i] = q[i]
    BY <1>1, <1>3
  <2>2. ASSUME \A i \in 1..Len(h) : h[i] = q[i]
        PROVE  h = SubSeq(q, 1, Len(h))
    BY <2>1, <2>2, SeqEqual
  <2>3. QED
    BY <1>2, <2>1, <2>2
<1>4. QED
  BY <1>3 DEF IsPrefix

\* A joined name begins with a namespace and the separator when that is its
\* own namespace, if neither holds the separator.
LEMMA PrefixIsNamespace ==
  ASSUME NEW n, IsPair(n), ~Contains(n[1], Sep),
         NEW ns, ns \in Seq(Range(ns)), ~Contains(ns, Sep)
  PROVE  IsPrefix(ns \o <<Sep>>, Joined(n)) <=> n[1] = ns
<1> DEFINE S == Chars(n) \cup Range(ns)
           h == ns \o <<Sep>>
           q == Joined(n)
           a == Len(n[1])
           m == Len(ns)
<1>1. /\ ns \in Seq(S) /\ n[1] \in Seq(S) /\ <<Sep>> \in Seq(S) /\ q \in Seq(S)
      /\ a \in Nat /\ m \in Nat /\ Len(n[2]) \in Nat /\ <<Sep>>[1] = Sep
  <2>1. ns \in Seq(Range(ns)) /\ n[1] \in Seq(Chars(n)) /\ q \in Seq(Chars(n))
        /\ <<Sep>> \in Seq(Chars(n)) /\ n[2] \in Seq(Chars(n))
    BY PairCharacters, JoinedCharacters
  <2> HIDE DEF q
  <2>2. ns \in Seq(S) /\ n[1] \in Seq(S) /\ q \in Seq(S) /\ <<Sep>> \in Seq(S)
    BY <2>1, SeqMonotonic
  <2>3. QED
    BY <2>1, <2>2, LenProperties
<1>2. /\ a + 1 <= Len(q) /\ q[a + 1] = Sep
      /\ \A i \in 1..a : q[i] = n[1][i]
  <2>1. /\ Len(q) = a + 1 + Len(n[2]) /\ q[a + 1] = Sep
        /\ \A i \in 1..a : q[i] = n[1][i]
    BY JoinedCharacters
  <2> DEFINE b == Len(n[2])
  <2>2. a \in Nat /\ b \in Nat /\ Len(q) = a + 1 + b
    BY <1>1, <2>1
  <2> HIDE DEF q, a, b
  <2>3. a + 1 <= Len(q)
    BY <2>2
  <2>4. QED
    BY <2>1, <2>3
<1>3. /\ \A i \in 1..a : n[1][i] # Sep
      /\ \A i \in 1..m : ns[i] # Sep
  BY DEF Contains
<1> HIDE DEF S, q, a, m
<1>4. /\ h \in Seq(S) /\ Len(h) = m + 1 /\ h[m + 1] = Sep
      /\ \A i \in 1..m : h[i] = ns[i]
  <2>1. Len(<<Sep>>) = 1 /\ Len(ns) = m
    BY DEF m
  <2>2. /\ h \in Seq(S) /\ Len(h) = m + 1
        /\ \A i \in 1..m + 1 : h[i] = IF i <= m THEN ns[i] ELSE <<Sep>>[i - m]
    BY <1>1, <2>1, ConcatProperties
  <2> HIDE DEF h
  <2>3. h[m + 1] = Sep
    <3>1. m + 1 \in 1..m + 1 /\ ~(m + 1 <= m) /\ (m + 1) - m = 1
      BY <1>1
    <3>2. QED
      BY <1>1, <2>2, <3>1
  <2>4. \A i \in 1..m : h[i] = ns[i]
    <3>1. \A i \in 1..m : i \in 1..m + 1 /\ i <= m
      BY <1>1
    <3>2. QED
      BY <2>2, <3>1
  <2>5. QED
    BY <2>2, <2>3, <2>4
<1> HIDE DEF h
<1>5. IsPrefix(h, q) <=> /\ m + 1 <= Len(q)
                         /\ \A i \in 1..m + 1 : h[i] = q[i]
  <2>1. h \in Seq(S) /\ q \in Seq(S) /\ Len(h) = m + 1
    BY <1>1, <1>4
  <2>2. IsPrefix(h, q) <=> /\ Len(h) <= Len(q)
                           /\ \A i \in 1..Len(h) : h[i] = q[i]
    BY <2>1, PrefixCharacters
  <2>3. QED
    BY <2>1, <2>2
<1>6. ASSUME n[1] = ns
      PROVE  IsPrefix(h, q)
  <2>1. a = m
    BY <1>6 DEF a, m
  <2>2. ASSUME NEW i \in 1..m + 1
        PROVE  h[i] = q[i]
    <3>1. i \in 1..m \/ i = m + 1
      BY <1>1
    <3>2. CASE i \in 1..m
      BY <1>2, <1>4, <1>6, <2>1, <3>2
    <3>3. CASE i = m + 1
      BY <1>2, <1>4, <2>1, <3>3
    <3>4. QED
      BY <3>1, <3>2, <3>3
  <2>3. m + 1 <= Len(q)
    BY <1>2, <2>1
  <2>4. QED
    BY <1>5, <2>2, <2>3
<1>7. ASSUME IsPrefix(h, q)
      PROVE  n[1] = ns
  <2>1. m + 1 <= Len(q) /\ \A i \in 1..m + 1 : h[i] = q[i]
    BY <1>5, <1>7
  <2>2. q[m + 1] = Sep /\ \A i \in 1..m : q[i] = ns[i]
    BY <1>1, <1>4, <2>1
  <2>3. ~(m < a) /\ ~(a < m)
    <3>1. m < a => m + 1 \in 1..a
      BY <1>1
    <3>2. a < m => a + 1 \in 1..m
      BY <1>1
    <3>3. ~(m < a)
      BY <1>2, <1>3, <2>2, <3>1
    <3>4. ~(a < m)
      BY <1>2, <1>3, <2>2, <3>2
    <3>5. QED
      BY <3>3, <3>4
  <2>4. a = m
    BY <1>1, <2>3
  <2>5. Len(n[1]) = Len(ns) /\ \A i \in 1..Len(n[1]) : n[1][i] = ns[i]
    BY <1>2, <2>2, <2>4 DEF a, m
  <2>6. QED
    BY <1>1, <2>5, SeqEqual
<1>8. QED
  BY <1>6, <1>7 DEF h, q

\* Both ways of counting look at the slots of a namespace kept apart.
LEMMA CountsSlots ==
  ASSUME TypeOK, NEW ns \in Namespaces, Apart(ns)
  PROVE  CountOf(ns) = Cardinality(SlotsIn(ns))
<1>1. ASSUME kind = "memory", NEW q \in DOMAIN store
      PROVE  IsPrefix(ns \o <<Sep>>, q) <=> NameOf(q)[1] = ns
  <2>1. PICK n \in Names : q = Slot(n)
    BY <1>1 DEF TypeOK
  <2> DEFINE c == NameOf(q)
  <2>2. c = SplitOnce(Joined(n)) /\ q = Joined(n) /\ ~Contains(ns, Sep)
    BY <1>1, <2>1 DEF Slot, NameOf, Apart
  <2>3. IsPair(c) /\ ~Contains(c[1], Sep) /\ Joined(c) = q
    BY <2>2, NamesArePairs, SplitAnyName
  <2>4. ns \in Seq(Range(ns))
    BY StorageAssumption
  <2> HIDE DEF c
  <2>5. IsPrefix(ns \o <<Sep>>, Joined(c)) <=> c[1] = ns
    BY <2>2, <2>3, <2>4, PrefixIsNamespace
  <2>6. QED
    BY <2>3, <2>5 DEF c
<1>2. kind = "memory" =>
        {q \in DOMAIN store : IsPrefix(ns \o <<Sep>>, q)} = SlotsIn(ns)
  BY <1>1 DEF SlotsIn
<1>3. QED
  BY <1>2 DEF CountOf

\* A namespace has as many slots as keys.
LEMMA SlotPerKey ==
  ASSUME TypeOK, StoreOK, NEW ns \in Namespaces
  PROVE  Cardinality(SlotsIn(ns)) = Cardinality(KeysOf(ns))
<1> DEFINE S == SlotsIn(ns)
           T == KeysOf(ns)
           f == [q \in S |-> NameOf(q)[2]]
<1>1. IsFiniteSet(S)
  BY FS_Subset DEF StoreOK, SlotsIn
<1>2. f \in [S -> T] /\ \A t \in T : \E q \in S : f[q] = t
  BY DEF KeysOf
<1>3. ASSUME NEW q \in S, NEW r \in S, f[q] = f[r]
      PROVE  q = r
  <2>1. PICK m \in Places : q = Slot(m) /\ m[1] = ns /\ Apart(ns)
    BY SlotsOfNamespace
  <2>2. PICK n \in Places : r = Slot(n) /\ n[1] = ns
    BY SlotsOfNamespace
  <2>3. m[2] = n[2]
    BY <1>3, <2>1, <2>2, NameOfSlot
  <2>4. m = n
    BY <2>1, <2>2, <2>3, PlacesArePairs DEF IsPair
  <2>5. QED
    BY <2>1, <2>2, <2>4
<1> HIDE DEF f, S, T
<1>4. f \in Surjection(S, T)
  BY <1>2 DEF Surjection
<1>5. f \in Injection(S, T)
  BY <1>2, <1>3 DEF Injection, IsInjective
<1>6. Cardinality(T) = Cardinality(S)
  BY <1>1, <1>4, <1>5, FS_Surjection
<1>7. QED
  BY <1>6 DEF S, T

\* Each view of a namespace kept apart lists the records that get finds there,
\* and what get finds is in the slot of the name it was put under.
LEMMA Agree ==
  ASSUME IInv
  PROVE  ViewsAgree
<1>1. ASSUME NEW ns \in Namespaces, Apart(ns)
      PROVE  KeysOf(ns) = {n[2] : n \in {m \in Places : m[1] = ns /\ Get(m) # None}}
  <2>1. SlotsIn(ns) = {Slot(n) : n \in {m \in Places : m[1] = ns /\ Get(m) # None}}
    BY <1>1, SlotsOfNamespace DEF IInv
  <2>2. \A n \in Places : n[1] = ns => NameOf(Slot(n))[2] = n[2]
    BY <1>1, NameOfSlot
  <2>3. QED
    BY <2>1, <2>2 DEF KeysOf
<1>2. ASSUME NEW ns \in Namespaces, Apart(ns)
      PROVE  CountOf(ns) = Cardinality(KeysOf(ns))
  BY <1>2, CountsSlots, SlotPerKey DEF IInv
<1>3. ASSUME NEW ns \in Namespaces, ~Apart(ns)
      PROVE  KeysOf(ns) = {}
  BY <1>3, SlotsOfNamespace DEF IInv, KeysOf
<1>4. ASSUME NEW n \in Names, Get(n) # None,
             NEW own, own = <<Get(n).namespace, Get(n).key>>
      PROVE  \/ own = n
             \/ (~Apart(n[1]) \/ ~Apart(own[1])) /\ Joined(own) = Joined(n)
  <2>1. Slot(n) \in DOMAIN store /\ Get(n) = store[Slot(n)]
    BY <1>4, GetSlot DEF IInv
  <2>2. own \in Names /\ Slot(own) = Slot(n)
    BY <1>4, <2>1 DEF IInv, StoreOK
  <2>3. CASE Apart(n[1]) /\ Apart(own[1])
    BY <2>2, <2>3, SlotsDiffer DEF Places
  <2>4. CASE ~Apart(n[1]) \/ ~Apart(own[1])
    BY <2>2, <2>4 DEF Apart, Slot, IInv, TypeOK
  <2>5. QED
    BY <2>3, <2>4
<1>5. QED
  BY <1>1, <1>2, <1>3, <1>4 DEF ViewsAgree

\* Every variable keeps its type.
THEOREM TypeCorrect == Spec => []TypeOK
BY Inductive, PTL DEF IInv

\* In every reachable state the views of a namespace that is kept apart agree,
\* and none of its keys, also one that holds the separator, is listed or
\* counted twice or under another namespace.  MemoryStore shows nothing of a
\* namespace that holds the separator, and finds a record under another name
\* than the one it was put under only when one of the two is of that kind.
THEOREM ViewsAlwaysAgree == Spec => []ViewsAgree
BY Inductive, Agree, PTL

-----------------------------------------------------------------------------
\* The map that a store stands for.
Stored == [n \in Places |-> IF Apart(n[1]) THEN Abstract(Get(n)) ELSE None]

\* A record stands for an entry, and only no record for none.
LEMMA AbstractRecord ==
  ASSUME NEW r, r = None \/ r \in Records
  PROVE  /\ Abstract(r) = None <=> r = None
         /\ r # None => /\ Abstract(r).created_at = r.created_at
                        /\ Abstract(r).updated_at = r.updated_at
                        /\ Abstract(r) = [value |-> r.value, updated_at |-> r.updated_at,
                                          created_at |-> r.created_at]
<1>1. CASE r = None
  BY <1>1 DEF Abstract
<1>2. CASE r \in Records
  <2>1. r # None
    BY <1>2, NoneIsNoRecord
  <2>2. Abstract(r) = [value |-> r.value, created_at |-> r.created_at,
                       updated_at |-> r.updated_at]
    BY <2>1 DEF Abstract
  <2>3. Abstract(r) \in Entries
    BY <1>2, <2>2 DEF Entries, Records
  <2>4. Abstract(r) # None
    BY <2>3, NoneIsNoRecord
  <2>5. QED
    BY <2>1, <2>2, <2>4
<1>3. QED
  BY <1>1, <1>2

\* Which places are kept apart does not change.
LEMMA ApartStands ==
  ASSUME UNCHANGED kind
  PROVE  \A n : Apart(n[1])' <=> Apart(n[1])
BY DEF Apart

\* A step that leaves the store and the clock alone is none of the map's.
LEMMA Stutters ==
  ASSUME UNCHANGED <<callers, kind, clock, store>>
  PROVE  UNCHANGED Map!vars
<1>1. \A n : Get(n)' = Get(n)
  BY DEF Get, Slot
<1>2. QED
  BY <1>1 DEF Map!vars, Abstract, Apart

\* A put of either store is the map's, at the place of its name.
LEMMA PutIsPut ==
  ASSUME IInv, NEW p \in Calls, PutMemory(p) \/ PutUpsert(p)
  PROVE  \E n \in Places, v \in Values : Map!Put(n, v)
<1>1. PICK n \in Names, v \in Values, created \in Times, t \in 0..clock :
         /\ store' = Written(n, v, created, t)
         /\ Commit(p, store') /\ UNCHANGED <<callers, kind, clock>>
         /\ created = IF Get(n) = None THEN t ELSE Get(n).created_at
         /\ callers = "serial" /\ Get(n) # None => Get(n).updated_at <= t
  BY PutWrites
<1>2. t \in Times
  BY StorageAssumption DEF IInv, TypeOK, Times
<1> DEFINE c == PlaceOf(n)
           r == [namespace |-> n[1], key |-> n[2], value |-> v,
                 created_at |-> created, updated_at |-> t]
           e == [value |-> v, updated_at |-> t,
                 created_at |-> IF Stored[c] = None THEN t ELSE Stored[c].created_at]
<1>3. r \in Records
  BY <1>2, NamesArePairs DEF Records
<1>4. c \in Places /\ Apart(c[1]) /\ Slot(c) = Slot(n) /\ Get(c) = Get(n)
  BY PlaceHolds DEF IInv, TypeOK, Get
<1> HIDE DEF c
<1>5. \A m \in Places : Apart(m[1]) => Get(m)' = IF m = c THEN r ELSE Get(m)
  <2>1. \A m : Get(m)' = IF Slot(m) = Slot(n) THEN r ELSE Get(m)
    BY <1>1, <1>2, WriteOne DEF IInv
  <2>2. \A m \in Places : Apart(m[1]) => (Slot(m) = Slot(n) <=> m = c)
    BY <1>4, SlotsDiffer
  <2>3. QED
    BY <2>1, <2>2
<1>6. /\ Stored[c] = Abstract(Get(n))
      /\ Get(n) = None <=> Stored[c] = None
      /\ Get(n) # None => /\ Stored[c].created_at = Get(n).created_at
                          /\ Stored[c].updated_at = Get(n).updated_at
  BY <1>4, GetSlot, AbstractRecord DEF IInv, Stored
<1>7. Abstract(r) = e
  <2>1. Abstract(r) = [value |-> v, updated_at |-> t, created_at |-> created]
    BY <1>3, NoneIsNoRecord, AbstractRecord
  <2>2. created = IF Stored[c] = None THEN t ELSE Stored[c].created_at
    BY <1>1, <1>6
  <2>3. QED
    BY <2>1, <2>2
<1> HIDE DEF r, e
<1>8. Stored' = [Stored EXCEPT ![c] = e]
  <2>1. \A m \in Places : Stored'[m] = IF m = c THEN e ELSE Stored[m]
    BY <1>1, <1>4, <1>5, <1>7, ApartStands DEF Stored, Abstract
  <2>2. QED
    BY <2>1 DEF Stored
<1>9. t \in Map!Stamps(c)
  BY <1>1, <1>6 DEF Map!Stamps, Stored
<1>10. Map!Put(c, v)
  BY <1>1, <1>8, <1>9 DEF Map!Put, Stored, e
<1>11. QED
  BY <1>4, <1>10

\* Every step of a store is one of the map or none.
LEMMA MapStep ==
  ASSUME IInv, [Next]_vars
  PROVE  [Map!Next]_(Map!vars)
<1>1. CASE Tick
  <2>1. \A n : Get(n)' = Get(n)
    BY <1>1 DEF Tick, Get, Slot
  <2>2. Map!Tick
    BY <1>1, <2>1 DEF Tick, Map!Tick, Abstract, Apart
  <2>3. QED
    BY <2>2 DEF Map!Next
<1>2. ASSUME NEW p \in Calls, Begin(p) \/ PutSelect(p) \/ SqlFail(p)
      PROVE  UNCHANGED Map!vars
  BY <1>2, Stutters DEF Begin, PutSelect, SqlFail
<1>3. ASSUME NEW p \in Calls, PutMemory(p) \/ PutUpsert(p)
      PROVE  Map!Next
  BY <1>3, PutIsPut DEF Map!Next
<1>4. ASSUME NEW p \in Calls, RemoveKey(p)
      PROVE  Map!Next
  <2> DEFINE n == call[p].name
             c == PlaceOf(n)
  <2>1. n \in Names /\ store' = Without({Slot(n)}) /\ UNCHANGED <<callers, kind, clock>>
    BY <1>4 DEF RemoveKey, Commit, IInv, CallsOK, Puts, Removes, Clears
  <2> HIDE DEF n
  <2>2. c \in Places /\ Apart(c[1]) /\ Slot(c) = Slot(n)
    BY <2>1, PlaceHolds DEF IInv, TypeOK
  <2> HIDE DEF c
  <2>3. \A m \in Places : Apart(m[1]) => Get(m)' = IF m = c THEN None ELSE Get(m)
    BY <2>1, <2>2, EmptySome, SlotsDiffer DEF IInv
  <2>4. Map!Remove(c)
    BY <2>1, <2>3, ApartStands DEF Map!Remove, Map!Delete, Abstract
  <2>5. QED
    BY <2>2, <2>4 DEF Map!Next
<1>5. ASSUME NEW p \in Calls, ClearNamespace(p)
      PROVE  [Map!Next]_(Map!vars)
  <2> DEFINE ns == call[p].name[1]
  <2>1. store' = Without(SlotsIn(ns)) /\ UNCHANGED <<callers, kind, clock>>
    BY <1>5 DEF ClearNamespace, Commit
  <2> HIDE DEF ns
  <2>2. \A m \in Places :
          Apart(m[1]) => Get(m)' = IF m[1] = ns THEN None ELSE Get(m)
    <3>1. \A m \in Places : Apart(m[1]) /\ Slot(m) \in SlotsIn(ns) => m[1] = ns
      BY NameOfSlot DEF SlotsIn
    <3>2. \A m \in Places :
            Apart(m[1]) /\ m[1] = ns /\ Get(m) # None => Slot(m) \in SlotsIn(ns)
      BY SlotsOfNamespace DEF IInv
    <3>3. QED
      BY <2>1, <3>1, <3>2, EmptySome DEF IInv
  <2>3. ASSUME NEW n \in Places, n[1] = ns
        PROVE  Map!Next
    <3>1. Map!Clear(n[1])
      BY <2>1, <2>2, <2>3, ApartStands DEF Map!Clear, Map!Delete, Abstract
    <3>2. QED
      BY <3>1 DEF Map!Next
  <2>4. ASSUME \A n \in Places : n[1] # ns
        PROVE  UNCHANGED Map!vars
    BY <2>1, <2>2, <2>4, ApartStands DEF Map!vars, Abstract
  <2>5. QED
    BY <2>3, <2>4
<1>6. CASE UNCHANGED vars
  BY <1>6, Stutters DEF vars
<1>7. QED
  BY <1>1, <1>2, <1>3, <1>4, <1>5, <1>6 DEF Next

\* Both stores are the one map that the trait Storage promises: SQLite of all
\* names, MemoryStore of the places it has for them.  A serial caller's times
\* are in order.
THEOREM Refinement == Spec => ImplementsMap
<1>1. Init => Map!Init
  BY DEF Init, Map!Init, Get, Abstract
<1>2. IInv /\ [Next]_vars => [Map!Next]_(Map!vars)
  BY MapStep
<1>3. QED
  BY <1>1, <1>2, Inductive, PTL DEF Spec, ImplementsMap, Map!Spec

=============================================================================
