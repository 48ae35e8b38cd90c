---------------------------- MODULE Listeners_proofs ----------------------------
(***************************************************************************)
(* Proofs about Listeners, for any handlers and any number of              *)
(* registrations.                                                          *)
(***************************************************************************)
EXTENDS Listeners, FiniteSetTheorems, TLAPS

\* A nonempty set of places in a sequence has a first: one with the fewest before it.
LEMMA HasFirst ==
  ASSUME NEW N \in Nat, NEW S \in SUBSET (1 .. N), S # {}
  PROVE  \E x \in S : \A y \in S : x =< y
<1> DEFINE R == StrictSubsetOrdering(1 .. N)
           Below(x) == {y \in S : y < x}
           T == {Below(x) : x \in S}
<1>1. IsWellFoundedOn(R, SUBSET (1 .. N))
  <2>1. IsFiniteSet(1 .. N)
    BY FS_Interval
  <2> QED
    BY <2>1, FS_FiniteSubsetsOfFinite, FS_StrictSubsetOrderingWellFounded
<1>2. T \subseteq SUBSET (1 .. N) /\ T # {}
  OBVIOUS
<1>3. \E A \in T : \A B \in T : ~(<<B, A>> \in R)
  <2> HIDE DEF R, T
  <2> QED
    BY <1>1, <1>2, WFMin
<1>4. PICK x \in S : \A y \in S : ~(<<Below(y), Below(x)>> \in R)
  BY <1>3
<1>5. ASSUME NEW y \in S, y < x PROVE FALSE
  <2>1. y \in Below(x) /\ y \notin Below(y)
    BY <1>5
  <2>2. Below(y) \subseteq Below(x)
    <3> SUFFICES ASSUME NEW z \in S, z < y PROVE z < x
      OBVIOUS
    <3>1. x \in Int /\ y \in Int /\ z \in Int
      OBVIOUS
    <3> QED
      BY <1>5, <3>1
  <2>3. Below(x) \in SUBSET (1 .. N) /\ Below(y) \in SUBSET (1 .. N)
    OBVIOUS
  <2>4. <<Below(y), Below(x)>> \in R
    BY <2>1, <2>2, <2>3 DEF StrictSubsetOrdering
  <2> QED
    BY <1>4, <2>4
<1> QED
  BY <1>5

\* indexOf finds a place in the array or none.
LEMMA FirstOfIsAPlace ==
  ASSUME array \in Seq(Registration), NEW h, FirstOf(h) # 0
  PROVE  FirstOf(h) \in DOMAIN array
<1> DEFINE S == {k \in 1 .. Len(array) : array[k].handler = h}
<1>1. FirstOf(h) = IF S # {} THEN Min(S) ELSE 0
  BY DEF FirstOf, SelectInSeq
<1>2. S # {} => Min(S) \in S
  <2> HIDE DEF S
  <2> SUFFICES ASSUME S # {} PROVE \E x \in S : \A y \in S : x =< y
    BY DEF Min
  <2>1. S \in SUBSET (1 .. Len(array)) /\ Len(array) \in Nat
    BY DEF S
  <2> QED
    BY <2>1, HasFirst
<1> QED
  BY <1>1, <1>2

\* RemoveAt: what comes after place k moves up.
LEMMA RemoveMovesUp ==
  ASSUME array \in Seq(Registration), NEW k \in DOMAIN array, array' = RemoveAt(array, k)
  PROVE  /\ array' \in Seq(Registration)
         /\ Len(array') = Len(array) - 1
         /\ \A j \in DOMAIN array' :
              /\ j \in DOMAIN array /\ j + 1 \in DOMAIN array
              /\ array'[j] = IF j < k THEN array[j] ELSE array[j + 1]
         /\ \A j \in DOMAIN array \ {k} :
              \/ j < k /\ j \in DOMAIN array' /\ array'[j] = array[j]
              \/ j > k /\ j - 1 \in DOMAIN array' /\ array'[j - 1] = array[j]
<1> DEFINE front == SubSeq(array, 1, k - 1)
           back == SubSeq(array, k + 1, Len(array))
<1>1. k \in 1 .. Len(array) /\ Len(array) \in Nat /\ DOMAIN array = 1 .. Len(array)
  OBVIOUS
<1>2. /\ front \in Seq(Registration) /\ Len(front) = k - 1
      /\ \A j \in 1 .. k - 1 : front[j] = array[j]
  BY <1>1
<1>3. /\ back \in Seq(Registration) /\ Len(back) = Len(array) - k
      /\ \A j \in 1 .. Len(array) - k : back[j] = array[k + j]
  BY <1>1
<1>4. array' = front \o back
  BY DEF RemoveAt
<1> HIDE DEF front, back
<1>5. /\ array' \in Seq(Registration) /\ Len(array') = Len(array) - 1
      /\ DOMAIN array' = 1 .. Len(array) - 1
  <2>1. front \o back \in Seq(Registration) /\ Len(front \o back) = Len(front) + Len(back)
    BY <1>2, <1>3
  <2>2. Len(front) + Len(back) = Len(array) - 1
    BY <1>1, <1>2, <1>3
  <2> QED
    BY <1>4, <2>1, <2>2
<1>6. ASSUME NEW j \in 1 .. Len(array) - 1
      PROVE  array'[j] = IF j < k THEN array[j] ELSE array[j + 1]
  <2>1. array'[j] = IF j <= Len(front) THEN front[j] ELSE back[j - Len(front)]
    BY <1>1, <1>2, <1>3, <1>4
  <2>2. CASE j < k
    BY <1>1, <1>2, <2>1, <2>2
  <2>3. CASE j >= k
    <3>1. j - (k - 1) \in 1 .. Len(array) - k /\ k + (j - (k - 1)) = j + 1
      BY <1>1, <2>3
    <3>2. array'[j] = back[j - (k - 1)]
      BY <1>1, <1>2, <2>1, <2>3
    <3>3. back[j - (k - 1)] = array[k + (j - (k - 1))]
      BY <1>3, <3>1
    <3> QED
      BY <1>1, <2>3, <3>1, <3>2, <3>3
  <2> QED
    BY <1>1, <2>2, <2>3
<1>7. ASSUME NEW j \in 1 .. Len(array), j # k
      PROVE  \/ j < k /\ j \in DOMAIN array' /\ array'[j] = array[j]
             \/ j > k /\ j - 1 \in DOMAIN array' /\ array'[j - 1] = array[j]
  <2>1. CASE j < k
    BY <1>1, <1>5, <1>6, <2>1
  <2>2. CASE j > k
    <3>1. j - 1 \in 1 .. Len(array) - 1 /\ ~(j - 1 < k) /\ (j - 1) + 1 = j
      BY <1>1, <2>2
    <3> QED
      BY <1>5, <1>6, <2>2, <3>1
  <2> QED
    BY <1>1, <1>7, <2>1, <2>2
<1> QED
  BY <1>1, <1>5, <1>6, <1>7

\* What is appended is added.
LEMMA AppendAdds ==
  ASSUME NEW s \in Seq(Registration), NEW r \in Registration
  PROVE  ToSet(Append(s, r)) = ToSet(s) \cup {r}
<1> DEFINE q == Append(s, r)
<1>1. /\ DOMAIN q = 1 .. Len(s) + 1 /\ DOMAIN s = 1 .. Len(s) /\ Len(s) \in Nat
      /\ \A k \in 1 .. Len(s) : q[k] = s[k]
      /\ q[Len(s) + 1] = r
  OBVIOUS
<1> HIDE DEF q
<1>2. ASSUME NEW k \in DOMAIN q PROVE q[k] \in ToSet(s) \cup {r}
  <2>1. k \in DOMAIN s \/ k = Len(s) + 1
    BY <1>1
  <2> QED
    BY <1>1, <2>1 DEF ToSet
<1>3. ASSUME NEW k \in DOMAIN s PROVE s[k] \in ToSet(q)
  BY <1>1 DEF ToSet
<1>4. r \in ToSet(q)
  <2>1. Len(s) + 1 \in DOMAIN q
    BY <1>1
  <2> QED
    BY <1>1, <2>1 DEF ToSet
<1>5. ToSet(q) = ToSet(s) \cup {r}
  BY <1>2, <1>3, <1>4 DEF ToSet
<1> QED
  BY <1>5 DEF q

\* The array is no longer than there were calls of on.
LEMMA ArrayIsBounded ==
  ASSUME TypeOK, NumberedByCalls
  PROVE  Len(array) \in Nat /\ Len(array) <= calls
<1>1. CASE Len(array) = 0
  BY <1>1 DEF TypeOK
<1>2. CASE Len(array) # 0
  <2>1. Len(array) \in Nat /\ Len(array) \in DOMAIN array
    BY <1>2 DEF TypeOK
  <2>2. array[Len(array)].n \in Nat /\ calls \in Nat
    <3>1. array[Len(array)] \in Registration
      BY <2>1 DEF TypeOK
    <3> QED
      BY <3>1, ConstantsAssumption DEF TypeOK, Registration
  <2> QED
    BY <2>1, <2>2 DEF NumberedByCalls
<1> QED
  BY <1>1, <1>2

\* What is skipped and what off has removed are finite sets.
LEMMA FiniteSets ==
  ASSUME SkipsArePaidFor
  PROVE  /\ IsFiniteSet(Skipped) /\ Cardinality(Skipped) \in Nat
         /\ IsFiniteSet(removed \cap ToSet(called))
         /\ Cardinality(removed \cap ToSet(called)) \in Nat
<1>1. Skipped \in SUBSET atStart /\ (removed \cap ToSet(called)) \in SUBSET removed
  BY DEF Skipped
<1> QED
  BY <1>1, FS_Subset, FS_CardinalityType DEF SkipsArePaidFor

\* The inductive invariant holds before any listener is added.
LEMMA InvInit == Init => IInv
<1> SUFFICES ASSUME Init PROVE IInv
  OBVIOUS
<1>1. array = <<>> /\ called = <<>> /\ atStart = {} /\ removed = {} /\ calls = 0 /\ index = 0
  BY DEF Init
<1>2. TypeOK
  <2>1. \A S : <<>> \in Seq(S) /\ DOMAIN <<>> = {}
    OBVIOUS
  <2>2. 0 \in 0 .. MaxRegistrations /\ 0 \in 0 .. MaxRegistrations + 1
    BY ConstantsAssumption
  <2> QED
    BY <1>1, <2>1, <2>2 DEF Init, TypeOK
<1>3. NumberedByCalls /\ CalledInOrder /\ CalledComeFirst /\ NothingGetsLost
  BY <1>1 DEF NumberedByCalls, CalledInOrder, CalledComeFirst, NothingGetsLost, ToSet
<1>4. SkipsArePaidFor
  BY <1>1, FS_EmptySet DEF SkipsArePaidFor
<1> QED
  BY <1>2, <1>3, <1>4 DEF IInv

\* on: the new registration comes last, and is not one the dispatch began with.
LEMMA OnStep == ASSUME IInv, NEW h \in Handlers, On(h) PROVE IInv'
<1>1. PICK r \in Registration : r = [n |-> calls + 1, handler |-> h]
  <2>1. calls + 1 \in 1 .. MaxRegistrations
    BY ConstantsAssumption DEF On, IInv, TypeOK
  <2> QED
    BY <2>1 DEF Registration
<1>2. /\ array' = Append(array, r) /\ calls' = calls + 1 /\ calls < MaxRegistrations
      /\ UNCHANGED <<destroyed, index, inHandler, atStart, called, removed>>
  BY <1>1 DEF On, Added, dispatchVars
<1>3. /\ array' \in Seq(Registration) /\ Len(array') = Len(array) + 1
      /\ DOMAIN array' = 1 .. Len(array) + 1 /\ DOMAIN array = 1 .. Len(array)
      /\ Len(array) \in Nat
      /\ \A k \in DOMAIN array : k \in DOMAIN array' /\ array'[k] = array[k]
      /\ array'[Len(array) + 1] = r
      /\ ToSet(array)' = ToSet(array) \cup {r}
  <2>1. array \in Seq(Registration)
    BY DEF IInv, TypeOK
  <2>2. /\ array' \in Seq(Registration) /\ Len(array') = Len(array) + 1
        /\ DOMAIN array' = 1 .. Len(array) + 1 /\ DOMAIN array = 1 .. Len(array)
        /\ Len(array) \in Nat
        /\ \A k \in DOMAIN array : k \in DOMAIN array' /\ array'[k] = array[k]
        /\ array'[Len(array) + 1] = r
    BY <1>2, <2>1
  <2>3. ToSet(array') = ToSet(array) \cup {r}
    BY <1>2, <2>1, AppendAdds
  <2>4. ToSet(array)' = ToSet(array')
    BY DEF ToSet
  <2> QED
    BY <2>2, <2>3, <2>4
<1>4. /\ calls \in Nat /\ r.n = calls + 1
      /\ \A k \in DOMAIN array : array[k].n \in Nat /\ k <= array[k].n /\ array[k].n <= calls
      /\ \A s \in atStart \cup removed \cup ToSet(called) : s.n \in Nat /\ s.n <= calls
  <2>1. calls \in Nat /\ r.n = calls + 1
    BY <1>1, ConstantsAssumption DEF IInv, TypeOK
  <2>2. \A k \in DOMAIN array : array[k] \in Registration
    BY DEF IInv, TypeOK
  <2>3. \A s \in atStart \cup removed \cup ToSet(called) : s \in Registration
    BY DEF IInv, TypeOK, ToSet
  <2>4. \A s \in Registration : s.n \in Nat
    BY ConstantsAssumption DEF Registration
  <2> QED
    BY <2>1, <2>2, <2>3, <2>4 DEF IInv, NumberedByCalls
<1>5. ASSUME NEW k \in DOMAIN array' PROVE k \in DOMAIN array \/ k = Len(array) + 1
  BY <1>3
<1>6. Len(array) <= calls
  BY ArrayIsBounded DEF IInv
<1>7. TypeOK'
  <2>1. \A j, k \in DOMAIN array' : j < k => array'[j].n < array'[k].n
    <3> SUFFICES ASSUME NEW j \in DOMAIN array', NEW k \in DOMAIN array', j < k
                 PROVE  array'[j].n < array'[k].n
      OBVIOUS
    <3>1. j \in DOMAIN array
      BY <1>3
    <3>2. CASE k \in DOMAIN array
      BY <1>3, <3>1, <3>2 DEF IInv, TypeOK
    <3>3. CASE k = Len(array) + 1
      BY <1>3, <1>4, <3>1, <3>3
    <3> QED
      BY <1>5, <3>2, <3>3
  <2>2. calls' \in 0 .. MaxRegistrations
    BY <1>2, <1>4, ConstantsAssumption
  <2> QED
    BY <1>2, <1>3, <2>1, <2>2 DEF IInv, TypeOK
<1>8. NumberedByCalls'
  <2>1. \A k \in DOMAIN array' : k <= array'[k].n /\ array'[k].n <= calls'
    <3> SUFFICES ASSUME NEW k \in DOMAIN array'
                 PROVE  k <= array'[k].n /\ array'[k].n <= calls'
      OBVIOUS
    <3>1. CASE k \in DOMAIN array
      BY <1>2, <1>3, <1>4, <3>1
    <3>2. CASE k = Len(array) + 1
      BY <1>2, <1>3, <1>4, <1>6, <3>2
    <3> QED
      BY <1>5, <3>1, <3>2
  <2>2. \A s \in atStart \cup removed \cup ToSet(called) : s.n <= calls'
    BY <1>2, <1>4
  <2>3. \A s \in atStart : \A k \in DOMAIN array' : array'[k] \in atStart \/ s.n < array'[k].n
    BY <1>3, <1>4, <1>5 DEF IInv, NumberedByCalls
  <2> QED
    BY <1>2, <2>1, <2>2, <2>3 DEF NumberedByCalls, ToSet
<1>9. CalledInOrder'
  BY <1>2 DEF IInv, CalledInOrder
<1>10. CalledComeFirst'
  <2> SUFFICES ASSUME index > 0, NEW j \in DOMAIN called, NEW k \in DOMAIN array', k >= index
               PROVE  called[j].n < array'[k].n
    BY <1>2 DEF CalledComeFirst
  <2>1. called[j] \in ToSet(called)
    BY DEF ToSet
  <2>2. CASE k \in DOMAIN array
    BY <1>3, <2>2 DEF IInv, CalledComeFirst
  <2>3. CASE k = Len(array) + 1
    BY <1>3, <1>4, <2>1, <2>3
  <2> QED
    BY <1>5, <2>2, <2>3
<1>11. r \notin atStart \cup removed \cup ToSet(called)
  BY <1>4
<1>12. NothingGetsLost'
  BY <1>2, <1>3, <1>11 DEF IInv, NothingGetsLost, ToSet
<1>13. SkipsArePaidFor'
  <2>1. Skipped' = Skipped
    <3>1. ASSUME NEW s \in Skipped PROVE s \in Skipped'
      BY <1>2, <1>3, <3>1 DEF Skipped, ToSet
    <3>2. ASSUME NEW s \in Skipped' PROVE s \in Skipped
      <4>1. s \in atStart \ ToSet(called)
        BY <1>2, <3>2 DEF Skipped, ToSet
      <4>2. PICK k \in DOMAIN array' : k < index /\ array'[k] = s
        BY <1>2, <3>2 DEF Skipped
      <4>3. k \in DOMAIN array
        BY <1>3, <1>5, <1>11, <4>1, <4>2
      <4> QED
        BY <1>3, <4>1, <4>2, <4>3 DEF Skipped
    <3> QED
      BY <3>1, <3>2
  <2>2. (removed \cap ToSet(called))' = removed \cap ToSet(called)
    BY <1>2 DEF ToSet
  <2> QED
    BY <1>2, <2>1, <2>2 DEF IInv, SkipsArePaidFor
<1> QED
  BY <1>7, <1>8, <1>9, <1>10, <1>12, <1>13 DEF IInv

\* off: what comes after the place it empties moves up, past the iterator if that has
\* passed the place.
LEMMA OffStep == ASSUME IInv, NEW h \in Handlers, Off(h) PROVE IInv'
<1>1. PICK k \in DOMAIN array : array' = RemoveAt(array, k) /\ removed' = removed \cup {array[k]}
  <2>1. array \in Seq(Registration)
    BY DEF IInv, TypeOK
  <2> QED
    BY <2>1, FirstOfIsAPlace DEF Off
<1>2. UNCHANGED <<calls, destroyed, index, inHandler, atStart, called>>
  BY DEF Off, dispatchVars
<1>3. /\ array \in Seq(Registration) /\ array' \in Seq(Registration)
      /\ Len(array') = Len(array) - 1
      /\ DOMAIN array = 1 .. Len(array) /\ Len(array) \in Nat
      /\ \A j \in DOMAIN array' :
           /\ j \in DOMAIN array /\ j + 1 \in DOMAIN array
           /\ array'[j] = IF j < k THEN array[j] ELSE array[j + 1]
      /\ \A j \in DOMAIN array \ {k} :
           \/ j < k /\ j \in DOMAIN array' /\ array'[j] = array[j]
           \/ j > k /\ j - 1 \in DOMAIN array' /\ array'[j - 1] = array[j]
  BY <1>1, RemoveMovesUp DEF IInv, TypeOK
<1>4. \A i, j \in DOMAIN array : /\ i \in Nat /\ array[i].n \in Nat
                                 /\ i < j <=> array[i].n < array[j].n
                                 /\ array[i] = array[j] => i = j
  <2>1. \A i \in DOMAIN array : i \in Nat /\ array[i] \in Registration
    BY <1>3
  <2>2. \A i \in DOMAIN array : array[i].n \in Nat
    BY <2>1, ConstantsAssumption DEF Registration
  <2>3. \A i, j \in DOMAIN array : i < j => array[i].n < array[j].n
    BY DEF IInv, TypeOK
  <2>4. ASSUME NEW i \in DOMAIN array, NEW j \in DOMAIN array
        PROVE  /\ array[i].n < array[j].n => i < j
               /\ array[i] = array[j] => i = j
    <3>1. i < j \/ i = j \/ j < i
      BY <2>1
    <3>2. array[i].n \in Nat /\ array[j].n \in Nat
      BY <2>2
    <3> QED
      BY <2>3, <3>1, <3>2
  <2> QED
    BY <2>1, <2>2, <2>3, <2>4
<1>5. ToSet(array)' = ToSet(array) \ {array[k]}
  <2>1. ASSUME NEW j \in DOMAIN array' PROVE array'[j] \in ToSet(array) \ {array[k]}
    <3>1. CASE j < k
      BY <1>3, <1>4, <2>1, <3>1 DEF ToSet
    <3>2. CASE ~(j < k)
      <4>1. j + 1 # k /\ j + 1 \in DOMAIN array /\ array'[j] = array[j + 1]
        BY <1>3, <1>4, <3>2
      <4> QED
        BY <1>4, <4>1 DEF ToSet
    <3> QED
      BY <3>1, <3>2
  <2>2. ASSUME NEW j \in DOMAIN array, array[j] # array[k] PROVE array[j] \in ToSet(array')
    BY <1>3, <2>2 DEF ToSet
  <2> QED
    BY <2>1, <2>2 DEF ToSet
<1>6. TypeOK'
  <2>1. \A i, j \in DOMAIN array' : i < j => array'[i].n < array'[j].n
    <3> SUFFICES ASSUME NEW i \in DOMAIN array', NEW j \in DOMAIN array', i < j
                 PROVE  array'[i].n < array'[j].n
      OBVIOUS
    <3>1. PICK a \in {i, i + 1} : a \in DOMAIN array /\ array'[i] = array[a]
                                  /\ (a = i <=> i < k)
      BY <1>3, <1>4
    <3>2. PICK b \in {j, j + 1} : b \in DOMAIN array /\ array'[j] = array[b]
                                  /\ (b = j <=> j < k)
      BY <1>3, <1>4
    <3>3. a < b
      BY <1>3, <1>4, <3>1, <3>2
    <3> QED
      BY <1>4, <3>1, <3>2, <3>3
  <2>2. removed' \subseteq Registration
    BY <1>1, <1>3 DEF IInv, TypeOK
  <2> QED
    BY <1>2, <1>3, <2>1, <2>2 DEF IInv, TypeOK
<1>7. NumberedByCalls'
  <2>1. ASSUME NEW j \in DOMAIN array' PROVE j <= array'[j].n /\ array'[j].n <= calls
    <3>1. CASE j < k
      BY <1>3, <3>1 DEF IInv, NumberedByCalls
    <3>2. CASE ~(j < k)
      <4>1. j + 1 <= array[j + 1].n /\ array[j + 1].n <= calls
        BY <1>3 DEF IInv, NumberedByCalls
      <4> QED
        BY <1>3, <1>4, <3>2, <4>1
    <3> QED
      BY <3>1, <3>2
  <2>2. array[k].n <= calls
    BY DEF IInv, NumberedByCalls
  <2>3. \A r \in atStart \cup removed' \cup ToSet(called) : r.n <= calls
    BY <1>1, <2>2 DEF IInv, NumberedByCalls
  <2>4. \A r \in atStart : \A j \in DOMAIN array' : array'[j] \in atStart \/ r.n < array'[j].n
    BY <1>3 DEF IInv, NumberedByCalls
  <2> QED
    BY <1>2, <2>1, <2>3, <2>4 DEF NumberedByCalls, ToSet
<1>8. CalledInOrder'
  BY <1>2 DEF IInv, CalledInOrder
<1>9. CalledComeFirst'
  <2> SUFFICES ASSUME index > 0, NEW i \in DOMAIN called, NEW j \in DOMAIN array', j >= index
               PROVE  called[i].n < array'[j].n
    BY <1>2 DEF CalledComeFirst
  <2>1. PICK a \in {j, j + 1} : a \in DOMAIN array /\ array'[j] = array[a]
    BY <1>3
  <2>2. a >= index
    <3>1. j \in Nat /\ index \in Int
      BY <1>3, <1>4, ConstantsAssumption DEF IInv, TypeOK
    <3> QED
      BY <2>1, <3>1
  <2> QED
    BY <2>1, <2>2 DEF IInv, CalledComeFirst
<1>10. NothingGetsLost'
  <2>1. removed' \cap ToSet(array)' = {}
    BY <1>1, <1>5 DEF IInv, NothingGetsLost
  <2>2. index > 0 => atStart \subseteq ToSet(called) \cup removed' \cup ToSet(array)'
    BY <1>1, <1>5 DEF IInv, NothingGetsLost
  <2> QED
    BY <1>2, <2>1, <2>2 DEF NothingGetsLost, ToSet
<1>11. SkipsArePaidFor'
  <2> DEFINE paid == removed \cap ToSet(called)
             paidNow == removed' \cap ToSet(called)
  <2>1. IsFiniteSet(removed')
    BY <1>1, FS_AddElement DEF IInv, SkipsArePaidFor
  <2>2. ASSUME index > 0
        PROVE  Cardinality(Skipped') <= Cardinality(paidNow)
    <3>1. /\ Cardinality(Skipped) <= Cardinality(paid)
          /\ IsFiniteSet(Skipped) /\ Cardinality(Skipped) \in Nat
          /\ IsFiniteSet(paid) /\ Cardinality(paid) \in Nat
      BY <2>2, FiniteSets DEF IInv, SkipsArePaidFor
    <3>2. array[k] \notin removed
      BY DEF IInv, NothingGetsLost, ToSet
    <3>3. ASSUME NEW s \in Skipped', s \notin Skipped
          PROVE  /\ k < index /\ index \in DOMAIN array /\ s = array[index]
      <4>1. s \in atStart \ ToSet(called)
        BY <1>2 DEF Skipped, ToSet
      <4>2. PICK j \in DOMAIN array' : j < index /\ array'[j] = s
        BY <1>2 DEF Skipped
      <4>3. ~(j < k)
        BY <1>3, <3>3, <4>1, <4>2 DEF Skipped
      <4>4. j + 1 \in DOMAIN array /\ s = array[j + 1]
        BY <1>3, <4>2, <4>3
      <4>5. ~(j + 1 < index)
        BY <3>3, <4>1, <4>4 DEF Skipped
      <4>6. j \in Int /\ k \in Int /\ index \in Int
        BY <1>3, <1>4, ConstantsAssumption DEF IInv, TypeOK
      <4> QED
        BY <4>2, <4>3, <4>4, <4>5, <4>6
    <3>4. Skipped' \subseteq (Skipped \ {array[k]}) \cup
            (IF k < index /\ index \in DOMAIN array THEN {array[index]} ELSE {})
      <4>1. array[k] \notin Skipped'
        BY <1>2, <1>5 DEF Skipped, ToSet
      <4> QED
        BY <3>3, <4>1
    <3>5. paid \subseteq paidNow /\ paidNow \subseteq paid \cup {array[k]}
      BY <1>1
    <3>6. IsFiniteSet(paidNow) /\ Cardinality(paid) <= Cardinality(paidNow)
          /\ Cardinality(paidNow) \in Nat
      <4>1. IsFiniteSet(paid \cup {array[k]})
        BY <3>1, FS_AddElement
      <4>2. IsFiniteSet(paidNow)
        BY <3>5, <4>1, FS_Subset
      <4> QED
        BY <3>5, <4>2, FS_Subset, FS_CardinalityType
    <3> HIDE DEF paid, paidNow
    <3>7. CASE Skipped' \subseteq Skipped
      <4>1. Cardinality(Skipped') <= Cardinality(Skipped) /\ Cardinality(Skipped') \in Nat
        BY <3>1, <3>7, FS_Subset, FS_CardinalityType
      <4> QED
        BY <3>1, <3>6, <4>1
    <3>8. CASE ~(Skipped' \subseteq Skipped)
      <4>1. PICK s \in Skipped' : s \notin Skipped
        BY <3>8
      <4>2. k < index /\ index \in DOMAIN array /\ s = array[index]
        BY <3>3, <4>1
      <4>3. Skipped' \subseteq (Skipped \ {array[k]}) \cup {s}
        BY <3>4, <4>2
      <4>4. IsFiniteSet(Skipped \ {array[k]}) /\ Cardinality(Skipped \ {array[k]}) \in Nat
            /\ Cardinality(Skipped \ {array[k]}) =
                 IF array[k] \in Skipped THEN Cardinality(Skipped) - 1 ELSE Cardinality(Skipped)
        BY <3>1, FS_RemoveElement, FS_CardinalityType
      <4>5. IsFiniteSet((Skipped \ {array[k]}) \cup {s})
            /\ Cardinality((Skipped \ {array[k]}) \cup {s}) <= Cardinality(Skipped \ {array[k]}) + 1
        <5>1. Cardinality((Skipped \ {array[k]}) \cup {s}) =
                IF s \in Skipped \ {array[k]} THEN Cardinality(Skipped \ {array[k]})
                                              ELSE Cardinality(Skipped \ {array[k]}) + 1
          BY <4>4, FS_AddElement
        <5>2. IsFiniteSet((Skipped \ {array[k]}) \cup {s})
          BY <4>4, FS_AddElement
        <5> QED
          BY <4>4, <5>1, <5>2
      <4>6. Cardinality(Skipped') <= Cardinality(Skipped \ {array[k]}) + 1
            /\ Cardinality(Skipped') \in Nat
        <5>1. IsFiniteSet(Skipped') /\ Cardinality(Skipped')
                <= Cardinality((Skipped \ {array[k]}) \cup {s})
          BY <4>3, <4>5, FS_Subset
        <5>2. Cardinality((Skipped \ {array[k]}) \cup {s}) \in Nat /\ Cardinality(Skipped') \in Nat
          BY <4>5, <5>1, FS_CardinalityType
        <5> QED
          BY <4>4, <4>5, <5>1, <5>2
      <4>7. CASE array[k] \in Skipped
        BY <3>1, <3>6, <4>4, <4>6, <4>7
      <4>8. CASE array[k] \in ToSet(called)
        <5>1. paidNow = paid \cup {array[k]} /\ array[k] \notin paid
          BY <1>1, <3>2, <4>8 DEF paid, paidNow
        <5>2. Cardinality(paidNow) = Cardinality(paid) + 1
          BY <3>1, <5>1, FS_AddElement
        <5>3. Cardinality(Skipped \ {array[k]}) <= Cardinality(Skipped)
          BY <3>1, <4>4
        <5> QED
          BY <3>1, <3>6, <4>4, <4>6, <5>2, <5>3
      <4>9. CASE array[k] \notin Skipped \cup ToSet(called)
        <5>1. array[k] \notin atStart
          BY <4>2, <4>9 DEF Skipped
        <5>2. s \in atStart
          BY <1>2, <4>1 DEF Skipped
        <5>3. array[index].n < array[k].n
          BY <4>2, <5>1, <5>2 DEF IInv, NumberedByCalls
        <5> QED
          BY <1>4, <4>2, <5>3
      <4> QED
        BY <4>7, <4>8, <4>9
    <3> QED
      BY <3>7, <3>8
  <2>3. (removed \cap ToSet(called))' = paidNow
    BY <1>2 DEF ToSet
  <2> QED
    BY <1>2, <2>1, <2>2, <2>3 DEF IInv, SkipsArePaidFor
<1> QED
  BY <1>6, <1>7, <1>8, <1>9, <1>10, <1>11 DEF IInv

\* A dispatch begins with what is in the array.
LEMMA StartDispatchStep == ASSUME IInv, StartDispatch PROVE IInv'
<1>1. /\ index' = 1 /\ atStart' = ToSet(array) /\ called' = <<>> /\ removed' = {}
      /\ UNCHANGED <<array, calls, destroyed, inHandler>> /\ ~inHandler
  BY DEF StartDispatch, IInv, TypeOK
<1>2. \A k \in DOMAIN array : k \in Nat /\ k >= 1 /\ array[k] \in Registration
  BY DEF IInv, TypeOK
<1>3. TypeOK'
  <2>1. atStart' \subseteq Registration
    BY <1>1, <1>2 DEF ToSet
  <2>2. <<>> \in Seq(Registration) /\ 1 \in 0 .. MaxRegistrations + 1
    BY ConstantsAssumption
  <2> QED
    BY <1>1, <2>1, <2>2 DEF IInv, TypeOK
<1>4. ToSet(called)' = {} /\ ToSet(array)' = ToSet(array)
  BY <1>1 DEF ToSet
<1>5. NumberedByCalls'
  BY <1>1, <1>4 DEF IInv, NumberedByCalls, ToSet
<1>6. CalledInOrder' /\ CalledComeFirst'
  BY <1>1 DEF CalledInOrder, CalledComeFirst
<1>7. NothingGetsLost'
  BY <1>1, <1>4 DEF NothingGetsLost
<1>8. SkipsArePaidFor'
  <2>1. IsFiniteSet(ToSet(array))
    <3>1. IsFiniteSet(DOMAIN array)
      <4>1. DOMAIN array = 1 .. Len(array) /\ 1 \in Int /\ Len(array) \in Int
        BY DEF IInv, TypeOK
      <4> QED
        BY <4>1, FS_Interval
    <3>2. array \in Surjection(DOMAIN array, ToSet(array))
      <4>1. array \in [DOMAIN array -> ToSet(array)]
        BY DEF ToSet, IInv, TypeOK
      <4> QED
        BY <4>1 DEF Surjection, ToSet
    <3> QED
      BY <3>1, <3>2, FS_Surjection
  <2>2. Skipped' = {}
    BY <1>1, <1>2 DEF Skipped
  <2>3. (removed \cap ToSet(called))' = {}
    BY <1>1
  <2> QED
    BY <1>1, <2>1, <2>2, <2>3, FS_EmptySet DEF SkipsArePaidFor
<1> QED
  BY <1>3, <1>5, <1>6, <1>7, <1>8 DEF IInv

\* The next handler is called: it comes after those called before.
LEMMA CallNextStep == ASSUME IInv, CallNext PROVE IInv'
<1>1. /\ index \in DOMAIN array /\ Head(Left) = array[index] /\ index > 0 /\ index \in Nat
      /\ index <= Len(array) /\ Len(array) \in Nat
  <2>1. array \in Seq(Registration) /\ index \in Nat /\ index > 0 /\ Left # <<>>
    BY ConstantsAssumption DEF IInv, TypeOK, CallNext
  <2> QED
    BY <2>1 DEF Left
<1>2. PICK r \in Registration : r = array[index]
  BY <1>1 DEF IInv, TypeOK
<1>3. /\ called' = Append(called, r) /\ inHandler' = TRUE /\ index' = index + 1
      /\ UNCHANGED <<array, calls, destroyed, atStart, removed>>
  BY <1>1, <1>2 DEF CallNext
<1>4. /\ called \in Seq(Registration) /\ called' \in Seq(Registration)
      /\ DOMAIN called' = 1 .. Len(called) + 1 /\ DOMAIN called = 1 .. Len(called)
      /\ Len(called) \in Nat
      /\ \A k \in DOMAIN called : k \in DOMAIN called' /\ called'[k] = called[k]
      /\ called'[Len(called) + 1] = r
  <2>1. called \in Seq(Registration)
    BY DEF IInv, TypeOK
  <2> QED
    BY <1>3, <2>1
<1>5. ToSet(called)' = ToSet(called) \cup {r} /\ ToSet(array)' = ToSet(array)
  <2>1. ToSet(called') = ToSet(called) \cup {r}
    BY <1>3, <1>4, AppendAdds
  <2> QED
    BY <1>3, <2>1 DEF ToSet
<1>6. \A j \in DOMAIN called : called[j].n < r.n
  BY <1>1, <1>2 DEF IInv, CalledComeFirst
<1>7. \A k \in DOMAIN array : k > index => r.n < array[k].n
  BY <1>1, <1>2 DEF IInv, TypeOK
<1>8. ASSUME NEW k \in DOMAIN called' PROVE k \in DOMAIN called \/ k = Len(called) + 1
  BY <1>4
<1>9. TypeOK'
  <2>1. index + 1 \in 0 .. MaxRegistrations + 1 /\ index + 1 > 1
    <3>1. Len(array) <= calls /\ calls \in 0 .. MaxRegistrations
      BY ArrayIsBounded DEF IInv, TypeOK
    <3> QED
      BY <1>1, <3>1, ConstantsAssumption
  <2> QED
    BY <1>3, <1>4, <2>1 DEF IInv, TypeOK
<1>10. NumberedByCalls'
  <2>1. r.n <= calls
    BY <1>1, <1>2 DEF IInv, NumberedByCalls
  <2>2. \A s \in atStart \cup removed \cup ToSet(called)' : s.n <= calls
    BY <1>5, <2>1 DEF IInv, NumberedByCalls
  <2> QED
    BY <1>3, <2>2 DEF IInv, NumberedByCalls
<1>11. CalledInOrder'
  <2> SUFFICES ASSUME NEW j \in DOMAIN called', NEW k \in DOMAIN called', j < k
               PROVE  called'[j].n < called'[k].n
    BY DEF CalledInOrder
  <2>1. j \in DOMAIN called
    BY <1>4
  <2>2. CASE k \in DOMAIN called
    BY <1>4, <2>1, <2>2 DEF IInv, CalledInOrder
  <2>3. CASE k = Len(called) + 1
    BY <1>4, <1>6, <2>1, <2>3
  <2> QED
    BY <1>8, <2>2, <2>3
<1>12. CalledComeFirst'
  <2> SUFFICES ASSUME NEW j \in DOMAIN called', NEW k \in DOMAIN array, k >= index + 1
               PROVE  called'[j].n < array[k].n
    BY <1>3 DEF CalledComeFirst
  <2>1. k \in Nat /\ k > index
    BY <1>1 DEF IInv, TypeOK
  <2>2. CASE j \in DOMAIN called
    BY <1>1, <1>4, <2>1, <2>2 DEF IInv, CalledComeFirst
  <2>3. CASE j = Len(called) + 1
    BY <1>4, <1>7, <2>1, <2>3
  <2> QED
    BY <1>8, <2>2, <2>3
<1>13. NothingGetsLost'
  BY <1>1, <1>3, <1>5 DEF IInv, NothingGetsLost
<1>14. SkipsArePaidFor'
  <2>1. Skipped' \subseteq Skipped
    <3> SUFFICES ASSUME NEW s \in Skipped' PROVE s \in Skipped
      OBVIOUS
    <3>1. s \in atStart \ ToSet(called) /\ s # r
      BY <1>3, <1>5 DEF Skipped
    <3>2. PICK k \in DOMAIN array : k < index + 1 /\ array[k] = s
      BY <1>3 DEF Skipped
    <3>3. k < index
      <4>1. k \in Nat /\ k # index
        BY <1>2, <3>1, <3>2 DEF IInv, TypeOK
      <4> QED
        BY <1>1, <3>2, <4>1
    <3> QED
      BY <3>1, <3>2, <3>3 DEF Skipped
  <2>2. r \notin removed
    BY <1>1, <1>2 DEF IInv, NothingGetsLost, ToSet
  <2>3. (removed \cap ToSet(called))' = removed \cap ToSet(called)
    BY <1>3, <1>5, <2>2
  <2>4. Cardinality(Skipped') <= Cardinality(removed \cap ToSet(called))
    <3>1. /\ IsFiniteSet(Skipped) /\ Cardinality(Skipped) \in Nat
          /\ Cardinality(removed \cap ToSet(called)) \in Nat
          /\ Cardinality(Skipped) <= Cardinality(removed \cap ToSet(called))
      BY <1>1, FiniteSets DEF IInv, SkipsArePaidFor
    <3>2. Cardinality(Skipped') <= Cardinality(Skipped) /\ Cardinality(Skipped') \in Nat
      BY <2>1, <3>1, FS_Subset, FS_CardinalityType
    <3> QED
      BY <3>1, <3>2
  <2> QED
    BY <1>3, <2>3, <2>4 DEF IInv, SkipsArePaidFor
<1> QED
  BY <1>9, <1>10, <1>11, <1>12, <1>13, <1>14 DEF IInv

\* The other steps leave the array and what was called as they are.
LEMMA OtherSteps ==
  ASSUME IInv, Destroy \/ HandlerReturns \/ EndDispatch \/ UNCHANGED vars
  PROVE  IInv'
<1>1. /\ UNCHANGED <<array, calls, atStart, called, removed>>
      /\ index' = index \/ (index' = 0 /\ ~inHandler')
      /\ destroyed' \in BOOLEAN
      /\ inHandler' \in BOOLEAN /\ (inHandler' => inHandler)
  <2>1. destroyed \in BOOLEAN /\ inHandler \in BOOLEAN
    BY DEF IInv, TypeOK
  <2>2. CASE Destroy
    BY <2>1, <2>2 DEF Destroy, ArrayAfterDestroy, dispatchVars
  <2>3. CASE HandlerReturns
    BY <2>1, <2>3 DEF HandlerReturns
  <2>4. CASE EndDispatch
    BY <2>1, <2>4 DEF EndDispatch
  <2>5. CASE UNCHANGED vars
    BY <2>1, <2>5 DEF vars, dispatchVars
  <2> QED
    BY <2>2, <2>3, <2>4, <2>5
<1>2. TypeOK'
  BY <1>1, ConstantsAssumption DEF IInv, TypeOK
<1>3. ToSet(called)' = ToSet(called) /\ ToSet(array)' = ToSet(array)
  BY <1>1 DEF ToSet
<1>4. NumberedByCalls' /\ CalledInOrder' /\ CalledComeFirst' /\ NothingGetsLost'
  BY <1>1, <1>3 DEF IInv, NumberedByCalls, CalledInOrder, CalledComeFirst, NothingGetsLost
<1>5. SkipsArePaidFor'
  <2>1. index' = index => Skipped' = Skipped
    BY <1>1, <1>3 DEF Skipped
  <2> QED
    BY <1>1, <1>3, <2>1 DEF IInv, SkipsArePaidFor
<1> QED
  BY <1>2, <1>4, <1>5 DEF IInv

\* Every step of the registry and of a dispatch keeps the inductive invariant.
LEMMA InvStep == IInv /\ [Next]_vars => IInv'
  BY OnStep, OffStep, StartDispatchStep, CallNextStep, OtherSteps DEF Next, Dispatch

\* The inductive invariant holds in every state the program reaches.
THEOREM Invariance == Spec => []IInv
  BY InvInit, InvStep, PTL DEF Spec

\* The array, the iterator and the dispatch keep values of their kinds, and the array
\* its order, whatever on and off do in the middle of a dispatch.
THEOREM TypeCorrect == Spec => []TypeOK
<1>1. IInv => TypeOK
  BY DEF IInv
<1> QED
  BY <1>1, Invariance, PTL

\* A dispatch calls handlers in the order of their registration, none twice.
THEOREM CallsInOrder == Spec => []CalledInOrder
<1>1. IInv => CalledInOrder
  BY DEF IInv
<1> QED
  BY <1>1, Invariance, PTL

\* No handler is called that off removed in this dispatch.
THEOREM NoCallAfterRemoval == Spec => RemovedIsNotCalled
<1>1. IInv /\ [Next]_vars =>
        [\A r \in removed : r \in ToSet(called') => r \in ToSet(called)]_<<called, removed>>
  <2> SUFFICES ASSUME IInv, [Next]_vars, NEW r \in removed, r \in ToSet(called'),
                      r \notin ToSet(called)
               PROVE  FALSE
    OBVIOUS
  <2>1. CASE CallNext
    <3>1. PICK k \in DOMAIN array : called' = Append(called, array[k])
      <4>1. array \in Seq(Registration) /\ index \in Nat /\ index > 0 /\ Left # <<>>
        BY <2>1, ConstantsAssumption DEF IInv, TypeOK, CallNext
      <4>2. index \in DOMAIN array /\ Head(Left) = array[index]
        BY <4>1 DEF Left
      <4> QED
        BY <2>1, <4>2 DEF CallNext
    <3>2. ToSet(called') = ToSet(called) \cup {array[k]}
      BY <3>1, AppendAdds DEF IInv, TypeOK
    <3> QED
      BY <3>2 DEF IInv, NothingGetsLost, ToSet
  <2>2. CASE StartDispatch
    BY <2>2 DEF StartDispatch, ToSet
  <2>3. CASE called' = called
    BY <2>3
  <2> QED
    BY <2>1, <2>2, <2>3 DEF Next, Dispatch, HandlerReturns, EndDispatch, Destroy, On, Off,
       dispatchVars, vars
<1> QED
  BY <1>1, Invariance, PTL DEF Spec, RemovedIsNotCalled

\* A dispatch that ends has passed over one handler at most for each that was removed
\* after its call.
THEOREM SkipsAreFew == Spec => []SkipsOnlyForRemovals
<1>1. IInv => SkipsOnlyForRemovals
  <2> SUFFICES ASSUME IInv, index > 0, Left = <<>>
               PROVE  Cardinality(atStart \ (ToSet(called) \cup removed))
                        <= Cardinality(removed \cap ToSet(called))
    BY DEF SkipsOnlyForRemovals
  <2>1. \A k \in DOMAIN array : k < index
    <3>1. array \in Seq(Registration) /\ index \in Nat /\ index > 0
      BY ConstantsAssumption DEF IInv, TypeOK
    <3>2. ASSUME index <= Len(array) PROVE FALSE
      <4>1. 1 \in DOMAIN SubSeq(array, index, Len(array))
        BY <3>1, <3>2
      <4> QED
        BY <4>1 DEF Left
    <3> QED
      BY <3>1, <3>2
  <2>2. atStart \ (ToSet(called) \cup removed) \subseteq Skipped
    BY <2>1 DEF IInv, NothingGetsLost, Skipped, ToSet
  <2>3. /\ IsFiniteSet(Skipped) /\ Cardinality(Skipped) \in Nat
        /\ Cardinality(removed \cap ToSet(called)) \in Nat
        /\ Cardinality(Skipped) <= Cardinality(removed \cap ToSet(called))
    BY FiniteSets DEF IInv, SkipsArePaidFor
  <2>4. Cardinality(atStart \ (ToSet(called) \cup removed)) <= Cardinality(Skipped)
        /\ Cardinality(atStart \ (ToSet(called) \cup removed)) \in Nat
    BY <2>2, <2>3, FS_Subset, FS_CardinalityType
  <2> QED
    BY <2>3, <2>4
<1> QED
  BY <1>1, Invariance, PTL

=============================================================================
