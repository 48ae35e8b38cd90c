---------------------------- MODULE Messaging_proofs ----------------------------
(***************************************************************************)
(* Proofs about Messaging, for any isolates and any bound on the messages. *)
(***************************************************************************)
EXTENDS Messaging, FiniteSetTheorems, SequenceTheorems, TLAPS

-----------------------------------------------------------------------------
(* Two sequences, one after the other.                                     *)

LEMMA Concatenation ==
  ASSUME NEW S, NEW b \in Seq(S), NEW t \in Seq(S)
  PROVE  /\ b \o t \in Seq(S) /\ Len(b \o t) = Len(b) + Len(t)
         /\ Len(b) \in Nat /\ Len(t) \in Nat
         /\ DOMAIN (b \o t) = 1 .. Len(b) + Len(t)
         /\ \A k \in 1 .. Len(b) + Len(t) :
              (b \o t)[k] = IF k <= Len(b) THEN b[k] ELSE t[k - Len(b)]
  OBVIOUS

\* What is appended to the second comes last.
LEMMA AppendToSecond ==
  ASSUME NEW S, NEW b \in Seq(S), NEW t \in Seq(S), NEW m \in S
  PROVE  b \o Append(t, m) = Append(b \o t, m)
<1> DEFINE u == Append(t, m)
           w == b \o t
           v == Append(w, m)
<1>1. /\ u \in Seq(S) /\ Len(u) = Len(t) + 1 /\ u[Len(t) + 1] = m
      /\ \A k \in 1 .. Len(t) : u[k] = t[k]
  OBVIOUS
<1>2. /\ w \in Seq(S) /\ Len(w) = Len(b) + Len(t) /\ Len(b) \in Nat /\ Len(t) \in Nat
      /\ \A k \in 1 .. Len(b) + Len(t) : w[k] = IF k <= Len(b) THEN b[k] ELSE t[k - Len(b)]
  BY Concatenation
<1>3. /\ v \in Seq(S) /\ Len(v) = Len(b) + Len(t) + 1 /\ v[Len(b) + Len(t) + 1] = m
      /\ \A k \in 1 .. Len(b) + Len(t) : v[k] = w[k]
  BY <1>2
<1> HIDE DEF u, w, v
<1>4. /\ b \o u \in Seq(S) /\ Len(b \o u) = Len(b) + Len(t) + 1
      /\ \A k \in 1 .. Len(b) + Len(t) + 1 :
           (b \o u)[k] = IF k <= Len(b) THEN b[k] ELSE u[k - Len(b)]
  <2>1. Len(b) + Len(u) = Len(b) + Len(t) + 1
    BY <1>1, <1>2
  <2>2. /\ b \o u \in Seq(S) /\ Len(b \o u) = Len(b) + Len(u)
        /\ \A k \in 1 .. Len(b) + Len(u) :
             (b \o u)[k] = IF k <= Len(b) THEN b[k] ELSE u[k - Len(b)]
    BY <1>1, Concatenation
  <2> QED
    BY <2>1, <2>2
<1>5. ASSUME NEW k \in 1 .. Len(b) + Len(t) + 1 PROVE (b \o u)[k] = v[k]
  <2>1. CASE k <= Len(b)
    BY <1>2, <1>3, <1>4, <2>1
  <2>2. CASE k > Len(b) /\ k <= Len(b) + Len(t)
    <3>1. k - Len(b) \in 1 .. Len(t) /\ k \in 1 .. Len(b) + Len(t) /\ ~(k <= Len(b))
      BY <1>2, <2>2
    <3> QED
      BY <1>1, <1>2, <1>3, <1>4, <3>1
  <2>3. CASE k = Len(b) + Len(t) + 1
    <3>1. k - Len(b) = Len(t) + 1 /\ ~(k <= Len(b))
      BY <1>2, <2>3
    <3> QED
      BY <1>1, <1>3, <1>4, <2>3, <3>1
  <2>4. k <= Len(b) \/ (k > Len(b) /\ k <= Len(b) + Len(t)) \/ k = Len(b) + Len(t) + 1
    <3>1. Len(b) \in Nat /\ Len(t) \in Nat
      BY <1>2
    <3> QED
      BY <3>1
  <2> QED
    BY <2>1, <2>2, <2>3, <2>4
<1>6. b \o u = v
  BY <1>3, <1>4, <1>5
<1> QED
  BY <1>6 DEF u, v, w

\* Taken apart anywhere, a sequence is its two parts one after the other.
LEMMA PartsMakeWhole ==
  ASSUME NEW S, NEW s \in Seq(S), NEW k \in 1 .. Len(s)
  PROVE  /\ SubSeq(s, 1, k) \in Seq(S) /\ SubSeq(s, k + 1, Len(s)) \in Seq(S)
         /\ SubSeq(s, 1, k) \o SubSeq(s, k + 1, Len(s)) = s
<1> DEFINE b == SubSeq(s, 1, k)
           t == SubSeq(s, k + 1, Len(s))
<1>1. b \in Seq(S) /\ Len(b) = k /\ \A j \in 1 .. k : b[j] = s[j]
  OBVIOUS
<1>2. /\ t \in Seq(S) /\ Len(t) = Len(s) - k
      /\ \A j \in 1 .. Len(s) - k : t[j] = s[k + j]
  OBVIOUS
<1> HIDE DEF b, t
<1>3. Len(s) \in Nat /\ k \in Nat /\ k + (Len(s) - k) = Len(s)
  OBVIOUS
<1>4. /\ b \o t \in Seq(S) /\ Len(b \o t) = Len(s)
      /\ \A j \in 1 .. Len(s) : (b \o t)[j] = IF j <= k THEN b[j] ELSE t[j - k]
  <2>1. /\ b \o t \in Seq(S) /\ Len(b \o t) = Len(b) + Len(t)
        /\ \A j \in 1 .. Len(b) + Len(t) :
             (b \o t)[j] = IF j <= Len(b) THEN b[j] ELSE t[j - Len(b)]
    BY <1>1, <1>2, Concatenation
  <2>2. Len(b) = k /\ Len(b) + Len(t) = Len(s)
    BY <1>1, <1>2, <1>3
  <2> QED
    BY <2>1, <2>2
<1>5. ASSUME NEW j \in 1 .. Len(s) PROVE (b \o t)[j] = s[j]
  <2>1. CASE j <= k
    BY <1>1, <1>3, <1>4, <2>1
  <2>2. CASE j > k
    <3>1. j - k \in 1 .. Len(s) - k /\ k + (j - k) = j /\ ~(j <= k)
      BY <1>3, <2>2
    <3> QED
      BY <1>2, <1>4, <3>1
  <2>3. j <= k \/ j > k
    BY <1>3
  <2> QED
    BY <2>1, <2>2, <2>3
<1>6. b \o t = s
  <2> DEFINE w == b \o t
  <2>1. w \in Seq(S) /\ Len(w) = Len(s) /\ \A j \in 1 .. Len(s) : w[j] = s[j]
    BY <1>4, <1>5
  <2> HIDE DEF w
  <2>2. w = s
    BY <2>1
  <2> QED
    BY <2>2 DEF w
<1> QED
  BY <1>1, <1>2, <1>6 DEF b, t

\* Sequence v is w without its first d elements.
Drops(v, w, d) ==
  /\ \A k \in DOMAIN v : k \in Nat \ {0} /\ k + d \in DOMAIN w /\ v[k] = w[k + d]
  /\ \A k \in DOMAIN w : k > d => k - d \in DOMAIN v /\ v[k - d] = w[k]

\* What is taken off the first leaves the rest where it was, d places earlier.
LEMMA DropFromFirst ==
  ASSUME NEW S, NEW b \in Seq(S), NEW t \in Seq(S), NEW c \in Seq(S),
         NEW d \in 0 .. Len(b), Len(c) = Len(b) - d,
         \A k \in 1 .. Len(c) : c[k] = b[k + d]
  PROVE  Drops(c \o t, b \o t, d)
<1>1. /\ Len(b) \in Nat /\ Len(t) \in Nat
      /\ DOMAIN (b \o t) = 1 .. Len(b) + Len(t)
      /\ \A k \in 1 .. Len(b) + Len(t) :
           (b \o t)[k] = IF k <= Len(b) THEN b[k] ELSE t[k - Len(b)]
  BY Concatenation
<1>2. /\ DOMAIN (c \o t) = 1 .. Len(c) + Len(t)
      /\ \A k \in 1 .. Len(c) + Len(t) :
           (c \o t)[k] = IF k <= Len(c) THEN c[k] ELSE t[k - Len(c)]
  BY Concatenation
<1>3. ASSUME NEW k \in DOMAIN (c \o t)
      PROVE  /\ k \in Nat \ {0} /\ k + d \in DOMAIN (b \o t)
             /\ (c \o t)[k] = (b \o t)[k + d]
  <2>1. /\ k \in 1 .. Len(c) + Len(t) /\ k \in Nat \ {0} /\ Len(c) = Len(b) - d /\ d \in Nat
        /\ k + d \in 1 .. Len(b) + Len(t)
    BY <1>1, <1>2
  <2>2. CASE k <= Len(c)
    BY <1>1, <1>2, <2>1, <2>2
  <2>3. CASE k > Len(c)
    <3>1. k - Len(c) = (k + d) - Len(b) /\ ~(k + d <= Len(b)) /\ ~(k <= Len(c))
      BY <1>1, <2>1, <2>3
    <3> QED
      BY <1>1, <1>2, <2>1, <3>1
  <2> QED
    BY <1>1, <2>1, <2>2, <2>3
<1>4. ASSUME NEW k \in DOMAIN (b \o t), k > d
      PROVE  k - d \in DOMAIN (c \o t) /\ (c \o t)[k - d] = (b \o t)[k]
  <2>1. k - d \in 1 .. Len(c) + Len(t) /\ (k - d) + d = k
    BY <1>1, <1>4
  <2> QED
    BY <1>2, <1>3, <2>1
<1> QED
  BY <1>3, <1>4 DEF Drops

-----------------------------------------------------------------------------
(* What the main isolate has yet to dispatch, as one sequence.             *)

LEMMA WayIsTyped ==
  ASSUME TypeOK
  PROVE  /\ Way \in Seq(Message) /\ Len(Way) \in Nat /\ DOMAIN Way = 1 .. Len(Way)
         /\ \A k \in DOMAIN Way : Way[k] \in Message
<1>1. batch \in Seq(Message) /\ toMain \in Seq(Message)
  BY DEF TypeOK
<1>2. Way \in Seq(Message)
  BY <1>1, Concatenation DEF Way
<1> QED
  BY <1>2

\* What is sent comes last.
LEMMA SendAppends ==
  ASSUME TypeOK, NEW m \in Message, batch' = batch, toMain' = Append(toMain, m)
  PROVE  /\ toMain' \in Seq(Message)
         /\ DOMAIN Way' = 1 .. Len(Way) + 1 /\ Way'[Len(Way) + 1] = m
         /\ \A k \in DOMAIN Way : k \in DOMAIN Way' /\ Way'[k] = Way[k]
<1>1. batch \in Seq(Message) /\ toMain \in Seq(Message)
  BY DEF TypeOK
<1>2. toMain' \in Seq(Message)
  BY <1>1
<1>3. Way' = Append(Way, m)
  BY <1>1, AppendToSecond DEF Way
<1>4. Way \in Seq(Message) /\ DOMAIN Way = 1 .. Len(Way) /\ Len(Way) \in Nat
  BY WayIsTyped
<1>5. /\ DOMAIN Append(Way, m) = 1 .. Len(Way) + 1 /\ Append(Way, m)[Len(Way) + 1] = m
      /\ \A k \in 1 .. Len(Way) : Append(Way, m)[k] = Way[k] /\ k \in 1 .. Len(Way) + 1
  BY <1>4
<1> QED
  BY <1>2, <1>3, <1>4, <1>5

\* A batch is the first messages of the channel: what is on its way stays the same.
LEMMA PollKeepsWay ==
  ASSUME TypeOK, Poll
  PROVE  batch' \in Seq(Message) /\ toMain' \in Seq(Message) /\ Way' = Way
<1>1. toMain \in Seq(Message) /\ batch = <<>> /\ Len(toMain) \in Nat /\ Len(toMain) # 0
  BY DEF TypeOK, Poll
<1>2. PICK k \in {1, Len(toMain)} :
        batch' = SubSeq(toMain, 1, k) /\ toMain' = SubSeq(toMain, k + 1, Len(toMain))
  BY DEF Poll, NotDrained
<1>3. k \in 1 .. Len(toMain)
  BY <1>1
<1>4. batch' \in Seq(Message) /\ toMain' \in Seq(Message) /\ batch' \o toMain' = toMain
  BY <1>1, <1>2, <1>3, PartsMakeWhole
<1>5. batch \o toMain = toMain
  BY <1>1
<1> QED
  BY <1>4, <1>5 DEF Way

\* What is on its way begins d places later than it did.
Shifted(d) == Drops(Way', Way, d)

\* What leaves the way of the messages alone drops none of them.
LEMMA SameWay ==
  ASSUME TypeOK, Way' = Way
  PROVE  Shifted(0)
<1>1. \A k \in DOMAIN Way : k \in Nat \ {0} /\ k + 0 = k /\ k - 0 = k
  BY WayIsTyped
<1> QED
  BY <1>1 DEF Shifted, Drops

\* The message that is dispatched is the first, and what is dropped comes first.
LEMMA DispatchShifts ==
  ASSUME TypeOK, batch # <<>>, toMain' = toMain, batch' \in {Tail(batch), <<>>}
  PROVE  /\ batch' \in Seq(Message)
         /\ Head(batch) = Way[1] /\ Way[1] \in Message /\ 1 \in DOMAIN Way
         /\ batch' = Tail(batch) => Shifted(1)
         /\ \E d \in Nat : d >= 1 /\ Shifted(d)
<1>1. /\ batch \in Seq(Message) /\ toMain \in Seq(Message)
      /\ Len(batch) \in Nat /\ Len(batch) >= 1
  BY DEF TypeOK
<1>2. PICK d \in 1 .. Len(batch) :
        /\ batch' = Tail(batch) => d = 1
        /\ batch' \in Seq(Message) /\ Len(batch') = Len(batch) - d
        /\ \A k \in 1 .. Len(batch') : batch'[k] = batch[k + d]
  <2>1. CASE batch' = Tail(batch)
    <3>1. /\ Tail(batch) \in Seq(Message) /\ Len(Tail(batch)) = Len(batch) - 1
          /\ \A k \in 1 .. Len(batch) - 1 : Tail(batch)[k] = batch[k + 1]
      BY <1>1
    <3> QED
      BY <1>1, <2>1, <3>1
  <2>2. CASE batch' # Tail(batch)
    <3>1. batch' = <<>> /\ Len(batch) - Len(batch) = 0 /\ Len(batch) \in 1 .. Len(batch)
      BY <1>1, <2>2
    <3>2. <<>> \in Seq(Message) /\ Len(<<>>) = 0 /\ 1 .. 0 = {}
      OBVIOUS
    <3> QED
      BY <2>2, <3>1, <3>2
  <2> QED
    BY <2>1, <2>2
<1>3. d \in 0 .. Len(batch) /\ d \in Nat /\ d >= 1
  BY <1>1
<1>4. Drops(batch' \o toMain, batch \o toMain, d)
  BY <1>1, <1>2, <1>3, DropFromFirst
<1>5. Shifted(d)
  BY <1>4 DEF Shifted, Way
<1>6. Head(batch) = Way[1] /\ 1 \in DOMAIN Way
  <2>1. Head(batch) = batch[1] /\ 1 \in 1 .. Len(batch) + Len(toMain) /\ 1 <= Len(batch)
    BY <1>1
  <2> QED
    BY <1>1, <2>1, Concatenation DEF Way
<1> QED
  BY <1>2, <1>3, <1>5, <1>6, WayIsTyped

-----------------------------------------------------------------------------
(* The variables' types, piece by piece.                                   *)

LEMMA Fields ==
  /\ RequestIds \subseteq Nat /\ NoRequest \notin RequestIds
  /\ \A m \in Message : /\ m.isolate \in Isolates /\ m.n \in 1 .. MaxMessages /\ m.n \in Nat
                        /\ m.id \in RequestIds \cup {NoRequest} /\ m.id \in Int
  /\ \A h \in Handled : /\ h.n \in 1 .. MaxMessages /\ h.n \in Nat
                        /\ h.id \in RequestIds \cup {NoRequest} /\ h.id \in Int
  BY ConstantsAssumption DEF RequestIds, NoRequest, Message, Handled

\* The fields of a message that is still under way.
LEMMA WayFields ==
  ASSUME TypeOK, NEW k \in DOMAIN Way
  PROVE  /\ Way[k] \in Message /\ Way[k].isolate \in Isolates
         /\ Way[k].n \in Nat /\ Way[k].id \in Int
         /\ Way[k].id # NoRequest => Way[k].id \in RequestIds
<1>1. Way[k] \in Message
  BY WayIsTyped
<1> QED
  BY <1>1, Fields

\* The fields of what an isolate has had handled.
LEMMA HandledFields ==
  ASSUME TypeOK, NEW i \in Isolates
  PROVE  /\ Len(handled[i]) \in Nat /\ DOMAIN handled[i] = 1 .. Len(handled[i])
         /\ \A k \in DOMAIN handled[i] :
              /\ handled[i][k] \in Handled /\ handled[i][k].n \in Nat
              /\ handled[i][k].id \in Int
<1>1. handled[i] \in Seq(Handled)
  BY DEF TypeOK
<1>2. \A k \in DOMAIN handled[i] : handled[i][k] \in Handled
  BY <1>1
<1> QED
  BY <1>1, <1>2, Fields

\* The fields of the responses that wait for an isolate.
LEMMA ResponseFields ==
  ASSUME TypeOK, NEW i \in Isolates
  PROVE  /\ toWorker[i] \in Seq(Response)
         /\ Len(toWorker[i]) \in Nat /\ DOMAIN toWorker[i] = 1 .. Len(toWorker[i])
         /\ \A k \in DOMAIN toWorker[i] :
              /\ toWorker[i][k] \in Response /\ toWorker[i][k].id \in RequestIds
              /\ toWorker[i][k].error \in BOOLEAN
<1>1. toWorker[i] \in Seq(Response)
  BY DEF TypeOK
<1>2. \A k \in DOMAIN toWorker[i] : toWorker[i][k] \in Response
  BY <1>1
<1> QED
  BY <1>1, <1>2 DEF Response

\* No worker has sent more than all of them.
LEMMA SentIsCounted ==
  ASSUME TypeOK, NEW i \in Isolates
  PROVE  sent[i] \in Nat /\ AllSent \in Nat /\ sent[i] <= AllSent
<1> DEFINE f == [n \in 1 .. sent[i] |-> <<i, n>>]
<1>1. sent \in [Isolates -> 0 .. MaxMessages] /\ sent[i] \in 0 .. MaxMessages /\ MaxMessages \in Nat
  BY ConstantsAssumption DEF TypeOK
<1>2. IsFiniteSet(Sent)
  <2>1. IsFiniteSet(Isolates \X (1 .. MaxMessages))
    <3>1. IsFiniteSet(1 .. MaxMessages)
      BY <1>1, FS_Interval
    <3> QED
      BY <3>1, ConstantsAssumption, FS_Product
  <2>2. Sent \in SUBSET (Isolates \X (1 .. MaxMessages))
    BY DEF Sent
  <2> QED
    BY <2>1, <2>2, FS_Subset
<1>3. f \in Injection(1 .. sent[i], Sent)
  <2>1. \A n \in 1 .. sent[i] : <<i, n>> \in Sent
    <3> SUFFICES ASSUME NEW n \in 1 .. sent[i] PROVE <<i, n>> \in Sent
      OBVIOUS
    <3>1. n \in 1 .. MaxMessages /\ n <= sent[i]
      BY <1>1
    <3> QED
      BY <3>1 DEF Sent
  <2>2. \A a, b \in 1 .. sent[i] : f[a] = f[b] => a = b
    OBVIOUS
  <2> QED
    BY <2>1, <2>2 DEF Injection, IsInjective
<1>4. Cardinality(1 .. sent[i]) <= Cardinality(Sent)
  <2> HIDE DEF f
  <2> QED
    BY <1>2, <1>3, FS_Injection
<1>5. Cardinality(1 .. sent[i]) = sent[i]
  BY <1>1, FS_Interval
<1>6. Cardinality(Sent) \in Nat
  BY <1>2, FS_CardinalityType
<1> QED
  BY <1>1, <1>4, <1>5, <1>6 DEF AllSent

-----------------------------------------------------------------------------
(* What was handled only grows, by the message that came first.            *)

\* What was handled stays as it is.
Kept == \A i \in Isolates : \A k \in DOMAIN handled[i] :
          k \in DOMAIN handled'[i] /\ handled'[i][k] = handled[i][k]

\* What is added was the first on its way, and d places are dropped there.
Grown(d) ==
  \A i \in Isolates : \A k \in DOMAIN handled'[i] :
    \/ k \in DOMAIN handled[i] /\ handled'[i][k] = handled[i][k]
    \/ /\ d >= 1 /\ 1 \in WayOf(i)
       /\ k = Len(handled[i]) + 1 /\ DOMAIN handled'[i] = 1 .. k
       /\ handled'[i][k].n = Way[1].n /\ handled'[i][k].id = Way[1].id

\* Message m is dispatched, and its handler does this.
Records(m, did) ==
  handled' = [handled EXCEPT ![m.isolate] = Append(@, [n |-> m.n, id |-> m.id, did |-> did])]

\* No request is dispatched twice, and what is done for it is done then.
LEMMA RecordsOne ==
  ASSUME TypeOK, OrderIsKept, NEW m, 1 \in DOMAIN Way, Way[1] = m,
         NEW did \in Deed, Records(m, did)
  PROVE  /\ \A i \in Isolates : handled'[i] \in Seq(Handled)
         /\ Kept /\ \A d \in Nat : d >= 1 => Grown(d)
         /\ \A i \in Isolates : i # m.isolate => handled'[i] = handled[i]
         /\ \E k \in DOMAIN handled'[m.isolate] :
              handled'[m.isolate][k] = [n |-> m.n, id |-> m.id, did |-> did]
         /\ m.id # NoRequest => /\ Done(m.isolate, m.id) = {}
                                /\ Done(m.isolate, m.id)' = {did}
         /\ \A i \in Isolates, r \in RequestIds :
              i # m.isolate \/ r # m.id => Done(i, r)' = Done(i, r)
<1>1. PICK w \in Isolates, h \in Handled :
        w = m.isolate /\ h = [n |-> m.n, id |-> m.id, did |-> did]
  <2>1. m \in Message
    BY WayFields
  <2>2. [n |-> m.n, id |-> m.id, did |-> did] \in Handled
    BY <2>1, Fields DEF Handled
  <2> QED
    BY <2>1, <2>2, Fields
<1>2. /\ h.n = m.n /\ h.id = m.id /\ h.did = did /\ 1 \in WayOf(w)
      /\ m.n \in Nat /\ m.id \in Int
  BY <1>1, WayFields DEF WayOf
<1>3. PICK l \in Nat : /\ l = Len(handled[w]) /\ DOMAIN handled[w] = 1 .. l
                       /\ handled[w] \in Seq(Handled)
  BY HandledFields DEF TypeOK
<1>4. handled'[w] = Append(handled[w], h) /\ \A i \in Isolates : i # w => handled'[i] = handled[i]
  <2>1. handled' = [handled EXCEPT ![w] = Append(handled[w], h)]
    BY <1>1 DEF Records
  <2>2. w \in DOMAIN handled
    BY DEF TypeOK
  <2> QED
    BY <2>1, <2>2
<1>5. /\ handled'[w] \in Seq(Handled) /\ DOMAIN handled'[w] = 1 .. l + 1
      /\ handled'[w][l + 1] = h
      /\ \A k \in 1 .. l : handled'[w][k] = handled[w][k] /\ k \in 1 .. l + 1
  BY <1>3, <1>4
<1>6. \A i \in Isolates : handled'[i] \in Seq(Handled)
  BY <1>4, <1>5 DEF TypeOK
<1>7. Kept
  BY <1>3, <1>4, <1>5 DEF Kept
<1>8. \A k \in DOMAIN handled'[w] : k \in 1 .. l \/ k = l + 1
  BY <1>5
<1>9. ASSUME NEW d \in Nat, d >= 1 PROVE Grown(d)
  <2> SUFFICES ASSUME NEW k \in DOMAIN handled'[w], k \notin 1 .. l
               PROVE  /\ 1 \in WayOf(w) /\ k = Len(handled[w]) + 1 /\ DOMAIN handled'[w] = 1 .. k
                      /\ handled'[w][k].n = Way[1].n /\ handled'[w][k].id = Way[1].id
    BY <1>3, <1>4, <1>5, <1>9 DEF Grown
  <2> QED
    BY <1>2, <1>3, <1>5, <1>8
<1>10. ASSUME m.id # NoRequest
       PROVE  Done(w, m.id) = {} /\ Done(w, m.id)' = {did}
  <2>1. ASSUME NEW k \in DOMAIN handled[w] PROVE handled[w][k].id # m.id
    <3>1. Before(handled[w][k], m)
      BY <1>2 DEF OrderIsKept
    <3>2. handled[w][k].id \in Int
      BY HandledFields
    <3> QED
      BY <1>2, <1>10, <3>1, <3>2 DEF Before
  <2>2. Done(w, m.id) = {}
    BY <2>1 DEF Done
  <2>3. {k \in DOMAIN handled'[w] : handled'[w][k].id = m.id} = {l + 1}
    <3>1. ASSUME NEW k \in 1 .. l PROVE handled'[w][k].id # m.id
      BY <1>3, <1>5, <2>1
    <3>2. l + 1 \in DOMAIN handled'[w] /\ handled'[w][l + 1].id = m.id
      BY <1>2, <1>5
    <3> QED
      BY <1>8, <3>1, <3>2
  <2>4. {handled'[w][k].did : k \in {l + 1}} = {did}
    BY <1>2, <1>5
  <2> QED
    BY <2>2, <2>3, <2>4 DEF Done
<1>11. ASSUME NEW i \in Isolates, NEW r \in RequestIds, i # m.isolate \/ r # m.id
       PROVE  Done(i, r)' = Done(i, r)
  <2>1. CASE i # w
    <3>1. handled'[i] = handled[i]
      BY <1>4, <2>1
    <3> QED
      BY <3>1 DEF Done
  <2>2. CASE i = w
    <3>1. r # h.id
      BY <1>1, <1>2, <1>11, <2>2
    <3>2. ASSUME NEW k
          PROVE  k \in DOMAIN handled'[w] /\ handled'[w][k].id = r
                   <=> k \in DOMAIN handled[w] /\ handled[w][k].id = r
      BY <1>3, <1>5, <1>8, <3>1
    <3>3. {k \in DOMAIN handled'[w] : handled'[w][k].id = r}
            = {k \in DOMAIN handled[w] : handled[w][k].id = r}
      BY <3>2
    <3>4. \A k \in DOMAIN handled[w] : handled'[w][k] = handled[w][k]
      BY <1>3, <1>5
    <3> QED
      BY <2>2, <3>3, <3>4 DEF Done
  <2> QED
    BY <2>1, <2>2
<1>12. \E k \in DOMAIN handled'[w] : handled'[w][k] = h
  <2>1. l + 1 \in DOMAIN handled'[w]
    BY <1>5
  <2> QED
    BY <1>5, <2>1
<1> QED
  BY <1>1, <1>4, <1>6, <1>7, <1>9, <1>10, <1>11, <1>12

-----------------------------------------------------------------------------
(* The order of the messages.                                              *)

\* A message that is sent has a greater number, and a request a greater id, than
\* those its worker has sent before.
LEMMA SendKeepsOrder ==
  ASSUME TypeOK, MessagesAreNumbered, OrderIsKept, NothingIsLost,
         NEW i \in Isolates, NEW m \in Message, m.isolate = i, m.n = sent[i] + 1,
         batch' = batch, toMain' = Append(toMain, m), UNCHANGED <<handled, destroyed>>,
         sent' = [sent EXCEPT ![i] = @ + 1],
         \/ m.id = NoRequest /\ nextRequestId' = nextRequestId
         \/ m.id = nextRequestId[i] /\ nextRequestId' = [nextRequestId EXCEPT ![i] = @ + 1]
  PROVE  MessagesAreNumbered' /\ OrderIsKept' /\ NothingIsLost'
<1>1. PICK l \in Nat : /\ DOMAIN Way = 1 .. l /\ DOMAIN Way' = 1 .. l + 1 /\ Way'[l + 1] = m
                       /\ \A k \in 1 .. l : k \in 1 .. l + 1 /\ Way'[k] = Way[k]
  BY WayIsTyped, SendAppends
<1>2. \A k \in DOMAIN Way' : k \in 1 .. l \/ k = l + 1
  BY <1>1
<1>3. \A w \in Isolates : /\ sent[w] \in Nat /\ nextRequestId[w] \in Nat
                          /\ sent'[w] = IF w = i THEN sent[w] + 1 ELSE sent[w]
                          /\ nextRequestId[w] <= nextRequestId'[w]
                          /\ nextRequestId'[w] \in Nat /\ nextRequestId'[w] <= sent'[w]
                          /\ w = i /\ m.id # NoRequest => m.id < nextRequestId'[w]
  <2> SUFFICES ASSUME NEW w \in Isolates
               PROVE  /\ sent[w] \in Nat /\ nextRequestId[w] \in Nat
                      /\ sent'[w] = IF w = i THEN sent[w] + 1 ELSE sent[w]
                      /\ nextRequestId[w] <= nextRequestId'[w]
                      /\ nextRequestId'[w] \in Nat /\ nextRequestId'[w] <= sent'[w]
                      /\ w = i /\ m.id # NoRequest => m.id < nextRequestId'[w]
    OBVIOUS
  <2>1. sent \in [Isolates -> 0 .. MaxMessages] /\ nextRequestId \in [Isolates -> 0 .. MaxMessages]
    BY DEF TypeOK
  <2>2. sent[w] \in Nat /\ nextRequestId[w] \in Nat /\ nextRequestId[w] <= sent[w]
    <3>1. sent[w] \in 0 .. MaxMessages /\ nextRequestId[w] \in 0 .. MaxMessages
      BY <2>1
    <3> QED
      BY <3>1, ConstantsAssumption DEF MessagesAreNumbered
  <2>3. sent'[w] = IF w = i THEN sent[w] + 1 ELSE sent[w]
    BY <2>1
  <2>4. CASE nextRequestId' = nextRequestId /\ m.id = NoRequest
    BY <2>2, <2>3, <2>4
  <2>5. CASE m.id = nextRequestId[i] /\ nextRequestId' = [nextRequestId EXCEPT ![i] = @ + 1]
    <3>1. nextRequestId'[w] = IF w = i THEN nextRequestId[w] + 1 ELSE nextRequestId[w]
      BY <2>1, <2>5
    <3> QED
      BY <2>2, <2>3, <2>5, <3>1
  <2> QED
    BY <2>4, <2>5
<1>4. \A k \in 1 .. l : Way[k].isolate \in Isolates /\ Way[k].n \in Nat /\ Way[k].id \in Int
  BY <1>1, WayFields
<1>5. \A w \in Isolates : \A k \in DOMAIN handled[w] :
        handled[w][k].n \in Nat /\ handled[w][k].id \in Int
  BY HandledFields
<1>6. m.n \in Nat /\ m.id \in Int /\ m.isolate = i
  BY Fields
<1>7. /\ \A k \in 1 .. l : /\ Way[k].n <= sent[Way[k].isolate]
                           /\ Way[k].id # NoRequest => Way[k].id < nextRequestId[Way[k].isolate]
      /\ \A w \in Isolates : \A k \in DOMAIN handled[w] :
           /\ handled[w][k].n <= sent[w]
           /\ handled[w][k].id # NoRequest => handled[w][k].id < nextRequestId[w]
  BY <1>1 DEF MessagesAreNumbered, Numbered
<1>8. MessagesAreNumbered'
  <2>1. ASSUME NEW k \in DOMAIN Way'
        PROVE  /\ Way'[k].n <= sent'[Way'[k].isolate]
               /\ Way'[k].id # NoRequest => Way'[k].id < nextRequestId'[Way'[k].isolate]
    <3>1. CASE k \in 1 .. l
      <4>1. Way'[k] = Way[k]
        BY <1>1, <3>1
      <4>2. PICK w \in Isolates, n \in Nat, r \in Int :
              w = Way[k].isolate /\ n = Way[k].n /\ r = Way[k].id
        BY <1>4, <3>1
      <4>3. n <= sent[w] /\ (r # NoRequest => r < nextRequestId[w])
        BY <1>7, <3>1, <4>2
      <4> QED
        BY <1>3, <4>1, <4>2, <4>3
    <3>2. CASE k = l + 1
      BY <1>1, <1>3, <1>6, <3>2
    <3> QED
      BY <1>2, <3>1, <3>2
  <2>2. ASSUME NEW w \in Isolates, NEW k \in DOMAIN handled[w]
        PROVE  /\ handled[w][k].n <= sent'[w]
               /\ handled[w][k].id # NoRequest => handled[w][k].id < nextRequestId'[w]
    BY <1>3, <1>5, <1>7
  <2> QED
    BY <1>3, <2>1, <2>2 DEF MessagesAreNumbered, Numbered
<1>9. OrderIsKept'
  <2> SUFFICES ASSUME NEW w \in Isolates
               PROVE  /\ \A j, k \in DOMAIN handled[w] :
                           j < k => Before(handled[w][j], handled[w][k])
                      /\ \A j \in DOMAIN handled[w] : \A k \in WayOf(w)' :
                           Before(handled[w][j], Way'[k])
                      /\ \A j, k \in WayOf(w)' : j < k => Before(Way'[j], Way'[k])
    BY DEF OrderIsKept, Before
  <2>1. /\ \A j, k \in DOMAIN handled[w] : j < k => Before(handled[w][j], handled[w][k])
        /\ \A j \in DOMAIN handled[w], k \in WayOf(w) : Before(handled[w][j], Way[k])
        /\ \A j, k \in WayOf(w) : j < k => Before(Way[j], Way[k])
    BY DEF OrderIsKept
  <2>2. \A k \in WayOf(w)' : \/ k \in WayOf(w) /\ k \in 1 .. l /\ Way'[k] = Way[k]
                             \/ k = l + 1 /\ w = i
    BY <1>1, <1>2 DEF WayOf
  <2>3. \A j \in DOMAIN handled[w] : w = i => Before(handled[w][j], m)
    BY <1>3, <1>5, <1>6, <1>7 DEF Before
  <2>4. ASSUME NEW j \in WayOf(w), w = i PROVE Before(Way[j], m)
    <3>1. j \in 1 .. l /\ Way[j].isolate = i
      BY <1>1, <2>4 DEF WayOf
    <3>2. Way[j].n <= sent[i] /\ (Way[j].id # NoRequest => Way[j].id < nextRequestId[i])
      BY <1>7, <3>1
    <3> QED
      BY <1>3, <1>4, <1>6, <3>1, <3>2 DEF Before
  <2>5. ASSUME NEW j \in DOMAIN handled[w], NEW k \in WayOf(w)'
        PROVE  Before(handled[w][j], Way'[k])
    BY <1>1, <2>1, <2>2, <2>3
  <2>6. ASSUME NEW j \in WayOf(w)', NEW k \in WayOf(w)', j < k PROVE Before(Way'[j], Way'[k])
    <3>1. j \in WayOf(w) /\ j \in 1 .. l /\ Way'[j] = Way[j]
      BY <1>1, <2>2, <2>6
    <3> QED
      BY <1>1, <2>1, <2>2, <2>4, <2>6, <3>1
  <2> QED
    BY <2>1, <2>5, <2>6
<1>10. NothingIsLost'
  <2> SUFFICES ASSUME ~Threw, NEW w \in Isolates \ destroyed, NEW n \in 1 .. sent'[w]
               PROVE  \/ \E k \in DOMAIN handled[w] : handled[w][k].n = n
                      \/ \E k \in WayOf(w)' : Way'[k].n = n
    <3>1. Threw' <=> Threw
      BY DEF Threw
    <3> QED
      BY <3>1 DEF NothingIsLost
  <2>1. CASE n \in 1 .. sent[w]
    <3>1. \A k \in WayOf(w) : k \in WayOf(w)' /\ Way'[k] = Way[k]
      BY <1>1 DEF WayOf
    <3> QED
      BY <2>1, <3>1 DEF NothingIsLost
  <2>2. CASE n \notin 1 .. sent[w]
    <3>1. w = i /\ n = sent[i] + 1
      BY <1>3, <2>2
    <3>2. l + 1 \in WayOf(w)' /\ Way'[l + 1].n = n
      BY <1>1, <1>6, <3>1 DEF WayOf
    <3> QED
      BY <3>2
  <2> QED
    BY <2>1, <2>2
<1> QED
  BY <1>8, <1>9, <1>10

\* Whatever is taken off the way comes first there, and what is handled after it.
LEMMA ShiftKeepsOrder ==
  ASSUME TypeOK, MessagesAreNumbered, OrderIsKept,
         NEW d \in Nat, Shifted(d), Grown(d), UNCHANGED <<sent, nextRequestId>>
  PROVE  MessagesAreNumbered' /\ OrderIsKept'
<1>1. \A k \in DOMAIN Way' : /\ k \in Nat /\ k >= 1 /\ k + d \in DOMAIN Way
                            /\ Way'[k] = Way[k + d]
  BY DEF Shifted, Drops
<1>2. \A i \in Isolates : \A k \in DOMAIN handled'[i] :
        \/ k \in DOMAIN handled[i] /\ handled'[i][k] = handled[i][k]
        \/ /\ d >= 1 /\ 1 \in WayOf(i)
           /\ k = Len(handled[i]) + 1 /\ DOMAIN handled'[i] = 1 .. k
           /\ handled'[i][k].n = Way[1].n /\ handled'[i][k].id = Way[1].id
  BY DEF Grown
<1>3. \A k \in DOMAIN Way : /\ Way[k].n <= sent[Way[k].isolate]
                            /\ Way[k].id # NoRequest => Way[k].id < nextRequestId[Way[k].isolate]
  BY DEF MessagesAreNumbered, Numbered
<1>4. MessagesAreNumbered'
  <2>1. ASSUME NEW k \in DOMAIN Way' PROVE Numbered(Way'[k].isolate, Way'[k])
    BY <1>1, <1>3 DEF Numbered
  <2>2. ASSUME NEW i \in Isolates, NEW k \in DOMAIN handled'[i] PROVE Numbered(i, handled'[i][k])
    <3>1. CASE k \in DOMAIN handled[i] /\ handled'[i][k] = handled[i][k]
      BY <3>1 DEF MessagesAreNumbered
    <3>2. CASE 1 \in WayOf(i) /\ handled'[i][k].n = Way[1].n /\ handled'[i][k].id = Way[1].id
      BY <1>3, <3>2 DEF WayOf, Numbered
    <3> QED
      BY <1>2, <3>1, <3>2
  <2> QED
    BY <2>1, <2>2 DEF MessagesAreNumbered, Numbered
<1>5. OrderIsKept'
  <2> SUFFICES ASSUME NEW i \in Isolates
               PROVE  /\ \A j, k \in DOMAIN handled'[i] :
                           j < k => Before(handled'[i][j], handled'[i][k])
                      /\ \A j \in DOMAIN handled'[i] : \A k \in WayOf(i)' :
                           Before(handled'[i][j], Way'[k])
                      /\ \A j, k \in WayOf(i)' : j < k => Before(Way'[j], Way'[k])
    BY DEF OrderIsKept, Before
  <2>1. /\ \A j, k \in DOMAIN handled[i] : j < k => Before(handled[i][j], handled[i][k])
        /\ \A j \in DOMAIN handled[i], k \in WayOf(i) : Before(handled[i][j], Way[k])
        /\ \A j, k \in WayOf(i) : j < k => Before(Way[j], Way[k])
    BY DEF OrderIsKept
  <2>2. \A k \in WayOf(i)' : k \in Nat /\ k >= 1 /\ k + d \in WayOf(i) /\ Way'[k] = Way[k + d]
    BY <1>1 DEF WayOf
  <2>3. ASSUME NEW j \in DOMAIN handled'[i], NEW k \in DOMAIN handled'[i], j < k
        PROVE  Before(handled'[i][j], handled'[i][k])
    <3>1. j \in DOMAIN handled[i] /\ handled'[i][j] = handled[i][j]
      BY <1>2, <2>3, HandledFields
    <3>2. CASE k \in DOMAIN handled[i] /\ handled'[i][k] = handled[i][k]
      BY <2>1, <2>3, <3>1, <3>2
    <3>3. CASE 1 \in WayOf(i) /\ handled'[i][k].n = Way[1].n /\ handled'[i][k].id = Way[1].id
      BY <2>1, <3>1, <3>3 DEF Before
    <3> QED
      BY <1>2, <3>2, <3>3
  <2>4. ASSUME NEW j \in DOMAIN handled'[i], NEW k \in WayOf(i)'
        PROVE  Before(handled'[i][j], Way'[k])
    <3>1. CASE j \in DOMAIN handled[i] /\ handled'[i][j] = handled[i][j]
      BY <2>1, <2>2, <3>1
    <3>2. CASE /\ d >= 1 /\ 1 \in WayOf(i)
               /\ handled'[i][j].n = Way[1].n /\ handled'[i][j].id = Way[1].id
      <4>1. k + d \in WayOf(i) /\ 1 < k + d /\ Way'[k] = Way[k + d]
        BY <2>2, <3>2
      <4> QED
        BY <2>1, <3>2, <4>1 DEF Before
    <3> QED
      BY <1>2, <3>1, <3>2
  <2>5. ASSUME NEW j \in WayOf(i)', NEW k \in WayOf(i)', j < k PROVE Before(Way'[j], Way'[k])
    <3>1. j + d < k + d
      BY <2>2, <2>5
    <3> QED
      BY <2>1, <2>2, <3>1
  <2> QED
    BY <2>3, <2>4, <2>5
<1> QED
  BY <1>4, <1>5

\* Where no handler throws, only a message that is handled or is a destroyed
\* isolate's is taken off the way.
LEMMA ShiftLosesNothing ==
  ASSUME TypeOK, NothingIsLost, NEW d \in {0, 1}, Shifted(d), Kept,
         sent' = sent, destroyed \subseteq destroyed',
         d = 1 => \/ Way[1].isolate \in destroyed
                  \/ \E k \in DOMAIN handled'[Way[1].isolate] :
                       handled'[Way[1].isolate][k].n = Way[1].n
  PROVE  NothingIsLost'
<1>1. Threw => Threw'
  BY DEF Threw, Kept
<1> SUFFICES ASSUME ~Threw, NEW i \in Isolates, i \notin destroyed, NEW n \in 1 .. sent[i]
             PROVE  \/ \E k \in DOMAIN handled'[i] : handled'[i][k].n = n
                    \/ \E k \in WayOf(i)' : Way'[k].n = n
  BY <1>1 DEF NothingIsLost
<1>2. CASE \E k \in DOMAIN handled[i] : handled[i][k].n = n
  BY <1>2 DEF Kept
<1>3. ASSUME NEW k \in WayOf(i), Way[k].n = n, k > d
      PROVE  \E j \in WayOf(i)' : Way'[j].n = n
  BY <1>3 DEF Shifted, Drops, WayOf
<1>4. ASSUME NEW k \in WayOf(i), Way[k].n = n, ~(k > d)
      PROVE  \E j \in DOMAIN handled'[i] : handled'[i][j].n = n
  <2>1. k = 1 /\ d = 1 /\ Way[1].isolate = i
    BY <1>4, WayIsTyped DEF WayOf
  <2> QED
    BY <1>4, <2>1
<1> QED
  BY <1>2, <1>3, <1>4 DEF NothingIsLost

-----------------------------------------------------------------------------
(* Where the requests are.                                                 *)

LEMMA CallFields ==
  ASSUME TypeOK, NEW c \in working
  PROVE  /\ c \in Call /\ c.isolate \in Isolates /\ c.id \in RequestIds
         /\ c.did \in {"resolves", "rejects", "rejectsBlank", "rejectsNull"}
         /\ c = [isolate |-> c.isolate, id |-> c.id, did |-> c.did]
<1>1. c \in Call
  BY DEF TypeOK
<1> QED
  BY <1>1 DEF Call

\* What was done for a request does not change.
DoneStays == \A i \in Isolates, r \in RequestIds :
               Done(i, r) # {} => Done(i, r)' = Done(i, r)

\* When nothing is handled, what was done about each request stays.
LEMMA SameHandled ==
  ASSUME handled' = handled
  PROVE  Kept /\ DoneStays /\ \A d \in Nat : Grown(d)
  BY DEF Kept, DoneStays, Done, Grown

\* A response, good or bad, stands for something that was done.
LEMMA DeedsAreDone == \A error \in BOOLEAN : {} \notin Deeds(error)
  BY DEF Deeds

\* A step that only shortens the way leaves every request on it pending.
LEMMA ComingStayPending ==
  ASSUME TypeOK, ComingArePending, NEW d \in Nat, Shifted(d),
         UNCHANGED pendingRequests
  PROVE  ComingArePending'
  BY DEF ComingArePending, Shifted, Drops

\* A step that settles no promise keeps each promise's account with what was done.
LEMMA PromisesStayTracked ==
  ASSUME TypeOK, PromisesAreTracked, DoneStays,
         UNCHANGED <<pendingRequests, settled, nextRequestId>>
  PROVE  PromisesAreTracked'
<1> SUFFICES ASSUME NEW i \in Isolates, NEW r \in RequestIds
             PROVE  /\ r \in pendingRequests[i] => r < nextRequestId[i] /\ settled[i][r] = "no"
                    /\ settled[i][r] # "no" => Done(i, r)' \in Deeds(settled[i][r] = "rejected")
  BY DEF PromisesAreTracked, Deeds
<1>1. /\ r \in pendingRequests[i] => r < nextRequestId[i] /\ settled[i][r] = "no"
      /\ settled[i][r] # "no" => Done(i, r) \in Deeds(settled[i][r] = "rejected")
  BY DEF PromisesAreTracked
<1>2. ASSUME settled[i][r] # "no" PROVE Done(i, r)' = Done(i, r)
  <2>1. Done(i, r) # {}
    BY <1>1, <1>2, DeedsAreDone
  <2> QED
    BY <2>1 DEF DoneStays
<1> QED
  BY <1>1, <1>2

\* A step that answers no call keeps each call the first and only answer to its request.
LEMMA CallsStayTracked ==
  ASSUME TypeOK, CallsAreTracked, DoneStays, UNCHANGED <<working, toWorker>>,
         \A i \in Isolates : pendingRequests[i] \subseteq pendingRequests'[i]
  PROVE  CallsAreTracked'
<1> SUFFICES ASSUME NEW c \in working
             PROVE  /\ c.id \in pendingRequests'[c.isolate]
                    /\ Done(c.isolate, c.id)' = {c.did}
                    /\ \A k \in DOMAIN toWorker[c.isolate] : toWorker[c.isolate][k].id # c.id
  BY DEF CallsAreTracked
<1>1. c.isolate \in Isolates /\ c.id \in RequestIds
  BY CallFields
<1>2. Done(c.isolate, c.id) = {c.did}
  BY DEF CallsAreTracked
<1>3. Done(c.isolate, c.id)' = {c.did}
  BY <1>1, <1>2 DEF DoneStays
<1> QED
  BY <1>1, <1>3 DEF CallsAreTracked

\* A step that adds and takes no response keeps each of them due.
LEMMA ResponsesStayTracked ==
  ASSUME TypeOK, ResponsesAreTracked, DoneStays, UNCHANGED toWorker,
         \A i \in Isolates : pendingRequests[i] \subseteq pendingRequests'[i]
  PROVE  ResponsesAreTracked'
<1> SUFFICES ASSUME NEW i \in Isolates, NEW k \in DOMAIN toWorker[i]
             PROVE  /\ toWorker[i][k].id \in pendingRequests'[i]
                    /\ Done(i, toWorker[i][k].id)' \in Deeds(toWorker[i][k].error)
                    /\ \A j \in DOMAIN toWorker[i] :
                         toWorker[i][j].id = toWorker[i][k].id => j = k
  BY DEF ResponsesAreTracked, Deeds
<1>1. PICK r \in RequestIds, e \in BOOLEAN : r = toWorker[i][k].id /\ e = toWorker[i][k].error
  BY ResponseFields
<1>2. r \in pendingRequests[i] /\ Done(i, r) \in Deeds(e)
  BY <1>1 DEF ResponsesAreTracked
<1>3. Done(i, r)' \in Deeds(e)
  BY <1>2, DeedsAreDone DEF DoneStays
<1>4. Done(i, toWorker[i][k].id)' = Done(i, r)'
  BY <1>1 DEF Done
<1> QED
  BY <1>1, <1>2, <1>3, <1>4 DEF ResponsesAreTracked

\* A request is on its way, its handler is working on it or its response is.
Somewhere(i, r) ==
  \/ \E k \in WayOf(i) : Way[k].id = r
  \/ \E c \in working : c.isolate = i /\ c.id = r
  \/ \E k \in DOMAIN toWorker[i] : toWorker[i][k].id = r

\* A request has a place exactly when it is met at one of them.
LEMMA PlacesAreSomewhere ==
  ASSUME NEW i, NEW r
  PROVE  /\ Places(i, r) # {} <=> Somewhere(i, r)
         /\ Places(i, r)' # {} <=> Somewhere(i, r)'
<1>1. Places(i, r) # {} <=> Somewhere(i, r)
  BY DEF Places, Somewhere
<1>2. Places(i, r)' # {} <=> Somewhere(i, r)'
  BY DEF Places, Somewhere
<1> QED
  BY <1>1, <1>2

\* Where no dispatch throws and the process lives on, a request that is taken from
\* where it was is put somewhere else, settled or of a destroyed isolate.
LEMMA RequestsStaySomewhere ==
  ASSUME TypeOK, RequestsAreSomewhere, NEW d \in {0, 1}, Shifted(d), Kept,
         destroyed \subseteq destroyed', exited => exited',
         \A i \in Isolates : pendingRequests'[i] \subseteq pendingRequests[i],
         d = 1 => \/ Way[1].isolate \in destroyed \/ Way[1].id = NoRequest
                  \/ \E c \in working' : c.isolate = Way[1].isolate /\ c.id = Way[1].id
                  \/ \E k \in DOMAIN toWorker'[Way[1].isolate] :
                       toWorker'[Way[1].isolate][k].id = Way[1].id,
         \A c \in working : \/ c \in working' \/ exited'
                            \/ \E k \in DOMAIN toWorker'[c.isolate] :
                                 toWorker'[c.isolate][k].id = c.id,
         \A i \in Isolates : \A k \in DOMAIN toWorker[i] :
           \/ toWorker[i][k].id \notin pendingRequests'[i]
           \/ \E j \in DOMAIN toWorker'[i] : toWorker'[i][j].id = toWorker[i][k].id
  PROVE  RequestsAreSomewhere'
<1>1. Threw => Threw'
  BY DEF Threw, Kept
<1> SUFFICES ASSUME ~Threw, ~exited, ~exited', NEW i \in Isolates, i \notin destroyed,
                    NEW r \in pendingRequests'[i]
             PROVE  Places(i, r)' # {}
  BY <1>1 DEF RequestsAreSomewhere
<1>2. Somewhere(i, r) /\ r \in RequestIds
  BY PlacesAreSomewhere DEF RequestsAreSomewhere, TypeOK
<1>3. ASSUME NEW k \in WayOf(i), Way[k].id = r PROVE Somewhere(i, r)'
  <2>1. CASE k > d
    <3>1. k - d \in WayOf(i)' /\ Way'[k - d].id = r
      BY <1>3, <2>1 DEF Shifted, Drops, WayOf
    <3> QED
      BY <3>1 DEF Somewhere
  <2>2. CASE ~(k > d)
    <3>1. k = 1 /\ d = 1 /\ Way[1].isolate = i /\ Way[1].id = r /\ r # NoRequest
      BY <1>2, <1>3, <2>2, WayIsTyped, Fields DEF WayOf
    <3>2. \/ \E c \in working' : c.isolate = i /\ c.id = r
          \/ \E j \in DOMAIN toWorker'[i] : toWorker'[i][j].id = r
      BY <3>1
    <3> QED
      BY <3>2 DEF Somewhere
  <2> QED
    BY <2>1, <2>2
<1>4. ASSUME NEW c \in working, c.isolate = i, c.id = r PROVE Somewhere(i, r)'
  BY <1>4 DEF Somewhere
<1>5. ASSUME NEW k \in DOMAIN toWorker[i], toWorker[i][k].id = r PROVE Somewhere(i, r)'
  BY <1>5 DEF Somewhere
<1>6. Somewhere(i, r)'
  BY <1>2, <1>3, <1>4, <1>5 DEF Somewhere
<1> QED
  BY <1>6, PlacesAreSomewhere

-----------------------------------------------------------------------------
(* Every step keeps the invariant.                                         *)

LEMMA InvInit == Init => IInv
<1> SUFFICES ASSUME Init PROVE IInv
  OBVIOUS
<1>1. /\ Way = <<>> /\ DOMAIN Way = {} /\ working = {} /\ destroyed = {} /\ dropped = {}
      /\ \A i \in Isolates : /\ sent[i] = 0 /\ nextRequestId[i] = 0 /\ pendingRequests[i] = {}
                             /\ handled[i] = <<>> /\ DOMAIN handled[i] = {}
                             /\ toWorker[i] = <<>> /\ DOMAIN toWorker[i] = {}
                             /\ \A r \in RequestIds : settled[i][r] = "no"
  BY DEF Init, Way
<1>2. TypeOK
  <2>1. 0 \in 0 .. MaxMessages /\ \A S : <<>> \in Seq(S)
    BY ConstantsAssumption
  <2> QED
    BY <2>1 DEF Init, TypeOK
<1>3. MessagesAreNumbered /\ OrderIsKept
  BY <1>1 DEF MessagesAreNumbered, OrderIsKept, WayOf
<1>4. NothingIsLost /\ RequestsAreSomewhere
  <2>1. 1 .. 0 = {}
    OBVIOUS
  <2> QED
    BY <1>1, <2>1 DEF NothingIsLost, RequestsAreSomewhere
<1>5. RequestsAreTracked
  BY <1>1 DEF RequestsAreTracked, ComingArePending, CallsAreTracked, ResponsesAreTracked,
              PromisesAreTracked
<1> QED
  BY <1>2, <1>3, <1>4, <1>5 DEF IInv

\* A worker sends an event: a numbered message that asks for no answer.
LEMMA SendEventStep == ASSUME IInv, NEW i \in Isolates, SendEvent(i) PROVE IInv'
<1>1. PICK m \in Message : m = [isolate |-> i, n |-> sent[i] + 1, id |-> NoRequest]
  <2>1. sent[i] + 1 \in 1 .. MaxMessages
    BY SentIsCounted, ConstantsAssumption DEF IInv, SendEvent
  <2> QED
    BY <2>1 DEF Message
<1>2. /\ m.isolate = i /\ m.n = sent[i] + 1 /\ m.id = NoRequest
      /\ toMain' = Append(toMain, m) /\ batch' = batch /\ sent' = [sent EXCEPT ![i] = @ + 1]
      /\ UNCHANGED <<nextRequestId, pendingRequests, settled, dropped, toWorker, systemEvents,
                     handled, working, destroyed, notified, exited>>
  BY <1>1 DEF SendEvent, mainVars
<1>3. TypeOK /\ Kept /\ DoneStays
  BY <1>2, SameHandled DEF IInv
<1>4. TypeOK'
  <2>1. toMain' \in Seq(Message)
    BY <1>2, <1>3, SendAppends
  <2>2. sent' \in [Isolates -> 0 .. MaxMessages]
    <3>1. sent[i] + 1 \in 0 .. MaxMessages
      BY <1>3, SentIsCounted, ConstantsAssumption DEF SendEvent
    <3> QED
      BY <1>2, <1>3, <3>1 DEF TypeOK
  <2> QED
    BY <1>2, <1>3, <2>1, <2>2 DEF TypeOK
<1>5. MessagesAreNumbered' /\ OrderIsKept' /\ NothingIsLost'
  BY <1>2, <1>3, SendKeepsOrder DEF IInv
<1>6. /\ DOMAIN Way' = 1 .. Len(Way) + 1 /\ Way'[Len(Way) + 1] = m
      /\ \A k \in DOMAIN Way : k \in DOMAIN Way' /\ Way'[k] = Way[k]
      /\ Len(Way) \in Nat /\ DOMAIN Way = 1 .. Len(Way)
  BY <1>2, <1>3, SendAppends, WayIsTyped
<1>7. RequestsAreTracked'
  <2>1. ComingArePending'
    <3> SUFFICES ASSUME NEW k \in DOMAIN Way', Way'[k].id # NoRequest
                 PROVE  Way'[k].id \in pendingRequests[Way'[k].isolate]
      BY <1>2 DEF ComingArePending
    <3>1. k \in DOMAIN Way /\ Way'[k] = Way[k]
      BY <1>2, <1>6
    <3> QED
      BY <3>1 DEF IInv, RequestsAreTracked, ComingArePending
  <2>2. CallsAreTracked' /\ ResponsesAreTracked' /\ PromisesAreTracked'
    BY <1>2, <1>3, CallsStayTracked, ResponsesStayTracked, PromisesStayTracked
       DEF IInv, RequestsAreTracked
  <2> QED
    BY <2>1, <2>2 DEF RequestsAreTracked
<1>8. RequestsAreSomewhere'
  <2> SUFFICES ASSUME ~Threw, ~exited, NEW w \in Isolates \ destroyed,
                      NEW r \in pendingRequests[w]
               PROVE  Places(w, r)' # {}
    <3>1. Threw' <=> Threw
      BY <1>2 DEF Threw
    <3> QED
      BY <1>2, <3>1 DEF RequestsAreSomewhere
  <2>1. Somewhere(w, r)
    BY PlacesAreSomewhere DEF IInv, RequestsAreSomewhere
  <2>2. \A k \in WayOf(w) : k \in WayOf(w)' /\ Way'[k] = Way[k]
    BY <1>6 DEF WayOf
  <2>3. Somewhere(w, r)'
    BY <1>2, <2>1, <2>2 DEF Somewhere
  <2> QED
    BY <2>3, PlacesAreSomewhere
<1> QED
  BY <1>4, <1>5, <1>7, <1>8 DEF IInv

\* request: no call, response or settled promise has the new id yet.
LEMMA SendRequestStep == ASSUME IInv, NEW i \in Isolates, SendRequest(i) PROVE IInv'
<1>1. PICK r \in RequestIds, m \in Message :
        r = nextRequestId[i] /\ m = [isolate |-> i, n |-> sent[i] + 1, id |-> r]
  <2>1. sent[i] + 1 \in 1 .. MaxMessages /\ sent[i] \in Nat /\ sent[i] < MaxMessages
    BY SentIsCounted, ConstantsAssumption DEF IInv, SendRequest
  <2>2. nextRequestId[i] \in 0 .. MaxMessages /\ nextRequestId[i] <= sent[i]
    BY DEF IInv, TypeOK, MessagesAreNumbered
  <2>3. nextRequestId[i] \in RequestIds
    BY <2>1, <2>2, ConstantsAssumption DEF RequestIds
  <2> QED
    BY <2>1, <2>3 DEF Message
<1>2. /\ m.isolate = i /\ m.n = sent[i] + 1 /\ m.id = nextRequestId[i] /\ m.id = r
      /\ toMain' = Append(toMain, m) /\ batch' = batch /\ sent' = [sent EXCEPT ![i] = @ + 1]
      /\ nextRequestId' = [nextRequestId EXCEPT ![i] = @ + 1]
      /\ pendingRequests' = [pendingRequests EXCEPT ![i] = @ \cup {r}]
      /\ UNCHANGED <<settled, dropped, toWorker, systemEvents, handled,
                     working, destroyed, notified, exited>>
  BY <1>1 DEF SendRequest, mainVars
<1>3. TypeOK /\ Kept /\ DoneStays
  BY <1>2, SameHandled DEF IInv
<1>4. \A w \in Isolates : pendingRequests'[w] = IF w = i THEN pendingRequests[i] \cup {r}
                                                 ELSE pendingRequests[w]
  BY <1>2, <1>3 DEF TypeOK
<1>5. TypeOK'
  <2>1. toMain' \in Seq(Message)
    BY <1>2, <1>3, SendAppends
  <2>2. sent' \in [Isolates -> 0 .. MaxMessages]
    <3>1. sent[i] + 1 \in 0 .. MaxMessages
      BY <1>3, SentIsCounted, ConstantsAssumption DEF SendRequest
    <3> QED
      BY <1>2, <1>3, <3>1 DEF TypeOK
  <2>3. nextRequestId' \in [Isolates -> 0 .. MaxMessages]
    <3>1. nextRequestId[i] + 1 \in 0 .. MaxMessages
      BY <1>1, ConstantsAssumption DEF RequestIds
    <3> QED
      BY <1>2, <1>3, <3>1 DEF TypeOK
  <2>4. pendingRequests' \in [Isolates -> SUBSET RequestIds]
    BY <1>2, <1>3 DEF TypeOK
  <2> QED
    BY <1>2, <1>3, <2>1, <2>2, <2>3, <2>4 DEF TypeOK
<1>6. MessagesAreNumbered' /\ OrderIsKept' /\ NothingIsLost'
  BY <1>2, <1>3, SendKeepsOrder DEF IInv
<1>7. PICK l \in Nat : /\ DOMAIN Way = 1 .. l /\ DOMAIN Way' = 1 .. l + 1 /\ Way'[l + 1] = m
                       /\ \A k \in DOMAIN Way : k \in DOMAIN Way' /\ Way'[k] = Way[k]
                       /\ l + 1 \in DOMAIN Way'
  <2>1. /\ DOMAIN Way' = 1 .. Len(Way) + 1 /\ Way'[Len(Way) + 1] = m
        /\ \A k \in DOMAIN Way : k \in DOMAIN Way' /\ Way'[k] = Way[k]
    BY <1>2, <1>3, SendAppends
  <2>2. Len(Way) \in Nat /\ DOMAIN Way = 1 .. Len(Way)
    BY <1>3, WayIsTyped
  <2>3. Len(Way) + 1 \in 1 .. Len(Way) + 1
    BY <2>2
  <2> QED
    BY <2>1, <2>2, <2>3
<1>8. ComingArePending'
  <2> SUFFICES ASSUME NEW k \in DOMAIN Way', Way'[k].id # NoRequest
               PROVE  Way'[k].id \in pendingRequests'[Way'[k].isolate]
    BY DEF ComingArePending
  <2>1. CASE k \in DOMAIN Way
    <3>1. Way[k].isolate \in Isolates /\ Way'[k] = Way[k]
      BY <1>3, <1>7, <2>1, WayFields
    <3>2. Way[k].id \in pendingRequests[Way[k].isolate]
      BY <2>1, <3>1 DEF IInv, RequestsAreTracked, ComingArePending
    <3> QED
      BY <1>4, <3>1, <3>2
  <2>2. CASE k = l + 1
    BY <1>2, <1>4, <1>7, <2>2
  <2> QED
    BY <1>7, <2>1, <2>2
<1>9. CallsAreTracked' /\ ResponsesAreTracked'
  <2>1. \A w \in Isolates : pendingRequests[w] \subseteq pendingRequests'[w]
    BY <1>4
  <2> QED
    BY <1>2, <1>3, <2>1, CallsStayTracked, ResponsesStayTracked DEF IInv, RequestsAreTracked
<1>10. settled[i][r] = "no"
  <2> SUFFICES ASSUME settled[i][r] # "no" PROVE FALSE
    OBVIOUS
  <2>1. Done(i, r) \in Deeds(settled[i][r] = "rejected")
    BY DEF IInv, RequestsAreTracked, PromisesAreTracked
  <2>2. Done(i, r) # {}
    BY <2>1, DeedsAreDone
  <2>3. PICK k \in DOMAIN handled[i] : handled[i][k].id = r
    BY <2>2 DEF Done
  <2>4. r < nextRequestId[i]
    BY <2>3, Fields DEF IInv, MessagesAreNumbered, Numbered
  <2> QED
    BY <1>1, <2>4, Fields
<1>11. PromisesAreTracked'
  <2> SUFFICES ASSUME NEW w \in Isolates, NEW q \in RequestIds
               PROVE  /\ q \in pendingRequests'[w] =>
                           q < nextRequestId'[w] /\ settled[w][q] = "no"
                      /\ settled[w][q] # "no" => Done(w, q) \in Deeds(settled[w][q] = "rejected")
    <3>1. \A w, q : Done(w, q)' = Done(w, q)
      BY <1>2 DEF Done
    <3> QED
      BY <1>2, <3>1 DEF PromisesAreTracked, Deeds
  <2>1. /\ q \in pendingRequests[w] => q < nextRequestId[w] /\ settled[w][q] = "no"
        /\ settled[w][q] # "no" => Done(w, q) \in Deeds(settled[w][q] = "rejected")
    BY DEF IInv, RequestsAreTracked, PromisesAreTracked
  <2>2. /\ nextRequestId[w] \in Nat /\ q \in Nat
        /\ nextRequestId'[w] = IF w = i THEN nextRequestId[w] + 1 ELSE nextRequestId[w]
    <3>1. nextRequestId[w] \in 0 .. MaxMessages
      BY <1>3 DEF TypeOK
    <3>2. nextRequestId'[w] = IF w = i THEN nextRequestId[w] + 1 ELSE nextRequestId[w]
      BY <1>2, <1>3 DEF TypeOK
    <3> QED
      BY <3>1, <3>2, Fields, ConstantsAssumption
  <2>3. ASSUME q \in pendingRequests'[w] PROVE q < nextRequestId'[w] /\ settled[w][q] = "no"
    <3>1. CASE q \in pendingRequests[w]
      BY <2>1, <2>2, <3>1
    <3>2. CASE w = i /\ q = r
      BY <1>1, <1>10, <2>2, <3>2
    <3> QED
      BY <1>4, <2>3, <3>1, <3>2
  <2> QED
    BY <2>1, <2>3
<1>12. RequestsAreSomewhere'
  <2> SUFFICES ASSUME ~Threw, ~exited, NEW w \in Isolates \ destroyed,
                      NEW q \in pendingRequests'[w]
               PROVE  Places(w, q)' # {}
    <3>1. Threw' <=> Threw
      BY <1>2 DEF Threw
    <3> QED
      BY <1>2, <3>1 DEF RequestsAreSomewhere
  <2>1. CASE q \in pendingRequests[w]
    <3>1. Somewhere(w, q)
      BY <2>1, PlacesAreSomewhere DEF IInv, RequestsAreSomewhere
    <3>2. \A k \in WayOf(w) : k \in WayOf(w)' /\ Way'[k] = Way[k]
      BY <1>7 DEF WayOf
    <3>3. Somewhere(w, q)'
      BY <1>2, <3>1, <3>2 DEF Somewhere
    <3> QED
      BY <3>3, PlacesAreSomewhere
  <2>2. CASE w = i /\ q = r
    <3>1. l + 1 \in WayOf(w)' /\ Way'[l + 1].id = q
      BY <1>2, <1>7, <2>2 DEF WayOf
    <3>2. Somewhere(w, q)'
      BY <3>1 DEF Somewhere
    <3> QED
      BY <3>2, PlacesAreSomewhere
  <2> QED
    BY <1>4, <2>1, <2>2
<1> QED
  BY <1>5, <1>6, <1>8, <1>9, <1>11, <1>12 DEF IInv, RequestsAreTracked

\* A response settles its request, which is on its way nowhere else.
LEMMA ReceiveResponseStep == ASSUME IInv, NEW i \in Isolates, ReceiveResponse(i) PROVE IInv'
<1>1. TypeOK
  BY DEF IInv
<1>2. PICK r \in RequestIds, e \in BOOLEAN :
        r = toWorker[i][1].id /\ e = toWorker[i][1].error /\ 1 \in DOMAIN toWorker[i]
  <2>1. toWorker[i] # <<>>
    BY DEF ReceiveResponse
  <2>2. 1 \in DOMAIN toWorker[i]
    BY <1>1, <2>1, ResponseFields
  <2> QED
    BY <1>1, <2>2, ResponseFields
<1>3. Done(i, r) \in Deeds(e) /\ Done(i, r) # {} /\ r \in pendingRequests[i]
  BY <1>2, DeedsAreDone DEF IInv, RequestsAreTracked, ResponsesAreTracked
<1>4. /\ pendingRequests' = [pendingRequests EXCEPT ![i] = @ \ {r}]
      /\ settled' = [settled EXCEPT ![i][r] = IF e THEN "rejected" ELSE "resolved"]
      /\ toWorker' = [toWorker EXCEPT ![i] = Tail(@)]
      /\ UNCHANGED <<sent, nextRequestId, dropped, toMain, batch, systemEvents, handled, working,
                     destroyed, notified, exited>>
  <2>1. Head(toWorker[i]) = toWorker[i][1]
    BY <1>1, <1>2, ResponseFields
  <2> QED
    BY <1>2, <1>3, <2>1 DEF ReceiveResponse, mainVars
<1>5. \A w \in Isolates : pendingRequests'[w] = IF w = i THEN pendingRequests[i] \ {r}
                                                 ELSE pendingRequests[w]
  BY <1>1, <1>4 DEF TypeOK
<1>6. /\ toWorker'[i] \in Seq(Response)
      /\ \A w \in Isolates : w # i => toWorker'[w] = toWorker[w]
      /\ \A k \in DOMAIN toWorker'[i] : /\ k \in Nat /\ k >= 1 /\ k + 1 \in DOMAIN toWorker[i]
                                        /\ toWorker'[i][k] = toWorker[i][k + 1]
      /\ \A k \in DOMAIN toWorker[i] : k = 1 \/ /\ k - 1 \in DOMAIN toWorker'[i]
                                                /\ toWorker'[i][k - 1] = toWorker[i][k]
  <2>1. PICK s \in Seq(Response) : s = toWorker[i] /\ Len(s) >= 1
    BY <1>1, <1>2, ResponseFields
  <2>2. toWorker'[i] = Tail(s) /\ \A w \in Isolates : w # i => toWorker'[w] = toWorker[w]
    BY <1>1, <1>4, <2>1 DEF TypeOK
  <2>3. /\ Tail(s) \in Seq(Response) /\ DOMAIN Tail(s) = 1 .. Len(s) - 1
        /\ DOMAIN s = 1 .. Len(s) /\ Len(s) \in Nat
        /\ \A k \in 1 .. Len(s) - 1 : Tail(s)[k] = s[k + 1]
    BY <2>1
  <2>4. \A k \in DOMAIN Tail(s) : k \in Nat /\ k >= 1 /\ k + 1 \in DOMAIN s /\ Tail(s)[k] = s[k + 1]
    BY <2>3
  <2>5. ASSUME NEW k \in DOMAIN s, k # 1
        PROVE  k - 1 \in DOMAIN Tail(s) /\ Tail(s)[k - 1] = s[k]
    <3>1. k - 1 \in 1 .. Len(s) - 1 /\ (k - 1) + 1 = k
      BY <2>3, <2>5
    <3> QED
      BY <2>3, <3>1
  <2> QED
    BY <2>1, <2>2, <2>3, <2>4, <2>5
<1>7. Way' = Way /\ Kept /\ DoneStays /\ Grown(0) /\ Shifted(0)
  <2>1. Way' = Way
    BY <1>4 DEF Way
  <2> QED
    BY <1>1, <1>4, <2>1, SameHandled, SameWay
<1>8. \A w, q : Done(w, q)' = Done(w, q)
  BY <1>4 DEF Done
<1>9. TypeOK'
  <2>1. pendingRequests' \in [Isolates -> SUBSET RequestIds]
    BY <1>1, <1>4 DEF TypeOK
  <2>2. settled' \in [Isolates -> [RequestIds -> {"no", "resolved", "rejected"}]]
    BY <1>1, <1>4 DEF TypeOK
  <2>3. toWorker' \in [Isolates -> Seq(Response)]
    BY <1>1, <1>4, <1>6 DEF TypeOK
  <2> QED
    BY <1>1, <1>4, <2>1, <2>2, <2>3 DEF TypeOK
<1>10. MessagesAreNumbered' /\ OrderIsKept' /\ NothingIsLost'
  BY <1>1, <1>4, <1>7, ShiftKeepsOrder, ShiftLosesNothing DEF IInv
<1>11. ComingArePending'
  <2> SUFFICES ASSUME NEW k \in DOMAIN Way, Way[k].id # NoRequest
               PROVE  Way[k].id \in pendingRequests'[Way[k].isolate]
    BY <1>7 DEF ComingArePending
  <2>1. Way[k].isolate \in Isolates /\ Way[k].id \in pendingRequests[Way[k].isolate]
    BY <1>1, WayFields DEF IInv, RequestsAreTracked, ComingArePending
  <2>2. ASSUME Way[k].isolate = i PROVE Way[k].id # r
    <3>1. PICK j \in DOMAIN handled[i] : handled[i][j].id = r
      BY <1>3 DEF Done
    <3>2. Before(handled[i][j], Way[k])
      BY <2>2 DEF IInv, OrderIsKept, WayOf
    <3> QED
      BY <3>1, <3>2, Fields DEF Before
  <2> QED
    BY <1>5, <2>1, <2>2
<1>12. CallsAreTracked'
  <2> SUFFICES ASSUME NEW c \in working
               PROVE  /\ c.id \in pendingRequests'[c.isolate]
                      /\ \A k \in DOMAIN toWorker'[c.isolate] : toWorker'[c.isolate][k].id # c.id
    BY <1>4, <1>8 DEF IInv, RequestsAreTracked, CallsAreTracked
  <2>1. c.isolate \in Isolates
    BY <1>1, CallFields
  <2>2. /\ c.id \in pendingRequests[c.isolate]
        /\ \A k \in DOMAIN toWorker[c.isolate] : toWorker[c.isolate][k].id # c.id
    BY DEF IInv, RequestsAreTracked, CallsAreTracked
  <2>3. CASE c.isolate = i
    BY <1>2, <1>5, <1>6, <2>2, <2>3
  <2>4. CASE c.isolate # i
    BY <1>5, <1>6, <2>1, <2>2, <2>4
  <2> QED
    BY <2>3, <2>4
<1>13. ResponsesAreTracked'
  <2> SUFFICES ASSUME NEW w \in Isolates, NEW k \in DOMAIN toWorker'[w]
               PROVE  /\ toWorker'[w][k].id \in pendingRequests'[w]
                      /\ Done(w, toWorker'[w][k].id) \in Deeds(toWorker'[w][k].error)
                      /\ \A j \in DOMAIN toWorker'[w] :
                           toWorker'[w][j].id = toWorker'[w][k].id => j = k
    <3>1. ASSUME NEW w \in Isolates, NEW k \in DOMAIN toWorker'[w]
          PROVE  Done(w, toWorker[w][k].id)' = Done(w, toWorker'[w][k].id)
      <4>1. PICK q : q = toWorker'[w][k].id
        OBVIOUS
      <4> QED
        BY <1>4, <4>1 DEF Done
    <3> QED
      BY <3>1 DEF ResponsesAreTracked, Deeds
  <2>1. \A j \in DOMAIN toWorker[w] :
          /\ toWorker[w][j].id \in pendingRequests[w]
          /\ Done(w, toWorker[w][j].id) \in Deeds(toWorker[w][j].error)
          /\ \A h \in DOMAIN toWorker[w] : toWorker[w][h].id = toWorker[w][j].id => h = j
    BY DEF IInv, RequestsAreTracked, ResponsesAreTracked
  <2>2. CASE w # i
    BY <1>5, <1>6, <2>1, <2>2
  <2>3. CASE w = i
    <3>1. k + 1 \in DOMAIN toWorker[i] /\ toWorker'[i][k] = toWorker[i][k + 1] /\ k + 1 # 1
      BY <1>6, <2>3
    <3>2. toWorker[i][k + 1].id # r
      BY <1>2, <2>1, <2>3, <3>1
    <3>3. ASSUME NEW j \in DOMAIN toWorker'[i], toWorker'[i][j].id = toWorker'[i][k].id
          PROVE  j = k
      <4>1. j + 1 \in DOMAIN toWorker[i] /\ toWorker'[i][j] = toWorker[i][j + 1] /\ j \in Nat
        BY <1>6
      <4>2. j + 1 = k + 1
        BY <2>1, <2>3, <3>1, <3>3, <4>1
      <4> QED
        BY <1>6, <2>3, <4>1, <4>2
    <3> QED
      BY <1>5, <2>1, <2>3, <3>1, <3>2, <3>3
  <2> QED
    BY <2>2, <2>3
<1>14. PromisesAreTracked'
  <2> SUFFICES ASSUME NEW w \in Isolates, NEW q \in RequestIds
               PROVE  /\ q \in pendingRequests'[w] =>
                           q < nextRequestId[w] /\ settled'[w][q] = "no"
                      /\ settled'[w][q] # "no" => Done(w, q) \in Deeds(settled'[w][q] = "rejected")
    BY <1>4, <1>8 DEF PromisesAreTracked, Deeds
  <2>1. /\ q \in pendingRequests[w] => q < nextRequestId[w] /\ settled[w][q] = "no"
        /\ settled[w][q] # "no" => Done(w, q) \in Deeds(settled[w][q] = "rejected")
    BY DEF IInv, RequestsAreTracked, PromisesAreTracked
  <2>2. settled'[w][q] = IF w = i /\ q = r THEN IF e THEN "rejected" ELSE "resolved"
                         ELSE settled[w][q]
    BY <1>1, <1>4 DEF TypeOK
  <2>3. CASE w = i /\ q = r
    <3>1. q \notin pendingRequests'[w]
      BY <1>5, <2>3
    <3>2. (settled'[w][q] = "rejected") = e
      BY <2>2, <2>3
    <3> QED
      BY <1>3, <2>3, <3>1, <3>2
  <2>4. CASE ~(w = i /\ q = r)
    BY <1>5, <2>1, <2>2, <2>4
  <2> QED
    BY <2>3, <2>4
<1>15. RequestsAreSomewhere'
  <2>1. \A w \in Isolates : pendingRequests'[w] \subseteq pendingRequests[w]
    BY <1>5
  <2>2. \A c \in working : c \in working'
    BY <1>4
  <2>3. ASSUME NEW w \in Isolates, NEW k \in DOMAIN toWorker[w]
        PROVE  \/ toWorker[w][k].id \notin pendingRequests'[w]
               \/ \E j \in DOMAIN toWorker'[w] : toWorker'[w][j].id = toWorker[w][k].id
    <3>1. CASE w = i
      BY <1>2, <1>5, <1>6, <3>1
    <3>2. CASE w # i
      BY <1>6, <3>2
    <3> QED
      BY <3>1, <3>2
  <2>4. RequestsAreSomewhere /\ destroyed \subseteq destroyed' /\ (exited => exited')
    BY <1>4 DEF IInv
  <2> QED
    BY <1>1, <1>7, <2>1, <2>2, <2>3, <2>4, RequestsStaySomewhere
<1> QED
  BY <1>9, <1>10, <1>11, <1>12, <1>13, <1>14, <1>15 DEF IInv, RequestsAreTracked

\* A step in which nothing is dispatched and nothing answered: polling, destroying,
\* reporting that, and what is not a step of the program.
LEMMA QuietStep ==
  ASSUME IInv, TypeOK', Way' = Way,
         UNCHANGED <<sent, nextRequestId, pendingRequests, settled, toWorker, handled, working,
                     exited>>,
         destroyed \subseteq destroyed'
  PROVE  IInv'
<1>1. TypeOK /\ Kept /\ DoneStays /\ Grown(0) /\ Shifted(0)
  BY SameHandled, SameWay DEF IInv
<1>2. MessagesAreNumbered' /\ OrderIsKept' /\ NothingIsLost'
  BY <1>1, ShiftKeepsOrder, ShiftLosesNothing DEF IInv
<1>3. RequestsAreTracked'
  BY <1>1, ComingStayPending, CallsStayTracked, ResponsesStayTracked, PromisesStayTracked
     DEF IInv, RequestsAreTracked
<1>4. RequestsAreSomewhere'
  BY <1>1, RequestsStaySomewhere DEF IInv
<1> QED
  BY <1>2, <1>3, <1>4 DEF IInv

\* Isolate.destroy, of the isolates of a sequence.
LEMMA DestructionIsTyped ==
  ASSUME TypeOK, NEW order \in Seq(Isolates), MarkDestroyed(order)
  PROVE  /\ systemEvents' \in Seq(Isolates) /\ destroyed' \subseteq Isolates
         /\ destroyed \subseteq destroyed'
<1>1. systemEvents \in Seq(Isolates) /\ destroyed \subseteq Isolates
  BY DEF TypeOK
<1>2. systemEvents' = systemEvents \o order
  BY DEF MarkDestroyed
<1>3. systemEvents' \in Seq(Isolates)
  BY <1>1, <1>2, Concatenation
<1>4. \A k \in DOMAIN order : order[k] \in Isolates
  OBVIOUS
<1> QED
  BY <1>1, <1>3, <1>4 DEF MarkDestroyed

\* What the handlers of a message destroy.
LEMMA HandlersDestroyIsolates ==
  ASSUME TypeOK, HandlersDestroy
  PROVE  /\ systemEvents' \in Seq(Isolates) /\ destroyed' \subseteq Isolates
         /\ destroyed \subseteq destroyed'
<1>1. PICK n \in 0 .. Cardinality(Isolates) :
        \E order \in [1 .. n -> Isolates \ destroyed] : MarkDestroyed(order)
  BY DEF HandlersDestroy
<1>2. n \in Nat
  BY ConstantsAssumption, FS_CardinalityType
<1>3. PICK order \in [1 .. n -> Isolates \ destroyed] : MarkDestroyed(order)
  BY <1>1
<1>4. order \in Seq(Isolates)
  <2>1. order \in [1 .. n -> Isolates]
    OBVIOUS
  <2> QED
    BY <1>2, <2>1, SeqDef
<1> QED
  BY <1>3, <1>4, DestructionIsTyped

\* The poll that hands a batch of the messages over to the main isolate.
LEMMA PollStep == ASSUME IInv, Poll PROVE IInv'
<1>1. batch' \in Seq(Message) /\ toMain' \in Seq(Message) /\ Way' = Way
  BY PollKeepsWay DEF IInv
<1>2. UNCHANGED <<workerVars, toWorker, systemEvents, handled, working, destroyed, notified,
                  exited>>
  BY DEF Poll
<1>3. TypeOK'
  BY <1>1, <1>2 DEF IInv, TypeOK, workerVars
<1> QED
  BY <1>1, <1>2, <1>3, QuietStep DEF workerVars

\* Destroying an isolate outside a dispatch.
LEMMA DestroyIsolateStep == ASSUME IInv, NEW i \in Isolates, DestroyIsolate(i) PROVE IInv'
<1>1. UNCHANGED <<workerVars, toMain, toWorker, batch, handled, working, notified, exited>>
  BY DEF DestroyIsolate
<1>2. TypeOK' /\ destroyed \subseteq destroyed'
  <2>1. /\ systemEvents' \in Seq(Isolates) /\ destroyed' \subseteq Isolates
        /\ destroyed \subseteq destroyed'
    <3>1. <<i>> \in Seq(Isolates) /\ MarkDestroyed(<<i>>)
      BY DEF DestroyIsolate
    <3> QED
      BY <3>1, DestructionIsTyped DEF IInv
  <2> QED
    BY <1>1, <2>1 DEF IInv, TypeOK, workerVars
<1>3. Way' = Way
  BY <1>1 DEF Way
<1> QED
  BY <1>1, <1>2, <1>3, QuietStep DEF workerVars

\* A system event is heard and answers no request.
LEMMA DispatchSystemEventStep == ASSUME IInv, DispatchSystemEvent PROVE IInv'
<1>1. /\ systemEvents # <<>> /\ systemEvents' = Tail(systemEvents)
      /\ notified' = notified \cup {Head(systemEvents)}
      /\ UNCHANGED <<workerVars, toMain, toWorker, batch, handled, working, destroyed, exited>>
  BY DEF DispatchSystemEvent, Hearers
<1>2. TypeOK'
  BY <1>1 DEF IInv, TypeOK, workerVars
<1>3. Way' = Way
  BY <1>1 DEF Way
<1> QED
  BY <1>1, <1>2, <1>3, QuietStep DEF workerVars

\* A step that changes nothing.
LEMMA StutteringStep == ASSUME IInv, UNCHANGED vars PROVE IInv'
<1>1. UNCHANGED <<workerVars, toMain, toWorker, systemEvents, batch, handled, working, destroyed,
                  notified, exited>>
  BY DEF vars, channelVars, mainVars
<1>2. TypeOK'
  BY <1>1 DEF IInv, TypeOK, workerVars
<1>3. Way' = Way
  BY <1>1 DEF Way
<1> QED
  BY <1>1, <1>2, <1>3, QuietStep DEF workerVars

\* The thread of a worker drops the runtime.
LEMMA DropWorkerStep == ASSUME IInv, NEW i \in Isolates, DropWorker(i) PROVE IInv'
<1>1. /\ dropped' = dropped \cup {i}
      /\ UNCHANGED <<sent, nextRequestId, pendingRequests, settled, toMain, toWorker,
                     systemEvents, batch, handled, working, destroyed, notified, exited>>
  BY DEF DropWorker, channelVars, mainVars
<1>2. TypeOK'
  BY <1>1 DEF IInv, TypeOK
<1>3. Way' = Way
  BY <1>1 DEF Way
<1> QED
  BY <1>1, <1>2, <1>3, QuietStep

\* What every dispatch does: the first message on its way is handled.
LEMMA DispatchHandles ==
  ASSUME IInv, NEW did \in Deed, Dispatches(did),
         \/ batch' = Tail(batch)
         \/ batch' = <<>> /\ did \in {"throws", "unanswerable"},
         toMain' = toMain, sent' = sent, nextRequestId' = nextRequestId,
         destroyed \subseteq destroyed'
  PROVE  /\ 1 \in DOMAIN Way /\ Head(batch) = Way[1] /\ Way[1] \in Message
         /\ Way[1].isolate \notin destroyed
         /\ (Way[1].id = NoRequest) = (did = "returns")
         /\ Records(Way[1], did)
         /\ batch' \in Seq(Message) /\ handled' \in [Isolates -> Seq(Handled)]
         /\ batch' = Tail(batch) => Shifted(1)
         /\ \E d \in Nat : Shifted(d)
         /\ Kept /\ DoneStays
         /\ MessagesAreNumbered' /\ OrderIsKept' /\ NothingIsLost'
<1>1. PICK m \in Message :
        /\ 1 \in DOMAIN Way /\ Head(batch) = m /\ Way[1] = m
        /\ batch' \in Seq(Message) /\ (batch' = Tail(batch) => Shifted(1))
        /\ \E d \in Nat : d >= 1 /\ Shifted(d)
  <2>1. TypeOK /\ batch # <<>> /\ batch' \in {Tail(batch), <<>>}
    BY DEF IInv, Dispatches
  <2> QED
    BY <2>1, DispatchShifts
<1>2. m.isolate \notin destroyed /\ (m.id = NoRequest) = (did = "returns")
  BY <1>1 DEF Dispatches, PassedOver, IsRequest
<1>3. Records(m, did)
  BY <1>1 DEF Dispatches, Records
<1>4. TypeOK /\ OrderIsKept /\ MessagesAreNumbered /\ NothingIsLost
  BY DEF IInv
<1>5. /\ \A i \in Isolates : handled'[i] \in Seq(Handled)
      /\ Kept /\ \A d \in Nat : d >= 1 => Grown(d)
      /\ \E k \in DOMAIN handled'[m.isolate] :
           handled'[m.isolate][k] = [n |-> m.n, id |-> m.id, did |-> did]
      /\ m.id # NoRequest => Done(m.isolate, m.id) = {}
      /\ \A i \in Isolates, r \in RequestIds :
           i # m.isolate \/ r # m.id => Done(i, r)' = Done(i, r)
  BY <1>1, <1>3, <1>4, RecordsOne
<1>6. handled' \in [Isolates -> Seq(Handled)]
  BY <1>3, <1>4, <1>5 DEF Records, TypeOK
<1>7. DoneStays
  BY <1>5, Fields DEF DoneStays
<1>8. PICK d \in Nat : d >= 1 /\ Shifted(d)
  BY <1>1
<1>9. MessagesAreNumbered' /\ OrderIsKept'
  <2>1. Grown(d)
    BY <1>5, <1>8
  <2> QED
    BY <1>4, <1>8, <2>1, ShiftKeepsOrder
<1>10. PICK k \in DOMAIN handled'[m.isolate] :
         handled'[m.isolate][k].n = m.n /\ handled'[m.isolate][k].did = did
  BY <1>5
<1>11. NothingIsLost'
  <2>1. CASE batch' = Tail(batch)
    BY <1>1, <1>4, <1>5, <1>10, <2>1, ShiftLosesNothing
  <2>2. CASE did \in {"throws", "unanswerable"}
    <3>1. m.isolate \in Isolates
      BY Fields
    <3>2. Threw'
      BY <1>10, <2>2, <3>1 DEF Threw
    <3> QED
      BY <3>2 DEF NothingIsLost
  <2> QED
    BY <2>1, <2>2
<1> QED
  BY <1>1, <1>2, <1>3, <1>5, <1>6, <1>7, <1>8, <1>9, <1>11

\* A dispatch after which no handler is working and no response is sent that was not.
LEMMA EventOrThrow ==
  ASSUME IInv, TypeOK', NEW did \in Deed, Dispatches(did),
         \/ batch' = Tail(batch) /\ did = "returns"
         \/ batch' = <<>> /\ did \in {"throws", "unanswerable"},
         UNCHANGED <<workerVars, toMain, toWorker, working, exited>>, destroyed \subseteq destroyed'
  PROVE  IInv'
<1>1. UNCHANGED <<sent, nextRequestId, pendingRequests, settled>>
  BY DEF workerVars
<1>2. /\ Way[1].isolate \in Isolates /\ 1 \in DOMAIN Way /\ Way[1] \in Message
      /\ (Way[1].id = NoRequest) = (did = "returns")
      /\ Records(Way[1], did)
      /\ batch' = Tail(batch) => Shifted(1)
      /\ \E d \in Nat : Shifted(d)
      /\ Kept /\ DoneStays /\ MessagesAreNumbered' /\ OrderIsKept' /\ NothingIsLost'
  BY <1>1, DispatchHandles, Fields
<1>3. TypeOK /\ OrderIsKept
  BY DEF IInv
<1>4. RequestsAreTracked'
  <2>1. PICK d \in Nat : Shifted(d)
    BY <1>2
  <2>2. ComingArePending'
    BY <1>1, <1>3, <2>1, ComingStayPending DEF IInv, RequestsAreTracked
  <2>3. CallsAreTracked' /\ ResponsesAreTracked' /\ PromisesAreTracked'
    BY <1>1, <1>2, <1>3, CallsStayTracked, ResponsesStayTracked, PromisesStayTracked
       DEF IInv, RequestsAreTracked
  <2> QED
    BY <2>2, <2>3 DEF RequestsAreTracked
<1>5. RequestsAreSomewhere'
  <2>1. CASE did = "returns"
    <3>1. Shifted(1) /\ Way[1].id = NoRequest
      BY <1>2, <2>1
    <3> QED
      BY <1>1, <1>2, <1>3, <3>1, RequestsStaySomewhere DEF IInv
  <2>2. CASE did \in {"throws", "unanswerable"}
    <3>1. \E k \in DOMAIN handled'[Way[1].isolate] :
            handled'[Way[1].isolate][k] = [n |-> Way[1].n, id |-> Way[1].id, did |-> did]
      BY <1>2, <1>3, RecordsOne
    <3>2. Threw'
      BY <1>2, <2>2, <3>1 DEF Threw
    <3> QED
      BY <3>2 DEF RequestsAreSomewhere
  <2> QED
    BY <2>1, <2>2
<1> QED
  BY <1>2, <1>4, <1>5 DEF IInv

\* A message of a destroyed isolate is passed over.
LEMMA SkipMessageStep == ASSUME IInv, SkipMessage PROVE IInv'
<1>1. /\ batch # <<>> /\ Head(batch).isolate \in destroyed /\ batch' = Tail(batch)
      /\ UNCHANGED <<workerVars, toMain, toWorker, systemEvents, handled, working, destroyed,
                     notified, exited>>
      /\ UNCHANGED <<sent, nextRequestId, pendingRequests, settled, dropped>>
  BY DEF SkipMessage, PassedOver, channelVars, workerVars
<1>2. TypeOK
  BY DEF IInv
<1>3. batch' \in Seq(Message) /\ Shifted(1) /\ Way[1].isolate \in destroyed
  BY <1>1, <1>2, DispatchShifts
<1>4. TypeOK'
  BY <1>1, <1>2, <1>3 DEF TypeOK
<1>5. Kept /\ DoneStays /\ Grown(1)
  BY <1>1, SameHandled
<1>6. MessagesAreNumbered' /\ OrderIsKept' /\ NothingIsLost'
  BY <1>1, <1>2, <1>3, <1>5, ShiftKeepsOrder, ShiftLosesNothing DEF IInv
<1>7. RequestsAreTracked'
  BY <1>1, <1>2, <1>3, <1>5, ComingStayPending, CallsStayTracked, ResponsesStayTracked,
     PromisesStayTracked DEF IInv, RequestsAreTracked
<1>8. RequestsAreSomewhere'
  BY <1>1, <1>2, <1>3, <1>5, RequestsStaySomewhere DEF IInv
<1> QED
  BY <1>4, <1>6, <1>7, <1>8 DEF IInv

\* An event, whose handlers may destroy isolates.
LEMMA DispatchEventStep == ASSUME IInv, DispatchEvent PROVE IInv'
<1>1. /\ Dispatches("returns") /\ batch' = Tail(batch)
      /\ UNCHANGED <<workerVars, toMain, toWorker, working, notified, exited>>
  BY DEF DispatchEvent
<1>2. /\ systemEvents' \in Seq(Isolates) /\ destroyed' \subseteq Isolates
      /\ destroyed \subseteq destroyed'
  BY HandlersDestroyIsolates DEF IInv, DispatchEvent
<1>3. batch' \in Seq(Message) /\ handled' \in [Isolates -> Seq(Handled)]
  BY <1>1, <1>2, DispatchHandles DEF workerVars, Deed
<1>4. TypeOK'
  BY <1>1, <1>2, <1>3 DEF IInv, TypeOK, workerVars
<1> QED
  BY <1>1, <1>2, <1>4, EventOrThrow DEF Deed

\* A dispatch that throws and loses the rest of its batch.
LEMMA DispatchThrowsStep == ASSUME IInv, DispatchThrows PROVE IInv'
<1>1. /\ "throws" \in Handlers /\ Dispatches("throws") /\ batch' = <<>>
      /\ UNCHANGED <<workerVars, toMain, toWorker, working, notified, exited>>
  BY DEF DispatchThrows
<1>2. /\ systemEvents' \in Seq(Isolates) /\ destroyed' \subseteq Isolates
      /\ destroyed \subseteq destroyed'
  BY HandlersDestroyIsolates DEF IInv, DispatchThrows
<1>3. batch' \in Seq(Message) /\ handled' \in [Isolates -> Seq(Handled)]
  BY <1>1, <1>2, DispatchHandles DEF workerVars, Deed
<1>4. TypeOK'
  BY <1>1, <1>2, <1>3 DEF IInv, TypeOK, workerVars
<1> QED
  BY <1>1, <1>2, <1>4, EventOrThrow DEF Deed

\* A refusal that cannot be sent loses the rest of its batch as well.
LEMMA DispatchUnanswerableStep == ASSUME IInv, DispatchUnanswerable PROVE IInv'
<1>1. /\ Dispatches("unanswerable") /\ batch' = <<>>
      /\ UNCHANGED <<workerVars, toMain, toWorker, systemEvents, working, destroyed, notified,
                     exited>>
  BY DEF DispatchUnanswerable, channelVars
<1>2. batch' \in Seq(Message) /\ handled' \in [Isolates -> Seq(Handled)]
  BY <1>1, DispatchHandles DEF workerVars, Deed
<1>3. TypeOK'
  BY <1>1, <1>2 DEF IInv, TypeOK, workerVars
<1> QED
  BY <1>1, <1>3, EventOrThrow DEF Deed

\* A request that is dispatched is the only one of its id that is worked on: nothing
\* was done for it so far.
LEMMA DispatchRequestStep == ASSUME IInv, DispatchRequest PROVE IInv'
<1>1. PICK did \in Handlers \ {"throws", "missing"} :
        /\ Dispatches(did) /\ batch' = Tail(batch)
        /\ working' = working \cup
             {[isolate |-> Head(batch).isolate, id |-> Head(batch).id, did |-> did]}
        /\ UNCHANGED <<workerVars, toMain, toWorker, notified, exited>>
        /\ UNCHANGED <<sent, nextRequestId, pendingRequests, settled, dropped>>
        /\ systemEvents' \in Seq(Isolates) /\ destroyed' \subseteq Isolates
        /\ destroyed \subseteq destroyed'
  BY HandlersDestroyIsolates DEF IInv, DispatchRequest, workerVars
<1>2. TypeOK /\ OrderIsKept /\ did \in {"resolves", "rejects", "rejectsBlank", "rejectsNull"}
  BY ConstantsAssumption DEF IInv
<1>3. PICK m \in Message :
        /\ m = Way[1] /\ 1 \in DOMAIN Way /\ Head(batch) = m /\ m.id # NoRequest
        /\ Records(m, did)
        /\ batch' \in Seq(Message) /\ handled' \in [Isolates -> Seq(Handled)]
        /\ Shifted(1) /\ Kept /\ DoneStays
        /\ MessagesAreNumbered' /\ OrderIsKept' /\ NothingIsLost'
  BY <1>1, <1>2, DispatchHandles DEF Deed
<1>4. PICK c \in Call : /\ c = [isolate |-> m.isolate, id |-> m.id, did |-> did]
                        /\ c.isolate = m.isolate /\ c.id = m.id /\ c.did = did
  <2>1. m.isolate \in Isolates /\ m.id \in RequestIds
    BY <1>3, Fields
  <2>2. [isolate |-> m.isolate, id |-> m.id, did |-> did] \in Call
    BY <1>2, <2>1 DEF Call
  <2> QED
    BY <2>2
<1>5. working' = working \cup {c}
  BY <1>1, <1>3, <1>4
<1>6. TypeOK'
  BY <1>1, <1>2, <1>3, <1>5 DEF TypeOK
<1>7. Done(c.isolate, c.id) = {} /\ Done(c.isolate, c.id)' = {c.did}
  BY <1>1, <1>2, <1>3, <1>4, RecordsOne DEF Deed
<1>8. c.isolate \in Isolates /\ c.id \in RequestIds /\ c.id \in pendingRequests[c.isolate]
  BY <1>3, <1>4 DEF IInv, RequestsAreTracked, ComingArePending, Call
<1>9. CallsAreTracked'
  <2> SUFFICES ASSUME NEW b \in working \cup {c}
               PROVE  /\ b.id \in pendingRequests[b.isolate]
                      /\ Done(b.isolate, b.id)' = {b.did}
                      /\ \A k \in DOMAIN toWorker[b.isolate] : toWorker[b.isolate][k].id # b.id
    BY <1>1, <1>5 DEF CallsAreTracked
  <2>1. CASE b \in working
    <3>1. /\ b.id \in pendingRequests[b.isolate] /\ Done(b.isolate, b.id) = {b.did}
          /\ \A k \in DOMAIN toWorker[b.isolate] : toWorker[b.isolate][k].id # b.id
      BY <2>1 DEF IInv, RequestsAreTracked, CallsAreTracked
    <3>2. b.isolate \in Isolates /\ b.id \in RequestIds
      BY <1>2, <2>1, CallFields
    <3>3. Done(b.isolate, b.id)' = Done(b.isolate, b.id)
      BY <1>3, <3>1, <3>2 DEF DoneStays
    <3> QED
      BY <3>1, <3>3
  <2>2. CASE b = c
    <3>1. ASSUME NEW k \in DOMAIN toWorker[c.isolate] PROVE toWorker[c.isolate][k].id # c.id
      <4>1. PICK q \in RequestIds, e \in BOOLEAN :
              q = toWorker[c.isolate][k].id /\ e = toWorker[c.isolate][k].error
        BY <1>2, <1>8, ResponseFields
      <4>2. Done(c.isolate, q) \in Deeds(e)
        BY <1>8, <4>1 DEF IInv, RequestsAreTracked, ResponsesAreTracked
      <4> QED
        BY <1>7, <4>1, <4>2, DeedsAreDone
    <3> QED
      BY <1>7, <1>8, <2>2, <3>1
  <2> QED
    BY <2>1, <2>2
<1>10. RequestsAreTracked'
  BY <1>1, <1>2, <1>3, <1>9, ComingStayPending, ResponsesStayTracked, PromisesStayTracked
     DEF IInv, RequestsAreTracked
<1>11. RequestsAreSomewhere'
  <2>1. \E b \in working' : b.isolate = Way[1].isolate /\ b.id = Way[1].id
    BY <1>3, <1>4, <1>5
  <2>2. \A b \in working : b \in working'
    BY <1>5
  <2> QED
    BY <1>1, <1>2, <1>3, <2>1, <2>2, RequestsStaySomewhere DEF IInv
<1> QED
  BY <1>3, <1>6, <1>10, <1>11 DEF IInv

\* Isolate.send: a response to a pending request that has none yet.
LEMMA RespondAppends ==
  ASSUME TypeOK, NEW i \in Isolates, NEW r \in RequestIds, NEW e \in BOOLEAN, Respond(i, r, e)
  PROVE  /\ toWorker' \in [Isolates -> Seq(Response)]
         /\ \A w \in Isolates : w # i => toWorker'[w] = toWorker[w]
         /\ \A w \in Isolates : \A k \in DOMAIN toWorker[w] :
              k \in DOMAIN toWorker'[w] /\ toWorker'[w][k] = toWorker[w][k]
         /\ \E l \in DOMAIN toWorker'[i] :
              /\ toWorker'[i][l].id = r /\ toWorker'[i][l].error = e
              /\ \A k \in DOMAIN toWorker'[i] :
                   k = l \/ (k \in DOMAIN toWorker[i] /\ toWorker'[i][k] = toWorker[i][k])
<1>1. PICK s \in Seq(Response), m \in Response :
        s = toWorker[i] /\ m = [id |-> r, error |-> e] /\ m.id = r /\ m.error = e
  <2>1. [id |-> r, error |-> e] \in Response
    BY DEF Response
  <2> QED
    BY <2>1, ResponseFields
<1>2. toWorker'[i] = Append(s, m) /\ \A w \in Isolates : w # i => toWorker'[w] = toWorker[w]
  BY <1>1 DEF Respond, TypeOK
<1>3. /\ Append(s, m) \in Seq(Response) /\ Len(s) \in Nat /\ DOMAIN s = 1 .. Len(s)
      /\ DOMAIN Append(s, m) = 1 .. Len(s) + 1 /\ Append(s, m)[Len(s) + 1] = m
      /\ \A k \in 1 .. Len(s) : Append(s, m)[k] = s[k]
  BY <1>1
<1>4. /\ Len(s) + 1 \in DOMAIN Append(s, m)
      /\ \A k \in DOMAIN s : k \in DOMAIN Append(s, m) /\ Append(s, m)[k] = s[k]
      /\ \A k \in DOMAIN Append(s, m) : k = Len(s) + 1 \/ k \in DOMAIN s
  BY <1>3
<1>5. toWorker' \in [Isolates -> Seq(Response)]
  BY <1>1, <1>2, <1>3 DEF Respond, TypeOK
<1>6. \A w \in Isolates : \A k \in DOMAIN toWorker[w] :
        k \in DOMAIN toWorker'[w] /\ toWorker'[w][k] = toWorker[w][k]
  BY <1>1, <1>2, <1>4
<1>7. \E l \in DOMAIN toWorker'[i] :
        /\ toWorker'[i][l].id = r /\ toWorker'[i][l].error = e
        /\ \A k \in DOMAIN toWorker'[i] :
             k = l \/ (k \in DOMAIN toWorker[i] /\ toWorker'[i][k] = toWorker[i][k])
  <2>1. PICK l \in DOMAIN Append(s, m) : l = Len(s) + 1
    BY <1>4
  <2>2. toWorker'[i][l] = m /\ l \in DOMAIN toWorker'[i]
    BY <1>2, <1>3, <2>1
  <2>3. \A k \in DOMAIN toWorker'[i] : k = l \/ k \in DOMAIN toWorker[i]
    BY <1>1, <1>2, <1>4, <2>1
  <2>4. toWorker'[i][l].id = r /\ toWorker'[i][l].error = e
    BY <1>1, <2>2
  <2>5. \A k \in DOMAIN toWorker[i] : toWorker'[i][k] = toWorker[i][k]
    BY <1>6
  <2>6. \A k \in DOMAIN toWorker'[i] :
          k = l \/ (k \in DOMAIN toWorker[i] /\ toWorker'[i][k] = toWorker[i][k])
    BY <2>3, <2>5
  <2> QED
    BY <2>2, <2>4, <2>6
<1> QED
  BY <1>2, <1>5, <1>6, <1>7

\* One response, to a pending request that has none under way, is due like the others.
LEMMA RespondKeepsTrack ==
  ASSUME TypeOK, ResponsesAreTracked, DoneStays, UNCHANGED pendingRequests,
         NEW i \in Isolates, NEW r \in pendingRequests[i], NEW e \in BOOLEAN, Respond(i, r, e),
         Done(i, r)' \in Deeds(e),
         \A k \in DOMAIN toWorker[i] : toWorker[i][k].id # r
  PROVE  ResponsesAreTracked'
<1>1. r \in RequestIds
  BY DEF TypeOK
<1>2. PICK l \in DOMAIN toWorker'[i] :
        /\ toWorker'[i][l].id = r /\ toWorker'[i][l].error = e
        /\ \A k \in DOMAIN toWorker'[i] :
             k = l \/ (k \in DOMAIN toWorker[i] /\ toWorker'[i][k] = toWorker[i][k])
  BY <1>1, RespondAppends
<1>3. \A w \in Isolates : w # i => toWorker'[w] = toWorker[w]
  BY <1>1, RespondAppends
<1> SUFFICES ASSUME NEW w \in Isolates, NEW k \in DOMAIN toWorker'[w]
             PROVE  /\ toWorker'[w][k].id \in pendingRequests[w]
                    /\ Done(w, toWorker[w][k].id)' \in Deeds(toWorker'[w][k].error)
                    /\ \A j \in DOMAIN toWorker'[w] :
                         toWorker'[w][j].id = toWorker'[w][k].id => j = k
  BY DEF ResponsesAreTracked, Deeds
<1>4. CASE w = i /\ k = l
  <2>1. Done(w, toWorker[w][k].id)' = Done(i, r)'
    BY <1>2, <1>4 DEF Done
  <2> QED
    BY <1>2, <1>4, <2>1
<1>5. CASE ~(w = i /\ k = l)
  <2>1. k \in DOMAIN toWorker[w] /\ toWorker'[w][k] = toWorker[w][k]
    BY <1>2, <1>3, <1>5
  <2>2. PICK q \in RequestIds, f \in BOOLEAN : q = toWorker[w][k].id /\ f = toWorker[w][k].error
    BY <2>1, ResponseFields
  <2>3. /\ q \in pendingRequests[w] /\ Done(w, q) \in Deeds(f)
        /\ \A j \in DOMAIN toWorker[w] : toWorker[w][j].id = q => j = k
    BY <2>1, <2>2 DEF ResponsesAreTracked
  <2>4. Done(w, toWorker[w][k].id)' = Done(w, q)'
    BY <2>1, <2>2 DEF Done
  <2>5. Done(w, q)' \in Deeds(f)
    BY <2>3, DeedsAreDone DEF DoneStays
  <2>6. ASSUME NEW j \in DOMAIN toWorker'[w], toWorker'[w][j].id = q PROVE j = k
    <3>1. CASE w = i
      BY <1>2, <2>1, <2>2, <2>3, <2>6, <3>1
    <3>2. CASE w # i
      BY <1>3, <2>3, <2>6, <3>2
    <3> QED
      BY <3>1, <3>2
  <2> QED
    BY <2>1, <2>2, <2>3, <2>4, <2>5, <2>6
<1> QED
  BY <1>4, <1>5

\* A request that nobody handles is answered at once.
LEMMA DispatchUnknownStep == ASSUME IInv, DispatchUnknown PROVE IInv'
<1>1. /\ "missing" \in Handlers /\ Dispatches("missing") /\ batch' = Tail(batch)
      /\ Respond(Head(batch).isolate, Head(batch).id, TRUE)
      /\ UNCHANGED <<workerVars, toMain, systemEvents, working, destroyed, notified, exited>>
      /\ UNCHANGED <<sent, nextRequestId, pendingRequests, settled, dropped>>
  BY DEF DispatchUnknown, Refuse, workerVars
<1>2. TypeOK /\ OrderIsKept
  BY DEF IInv
<1>3. PICK m \in Message :
        /\ m = Way[1] /\ 1 \in DOMAIN Way /\ Head(batch) = m /\ m.id # NoRequest
        /\ Records(m, "missing")
        /\ batch' \in Seq(Message) /\ handled' \in [Isolates -> Seq(Handled)]
        /\ Shifted(1) /\ Kept /\ DoneStays
        /\ MessagesAreNumbered' /\ OrderIsKept' /\ NothingIsLost'
  BY <1>1, DispatchHandles DEF Deed
<1>4. PICK i \in Isolates, r \in RequestIds : i = m.isolate /\ r = m.id
  BY <1>3, Fields
<1>5. Respond(i, r, TRUE) /\ r \in pendingRequests[i]
  BY <1>1, <1>3, <1>4 DEF IInv, RequestsAreTracked, ComingArePending
<1>6. /\ toWorker' \in [Isolates -> Seq(Response)]
      /\ \A w \in Isolates : w # i => toWorker'[w] = toWorker[w]
      /\ \A w \in Isolates : \A k \in DOMAIN toWorker[w] :
           k \in DOMAIN toWorker'[w] /\ toWorker'[w][k] = toWorker[w][k]
      /\ \E l \in DOMAIN toWorker'[i] :
           /\ toWorker'[i][l].id = r
           /\ \A k \in DOMAIN toWorker'[i] :
                k = l \/ (k \in DOMAIN toWorker[i] /\ toWorker'[i][k] = toWorker[i][k])
  <2>1. PICK e \in BOOLEAN : Respond(i, r, e)
    BY <1>5
  <2> QED
    BY <1>2, <2>1, RespondAppends
<1>7. TypeOK'
  BY <1>1, <1>2, <1>3, <1>6 DEF TypeOK
<1>8. Done(i, r) = {} /\ Done(i, r)' = {"missing"}
  BY <1>1, <1>2, <1>3, <1>4, RecordsOne DEF Deed
<1>9. ResponsesAreTracked'
  <2>1. ASSUME NEW k \in DOMAIN toWorker[i] PROVE toWorker[i][k].id # r
    <3>1. PICK q \in RequestIds, e \in BOOLEAN : q = toWorker[i][k].id /\ e = toWorker[i][k].error
      BY <1>2, ResponseFields
    <3>2. Done(i, q) \in Deeds(e)
      BY <3>1 DEF IInv, RequestsAreTracked, ResponsesAreTracked
    <3> QED
      BY <1>8, <3>1, <3>2, DeedsAreDone
  <2>2. Done(i, r)' \in Deeds(TRUE)
    BY <1>8 DEF Deeds
  <2> QED
    BY <1>1, <1>2, <1>3, <1>5, <2>1, <2>2, RespondKeepsTrack DEF IInv, RequestsAreTracked
<1>10. CallsAreTracked'
  <2> SUFFICES ASSUME NEW b \in working
               PROVE  /\ b.id \in pendingRequests[b.isolate]
                      /\ Done(b.isolate, b.id)' = {b.did}
                      /\ \A k \in DOMAIN toWorker'[b.isolate] : toWorker'[b.isolate][k].id # b.id
    BY <1>1 DEF CallsAreTracked
  <2>1. /\ b.id \in pendingRequests[b.isolate] /\ Done(b.isolate, b.id) = {b.did}
        /\ \A k \in DOMAIN toWorker[b.isolate] : toWorker[b.isolate][k].id # b.id
    BY DEF IInv, RequestsAreTracked, CallsAreTracked
  <2>2. b.isolate \in Isolates /\ b.id \in RequestIds
    BY <1>2, CallFields
  <2>3. Done(b.isolate, b.id)' = {b.did}
    BY <1>3, <2>1, <2>2 DEF DoneStays
  <2>4. b.isolate # i \/ b.id # r
    BY <1>8, <2>1
  <2>5. \A k \in DOMAIN toWorker'[b.isolate] : toWorker'[b.isolate][k].id # b.id
    BY <1>6, <2>1, <2>2, <2>4
  <2> QED
    BY <2>1, <2>3, <2>5
<1>11. RequestsAreTracked'
  BY <1>1, <1>2, <1>3, <1>9, <1>10, ComingStayPending, PromisesStayTracked
     DEF IInv, RequestsAreTracked
<1>12. RequestsAreSomewhere'
  <2>1. \E k \in DOMAIN toWorker'[Way[1].isolate] : toWorker'[Way[1].isolate][k].id = Way[1].id
    BY <1>3, <1>4, <1>6
  <2>2. \A w \in Isolates : \A k \in DOMAIN toWorker[w] :
          \E j \in DOMAIN toWorker'[w] : toWorker'[w][j].id = toWorker[w][k].id
    BY <1>6
  <2> QED
    BY <1>1, <1>2, <1>3, <2>1, <2>2, RequestsStaySomewhere DEF IInv
<1> QED
  BY <1>3, <1>7, <1>11, <1>12 DEF IInv

\* The response is what the handler was going to reply, or the process ends.
LEMMA ReplyStep == ASSUME IInv, NEW c \in working, Reply(c) PROVE IInv'
<1>1. /\ working' = working \ {c}
      /\ \/ exited' = TRUE /\ UNCHANGED toWorker
         \/ c.did # "rejectsNull" /\ Respond(c.isolate, c.id, c.did = "rejects")
            /\ UNCHANGED exited
      /\ UNCHANGED <<workerVars, toMain, systemEvents, batch, handled, destroyed, notified>>
      /\ UNCHANGED <<sent, nextRequestId, pendingRequests, settled, dropped>>
  BY DEF Reply, workerVars
<1>2. /\ TypeOK /\ Kept /\ DoneStays /\ Grown(0) /\ Shifted(0)
      /\ \A w, q : Done(w, q)' = Done(w, q)
  <2>1. Way' = Way
    BY <1>1 DEF Way
  <2> QED
    BY <1>1, <2>1, SameHandled, SameWay DEF IInv, Done
<1>3. MessagesAreNumbered' /\ OrderIsKept' /\ NothingIsLost'
  BY <1>1, <1>2, ShiftKeepsOrder, ShiftLosesNothing DEF IInv
<1>4. PICK i \in Isolates, r \in RequestIds, e \in BOOLEAN :
        i = c.isolate /\ r = c.id /\ e = (c.did = "rejects")
  BY <1>2, CallFields
<1>5. /\ r \in pendingRequests[i] /\ Done(i, r) = {c.did}
      /\ \A k \in DOMAIN toWorker[i] : toWorker[i][k].id # r
  BY <1>4 DEF IInv, RequestsAreTracked, CallsAreTracked
<1>6. \/ exited' = TRUE /\ UNCHANGED toWorker
      \/ c.did # "rejectsNull" /\ Respond(i, r, e) /\ UNCHANGED exited
  BY <1>1, <1>4
<1>7. /\ toWorker' \in [Isolates -> Seq(Response)]
      /\ \A w \in Isolates : w # i => toWorker'[w] = toWorker[w]
      /\ \A w \in Isolates : \A k \in DOMAIN toWorker[w] :
           k \in DOMAIN toWorker'[w] /\ toWorker'[w][k] = toWorker[w][k]
      /\ \/ exited'
         \/ \E k \in DOMAIN toWorker'[i] : toWorker'[i][k].id = r
      /\ \A k \in DOMAIN toWorker'[i] :
           \/ toWorker'[i][k].id = r
           \/ k \in DOMAIN toWorker[i] /\ toWorker'[i][k] = toWorker[i][k]
  <2>1. CASE exited' = TRUE /\ UNCHANGED toWorker
    BY <1>2, <2>1 DEF TypeOK
  <2>2. CASE Respond(i, r, e)
    BY <1>2, <2>2, RespondAppends
  <2> QED
    BY <1>6, <2>1, <2>2
<1>8. TypeOK'
  BY <1>1, <1>2, <1>6, <1>7 DEF TypeOK, workerVars
<1>9. ResponsesAreTracked'
  <2>1. CASE UNCHANGED toWorker
    BY <1>1, <1>2, <2>1, ResponsesStayTracked DEF IInv, RequestsAreTracked
  <2>2. CASE c.did # "rejectsNull" /\ Respond(i, r, e)
    <3>1. c.did \in {"resolves", "rejects", "rejectsBlank"}
      BY <1>2, <2>2, CallFields
    <3>2. Done(i, r)' = {c.did}
      BY <1>2, <1>5
    <3>3. Done(i, r)' \in Deeds(e)
      BY <1>4, <3>1, <3>2 DEF Deeds
    <3> QED
      BY <1>1, <1>2, <1>5, <2>2, <3>3, RespondKeepsTrack DEF IInv, RequestsAreTracked
  <2> QED
    BY <1>6, <2>1, <2>2
<1>10. CallsAreTracked'
  <2> SUFFICES ASSUME NEW b \in working \ {c}
               PROVE  /\ b.id \in pendingRequests[b.isolate]
                      /\ Done(b.isolate, b.id)' = {b.did}
                      /\ \A k \in DOMAIN toWorker'[b.isolate] : toWorker'[b.isolate][k].id # b.id
    BY <1>1 DEF CallsAreTracked
  <2>1. /\ b.id \in pendingRequests[b.isolate] /\ Done(b.isolate, b.id) = {b.did}
        /\ \A k \in DOMAIN toWorker[b.isolate] : toWorker[b.isolate][k].id # b.id
    BY DEF IInv, RequestsAreTracked, CallsAreTracked
  <2>2. /\ b.isolate \in Isolates /\ b.id \in RequestIds
        /\ b = [isolate |-> b.isolate, id |-> b.id, did |-> b.did]
        /\ c = [isolate |-> c.isolate, id |-> c.id, did |-> c.did]
    BY <1>2, CallFields
  <2>3. Done(b.isolate, b.id)' = {b.did}
    BY <1>2, <2>1
  <2>4. b.isolate # i \/ b.id # r
    <3> SUFFICES ASSUME b.isolate = i, b.id = r PROVE FALSE
      OBVIOUS
    <3>1. b.did = c.did
      BY <1>5, <2>1
    <3> QED
      BY <1>4, <2>2, <3>1
  <2>5. \A k \in DOMAIN toWorker'[b.isolate] : toWorker'[b.isolate][k].id # b.id
    BY <1>7, <2>1, <2>2, <2>4
  <2> QED
    BY <2>1, <2>3, <2>5
<1>11. RequestsAreTracked'
  BY <1>1, <1>2, <1>9, <1>10, ComingStayPending, PromisesStayTracked DEF IInv, RequestsAreTracked
<1>12. RequestsAreSomewhere'
  <2>1. \A b \in working : \/ b \in working' \/ exited'
                           \/ \E k \in DOMAIN toWorker'[b.isolate] :
                                toWorker'[b.isolate][k].id = b.id
    BY <1>1, <1>4, <1>7
  <2>2. \A w \in Isolates : \A k \in DOMAIN toWorker[w] :
          \E j \in DOMAIN toWorker'[w] : toWorker'[w][j].id = toWorker[w][k].id
    BY <1>7
  <2>3. exited => exited'
    BY <1>6
  <2> QED
    BY <1>1, <1>2, <2>1, <2>2, <2>3, RequestsStaySomewhere DEF IInv
<1> QED
  BY <1>3, <1>8, <1>11, <1>12 DEF IInv

\* Every step of the isolates and of the dispatcher keeps the inductive invariant.
LEMMA InvStep == IInv /\ [Next]_vars => IInv'
<1> SUFFICES ASSUME IInv, [Next]_vars PROVE IInv'
  OBVIOUS
<1>1. CASE Dispatch
  BY <1>1, SkipMessageStep, DispatchEventStep, DispatchRequestStep, DispatchThrowsStep,
     DispatchUnknownStep, DispatchUnanswerableStep DEF Dispatch
<1>2. CASE Main
  BY <1>1, <1>2, PollStep, ReplyStep, DestroyIsolateStep, DispatchSystemEventStep DEF Main
<1>3. ASSUME NEW i \in Isolates, Worker(i) PROVE IInv'
  BY <1>3, SendEventStep, SendRequestStep, ReceiveResponseStep, DropWorkerStep DEF Worker
<1>4. CASE UNCHANGED vars
  BY <1>4, StutteringStep
<1> QED
  BY <1>2, <1>3, <1>4 DEF Next

-----------------------------------------------------------------------------
(* What follows from it.                                                   *)

\* The inductive invariant holds in every state.
THEOREM Invariance == Spec => []IInv
  BY InvInit, InvStep, PTL DEF Spec

\* Every variable keeps its type: request ids and message numbers stay within what
\* the workers may send.
THEOREM TypeCorrect == Spec => []TypeOK
<1>1. IInv => TypeOK
  BY DEF IInv
<1> QED
  BY Invariance, <1>1, PTL

\* The messages of a worker are handled in the order it sent them, and none is lost
\* unless a handler throws (op_sandbox_poll_messages and the message loop).
THEOREM MessagesKeepOrder == Spec => []InOrderWithoutLoss
<1>1. IInv => InOrderWithoutLoss
  BY DEF IInv, OrderIsKept, Before, NothingIsLost, InOrderWithoutLoss
<1> QED
  BY Invariance, <1>1, PTL

\* A promise is settled by what was done for its own request, by a handler that
\* replies, and as that handler replied (__response).
THEOREM AnswersAreRight == Spec => []AnswersMatch
<1>1. IInv => AnswersMatch
  <2> SUFFICES ASSUME IInv, NEW i \in Isolates, NEW r \in RequestIds, settled[i][r] # "no"
               PROVE  /\ \E did \in Handlers \ {"throws", "rejectsNull"} : Done(i, r) = {did}
                      /\ "resolves" \in Done(i, r) => settled[i][r] = "resolved"
                      /\ Done(i, r) \cap {"rejects", "missing"} # {} => settled[i][r] = "rejected"
    BY DEF AnswersMatch, Requests
  <2>1. Done(i, r) \in Deeds(settled[i][r] = "rejected")
    BY DEF IInv, RequestsAreTracked, PromisesAreTracked
  <2>2. settled[i][r] \in {"resolved", "rejected"}
    BY DEF IInv, TypeOK
  <2>3. PICK did \in {"resolves", "rejects", "rejectsBlank", "missing"} :
          /\ Done(i, r) = {did}
          /\ did = "resolves" => settled[i][r] = "resolved"
          /\ did \in {"rejects", "missing"} => settled[i][r] = "rejected"
    BY <2>1, <2>2 DEF Deeds
  <2>4. did \in Handlers
    <3>1. PICK k \in DOMAIN handled[i] : handled[i][k].did = did
      BY <2>3 DEF Done
    <3>2. did \in Deed
      BY <3>1, HandledFields DEF IInv, Handled
    <3> QED
      BY <3>2 DEF Deed
  <2> QED
    BY <2>3, <2>4
<1> QED
  BY Invariance, <1>1, PTL

\* A pending request is in one place, and a settled one in none.
THEOREM RequestsStayConserved == Spec => []RequestsAreConserved
<1>1. IInv => RequestsAreConserved
  <2> SUFFICES ASSUME IInv, NEW i \in Isolates, NEW r \in RequestIds
               PROVE  /\ \A p, q \in Places(i, r) : p = q
                      /\ Places(i, r) # {} => r \in pendingRequests[i]
                      /\ Places(i, r) = {} => \/ r \notin pendingRequests[i]
                                              \/ i \in destroyed
                                              \/ Threw
                                              \/ exited
    BY DEF RequestsAreConserved, Requests
  <2>1. TypeOK /\ r # NoRequest /\ r \in Int
    BY Fields DEF IInv
  <2>2. ASSUME NEW k \in WayOf(i), Way[k].id = r
        PROVE  /\ r \in pendingRequests[i] /\ Done(i, r) = {}
               /\ \A j \in WayOf(i) : Way[j].id = r => j = k
    <3>1. r \in pendingRequests[i]
      BY <2>1, <2>2 DEF IInv, RequestsAreTracked, ComingArePending, WayOf
    <3>2. ASSUME NEW j \in DOMAIN handled[i] PROVE handled[i][j].id # r
      BY <2>1, <2>2 DEF IInv, OrderIsKept, Before
    <3>3. Done(i, r) = {}
      BY <3>2 DEF Done
    <3>4. ASSUME NEW j \in WayOf(i), Way[j].id = r PROVE j = k
      <4>1. j \in Int /\ k \in Int
        BY <2>1, WayIsTyped DEF WayOf
      <4>2. ~(j < k) /\ ~(k < j)
        BY <2>1, <2>2, <3>4 DEF IInv, OrderIsKept, Before
      <4> QED
        BY <4>1, <4>2
    <3> QED
      BY <3>1, <3>3, <3>4
  <2>3. ASSUME NEW c \in working, c.isolate = i, c.id = r
        PROVE  /\ r \in pendingRequests[i] /\ Done(i, r) = {c.did}
               /\ \A k \in DOMAIN toWorker[i] : toWorker[i][k].id # r
               /\ \A b \in working : b.isolate = i /\ b.id = r => b = c
    <3>1. /\ r \in pendingRequests[i] /\ Done(i, r) = {c.did}
          /\ \A k \in DOMAIN toWorker[i] : toWorker[i][k].id # r
      BY <2>3 DEF IInv, RequestsAreTracked, CallsAreTracked
    <3>2. ASSUME NEW b \in working, b.isolate = i, b.id = r PROVE b = c
      <4>1. Done(i, r) = {b.did}
        BY <3>2 DEF IInv, RequestsAreTracked, CallsAreTracked
      <4> QED
        BY <2>1, <2>3, <3>1, <3>2, <4>1, CallFields
    <3> QED
      BY <3>1, <3>2
  <2>4. ASSUME NEW k \in DOMAIN toWorker[i], toWorker[i][k].id = r
        PROVE  /\ r \in pendingRequests[i] /\ Done(i, r) # {}
               /\ \A j \in DOMAIN toWorker[i] : toWorker[i][j].id = r => j = k
    <3>1. /\ r \in pendingRequests[i] /\ Done(i, r) \in Deeds(toWorker[i][k].error)
          /\ \A j \in DOMAIN toWorker[i] : toWorker[i][j].id = r => j = k
      BY <2>4 DEF IInv, RequestsAreTracked, ResponsesAreTracked
    <3>2. toWorker[i][k].error \in BOOLEAN
      BY <2>1, ResponseFields
    <3> QED
      BY <3>1, <3>2, DeedsAreDone
  <2>5. ASSUME NEW p \in Places(i, r)
        PROVE  \/ \E k \in WayOf(i) : Way[k].id = r /\ p = <<"on its way", k>>
               \/ \E c \in working : c.isolate = i /\ c.id = r /\ p = <<"handled", c>>
               \/ \E k \in DOMAIN toWorker[i] : toWorker[i][k].id = r /\ p = <<"answered", k>>
    BY <2>5 DEF Places
  <2>6. \A p, q \in Places(i, r) : p = q
    <3> SUFFICES ASSUME NEW p \in Places(i, r), NEW q \in Places(i, r) PROVE p = q
      OBVIOUS
    <3>1. CASE \E k \in WayOf(i) : Way[k].id = r /\ p = <<"on its way", k>>
      BY <2>2, <2>3, <2>4, <2>5, <3>1
    <3>2. CASE \E c \in working : c.isolate = i /\ c.id = r /\ p = <<"handled", c>>
      BY <2>2, <2>3, <2>4, <2>5, <3>2
    <3>3. CASE \E k \in DOMAIN toWorker[i] : toWorker[i][k].id = r /\ p = <<"answered", k>>
      BY <2>2, <2>3, <2>4, <2>5, <3>3
    <3> QED
      BY <2>5, <3>1, <3>2, <3>3
  <2>7. Places(i, r) # {} => r \in pendingRequests[i]
    BY <2>2, <2>3, <2>4, <2>5
  <2>8. Places(i, r) = {} => r \notin pendingRequests[i] \/ i \in destroyed \/ Threw \/ exited
    BY DEF IInv, RequestsAreSomewhere
  <2> QED
    BY <2>6, <2>7, <2>8
<1> QED
  BY Invariance, <1>1, PTL

-----------------------------------------------------------------------------
(* The life of a request: every step of Messaging is one of RequestLife,   *)
(* or none, for every request of every worker.                             *)

\* The request goes through a step of its life, or through none.
Lives(i, r) == Request(i, r)!Next \/ UNCHANGED Request(i, r)!vars

\* No request has been made, handled or settled.
LEMMA LifeInit == Init => \A i \in Isolates, r \in RequestIds : Request(i, r)!Init
<1> SUFFICES ASSUME Init, NEW i \in Isolates, NEW r \in RequestIds
             PROVE  Request(i, r)!Init
  OBVIOUS
<1>1. r \in Nat /\ nextRequestId[i] = 0 /\ handled[i] = <<>>
      /\ settled[i][r] = "no" /\ destroyed = {}
  BY Fields DEF Init
<1>2. ~(r < nextRequestId[i])
  BY <1>1
<1>3. Handlings(i, r) = {}
  BY <1>1 DEF Handlings
<1> QED
  BY <1>1, <1>2, <1>3 DEF Request!Init

\* A request is handled as often as something was done for it.
LEMMA HandlingsAreDeeds ==
  ASSUME NEW i, NEW r
  PROVE  /\ Handlings(i, r) = {} <=> Done(i, r) = {}
         /\ Handlings(i, r)' = {} <=> Done(i, r)' = {}
         /\ \A did \in Done(i, r) : \E h \in Handlings(i, r) : h.did = did
<1>1. ASSUME NEW did \in Done(i, r) PROVE \E h \in Handlings(i, r) : h.did = did
  <2>1. PICK k \in DOMAIN handled[i] : handled[i][k].id = r /\ handled[i][k].did = did
    BY DEF Done
  <2>2. [at |-> k, did |-> handled[i][k].did] \in Handlings(i, r)
    BY <2>1 DEF Handlings
  <2> QED
    BY <2>1, <2>2
<1>2. Handlings(i, r) = {} <=> Done(i, r) = {}
  BY DEF Handlings, Done
<1>3. Handlings(i, r)' = {} <=> Done(i, r)' = {}
  BY DEF Handlings, Done
<1> QED
  BY <1>1, <1>2, <1>3

\* A step that makes, handles and settles no request and destroys no isolate.
LEMMA NoLifeStep ==
  ASSUME UNCHANGED <<nextRequestId, handled, settled, destroyed>>,
         NEW i \in Isolates, NEW r \in RequestIds
  PROVE  Lives(i, r)
<1>1. Handlings(i, r)' = Handlings(i, r)
  BY DEF Handlings
<1> QED
  BY <1>1 DEF Lives, Request!vars

\* request makes the request that has the next id.
LEMMA SendRequestLife ==
  ASSUME TypeOK, NEW w \in Isolates, SendRequest(w), NEW i \in Isolates, NEW r \in RequestIds
  PROVE  Lives(i, r)
<1>1. /\ UNCHANGED <<handled, settled, destroyed>>
      /\ nextRequestId' = [nextRequestId EXCEPT ![w] = @ + 1]
  BY DEF SendRequest, mainVars
<1>2. Handlings(i, r)' = Handlings(i, r)
  BY <1>1 DEF Handlings
<1>3. /\ r \in Nat /\ nextRequestId[i] \in Nat
      /\ nextRequestId'[i] = IF i = w THEN nextRequestId[i] + 1 ELSE nextRequestId[i]
  BY <1>1, Fields, ConstantsAssumption DEF TypeOK
<1>4. CASE (r < nextRequestId'[i]) = (r < nextRequestId[i])
  BY <1>1, <1>2, <1>4 DEF Lives, Request!vars
<1>5. CASE ~((r < nextRequestId'[i]) = (r < nextRequestId[i]))
  <2>1. r < nextRequestId'[i] /\ ~(r < nextRequestId[i])
    BY <1>3, <1>5
  <2>2. Request(i, r)!Make
    BY <1>1, <1>2, <2>1 DEF Request!Make
  <2> QED
    BY <2>2 DEF Lives, Request!Next
<1> QED
  BY <1>4, <1>5

\* A response settles the request it names by what was done for it, once.
LEMMA ReceiveResponseLife ==
  ASSUME IInv, NEW w \in Isolates, ReceiveResponse(w), NEW i \in Isolates, NEW r \in RequestIds
  PROVE  Lives(i, r)
<1>1. PICK m : m = Head(toWorker[w])
  OBVIOUS
<1>2. 1 \in DOMAIN toWorker[w] /\ toWorker[w][1] = m
  BY <1>1, ResponseFields DEF IInv, ReceiveResponse
<1>3. /\ m.id \in pendingRequests[w] /\ Done(w, m.id) \in Deeds(m.error)
      /\ m.id \in RequestIds /\ m.error \in BOOLEAN
  BY <1>2, ResponseFields DEF IInv, RequestsAreTracked, ResponsesAreTracked
<1>4. settled[w][m.id] = "no"
  BY <1>3 DEF IInv, RequestsAreTracked, PromisesAreTracked
<1>5. /\ UNCHANGED <<nextRequestId, handled, destroyed>>
      /\ settled' = [settled EXCEPT ![w][m.id] = IF m.error THEN "rejected" ELSE "resolved"]
  BY <1>1, <1>3 DEF ReceiveResponse, mainVars
<1>6. Handlings(i, r)' = Handlings(i, r)
  BY <1>5 DEF Handlings
<1>7. settled \in [Isolates -> [RequestIds -> {"no", "resolved", "rejected"}]]
  BY DEF IInv, TypeOK
<1>8. CASE i = w /\ r = m.id
  <2>1. settled'[i][r] = IF m.error THEN "rejected" ELSE "resolved"
    BY <1>3, <1>5, <1>7, <1>8
  <2>2. PICK did \in Done(i, r) :
          did \in IF m.error THEN {"rejects", "missing"} ELSE {"resolves", "rejectsBlank"}
    BY <1>3, <1>8 DEF Deeds
  <2>3. PICK h \in Handlings(i, r) : h.did = did
    BY HandlingsAreDeeds
  <2>4. Request(i, r)!Settle
    BY <1>4, <1>5, <1>6, <1>8, <2>1, <2>2, <2>3 DEF Request!Settle, Request!SettledBy
  <2> QED
    BY <2>4 DEF Lives, Request!Next
<1>9. CASE ~(i = w /\ r = m.id)
  <2>1. settled'[i][r] = settled[i][r]
    BY <1>3, <1>5, <1>7, <1>9
  <2> QED
    BY <1>5, <1>6, <2>1 DEF Lives, Request!vars
<1> QED
  BY <1>8, <1>9

\* A dispatch handles the request that is the first on its way, and no other; the
\* handlers may destroy isolates with all of their requests.
LEMMA DispatchLife ==
  ASSUME IInv, NEW did \in Deed, Dispatches(did), batch' \in {Tail(batch), <<>>},
         UNCHANGED <<nextRequestId, settled, toMain>>, destroyed \subseteq destroyed',
         NEW i \in Isolates, NEW r \in RequestIds
  PROVE  Lives(i, r)
<1>1. PICK m \in Message : /\ 1 \in DOMAIN Way /\ Way[1] = m /\ Head(batch) = m
  <2>1. TypeOK /\ batch # <<>>
    BY DEF IInv, Dispatches
  <2> QED
    BY <2>1, DispatchShifts
<1>2. /\ m.isolate \in Isolates /\ m.isolate \notin destroyed
      /\ (m.id = NoRequest) = (did = "returns")
      /\ Records(m, did)
  BY <1>1, Fields DEF Dispatches, PassedOver, IsRequest, Records
<1>3. /\ Kept /\ Grown(1)
      /\ m.id # NoRequest => Done(m.isolate, m.id) = {} /\ Done(m.isolate, m.id)' = {did}
      /\ \A a \in Isolates : a # m.isolate => handled'[a] = handled[a]
  <2>1. TypeOK /\ OrderIsKept
    BY DEF IInv
  <2>2. /\ Kept /\ \A d \in Nat : d >= 1 => Grown(d)
        /\ m.id # NoRequest => Done(m.isolate, m.id) = {} /\ Done(m.isolate, m.id)' = {did}
        /\ \A a \in Isolates : a # m.isolate => handled'[a] = handled[a]
    BY <1>1, <1>2, <2>1, RecordsOne
  <2> QED
    BY <2>2
<1>4. CASE i = m.isolate /\ r = m.id
  <2>1. m.id # NoRequest
    BY <1>2, <1>4, Fields
  <2>2. Handlings(i, r) = {} /\ Handlings(i, r)' # {}
    BY <1>3, <1>4, <2>1, HandlingsAreDeeds
  <2>3. ASSUME NEW g \in Handlings(i, r)', NEW h \in Handlings(i, r)' PROVE g = h
    BY <1>3, <1>4, <2>2, <2>3 DEF Handlings, Grown
  <2>4. r < nextRequestId[i]
    BY <1>1, <1>4, <2>1 DEF IInv, MessagesAreNumbered, Numbered
  <2>5. Request(i, r)!Handle
    BY <1>2, <1>4, <2>1, <2>2, <2>3, <2>4 DEF Request!Handle
  <2> QED
    BY <2>5 DEF Lives, Request!Next
<1>5. CASE ~(i = m.isolate /\ r = m.id)
  <2>1. Handlings(i, r)' = Handlings(i, r)
    <3>1. ASSUME NEW k
          PROVE  k \in DOMAIN handled'[i] /\ handled'[i][k].id = r
                   <=> k \in DOMAIN handled[i] /\ handled[i][k].id = r
      BY <1>1, <1>3, <1>5 DEF Kept, Grown, WayOf
    <3>2. {k \in DOMAIN handled'[i] : handled'[i][k].id = r}
            = {k \in DOMAIN handled[i] : handled[i][k].id = r}
      BY <3>1
    <3>3. \A k \in DOMAIN handled[i] : handled'[i][k] = handled[i][k]
      BY <1>3 DEF Kept
    <3> QED
      BY <3>2, <3>3 DEF Handlings
  <2>2. CASE (i \in destroyed') = (i \in destroyed)
    BY <2>1, <2>2 DEF Lives, Request!vars
  <2>3. CASE i \in destroyed' /\ i \notin destroyed
    <3>1. Request(i, r)!Destroy
      BY <2>1, <2>3 DEF Request!Destroy
    <3> QED
      BY <3>1 DEF Lives, Request!Next
  <2> QED
    BY <2>2, <2>3
<1> QED
  BY <1>4, <1>5

\* Every step is one of the life of every request, or none.
LEMMA LifeStep ==
  ASSUME IInv, [Next]_vars, NEW i \in Isolates, NEW r \in RequestIds
  PROVE  Lives(i, r)
<1>1. CASE Dispatch
  <2>1. CASE SkipMessage
    BY <2>1, NoLifeStep DEF SkipMessage, workerVars
  <2>2. ASSUME HandlersDestroy PROVE destroyed \subseteq destroyed'
    BY <2>2, HandlersDestroyIsolates DEF IInv
  <2>3. CASE DispatchEvent
    BY <2>2, <2>3, DispatchLife DEF DispatchEvent, workerVars, Deed
  <2>4. CASE DispatchRequest
    BY <2>2, <2>4, DispatchLife DEF DispatchRequest, workerVars, Deed
  <2>5. CASE DispatchThrows
    BY <2>2, <2>5, DispatchLife DEF DispatchThrows, workerVars, Deed
  <2>6. CASE DispatchUnknown
    BY <2>6, DispatchLife DEF DispatchUnknown, workerVars, Deed
  <2>7. CASE DispatchUnanswerable
    BY <2>7, DispatchLife DEF DispatchUnanswerable, workerVars, channelVars, Deed
  <2> QED
    BY <1>1, <2>1, <2>3, <2>4, <2>5, <2>6, <2>7 DEF Dispatch
<1>2. ASSUME NEW w \in Isolates, DestroyIsolate(w) PROVE Lives(i, r)
  <2>1. /\ UNCHANGED <<nextRequestId, settled, handled>>
        /\ destroyed' = destroyed \cup {w} /\ w \notin destroyed
    <3>1. {<<w>>[k] : k \in DOMAIN <<w>>} = {w}
      OBVIOUS
    <3> QED
      BY <1>2, <3>1 DEF DestroyIsolate, MarkDestroyed, workerVars
  <2>2. Handlings(i, r)' = Handlings(i, r)
    BY <2>1 DEF Handlings
  <2>3. CASE i = w
    <3>1. Request(i, r)!Destroy
      BY <2>1, <2>2, <2>3 DEF Request!Destroy
    <3> QED
      BY <3>1 DEF Lives, Request!Next
  <2>4. CASE i # w
    BY <2>1, <2>2, <2>4 DEF Lives, Request!vars
  <2> QED
    BY <2>3, <2>4
<1>3. CASE Main
  <2>1. CASE Poll
    BY <2>1, NoLifeStep DEF Poll, workerVars
  <2>2. ASSUME NEW c \in working, Reply(c) PROVE Lives(i, r)
    BY <2>2, NoLifeStep DEF Reply, workerVars
  <2>3. CASE DispatchSystemEvent
    BY <2>3, NoLifeStep DEF DispatchSystemEvent, workerVars
  <2> QED
    BY <1>1, <1>2, <1>3, <2>1, <2>2, <2>3 DEF Main
<1>4. ASSUME NEW w \in Isolates, Worker(w) PROVE Lives(i, r)
  <2>1. CASE SendEvent(w)
    BY <2>1, NoLifeStep DEF SendEvent, mainVars
  <2>2. CASE SendRequest(w)
    BY <2>2, SendRequestLife DEF IInv
  <2>3. CASE DropWorker(w)
    BY <2>3, NoLifeStep DEF DropWorker, mainVars
  <2> QED
    BY <1>4, <2>1, <2>2, <2>3, ReceiveResponseLife DEF Worker
<1>5. CASE UNCHANGED vars
  BY <1>5, NoLifeStep DEF vars, workerVars, mainVars
<1> QED
  BY <1>3, <1>4, <1>5 DEF Next

\* Messaging implements RequestLife for every request of every worker: its handler
\* is called once at most, never after the isolate is destroyed, and its promise is
\* settled once at most, by what that handler did.
THEOREM RequestLifeIsImplemented == Spec => ImplementsRequestLife
<1>1. IInv /\ [Next]_vars =>
        [\A i \in Isolates, r \in RequestIds :
           Request(i, r)!Next \/ UNCHANGED Request(i, r)!vars]_vars
  BY LifeStep DEF Lives
<1> QED
  BY <1>1, LifeInit, Invariance, PTL DEF Spec, ImplementsRequestLife

=============================================================================
