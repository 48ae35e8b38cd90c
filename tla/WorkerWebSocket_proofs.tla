------------------------- MODULE WorkerWebSocket_proofs -------------------------
(***************************************************************************)
(* Proofs about WorkerWebSocket, for any sockets and bounds.               *)
(***************************************************************************)
EXTENDS WorkerWebSocket, FiniteSetTheorems, TLAPS

-----------------------------------------------------------------------------
(* The channels.                                                           *)

\* Channel p is q with m as its last element.
Gains(q, p, m) ==
  \E l \in Nat \ {0} :
    /\ l \in DOMAIN p /\ p[l] = m
    /\ \A k \in DOMAIN q : k \in DOMAIN p /\ k < l /\ p[k] = q[k]
    /\ \A k \in DOMAIN p : k \in DOMAIN q \/ k = l

\* Channel p is q without its first element.
Loses(q, p) ==
  /\ \A k \in DOMAIN p : k \in Nat /\ k >= 1 /\ k + 1 \in DOMAIN q /\ p[k] = q[k + 1]
  /\ \A k \in DOMAIN q : k = 1 \/ (k - 1 \in DOMAIN p /\ p[k - 1] = q[k])

\* Appending gains one message at the end.
LEMMA AppendGains ==
  ASSUME NEW S, NEW q \in Seq(S), NEW m \in S
  PROVE  Append(q, m) \in Seq(S) /\ Gains(q, Append(q, m), m)
<1>1. /\ Append(q, m) \in Seq(S) /\ DOMAIN Append(q, m) = 1 .. Len(q) + 1
      /\ DOMAIN q = 1 .. Len(q) /\ Len(q) \in Nat /\ Append(q, m)[Len(q) + 1] = m
      /\ \A k \in 1 .. Len(q) : Append(q, m)[k] = q[k]
  OBVIOUS
<1>2. PICK l \in Nat \ {0} : l = Len(q) + 1
  BY <1>1
<1>3. l \in DOMAIN Append(q, m) /\ Append(q, m)[l] = m
  BY <1>1, <1>2
<1>4. \A k \in DOMAIN q : k \in DOMAIN Append(q, m) /\ k < l /\ Append(q, m)[k] = q[k]
  BY <1>1, <1>2
<1>5. \A k \in DOMAIN Append(q, m) : k \in DOMAIN q \/ k = l
  BY <1>1, <1>2
<1> QED
  BY <1>1, <1>3, <1>4, <1>5 DEF Gains

\* The tail of a channel that is not empty has lost its first message.
LEMMA TailLoses ==
  ASSUME NEW S, NEW q \in Seq(S), q # <<>>
  PROVE  /\ Tail(q) \in Seq(S) /\ Loses(q, Tail(q))
         /\ 1 \in DOMAIN q /\ Head(q) = q[1] /\ Head(q) \in S
<1>1. /\ Tail(q) \in Seq(S) /\ DOMAIN Tail(q) = 1 .. Len(q) - 1
      /\ DOMAIN q = 1 .. Len(q) /\ Len(q) \in Nat /\ Len(q) >= 1
      /\ \A k \in 1 .. Len(q) - 1 : Tail(q)[k] = q[k + 1]
      /\ Head(q) = q[1] /\ q[1] \in S
  OBVIOUS
<1>2. 1 \in DOMAIN q
  BY <1>1
<1>3. \A k \in DOMAIN Tail(q) : /\ k \in Nat /\ k >= 1 /\ k + 1 \in DOMAIN q
                                /\ Tail(q)[k] = q[k + 1]
  BY <1>1
<1>4. ASSUME NEW k \in DOMAIN q, k # 1
      PROVE  k - 1 \in DOMAIN Tail(q) /\ Tail(q)[k - 1] = q[k]
  <2>1. k - 1 \in 1 .. Len(q) - 1 /\ (k - 1) + 1 = k
    BY <1>1, <1>4
  <2> QED
    BY <1>1, <2>1
<1> QED
  BY <1>1, <1>2, <1>3, <1>4 DEF Loses

\* The fields of a message that the worker has posted.
LEMMA PostFields ==
  ASSUME TypeOK, NEW k \in DOMAIN toHost
  PROVE  /\ k \in Nat /\ toHost[k] \in ToHost /\ toHost[k].conn \in Sockets
         /\ toHost[k].event \in {"open", "send", "close"}
<1>1. toHost \in Seq(ToHost)
  BY DEF TypeOK
<1>2. k \in Nat /\ toHost[k] \in ToHost
  BY <1>1
<1> QED
  BY <1>2 DEF ToHost

\* The fields of an event that is under way to the worker.
LEMMA EventFields ==
  ASSUME TypeOK, NEW k \in DOMAIN toWorker
  PROVE  /\ k \in Nat /\ toWorker[k] \in ToWorker /\ toWorker[k].conn \in Sockets
         /\ toWorker[k].event \in {"open", "message", "close", "error"}
         /\ toWorker[k].n \in 0 .. MaxMessages /\ toWorker[k].n \in Nat
<1>1. toWorker \in Seq(ToWorker)
  BY DEF TypeOK
<1>2. k \in Nat /\ toWorker[k] \in ToWorker
  BY <1>1
<1> QED
  BY <1>2, ConstantsAssumption DEF ToWorker

\* No socket was sent more messages than all of them.
LEMMA ToldIsCounted ==
  ASSUME TypeOK, NEW s \in Sockets
  PROVE  told[s] \in Nat /\ Cardinality(Told) \in Nat /\ told[s] <= Cardinality(Told)
<1> DEFINE f == [n \in 1 .. told[s] |-> <<s, n>>]
<1>1. told \in [Sockets -> 0 .. MaxMessages] /\ told[s] \in 0 .. MaxMessages /\ MaxMessages \in Nat
  BY ConstantsAssumption DEF TypeOK
<1>2. IsFiniteSet(Told)
  <2>1. IsFiniteSet(1 .. MaxMessages)
    BY <1>1, FS_Interval
  <2>2. IsFiniteSet(Sockets \X (1 .. MaxMessages))
    BY <2>1, ConstantsAssumption, FS_Product
  <2>3. Told \in SUBSET (Sockets \X (1 .. MaxMessages))
    BY DEF Told
  <2> QED
    BY <2>2, <2>3, FS_Subset
<1>3. f \in Injection(1 .. told[s], Told)
  <2>1. \A n \in 1 .. told[s] : <<s, n>> \in Told
    <3> SUFFICES ASSUME NEW n \in 1 .. told[s] PROVE <<s, n>> \in Told
      OBVIOUS
    <3>1. n \in 1 .. MaxMessages /\ n <= told[s]
      BY <1>1
    <3> QED
      BY <3>1 DEF Told
  <2>2. \A a, b \in 1 .. told[s] : f[a] = f[b] => a = b
    OBVIOUS
  <2> QED
    BY <2>1, <2>2 DEF Injection, IsInjective
<1>4. Cardinality(1 .. told[s]) <= Cardinality(Told)
  <2> HIDE DEF f
  <2> QED
    BY <1>2, <1>3, FS_Injection
<1>5. Cardinality(1 .. told[s]) = told[s]
  BY <1>1, FS_Interval
<1>6. Cardinality(Told) \in Nat
  BY <1>2, FS_CardinalityType
<1> QED
  BY <1>1, <1>4, <1>5, <1>6

-----------------------------------------------------------------------------
(* How the order of what the worker has posted is kept.                    *)

LEMMA PostKeepsPosts ==
  ASSUME TypeOK, PostsAreInOrder, NEW m \in ToHost, Gains(toHost, toHost', m),
         connection' = connection, closeCalled \subseteq closeCalled',
         \A w \in Sockets : readyState[w] # "none" => readyState'[w] # "none",
         m.event = "open" => /\ connection[m.conn] = "none"
                             /\ readyState[m.conn] = "none" /\ readyState'[m.conn] # "none",
         m.event = "send" => Excused(m) \/ connection[m.conn] \in {"open", "gone"},
         m.event = "send" /\ m.conn \in closeCalled => Excused(m),
         m.event = "close" => m.conn \in closeCalled'
  PROVE  PostsAreInOrder'
<1>1. PICK l \in Nat \ {0} :
        /\ l \in DOMAIN toHost' /\ toHost'[l] = m
        /\ \A k \in DOMAIN toHost : k \in DOMAIN toHost' /\ k < l /\ toHost'[k] = toHost[k]
        /\ \A k \in DOMAIN toHost' : k \in DOMAIN toHost \/ k = l
  BY DEF Gains
<1> SUFFICES ASSUME NEW k \in DOMAIN toHost', NEW s \in Sockets, s = toHost'[k].conn
             PROVE  /\ toHost'[k].event = "open" =>
                         /\ connection[s] = "none" /\ readyState'[s] # "none"
                         /\ \A j \in DOMAIN toHost' :
                              toHost'[j].event = "open" /\ toHost'[j].conn = s => j = k
                    /\ toHost'[k].event = "send" /\ ~Excused(toHost'[k]) =>
                         connection[s] \in {"open", "gone"}
                    /\ toHost'[k].event = "close" =>
                         /\ s \in closeCalled'
                         /\ \A j \in DOMAIN toHost' :
                              j > k /\ toHost'[j].event = "send" /\ toHost'[j].conn = s =>
                                Excused(toHost'[j])
  <2>1. \A k \in DOMAIN toHost' : toHost'[k].conn \in Sockets
    BY <1>1, PostFields DEF ToHost
  <2> QED
    BY <2>1 DEF PostsAreInOrder
<1>2. CASE k \in DOMAIN toHost
  <2>1. /\ toHost[k] = toHost'[k] /\ k < l /\ k \in Nat
        /\ toHost[k].event = "open" =>
             /\ connection[s] = "none" /\ readyState[s] # "none"
             /\ \A j \in DOMAIN toHost :
                  toHost[j].event = "open" /\ toHost[j].conn = s => j = k
        /\ toHost[k].event = "send" /\ ~Excused(toHost[k]) => connection[s] \in {"open", "gone"}
        /\ toHost[k].event = "close" =>
             /\ s \in closeCalled
             /\ \A j \in DOMAIN toHost :
                  j > k /\ toHost[j].event = "send" /\ toHost[j].conn = s => Excused(toHost[j])
    BY <1>1, <1>2, PostFields DEF PostsAreInOrder
  <2>2. ASSUME toHost'[k].event = "open", NEW j \in DOMAIN toHost',
               toHost'[j].event = "open", toHost'[j].conn = s
        PROVE  j = k
    BY <1>1, <2>1, <2>2
  <2>3. ASSUME toHost'[k].event = "close", NEW j \in DOMAIN toHost', j > k,
               toHost'[j].event = "send", toHost'[j].conn = s
        PROVE  Excused(toHost'[j])
    BY <1>1, <2>1, <2>3
  <2> QED
    BY <2>1, <2>2, <2>3
<1>3. CASE k = l
  <2>1. ASSUME m.event = "open", NEW j \in DOMAIN toHost,
               toHost[j].event = "open", toHost[j].conn = s
        PROVE  FALSE
    BY <1>1, <1>3, <2>1 DEF PostsAreInOrder
  <2>2. \A j \in DOMAIN toHost' : ~(j > k)
    <3>1. \A j \in DOMAIN toHost : j \in Nat
      BY PostFields
    <3> QED
      BY <1>1, <1>3, <3>1
  <2> QED
    BY <1>1, <1>3, <2>1, <2>2
<1> QED
  BY <1>1, <1>2, <1>3

\* Taking a post keeps the others in order when their sockets stay fit for them.
LEMMA TakeKeepsPosts ==
  ASSUME TypeOK, PostsAreInOrder, Loses(toHost, toHost'), UNCHANGED <<closeCalled, readyState>>,
         \A k \in DOMAIN toHost : k # 1 =>
           /\ toHost[k].event = "open" => connection'[toHost[k].conn] = "none"
           /\ toHost[k].event = "send" /\ ~Excused(toHost[k]) =>
                connection'[toHost[k].conn] \in {"open", "gone"}
  PROVE  PostsAreInOrder'
<1>1. \A k \in DOMAIN toHost' : /\ k \in Nat /\ k >= 1 /\ k + 1 \in DOMAIN toHost
                                /\ toHost'[k] = toHost[k + 1]
  BY DEF Loses
<1> SUFFICES ASSUME NEW k \in DOMAIN toHost', NEW s, s = toHost'[k].conn
             PROVE  /\ toHost'[k].event = "open" =>
                         /\ connection'[s] = "none" /\ readyState[s] # "none"
                         /\ \A j \in DOMAIN toHost' :
                              toHost'[j].event = "open" /\ toHost'[j].conn = s => j = k
                    /\ toHost'[k].event = "send" /\ ~Excused(toHost'[k]) =>
                         connection'[s] \in {"open", "gone"}
                    /\ toHost'[k].event = "close" =>
                         /\ s \in closeCalled
                         /\ \A j \in DOMAIN toHost' :
                              j > k /\ toHost'[j].event = "send" /\ toHost'[j].conn = s =>
                                Excused(toHost'[j])
  BY DEF PostsAreInOrder
<1>2. /\ k \in Nat /\ k + 1 \in DOMAIN toHost /\ toHost'[k] = toHost[k + 1] /\ k + 1 # 1
      /\ s = toHost[k + 1].conn
  BY <1>1
<1>3. /\ toHost[k + 1].event = "open" =>
           /\ readyState[s] # "none"
           /\ \A j \in DOMAIN toHost :
                toHost[j].event = "open" /\ toHost[j].conn = s => j = k + 1
      /\ toHost[k + 1].event = "close" =>
           /\ s \in closeCalled
           /\ \A j \in DOMAIN toHost :
                j > k + 1 /\ toHost[j].event = "send" /\ toHost[j].conn = s => Excused(toHost[j])
  BY <1>2 DEF PostsAreInOrder
<1>4. ASSUME toHost'[k].event = "open", NEW j \in DOMAIN toHost',
             toHost'[j].event = "open", toHost'[j].conn = s
      PROVE  j = k
  <2>1. j \in Nat /\ j + 1 = k + 1
    BY <1>1, <1>2, <1>3, <1>4
  <2> QED
    BY <1>2, <2>1
<1>5. ASSUME toHost'[k].event = "close", NEW j \in DOMAIN toHost', j > k,
             toHost'[j].event = "send", toHost'[j].conn = s
      PROVE  Excused(toHost'[j])
  <2>1. j \in Nat /\ j + 1 > k + 1
    BY <1>1, <1>2, <1>5
  <2> QED
    BY <1>1, <1>2, <1>3, <1>5, <2>1
<1> QED
  BY <1>2, <1>3, <1>4, <1>5

\* Whatever else happens: a connection that is there stays, or is gone.
LEMMA PostsStayInOrder ==
  ASSUME TypeOK, PostsAreInOrder, toHost' = toHost, closeCalled' = closeCalled,
         \A s \in Sockets :
           /\ readyState[s] # "none" => readyState'[s] # "none"
           /\ connection[s] = "none" => connection'[s] = "none"
           /\ connection[s] \in {"open", "gone"} => connection'[s] \in {"open", "gone"}
  PROVE  PostsAreInOrder'
<1> SUFFICES ASSUME NEW k \in DOMAIN toHost, NEW s \in Sockets, s = toHost[k].conn
             PROVE  /\ toHost[k].event = "open" =>
                         /\ connection'[s] = "none" /\ readyState'[s] # "none"
                         /\ \A j \in DOMAIN toHost :
                              toHost[j].event = "open" /\ toHost[j].conn = s => j = k
                    /\ toHost[k].event = "send" /\ ~Excused(toHost[k]) =>
                         connection'[s] \in {"open", "gone"}
                    /\ toHost[k].event = "close" =>
                         /\ s \in closeCalled
                         /\ \A j \in DOMAIN toHost :
                              j > k /\ toHost[j].event = "send" /\ toHost[j].conn = s =>
                                Excused(toHost[j])
  BY PostFields DEF PostsAreInOrder
<1> QED
  BY DEF PostsAreInOrder

-----------------------------------------------------------------------------
(* How the order of what the gateway has posted is kept.                   *)

\* The connection has an event to report.
LEMMA NotifyKeepsEvents ==
  ASSUME TypeOK, EventsAreInOrder, NEW m \in ToWorker, Gains(toWorker, toWorker', m),
         readyState' = readyState,
         \A w \in Sockets : w # m.conn => connection'[w] = connection[w],
         connection[m.conn] \notin {"refused", "gone"},
         IF m.event = "error" THEN connection[m.conn] = "none" /\ connection'[m.conn] = "refused"
                              ELSE connection'[m.conn] \in Made,
         m.event = "open" => /\ connection[m.conn] = "connecting"
                             /\ readyState[m.conn] \in {"CONNECTING", "CLOSING"},
         m.event = "message" /\ readyState[m.conn] = "CONNECTING" => OnTheWay("open", m.conn) # {},
         m.event = "close" => connection'[m.conn] = "gone"
  PROVE  EventsAreInOrder'
<1>1. PICK l \in Nat \ {0} :
        /\ l \in DOMAIN toWorker' /\ toWorker'[l] = m
        /\ \A k \in DOMAIN toWorker : k \in DOMAIN toWorker' /\ k < l /\ toWorker'[k] = toWorker[k]
        /\ \A k \in DOMAIN toWorker' : k \in DOMAIN toWorker \/ k = l
  BY DEF Gains
<1> SUFFICES ASSUME NEW k \in DOMAIN toWorker', NEW s \in Sockets, s = toWorker'[k].conn
             PROVE  /\ connection'[s] \in IF toWorker'[k].event = "error" THEN {"refused"} ELSE Made
                    /\ toWorker'[k].event = "open" =>
                         /\ readyState[s] \in {"CONNECTING", "CLOSING"}
                         /\ \A j \in DOMAIN toWorker' :
                              toWorker'[j].conn = s =>
                                j = k \/ (j > k /\ toWorker'[j].event # "open")
                    /\ toWorker'[k].event = "message" /\ readyState[s] = "CONNECTING" =>
                         \E j \in OnTheWay("open", s)' : j < k
                    /\ toWorker'[k].event = "close" =>
                         /\ connection'[s] = "gone"
                         /\ \A j \in DOMAIN toWorker' : j > k => toWorker'[j].conn # s
  <2>1. \A k \in DOMAIN toWorker' : toWorker'[k].conn \in Sockets
    BY <1>1, EventFields DEF ToWorker
  <2> QED
    BY <2>1 DEF EventsAreInOrder, OnTheWay
<1>2. \A w : \A j \in OnTheWay("open", w) : j \in OnTheWay("open", w)' /\ j < l
  BY <1>1 DEF OnTheWay
<1>3. ASSUME NEW j \in DOMAIN toWorker, toWorker[j].conn = m.conn
      PROVE  m.event \notin {"open", "error"} /\ connection[m.conn] \in Made
  <2>1. connection[m.conn] \in IF toWorker[j].event = "error" THEN {"refused"} ELSE Made
    BY <1>3 DEF EventsAreInOrder
  <2> QED
    BY <2>1 DEF Made
<1>4. CASE k \in DOMAIN toWorker
  <2>1. /\ toWorker'[k] = toWorker[k] /\ k < l /\ s = toWorker[k].conn
        /\ connection[s] \in IF toWorker[k].event = "error" THEN {"refused"} ELSE Made
        /\ toWorker[k].event = "open" =>
             /\ readyState[s] \in {"CONNECTING", "CLOSING"}
             /\ \A j \in DOMAIN toWorker :
                  toWorker[j].conn = s => j = k \/ (j > k /\ toWorker[j].event # "open")
        /\ toWorker[k].event = "message" /\ readyState[s] = "CONNECTING" =>
             \E j \in OnTheWay("open", s) : j < k
        /\ toWorker[k].event = "close" =>
             /\ connection[s] = "gone"
             /\ \A j \in DOMAIN toWorker : j > k => toWorker[j].conn # s
    BY <1>1, <1>4 DEF EventsAreInOrder
  <2>2. connection'[s] \in IF toWorker'[k].event = "error" THEN {"refused"} ELSE Made
    BY <1>3, <1>4, <2>1
  <2>3. ASSUME toWorker'[k].event = "open", NEW j \in DOMAIN toWorker', toWorker'[j].conn = s
        PROVE  j = k \/ (j > k /\ toWorker'[j].event # "open")
    <3>1. CASE j \in DOMAIN toWorker
      BY <1>1, <2>1, <2>3, <3>1
    <3>2. CASE j = l
      <4>1. k \in Nat /\ l > k
        BY <1>4, <2>1, EventFields
      <4> QED
        BY <1>1, <1>3, <1>4, <2>1, <2>3, <3>2, <4>1
    <3> QED
      BY <1>1, <3>1, <3>2
  <2>4. toWorker'[k].event = "message" /\ readyState[s] = "CONNECTING" =>
          \E j \in OnTheWay("open", s)' : j < k
    BY <1>2, <2>1
  <2>5. ASSUME toWorker'[k].event = "close"
        PROVE  /\ connection'[s] = "gone"
               /\ \A j \in DOMAIN toWorker' : j > k => toWorker'[j].conn # s
    <3>1. s # m.conn /\ connection'[s] = "gone"
      BY <2>1, <2>5
    <3> QED
      BY <1>1, <2>1, <2>5, <3>1
  <2> QED
    BY <2>1, <2>2, <2>3, <2>4, <2>5
<1>5. CASE k = l
  <2>1. s = m.conn /\ toWorker'[k] = m
    BY <1>1, <1>5
  <2>2. \A j \in DOMAIN toWorker' : ~(j > k)
    <3>1. \A j \in DOMAIN toWorker : j \in Nat
      BY EventFields
    <3> QED
      BY <1>1, <1>5, <3>1
  <2>3. m.event = "open" => \A j \in DOMAIN toWorker' : toWorker'[j].conn = s => j = k
    BY <1>1, <1>3, <1>5, <2>1
  <2>4. m.event = "message" /\ readyState[s] = "CONNECTING" =>
          \E j \in OnTheWay("open", s)' : j < k
    BY <1>2, <1>5, <2>1
  <2> QED
    BY <2>1, <2>2, <2>3, <2>4
<1> QED
  BY <1>1, <1>4, <1>5

\* The worker takes an event that opens or closes its socket, or leaves it as it is.
LEMMA TakeKeepsEvents ==
  ASSUME TypeOK, EventsAreInOrder, 1 \in DOMAIN toWorker, Loses(toWorker, toWorker'),
         connection' = connection,
         \A w \in Sockets : w # toWorker[1].conn => readyState'[w] = readyState[w],
         \/ toWorker[1].event # "open" /\ readyState' = readyState
         \/ readyState'[toWorker[1].conn] \in {"OPEN", "CLOSED"}
  PROVE  EventsAreInOrder'
<1>1. \A k \in DOMAIN toWorker' : /\ k \in Nat /\ k >= 1 /\ k + 1 \in DOMAIN toWorker
                                  /\ toWorker'[k] = toWorker[k + 1]
  BY DEF Loses
<1> SUFFICES ASSUME NEW k \in DOMAIN toWorker', NEW s \in Sockets, s = toWorker'[k].conn
             PROVE  /\ connection[s] \in IF toWorker'[k].event = "error" THEN {"refused"} ELSE Made
                    /\ toWorker'[k].event = "open" =>
                         /\ readyState'[s] \in {"CONNECTING", "CLOSING"}
                         /\ \A j \in DOMAIN toWorker' :
                              toWorker'[j].conn = s =>
                                j = k \/ (j > k /\ toWorker'[j].event # "open")
                    /\ toWorker'[k].event = "message" /\ readyState'[s] = "CONNECTING" =>
                         \E j \in OnTheWay("open", s)' : j < k
                    /\ toWorker'[k].event = "close" =>
                         /\ connection[s] = "gone"
                         /\ \A j \in DOMAIN toWorker' : j > k => toWorker'[j].conn # s
  <2>1. \A k \in DOMAIN toWorker' : toWorker'[k].conn \in Sockets
    BY <1>1, EventFields
  <2> QED
    BY <2>1 DEF EventsAreInOrder, OnTheWay
<1>2. /\ k \in Nat /\ k >= 1 /\ k + 1 \in DOMAIN toWorker /\ toWorker'[k] = toWorker[k + 1]
      /\ s = toWorker[k + 1].conn
  BY <1>1
<1>3. /\ connection[s] \in IF toWorker[k + 1].event = "error" THEN {"refused"} ELSE Made
      /\ toWorker[k + 1].event = "open" =>
           /\ readyState[s] \in {"CONNECTING", "CLOSING"}
           /\ \A j \in DOMAIN toWorker :
                toWorker[j].conn = s => j = k + 1 \/ (j > k + 1 /\ toWorker[j].event # "open")
      /\ toWorker[k + 1].event = "message" /\ readyState[s] = "CONNECTING" =>
           \E j \in OnTheWay("open", s) : j < k + 1
      /\ toWorker[k + 1].event = "close" =>
           /\ connection[s] = "gone"
           /\ \A j \in DOMAIN toWorker : j > k + 1 => toWorker[j].conn # s
  BY <1>2 DEF EventsAreInOrder
<1>4. ASSUME toWorker'[k].event = "open"
      PROVE  /\ readyState'[s] \in {"CONNECTING", "CLOSING"}
             /\ \A j \in DOMAIN toWorker' :
                  toWorker'[j].conn = s => j = k \/ (j > k /\ toWorker'[j].event # "open")
  <2>1. s # toWorker[1].conn
    <3>1. ~(1 = k + 1) /\ ~(1 > k + 1)
      BY <1>2
    <3> QED
      BY <1>2, <1>3, <1>4, <3>1
  <2>2. ASSUME NEW j \in DOMAIN toWorker', toWorker'[j].conn = s
        PROVE  j = k \/ (j > k /\ toWorker'[j].event # "open")
    <3>1. j + 1 = k + 1 \/ (j + 1 > k + 1 /\ toWorker'[j].event # "open")
      BY <1>1, <1>2, <1>3, <1>4, <2>2
    <3>2. j \in Nat
      BY <1>1
    <3> QED
      BY <1>2, <3>1, <3>2
  <2> QED
    BY <1>2, <1>3, <1>4, <2>1, <2>2
<1>5. ASSUME toWorker'[k].event = "message", readyState'[s] = "CONNECTING"
      PROVE  \E j \in OnTheWay("open", s)' : j < k
  <2>1. readyState[s] = "CONNECTING" /\ (toWorker[1].conn # s \/ toWorker[1].event # "open")
    BY <1>5
  <2>2. PICK j \in OnTheWay("open", s) : j < k + 1
    BY <1>2, <1>3, <1>5, <2>1
  <2>3. j \in DOMAIN toWorker /\ toWorker[j].event = "open" /\ toWorker[j].conn = s /\ j # 1
    BY <2>1, <2>2 DEF OnTheWay
  <2>4. j - 1 \in DOMAIN toWorker' /\ toWorker'[j - 1] = toWorker[j]
    BY <2>3 DEF Loses
  <2>5. j - 1 < k
    <3>1. j \in Nat
      BY <2>3, EventFields
    <3> QED
      BY <1>2, <2>2, <3>1
  <2>6. j - 1 \in OnTheWay("open", s)'
    BY <2>3, <2>4 DEF OnTheWay
  <2> QED
    BY <2>5, <2>6
<1>6. ASSUME toWorker'[k].event = "close", NEW j \in DOMAIN toWorker', j > k
      PROVE  toWorker'[j].conn # s
  <2>1. j + 1 > k + 1
    BY <1>1, <1>2, <1>6
  <2> QED
    BY <1>1, <1>2, <1>3, <1>6, <2>1
<1> QED
  BY <1>2, <1>3, <1>4, <1>5, <1>6

\* Whatever else happens: a connection that was made or refused remains that, and a
\* socket that waits for the 'open' goes on to.
LEMMA EventsStayInOrder ==
  ASSUME TypeOK, EventsAreInOrder, toWorker' = toWorker,
         \A s \in Sockets :
           /\ connection[s] \in Made => connection'[s] \in Made
           /\ connection[s] \in {"refused", "gone"} => connection'[s] = connection[s]
           /\ readyState[s] \in {"CONNECTING", "CLOSING"} =>
                readyState'[s] \in {"CONNECTING", "CLOSING"}
           /\ readyState'[s] = "CONNECTING" => readyState[s] = "CONNECTING" \/ connection[s] = "none"
  PROVE  EventsAreInOrder'
<1> SUFFICES ASSUME NEW k \in DOMAIN toWorker, NEW s \in Sockets, s = toWorker[k].conn
             PROVE  /\ connection'[s] \in IF toWorker[k].event = "error" THEN {"refused"} ELSE Made
                    /\ toWorker[k].event = "open" =>
                         /\ readyState'[s] \in {"CONNECTING", "CLOSING"}
                         /\ \A j \in DOMAIN toWorker :
                              toWorker[j].conn = s =>
                                j = k \/ (j > k /\ toWorker[j].event # "open")
                    /\ toWorker[k].event = "message" /\ readyState'[s] = "CONNECTING" =>
                         \E j \in OnTheWay("open", s)' : j < k
                    /\ toWorker[k].event = "close" =>
                         /\ connection'[s] = "gone"
                         /\ \A j \in DOMAIN toWorker : j > k => toWorker[j].conn # s
  BY EventFields DEF EventsAreInOrder, OnTheWay
<1>1. /\ connection[s] \in IF toWorker[k].event = "error" THEN {"refused"} ELSE Made
      /\ toWorker[k].event = "open" =>
           /\ readyState[s] \in {"CONNECTING", "CLOSING"}
           /\ \A j \in DOMAIN toWorker :
                toWorker[j].conn = s => j = k \/ (j > k /\ toWorker[j].event # "open")
      /\ toWorker[k].event = "message" /\ readyState[s] = "CONNECTING" =>
           \E j \in OnTheWay("open", s) : j < k
      /\ toWorker[k].event = "close" =>
           /\ connection[s] = "gone"
           /\ \A j \in DOMAIN toWorker : j > k => toWorker[j].conn # s
  BY DEF EventsAreInOrder
<1>2. OnTheWay("open", s)' = OnTheWay("open", s)
  BY DEF OnTheWay
<1>3. connection[s] # "none"
  BY <1>1 DEF Made
<1> QED
  BY <1>1, <1>2, <1>3

-----------------------------------------------------------------------------
(* How the numbers of the messages are kept.                               *)

\* What a channel that gains or loses an element has on the way.
LEMMA GainsOnTheWay ==
  ASSUME NEW m, Gains(toWorker, toWorker', m), NEW e, NEW w
  PROVE  \E l \in Nat :
           /\ toWorker'[l] = m
           /\ l \in OnTheWay(e, w)' <=> m.event = e /\ m.conn = w
           /\ \A k \in OnTheWay(e, w) : k \in OnTheWay(e, w)' /\ k < l /\ toWorker'[k] = toWorker[k]
           /\ \A k \in OnTheWay(e, w)' : k \in OnTheWay(e, w) \/ k = l
<1>1. PICK l \in Nat \ {0} :
        /\ l \in DOMAIN toWorker' /\ toWorker'[l] = m
        /\ \A k \in DOMAIN toWorker : k \in DOMAIN toWorker' /\ k < l /\ toWorker'[k] = toWorker[k]
        /\ \A k \in DOMAIN toWorker' : k \in DOMAIN toWorker \/ k = l
  BY DEF Gains
<1> QED
  BY <1>1 DEF OnTheWay

\* When the first event is taken, the others of a kind move up by one.
LEMMA LosesOnTheWay ==
  ASSUME Loses(toWorker, toWorker'), NEW e, NEW w
  PROVE  /\ \A k \in OnTheWay(e, w)' : /\ k \in Nat /\ k >= 1 /\ k + 1 \in OnTheWay(e, w)
                                       /\ toWorker'[k] = toWorker[k + 1]
         /\ \A k \in OnTheWay(e, w) : \/ k = 1
                                      \/ /\ k - 1 \in OnTheWay(e, w)'
                                         /\ toWorker'[k - 1] = toWorker[k]
  BY DEF Loses, OnTheWay

\* A message event under way carries a number.
LEMMA MessageFields ==
  ASSUME TypeOK, NEW w \in Sockets, NEW k \in OnTheWay("message", w)
  PROVE  k \in Nat /\ toWorker[k].n \in Nat
  BY EventFields DEF OnTheWay

\* What a socket has heard, and how many messages it was told of.
LEMMA HeardFields ==
  ASSUME TypeOK, NEW w \in Sockets
  PROVE  /\ heard[w] \in Seq(1 .. MaxMessages) /\ Len(heard[w]) \in Nat
         /\ DOMAIN heard[w] = 1 .. Len(heard[w]) /\ told[w] \in 0 .. MaxMessages
         /\ told[w] \in Nat /\ MaxMessages \in Nat
<1>1. heard[w] \in Seq(1 .. MaxMessages) /\ told[w] \in 0 .. MaxMessages /\ MaxMessages \in Nat
  BY ConstantsAssumption DEF TypeOK
<1> QED
  BY <1>1

\* The gateway numbers a message by how many its remote end has sent.
LEMMA NotifyKeepsNumbers ==
  ASSUME TypeOK, MessagesAreNumbered, MessagesHeardInOrder, NEW m \in ToWorker,
         Gains(toWorker, toWorker', m), UNCHANGED <<heard, closeCalled>>,
         \A w \in Sockets : IF m.event = "message" /\ m.conn = w
                              THEN m.n = told[w] + 1 /\ told'[w] = told[w] + 1
                              ELSE told'[w] = told[w]
  PROVE  MessagesAreNumbered' /\ MessagesHeardInOrder'
<1>1. ASSUME NEW w \in Sockets
      PROVE  /\ w \in closeCalled \/ Len(heard[w]) <= told'[w]
             /\ \A k \in OnTheWay("message", w)' : toWorker'[k].n \in 1 .. told'[w]
             /\ \A j, k \in OnTheWay("message", w)' : j < k => toWorker'[j].n < toWorker'[k].n
             /\ w \notin closeCalled =>
                  /\ \A k \in DOMAIN heard[w] : heard[w][k] = k
                  /\ \A k \in OnTheWay("message", w)' : toWorker'[k].n \notin DOMAIN heard[w]
                  /\ \A n \in 1 .. told'[w] : \/ n \in DOMAIN heard[w]
                                              \/ \E k \in OnTheWay("message", w)' : toWorker'[k].n = n
  <2>1. PICK l \in Nat :
          /\ toWorker'[l] = m
          /\ l \in OnTheWay("message", w)' <=> m.event = "message" /\ m.conn = w
          /\ \A k \in OnTheWay("message", w) :
               k \in OnTheWay("message", w)' /\ k < l /\ toWorker'[k] = toWorker[k]
          /\ \A k \in OnTheWay("message", w)' : k \in OnTheWay("message", w) \/ k = l
    BY GainsOnTheWay
  <2>2. /\ w \in closeCalled \/ Len(heard[w]) <= told[w]
        /\ \A k \in OnTheWay("message", w) : toWorker[k].n \in 1 .. told[w]
        /\ \A j, k \in OnTheWay("message", w) : j < k => toWorker[j].n < toWorker[k].n
    BY DEF MessagesAreNumbered
  <2>3. w \notin closeCalled =>
          /\ \A k \in DOMAIN heard[w] : heard[w][k] = k
          /\ \A k \in OnTheWay("message", w) : toWorker[k].n \notin DOMAIN heard[w]
          /\ \A n \in 1 .. told[w] : \/ n \in DOMAIN heard[w]
                                     \/ \E k \in OnTheWay("message", w) : toWorker[k].n = n
    BY DEF MessagesHeardInOrder
  <2>4. /\ told[w] \in Nat /\ Len(heard[w]) \in Nat /\ DOMAIN heard[w] = 1 .. Len(heard[w])
        /\ \A k \in OnTheWay("message", w) : k \in Nat /\ toWorker[k].n \in Nat
    BY HeardFields, MessageFields
  <2>5. CASE m.event = "message" /\ m.conn = w
    <3>1. m.n = told[w] + 1 /\ told'[w] = told[w] + 1 /\ l \in OnTheWay("message", w)'
      BY <2>1, <2>5
    <3>2. w \in closeCalled \/ Len(heard[w]) <= told'[w]
      BY <2>2, <2>4, <3>1
    <3>3. \A k \in OnTheWay("message", w)' : toWorker'[k].n \in 1 .. told'[w]
      BY <2>1, <2>2, <2>4, <3>1
    <3>4. ASSUME NEW j \in OnTheWay("message", w)', NEW k \in OnTheWay("message", w)', j < k
          PROVE  toWorker'[j].n < toWorker'[k].n
      <4>1. j \in OnTheWay("message", w)
        BY <2>1, <2>4, <3>4
      <4>2. CASE k = l
        BY <2>1, <2>2, <2>4, <3>1, <4>1, <4>2
      <4>3. CASE k \in OnTheWay("message", w)
        BY <2>1, <2>2, <3>4, <4>1, <4>3
      <4> QED
        BY <2>1, <4>2, <4>3
    <3>5. ASSUME w \notin closeCalled
          PROVE  /\ \A k \in DOMAIN heard[w] : heard[w][k] = k
                 /\ \A k \in OnTheWay("message", w)' : toWorker'[k].n \notin DOMAIN heard[w]
                 /\ \A n \in 1 .. told'[w] : \/ n \in DOMAIN heard[w]
                                             \/ \E k \in OnTheWay("message", w)' : toWorker'[k].n = n
      <4>1. \A k \in OnTheWay("message", w)' : toWorker'[k].n \notin DOMAIN heard[w]
        BY <2>1, <2>2, <2>3, <2>4, <3>1, <3>5
      <4>2. ASSUME NEW n \in 1 .. told'[w], n \notin DOMAIN heard[w]
            PROVE  \E k \in OnTheWay("message", w)' : toWorker'[k].n = n
        <5>1. n \in 1 .. told[w] \/ n = told[w] + 1
          BY <2>4, <3>1
        <5> QED
          BY <2>1, <2>3, <3>1, <3>5, <4>2, <5>1
      <4> QED
        BY <2>3, <3>5, <4>1, <4>2
    <3> QED
      BY <3>2, <3>3, <3>4, <3>5
  <2>6. CASE ~(m.event = "message" /\ m.conn = w)
    <3>1. /\ told'[w] = told[w] /\ OnTheWay("message", w)' = OnTheWay("message", w)
          /\ \A k \in OnTheWay("message", w) : toWorker'[k] = toWorker[k]
      BY <2>1, <2>6
    <3> QED
      BY <2>2, <2>3, <3>1
  <2> QED
    BY <2>5, <2>6
<1>2. MessagesAreNumbered'
  BY <1>1 DEF MessagesAreNumbered
<1>3. MessagesHeardInOrder'
  BY <1>1 DEF MessagesHeardInOrder
<1> QED
  BY <1>2, <1>3

\* A socket that has not been closed is called with the message next in number.
LEMMA TakeKeepsNumbers ==
  ASSUME TypeOK, MessagesAreNumbered, MessagesHeardInOrder, 1 \in DOMAIN toWorker,
         Loses(toWorker, toWorker'), UNCHANGED <<closeCalled, told>>,
         \A w \in Sockets \ closeCalled :
           heard'[w] = IF toWorker[1].event = "message" /\ toWorker[1].conn = w
                         THEN Append(heard[w], toWorker[1].n) ELSE heard[w]
  PROVE  MessagesAreNumbered' /\ MessagesHeardInOrder'
<1>1. ASSUME NEW w \in Sockets
      PROVE  /\ w \in closeCalled \/ Len(heard'[w]) <= told[w]
             /\ \A k \in OnTheWay("message", w)' : toWorker'[k].n \in 1 .. told[w]
             /\ \A j, k \in OnTheWay("message", w)' : j < k => toWorker'[j].n < toWorker'[k].n
             /\ w \notin closeCalled =>
                  /\ \A k \in DOMAIN heard'[w] : heard'[w][k] = k
                  /\ \A k \in OnTheWay("message", w)' : toWorker'[k].n \notin DOMAIN heard'[w]
                  /\ \A n \in 1 .. told[w] : \/ n \in DOMAIN heard'[w]
                                             \/ \E k \in OnTheWay("message", w)' : toWorker'[k].n = n
  <2>1. /\ \A k \in OnTheWay("message", w)' : /\ k \in Nat /\ k >= 1
                                              /\ k + 1 \in OnTheWay("message", w)
                                              /\ toWorker'[k] = toWorker[k + 1]
        /\ \A k \in OnTheWay("message", w) : \/ k = 1
                                             \/ /\ k - 1 \in OnTheWay("message", w)'
                                                /\ toWorker'[k - 1] = toWorker[k]
    BY LosesOnTheWay
  <2>2. /\ w \in closeCalled \/ Len(heard[w]) <= told[w]
        /\ \A k \in OnTheWay("message", w) : toWorker[k].n \in 1 .. told[w]
        /\ \A j, k \in OnTheWay("message", w) : j < k => toWorker[j].n < toWorker[k].n
    BY DEF MessagesAreNumbered
  <2>3. w \notin closeCalled =>
          /\ \A k \in DOMAIN heard[w] : heard[w][k] = k
          /\ \A k \in OnTheWay("message", w) : toWorker[k].n \notin DOMAIN heard[w]
          /\ \A n \in 1 .. told[w] : \/ n \in DOMAIN heard[w]
                                     \/ \E k \in OnTheWay("message", w) : toWorker[k].n = n
    BY DEF MessagesHeardInOrder
  <2>4. /\ told[w] \in Nat /\ Len(heard[w]) \in Nat /\ DOMAIN heard[w] = 1 .. Len(heard[w])
        /\ heard[w] \in Seq(1 .. MaxMessages)
        /\ \A k \in OnTheWay("message", w) : k \in Nat /\ toWorker[k].n \in Nat
    BY HeardFields, MessageFields
  <2>5. \A k \in OnTheWay("message", w)' : toWorker'[k].n \in 1 .. told[w]
    BY <2>1, <2>2
  <2>6. ASSUME NEW j \in OnTheWay("message", w)', NEW k \in OnTheWay("message", w)', j < k
        PROVE  toWorker'[j].n < toWorker'[k].n
    <3>1. j + 1 < k + 1
      BY <2>1, <2>6
    <3> QED
      BY <2>1, <2>2, <3>1
  <2>7. CASE w \notin closeCalled /\ toWorker[1].event = "message" /\ toWorker[1].conn = w
    <3>1. 1 \in OnTheWay("message", w) /\ heard'[w] = Append(heard[w], toWorker[1].n)
      BY <2>7 DEF OnTheWay
    <3>2. /\ toWorker[1].n \in Nat /\ toWorker[1].n >= 1 /\ toWorker[1].n <= told[w]
          /\ toWorker[1].n \notin 1 .. Len(heard[w])
      BY <2>2, <2>3, <2>4, <2>7, <3>1
    <3>3. Len(heard[w]) + 1 \in 1 .. told[w] /\ Len(heard[w]) + 1 \notin DOMAIN heard[w]
      BY <2>4, <3>2
    <3>4. PICK k \in OnTheWay("message", w) : toWorker[k].n = Len(heard[w]) + 1
      BY <2>3, <2>7, <3>3
    <3>5. toWorker[1].n = Len(heard[w]) + 1
      <4>1. CASE k = 1
        BY <3>4, <4>1
      <4>2. CASE k # 1
        <5>1. k - 1 \in OnTheWay("message", w)' /\ k \in Nat
          BY <2>1, <2>4, <4>2
        <5>2. 1 < k
          BY <2>1, <5>1
        <5>3. toWorker[1].n < Len(heard[w]) + 1
          BY <2>2, <3>1, <3>4, <5>2
        <5> QED
          BY <2>4, <3>2, <5>3
      <4> QED
        BY <4>1, <4>2
    <3>6. /\ Len(heard'[w]) = Len(heard[w]) + 1 /\ DOMAIN heard'[w] = 1 .. Len(heard[w]) + 1
          /\ heard'[w][Len(heard[w]) + 1] = Len(heard[w]) + 1
          /\ \A k_1 \in 1 .. Len(heard[w]) : heard'[w][k_1] = heard[w][k_1]
      <4> DEFINE h == heard[w]
                 n == toWorker[1].n
      <4>1. n \in 1 .. MaxMessages
        BY <3>2, HeardFields
      <4>2. h \in Seq(1 .. MaxMessages) /\ heard'[w] = Append(h, n) /\ n = Len(h) + 1
        BY <2>4, <3>1, <3>5
      <4> HIDE DEF h, n
      <4>3. /\ Len(heard'[w]) = Len(h) + 1 /\ DOMAIN heard'[w] = 1 .. Len(h) + 1
            /\ heard'[w][Len(h) + 1] = n
            /\ \A k_1 \in 1 .. Len(h) : heard'[w][k_1] = h[k_1]
        BY <4>1, <4>2
      <4> QED
        BY <4>2, <4>3 DEF h
    <3>7. Len(heard'[w]) <= told[w]
      BY <2>4, <3>3, <3>6
    <3>8. \A j \in DOMAIN heard'[w] : heard'[w][j] = j
      BY <2>3, <2>4, <2>7, <3>6
    <3>9. ASSUME NEW j \in OnTheWay("message", w)'
          PROVE  toWorker'[j].n \notin DOMAIN heard'[w]
      <4>1. /\ j \in Nat /\ j >= 1 /\ j + 1 \in OnTheWay("message", w)
            /\ toWorker'[j] = toWorker[j + 1]
        BY <2>1
      <4>2. 1 < j + 1 /\ toWorker[j + 1].n \notin DOMAIN heard[w] /\ toWorker[j + 1].n \in Nat
        BY <2>3, <2>4, <2>7, <4>1
      <4>3. Len(heard[w]) + 1 < toWorker[j + 1].n
        BY <2>2, <3>1, <3>5, <4>1, <4>2
      <4> QED
        BY <2>4, <3>6, <4>1, <4>2, <4>3
    <3>10. ASSUME NEW n \in 1 .. told[w], n \notin DOMAIN heard'[w]
           PROVE  \E j \in OnTheWay("message", w)' : toWorker'[j].n = n
      <4>1. n # Len(heard[w]) + 1 /\ n \notin DOMAIN heard[w]
        BY <2>4, <3>6, <3>10
      <4>2. PICK j \in OnTheWay("message", w) : toWorker[j].n = n
        BY <2>3, <2>7, <4>1
      <4>3. j # 1
        BY <3>5, <4>1, <4>2
      <4> QED
        BY <2>1, <4>2, <4>3
    <3> QED
      BY <2>5, <2>6, <3>7, <3>8, <3>9, <3>10
  <2>8. CASE w \notin closeCalled /\ ~(toWorker[1].event = "message" /\ toWorker[1].conn = w)
    <3>1. heard'[w] = heard[w] /\ 1 \notin OnTheWay("message", w)
      BY <2>8 DEF OnTheWay
    <3>2. \A k \in OnTheWay("message", w)' : toWorker'[k].n \notin DOMAIN heard[w]
      BY <2>1, <2>3, <2>8
    <3>3. \A k \in OnTheWay("message", w) : /\ k - 1 \in OnTheWay("message", w)'
                                           /\ toWorker'[k - 1] = toWorker[k]
      BY <2>1, <3>1
    <3> QED
      BY <2>2, <2>3, <2>5, <2>6, <2>8, <3>1, <3>2, <3>3
  <2>9. CASE w \in closeCalled
    BY <2>5, <2>6, <2>9
  <2> QED
    BY <2>7, <2>8, <2>9
<1>2. MessagesAreNumbered'
  BY <1>1 DEF MessagesAreNumbered
<1>3. MessagesHeardInOrder'
  BY <1>1 DEF MessagesHeardInOrder
<1> QED
  BY <1>2, <1>3

\* A step that tells and delivers nothing keeps the numbering of the messages.
LEMMA NumbersStay ==
  ASSUME TypeOK, MessagesAreNumbered, MessagesHeardInOrder,
         UNCHANGED <<toWorker, told, heard>>, closeCalled \subseteq closeCalled'
  PROVE  MessagesAreNumbered' /\ MessagesHeardInOrder'
<1>1. \A w : OnTheWay("message", w)' = OnTheWay("message", w)
  BY DEF OnTheWay
<1>2. MessagesAreNumbered'
  BY <1>1 DEF MessagesAreNumbered
<1>3. MessagesHeardInOrder'
  BY <1>1 DEF MessagesHeardInOrder
<1> QED
  BY <1>2, <1>3

-----------------------------------------------------------------------------
(* Which events are on their way.                                          *)

\* No event is on its way to the socket.
Quiet(w) == \A k \in DOMAIN toWorker : toWorker[k].conn # w

\* A notification brings its own event on the way and no other.
LEMMA NotifyComes ==
  ASSUME NEW m, Gains(toWorker, toWorker', m), NEW w
  PROVE  /\ \A e : OnTheWay(e, w)' # {} <=> OnTheWay(e, w) # {} \/ (m.event = e /\ m.conn = w)
         /\ Quiet(w) /\ m.conn # w => Quiet(w)'
<1>1. ASSUME NEW e
      PROVE  OnTheWay(e, w)' # {} <=> OnTheWay(e, w) # {} \/ (m.event = e /\ m.conn = w)
  BY GainsOnTheWay
<1>2. Quiet(w) /\ m.conn # w => Quiet(w)'
  BY DEF Gains, Quiet
<1> QED
  BY <1>1, <1>2

\* Delivering an event takes no other event off the way.
LEMMA TakeComes ==
  ASSUME Loses(toWorker, toWorker'), NEW w
  PROVE  /\ \A e : OnTheWay(e, w) # {} => \/ OnTheWay(e, w)' # {}
                                          \/ toWorker[1].event = e /\ toWorker[1].conn = w
         /\ Quiet(w) => Quiet(w)'
<1>1. ASSUME NEW e, NEW k \in OnTheWay(e, w)
      PROVE  \/ OnTheWay(e, w)' # {}
             \/ toWorker[1].event = e /\ toWorker[1].conn = w
  <2>1. CASE k = 1
    BY <1>1, <2>1 DEF OnTheWay
  <2>2. CASE k # 1
    BY <1>1, <2>2, LosesOnTheWay
  <2> QED
    BY <2>1, <2>2
<1>2. Quiet(w) => Quiet(w)'
  BY DEF Loses, Quiet
<1> QED
  BY <1>1, <1>2

\* A channel that stays as it is has the same events on the way.
LEMMA SameComes ==
  ASSUME toWorker' = toWorker, NEW w
  PROVE  /\ \A e : OnTheWay(e, w)' = OnTheWay(e, w)
         /\ Quiet(w)' = Quiet(w)
BY DEF OnTheWay, Quiet

\* The states of one socket, and that they agree.
LEMMA StatesOf ==
  ASSUME TypeOK, StatesAgree, NEW w \in Sockets
  PROVE  /\ readyState[w] \in ReadyStates /\ connection[w] \in Connections
         /\ sends \in 0 .. MaxSends /\ sends \in Nat /\ MaxSends \in Nat
         /\ readyState[w] \notin {"none", "CLOSED"} => w \in registry
         /\ readyState[w] = "none" => connection[w] = "none"
         /\ readyState[w] = "OPEN" => connection[w] \in Made
         /\ readyState[w] = "CLOSING" => w \in closeCalled
         /\ readyState[w] = "CLOSED" => connection[w] = "gone" /\ Quiet(w)
         /\ connection[w] = "open" /\ readyState[w] = "CONNECTING" => OnTheWay("open", w) # {}
         /\ connection[w] = "gone" => readyState[w] = "CLOSED" \/ OnTheWay("close", w) # {}
         /\ \A late \in BOOLEAN :
              /\ blobs[w][late] \in 0 .. MaxSends /\ blobs[w][late] \in Nat
              /\ blobs[w][late] <= sends
              /\ blobs[w][late] > 0 => connection[w] \in Made
<1>1. /\ readyState[w] \in ReadyStates /\ connection[w] \in Connections
      /\ \A late \in BOOLEAN : blobs[w][late] \in 0 .. MaxSends
      /\ sends \in 0 .. MaxSends /\ MaxSends \in Nat
      /\ readyState[w] \notin {"none", "CLOSED"} => w \in registry
  BY ConstantsAssumption DEF TypeOK
<1>2. sends \in Nat /\ \A late \in BOOLEAN : blobs[w][late] \in Nat
  BY <1>1
<1> QED
  BY <1>1, <1>2 DEF StatesAgree, Quiet

\* When nothing more is lost and no connection returns, the account of lost sends stays.
LEMMA SendsStay ==
  ASSUME TypeOK, SendsArrive, lost' = lost,
         \A w \in Sockets : connection[w] = "gone" => connection'[w] = "gone"
  PROVE  SendsArrive'
<1>1. \A m \in lost : m.conn \in Sockets
  BY DEF TypeOK, ToHost
<1> QED
  BY <1>1 DEF SendsArrive

\* A post of the worker is a message more for the host.
LEMMA PostGains ==
  ASSUME TypeOK, NEW e \in {"open", "close"}, NEW s \in Sockets, Post(e, s)
  PROVE  LET m == [event |-> e, conn |-> s, data |-> "none", late |-> FALSE, overtaken |-> FALSE]
         IN  m \in ToHost /\ toHost' \in Seq(ToHost) /\ Gains(toHost, toHost', m)
<1> DEFINE m == [event |-> e, conn |-> s, data |-> "none", late |-> FALSE, overtaken |-> FALSE]
<1>1. m \in ToHost /\ toHost \in Seq(ToHost) /\ toHost' = Append(toHost, m)
  BY DEF TypeOK, ToHost, Data, Post
<1>2. toHost' \in Seq(ToHost) /\ Gains(toHost, toHost', m)
  <2> HIDE DEF m
  <2> QED
    BY <1>1, AppendGains
<1> QED
  BY <1>1, <1>2

\* So is the post of a send.  When close() has been called and send accepted a Blob, or
\* was itself late, the message is excused.
LEMMA SendGains ==
  ASSUME TypeOK, NEW s \in Sockets, NEW data \in {"text", "converted"}, NEW late \in BOOLEAN,
         s \in closeCalled => late \/ data = "converted",
         PostSend(s, data, late)
  PROVE  \E m \in ToHost : /\ m.event = "send" /\ m.conn = s
                           /\ s \in closeCalled => Excused(m)
                           /\ toHost' \in Seq(ToHost) /\ Gains(toHost, toHost', m)
<1> DEFINE m == [event |-> "send", conn |-> s, data |-> data, late |-> late,
                 overtaken |-> ~late /\ s \in closeCalled]
<1>1. m \in ToHost /\ toHost \in Seq(ToHost) /\ toHost' = Append(toHost, m)
  <2>1. (~late /\ s \in closeCalled) \in BOOLEAN
    OBVIOUS
  <2> QED
    BY <2>1 DEF TypeOK, ToHost, Data, PostSend
<1>2. s \in closeCalled => Excused(m)
  BY DEF Excused
<1>3. m.event = "send" /\ m.conn = s
  OBVIOUS
<1>4. toHost' \in Seq(ToHost) /\ Gains(toHost, toHost', m)
  <2> HIDE DEF m
  <2> QED
    BY <1>1, AppendGains
<1> HIDE DEF m
<1> QED
  BY <1>1, <1>2, <1>3, <1>4

\* A notification of the host is an event more for the worker.
LEMMA NotifyGains ==
  ASSUME TypeOK, NEW e \in {"open", "message", "close", "error"}, NEW s \in Sockets,
         Notify(e, s), e = "message" => told[s] < MaxMessages
  PROVE  LET m == [event |-> e, conn |-> s, n |-> IF e = "message" THEN told[s] + 1 ELSE 0]
         IN  m \in ToWorker /\ toWorker' \in Seq(ToWorker) /\ Gains(toWorker, toWorker', m)
<1> DEFINE m == [event |-> e, conn |-> s, n |-> IF e = "message" THEN told[s] + 1 ELSE 0]
<1>1. told[s] \in Nat /\ MaxMessages \in Nat
  BY HeardFields
<1>2. m.n \in 0 .. MaxMessages
  BY <1>1
<1>3. m \in ToWorker /\ toWorker \in Seq(ToWorker) /\ toWorker' = Append(toWorker, m)
  BY <1>2 DEF TypeOK, ToWorker, Notify
<1>4. toWorker' \in Seq(ToWorker) /\ Gains(toWorker, toWorker', m)
  <2> HIDE DEF m
  <2> QED
    BY <1>3, AppendGains
<1> QED
  BY <1>3, <1>4

\* The next event is well-formed and in its place.
LEMMA NextEvent ==
  ASSUME IInv, toWorker # <<>>, toWorker' = Tail(toWorker)
  PROVE  /\ toWorker' \in Seq(ToWorker) /\ Loses(toWorker, toWorker')
         /\ 1 \in DOMAIN toWorker /\ Head(toWorker) = toWorker[1]
         /\ toWorker[1].conn \in Sockets /\ toWorker[1].n \in Nat
         /\ toWorker[1].event \in {"open", "message", "close", "error"}
         /\ connection[toWorker[1].conn] \in
              IF toWorker[1].event = "error" THEN {"refused"} ELSE Made
         /\ readyState[toWorker[1].conn] # "CLOSED"
         /\ toWorker[1].event = "open" => readyState[toWorker[1].conn] \in {"CONNECTING", "CLOSING"}
         /\ toWorker[1].event = "message" => readyState[toWorker[1].conn] # "CONNECTING"
         /\ toWorker[1].event = "close" =>
              /\ connection[toWorker[1].conn] = "gone"
              /\ \A w \in Sockets : w = toWorker[1].conn => Quiet(w)'
<1>1. /\ toWorker' \in Seq(ToWorker) /\ Loses(toWorker, toWorker')
      /\ 1 \in DOMAIN toWorker /\ Head(toWorker) = toWorker[1]
  <2>1. toWorker \in Seq(ToWorker)
    BY DEF IInv, TypeOK
  <2> QED
    BY <2>1, TailLoses
<1>2. PICK w \in Sockets : w = toWorker[1].conn
  BY <1>1, EventFields DEF IInv
<1>3. /\ connection[w] \in IF toWorker[1].event = "error" THEN {"refused"} ELSE Made
      /\ toWorker[1].event = "open" => readyState[w] \in {"CONNECTING", "CLOSING"}
      /\ toWorker[1].event = "message" /\ readyState[w] = "CONNECTING" =>
           \E j \in OnTheWay("open", w) : j < 1
      /\ toWorker[1].event = "close" =>
           connection[w] = "gone" /\ \A j \in DOMAIN toWorker : j > 1 => toWorker[j].conn # w
  BY <1>1, <1>2 DEF IInv, EventsAreInOrder
<1>4. toWorker[1].event = "message" => readyState[w] # "CONNECTING"
  <2>1. \A j \in OnTheWay("open", w) : j \in Nat /\ j >= 1
    <3>1. toWorker \in Seq(ToWorker)
      BY DEF IInv, TypeOK
    <3> QED
      BY <3>1 DEF OnTheWay
  <2> QED
    BY <1>3, <2>1
<1>5. readyState[w] # "CLOSED"
  BY <1>1, <1>2, StatesOf DEF IInv, Quiet
<1>6. (\A j \in DOMAIN toWorker : j > 1 => toWorker[j].conn # w) => Quiet(w)'
  <2> SUFFICES ASSUME \A j \in DOMAIN toWorker : j > 1 => toWorker[j].conn # w,
                      NEW k \in DOMAIN toWorker'
               PROVE  toWorker'[k].conn # w
    BY DEF Quiet
  <2>1. k \in Nat /\ k >= 1 /\ k + 1 \in DOMAIN toWorker /\ toWorker'[k] = toWorker[k + 1]
    BY <1>1 DEF Loses
  <2>2. k + 1 > 1
    BY <2>1
  <2> QED
    BY <2>1, <2>2
<1>7. toWorker[1].event \in {"open", "message", "close", "error"} /\ toWorker[1].n \in Nat
  BY <1>1, EventFields DEF IInv
<1>8. toWorker[1].event = "close" => \A v \in Sockets : v = toWorker[1].conn => Quiet(v)'
  BY <1>2, <1>3, <1>6
<1> QED
  BY <1>1, <1>2, <1>3, <1>4, <1>5, <1>7, <1>8

-----------------------------------------------------------------------------
(* The worker's steps.                                                     *)

LEMMA ConstructStep ==
  ASSUME IInv, NEW s \in Sockets, Construct(s)
  PROVE  IInv'
<1> USE DEF IInv
<1> DEFINE m == [event |-> "open", conn |-> s, data |-> "none", late |-> FALSE,
                 overtaken |-> FALSE]
<1>1. m \in ToHost /\ toHost' \in Seq(ToHost) /\ Gains(toHost, toHost', m)
  BY PostGains DEF Construct
<1>2. /\ readyState[s] = "none" /\ connection[s] = "none"
      /\ UNCHANGED <<heard, closeCalled, sends, blobs, toWorker, connection, wsConnections, told, lost>>
      /\ registry' = registry \cup {s}
  BY StatesOf DEF Construct, Register, gatewayVars, Made
<1>3. \A w \in Sockets : readyState'[w] = IF w = s THEN "CONNECTING" ELSE readyState[w]
  BY DEF Construct, TypeOK
<1>4. TypeOK'
  <2>1. readyState' \in [Sockets -> ReadyStates]
    BY DEF Construct, TypeOK, ReadyStates
  <2> QED
    BY <1>1, <1>2, <1>3, <2>1 DEF TypeOK
<1>5. ConnectionsAreKnown'
  BY <1>2 DEF ConnectionsAreKnown
<1>6. PostsAreInOrder'
  BY <1>1, <1>2, <1>3, PostKeepsPosts
<1>7. EventsAreInOrder'
  BY <1>2, <1>3, EventsStayInOrder
<1>8. StatesAgree'
  BY <1>2, <1>3, StatesOf, SameComes DEF StatesAgree, Quiet
<1>9. MessagesAreNumbered' /\ MessagesHeardInOrder'
  BY <1>2, NumbersStay
<1>10. SendsArrive'
  BY <1>2, SendsStay
<1> QED
  BY <1>4, <1>5, <1>6, <1>7, <1>8, <1>9, <1>10

\* WebSocket.send of text or of a buffer.
LEMMA SendStep ==
  ASSUME IInv, NEW s \in Sockets, Send(s)
  PROVE  IInv'
<1> USE DEF IInv
<1>1. PICK m \in ToHost : /\ m.event = "send" /\ m.conn = s
                          /\ s \in closeCalled => Excused(m)
                          /\ toHost' \in Seq(ToHost) /\ Gains(toHost, toHost', m)
  <2> DEFINE l == s \in closeCalled
  <2>1. PICK data \in {"text", "converted"} : PostSend(s, data, l)
    BY DEF Send
  <2>2. l \in BOOLEAN /\ (s \in closeCalled => l \/ data = "converted")
    OBVIOUS
  <2> HIDE DEF l
  <2> QED
    BY <2>1, <2>2, SendGains
<1>2. /\ UNCHANGED <<readyState, registry, heard, closeCalled, blobs, toWorker,
                     connection, wsConnections, told, lost>>
      /\ sends' = sends + 1 /\ sends < MaxSends /\ connection[s] \in Made
  BY StatesOf DEF Send, MaySend, gatewayVars
<1>3. TypeOK'
  <2>1. sends' \in 0 .. MaxSends
    BY <1>2, StatesOf
  <2> QED
    BY <1>1, <1>2, <2>1 DEF TypeOK
<1>4. ConnectionsAreKnown'
  BY <1>2 DEF ConnectionsAreKnown
<1>5. s \in closeCalled \/ connection[s] \in {"open", "gone"}
  BY <1>2 DEF Made, ConnectionsAreKnown
<1>6. PostsAreInOrder'
  BY <1>1, <1>2, <1>5, PostKeepsPosts
<1>7. EventsAreInOrder'
  BY <1>2, EventsStayInOrder
<1>8. StatesAgree'
  <2>1. \A w \in Sockets : \A late \in BOOLEAN : blobs[w][late] <= sends'
    BY <1>2, StatesOf
  <2> QED
    BY <1>2, <2>1, StatesOf, SameComes DEF StatesAgree, Quiet
<1>9. MessagesAreNumbered' /\ MessagesHeardInOrder'
  BY <1>2, NumbersStay
<1>10. SendsArrive'
  BY <1>2, SendsStay
<1> QED
  BY <1>3, <1>4, <1>6, <1>7, <1>8, <1>9, <1>10

\* WebSocket.send of a Blob, which posts nothing before the bytes are read.
LEMMA SendBlobStep ==
  ASSUME IInv, NEW s \in Sockets, SendBlob(s)
  PROVE  IInv'
<1> USE DEF IInv
<1>1. /\ UNCHANGED <<readyState, registry, heard, closeCalled, toHost, toWorker,
                     connection, wsConnections, told, lost>>
      /\ sends' = sends + 1 /\ sends < MaxSends /\ connection[s] \in Made
  BY StatesOf DEF SendBlob, MaySend, gatewayVars
<1>2. PICK l \in BOOLEAN :
        \A w \in Sockets : \A late \in BOOLEAN :
          blobs'[w][late] = IF w = s /\ late = l THEN blobs[w][late] + 1 ELSE blobs[w][late]
  <2>1. (s \in closeCalled) \in BOOLEAN
    OBVIOUS
  <2> QED
    BY <2>1 DEF SendBlob, TypeOK
<1>3. \A w \in Sockets : \A late \in BOOLEAN :
        blobs'[w][late] <= sends' /\ blobs'[w][late] \in 0 .. MaxSends
  BY <1>1, <1>2, StatesOf
<1>4. TypeOK'
  <2>1. sends' \in 0 .. MaxSends
    BY <1>1, StatesOf
  <2>2. blobs' \in [Sockets -> [BOOLEAN -> 0 .. MaxSends]]
    <3>1. /\ blobs' = [w \in Sockets |-> blobs'[w]]
          /\ \A w \in Sockets : blobs'[w] = [late \in BOOLEAN |-> blobs'[w][late]]
      BY DEF SendBlob, TypeOK
    <3> QED
      BY <1>3, <3>1
  <2> QED
    BY <1>1, <2>1, <2>2 DEF TypeOK
<1>5. ConnectionsAreKnown'
  BY <1>1 DEF ConnectionsAreKnown
<1>6. PostsAreInOrder'
  BY <1>1, PostsStayInOrder
<1>7. EventsAreInOrder'
  BY <1>1, EventsStayInOrder
<1>8. StatesAgree'
  <2>1. \A w \in Sockets : \A late \in BOOLEAN :
          blobs'[w][late] > 0 => connection[w] \in Made
    BY <1>1, <1>2, StatesOf
  <2> QED
    BY <1>1, <1>3, <2>1, StatesOf, SameComes DEF StatesAgree, Quiet
<1>9. MessagesAreNumbered' /\ MessagesHeardInOrder'
  BY <1>1, NumbersStay
<1>10. SendsArrive'
  BY <1>1, SendsStay
<1> QED
  BY <1>4, <1>5, <1>6, <1>7, <1>8, <1>9, <1>10

\* A Blob that was sent before the close may be posted after it: it is overtaken then.
LEMMA BlobReadStep ==
  ASSUME IInv, NEW s \in Sockets, BlobRead(s)
  PROVE  IInv'
<1> USE DEF IInv
<1>0. PICK l \in BOOLEAN : /\ blobs[s][l] > 0
                           /\ blobs' = [blobs EXCEPT ![s][l] = @ - 1]
                           /\ PostSend(s, "converted", l)
  BY DEF BlobRead
<1>1. PICK m \in ToHost : /\ m.event = "send" /\ m.conn = s
                          /\ s \in closeCalled => Excused(m)
                          /\ toHost' \in Seq(ToHost) /\ Gains(toHost, toHost', m)
  BY <1>0, SendGains
<1>2. /\ UNCHANGED <<readyState, registry, heard, closeCalled, sends, toWorker,
                     connection, wsConnections, told, lost>>
      /\ connection[s] \in Made
  BY <1>0, StatesOf DEF BlobRead, gatewayVars
<1>3. \A w \in Sockets : \A late \in BOOLEAN :
        blobs'[w][late] = IF w = s /\ late = l THEN blobs[w][late] - 1 ELSE blobs[w][late]
  BY <1>0 DEF TypeOK
<1>4. \A w \in Sockets : \A late \in BOOLEAN :
        /\ blobs'[w][late] <= sends /\ blobs'[w][late] \in 0 .. MaxSends
        /\ blobs'[w][late] > 0 => connection[w] \in Made
  BY <1>0, <1>2, <1>3, StatesOf
<1>5. TypeOK'
  <2>1. blobs' \in [Sockets -> [BOOLEAN -> 0 .. MaxSends]]
    <3>1. /\ blobs' = [w \in Sockets |-> blobs'[w]]
          /\ \A w \in Sockets : blobs'[w] = [late \in BOOLEAN |-> blobs'[w][late]]
      BY <1>0 DEF TypeOK
    <3> QED
      BY <1>4, <3>1
  <2> QED
    BY <1>1, <1>2, <2>1 DEF TypeOK
<1>6. ConnectionsAreKnown'
  BY <1>2 DEF ConnectionsAreKnown
<1>7. s \in closeCalled \/ connection[s] \in {"open", "gone"}
  BY <1>2 DEF Made, ConnectionsAreKnown
<1>8. PostsAreInOrder'
  BY <1>1, <1>2, <1>7, PostKeepsPosts
<1>9. EventsAreInOrder'
  BY <1>2, EventsStayInOrder
<1>10. StatesAgree'
  BY <1>2, <1>4, StatesOf, SameComes DEF StatesAgree, Quiet
<1>11. MessagesAreNumbered' /\ MessagesHeardInOrder'
  BY <1>2, NumbersStay
<1>12. SendsArrive'
  BY <1>2, SendsStay
<1> QED
  BY <1>5, <1>6, <1>8, <1>9, <1>10, <1>11, <1>12

\* WebSocket.close.
LEMMA CloseStep ==
  ASSUME IInv, NEW s \in Sockets, Close(s)
  PROVE  IInv'
<1> USE DEF IInv
<1> DEFINE m == [event |-> "close", conn |-> s, data |-> "none", late |-> FALSE,
                 overtaken |-> FALSE]
<1>1. m \in ToHost /\ toHost' \in Seq(ToHost) /\ Gains(toHost, toHost', m)
  BY PostGains DEF Close, PostClose
<1>2. /\ UNCHANGED <<registry, heard, sends, blobs, toWorker, connection, wsConnections, told, lost>>
      /\ closeCalled' = closeCalled \cup {s} /\ readyState[s] \in {"CONNECTING", "OPEN"}
  BY DEF Close, gatewayVars
<1>3. \A w \in Sockets : readyState'[w] = IF w = s THEN "CLOSING" ELSE readyState[w]
  BY DEF Close, AfterClose, TypeOK
<1>4. TypeOK'
  <2>1. readyState' \in [Sockets -> ReadyStates]
    BY DEF Close, AfterClose, TypeOK, ReadyStates
  <2> QED
    BY <1>1, <1>2, <1>3, <2>1 DEF TypeOK
<1>5. ConnectionsAreKnown'
  BY <1>2 DEF ConnectionsAreKnown
<1>6. PostsAreInOrder'
  BY <1>1, <1>2, <1>3, PostKeepsPosts
<1>7. EventsAreInOrder'
  BY <1>2, <1>3, EventsStayInOrder
<1>8. StatesAgree'
  BY <1>2, <1>3, StatesOf, SameComes DEF StatesAgree, Quiet
<1>9. MessagesAreNumbered' /\ MessagesHeardInOrder'
  BY <1>2, NumbersStay
<1>10. SendsArrive'
  BY <1>2, SendsStay
<1> QED
  BY <1>4, <1>5, <1>6, <1>7, <1>8, <1>9, <1>10

-----------------------------------------------------------------------------
(* The dispatcher's steps.                                                 *)

LEMMA Receipt ==
  ASSUME IInv, NEW e, NEW s \in Sockets, Receives(e, s)
  PROVE  /\ toWorker # <<>> /\ toWorker' = Tail(toWorker) /\ s \in registry
         /\ toWorker[1].event = e /\ toWorker[1].conn = s /\ Head(toWorker) = toWorker[1]
         /\ UNCHANGED <<closeCalled, sends, blobs, toHost, connection, wsConnections, told, lost>>
<1>1. toWorker # <<>> /\ toWorker' = Tail(toWorker)
  BY DEF Receives
<1>2. Head(toWorker) = toWorker[1]
  BY <1>1, NextEvent
<1> QED
  BY <1>1, <1>2 DEF Receives, Addressee, gatewayVars

\* What the dispatcher's steps leave alone.
LEMMA DispatcherKeeps ==
  ASSUME IInv, UNCHANGED <<closeCalled, toHost, connection, wsConnections, lost>>,
         \A w \in Sockets : readyState[w] # "none" => readyState'[w] # "none"
  PROVE  ConnectionsAreKnown' /\ PostsAreInOrder' /\ SendsArrive'
<1>1. ConnectionsAreKnown'
  BY DEF IInv, ConnectionsAreKnown
<1>2. PostsAreInOrder'
  BY PostsStayInOrder DEF IInv
<1>3. SendsArrive'
  BY SendsStay DEF IInv
<1> QED
  BY <1>1, <1>2, <1>3

\* The socket was waiting for the event, if not for the user.
LEMMA HandleOpenStep ==
  ASSUME IInv, NEW s \in Sockets, HandleOpen(s)
  PROVE  IInv'
<1>1. /\ toWorker # <<>> /\ toWorker' = Tail(toWorker) /\ s \in registry
      /\ toWorker[1].event = "open" /\ toWorker[1].conn = s
      /\ UNCHANGED <<registry, heard, closeCalled, sends, blobs, toHost,
                     connection, wsConnections, told, lost>>
  BY Receipt DEF HandleOpen
<1>2. /\ toWorker' \in Seq(ToWorker) /\ Loses(toWorker, toWorker') /\ 1 \in DOMAIN toWorker
      /\ connection[s] \in Made /\ readyState[s] \in {"CONNECTING", "CLOSING"}
  BY <1>1, NextEvent
<1> USE DEF IInv
<1>3. \A w \in Sockets : readyState'[w] = IF w = s THEN "OPEN" ELSE readyState[w]
  BY DEF HandleOpen, TypeOK
<1>4. TypeOK'
  <2>1. readyState' \in [Sockets -> ReadyStates]
    BY DEF HandleOpen, TypeOK, ReadyStates
  <2> QED
    BY <1>1, <1>2, <1>3, <2>1 DEF TypeOK
<1>5. ConnectionsAreKnown' /\ PostsAreInOrder' /\ SendsArrive'
  BY <1>1, <1>3, DispatcherKeeps
<1>6. EventsAreInOrder'
  BY <1>1, <1>2, <1>3, TakeKeepsEvents
<1>7. StatesAgree'
  <2>1. ASSUME NEW w \in Sockets
        PROVE  /\ Quiet(w) => Quiet(w)'
               /\ OnTheWay("close", w) # {} => OnTheWay("close", w)' # {}
               /\ w # s /\ OnTheWay("open", w) # {} => OnTheWay("open", w)' # {}
    <3>1. /\ \A e : OnTheWay(e, w) # {} => \/ OnTheWay(e, w)' # {}
                                           \/ toWorker[1].event = e /\ toWorker[1].conn = w
          /\ Quiet(w) => Quiet(w)'
      BY <1>1, <1>2, TakeComes
    <3> QED
      BY <1>1, <1>2, <3>1
  <2> QED
    BY <1>1, <1>2, <1>3, <2>1, StatesOf DEF StatesAgree, Quiet
<1>8. MessagesAreNumbered' /\ MessagesHeardInOrder'
  BY <1>1, <1>2, TakeKeepsNumbers
<1> QED
  BY <1>4, <1>5, <1>6, <1>7, <1>8

\* A message that comes before the close finds the socket OPEN.
LEMMA HandleMessageStep ==
  ASSUME IInv, NEW s \in Sockets, HandleMessage(s)
  PROVE  IInv'
<1>1. /\ toWorker # <<>> /\ toWorker' = Tail(toWorker) /\ Head(toWorker) = toWorker[1]
      /\ toWorker[1].event = "message" /\ toWorker[1].conn = s
      /\ UNCHANGED <<readyState, registry, closeCalled, sends, blobs, toHost,
                     connection, wsConnections, told, lost>>
  BY Receipt DEF HandleMessage
<1>2. /\ toWorker' \in Seq(ToWorker) /\ Loses(toWorker, toWorker') /\ 1 \in DOMAIN toWorker
      /\ connection[s] \in Made /\ readyState[s] \notin {"CONNECTING", "CLOSED"}
  BY <1>1, NextEvent
<1> USE DEF IInv
<1>3. toWorker[1].n \in 1 .. MaxMessages
  <2>1. toWorker[1].n \in 1 .. told[s]
    BY <1>1, <1>2 DEF MessagesAreNumbered, OnTheWay
  <2> QED
    BY <2>1, HeardFields
<1>4. \A w \in Sockets : heard'[w] = IF w = s /\ readyState[s] = "OPEN"
                                       THEN Append(heard[w], toWorker[1].n) ELSE heard[w]
  BY <1>1 DEF HandleMessage, TypeOK
<1>5. s \notin closeCalled => readyState[s] = "OPEN"
  BY <1>2, StatesOf DEF Made, ReadyStates
<1>6. TypeOK'
  <2>1. \A w \in Sockets : heard'[w] \in Seq(1 .. MaxMessages)
    <3> SUFFICES ASSUME NEW w \in Sockets PROVE heard'[w] \in Seq(1 .. MaxMessages)
      OBVIOUS
    <3>1. heard[w] \in Seq(1 .. MaxMessages)
      BY HeardFields
    <3>2. Append(heard[w], toWorker[1].n) \in Seq(1 .. MaxMessages)
      BY <1>3, <3>1
    <3> QED
      BY <1>4, <3>1, <3>2
  <2>2. heard' \in [Sockets -> Seq(1 .. MaxMessages)]
    <3>1. heard' = [w \in Sockets |-> heard'[w]]
      BY DEF HandleMessage, TypeOK
    <3> QED
      BY <2>1, <3>1
  <2> QED
    BY <1>1, <1>2, <2>2 DEF TypeOK
<1>7. ConnectionsAreKnown' /\ PostsAreInOrder' /\ SendsArrive'
  BY <1>1, DispatcherKeeps
<1>8. EventsAreInOrder'
  BY <1>1, <1>2, TakeKeepsEvents
<1>9. StatesAgree'
  <2>1. ASSUME NEW w \in Sockets
        PROVE  /\ Quiet(w) => Quiet(w)'
               /\ OnTheWay("close", w) # {} => OnTheWay("close", w)' # {}
               /\ OnTheWay("open", w) # {} => OnTheWay("open", w)' # {}
    <3>1. /\ \A e : OnTheWay(e, w) # {} => \/ OnTheWay(e, w)' # {}
                                           \/ toWorker[1].event = e /\ toWorker[1].conn = w
          /\ Quiet(w) => Quiet(w)'
      BY <1>1, <1>2, TakeComes
    <3> QED
      BY <1>1, <1>2, <3>1
  <2> QED
    BY <1>1, <2>1, StatesOf DEF StatesAgree, Quiet
<1>10. MessagesAreNumbered' /\ MessagesHeardInOrder'
  <2>1. \A w \in Sockets \ closeCalled :
          heard'[w] = IF toWorker[1].event = "message" /\ toWorker[1].conn = w
                        THEN Append(heard[w], toWorker[1].n) ELSE heard[w]
    BY <1>1, <1>4, <1>5
  <2> QED
    BY <1>1, <1>2, <2>1, TakeKeepsNumbers
<1> QED
  BY <1>6, <1>7, <1>8, <1>9, <1>10

\* Nothing follows the event.
LEMMA HandleCloseStep ==
  ASSUME IInv, NEW s \in Sockets, HandleClose(s)
  PROVE  IInv'
<1>1. /\ toWorker # <<>> /\ toWorker' = Tail(toWorker)
      /\ toWorker[1].event = "close" /\ toWorker[1].conn = s
      /\ UNCHANGED <<heard, closeCalled, sends, blobs, toHost,
                     connection, wsConnections, told, lost>>
      /\ registry' \in {registry, registry \ {s}}
  BY Receipt DEF HandleClose
<1>2. /\ toWorker' \in Seq(ToWorker) /\ Loses(toWorker, toWorker') /\ 1 \in DOMAIN toWorker
      /\ connection[s] = "gone" /\ Quiet(s)'
  BY <1>1, NextEvent
<1> USE DEF IInv
<1>3. \A w \in Sockets : readyState'[w] = IF w = s THEN "CLOSED" ELSE readyState[w]
  BY DEF HandleClose, StateOfClosed, TypeOK
<1>4. TypeOK'
  <2>1. readyState' \in [Sockets -> ReadyStates]
    BY DEF HandleClose, StateOfClosed, TypeOK, ReadyStates
  <2>2. /\ registry' \subseteq Sockets
        /\ \A w \in Sockets : readyState'[w] \notin {"none", "CLOSED"} => w \in registry'
    BY <1>1, <1>3 DEF TypeOK
  <2> QED
    BY <1>1, <1>2, <2>1, <2>2 DEF TypeOK
<1>5. ConnectionsAreKnown' /\ PostsAreInOrder' /\ SendsArrive'
  BY <1>1, <1>3, DispatcherKeeps
<1>6. EventsAreInOrder'
  BY <1>1, <1>2, <1>3, TakeKeepsEvents
<1>7. StatesAgree'
  <2>1. ASSUME NEW w \in Sockets
        PROVE  /\ Quiet(w) => Quiet(w)'
               /\ w # s /\ OnTheWay("close", w) # {} => OnTheWay("close", w)' # {}
               /\ OnTheWay("open", w) # {} => OnTheWay("open", w)' # {}
    BY <1>1, <1>2, TakeComes
  <2> QED
    BY <1>1, <1>2, <1>3, <2>1, StatesOf DEF StatesAgree, Quiet, Made
<1>8. MessagesAreNumbered' /\ MessagesHeardInOrder'
  BY <1>1, <1>2, TakeKeepsNumbers
<1> QED
  BY <1>4, <1>5, <1>6, <1>7, <1>8

\* Only the error of a refused socket: whatever else comes finds its socket in the
\* registry.
LEMMA HandleNothingStep ==
  ASSUME IInv, HandleNothing
  PROVE  IInv'
<1>1. /\ toWorker # <<>> /\ toWorker' = Tail(toWorker)
      /\ UNCHANGED <<readyState, registry, heard, closeCalled, sends, blobs, toHost,
                     connection, wsConnections, told, lost>>
      /\ Head(toWorker).event = "error" \/ Addressee(Head(toWorker).conn) = {}
  BY DEF HandleNothing, workerVars, gatewayVars
<1>2. PICK s \in Sockets : s = toWorker[1].conn
  BY <1>1, NextEvent
<1>3. /\ toWorker' \in Seq(ToWorker) /\ Loses(toWorker, toWorker') /\ 1 \in DOMAIN toWorker
      /\ Head(toWorker) = toWorker[1] /\ readyState[s] # "CLOSED"
      /\ connection[s] \in IF toWorker[1].event = "error" THEN {"refused"} ELSE Made
  BY <1>1, <1>2, NextEvent
<1> USE DEF IInv
<1>4. toWorker[1].event = "error"
  <2>1. CASE Addressee(Head(toWorker).conn) = {}
    <3>1. s \notin registry
      BY <1>2, <1>3, <2>1 DEF Addressee
    <3> QED
      BY <1>3, <3>1, StatesOf DEF Made
  <2> QED
    BY <1>1, <1>3, <2>1
<1>5. TypeOK'
  BY <1>1, <1>3 DEF TypeOK
<1>6. ConnectionsAreKnown' /\ PostsAreInOrder' /\ SendsArrive'
  BY <1>1, DispatcherKeeps
<1>7. EventsAreInOrder'
  BY <1>1, <1>3, <1>4, TakeKeepsEvents
<1>8. StatesAgree'
  <2>1. ASSUME NEW w \in Sockets
        PROVE  /\ Quiet(w) => Quiet(w)'
               /\ OnTheWay("close", w) # {} => OnTheWay("close", w)' # {}
               /\ OnTheWay("open", w) # {} => OnTheWay("open", w)' # {}
    <3>1. /\ \A e : OnTheWay(e, w) # {} => \/ OnTheWay(e, w)' # {}
                                           \/ toWorker[1].event = e /\ toWorker[1].conn = w
          /\ Quiet(w) => Quiet(w)'
      BY <1>3, <1>4, TakeComes
    <3> QED
      BY <1>3, <1>4, <3>1
  <2> QED
    BY <1>1, <2>1, StatesOf DEF StatesAgree, Quiet
<1>9. MessagesAreNumbered' /\ MessagesHeardInOrder'
  BY <1>1, <1>3, <1>4, TakeKeepsNumbers
<1> QED
  BY <1>5, <1>6, <1>7, <1>8, <1>9

-----------------------------------------------------------------------------
(* The gateway's steps.                                                    *)

\* The next post is well-formed and in its place.
LEMMA NextPost ==
  ASSUME IInv, NEW e, Takes(e)
  PROVE  /\ toHost' \in Seq(ToHost) /\ Loses(toHost, toHost')
         /\ 1 \in DOMAIN toHost /\ Head(toHost) = toHost[1] /\ toHost[1] \in ToHost
         /\ toHost[1].conn \in Sockets /\ toHost[1].event = e
         /\ UNCHANGED <<readyState, registry, heard, closeCalled, sends, blobs, told>>
<1>1. toHost # <<>> /\ toHost' = Tail(toHost) /\ toHost \in Seq(ToHost)
  BY DEF Takes, IInv, TypeOK
<1>2. /\ toHost' \in Seq(ToHost) /\ Loses(toHost, toHost')
      /\ 1 \in DOMAIN toHost /\ Head(toHost) = toHost[1]
  BY <1>1, TailLoses
<1>3. toHost[1] \in ToHost /\ toHost[1].conn \in Sockets
  BY <1>2, PostFields DEF IInv
<1> QED
  BY <1>2, <1>3 DEF Takes, workerVars

\* The host takes an open and starts the connection.
LEMMA GatewayOpenStep ==
  ASSUME IInv, GatewayOpen
  PROVE  IInv'
<1>1. PICK s \in Sockets : s = toHost[1].conn
  BY NextPost DEF GatewayOpen
<1>2. /\ toHost' \in Seq(ToHost) /\ Loses(toHost, toHost') /\ 1 \in DOMAIN toHost
      /\ toHost[1].event = "open" /\ Head(toHost).conn = s
      /\ UNCHANGED <<readyState, registry, heard, closeCalled, sends, blobs, told, lost>>
  BY <1>1, NextPost DEF GatewayOpen
<1> USE DEF IInv
<1>3. /\ connection[s] = "none" /\ readyState[s] # "none"
      /\ \A k \in DOMAIN toHost : k # 1 /\ toHost[k].event = "open" => toHost[k].conn # s
      /\ \A k \in DOMAIN toHost : toHost[k].event = "open" => connection[toHost[k].conn] = "none"
      /\ \A k \in DOMAIN toHost : toHost[k].event = "send" /\ ~Excused(toHost[k]) =>
                                    connection[toHost[k].conn] \in {"open", "gone"}
  BY <1>1, <1>2 DEF PostsAreInOrder
<1>4. /\ readyState[s] \in {"CONNECTING", "CLOSING"} /\ s \notin wsConnections
      /\ \A late \in BOOLEAN : ~(blobs[s][late] > 0)
  <2>1. s \notin wsConnections
    BY <1>3 DEF ConnectionsAreKnown
  <2> QED
    BY <1>3, <2>1, StatesOf DEF Made, ReadyStates
<1>5. \/ /\ connection' = [connection EXCEPT ![s] = "refused"]
         /\ Notify("error", s) \/ UNCHANGED toWorker
         /\ UNCHANGED wsConnections
      \/ /\ connection' = [connection EXCEPT ![s] = "connecting"]
         /\ wsConnections' = wsConnections \cup {s}
         /\ UNCHANGED toWorker
  BY <1>2 DEF GatewayOpen
<1>6. /\ connection' \in [Sockets -> Connections]
      /\ \A w \in Sockets : w # s => connection'[w] = connection[w]
      /\ \/ connection'[s] = "refused" /\ wsConnections' = wsConnections
         \/ connection'[s] = "connecting" /\ wsConnections' = wsConnections \cup {s}
  BY <1>5 DEF TypeOK, Connections
<1>7. ConnectionsAreKnown'
  BY <1>2, <1>4, <1>6 DEF ConnectionsAreKnown
<1>8. PostsAreInOrder'
  <2>1. ASSUME NEW k \in DOMAIN toHost, k # 1
        PROVE  /\ toHost[k].event = "open" => connection'[toHost[k].conn] = "none"
               /\ toHost[k].event = "send" /\ ~Excused(toHost[k]) =>
                    connection'[toHost[k].conn] \in {"open", "gone"}
    <3>1. toHost[k].conn \in Sockets
      BY PostFields
    <3> QED
      BY <1>3, <1>6, <2>1, <3>1
  <2> QED
    BY <1>2, <2>1, TakeKeepsPosts
<1>9. SendsArrive'
  BY <1>2, <1>3, <1>6, SendsStay
<1>10. CASE Notify("error", s) /\ connection'[s] = "refused"
  <2> DEFINE m == [event |-> "error", conn |-> s, n |-> 0]
  <2>1. m \in ToWorker /\ toWorker' \in Seq(ToWorker) /\ Gains(toWorker, toWorker', m)
    BY <1>10, NotifyGains
  <2>2. TypeOK'
    BY <1>2, <1>4, <1>6, <2>1 DEF TypeOK
  <2>3. EventsAreInOrder'
    BY <1>2, <1>3, <1>6, <1>10, <2>1, NotifyKeepsEvents
  <2>4. StatesAgree'
    <3>1. ASSUME NEW w \in Sockets
          PROVE  /\ w # s /\ Quiet(w) => Quiet(w)'
                 /\ OnTheWay("close", w) # {} => OnTheWay("close", w)' # {}
                 /\ OnTheWay("open", w) # {} => OnTheWay("open", w)' # {}
      <4>1. /\ \A e : OnTheWay(e, w) # {} => OnTheWay(e, w)' # {}
            /\ Quiet(w) /\ m.conn # w => Quiet(w)'
        BY <2>1, NotifyComes
      <4> QED
        BY <4>1
    <3> QED
      BY <1>2, <1>3, <1>4, <1>6, <1>10, <3>1, StatesOf DEF StatesAgree, Quiet
  <2>5. MessagesAreNumbered' /\ MessagesHeardInOrder'
    BY <1>2, <2>1, NotifyKeepsNumbers
  <2> QED
    BY <1>7, <1>8, <1>9, <2>2, <2>3, <2>4, <2>5
<1>11. CASE toWorker' = toWorker
  <2>1. TypeOK'
    BY <1>2, <1>6, <1>11 DEF TypeOK
  <2>2. EventsAreInOrder'
    <3>1. connection[s] \notin Made /\ connection[s] \notin {"refused", "gone"}
      BY <1>3 DEF Made
    <3> QED
      BY <1>2, <1>6, <1>11, <3>1, EventsStayInOrder
  <2>3. StatesAgree'
    BY <1>2, <1>3, <1>4, <1>6, <1>11, StatesOf, SameComes DEF StatesAgree, Quiet
  <2>4. MessagesAreNumbered' /\ MessagesHeardInOrder'
    BY <1>2, <1>11, NumbersStay
  <2> QED
    BY <1>7, <1>8, <1>9, <2>1, <2>2, <2>3, <2>4
<1>12. connection'[s] = "refused" \/ toWorker' = toWorker
  BY <1>5, <1>6
<1> QED
  BY <1>5, <1>10, <1>11, <1>12

\* A send that is not excused comes after the 'open': its connection lives, or has gone.
LEMMA GatewaySendStep ==
  ASSUME IInv, GatewaySend
  PROVE  IInv'
<1>1. /\ toHost' \in Seq(ToHost) /\ Loses(toHost, toHost') /\ 1 \in DOMAIN toHost
      /\ toHost[1] \in ToHost /\ toHost[1].conn \in Sockets /\ toHost[1].event = "send"
      /\ UNCHANGED <<readyState, registry, heard, closeCalled, sends, blobs, told,
                     toWorker, connection, wsConnections>>
      /\ lost' = IF toHost[1].conn \in wsConnections /\ connection[toHost[1].conn] = "open"
                   THEN lost ELSE lost \cup {toHost[1]}
  BY NextPost DEF GatewaySend
<1> USE DEF IInv
<1>2. TypeOK'
  BY <1>1 DEF TypeOK
<1>3. ConnectionsAreKnown'
  BY <1>1 DEF ConnectionsAreKnown
<1>4. PostsAreInOrder'
  <2>1. \A k \in DOMAIN toHost :
          /\ toHost[k].event = "open" => connection'[toHost[k].conn] = "none"
          /\ toHost[k].event = "send" /\ ~Excused(toHost[k]) =>
               connection'[toHost[k].conn] \in {"open", "gone"}
    BY <1>1 DEF PostsAreInOrder
  <2> QED
    BY <1>1, <2>1, TakeKeepsPosts
<1>5. EventsAreInOrder'
  BY <1>1, EventsStayInOrder
<1>6. StatesAgree'
  BY <1>1, StatesOf, SameComes DEF StatesAgree, Quiet
<1>7. MessagesAreNumbered' /\ MessagesHeardInOrder'
  BY <1>1, NumbersStay
<1>8. SendsArrive'
  <2>1. Excused(toHost[1]) \/ connection[toHost[1].conn] \in {"open", "gone"}
    BY <1>1 DEF PostsAreInOrder
  <2>2. connection[toHost[1].conn] = "open" => toHost[1].conn \in wsConnections
    BY <1>1 DEF ConnectionsAreKnown
  <2> QED
    BY <1>1, <2>1, <2>2 DEF SendsArrive
<1> QED
  BY <1>2, <1>3, <1>4, <1>5, <1>6, <1>7, <1>8

\* What was sent before the close has been taken: only excused sends are left.
LEMMA GatewayCloseStep ==
  ASSUME IInv, GatewayClose
  PROVE  IInv'
<1>1. PICK s \in Sockets : s = toHost[1].conn
  BY NextPost DEF GatewayClose
<1>2. /\ toHost' \in Seq(ToHost) /\ Loses(toHost, toHost') /\ 1 \in DOMAIN toHost
      /\ toHost[1].event = "close" /\ Head(toHost).conn = s
      /\ UNCHANGED <<readyState, registry, heard, closeCalled, sends, blobs, told,
                     toWorker, lost>>
  BY <1>1, NextPost DEF GatewayClose
<1>3. /\ connection' = IF s \in wsConnections
                         THEN [connection EXCEPT ![s] = "closing"] ELSE connection
      /\ wsConnections' = wsConnections \ {s}
  BY <1>2 DEF GatewayClose
<1> USE DEF IInv
<1>4. s \in wsConnections <=> connection[s] \in {"connecting", "open"}
  BY DEF ConnectionsAreKnown
<1>5. /\ connection' \in [Sockets -> Connections]
      /\ \A w \in Sockets :
           connection'[w] = IF w = s /\ connection[s] \in {"connecting", "open"}
                              THEN "closing" ELSE connection[w]
  BY <1>3, <1>4 DEF TypeOK, Connections
<1>6. /\ s \in closeCalled
      /\ \A k \in DOMAIN toHost : k > 1 /\ toHost[k].event = "send" /\ toHost[k].conn = s =>
                                    Excused(toHost[k])
      /\ \A k \in DOMAIN toHost : toHost[k].event = "open" => connection[toHost[k].conn] = "none"
      /\ \A k \in DOMAIN toHost : toHost[k].event = "send" /\ ~Excused(toHost[k]) =>
                                    connection[toHost[k].conn] \in {"open", "gone"}
  BY <1>1, <1>2 DEF PostsAreInOrder
<1>7. TypeOK'
  BY <1>2, <1>3, <1>5 DEF TypeOK
<1>8. ConnectionsAreKnown'
  BY <1>2, <1>3, <1>4, <1>5, <1>6 DEF ConnectionsAreKnown
<1>9. PostsAreInOrder'
  <2>1. ASSUME NEW k \in DOMAIN toHost, k # 1
        PROVE  /\ toHost[k].event = "open" => connection'[toHost[k].conn] = "none"
               /\ toHost[k].event = "send" /\ ~Excused(toHost[k]) =>
                    connection'[toHost[k].conn] \in {"open", "gone"}
    <3>1. toHost[k].conn \in Sockets /\ k > 1
      <4>1. toHost \in Seq(ToHost)
        BY DEF TypeOK
      <4>2. k \in Nat /\ k >= 1
        BY <4>1
      <4> QED
        BY <2>1, <4>2, PostFields
    <3> QED
      BY <1>5, <1>6, <3>1
  <2> QED
    BY <1>2, <2>1, TakeKeepsPosts
<1>10. EventsAreInOrder'
  BY <1>2, <1>5, EventsStayInOrder DEF Made
<1>11. StatesAgree'
  BY <1>2, <1>5, StatesOf, SameComes DEF StatesAgree, Quiet, Made
<1>12. MessagesAreNumbered' /\ MessagesHeardInOrder'
  BY <1>2, NumbersStay
<1>13. SendsArrive'
  BY <1>2, <1>5, SendsStay
<1> QED
  BY <1>7, <1>8, <1>9, <1>10, <1>11, <1>12, <1>13

-----------------------------------------------------------------------------
(* The steps of the connections.                                           *)

LEMMA RemoteOpensStep ==
  ASSUME IInv, NEW s \in Sockets, RemoteOpens(s)
  PROVE  IInv'
<1> USE DEF IInv
<1> DEFINE m == [event |-> "open", conn |-> s, n |-> 0]
<1>1. m \in ToWorker /\ toWorker' \in Seq(ToWorker) /\ Gains(toWorker, toWorker', m)
  BY NotifyGains DEF RemoteOpens
<1>2. /\ connection[s] = "connecting"
      /\ UNCHANGED <<readyState, registry, heard, closeCalled, sends, blobs, toHost,
                     wsConnections, told, lost>>
  BY DEF RemoteOpens, workerVars
<1>3. /\ connection' \in [Sockets -> Connections]
      /\ \A w \in Sockets : connection'[w] = IF w = s THEN "open" ELSE connection[w]
  BY DEF RemoteOpens, TypeOK, Connections
<1>4. readyState[s] \in {"CONNECTING", "CLOSING"}
  BY <1>2, StatesOf DEF Made, ReadyStates
<1>5. TypeOK'
  BY <1>1, <1>2, <1>3 DEF TypeOK
<1>6. ConnectionsAreKnown'
  BY <1>2, <1>3 DEF ConnectionsAreKnown
<1>7. PostsAreInOrder'
  BY <1>2, <1>3, PostsStayInOrder
<1>8. EventsAreInOrder'
  BY <1>1, <1>2, <1>3, <1>4, NotifyKeepsEvents DEF Made
<1>9. StatesAgree'
  <2>1. ASSUME NEW w \in Sockets
        PROVE  /\ w # s /\ Quiet(w) => Quiet(w)'
               /\ OnTheWay("close", w) # {} => OnTheWay("close", w)' # {}
               /\ OnTheWay("open", w) # {} \/ w = s => OnTheWay("open", w)' # {}
    <3>1. /\ \A e : OnTheWay(e, w)' # {} <=> OnTheWay(e, w) # {} \/ (m.event = e /\ m.conn = w)
          /\ Quiet(w) /\ m.conn # w => Quiet(w)'
      BY <1>1, NotifyComes
    <3> QED
      BY <3>1
  <2> QED
    BY <1>2, <1>3, <1>4, <2>1, StatesOf DEF StatesAgree, Quiet, Made
<1>10. MessagesAreNumbered' /\ MessagesHeardInOrder'
  BY <1>1, <1>2, NotifyKeepsNumbers
<1>11. SendsArrive'
  BY <1>2, <1>3, SendsStay
<1> QED
  BY <1>5, <1>6, <1>7, <1>8, <1>9, <1>10, <1>11

\* The remote end sends a message to a connected socket.
LEMMA RemoteSendsStep ==
  ASSUME IInv, NEW s \in Sockets, RemoteSends(s)
  PROVE  IInv'
<1> USE DEF IInv
<1> DEFINE m == [event |-> "message", conn |-> s, n |-> told[s] + 1]
<1>1. told[s] \in Nat /\ told[s] < MaxMessages
  BY ToldIsCounted, ConstantsAssumption DEF RemoteSends
<1>2. m \in ToWorker /\ toWorker' \in Seq(ToWorker) /\ Gains(toWorker, toWorker', m)
  BY <1>1, NotifyGains DEF RemoteSends
<1>3. /\ connection[s] = "open"
      /\ UNCHANGED <<readyState, registry, heard, closeCalled, sends, blobs, toHost,
                     connection, wsConnections, lost>>
  BY DEF RemoteSends, workerVars
<1>4. \A w \in Sockets : told'[w] = IF w = s THEN told[w] + 1 ELSE told[w]
  BY DEF RemoteSends, TypeOK
<1>5. TypeOK'
  <2>1. told' \in [Sockets -> 0 .. MaxMessages]
    <3>1. told[s] + 1 \in 0 .. MaxMessages
      BY <1>1, ConstantsAssumption
    <3> QED
      BY <3>1 DEF RemoteSends, TypeOK
  <2> QED
    BY <1>2, <1>3, <2>1 DEF TypeOK
<1>6. ConnectionsAreKnown'
  BY <1>3 DEF ConnectionsAreKnown
<1>7. PostsAreInOrder'
  BY <1>3, PostsStayInOrder
<1>8. EventsAreInOrder'
  <2>1. readyState[s] = "CONNECTING" => OnTheWay("open", s) # {}
    BY <1>3, StatesOf
  <2> QED
    BY <1>2, <1>3, <2>1, NotifyKeepsEvents DEF Made
<1>9. StatesAgree'
  <2>1. ASSUME NEW w \in Sockets
        PROVE  /\ w # s /\ Quiet(w) => Quiet(w)'
               /\ OnTheWay("close", w) # {} => OnTheWay("close", w)' # {}
               /\ OnTheWay("open", w) # {} => OnTheWay("open", w)' # {}
    <3>1. /\ \A e : OnTheWay(e, w)' # {} <=> OnTheWay(e, w) # {} \/ (m.event = e /\ m.conn = w)
          /\ Quiet(w) /\ m.conn # w => Quiet(w)'
      BY <1>2, NotifyComes
    <3> QED
      BY <3>1
  <2> QED
    BY <1>3, <2>1, StatesOf DEF StatesAgree, Quiet
<1>10. MessagesAreNumbered' /\ MessagesHeardInOrder'
  BY <1>2, <1>3, <1>4, NotifyKeepsNumbers
<1>11. SendsArrive'
  BY <1>3, SendsStay
<1> QED
  BY <1>5, <1>6, <1>7, <1>8, <1>9, <1>10, <1>11

\* The connection ends by the remote side or by its own close.
LEMMA RemoteClosesStep ==
  ASSUME IInv, NEW s \in Sockets, RemoteCloses(s)
  PROVE  IInv'
<1> USE DEF IInv
<1> DEFINE m == [event |-> "close", conn |-> s, n |-> 0]
<1>1. m \in ToWorker /\ toWorker' \in Seq(ToWorker) /\ Gains(toWorker, toWorker', m)
  BY NotifyGains DEF RemoteCloses
<1>2. /\ connection[s] \in {"connecting", "open", "closing"}
      /\ UNCHANGED <<readyState, registry, heard, closeCalled, sends, blobs, toHost, told, lost>>
      /\ wsConnections' = wsConnections \ {s}
  BY DEF RemoteCloses, workerVars
<1>3. /\ connection' \in [Sockets -> Connections]
      /\ \A w \in Sockets : connection'[w] = IF w = s THEN "gone" ELSE connection[w]
  BY DEF RemoteCloses, TypeOK, Connections
<1>4. TypeOK'
  BY <1>1, <1>2, <1>3 DEF TypeOK
<1>5. ConnectionsAreKnown'
  BY <1>2, <1>3 DEF ConnectionsAreKnown
<1>6. PostsAreInOrder'
  BY <1>2, <1>3, PostsStayInOrder
<1>7. EventsAreInOrder'
  BY <1>1, <1>2, <1>3, NotifyKeepsEvents DEF Made
<1>8. StatesAgree'
  <2>1. ASSUME NEW w \in Sockets
        PROVE  /\ w # s /\ Quiet(w) => Quiet(w)'
               /\ OnTheWay("close", w) # {} \/ w = s => OnTheWay("close", w)' # {}
               /\ OnTheWay("open", w) # {} => OnTheWay("open", w)' # {}
    <3>1. /\ \A e : OnTheWay(e, w)' # {} <=> OnTheWay(e, w) # {} \/ (m.event = e /\ m.conn = w)
          /\ Quiet(w) /\ m.conn # w => Quiet(w)'
      BY <1>1, NotifyComes
    <3> QED
      BY <3>1
  <2> QED
    BY <1>2, <1>3, <2>1, StatesOf DEF StatesAgree, Quiet, Made
<1>9. MessagesAreNumbered' /\ MessagesHeardInOrder'
  BY <1>1, <1>2, NotifyKeepsNumbers
<1>10. SendsArrive'
  BY <1>2, <1>3, SendsStay
<1> QED
  BY <1>4, <1>5, <1>6, <1>7, <1>8, <1>9, <1>10

-----------------------------------------------------------------------------
(* The invariant and what follows from it.                                 *)

LEMMA InvInit == ASSUME Init PROVE IInv
<1>1. TypeOK
  <2>1. MaxSends \in Nat /\ MaxMessages \in Nat
    BY ConstantsAssumption
  <2> QED
    BY <2>1 DEF Init, TypeOK, ReadyStates, Connections
<1>2. \A e, w : OnTheWay(e, w) = {}
  BY DEF Init, OnTheWay
<1>3. ConnectionsAreKnown /\ PostsAreInOrder /\ EventsAreInOrder
  BY DEF Init, ConnectionsAreKnown, PostsAreInOrder, EventsAreInOrder
<1>4. StatesAgree
  BY DEF Init, StatesAgree
<1>5. MessagesAreNumbered /\ MessagesHeardInOrder
  BY <1>2 DEF Init, MessagesAreNumbered, MessagesHeardInOrder
<1>6. SendsArrive
  BY DEF Init, SendsArrive
<1> QED
  BY <1>1, <1>3, <1>4, <1>5, <1>6 DEF IInv

\* A step that changes nothing.
LEMMA InvStutter == ASSUME IInv, UNCHANGED vars PROVE IInv'
<1> USE DEF IInv
<1>1. UNCHANGED <<readyState, registry, heard, closeCalled, sends, blobs, toHost, toWorker,
                  connection, wsConnections, told, lost>>
  BY DEF vars, workerVars, gatewayVars
<1>2. TypeOK' /\ ConnectionsAreKnown'
  BY <1>1 DEF TypeOK, ConnectionsAreKnown
<1>3. PostsAreInOrder' /\ EventsAreInOrder'
  BY <1>1, PostsStayInOrder, EventsStayInOrder
<1>4. StatesAgree'
  BY <1>1, StatesOf, SameComes DEF StatesAgree, Quiet
<1>5. MessagesAreNumbered' /\ MessagesHeardInOrder'
  BY <1>1, NumbersStay
<1>6. SendsArrive'
  BY <1>1, SendsStay
<1> QED
  BY <1>2, <1>3, <1>4, <1>5, <1>6

\* Every step of the worker, the host and the remote end keeps the inductive invariant.
LEMMA InvStep == ASSUME IInv, [Next]_vars PROVE IInv'
<1>1. ASSUME NEW s \in Sockets, User(s)
      PROVE  IInv'
  BY <1>1, ConstructStep, SendStep, SendBlobStep, CloseStep DEF User
<1>2. CASE Dispatcher
  BY <1>2, HandleOpenStep, HandleMessageStep, HandleCloseStep, HandleNothingStep DEF Dispatcher
<1>3. CASE Gateway
  BY <1>3, GatewayOpenStep, GatewaySendStep, GatewayCloseStep DEF Gateway
<1>4. ASSUME NEW s \in Sockets, Remote(s)
      PROVE  IInv'
  BY <1>4, RemoteOpensStep, RemoteSendsStep, RemoteClosesStep DEF Remote
<1>5. CASE UNCHANGED vars
  BY <1>5, InvStutter
<1> QED
  BY <1>1, <1>2, <1>3, <1>4, <1>5, BlobReadStep DEF Next

\* The inductive invariant holds for any sockets and bounds.
THEOREM Invariance == Spec => []IInv
BY InvInit, InvStep, PTL DEF Spec

\* The variables keep their types and a socket that expects events is registered: the
\* blobs that wait are among the sends, and what is heard has a number that was sent.
THEOREM TypeCorrect == Spec => []TypeOK
<1>1. IInv => TypeOK
  BY DEF IInv
<1> QED
  BY Invariance, <1>1, PTL

\* A socket that says it is OPEN has a connection the gateway knows, word of its end
\* is on the way, or the user has closed it.
THEOREM OpenSocketsAreConnected == Spec => []OpenIsConnected
<1>1. IInv => OpenIsConnected
  <2> SUFFICES ASSUME IInv, NEW s \in Sockets, readyState[s] = "OPEN"
               PROVE  \/ connection[s] = "open" /\ s \in wsConnections
                      \/ OnTheWay("close", s) # {}
                      \/ s \in closeCalled
    BY DEF OpenIsConnected
  <2>1. connection[s] \in Made /\ (connection[s] = "gone" => OnTheWay("close", s) # {})
    BY DEF IInv, StatesAgree
  <2>2. /\ s \in wsConnections <=> connection[s] \in {"connecting", "open"}
        /\ connection[s] = "closing" => s \in closeCalled
    BY DEF IInv, ConnectionsAreKnown
  <2> QED
    BY <2>1, <2>2 DEF Made
<1> QED
  BY Invariance, <1>1, PTL

\* A socket that says it is CLOSED has left no connection open at the host.
THEOREM ClosedSocketsAreGone == Spec => []ClosedLeavesNoConnection
<1>1. IInv => ClosedLeavesNoConnection
  BY DEF IInv, StatesAgree, ClosedLeavesNoConnection
<1> QED
  BY Invariance, <1>1, PTL

\* Until it is closed a socket hears every message of its own remote end, in order.
THEOREM MessagesAreHeard == Spec => []MessagesHeardInOrder
<1>1. IInv => MessagesHeardInOrder
  BY DEF IInv
<1> QED
  BY Invariance, <1>1, PTL

\* What send accepts before close() is called arrives, unless the remote end has
\* closed: the 'close' overtakes nothing but a Blob that was still being read.
THEOREM SendsReachTheGateway == Spec => []SendsArrive
<1>1. IInv => SendsArrive
  BY DEF IInv
<1> QED
  BY Invariance, <1>1, PTL

=============================================================================
