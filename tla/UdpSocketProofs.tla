--------------------------- MODULE UdpSocketProofs ---------------------------
(***************************************************************************)
(* Proofs about UdpSocket, for any sizes, limits, rates and bounds: what   *)
(* is read comes in order and from the present life of the socket, no      *)
(* reader sleeps, and, when user code aborts no wait for writing, no       *)
(* function object is called that has no handler.                          *)
(***************************************************************************)
EXTENDS UdpSocket, SequenceTheorems, TLAPS

-----------------------------------------------------------------------------
(* The order of datagrams.                                                 *)

Increasing(s) == \A i, j \in DOMAIN s : i < j => s[i].id < s[j].id
Before(s, t) == \A i \in DOMAIN s, j \in DOMAIN t : s[i].id < t[j].id

\* The datagrams read, g, those queued, q, and those in flight, n, are three
\* sections of one increasing sequence.
InOrder(g, q, n) ==
    /\ Increasing(g) /\ Increasing(q) /\ Increasing(n)
    /\ Before(g, q) /\ Before(g, n) /\ Before(q, n)

Reads == [id : 1..MaxDatagrams, bytes : Nat]

LEMMA DatagramId == \A p \in Datagrams : p.id \in Nat /\ p.id \in 1..MaxDatagrams
BY ConstantsAssumption DEF Datagrams

LEMMA ReadId == \A p \in Reads : p.id \in Nat
BY ConstantsAssumption DEF Reads

\* The elements of a sequence after Append, Tail and RemoveAt.
LEMMA AppendElements ==
    ASSUME NEW S, NEW s \in Seq(S), NEW e \in S
    PROVE  /\ Append(s, e) \in Seq(S)
           /\ Len(s) \in Nat
           /\ DOMAIN s = 1..Len(s)
           /\ DOMAIN Append(s, e) = 1..(Len(s)+1)
           /\ \A i \in 1..Len(s) : Append(s, e)[i] = s[i]
           /\ Append(s, e)[Len(s)+1] = e
OBVIOUS

LEMMA TailElements ==
    ASSUME NEW S, NEW s \in Seq(S), s # <<>>
    PROVE  /\ Tail(s) \in Seq(S)
           /\ Len(s) \in Nat \ {0}
           /\ DOMAIN s = 1..Len(s)
           /\ DOMAIN Tail(s) = 1..(Len(s)-1)
           /\ \A i \in 1..(Len(s)-1) : Tail(s)[i] = s[i+1]
           /\ Head(s) = s[1] /\ Head(s) \in S
OBVIOUS

LEMMA ConcatElements ==
    ASSUME NEW S, NEW a \in Seq(S), NEW b \in Seq(S), NEW i \in Nat, Len(a) < i, i =< Len(a) + Len(b)
    PROVE  (a \o b)[i] = b[i - Len(a)]
OBVIOUS

LEMMA RemoveAtElements ==
    ASSUME NEW S, NEW s \in Seq(S), NEW k \in DOMAIN s
    PROVE  /\ RemoveAt(s, k) \in Seq(S)
           /\ DOMAIN s = 1..Len(s) /\ Len(s) \in Nat
           /\ DOMAIN RemoveAt(s, k) = 1..(Len(s)-1)
           /\ \A i \in 1..(Len(s)-1) : RemoveAt(s, k)[i] = IF i < k THEN s[i] ELSE s[i+1]
<1> DEFINE a == SubSeq(s, 1, k-1)
<1> DEFINE b == SubSeq(s, k+1, Len(s))
<1>1. k \in 1..Len(s) /\ Len(s) \in Nat
  OBVIOUS
<1>2. a \in Seq(S) /\ Len(a) = k-1 /\ \A i \in 1..(k-1) : a[i] = s[i]
  BY <1>1
<1>3. b \in Seq(S) /\ Len(b) = Len(s) - k /\ \A i \in 1..(Len(s)-k) : b[i] = s[k+i]
  BY <1>1
<1> HIDE DEF a, b
<1>4. a \o b \in Seq(S) /\ Len(a \o b) = Len(s) - 1
  BY <1>1, <1>2, <1>3
<1>5. ASSUME NEW i \in 1..(Len(s)-1)
      PROVE  (a \o b)[i] = IF i < k THEN s[i] ELSE s[i+1]
  <2>1. CASE i < k
    BY <1>1, <1>2, <1>3, <2>1
  <2>2. CASE ~(i < k)
    <3>1. (a \o b)[i] = b[i-(k-1)]
      <4>1. i \in Nat /\ Len(a) < i /\ i =< Len(a) + Len(b)
        BY <1>1, <1>2, <1>3, <2>2
      <4>2. (a \o b)[i] = b[i - Len(a)]
        BY <1>2, <1>3, <4>1, ConcatElements
      <4>3. QED
        BY <1>2, <4>2
    <3>2. i-(k-1) \in 1..(Len(s)-k) /\ k+(i-(k-1)) = i+1
      BY <1>1, <2>2
    <3>3. QED
      BY <1>3, <2>2, <3>1, <3>2
  <2>3. QED
    BY <2>1, <2>2
<1>6. RemoveAt(s, k) = a \o b
  BY DEF RemoveAt, a, b
<1>7. QED
  BY <1>1, <1>4, <1>5, <1>6

LEMMA TakeOrder ==
    ASSUME NEW g \in Seq(Reads), NEW q \in Seq(Datagrams), NEW n \in Seq(Datagrams),
           q # <<>>, InOrder(g, q, n), NEW e \in Reads, e.id = Head(q).id
    PROVE  InOrder(Append(g, e), Tail(q), n)
<1>1. /\ Len(g) \in Nat /\ DOMAIN g = 1..Len(g)
      /\ DOMAIN Append(g, e) = 1..(Len(g)+1)
      /\ \A i \in 1..Len(g) : Append(g, e)[i] = g[i]
      /\ Append(g, e)[Len(g)+1] = e
  BY AppendElements
<1>2. /\ Len(q) \in Nat \ {0} /\ DOMAIN q = 1..Len(q)
      /\ DOMAIN Tail(q) = 1..(Len(q)-1)
      /\ \A i \in 1..(Len(q)-1) : Tail(q)[i] = q[i+1]
      /\ Head(q) = q[1]
  BY TailElements
<1> DEFINE a == Append(g, e)
<1> DEFINE t == Tail(q)
<1> HIDE DEF a, t
<1>3. \A i \in DOMAIN a : (i \in DOMAIN g /\ a[i] = g[i])
                        \/ (i = Len(g)+1 /\ a[i].id = q[1].id)
  BY <1>1, <1>2 DEF a
<1>4. \A i \in DOMAIN t : i \in 1..(Len(q)-1) /\ i+1 \in DOMAIN q /\ t[i] = q[i+1] /\ 1 < i+1
  BY <1>2 DEF t
<1>5. 1 \in DOMAIN q
  BY <1>2
<1>6. Increasing(a)
  <2>1. SUFFICES ASSUME NEW i \in DOMAIN a, NEW j \in DOMAIN a, i < j
                 PROVE  a[i].id < a[j].id
    BY DEF Increasing
  <2>2. i \in DOMAIN g /\ a[i] = g[i]
    BY <1>1, <1>3, <2>1 DEF a
  <2>3. QED
    BY <1>3, <1>5, <2>1, <2>2 DEF InOrder, Increasing, Before
<1>7. Increasing(t)
  BY <1>2, <1>4 DEF InOrder, Increasing
<1>8. Before(a, t)
  BY <1>3, <1>4, <1>5 DEF InOrder, Increasing, Before
<1>9. Before(a, n) /\ Before(t, n)
  BY <1>3, <1>4, <1>5 DEF InOrder, Before
<1>10. QED
  BY <1>6, <1>7, <1>8, <1>9 DEF InOrder, a, t

LEMMA ArriveOrder ==
    ASSUME NEW g \in Seq(Reads), NEW q \in Seq(Datagrams), NEW n \in Seq(Datagrams),
           n # <<>>, InOrder(g, q, n)
    PROVE  /\ InOrder(g, q, Tail(n))
           /\ InOrder(g, Append(q, Head(n)), Tail(n))
<1> DEFINE a == Append(q, Head(n))
<1> DEFINE t == Tail(n)
<1>1. /\ Len(n) \in Nat \ {0} /\ DOMAIN n = 1..Len(n)
      /\ DOMAIN t = 1..(Len(n)-1)
      /\ \A i \in 1..(Len(n)-1) : t[i] = n[i+1]
      /\ Head(n) = n[1] /\ Head(n) \in Datagrams
  BY TailElements
<1>2. /\ Len(q) \in Nat /\ DOMAIN q = 1..Len(q)
      /\ DOMAIN a = 1..(Len(q)+1)
      /\ \A i \in 1..Len(q) : a[i] = q[i]
      /\ a[Len(q)+1] = n[1]
  BY <1>1, AppendElements
<1> HIDE DEF a, t
<1>3. \A i \in DOMAIN a : (i \in DOMAIN q /\ a[i] = q[i])
                        \/ (i = Len(q)+1 /\ a[i] = n[1])
  BY <1>1, <1>2
<1>4. \A i \in DOMAIN t : i \in 1..(Len(n)-1) /\ i+1 \in DOMAIN n /\ t[i] = n[i+1] /\ 1 < i+1
  BY <1>1
<1>5. 1 \in DOMAIN n
  BY <1>1
<1>6. Increasing(a)
  <2>1. SUFFICES ASSUME NEW i \in DOMAIN a, NEW j \in DOMAIN a, i < j
                 PROVE  a[i].id < a[j].id
    BY DEF Increasing
  <2>2. i \in DOMAIN q /\ a[i] = q[i]
    BY <1>2, <1>3, <2>1
  <2>3. QED
    BY <1>3, <1>5, <2>1, <2>2 DEF InOrder, Increasing, Before
<1>7. Increasing(t)
  BY <1>1, <1>4 DEF InOrder, Increasing
<1>8. Before(a, t) /\ Before(q, t) /\ Before(g, t)
  BY <1>3, <1>4, <1>5 DEF InOrder, Increasing, Before
<1>9. Before(g, a)
  BY <1>3, <1>5 DEF InOrder, Before
<1>10. QED
  BY <1>6, <1>7, <1>8, <1>9 DEF InOrder, a, t

LEMMA DropOrder ==
    ASSUME NEW g \in Seq(Reads), NEW q \in Seq(Datagrams), NEW n \in Seq(Datagrams),
           NEW k \in DOMAIN n, InOrder(g, q, n)
    PROVE  InOrder(g, q, RemoveAt(n, k))
<1> DEFINE r == RemoveAt(n, k)
<1> DEFINE at == [i \in 1..(Len(n)-1) |-> IF i < k THEN i ELSE i+1]
<1>1. /\ DOMAIN n = 1..Len(n) /\ Len(n) \in Nat
      /\ DOMAIN r = 1..(Len(n)-1)
      /\ \A i \in 1..(Len(n)-1) : r[i] = IF i < k THEN n[i] ELSE n[i+1]
  BY RemoveAtElements
<1> HIDE DEF r
<1>2. \A i \in DOMAIN r : at[i] \in DOMAIN n /\ r[i] = n[at[i]]
  BY <1>1
<1>3. \A i, j \in DOMAIN r : i < j => at[i] < at[j]
  BY <1>1
<1> HIDE DEF at
<1>4. Increasing(r) /\ Before(g, r) /\ Before(q, r)
  BY <1>2, <1>3 DEF InOrder, Increasing, Before
<1>5. QED
  BY <1>4 DEF InOrder, r

LEMMA SendOrder ==
    ASSUME NEW g \in Seq(Reads), NEW q \in Seq(Datagrams), NEW n \in Seq(Datagrams),
           NEW p \in Datagrams, InOrder(g, q, n),
           \A i \in DOMAIN g : g[i].id < p.id,
           \A i \in DOMAIN q : q[i].id < p.id,
           \A i \in DOMAIN n : n[i].id < p.id
    PROVE  InOrder(g, q, Append(n, p))
<1> DEFINE a == Append(n, p)
<1>1. /\ Len(n) \in Nat /\ DOMAIN n = 1..Len(n)
      /\ DOMAIN a = 1..(Len(n)+1)
      /\ \A i \in 1..Len(n) : a[i] = n[i]
      /\ a[Len(n)+1] = p
  BY AppendElements
<1> HIDE DEF a
<1>2. \A i \in DOMAIN a : (i \in DOMAIN n /\ a[i] = n[i])
                        \/ (i = Len(n)+1 /\ a[i] = p)
  BY <1>1
<1>3. Increasing(a)
  <2>1. SUFFICES ASSUME NEW i \in DOMAIN a, NEW j \in DOMAIN a, i < j
                 PROVE  a[i].id < a[j].id
    BY DEF Increasing
  <2>2. i \in DOMAIN n /\ a[i] = n[i]
    BY <1>1, <1>2, <2>1
  <2>3. QED
    BY <1>2, <2>1, <2>2 DEF InOrder, Increasing
<1>4. Before(g, a) /\ Before(q, a)
  BY <1>2 DEF InOrder, Before
<1>5. QED
  BY <1>3, <1>4 DEF InOrder, a

-----------------------------------------------------------------------------
(* The inductive invariant.                                                *)

RecvOps == {NoOp, [op |-> "wait", n |-> 0]} \cup [op : {"some"}, n : Buffers]

\* The types, without the bounds of m_queue_size.
Types ==
    /\ now \in Nat /\ next_send \in Nat
    /\ life \in {"closed", "open", "bound", "undefined"}
    /\ fwd \in 0..MaxOpens /\ opens \in 0..MaxOpens
    /\ incoming \in Seq(Datagrams) /\ net \in Seq(Datagrams) /\ got \in Seq(Reads)
    /\ queue_size \in Int
    /\ recv_op \in RecvOps
    /\ wait_send \in BOOLEAN
    /\ timer \in [at : Nat, armed : BOOLEAN]
    /\ refs \in Seq({"ok", "operation_aborted"})
    /\ sent \in 0..MaxDatagrams

\* open() makes one forwarder per life of the socket, and a datagram carries the
\* forwarder of the life it was sent in.
OneForwarderPerLife ==
    /\ fwd = opens
    /\ life \in {"open", "bound"} => opens # 0
    /\ \A i \in DOMAIN net : net[i].fwd = net[i].opens

\* A number at least as large as that of every datagram of a sequence.
UpTo(s, n) == \A i \in DOMAIN s : s[i].id =< n

\* What is read, queued and in flight was sent in this order.
SentInOrder ==
    /\ InOrder(got, incoming, net)
    /\ UpTo(got, sent) /\ UpTo(incoming, sent) /\ UpTo(net, sent)

RecvInv == Types /\ OneForwarderPerLife /\ SentInOrder /\ ReaderAwake

\* While a wait for writing is pending, either the timer is armed or exactly one
\* call through the reference is posted; otherwise there is neither.
WaitHasOneCall ==
    /\ life # "undefined"
    /\ wait_send => \/ timer.armed /\ refs = <<>>
                    \/ ~timer.armed /\ Len(refs) = 1
    /\ ~wait_send => ~timer.armed /\ refs = <<>>

-----------------------------------------------------------------------------
(* The pieces actions are made of.                                         *)

LEMMA AbortTypes ==
    ASSUME Types
    PROVE  /\ Disarmed(timer) \in [at : Nat, armed : BOOLEAN]
           /\ Disarmed(timer).armed = FALSE
           /\ TimerCancelled(refs) \in Seq({"ok", "operation_aborted"})
           /\ SendAborted(refs) \in Seq({"ok", "operation_aborted"})
           /\ SendAborted(TimerCancelled(refs)) \in Seq({"ok", "operation_aborted"})
           /\ TimerCancelled(SendAborted(refs)) \in Seq({"ok", "operation_aborted"})
<1> DEFINE S == {"ok", "operation_aborted"}
<1>1. \A r \in Seq(S) : Append(r, "ok") \in Seq(S) /\ Append(r, "operation_aborted") \in Seq(S)
  OBVIOUS
<1>2. refs \in Seq(S) /\ timer \in [at : Nat, armed : BOOLEAN]
  BY DEF Types
<1> HIDE DEF S
<1>3. \A r \in Seq(S) : TimerCancelled(r) \in Seq(S)
  BY <1>1 DEF TimerCancelled
<1>4. \A r \in Seq(S) : SendAborted(r) \in Seq(S)
  BY <1>1 DEF SendAborted
<1>5. Disarmed(timer) \in [at : Nat, armed : BOOLEAN] /\ Disarmed(timer).armed = FALSE
  BY <1>2 DEF Disarmed
<1>6. QED
  BY <1>2, <1>3, <1>4, <1>5 DEF S

LEMMA CancelledTypes ==
    ASSUME Types, Cancelled
    PROVE  /\ next_send' \in Nat /\ recv_op' \in RecvOps /\ wait_send' \in BOOLEAN
           /\ timer' \in [at : Nat, armed : BOOLEAN]
           /\ refs' \in Seq({"ok", "operation_aborted"})
BY AbortTypes DEF Types, Cancelled, RecvOps

LEMMA RecvAbortedTypes ==
    ASSUME Types, RecvAborted
    PROVE  /\ next_send' \in Nat /\ wait_send' \in BOOLEAN
           /\ timer' \in [at : Nat, armed : BOOLEAN]
           /\ refs' \in Seq({"ok", "operation_aborted"})
BY AbortTypes DEF Types, RecvAborted

\* receive_from_impl() moves the first datagram of the queue to what is read.
LEMMA ReadFrontOrder ==
    ASSUME NEW q \in Seq(Datagrams), q # <<>>, NEW size \in Int, NEW n \in Buffers,
           NEW rest \in Seq(Datagrams), NEW m \in Nat, got \in Seq(Reads),
           ReadFront(q, size, n), InOrder(got, q, rest), UpTo(got, m), UpTo(q, m)
    PROVE  /\ incoming' \in Seq(Datagrams) /\ got' \in Seq(Reads) /\ queue_size' \in Int
           /\ InOrder(got', incoming', rest) /\ UpTo(got', m) /\ UpTo(incoming', m)
           /\ incoming' = Tail(q)
<1> DEFINE p == Head(q)
<1> DEFINE k == IF p.len < n THEN p.len ELSE n
<1> DEFINE e == [id |-> p.id, bytes |-> k]
<1>1. /\ Tail(q) \in Seq(Datagrams) /\ p \in Datagrams /\ p = q[1]
      /\ Len(q) \in Nat \ {0} /\ DOMAIN q = 1..Len(q) /\ DOMAIN Tail(q) = 1..(Len(q)-1)
      /\ \A i \in 1..(Len(q)-1) : Tail(q)[i] = q[i+1]
  BY TailElements
<1>2. p.len \in Nat /\ n \in Nat /\ p.id \in 1..MaxDatagrams
  BY <1>1, ConstantsAssumption DEF Datagrams
<1>3. k \in Nat
  BY <1>2
<1>4. e \in Reads /\ e.id = Head(q).id
  BY <1>2, <1>3 DEF Reads
<1>5. incoming' = Tail(q) /\ queue_size' = size - k /\ got' = Append(got, e)
  BY DEF ReadFront
<1> HIDE DEF e, k
<1>6. InOrder(got', incoming', rest)
  BY <1>4, <1>5, TakeOrder
<1>7. UpTo(incoming', m)
  BY <1>1, <1>5 DEF UpTo
<1>8. UpTo(got', m)
  <2>1. /\ Len(got) \in Nat /\ DOMAIN got = 1..Len(got)
        /\ DOMAIN Append(got, e) = 1..(Len(got)+1)
        /\ \A i \in 1..Len(got) : Append(got, e)[i] = got[i]
        /\ Append(got, e)[Len(got)+1] = e
    BY <1>4, AppendElements
  <2>2. e.id =< m
    BY <1>1, <1>4 DEF UpTo
  <2>3. ASSUME NEW i \in 1..(Len(got)+1) PROVE Append(got, e)[i].id =< m
    BY <2>1, <2>2, SMTT(30) DEF UpTo
  <2>4. QED
    BY <1>5, <2>1, <2>3 DEF UpTo
<1>9. QED
  BY <1>1, <1>3, <1>4, <1>5, <1>6, <1>7, <1>8

\* maybe_wakeup_reader(), with the datagram that has just been queued.
LEMMA WakeupOrder ==
    ASSUME RecvInv, NEW p \in Datagrams, NEW rest \in Seq(Datagrams),
           NEW size \in Int,
           maybe_wakeup_reader(Append(incoming, p), size),
           InOrder(got, Append(incoming, p), rest), p.id =< sent
    PROVE  /\ incoming' \in Seq(Datagrams) /\ got' \in Seq(Reads) /\ queue_size' \in Int
           /\ InOrder(got', incoming', rest) /\ UpTo(got', sent) /\ UpTo(incoming', sent)
           /\ recv_op' \in RecvOps /\ (recv_op' # NoOp => incoming' = <<>>)
<1> DEFINE q == Append(incoming, p)
<1>1. /\ q \in Seq(Datagrams) /\ q # <<>> /\ Len(q) = Len(incoming) + 1
      /\ Len(incoming) \in Nat /\ incoming \in Seq(Datagrams)
      /\ DOMAIN incoming = 1..Len(incoming) /\ DOMAIN q = 1..(Len(incoming)+1)
      /\ \A i \in 1..Len(incoming) : q[i] = incoming[i]
      /\ q[Len(incoming)+1] = p
  BY AppendElements DEF RecvInv, Types
<1>2. UpTo(q, sent)
  BY <1>1 DEF RecvInv, SentInOrder, UpTo
<1>3. got \in Seq(Reads) /\ sent \in Nat /\ UpTo(got, sent) /\ recv_op \in RecvOps
  BY ConstantsAssumption DEF RecvInv, Types, SentInOrder
<1>4. Len(q) # 1 => recv_op = NoOp
  BY <1>1 DEF RecvInv, ReaderAwake
<1>5. NoOp \in RecvOps
  BY DEF RecvOps
<1> HIDE DEF q
<1>6. CASE Len(q) # 1 \/ recv_op.op # "some"
  <2>1. incoming' = q /\ queue_size' = size /\ got' = got /\ recv_op' = NoOp
    BY <1>4, <1>6 DEF maybe_wakeup_reader, q
  <2>2. QED
    BY <1>1, <1>2, <1>3, <1>5, <2>1 DEF q
<1>7. CASE ~(Len(q) # 1 \/ recv_op.op # "some")
  <2>1. recv_op' = NoOp /\ ReadFront(q, size, recv_op.n)
    BY <1>7 DEF maybe_wakeup_reader, q
  <2>2. recv_op.n \in Buffers
    BY <1>3, <1>7 DEF RecvOps, NoOp
  <2>3. InOrder(got, q, rest)
    BY DEF q
  <2>4. QED
    BY <1>1, <1>2, <1>3, <1>5, <2>1, <2>2, <2>3, ReadFrontOrder
<1>8. QED
  BY <1>6, <1>7

-----------------------------------------------------------------------------

LEMMA RecvInit == Init => RecvInv
<1>1. Init => Types
  <2>1. NoOp \in RecvOps
    BY DEF RecvOps
  <2>2. 0 \in 0..MaxOpens /\ 0 \in 0..MaxDatagrams
    BY ConstantsAssumption
  <2>3. /\ <<>> \in Seq(Datagrams) /\ <<>> \in Seq(Reads)
        /\ <<>> \in Seq({"ok", "operation_aborted"})
        /\ [at |-> 0, armed |-> FALSE] \in [at : Nat, armed : BOOLEAN]
        /\ 0 \in Nat /\ 0 \in Int
    OBVIOUS
  <2>4. QED
    BY <2>1, <2>2, <2>3, Zenon DEF Init, Types
<1>2. Init => OneForwarderPerLife
  BY DEF Init, OneForwarderPerLife
<1>3. Init => SentInOrder /\ ReaderAwake
  BY DEF Init, SentInOrder, ReaderAwake, InOrder, Increasing, Before, UpTo
<1>4. QED
  BY <1>1, <1>2, <1>3 DEF RecvInv

\* An action that touches neither the datagrams nor the pending operation, or
\* only takes that away.
LEMMA RecvQuiet ==
    ASSUME RecvInv, UNCHANGED <<incoming, got, netVars>>,
           recv_op' = NoOp \/ recv_op' = recv_op
    PROVE  SentInOrder' /\ ReaderAwake'
BY DEF RecvInv, SentInOrder, ReaderAwake, InOrder, Increasing, Before, UpTo, netVars

\* open(), bind(), close(), cancel().
LEMMA LifeStep ==
    ASSUME RecvInv, open \/ bind \/ close \/ cancel
    PROVE  RecvInv'
<1>1. CASE open
  <2>1. Types'
    <3>1. opens' \in 0..MaxOpens /\ fwd' \in 0..MaxOpens
      BY <1>1, ConstantsAssumption DEF RecvInv, Types, OneForwarderPerLife, open
    <3>2. QED
      BY <1>1, <3>1, CancelledTypes DEF RecvInv, Types, open, netVars
  <2>2. OneForwarderPerLife'
    BY <1>1 DEF RecvInv, Types, OneForwarderPerLife, open, netVars
  <2>3. QED
    BY <1>1, <2>1, <2>2, RecvQuiet DEF RecvInv, open, Cancelled, netVars
<1>2. CASE bind
  <2>1. Types' /\ OneForwarderPerLife'
    BY <1>2 DEF RecvInv, Types, OneForwarderPerLife, bind, netVars, recvVars, sendVars
  <2>2. QED
    BY <1>2, <2>1, RecvQuiet DEF RecvInv, bind, netVars, recvVars
<1>3. CASE close
  <2>1. Types' /\ OneForwarderPerLife'
    BY <1>3, CancelledTypes DEF RecvInv, Types, OneForwarderPerLife, close, netVars
  <2>2. QED
    BY <1>3, <2>1, RecvQuiet DEF RecvInv, close, Cancelled, netVars
<1>4. CASE cancel
  <2>1. Types' /\ OneForwarderPerLife'
    BY <1>4, CancelledTypes DEF RecvInv, Types, OneForwarderPerLife, cancel, netVars, lifeVars
  <2>2. QED
    BY <1>4, <2>1, RecvQuiet DEF RecvInv, cancel, Cancelled, netVars
<1>5. QED
  BY <1>1, <1>2, <1>3, <1>4

\* A receive operation that reads the first datagram.
LEMMA ReadStep ==
    ASSUME RecvInv, NEW n \in Buffers, incoming # <<>>, RecvAborted,
           ReadFront(incoming, queue_size, n), recv_op' = NoOp,
           UNCHANGED <<now, lifeVars, netVars>>
    PROVE  RecvInv'
<1>1. /\ incoming' \in Seq(Datagrams) /\ got' \in Seq(Reads) /\ queue_size' \in Int
      /\ InOrder(got', incoming', net) /\ UpTo(got', sent) /\ UpTo(incoming', sent)
  BY ReadFrontOrder, ConstantsAssumption DEF RecvInv, Types, SentInOrder
<1>2. Types'
  BY <1>1, RecvAbortedTypes DEF RecvInv, Types, RecvOps, lifeVars, netVars
<1>3. OneForwarderPerLife'
  BY DEF RecvInv, OneForwarderPerLife, lifeVars, netVars
<1>4. SentInOrder'
  BY <1>1 DEF RecvInv, SentInOrder, netVars, InOrder, Increasing, Before, UpTo
<1>5. QED
  BY <1>2, <1>3, <1>4 DEF RecvInv, ReaderAwake

LEMMA ReceiveStep ==
    ASSUME RecvInv,
           async_wait_read \/ \E n \in Buffers : async_receive_from(n) \/ receive_from(n)
    PROVE  RecvInv'
<1>1. CASE UNCHANGED <<incoming, queue_size, got>> /\ recv_op' \in RecvOps
           /\ (recv_op' # NoOp => incoming = <<>>)
           /\ RecvAborted /\ UNCHANGED <<now, lifeVars, netVars>>
  <2>1. Types'
    BY <1>1, RecvAbortedTypes DEF RecvInv, Types, lifeVars, netVars
  <2>2. OneForwarderPerLife'
    BY <1>1 DEF RecvInv, OneForwarderPerLife, lifeVars, netVars
  <2>3. SentInOrder' /\ ReaderAwake'
    BY <1>1 DEF RecvInv, SentInOrder, ReaderAwake, InOrder, Increasing, Before, UpTo, netVars
  <2>4. QED
    BY <2>1, <2>2, <2>3 DEF RecvInv
<1>2. ASSUME NEW n \in Buffers, async_receive_from(n) PROVE RecvInv'
  <2>1. CASE incoming = <<>>
    BY <1>1, <1>2, <2>1 DEF async_receive_from, RecvOps
  <2>2. CASE incoming # <<>>
    BY <1>2, <2>2, ReadStep DEF async_receive_from
  <2>3. QED
    BY <2>1, <2>2
<1>3. ASSUME NEW n \in Buffers, receive_from(n) PROVE RecvInv'
  <2>1. CASE life # "bound" \/ incoming = <<>>
    BY <1>1, <1>3, <2>1 DEF receive_from, RecvOps
  <2>2. CASE ~(life # "bound" \/ incoming = <<>>)
    BY <1>3, <2>2, ReadStep DEF receive_from
  <2>3. QED
    BY <2>1, <2>2
<1>4. CASE async_wait_read
  BY <1>1, <1>4 DEF async_wait_read, RecvOps
<1>5. QED
  BY <1>2, <1>3, <1>4

LEMMA DeliverStep ==
    ASSUME RecvInv, Deliver
    PROVE  RecvInv'
<1> DEFINE p == Head(net)
<1>1. /\ Tail(net) \in Seq(Datagrams) /\ p \in Datagrams /\ p = net[1]
      /\ Len(net) \in Nat \ {0} /\ DOMAIN net = 1..Len(net)
      /\ DOMAIN Tail(net) = 1..(Len(net)-1)
      /\ \A i \in 1..(Len(net)-1) : Tail(net)[i] = net[i+1]
  BY TailElements DEF RecvInv, Types, Deliver
<1>2. /\ InOrder(got, incoming, Tail(net))
      /\ InOrder(got, Append(incoming, p), Tail(net))
  BY ArriveOrder DEF RecvInv, Types, SentInOrder, Deliver
<1>3. UpTo(Tail(net), sent) /\ p.id =< sent
  BY <1>1 DEF RecvInv, SentInOrder, UpTo
<1>4. \A i \in DOMAIN Tail(net) : Tail(net)[i].fwd = Tail(net)[i].opens
  BY <1>1 DEF RecvInv, OneForwarderPerLife
<1>5. net' = Tail(net) /\ sent' = sent /\ UNCHANGED <<now, lifeVars, sendVars>>
  BY DEF Deliver
<1>6. OneForwarderPerLife'
  BY <1>4, <1>5 DEF RecvInv, OneForwarderPerLife, lifeVars
<1>7. CASE UNCHANGED recvVars
  <2>1. Types'
    BY <1>1, <1>5, <1>7 DEF RecvInv, Types, lifeVars, sendVars, recvVars
  <2>2. SentInOrder' /\ ReaderAwake'
    BY <1>2, <1>3, <1>5, <1>7
       DEF RecvInv, SentInOrder, ReaderAwake, InOrder, Increasing, Before, UpTo, recvVars
  <2>3. QED
    BY <1>6, <2>1, <2>2 DEF RecvInv
<1>8. CASE maybe_wakeup_reader(Append(incoming, p), queue_size + p.len)
  <2>1. queue_size + p.len \in Int
    <3>1. p.len \in Nat
      BY <1>1, ConstantsAssumption DEF Datagrams
    <3>2. queue_size \in Int
      BY DEF RecvInv, Types
    <3> HIDE DEF p
    <3>3. QED
      BY <3>1, <3>2
  <2>2. /\ incoming' \in Seq(Datagrams) /\ got' \in Seq(Reads) /\ queue_size' \in Int
        /\ InOrder(got', incoming', Tail(net)) /\ UpTo(got', sent) /\ UpTo(incoming', sent)
        /\ recv_op' \in RecvOps /\ (recv_op' # NoOp => incoming' = <<>>)
    BY <1>1, <1>2, <1>3, <1>8, <2>1, WakeupOrder
  <2>3. Types'
    BY <1>1, <1>5, <2>2 DEF RecvInv, Types, lifeVars, sendVars
  <2>4. SentInOrder' /\ ReaderAwake'
    BY <1>3, <1>5, <2>2
       DEF SentInOrder, ReaderAwake, InOrder, Increasing, Before, UpTo
  <2>5. QED
    BY <1>6, <2>3, <2>4 DEF RecvInv
<1>9. QED
  BY <1>7, <1>8 DEF Deliver

LEMMA PeerSendsStep ==
    ASSUME RecvInv, NEW len \in Lens, PeerSends(len)
    PROVE  RecvInv'
<1> DEFINE p == [id |-> sent + 1, len |-> len, fwd |-> fwd, opens |-> opens]
<1>1. /\ net' = Append(net, p) /\ sent' = sent + 1 /\ life = "bound"
      /\ sent < MaxDatagrams /\ UNCHANGED <<now, lifeVars, recvVars, sendVars>>
  BY DEF PeerSends
<1>2. p \in Datagrams /\ sent' \in 0..MaxDatagrams /\ sent \in Nat /\ MaxDatagrams \in Nat
  BY <1>1, ConstantsAssumption, SMTT(30) DEF RecvInv, Types, OneForwarderPerLife, Datagrams
<1>3. p.id = sent + 1 /\ p.fwd = p.opens
  BY DEF RecvInv, OneForwarderPerLife
<1> HIDE DEF p
<1>4. /\ Append(net, p) \in Seq(Datagrams) /\ Len(net) \in Nat /\ DOMAIN net = 1..Len(net)
      /\ DOMAIN Append(net, p) = 1..(Len(net)+1)
      /\ \A i \in 1..Len(net) : Append(net, p)[i] = net[i]
      /\ Append(net, p)[Len(net)+1] = p
  BY <1>2, AppendElements DEF RecvInv, Types
<1>5. Types'
  BY <1>1, <1>2, <1>4 DEF RecvInv, Types, lifeVars, recvVars, sendVars
<1>6. OneForwarderPerLife'
  <2>1. ASSUME NEW i \in 1..(Len(net)+1)
        PROVE  Append(net, p)[i].fwd = Append(net, p)[i].opens
    BY <1>3, <1>4 DEF RecvInv, OneForwarderPerLife
  <2>2. QED
    BY <1>1, <1>4, <2>1 DEF RecvInv, OneForwarderPerLife, lifeVars
<1>7. got \in Seq(Reads) /\ incoming \in Seq(Datagrams) /\ net \in Seq(Datagrams)
  BY DEF RecvInv, Types
<1>8. /\ \A i \in DOMAIN got : got[i].id \in Nat
      /\ \A i \in DOMAIN incoming : incoming[i].id \in Nat
      /\ \A i \in DOMAIN net : net[i].id \in Nat
  BY <1>7, DatagramId, ReadId
<1>9. InOrder(got, incoming, Append(net, p))
  <2>1. /\ \A i \in DOMAIN got : got[i].id < p.id
        /\ \A i \in DOMAIN incoming : incoming[i].id < p.id
        /\ \A i \in DOMAIN net : net[i].id < p.id
    BY <1>2, <1>3, <1>8 DEF RecvInv, SentInOrder, UpTo
  <2>2. InOrder(got, incoming, net)
    BY DEF RecvInv, SentInOrder
  <2>3. QED
    BY <1>2, <1>7, <2>1, <2>2, SendOrder
<1>10. UpTo(got, sent+1) /\ UpTo(incoming, sent+1) /\ UpTo(Append(net, p), sent+1)
  <2>1. UpTo(got, sent+1) /\ UpTo(incoming, sent+1)
    BY <1>2, <1>8 DEF RecvInv, SentInOrder, UpTo
  <2>2. ASSUME NEW i \in 1..(Len(net)+1) PROVE Append(net, p)[i].id =< sent + 1
    BY <1>2, <1>3, <1>4, <1>8 DEF RecvInv, SentInOrder, UpTo
  <2>3. QED
    BY <1>4, <2>1, <2>2 DEF UpTo
<1>11. SentInOrder' /\ ReaderAwake'
  BY <1>1, <1>9, <1>10
     DEF RecvInv, SentInOrder, ReaderAwake, InOrder, Increasing, Before, UpTo, recvVars
<1>12. QED
  BY <1>5, <1>6, <1>11 DEF RecvInv

LEMMA NetDropStep ==
    ASSUME RecvInv, NEW k \in DOMAIN net, NetDrop(k)
    PROVE  RecvInv'
<1>1. net' = RemoveAt(net, k) /\ sent' = sent /\ UNCHANGED <<now, lifeVars, recvVars, sendVars>>
  BY DEF NetDrop
<1>2. /\ RemoveAt(net, k) \in Seq(Datagrams) /\ DOMAIN net = 1..Len(net) /\ Len(net) \in Nat
      /\ DOMAIN RemoveAt(net, k) = 1..(Len(net)-1)
      /\ \A i \in 1..(Len(net)-1) :
            RemoveAt(net, k)[i] = IF i < k THEN net[i] ELSE net[i+1]
  BY RemoveAtElements DEF RecvInv, Types
<1>3. Types'
  BY <1>1, <1>2 DEF RecvInv, Types, lifeVars, recvVars, sendVars
<1>4. OneForwarderPerLife'
  BY <1>1, <1>2 DEF RecvInv, OneForwarderPerLife, lifeVars
<1>5. InOrder(got, incoming, RemoveAt(net, k))
  BY DropOrder DEF RecvInv, Types, SentInOrder
<1>6. UpTo(RemoveAt(net, k), sent)
  BY <1>2 DEF RecvInv, SentInOrder, UpTo
<1>7. SentInOrder' /\ ReaderAwake'
  BY <1>1, <1>5, <1>6
     DEF RecvInv, SentInOrder, ReaderAwake, InOrder, Increasing, Before, UpTo, recvVars
<1>8. QED
  BY <1>3, <1>4, <1>7 DEF RecvInv

\* Sending and the wait for writing.
LEMMA SendStep ==
    ASSUME RecvInv,
           async_wait_write \/ Run \/ \E len \in Lens, routed \in BOOLEAN : send_to(len, routed)
    PROVE  RecvInv'
<1>1. ASSUME NEW len \in Lens, NEW routed \in BOOLEAN, send_to(len, routed) PROVE RecvInv'
  <2>1. next_send' \in Nat
    <3>1. TimePerByte * (len + Overhead) \in Nat
      BY ConstantsAssumption
    <3>2. QED
      BY <1>1, <3>1 DEF RecvInv, Types, send_to, Later
  <2>2. Types'
    BY <1>1, <2>1, AbortTypes DEF RecvInv, Types, send_to, recvVars, netVars
  <2>3. OneForwarderPerLife'
    BY <1>1 DEF RecvInv, Types, OneForwarderPerLife, send_to, netVars
  <2>4. QED
    BY <1>1, <2>2, <2>3, RecvQuiet DEF RecvInv, send_to, recvVars, netVars
<1>2. CASE async_wait_write
  <2>1. timer' \in [at : Nat, armed : BOOLEAN]
    <3> DEFINE t == next_send + SendQueueTime \div 2
    <3>1. t \in Nat
      BY ConstantsAssumption DEF RecvInv, Types
    <3>2. \/ timer' = [at |-> t, armed |-> TRUE]
          \/ timer' = timer
      BY <1>2 DEF async_wait_write
    <3>3. timer \in [at : Nat, armed : BOOLEAN]
      BY DEF RecvInv, Types
    <3>4. \A a \in Nat : [at |-> a, armed |-> TRUE] \in [at : Nat, armed : BOOLEAN]
      OBVIOUS
    <3> HIDE DEF t
    <3>5. CASE timer' = [at |-> t, armed |-> TRUE]
      BY <3>1, <3>4, <3>5
    <3>6. QED
      BY <3>2, <3>3, <3>5
  <2>2. Types'
    BY <1>2, <2>1, AbortTypes
       DEF RecvInv, Types, async_wait_write, recvVars, netVars, lifeVars
  <2>3. OneForwarderPerLife'
    BY <1>2 DEF RecvInv, OneForwarderPerLife, async_wait_write, netVars, lifeVars
  <2>4. QED
    BY <1>2, <2>2, <2>3, RecvQuiet DEF RecvInv, async_wait_write, recvVars, netVars
<1>3. CASE CallRef
  <2>1. Tail(refs) \in Seq({"ok", "operation_aborted"})
    BY <1>3 DEF RecvInv, Types, CallRef
  <2>2. Types' /\ OneForwarderPerLife'
    BY <1>3, <2>1 DEF RecvInv, Types, OneForwarderPerLife, CallRef, recvVars, netVars
  <2>3. QED
    BY <1>3, <2>2, RecvQuiet DEF RecvInv, CallRef, recvVars, netVars
<1>4. CASE FireTimer
  <2>1. <<"ok">> \in Seq({"ok", "operation_aborted"})
    OBVIOUS
  <2>2. timer' \in [at : Nat, armed : BOOLEAN]
    BY <1>4, AbortTypes DEF RecvInv, FireTimer
  <2>3. Types' /\ OneForwarderPerLife'
    BY <1>4, <2>1, <2>2
       DEF RecvInv, Types, OneForwarderPerLife, FireTimer, recvVars, netVars, lifeVars
  <2>4. QED
    BY <1>4, <2>3, RecvQuiet DEF RecvInv, FireTimer, recvVars, netVars
<1>5. CASE Tick
  <2>1. Types' /\ OneForwarderPerLife'
    BY <1>5 DEF RecvInv, Types, OneForwarderPerLife, Tick, recvVars, sendVars, netVars, lifeVars
  <2>2. QED
    BY <1>5, <2>1, RecvQuiet DEF RecvInv, Tick, recvVars, netVars
<1>6. QED
  BY <1>1, <1>2, <1>3, <1>4, <1>5 DEF Run

LEMMA RecvStep == RecvInv /\ [Next]_vars => RecvInv'
<1> SUFFICES ASSUME RecvInv, [Next]_vars PROVE RecvInv'
  OBVIOUS
<1>1. CASE open \/ bind \/ close \/ cancel
  BY <1>1, LifeStep
<1>2. CASE async_wait_read \/ \E n \in Buffers : async_receive_from(n) \/ receive_from(n)
  BY <1>2, ReceiveStep
<1>3. CASE async_wait_write \/ Run \/ \E len \in Lens, routed \in BOOLEAN : send_to(len, routed)
  BY <1>3, SendStep
<1>4. CASE Deliver
  BY <1>4, DeliverStep
<1>5. ASSUME NEW len \in Lens, PeerSends(len) PROVE RecvInv'
  BY <1>5, PeerSendsStep
<1>6. ASSUME NEW i \in DOMAIN net, NetDrop(i) PROVE RecvInv'
  BY <1>6, NetDropStep
<1>7. CASE UNCHANGED vars
  <2>1. Types' /\ OneForwarderPerLife'
    BY <1>7 DEF RecvInv, Types, OneForwarderPerLife, vars, recvVars, sendVars, netVars, lifeVars
  <2>2. QED
    BY <1>7, <2>1, RecvQuiet DEF RecvInv, vars, recvVars, netVars
<1>8. QED
  BY <1>1, <1>2, <1>3, <1>4, <1>5, <1>6, <1>7 DEF Next, User, Network

-----------------------------------------------------------------------------
(* What follows from it.                                                   *)

\* Every state of the socket satisfies the invariant of the receiving side,
\* whatever user code, the peer and the network do.
THEOREM ReceiveInvariance == Spec => []RecvInv
BY RecvInit, RecvStep, PTL DEF Spec

\* maybe_wakeup_reader() and the receive operations never leave an operation
\* pending beside a datagram that could complete it.
THEOREM ReaderNeverSleeps == Spec => []ReaderAwake
<1>1. RecvInv => ReaderAwake
  BY DEF RecvInv
<1>2. QED
  BY <1>1, ReceiveInvariance, PTL

\* What receive operations return was sent in that order and is returned once,
\* also over the drops of a hop, cancel(), close() and open().
THEOREM DatagramsReadInOrder == Spec => []ReadInOrder
<1>1. RecvInv => ReadInOrder
  BY DEF RecvInv, SentInOrder, InOrder, Increasing, ReadInOrder
<1>2. QED
  BY <1>1, ReceiveInvariance, PTL

\* close() and open() cut off the datagrams in flight: incoming_packet() only
\* gets what was sent to the present forwarder.
THEOREM ClosedSocketGetsNothing == Spec => OnlyCurrentDelivered
<1>1. ASSUME RecvInv, [Next]_vars
      PROVE  [(net' # net /\ recvVars' # recvVars
               => life # "closed" /\ Head(net).opens = opens)]_vars
  <2> SUFFICES ASSUME net' # net, recvVars' # recvVars
               PROVE  life # "closed" /\ Head(net).opens = opens
    OBVIOUS
  <2>1. Deliver
    <3>1. ~(UNCHANGED netVars) /\ ~(UNCHANGED recvVars)
      BY DEF netVars
    <3>2. ~(open \/ close \/ cancel \/ async_wait_read)
      BY <3>1 DEF open, close, cancel, async_wait_read, netVars
    <3>3. ~bind /\ ~async_wait_write /\ ~Run
      BY <3>1 DEF bind, async_wait_write, Run, CallRef, FireTimer, Tick
    <3>4. ASSUME NEW n \in Buffers PROVE ~(async_receive_from(n) \/ receive_from(n))
      BY <3>1 DEF async_receive_from, receive_from
    <3>5. ASSUME NEW len \in Lens, NEW routed \in BOOLEAN PROVE ~send_to(len, routed)
      BY <3>1 DEF send_to
    <3>6. ASSUME NEW len \in Lens PROVE ~PeerSends(len)
      BY <3>1 DEF PeerSends
    <3>7. ASSUME NEW i \in DOMAIN net PROVE ~NetDrop(i)
      BY <3>1 DEF NetDrop
    <3>8. ~(UNCHANGED vars)
      BY <3>1 DEF vars
    <3>9. QED
      BY <1>1, <3>2, <3>3, <3>4, <3>5, <3>6, <3>7, <3>8 DEF Next, User, Network
  <2>2. ~(life = "closed" \/ Head(net).fwd # fwd)
    BY <2>1 DEF Deliver, recvVars
  <2>3. 1 \in DOMAIN net /\ Head(net) = net[1]
    BY <1>1, <2>1, TailElements DEF Deliver, RecvInv, Types
  <2>4. QED
    BY <1>1, <2>2, <2>3 DEF RecvInv, OneForwarderPerLife
<1>2. QED
  BY <1>1, ReceiveInvariance, PTL DEF Spec, OnlyCurrentDelivered

-----------------------------------------------------------------------------
(* The wait for writing.                                                   *)

LEMMA WaitInit == Init => WaitHasOneCall
BY DEF Init, WaitHasOneCall

LEMMA WaitStep ==
    ASSUME AbortsWait = FALSE, RecvInv, WaitHasOneCall, [Next]_vars
    PROVE  WaitHasOneCall'
<1>0. refs \in Seq({"ok", "operation_aborted"}) /\ wait_send \in BOOLEAN
      /\ timer.armed \in BOOLEAN /\ Disarmed(timer).armed = FALSE
  BY AbortTypes DEF RecvInv, Types
<1>1. CASE Cancelled /\ life' # "undefined"
  <2>1. ~wait_send /\ ~timer.armed /\ refs = <<>>
    BY <1>0, <1>1 DEF Cancelled, MayAbortSend, WaitHasOneCall
  <2>2. QED
    BY <1>0, <1>1, <2>1 DEF Cancelled, WaitHasOneCall, TimerCancelled, SendAborted
<1>2. CASE RecvAborted /\ life' = life
  <2>1. CASE timer.armed
    BY <1>0, <1>2, <2>1 DEF RecvAborted, WaitHasOneCall, TimerCancelled
  <2>2. CASE ~timer.armed
    BY <1>0, <1>2, <2>2 DEF RecvAborted, WaitHasOneCall, TimerCancelled
  <2>3. QED
    BY <2>1, <2>2
<1>3. CASE life' # "undefined" /\ UNCHANGED <<wait_send, timer, refs>>
  BY <1>3 DEF WaitHasOneCall
<1>4. ASSUME NEW len \in Lens, NEW routed \in BOOLEAN, send_to(len, routed)
      PROVE  WaitHasOneCall'
  BY <1>0, <1>4 DEF send_to, MayAbortSend, SendAborted, WaitHasOneCall
<1>5. CASE async_wait_write
  BY <1>0, <1>5 DEF async_wait_write, MayAbortSend, SendAborted, TimerCancelled,
                    WaitHasOneCall, lifeVars
<1>6. CASE CallRef
  <2>1. wait_send /\ ~timer.armed /\ Len(refs) = 1
    BY <1>0, <1>6 DEF CallRef, WaitHasOneCall
  <2>2. Tail(refs) = <<>>
    <3>1. ASSUME NEW S, NEW s \in Seq(S), Len(s) = 1 PROVE Tail(s) = <<>>
      <4>1. Tail(s) \in Seq(S) /\ Len(Tail(s)) = 0
        BY <3>1
      <4>2. QED
        BY <4>1, EmptySeq
    <3>2. QED
      BY <1>0, <2>1, <3>1
  <2>3. QED
    BY <1>0, <1>6, <2>1, <2>2 DEF CallRef, WaitHasOneCall
<1>7. CASE FireTimer
  BY <1>0, <1>7 DEF FireTimer, WaitHasOneCall, lifeVars
<1>8. CASE open \/ close \/ cancel
  BY <1>1, <1>8 DEF open, close, cancel, lifeVars
<1>9. CASE async_wait_read \/ \E n \in Buffers : async_receive_from(n) \/ receive_from(n)
  BY <1>2, <1>9 DEF async_wait_read, async_receive_from, receive_from, lifeVars
<1>10. CASE bind \/ Network \/ Tick \/ UNCHANGED vars
  BY <1>3, <1>10 DEF WaitHasOneCall, bind, Network, Deliver, PeerSends, NetDrop, Tick,
                     vars, lifeVars, sendVars
<1>11. QED
  BY <1>4, <1>5, <1>6, <1>7, <1>8, <1>9, <1>10 DEF Next, User, Run

\* When user code makes no call that aborts a wait for writing, the timer that
\* holds a reference to m_wait_send_handler calls it exactly once: the assert of
\* function::operator() never fails.
THEOREM WaitHandlerIsSet == AbortsWait = FALSE => (Spec => []HandlerIsSet)
<1> SUFFICES ASSUME AbortsWait = FALSE PROVE Spec => []HandlerIsSet
  OBVIOUS
<1>1. RecvInv /\ WaitHasOneCall /\ [Next]_vars => WaitHasOneCall'
  BY WaitStep
<1>2. WaitHasOneCall => HandlerIsSet
  BY DEF WaitHasOneCall, HandlerIsSet
<1>3. QED
  BY <1>1, <1>2, WaitInit, ReceiveInvariance, PTL DEF Spec

=============================================================================
