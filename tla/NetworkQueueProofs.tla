------------------------- MODULE NetworkQueueProofs -------------------------
(***************************************************************************)
(* Proofs about NetworkQueue, for every set of packet sizes, limit, delay  *)
(* and rate: the byte count of the queue and its tail drop are exact, and, *)
(* when the next hop does not answer through the same queue, the queue has *)
(* one continuation as long as it holds packets and implements DelayLine.  *)
(***************************************************************************)
EXTENDS NetworkQueue, WellFoundedInduction, TLAPS

-----------------------------------------------------------------------------
(* The bytes of the packets of a queue.                                    *)

\* A set of numbers that is not empty has a least element.
LEMMA LeastNumber ==
    ASSUME NEW T, T \subseteq Nat, T # {}
    PROVE  \E x \in T : \A y \in T : x =< y
<1> DEFINE R == {ss \in Nat \X Nat : ss[1] < ss[2]}
<1>1. IsWellFoundedOn(R, Nat)
  BY NatLessThanWellFounded DEF OpToRel
<1>2. \A x, y \in T : y < x => <<y, x>> \in R
  OBVIOUS
<1> HIDE DEF R
<1>3. PICK x \in T : \A y \in T : <<y, x>> \notin R
  BY <1>1, WFMin, Zenon
<1>4. \A y \in T : ~(y < x)
  BY <1>2, <1>3, Zenon
<1>5. QED
  BY <1>4

\* Induction over the numbers up to N, as a statement about a set.
LEMMA UpToInduction ==
    ASSUME NEW N \in Nat, NEW T, 0 \in T,
           \A n \in 1..N : n-1 \in T => n \in T
    PROVE  0..N \subseteq T
<1> DEFINE X == (0..N) \ T
<1>1. SUFFICES ASSUME X # {} PROVE FALSE
  OBVIOUS
<1>2. PICK x \in X : \A y \in X : x =< y
  <2>1. X \subseteq Nat
    OBVIOUS
  <2> HIDE DEF X
  <2>2. QED
    BY <1>1, <2>1, LeastNumber, Zenon
<1>3. x \in 1..N /\ x-1 \notin X
  BY <1>2
<1>4. QED
  BY <1>3

LEMMA SizeIsNat ==
    ASSUME NEW q \in Seq(TimedPackets), NEW i \in 1..Len(q)
    PROVE  q[i] \in TimedPackets /\ q[i].size \in Nat
<1>1. q[i] \in TimedPackets
  OBVIOUS
<1>2. QED
  BY <1>1, ConstantsAssumption DEF TimedPackets

\* The sums that SizeUpTo() is made of.
IsSum(f, q) == f = [i \in 0..Len(q) |-> IF i = 0 THEN 0 ELSE f[i-1] + q[i].size]

LEMMA SumExists ==
    ASSUME NEW q \in Seq(TimedPackets)
    PROVE  \E f \in [0..Len(q) -> Nat] : IsSum(f, q)
<1> DEFINE Sums(n) ==
        {f \in [0..n -> Nat] : \A i \in 0..n : f[i] = IF i = 0 THEN 0 ELSE f[i-1] + q[i].size}
<1> DEFINE T == {n \in 0..Len(q) : Sums(n) # {}}
<1>1. 0 \in T
  <2>1. [i \in 0..0 |-> 0] \in Sums(0)
    OBVIOUS
  <2>2. QED
    BY <2>1
<1>2. ASSUME NEW n \in 1..Len(q), n-1 \in T
      PROVE  n \in T
  <2>1. PICK f \in Sums(n-1) : TRUE
    BY <1>2
  <2>2. q[n].size \in Nat
    BY SizeIsNat
  <2> DEFINE g == [i \in 0..n |-> IF i = n THEN f[n-1] + q[n].size ELSE f[i]]
  <2>3. g \in [0..n -> Nat]
    BY <2>1, <2>2
  <2>4. \A i \in 0..n : g[i] = IF i = 0 THEN 0 ELSE g[i-1] + q[i].size
    BY <2>1
  <2>5. QED
    BY <2>3, <2>4
<1>3. Len(q) \in T
  <2>1. \A n \in 1..Len(q) : n-1 \in T => n \in T
    BY <1>2
  <2>2. Len(q) \in Nat
    OBVIOUS
  <2> HIDE DEF T
  <2>3. 0..Len(q) \subseteq T
    BY <1>1, <2>1, <2>2, UpToInduction, Zenon
  <2>4. QED
    BY <2>2, <2>3
<1>4. PICK f \in Sums(Len(q)) : TRUE
  BY <1>3
<1>5. IsSum(f, q)
  BY <1>4 DEF IsSum
<1>6. QED
  BY <1>4, <1>5

LEMMA SizeUpToStep ==
    ASSUME NEW q \in Seq(TimedPackets)
    PROVE  /\ SizeUpTo(q, 0) = 0
           /\ \A i \in 1..Len(q) : SizeUpTo(q, i) = SizeUpTo(q, i-1) + q[i].size
           /\ \A i \in 0..Len(q) : SizeUpTo(q, i) \in Nat
<1> DEFINE f == CHOOSE sum : sum = [i \in 0..Len(q) |-> IF i = 0 THEN 0 ELSE sum[i-1] + q[i].size]
<1>1. IsSum(f, q)
  BY SumExists DEF IsSum
<1>2. \A i : SizeUpTo(q, i) = f[i]
  BY DEF SizeUpTo
<1> HIDE DEF f
<1>3. \A i \in 0..Len(q) : f[i] = IF i = 0 THEN 0 ELSE f[i-1] + q[i].size
  BY <1>1 DEF IsSum
<1>4. \A i \in 1..Len(q) : q[i].size \in Nat
  BY SizeIsNat
<1> DEFINE T == {i \in 0..Len(q) : f[i] \in Nat}
<1>5. \A n \in 1..Len(q) : n-1 \in T => n \in T
  BY <1>3, <1>4
<1>6. 0..Len(q) \subseteq T
  <2>1. 0 \in T
    BY <1>3
  <2>2. Len(q) \in Nat
    OBVIOUS
  <2> HIDE DEF T
  <2>3. QED
    BY <2>1, <2>2, <1>5, UpToInduction, Zenon
<1>7. \A i \in 0..Len(q) : f[i] \in Nat
  BY <1>6
<1>8. f[0] = 0 /\ \A i \in 1..Len(q) : f[i] = f[i-1] + q[i].size
  BY <1>3
<1>9. QED
  BY <1>2, <1>7, <1>8, Zenon

LEMMA SizeAppend ==
    ASSUME NEW q \in Seq(TimedPackets), NEW p \in TimedPackets
    PROVE  /\ \A i \in 0..Len(q) : SizeUpTo(Append(q, p), i) = SizeUpTo(q, i)
           /\ SizeOf(Append(q, p)) = SizeOf(q) + p.size
<1> DEFINE a == Append(q, p)
<1>1. a \in Seq(TimedPackets) /\ Len(a) = Len(q) + 1 /\ a[Len(a)] = p
  OBVIOUS
<1>2. \A i \in 1..Len(q) : a[i] = q[i]
  OBVIOUS
<1>3. Len(q) \in Nat
  OBVIOUS
<1> HIDE DEF a
<1> DEFINE T == {i \in 0..Len(q) : SizeUpTo(a, i) = SizeUpTo(q, i)}
<1>4. 0 \in T
  BY <1>1, <1>3, SizeUpToStep
<1>5. ASSUME NEW n \in 1..Len(q), n-1 \in T
      PROVE  n \in T
  <2>1. n \in 1..Len(a)
    BY <1>1, <1>3
  <2>2. SizeUpTo(a, n) = SizeUpTo(a, n-1) + a[n].size
    BY <2>1, <1>1, SizeUpToStep
  <2>3. SizeUpTo(q, n) = SizeUpTo(q, n-1) + q[n].size
    BY SizeUpToStep
  <2>4. QED
    BY <1>2, <1>5, <2>2, <2>3
<1>6. \A n \in 1..Len(q) : n-1 \in T => n \in T
  BY <1>5
<1> HIDE DEF T
<1>7. 0..Len(q) \subseteq T
  BY <1>3, <1>4, <1>6, UpToInduction, Zenon
<1>8. \A i \in 0..Len(q) : SizeUpTo(a, i) = SizeUpTo(q, i)
  BY <1>7 DEF T
<1>9. SizeUpTo(a, Len(a)) = SizeUpTo(a, Len(q)) + p.size
  <2>1. Len(a) \in 1..Len(a) /\ Len(a) - 1 = Len(q)
    BY <1>1, <1>3
  <2>2. QED
    BY <2>1, <1>1, SizeUpToStep
<1>10. QED
  BY <1>3, <1>8, <1>9 DEF SizeOf, a

LEMMA SizeTail ==
    ASSUME NEW q \in Seq(TimedPackets), q # <<>>
    PROVE  /\ \A i \in 0..Len(Tail(q)) : SizeUpTo(q, i+1) = SizeUpTo(Tail(q), i) + Head(q).size
           /\ SizeOf(q) = SizeOf(Tail(q)) + Head(q).size
<1> DEFINE t == Tail(q)
<1>1. t \in Seq(TimedPackets) /\ Len(q) = Len(t) + 1 /\ Head(q) = q[1]
  OBVIOUS
<1>2. \A i \in 1..Len(t) : t[i] = q[i+1]
  OBVIOUS
<1>3. Len(t) \in Nat
  OBVIOUS
<1> HIDE DEF t
<1> DEFINE T == {i \in 0..Len(t) : SizeUpTo(q, i+1) = SizeUpTo(t, i) + q[1].size}
<1>4. 0 \in T
  <2>1. SizeUpTo(q, 1) = SizeUpTo(q, 0) + q[1].size
    BY <1>1, <1>3, SizeUpToStep
  <2>2. SizeUpTo(q, 0) = 0 /\ SizeUpTo(t, 0) = 0
    BY <1>1, SizeUpToStep
  <2>3. QED
    BY <1>3, <2>1, <2>2
<1>5. ASSUME NEW n \in 1..Len(t), n-1 \in T
      PROVE  n \in T
  <2>1. n+1 \in 1..Len(q) /\ (n+1)-1 = n /\ (n-1)+1 = n
    BY <1>1, <1>3
  <2>2. SizeUpTo(q, n+1) = SizeUpTo(q, n) + q[n+1].size
    BY <2>1, SizeUpToStep
  <2>3. SizeUpTo(t, n) = SizeUpTo(t, n-1) + t[n].size
    BY <1>1, SizeUpToStep
  <2>4. SizeUpTo(q, n) = SizeUpTo(t, n-1) + q[1].size
    BY <1>5, <2>1
  <2>5. SizeUpTo(t, n-1) \in Nat /\ q[1].size \in Nat /\ t[n].size \in Nat
    BY <1>1, <1>3, SizeUpToStep, SizeIsNat
  <2>6. QED
    BY <1>2, <2>2, <2>3, <2>4, <2>5, SMTT(30)
<1>6. \A n \in 1..Len(t) : n-1 \in T => n \in T
  BY <1>5
<1> HIDE DEF T
<1>7. 0..Len(t) \subseteq T
  BY <1>3, <1>4, <1>6, UpToInduction, Zenon
<1>8. \A i \in 0..Len(t) : SizeUpTo(q, i+1) = SizeUpTo(t, i) + q[1].size
  BY <1>7 DEF T
<1>9. SizeOf(q) = SizeOf(t) + q[1].size
  BY <1>1, <1>3, <1>8 DEF SizeOf
<1>10. QED
  BY <1>1, <1>8, <1>9 DEF t

-----------------------------------------------------------------------------
(* The byte count and the tail drop.                                       *)

BytesInv == TypeOK /\ WithinLimit

\* begin_send_next_packet() keeps the timer and what is posted well typed.
LEMMA BeginType ==
    ASSUME TypeOK, NEW q \in Seq(TimedPackets), q # <<>>,
           NEW pst \in Seq(Continuations), begin_send_next_packet(q, pst)
    PROVE  /\ timer' \in [at : Nat, cb : Continuations \cup {"none"}]
           /\ posted' \in Seq(Continuations)
<1>1. Head(q) \in TimedPackets
  OBVIOUS
<1>2. Head(q).ts \in Nat /\ Head(q).size \in Nat
  BY <1>1, ConstantsAssumption DEF TimedPackets
<1>3. now \in Nat /\ now + TimePerByte * Head(q).size \in Nat
  <2>1. \A n \in Nat : TimePerByte * n \in Nat
    BY ConstantsAssumption
  <2> DEFINE t == TimePerByte * Head(q).size
  <2>2. t \in Nat
    BY <1>2, <2>1, Zenon
  <2> HIDE DEF t
  <2>3. now \in Nat /\ now + t \in Nat
    BY <2>2 DEF TypeOK
  <2>4. QED
    BY <2>3 DEF t
<1>4. timer \in [at : Nat, cb : Continuations \cup {"none"}]
  BY DEF TypeOK
<1>5. \A c \in Continuations : Append(pst, c) \in Seq(Continuations)
  OBVIOUS
<1>6. "begin" \in Continuations /\ "sent" \in Continuations
  BY DEF Continuations
<1>7. ASSUME NEW x \in Nat, NEW cb \in Continuations, ArmTimer(x, cb, pst)
      PROVE  /\ timer' \in [at : Nat, cb : Continuations \cup {"none"}]
             /\ posted' \in Seq(Continuations)
  BY <1>4, <1>5, <1>7 DEF ArmTimer
<1>8. \/ ArmTimer(Head(q).ts, "begin", pst)
      \/ posted' = Append(pst, "sent") /\ timer' = timer
      \/ ArmTimer(now + TimePerByte * Head(q).size, "sent", pst)
  BY DEF begin_send_next_packet
<1>9. QED
  BY <1>2, <1>3, <1>4, <1>5, <1>6, <1>7, <1>8

LEMMA InitBytesInv == Init => BytesInv
<1>1. SUFFICES ASSUME Init PROVE BytesInv
  OBVIOUS
<1>2. TypeOK
  BY <1>1 DEF Init, TypeOK, NoHandler, Continuations
<1>3. SizeOf(<<>>) = 0
  <2>1. <<>> \in Seq(TimedPackets) /\ Len(<<>>) = 0
    OBVIOUS
  <2>2. QED
    BY <2>1, SizeUpToStep DEF SizeOf
<1>4. QED
  BY <1>1, <1>2, <1>3 DEF Init, BytesInv, WithinLimit, QueueSizeIsSum, DroppableFits

LEMMA AcceptBytesInv ==
    ASSUME BytesInv, NEW n \in Sizes, NEW droppable \in BOOLEAN,
           AcceptPacket(n, droppable)
    PROVE  BytesInv'
<1> DEFINE p == [id |-> arrived', size |-> n, droppable |-> droppable,
                 ts |-> now + Latency, leave |-> lastLeave']
<1>1. TypeOK /\ QueueSizeIsSum /\ DroppableFits
  BY DEF BytesInv, WithinLimit
<1>2. /\ ~TailDrop(n, droppable)
      /\ queue' = Append(queue, p)
      /\ queue_size' = queue_size + n
      /\ arrived' = arrived + 1
      /\ UNCHANGED <<now, ctx, gone>>
      /\ ctx # "undefined"
  BY DEF AcceptPacket, MayArrive
<1>3. n \in Nat /\ arrived' \in Nat /\ now + Latency \in Nat
  BY <1>1, <1>2, ConstantsAssumption DEF TypeOK
<1>4. lastLeave' \in Nat
  <2>1. TimePerByte * n \in Nat
    BY <1>3, ConstantsAssumption
  <2>2. lastLeave' = Line!LeaveTime(now, lastLeave, n)
    BY DEF AcceptPacket
  <2>3. QED
    BY <1>1, <1>3, <2>1, <2>2 DEF TypeOK, Line!LeaveTime, Line!Later
<1>5. p \in TimedPackets
  BY <1>3, <1>4 DEF TimedPackets
<1> HIDE DEF p
<1>6. queue' \in Seq(TimedPackets) /\ queue' # <<>>
  BY <1>1, <1>2, <1>5, SMTT(30) DEF TypeOK
<1>7. TypeOK'
  <2>1. /\ timer' \in [at : Nat, cb : Continuations \cup {"none"}]
        /\ posted' \in Seq(Continuations)
    <3>1. CASE queue = <<>>
      <4>1. begin_send_next_packet(queue', posted)
        BY <3>1 DEF AcceptPacket
      <4>2. posted \in Seq(Continuations)
        BY <1>1 DEF TypeOK
      <4>3. QED
        BY <1>1, <1>6, <4>1, <4>2, BeginType
    <3>2. CASE queue # <<>>
      BY <1>1, <3>2 DEF AcceptPacket, TypeOK
    <3>3. QED
      BY <3>1, <3>2
  <2>2. QED
    BY <1>1, <1>2, <1>3, <1>4, <1>6, <2>1 DEF TypeOK
<1>8. queue \in Seq(TimedPackets) /\ Len(queue) \in Nat /\ p.size = n
      /\ p.droppable = droppable
  BY <1>1 DEF TypeOK, p
<1>9. QueueSizeIsSum'
  BY <1>1, <1>2, <1>5, <1>8, SizeAppend DEF QueueSizeIsSum
<1>10. DroppableFits'
  <2>1. SUFFICES ASSUME MaxQueueSize > 0, NEW i \in DOMAIN queue', queue'[i].droppable
                 PROVE  SizeUpTo(queue', i) =< MaxQueueSize
    BY DEF DroppableFits
  <2>2. CASE i \in 1..Len(queue)
    <3>1. queue'[i] = queue[i] /\ SizeUpTo(queue', i) = SizeUpTo(queue, i)
      BY <1>2, <1>5, <1>8, <2>2, SizeAppend
    <3>2. QED
      BY <1>1, <1>8, <2>1, <2>2, <3>1 DEF DroppableFits
  <2>3. CASE i = Len(queue) + 1
    <3>1. queue'[i] = p /\ i = Len(queue')
      BY <1>2, <1>8, <2>3
    <3>2. SizeUpTo(queue', i) = queue_size + n
      BY <1>2, <1>9, <3>1 DEF QueueSizeIsSum, SizeOf
    <3>3. QED
      BY <1>1, <1>2, <1>3, <1>8, <2>1, <3>1, <3>2, ConstantsAssumption DEF TailDrop, TypeOK
  <2>4. QED
    BY <1>2, <1>8, <2>1, <2>2, <2>3
<1>11. QED
  BY <1>7, <1>9, <1>10 DEF BytesInv, WithinLimit

LEMMA SentBytesInv ==
    ASSUME BytesInv, RunSent
    PROVE  BytesInv'
<1>1. TypeOK /\ QueueSizeIsSum /\ DroppableFits
  BY DEF BytesInv, WithinLimit
<1>2. CASE queue = <<>>
  <2>1. TypeOK'
    BY <1>1, <1>2 DEF RunSent, TypeOK
  <2>2. QED
    BY <1>1, <1>2, <2>1 DEF RunSent, BytesInv, WithinLimit, QueueSizeIsSum, DroppableFits
<1>3. CASE queue # <<>>
  <2> DEFINE p == Head(queue)
  <2>1. /\ queue' = Tail(queue)
        /\ queue_size' = queue_size - p.size
        /\ posted' = Tail(posted) /\ posted # <<>>
        /\ gone' = Append(gone, [id |-> p.id, size |-> p.size, ts |-> p.ts, at |-> now])
        /\ ctx = "idle" /\ ctx' = "forwarding"
        /\ UNCHANGED <<now, timer, arrived, lastLeave>>
    BY <1>3 DEF RunSent
  <2>2. queue \in Seq(TimedPackets) /\ queue' \in Seq(TimedPackets) /\ p \in TimedPackets
    BY <1>1, <1>3, <2>1 DEF TypeOK
  <2>3. p.size \in Nat /\ p.size \in Sizes /\ p.id \in Nat /\ p.ts \in Nat
    BY <2>2, ConstantsAssumption DEF TimedPackets
  <2> HIDE DEF p
  <2>4. queue_size = SizeOf(queue') + p.size /\ SizeOf(queue') \in Nat
    <3>1. SizeOf(queue) = SizeOf(queue') + p.size
      BY <1>3, <2>1, <2>2, SizeTail DEF p
    <3>2. SizeOf(queue') \in Nat
      BY <2>2, SizeUpToStep DEF SizeOf
    <3>3. QED
      BY <1>1, <2>1, <3>1, <3>2 DEF QueueSizeIsSum
  <2>5. queue_size' = SizeOf(queue') /\ queue_size' \in Nat
    BY <2>1, <2>3, <2>4
  <2>6. TypeOK'
    <3>1. posted' \in Seq(Continuations)
      BY <1>1, <2>1 DEF TypeOK
    <3>2. gone' \in Seq([id : Nat, size : Sizes, ts : Nat, at : Nat])
      <4>1. [id |-> p.id, size |-> p.size, ts |-> p.ts, at |-> now]
               \in [id : Nat, size : Sizes, ts : Nat, at : Nat]
        BY <1>1, <2>3 DEF TypeOK
      <4>2. QED
        BY <1>1, <2>1, <4>1 DEF TypeOK
    <3>3. QED
      BY <1>1, <2>1, <2>2, <2>5, <3>1, <3>2 DEF TypeOK
  <2>7. DroppableFits'
    <3>1. SUFFICES ASSUME MaxQueueSize > 0, NEW i \in DOMAIN queue', queue'[i].droppable
                   PROVE  SizeUpTo(queue', i) =< MaxQueueSize
      BY DEF DroppableFits
    <3>2. queue'[i] = queue[i+1] /\ i+1 \in DOMAIN queue /\ i \in 0..Len(Tail(queue))
      BY <1>3, <2>1, <2>2
    <3>3. SizeUpTo(queue, i+1) = SizeUpTo(queue', i) + p.size
      BY <1>3, <2>1, <2>2, <3>2, SizeTail DEF p
    <3>4. SizeUpTo(queue, i+1) =< MaxQueueSize
      BY <1>1, <3>1, <3>2 DEF DroppableFits
    <3>5. SizeUpTo(queue', i) \in Nat
      BY <2>1, <2>2, <3>2, SizeUpToStep
    <3>6. QED
      BY <2>3, <3>3, <3>4, <3>5, ConstantsAssumption
  <2>8. QED
    BY <2>5, <2>6, <2>7 DEF BytesInv, WithinLimit, QueueSizeIsSum
<1>4. QED
  BY <1>2, <1>3

LEMMA NextBytesInv == BytesInv /\ [Next]_vars => BytesInv'
<1>1. SUFFICES ASSUME BytesInv, [Next]_vars PROVE BytesInv'
  OBVIOUS
<1>2. TypeOK /\ QueueSizeIsSum /\ DroppableFits
  BY <1>1 DEF BytesInv, WithinLimit
<1>3. ASSUME UNCHANGED <<queue, queue_size>>, ctx' = "undefined" \/ ctx # "undefined",
             TypeOK'
      PROVE  BytesInv'
  BY <1>2, <1>3 DEF BytesInv, WithinLimit, QueueSizeIsSum, DroppableFits
<1>4. ASSUME NEW n \in Sizes, DropPacket(n)
      PROVE  BytesInv'
  BY <1>2, <1>3, <1>4 DEF DropPacket, MayArrive, TypeOK
<1>5. ASSUME NEW n \in Sizes, NEW d \in BOOLEAN, AcceptPacket(n, d)
      PROVE  BytesInv'
  BY <1>1, <1>5, AcceptBytesInv
<1>6. CASE RunBegin
  <2>1. UNCHANGED <<now, queue, queue_size, arrived, lastLeave, gone>> /\ ctx = "idle"
        /\ ctx' \in {"idle", "undefined"}
    BY <1>6 DEF RunBegin
  <2>2. /\ timer' \in [at : Nat, cb : Continuations \cup {"none"}]
        /\ posted' \in Seq(Continuations)
    <3>1. CASE queue = <<>>
      BY <1>2, <1>6, <3>1 DEF RunBegin, TypeOK
    <3>2. CASE queue # <<>>
      <4>1. queue \in Seq(TimedPackets) /\ Tail(posted) \in Seq(Continuations)
        BY <1>2, <1>6 DEF RunBegin, TypeOK
      <4>2. begin_send_next_packet(queue, Tail(posted))
        BY <1>6, <3>2 DEF RunBegin
      <4>3. QED
        BY <1>2, <3>2, <4>1, <4>2, BeginType
    <3>3. QED
      BY <3>1, <3>2
  <2>3. TypeOK'
    BY <1>2, <2>1, <2>2 DEF TypeOK
  <2>4. QED
    BY <1>3, <2>1, <2>3
<1>7. CASE RunSent
  BY <1>1, <1>7, SentBytesInv
<1>8. CASE ForwardReturns
  <2>1. UNCHANGED <<now, queue, queue_size, arrived, lastLeave, gone>> /\ ctx = "forwarding"
        /\ ctx' = "idle"
    BY <1>8 DEF ForwardReturns
  <2>2. /\ timer' \in [at : Nat, cb : Continuations \cup {"none"}]
        /\ posted' \in Seq(Continuations)
    <3>1. CASE queue = <<>>
      BY <1>2, <1>8, <3>1 DEF ForwardReturns, TypeOK
    <3>2. CASE queue # <<>>
      <4>1. queue \in Seq(TimedPackets) /\ posted \in Seq(Continuations)
        BY <1>2 DEF TypeOK
      <4>2. begin_send_next_packet(queue, posted)
        BY <1>8, <3>2 DEF ForwardReturns
      <4>3. QED
        BY <1>2, <3>2, <4>1, <4>2, BeginType
    <3>3. QED
      BY <3>1, <3>2
  <2>3. TypeOK'
    BY <1>2, <2>1, <2>2 DEF TypeOK
  <2>4. QED
    BY <1>3, <2>1, <2>3
<1>9. CASE FireTimer
  <2>1. timer.cb \in Continuations
    BY <1>2, <1>9 DEF FireTimer, TypeOK
  <2>2. TypeOK'
    BY <1>2, <1>9, <2>1 DEF FireTimer, TypeOK, NoHandler
  <2>3. QED
    BY <1>3, <1>9, <2>2 DEF FireTimer
<1>10. CASE Tick
  BY <1>2, <1>3, <1>10 DEF Tick, TypeOK
<1>11. CASE UNCHANGED vars
  BY <1>2, <1>11 DEF vars, TypeOK, BytesInv, WithinLimit, QueueSizeIsSum, DroppableFits
<1>12. QED
  BY <1>1, <1>4, <1>5, <1>6, <1>7, <1>8, <1>9, <1>10, <1>11 DEF Next, Arrive, Run

\* m_queue_size is exactly the number of bytes queued, and tail drop lets a packet
\* that may be dropped in only if it fits, whatever arrives and whatever the limit,
\* the delay and the rate; also when the next hop is reentrant.
THEOREM QueueWithinLimit == Spec => []WithinLimit
<1>1. Spec => []BytesInv
  BY InitBytesInv, NextBytesInv, PTL DEF Spec
<1>2. QED
  BY <1>1, PTL DEF BytesInv

-----------------------------------------------------------------------------
(* The continuations of a queue and the leave times of its packets, when   *)
(* the next hop does not answer through the same queue.                    *)

SendTime(n) == TimePerByte * n

\* A packet leaves when its own bytes are sent, after its delay and after the
\* packet ahead of it; the packet accepted last leaves last.
LeaveTimesChained ==
    /\ \A i \in DOMAIN queue :
          /\ queue[i].ts + SendTime(queue[i].size) =< queue[i].leave
          /\ i > 1 => queue[i].leave =
                        Line!Later(queue[i].ts, queue[i-1].leave) + SendTime(queue[i].size)
    /\ IF queue = <<>> THEN lastLeave =< now ELSE lastLeave = queue[Len(queue)].leave

\* The packet p waits for its delay to pass, and then leaves without waiting for
\* another one.
Waits(p) == now =< p.ts /\ p.leave = p.ts + SendTime(p.size)

\* The one continuation that is outstanding, on the timer or posted, and the time it
\* is due: when the delay of the first packet is over or when that packet leaves.
\* While forward_packet() runs there is none.
Scheduled ==
    \/ /\ ctx \in {"idle", "forwarding"}
       /\ queue = <<>> /\ posted = <<>> /\ timer.cb = "none"
    \/ /\ ctx = "forwarding"
       /\ queue # <<>> /\ posted = <<>> /\ timer.cb = "none"
       /\ Head(queue).leave = Line!Later(Head(queue).ts, now) + SendTime(Head(queue).size)
    \/ /\ ctx = "idle"
       /\ queue # <<>> /\ posted = <<>>
       /\ timer.cb = "begin" /\ timer.at = Head(queue).ts /\ Waits(Head(queue))
    \/ /\ ctx = "idle"
       /\ queue # <<>> /\ posted = <<"begin">>
       /\ timer.cb = "none" /\ now = Head(queue).ts /\ Waits(Head(queue))
    \/ /\ ctx = "idle"
       /\ queue # <<>> /\ posted = <<>>
       /\ timer.cb = "sent" /\ timer.at = Head(queue).leave /\ now =< Head(queue).leave
    \/ /\ ctx = "idle"
       /\ queue # <<>> /\ posted = <<"sent">>
       /\ timer.cb = "none" /\ now = Head(queue).leave

\* The inductive invariant.
IInv == BytesInv /\ LeaveTimesChained /\ Scheduled /\ arrived =< MaxPackets

LEMMA SendTimeType ==
    ASSUME NEW n \in Sizes
    PROVE  SendTime(n) \in Nat /\ (TimePerByte = 0 => SendTime(n) = 0)
<1>1. n \in Nat
  BY ConstantsAssumption
<1>2. QED
  BY <1>1, ConstantsAssumption DEF SendTime

\* begin_send_next_packet(), called for the packet at the front when nothing else is
\* outstanding, leaves one continuation, due at the right time.
LEMMA BeginSchedules ==
    ASSUME TypeOK, NEW q \in Seq(TimedPackets), q # <<>>, timer.cb = "none",
           begin_send_next_packet(q, <<>>),
           Head(q).leave = Line!Later(Head(q).ts, now) + SendTime(Head(q).size),
           now' = now, queue' = q, ctx' = "idle"
    PROVE  Scheduled'
<1> DEFINE p == Head(q)
<1> DEFINE s == SendTime(p.size)
<1>1. p \in TimedPackets
  OBVIOUS
<1>2. p.ts \in Nat /\ p.leave \in Nat /\ p.size \in Sizes
  BY <1>1 DEF TimedPackets
<1> HIDE DEF p
<1>3. s \in Nat /\ (TimePerByte = 0 => s = 0)
  BY <1>2, SendTimeType
<1>4. p.leave = Line!Later(p.ts, now) + s
  BY DEF p
<1> HIDE DEF s
<1>5. now \in Nat
  BY DEF TypeOK
<1>6. CASE now < p.ts
  <2>1. timer' = [at |-> p.ts, cb |-> "begin"] /\ posted' = <<>>
    BY <1>6 DEF begin_send_next_packet, ArmTimer, p
  <2>2. now' =< p.ts /\ p.leave = p.ts + s
    BY <1>2, <1>3, <1>4, <1>5, <1>6 DEF Line!Later
  <2>3. QED
    BY <2>1, <2>2 DEF Scheduled, Waits, p, s
<1>7. CASE ~(now < p.ts) /\ TimePerByte = 0
  <2>1. timer' = timer /\ posted' = <<"sent">>
    BY <1>7 DEF begin_send_next_packet, p
  <2>2. now' = p.leave
    BY <1>2, <1>3, <1>4, <1>5, <1>7 DEF Line!Later
  <2>3. QED
    BY <2>1, <2>2 DEF Scheduled, p
<1>8. CASE ~(now < p.ts) /\ TimePerByte # 0
  <2>1. timer' = [at |-> now + s, cb |-> "sent"] /\ posted' = <<>>
    BY <1>8 DEF begin_send_next_packet, ArmTimer, p, s, SendTime
  <2>2. now + s = p.leave /\ now' =< p.leave
    BY <1>2, <1>3, <1>4, <1>5, <1>8 DEF Line!Later
  <2>3. QED
    BY <2>1, <2>2 DEF Scheduled, p
<1>9. QED
  BY <1>6, <1>7, <1>8

\* What is appended to the queue leaves after all that is in it.
LEMMA AcceptIInv ==
    ASSUME IInv, Reentrant = FALSE, NEW n \in Sizes, NEW droppable \in BOOLEAN,
           AcceptPacket(n, droppable)
    PROVE  IInv'
<1> DEFINE p == [id |-> arrived', size |-> n, droppable |-> droppable,
                 ts |-> now + Latency, leave |-> lastLeave']
<1>1. TypeOK /\ LeaveTimesChained /\ Scheduled
  BY DEF IInv, BytesInv
<1>2. BytesInv'
  BY AcceptBytesInv DEF IInv
<1>3. /\ queue' = Append(queue, p)
      /\ lastLeave' = Line!LeaveTime(now, lastLeave, n)
      /\ UNCHANGED <<now, ctx>>
      /\ ctx = "idle" /\ arrived < MaxPackets /\ arrived' = arrived + 1
  BY DEF AcceptPacket, MayArrive
<1>4. now \in Nat /\ lastLeave \in Nat /\ queue \in Seq(TimedPackets) /\ arrived \in Nat
  BY <1>1 DEF TypeOK
<1>5. arrived' =< MaxPackets
  BY <1>3, <1>4, ConstantsAssumption
<1>6. SendTime(n) \in Nat
  BY SendTimeType
<1>7. p.ts \in Nat /\ p.ts = now + Latency /\ p.size = n
      /\ p.leave = lastLeave' /\ Latency \in Nat
  BY <1>4, ConstantsAssumption
<1>8. lastLeave' = Line!Later(p.ts, lastLeave) + SendTime(n)
  BY <1>3 DEF Line!LeaveTime, Line!Later, SendTime
<1>9. queue' \in Seq(TimedPackets)
  BY <1>2 DEF BytesInv, TypeOK
<1> HIDE DEF p
<1>10. CASE queue = <<>>
  <2>1. queue' = <<p>> /\ posted = <<>> /\ timer.cb = "none" /\ lastLeave =< now
    BY <1>1, <1>3, <1>10 DEF Scheduled, LeaveTimesChained
  <2>2. Head(queue') = p /\ queue' # <<>> /\ Len(queue') = 1 /\ queue'[1] = p
    BY <2>1
  <2>3. begin_send_next_packet(queue', <<>>)
    BY <1>10, <2>1 DEF AcceptPacket
  <2>4. p.leave = Line!Later(p.ts, now) + SendTime(p.size) /\ p.ts + SendTime(p.size) =< p.leave
    BY <1>4, <1>6, <1>7, <1>8, <2>1 DEF Line!Later
  <2>5. Scheduled'
    BY <1>1, <1>3, <1>9, <2>1, <2>2, <2>3, <2>4, BeginSchedules
  <2>6. LeaveTimesChained'
    BY <1>7, <2>1, <2>2, <2>4 DEF LeaveTimesChained
  <2>7. QED
    BY <1>2, <1>5, <2>5, <2>6 DEF IInv
<1>11. CASE queue # <<>>
  <2>1. UNCHANGED <<timer, posted>>
    BY <1>11 DEF AcceptPacket
  <2>2. Head(queue') = Head(queue) /\ queue' # <<>> /\ Len(queue') = Len(queue) + 1
        /\ queue'[Len(queue')] = p /\ Len(queue) \in Nat \ {0}
    BY <1>3, <1>4, <1>11
  <2>3. Scheduled'
    <3> DEFINE h == Head(queue)
    <3>1. Head(queue') = h
      BY <2>2
    <3>2. Waits(h) => Waits(h)'
      BY <1>3, <2>2 DEF Waits
    <3>3. UNCHANGED <<now, ctx, timer, posted>> /\ ctx = "idle"
      BY <1>3, <2>1
    <3>4. QED
      BY <1>1, <1>11, <2>2, <3>2, <3>3 DEF Scheduled, Waits
  <2>4. LeaveTimesChained'
    <3>1. lastLeave = queue[Len(queue)].leave
      BY <1>1, <1>11 DEF LeaveTimesChained
    <3>2. \A i \in 1..Len(queue) : queue'[i] = queue[i]
      BY <1>3, <1>4
    <3>3. p.ts + SendTime(p.size) =< p.leave
      BY <1>4, <1>6, <1>7, <1>8 DEF Line!Later
    <3>4. lastLeave' = queue'[Len(queue')].leave
      BY <1>7, <2>2
    <3>5. ASSUME NEW i \in DOMAIN queue'
          PROVE  /\ queue'[i].ts + SendTime(queue'[i].size) =< queue'[i].leave
                 /\ i > 1 => queue'[i].leave =
                       Line!Later(queue'[i].ts, queue'[i-1].leave) + SendTime(queue'[i].size)
      <4>1. CASE i \in 1..Len(queue)
        <5>1. queue'[i] = queue[i] /\ (i > 1 => queue'[i-1] = queue[i-1]) /\ i \in DOMAIN queue
          BY <1>4, <3>2, <4>1
        <5>2. QED
          BY <1>1, <5>1 DEF LeaveTimesChained
      <4>2. CASE i = Len(queue) + 1
        <5>1. queue'[i] = p /\ queue'[i-1] = queue[Len(queue)]
          BY <2>2, <3>2, <4>2
        <5>2. QED
          BY <1>7, <1>8, <3>1, <3>3, <5>1
      <4>3. QED
        BY <1>9, <2>2, <4>1, <4>2
    <3>6. QED
      BY <2>2, <3>4, <3>5 DEF LeaveTimesChained
  <2>5. QED
    BY <1>2, <1>5, <2>3, <2>4 DEF IInv
<1>12. QED
  BY <1>10, <1>11

\* When a packet leaves, the next one has waited for it.
LEMMA SentIInv ==
    ASSUME IInv, RunSent
    PROVE  IInv' /\ queue # <<>> /\ now = Head(queue).leave
<1>1. TypeOK /\ LeaveTimesChained /\ Scheduled
  BY DEF IInv, BytesInv
<1>2. BytesInv'
  BY SentBytesInv DEF IInv
<1>3. posted # <<>> /\ Head(posted) = "sent" /\ ctx = "idle"
  BY DEF RunSent
<1>4. Head(<<"begin">>) = "begin"
  OBVIOUS
<1>5. /\ queue # <<>> /\ posted = <<"sent">>
      /\ timer.cb = "none" /\ now = Head(queue).leave
  BY <1>1, <1>3, <1>4 DEF Scheduled
<1>6. /\ queue' = Tail(queue) /\ posted' = <<>> /\ ctx' = "forwarding"
      /\ UNCHANGED <<now, timer, arrived, lastLeave>>
  BY <1>5 DEF RunSent
<1>7. queue \in Seq(TimedPackets)
  BY <1>1 DEF TypeOK
<1>8. /\ Len(queue') = Len(queue) - 1 /\ Len(queue) \in Nat \ {0}
      /\ DOMAIN queue' = 1..Len(queue')
      /\ \A i \in DOMAIN queue' : queue'[i] = queue[i+1] /\ i+1 \in DOMAIN queue
      /\ Head(queue) = queue[1]
  BY <1>5, <1>6, <1>7
<1>9. LeaveTimesChained'
  <2>1. ASSUME NEW i \in DOMAIN queue'
        PROVE  /\ queue'[i].ts + SendTime(queue'[i].size) =< queue'[i].leave
               /\ i > 1 => queue'[i].leave =
                     Line!Later(queue'[i].ts, queue'[i-1].leave) + SendTime(queue'[i].size)
    <3>1. queue'[i] = queue[i+1] /\ i+1 \in DOMAIN queue
      BY <1>8
    <3>2. i > 1 => queue'[i-1] = queue[(i+1)-1] /\ i+1 > 1
      BY <1>8
    <3>3. QED
      BY <1>1, <3>1, <3>2 DEF LeaveTimesChained
  <2>2. lastLeave = queue[Len(queue)].leave
    BY <1>1, <1>5 DEF LeaveTimesChained
  <2>3. CASE queue' = <<>>
    <3>1. Len(queue) = 1
      BY <1>8, <2>3
    <3>2. lastLeave' =< now'
      BY <1>1, <1>5, <1>6, <1>8, <2>2, <3>1 DEF TypeOK
    <3>3. QED
      BY <2>1, <2>3, <3>2 DEF LeaveTimesChained
  <2>4. CASE queue' # <<>>
    <3>1. Len(queue') \in DOMAIN queue'
      BY <1>6, <1>7, <1>8, <2>4
    <3>2. lastLeave' = queue'[Len(queue')].leave
      BY <1>6, <1>8, <2>2, <3>1
    <3>3. QED
      BY <2>1, <2>4, <3>2 DEF LeaveTimesChained
  <2>5. QED
    BY <2>3, <2>4
<1>10. Scheduled'
  <2>1. CASE queue' = <<>>
    BY <1>5, <1>6, <2>1 DEF Scheduled
  <2>2. CASE queue' # <<>>
    <3>1. Head(queue') = queue[2] /\ 2 \in DOMAIN queue /\ 2-1 = 1
      BY <1>6, <1>7, <1>8, <2>2
    <3>2. queue[2].leave = Line!Later(queue[2].ts, queue[2-1].leave) + SendTime(queue[2].size)
      BY <1>1, <3>1 DEF LeaveTimesChained
    <3>3. Head(queue').leave = Line!Later(Head(queue').ts, now') + SendTime(Head(queue').size)
      BY <1>5, <1>6, <1>8, <3>1, <3>2
    <3>4. QED
      BY <1>5, <1>6, <2>2, <3>3 DEF Scheduled
  <2>3. QED
    BY <2>1, <2>2
<1>11. QED
  BY <1>2, <1>5, <1>6, <1>9, <1>10 DEF IInv

LEMMA NextIInv ==
    ASSUME Reentrant = FALSE
    PROVE  IInv /\ [Next]_vars => IInv'
<1>1. SUFFICES ASSUME IInv, [Next]_vars PROVE IInv'
  OBVIOUS
<1>2. TypeOK /\ LeaveTimesChained /\ Scheduled /\ arrived =< MaxPackets
  BY <1>1 DEF IInv, BytesInv
<1>3. BytesInv'
  BY <1>1, NextBytesInv DEF IInv
<1>4. now \in Nat /\ arrived \in Nat /\ queue \in Seq(TimedPackets) /\ lastLeave \in Nat
      /\ posted \in Seq(Continuations)
  BY <1>2 DEF TypeOK
<1>5. ASSUME UNCHANGED <<queue, lastLeave, arrived, now>>, Scheduled'
      PROVE  IInv'
  BY <1>2, <1>3, <1>5 DEF IInv, LeaveTimesChained
<1>6. ASSUME NEW n \in Sizes, DropPacket(n)
      PROVE  IInv'
  <2>1. arrived' =< MaxPackets
    BY <1>4, <1>6, ConstantsAssumption DEF DropPacket, MayArrive
  <2>2. UNCHANGED <<now, queue, timer, posted, ctx, lastLeave>>
    BY <1>6 DEF DropPacket
  <2>3. LeaveTimesChained' /\ Scheduled'
    BY <1>2, <2>2 DEF LeaveTimesChained, Scheduled, Waits
  <2>4. QED
    BY <1>3, <2>1, <2>3 DEF IInv
<1>7. ASSUME NEW n \in Sizes, NEW d \in BOOLEAN, AcceptPacket(n, d)
      PROVE  IInv'
  BY <1>1, <1>7, AcceptIInv
<1>8. CASE RunBegin
  <2>1. posted # <<>> /\ Head(posted) = "begin" /\ ctx = "idle"
    BY <1>8 DEF RunBegin
  <2>2. Head(<<"sent">>) = "sent" /\ Tail(<<"begin">>) = <<>>
    OBVIOUS
  <2>3. /\ queue # <<>> /\ posted = <<"begin">>
        /\ timer.cb = "none" /\ now = Head(queue).ts /\ Waits(Head(queue))
    BY <1>2, <2>1, <2>2 DEF Scheduled
  <2>4. begin_send_next_packet(queue, <<>>)
        /\ UNCHANGED <<now, queue, arrived, lastLeave, ctx>>
    BY <1>8, <2>2, <2>3 DEF RunBegin
  <2>5. Head(queue).leave = Line!Later(Head(queue).ts, now) + SendTime(Head(queue).size)
    BY <1>4, <2>3 DEF Waits, Line!Later
  <2>6. Scheduled'
    BY <1>2, <1>4, <2>1, <2>3, <2>4, <2>5, BeginSchedules
  <2>7. QED
    BY <1>5, <2>4, <2>6
<1>9. CASE RunSent
  BY <1>1, <1>9, SentIInv
<1>10. CASE ForwardReturns
  <2>1. /\ ctx = "forwarding" /\ ctx' = "idle"
        /\ UNCHANGED <<now, queue, arrived, lastLeave>>
    BY <1>10 DEF ForwardReturns
  <2>2. posted = <<>> /\ timer.cb = "none"
    BY <1>2, <2>1 DEF Scheduled
  <2>3. CASE queue = <<>>
    <3>1. UNCHANGED <<timer, posted>>
      BY <1>10, <2>3 DEF ForwardReturns
    <3>2. QED
      BY <1>5, <2>1, <2>2, <2>3, <3>1 DEF Scheduled
  <2>4. CASE queue # <<>>
    <3>1. Head(queue).leave = Line!Later(Head(queue).ts, now) + SendTime(Head(queue).size)
      BY <1>2, <2>1, <2>4 DEF Scheduled
    <3>2. begin_send_next_packet(queue, <<>>)
      BY <1>10, <2>2, <2>4 DEF ForwardReturns
    <3>3. Scheduled'
      BY <1>2, <1>4, <2>1, <2>2, <2>4, <3>1, <3>2, BeginSchedules
    <3>4. QED
      BY <1>5, <2>1, <3>3
  <2>5. QED
    BY <2>3, <2>4
<1>11. CASE FireTimer
  <2>1. /\ ctx = "idle" /\ posted = <<>> /\ timer.cb # "none" /\ timer.at = now
        /\ posted' = <<timer.cb>> /\ timer'.cb = "none"
        /\ UNCHANGED <<now, queue, ctx, arrived, lastLeave>>
    BY <1>11 DEF FireTimer, NoHandler
  <2>2. Scheduled'
    <3>1. queue # <<>> /\
          \/ timer.cb = "begin" /\ timer.at = Head(queue).ts /\ Waits(Head(queue))
          \/ timer.cb = "sent" /\ timer.at = Head(queue).leave
      BY <1>2, <2>1 DEF Scheduled
    <3>2. QED
      BY <2>1, <3>1 DEF Scheduled, Waits
  <2>3. QED
    BY <1>5, <2>1, <2>2
<1>12. CASE Tick
  <2>1. /\ ctx = "idle" /\ posted = <<>>
        /\ timer.cb # "none" => now < timer.at
        /\ now' = now + 1
        /\ UNCHANGED <<queue, timer, posted, ctx, arrived, lastLeave>>
    BY <1>12 DEF Tick
  <2>2. LeaveTimesChained'
    BY <1>2, <1>4, <2>1 DEF LeaveTimesChained
  <2>3. timer.at \in Nat /\ (queue # <<>> => Head(queue) \in TimedPackets)
    BY <1>2 DEF TypeOK
  <2>4. queue # <<>> => Head(queue).ts \in Nat /\ Head(queue).leave \in Nat
    BY <2>3 DEF TimedPackets
  <2>5. Scheduled'
    <3>1. CASE queue = <<>>
      BY <1>2, <2>1, <3>1 DEF Scheduled
    <3>2. CASE queue # <<>> /\ timer.cb = "begin"
      <4>1. timer.at = Head(queue).ts /\ Waits(Head(queue))
        BY <1>2, <2>1, <3>2 DEF Scheduled
      <4>2. Waits(Head(queue))'
        BY <1>4, <2>1, <2>4, <3>2, <4>1 DEF Waits
      <4>3. QED
        BY <2>1, <3>2, <4>1, <4>2 DEF Scheduled
    <3>3. CASE queue # <<>> /\ timer.cb = "sent"
      <4>1. timer.at = Head(queue).leave
        BY <1>2, <2>1, <3>3 DEF Scheduled
      <4>2. now' =< Head(queue).leave
        BY <1>4, <2>1, <2>4, <3>3, <4>1
      <4>3. QED
        BY <2>1, <3>3, <4>1, <4>2 DEF Scheduled
    <3>4. QED
      BY <1>2, <2>1, <3>1, <3>2, <3>3 DEF Scheduled
  <2>6. QED
    BY <1>2, <1>3, <2>1, <2>2, <2>5 DEF IInv
<1>13. CASE UNCHANGED vars
  <2>1. UNCHANGED <<now, queue, timer, posted, ctx, lastLeave, arrived>>
    BY <1>13 DEF vars
  <2>2. Scheduled'
    BY <1>2, <2>1 DEF Scheduled, Waits
  <2>3. QED
    BY <1>5, <2>1, <2>2
<1>14. QED
  BY <1>1, <1>6, <1>7, <1>8, <1>9, <1>10, <1>11, <1>12, <1>13 DEF Next, Arrive, Run

LEMMA InitIInv == Init => IInv
<1>1. SUFFICES ASSUME Init PROVE IInv
  OBVIOUS
<1>2. BytesInv
  BY <1>1, InitBytesInv
<1>3. QED
  BY <1>1, <1>2, ConstantsAssumption DEF Init, IInv, LeaveTimesChained, Scheduled, NoHandler

\* Whatever arrives, the continuation outstanding (a posted call, an armed timer or the
\* call of the next hop) agrees with the packet at the front of the queue and with the
\* times at which the packets behind it are to leave.
THEOREM QueueInvariance ==
    ASSUME Reentrant = FALSE
    PROVE  Spec => []IInv
<1>1. Init => IInv
  BY InitIInv
<1>2. IInv /\ [Next]_vars => IInv'
  BY NextIInv
<1>3. QED
  BY <1>1, <1>2, PTL DEF Spec

\* A queue that holds packets has exactly one continuation outstanding, an empty one
\* has none, and next_packet_sent() is never called for an empty queue, as long as the
\* next hop does not answer through the queue from within forward_packet().
THEOREM QueueNeverStalls ==
    ASSUME Reentrant = FALSE
    PROVE  Spec => [](OneContinuation /\ ctx # "undefined")
<1>1. IInv => OneContinuation /\ ctx # "undefined"
  <2>1. Len(<<>>) = 0 /\ Len(<<"begin">>) = 1 /\ Len(<<"sent">>) = 1
    OBVIOUS
  <2>2. QED
    BY <2>1, SMTT(30) DEF IInv, Scheduled, OneContinuation
<1>2. QED
  BY <1>1, QueueInvariance, PTL

-----------------------------------------------------------------------------
(* The refinement.                                                         *)

\* The refinement mapping of NetworkQueue!Line, as functions of a queue and of the
\* packets forwarded.
LineOf(q) == [i \in DOMAIN q |-> [id |-> q[i].id, leave |-> q[i].leave]]
IdsOf(g) == [i \in DOMAIN g |-> g[i].id]

LEMMA LineOfSteps ==
    ASSUME NEW S, NEW q \in Seq(S)
    PROVE  /\ \A p \in S : LineOf(Append(q, p)) =
                 Append(LineOf(q), [id |-> p.id, leave |-> p.leave])
           /\ q # <<>> => /\ LineOf(q) # <<>>
                          /\ LineOf(Tail(q)) = Tail(LineOf(q))
                          /\ Head(LineOf(q)) = [id |-> Head(q).id, leave |-> Head(q).leave]
           /\ q = <<>> => LineOf(q) = <<>>
<1> DEFINE T == {[id |-> p.id, leave |-> p.leave] : p \in S}
<1>1. LineOf(q) \in Seq(T) /\ Len(LineOf(q)) = Len(q)
      /\ \A i \in 1..Len(q) : LineOf(q)[i] = [id |-> q[i].id, leave |-> q[i].leave]
  BY DEF LineOf
<1>2. ASSUME NEW p \in S
      PROVE  LineOf(Append(q, p)) = Append(LineOf(q), [id |-> p.id, leave |-> p.leave])
  <2> DEFINE a == Append(LineOf(q), [id |-> p.id, leave |-> p.leave])
  <2> DEFINE b == LineOf(Append(q, p))
  <2>1. a \in Seq(T) /\ Len(a) = Len(q) + 1 /\ a[Len(q)+1] = [id |-> p.id, leave |-> p.leave]
        /\ \A i \in 1..Len(q) : a[i] = [id |-> q[i].id, leave |-> q[i].leave]
    BY <1>1
  <2>2. b \in Seq(T) /\ Len(b) = Len(q) + 1 /\ b[Len(q)+1] = [id |-> p.id, leave |-> p.leave]
        /\ \A i \in 1..Len(q) : b[i] = [id |-> q[i].id, leave |-> q[i].leave]
    BY DEF LineOf
  <2> HIDE DEF a, b
  <2>3. \A i \in 1..Len(q)+1 : a[i] = b[i]
    <3>1. \A i \in 1..Len(q)+1 : i \in 1..Len(q) \/ i = Len(q)+1
      OBVIOUS
    <3>2. QED
      BY <2>1, <2>2, <3>1, Zenon
  <2>4. a = b
    BY <2>1, <2>2, <2>3
  <2>5. QED
    BY <2>4 DEF a, b
<1>3. ASSUME q # <<>>
      PROVE  /\ LineOf(q) # <<>>
             /\ LineOf(Tail(q)) = Tail(LineOf(q))
             /\ Head(LineOf(q)) = [id |-> Head(q).id, leave |-> Head(q).leave]
  <2> DEFINE a == Tail(LineOf(q))
  <2> DEFINE b == LineOf(Tail(q))
  <2>1. LineOf(q) # <<>> /\ Len(q) \in Nat \ {0}
    BY <1>1, <1>3
  <2>2. a \in Seq(T) /\ Len(a) = Len(q) - 1
        /\ \A i \in 1..Len(q)-1 : a[i] = [id |-> q[i+1].id, leave |-> q[i+1].leave]
    BY <1>1, <2>1
  <2>3. b \in Seq(T) /\ Len(b) = Len(q) - 1
        /\ \A i \in 1..Len(q)-1 : b[i] = [id |-> q[i+1].id, leave |-> q[i+1].leave]
    BY <1>3, <2>1 DEF LineOf
  <2> HIDE DEF a, b
  <2>4. \A i \in 1..Len(q)-1 : a[i] = b[i]
    BY <2>2, <2>3
  <2>5. a = b
    BY <2>1, <2>2, <2>3, <2>4
  <2>6. Head(LineOf(q)) = [id |-> Head(q).id, leave |-> Head(q).leave]
    <3>1. 1 \in 1..Len(q) /\ Head(q) = q[1] /\ Head(LineOf(q)) = LineOf(q)[1]
      BY <1>1, <1>3, <2>1
    <3>2. QED
      BY <1>1, <3>1, Zenon
  <2>7. QED
    BY <2>1, <2>5, <2>6 DEF a, b
<1>4. q = <<>> => LineOf(q) = <<>>
  BY <1>1
<1>5. QED
  BY <1>2, <1>3, <1>4

LEMMA IdsOfAppend ==
    ASSUME NEW S, NEW g \in Seq(S), NEW p \in S
    PROVE  IdsOf(Append(g, p)) = Append(IdsOf(g), p.id)
<1> DEFINE T == {e.id : e \in S}
<1> DEFINE a == Append(IdsOf(g), p.id)
<1> DEFINE b == IdsOf(Append(g, p))
<1>1. IdsOf(g) \in Seq(T) /\ Len(IdsOf(g)) = Len(g) /\ \A i \in 1..Len(g) : IdsOf(g)[i] = g[i].id
  BY DEF IdsOf
<1>2. a \in Seq(T) /\ Len(a) = Len(g) + 1 /\ a[Len(g)+1] = p.id
      /\ \A i \in 1..Len(g) : a[i] = g[i].id
  BY <1>1
<1>3. b \in Seq(T) /\ Len(b) = Len(g) + 1 /\ b[Len(g)+1] = p.id
      /\ \A i \in 1..Len(g) : b[i] = g[i].id
  BY DEF IdsOf
<1> HIDE DEF a, b
<1>4. \A i \in 1..Len(g)+1 : a[i] = b[i]
  BY <1>2, <1>3
<1>5. a = b
  BY <1>2, <1>3, <1>4
<1>6. QED
  BY <1>5 DEF a, b

LEMMA InitRefines == Init => Line!Init
BY DEF Init, Line!Init

\* Every step of the queue is a step of the delay line, or changes nothing of it.
LEMMA NextRefines ==
    ASSUME IInv, IInv', [Next]_vars, Reentrant = FALSE
    PROVE  [Line!Next]_(Line!vars)
<1>1. TypeOK /\ LeaveTimesChained /\ Scheduled
  BY DEF IInv, BytesInv
<1>2. queue \in Seq(TimedPackets) /\ gone \in Seq([id : Nat, size : Sizes, ts : Nat, at : Nat])
      /\ now \in Nat
  BY <1>1 DEF TypeOK
<1>3. ASSUME UNCHANGED <<now, queue, lastLeave, gone>>
      PROVE  UNCHANGED Line!vars
  BY <1>3 DEF Line!vars
<1>4. ASSUME NEW n \in Sizes, DropPacket(n)
      PROVE  UNCHANGED Line!vars
  BY <1>3, <1>4 DEF DropPacket
<1>5. ASSUME NEW n \in Sizes, NEW d \in BOOLEAN, AcceptPacket(n, d)
      PROVE  Line!Accept(arrived', n) /\ arrived' \in 1..MaxPackets
  <2> DEFINE p == [id |-> arrived', size |-> n, droppable |-> d,
                   ts |-> now + Latency, leave |-> lastLeave']
  <2>1. /\ queue' = Append(queue, p) /\ arrived' = arrived + 1
        /\ lastLeave' = Line!LeaveTime(now, lastLeave, n)
        /\ UNCHANGED <<now, gone>>
    BY <1>5 DEF AcceptPacket
  <2>2. arrived' \in 1..MaxPackets
    BY <1>1, <2>1, ConstantsAssumption DEF IInv, TypeOK
  <2>3. queue' \in Seq(TimedPackets)
    BY DEF IInv, BytesInv, TypeOK
  <2>4. p \in TimedPackets
    <3>1. queue'[Len(queue)+1] = p /\ Len(queue)+1 \in 1..Len(queue')
      BY <1>2, <2>1
    <3> HIDE DEF p
    <3>2. QED
      BY <2>3, <3>1
  <2>5. p.id = arrived' /\ p.leave = lastLeave'
    OBVIOUS
  <2> HIDE DEF p
  <2>6. LineOf(queue') = Append(LineOf(queue), [id |-> arrived', leave |-> lastLeave'])
    BY <1>2, <2>1, <2>4, <2>5, LineOfSteps
  <2>7. QED
    BY <2>1, <2>2, <2>6 DEF Line!Accept, LineOf
<1>6. CASE RunSent
  <2>1. queue # <<>> /\ now = Head(queue).leave
    BY <1>6, SentIInv
  <2> DEFINE e == [id |-> Head(queue).id, size |-> Head(queue).size,
                   ts |-> Head(queue).ts, at |-> now]
  <2>2. queue' = Tail(queue) /\ gone' = Append(gone, e) /\ UNCHANGED <<now, lastLeave>>
    BY <1>6, <2>1 DEF RunSent
  <2>3. Head(queue) \in TimedPackets
    BY <1>2, <2>1
  <2>4. e \in [id : Nat, size : Sizes, ts : Nat, at : Nat] /\ e.id = Head(queue).id
    BY <1>2, <2>3 DEF TimedPackets
  <2> HIDE DEF e
  <2>5. IdsOf(gone') = Append(IdsOf(gone), Head(queue).id)
    BY <1>2, <2>2, <2>4, IdsOfAppend
  <2>6. /\ LineOf(queue) # <<>> /\ LineOf(queue') = Tail(LineOf(queue))
        /\ Head(LineOf(queue)) = [id |-> Head(queue).id, leave |-> Head(queue).leave]
    BY <1>2, <2>1, <2>2, LineOfSteps
  <2>7. Line!Leave
    BY <2>1, <2>2, <2>5, <2>6 DEF Line!Leave, LineOf, IdsOf
  <2>8. QED
    BY <2>7 DEF Line!Next
<1>7. CASE Tick
  <2>1. /\ ctx = "idle" /\ posted = <<>>
        /\ timer.cb # "none" => now < timer.at
        /\ now' = now + 1
        /\ UNCHANGED <<queue, lastLeave, gone>>
    BY <1>7 DEF Tick
  <2>2. ASSUME queue # <<>>
        PROVE  now < Head(queue).leave
    <3>1. Head(queue) \in TimedPackets
      BY <1>2, <2>2
    <3>2. Head(queue).ts \in Nat /\ Head(queue).leave \in Nat /\ Head(queue).size \in Sizes
      BY <3>1 DEF TimedPackets
    <3>3. SendTime(Head(queue).size) \in Nat
      BY <3>2, SendTimeType
    <3>4. (now < Head(queue).ts /\ Waits(Head(queue))) \/ now < Head(queue).leave
      BY <1>1, <2>1, <2>2 DEF Scheduled
    <3>5. QED
      BY <1>2, <3>2, <3>3, <3>4 DEF Waits
  <2>3. LineOf(queue) # <<>> => now < Head(LineOf(queue)).leave
    <3>1. CASE queue = <<>>
      BY <1>2, <3>1, LineOfSteps
    <3>2. CASE queue # <<>>
      <4>1. Head(LineOf(queue)) = [id |-> Head(queue).id, leave |-> Head(queue).leave]
        BY <1>2, <3>2, LineOfSteps
      <4>2. QED
        BY <2>2, <3>2, <4>1
    <3>3. QED
      BY <3>1, <3>2
  <2>4. Line!Tick
    BY <2>1, <2>3 DEF Line!Tick, LineOf
  <2>5. QED
    BY <2>4 DEF Line!Next
<1>8. CASE RunBegin \/ ForwardReturns \/ FireTimer \/ UNCHANGED vars
  BY <1>3, <1>8 DEF RunBegin, ForwardReturns, FireTimer, vars
<1>9. QED
  <2>1. \A n \in Sizes : \A d \in BOOLEAN : AcceptPacket(n, d) => Line!Next
    BY <1>5 DEF Line!Next
  <2>2. QED
    BY <2>1, <1>4, <1>6, <1>7, <1>8 DEF Next, Arrive, Run

\* sim::queue is a delay line, for any packet sizes, delay, rate and limit: every packet
\* it accepts leaves in order of arrival, at the very time settled when it arrived, as
\* long as the next hop does not answer through the queue from within forward_packet().
THEOREM QueueImplementsDelayLine ==
    ASSUME Reentrant = FALSE
    PROVE  Spec => IsDelayLine
<1>1. Spec => []IInv
  BY QueueInvariance
<1>2. IInv /\ IInv' /\ [Next]_vars => [Line!Next]_(Line!vars)
  BY NextRefines
<1>3. QED
  BY <1>1, <1>2, InitRefines, PTL DEF Spec, IsDelayLine, Line!Spec

=============================================================================
