--------------------------- MODULE EventLoopProofs ---------------------------
(***************************************************************************)
(* Proofs about EventLoop, for every set of timers and every bound.        *)
(***************************************************************************)
EXTENDS EventLoop, SequenceTheorems, TLAPS

-----------------------------------------------------------------------------
(* What the operations on sequences return.                                *)

\* InsertAt(s, i, e) is s with e at position i and the rest moved up by one.
LEMMA InsertAtElements ==
    ASSUME NEW S, NEW s \in Seq(S), NEW i \in 1..(Len(s) + 1), NEW e \in S
    PROVE  /\ InsertAt(s, i, e) \in Seq(S)
           /\ Len(InsertAt(s, i, e)) = Len(s) + 1
           /\ \A j \in 1..(i-1) : InsertAt(s, i, e)[j] = s[j]
           /\ InsertAt(s, i, e)[i] = e
           /\ \A j \in (i+1)..(Len(s)+1) : InsertAt(s, i, e)[j] = s[j-1]
<1> DEFINE a == SubSeq(s, 1, i-1)
           b == SubSeq(s, i, Len(s))
           c == a \o <<e>>
           r == c \o b
<1>1. /\ a \in Seq(S) /\ Len(a) = i - 1
      /\ \A j \in 1..(i-1) : a[j] = s[j]
  OBVIOUS
<1>2. /\ b \in Seq(S) /\ Len(b) = Len(s) - i + 1
      /\ \A j \in 1..(Len(s)-i+1) : b[j] = s[i+j-1]
  OBVIOUS
<1>3. InsertAt(s, i, e) = r
  BY DEF InsertAt
<1> HIDE DEF a, b
<1>4. /\ c \in Seq(S) /\ Len(c) = i
      /\ \A j \in 1..(i-1) : c[j] = s[j]
      /\ c[i] = e
  BY <1>1
<1> HIDE DEF c
<1>5. r \in Seq(S) /\ Len(r) = Len(s) + 1
  <2>1. c \in Seq(S) /\ b \in Seq(S)
    BY <1>2, <1>4
  <2>2. c \o b \in Seq(S) /\ Len(c \o b) = Len(c) + Len(b)
    BY <2>1, ConcatProperties, Zenon
  <2>3. QED BY <1>2, <1>4, <2>2
<1>6. \A j \in 1..i : r[j] = c[j]
  BY <1>2, <1>4
<1>7. \A j \in (i+1)..(Len(s)+1) : r[j] = s[j-1]
  <2> SUFFICES ASSUME NEW j \in (i+1)..(Len(s)+1) PROVE r[j] = s[j-1]
    OBVIOUS
  <2>1. r[j] = b[j-i]
    BY <1>2, <1>4
  <2>2. b[j-i] = s[j-1]
    BY <1>2
  <2>3. QED BY <2>1, <2>2
<1> HIDE DEF r
<1>8. QED
  BY <1>3, <1>4, <1>5, <1>6, <1>7

\* RemoveAt(s, i) is s without its i-th element.
LEMMA RemoveAtElements ==
    ASSUME NEW S, NEW s \in Seq(S), NEW i \in 1..Len(s)
    PROVE  /\ RemoveAt(s, i) \in Seq(S)
           /\ Len(RemoveAt(s, i)) = Len(s) - 1
           /\ \A j \in 1..(i-1) : RemoveAt(s, i)[j] = s[j]
           /\ \A j \in i..(Len(s)-1) : RemoveAt(s, i)[j] = s[j+1]
<1> DEFINE a == SubSeq(s, 1, i-1)
           b == SubSeq(s, i+1, Len(s))
<1>1. /\ a \in Seq(S) /\ Len(a) = i - 1
      /\ \A j \in 1..(i-1) : a[j] = s[j]
  OBVIOUS
<1>2. /\ b \in Seq(S) /\ Len(b) = Len(s) - i
      /\ \A j \in 1..(Len(s)-i) : b[j] = s[i+j]
  OBVIOUS
<1>3. RemoveAt(s, i) = a \o b
  BY DEF RemoveAt
<1> HIDE DEF a, b
<1>4. /\ a \o b \in Seq(S) /\ Len(a \o b) = Len(a) + Len(b)
      /\ \A j \in 1..(Len(a)+Len(b)) : (a \o b)[j] = IF j =< Len(a) THEN a[j] ELSE b[j - Len(a)]
  BY <1>1, <1>2, ConcatProperties
<1>5. Len(s) \in Nat /\ i \in 1..Len(s)
  OBVIOUS
<1>6. \A j \in 1..(i-1) : (a \o b)[j] = s[j]
  BY <1>1, <1>2, <1>4, <1>5
<1>7. ASSUME NEW j \in i..(Len(s)-1) PROVE (a \o b)[j] = s[j+1]
  <2>1. j \in 1..(Len(a)+Len(b)) /\ ~(j =< Len(a)) /\ j - Len(a) \in 1..(Len(s)-i) /\ i + (j - Len(a)) = j+1
    BY <1>1, <1>2, <1>5
  <2>2. QED
    BY <1>2, <1>4, <2>1
<1>8. Len(a \o b) = Len(s) - 1
  BY <1>1, <1>2, <1>4, <1>5
<1>9. QED
  BY <1>3, <1>4, <1>6, <1>7, <1>8, Zenon

-----------------------------------------------------------------------------
(* The timer queue: q lists the timers of A, each once, by their expiry e. *)

QueueOK(q, e, A) ==
    /\ q \in Seq(Timers)
    /\ \A i, j \in 1..Len(q) : i < j => e[q[i]] =< e[q[j]]
    /\ \A i, j \in 1..Len(q) : q[i] = q[j] => i = j
    /\ A = {q[i] : i \in 1..Len(q)}

\* remove_timer() takes an armed timer off the queue and leaves the others.
LEMMA RemoveTimerQueueOK ==
    ASSUME NEW q, NEW e \in [Timers -> Int], NEW A, QueueOK(q, e, A),
           NEW t \in A
    PROVE  QueueOK(remove_timer(q, t), e, A \ {t})
<1> DEFINE k == CHOOSE i \in DOMAIN q : q[i] = t
           r == RemoveAt(q, k)
<1>1. q \in Seq(Timers) /\ DOMAIN q = 1..Len(q)
  BY DEF QueueOK
<1>2. k \in 1..Len(q) /\ q[k] = t
  BY <1>1 DEF QueueOK
<1>3. remove_timer(q, t) = r
  BY <1>1, <1>2 DEF remove_timer
<1> HIDE DEF k
<1>4. /\ r \in Seq(Timers)
      /\ Len(r) = Len(q) - 1
      /\ \A j \in 1..(k-1) : r[j] = q[j]
      /\ \A j \in k..(Len(q)-1) : r[j] = q[j+1]
  BY <1>1, <1>2, RemoveAtElements, Zenon
<1> HIDE DEF r
<1>5. Len(q) \in Nat /\ Len(r) = Len(q) - 1 /\ k \in Nat
  BY <1>1, <1>2, <1>4
<1>6. \A j \in 1..Len(r) : j < k => j \in 1..Len(q) /\ r[j] = q[j]
  BY <1>5, <1>4
<1>7. \A j \in 1..Len(r) : k =< j => j+1 \in 1..Len(q) /\ r[j] = q[j+1]
  BY <1>5, <1>4
<1>8. \A i, j \in 1..Len(q) : i < j => e[q[i]] =< e[q[j]] /\ q[i] # q[j]
  BY DEF QueueOK
<1>9. ASSUME NEW i \in 1..Len(r), NEW j \in 1..Len(r), i < j
      PROVE  e[r[i]] =< e[r[j]] /\ r[i] # r[j]
  <2>1. CASE j < k
    <3>1. i < k
      BY <1>5, <1>9, <2>1
    <3>2. QED BY <1>8, <1>9, <1>6, <2>1, <3>1
  <2>2. CASE i < k /\ k =< j
    <3>1. /\ i \in 1..Len(q) /\ j+1 \in 1..Len(q) /\ i < j+1
          /\ r[i] = q[i] /\ r[j] = q[j+1]
      BY <1>5, <1>6, <1>7, <2>2
    <3>2. QED BY <1>8, <3>1
  <2>3. CASE k =< i
    <3>1. /\ i+1 \in 1..Len(q) /\ j+1 \in 1..Len(q) /\ i+1 < j+1
          /\ r[i] = q[i+1] /\ r[j] = q[j+1]
      BY <1>5, <1>9, <1>7, <2>3
    <3>2. QED BY <1>8, <3>1
  <2>4. QED BY <1>2, <1>5, <2>1, <2>2, <2>3
<1>10. \A i, j \in 1..Len(r) : r[i] = r[j] => i = j
  <2> SUFFICES ASSUME NEW i \in 1..Len(r), NEW j \in 1..Len(r), i # j
               PROVE  r[i] # r[j]
    OBVIOUS
  <2>1. CASE i < j
    BY <1>9, <2>1
  <2>2. CASE j < i
    BY <1>9, <2>2
  <2>3. QED BY <2>1, <2>2
<1>11. A \ {t} = {r[i] : i \in 1..Len(r)}
  <2>1. ASSUME NEW i \in 1..Len(r) PROVE r[i] \in A \ {t}
    <3>1. \E j \in 1..Len(q) : r[i] = q[j] /\ j # k
      <4>1. CASE i < k
        <5>1. i \in 1..Len(q) /\ r[i] = q[i] /\ i # k
          BY <1>5, <1>6, <4>1
        <5>2. QED BY <5>1
      <4>2. CASE k =< i
        <5>1. i+1 \in 1..Len(q) /\ r[i] = q[i+1] /\ i+1 # k
          BY <1>5, <1>7, <4>2
        <5>2. QED BY <5>1
      <4>3. QED BY <1>2, <4>1, <4>2
    <3>2. QED BY <1>2, <3>1 DEF QueueOK
  <2>2. ASSUME NEW u \in A \ {t} PROVE \E i \in 1..Len(r) : r[i] = u
    <3>1. PICK m \in 1..Len(q) : q[m] = u /\ m # k
      BY <1>2 DEF QueueOK
    <3>2. CASE m < k
      <4>1. m \in 1..Len(r) /\ r[m] = u
        BY <1>2, <1>5, <1>6, <3>1, <3>2
      <4>2. QED BY <4>1
    <3>3. CASE m > k
      <4>1. m-1 \in 1..Len(r) /\ m-1 \in k..(Len(q)-1) /\ (m-1)+1 = m
        BY <1>2, <1>5, <3>3
      <4>2. r[m-1] = u
        BY <1>5, <1>7, <3>1, <3>3, <4>1
      <4>3. QED BY <4>1, <4>2
    <3>4. QED BY <1>2, <3>1, <3>2, <3>3
  <2>3. QED BY <2>1, <2>2
<1>12. \A i, j \in 1..Len(r) : i < j => e[r[i]] =< e[r[j]]
  BY <1>9
<1>13. QED
  <2>1. QueueOK(r, e, A \ {t})
    BY <1>4, <1>10, <1>11, <1>12, Zenon DEF QueueOK
  <2>2. QED BY <1>3, <2>1, Zenon

\* Inserting a timer at the partition point of its expiry keeps the queue in
\* order.
LEMMA InsertTimerQueueOK ==
    ASSUME NEW q, NEW e \in [Timers -> Int], NEW A, QueueOK(q, e, A),
           NEW t \in Timers, t \notin A, NEW x \in Int,
           NEW k \in 0..Len(q),
           \A i \in 1..k : e[q[i]] =< x,
           \A i \in (k+1)..Len(q) : x < e[q[i]]
    PROVE  QueueOK(InsertAt(q, k+1, t), [e EXCEPT ![t] = x], A \cup {t})
<1> DEFINE r == InsertAt(q, k+1, t)
           f == [e EXCEPT ![t] = x]
           n == Len(q)
<1>1. q \in Seq(Timers) /\ n \in Nat /\ \A i \in 1..n : q[i] # t
  BY DEF QueueOK
<1>2. /\ r \in Seq(Timers)
      /\ Len(r) = n + 1
      /\ \A j \in 1..((k+1)-1) : r[j] = q[j]
      /\ r[k+1] = t
      /\ \A j \in ((k+1)+1)..(n+1) : r[j] = q[j-1]
  <2> DEFINE m == k+1
  <2>1. m \in 1..(Len(q)+1)
    BY <1>1
  <2> HIDE DEF m
  <2>2. /\ InsertAt(q, m, t) \in Seq(Timers)
        /\ Len(InsertAt(q, m, t)) = Len(q) + 1
        /\ \A j \in 1..(m-1) : InsertAt(q, m, t)[j] = q[j]
        /\ InsertAt(q, m, t)[m] = t
        /\ \A j \in (m+1)..(Len(q)+1) : InsertAt(q, m, t)[j] = q[j-1]
    <3>1. q \in Seq(Timers)
      BY <1>1
    <3>2. QED BY <2>1, <3>1, InsertAtElements
  <2>3. QED BY <2>2, Zenon DEF m
<1> HIDE DEF r
<1>2a. k \in Nat /\ n \in Nat /\ k =< n
  BY <1>1
<1>2b. (k+1)-1 = k /\ (k+1)+1 = k+2
  BY <1>2a
<1>2c. Len(r) = n + 1
  BY <1>2, Zenon
<1>3. \A j \in 1..k : j \in 1..n /\ r[j] = q[j]
  <2>1. \A j \in 1..k : r[j] = q[j]
    BY <1>2, <1>2b, Zenon
  <2> HIDE DEF n
  <2>2. \A j \in 1..k : j \in 1..n
    BY <1>2a
  <2>3. QED BY <2>1, <2>2, Zenon
<1>4. r[k+1] = t
  BY <1>2, Zenon
<1>5. \A j \in (k+2)..(n+1) : j-1 \in (k+1)..n /\ r[j] = q[j-1]
  <2>1. \A j \in (k+2)..(n+1) : r[j] = q[j-1]
    BY <1>2, <1>2b, Zenon
  <2> HIDE DEF n
  <2>2. \A j \in (k+2)..(n+1) : j-1 \in (k+1)..n
    BY <1>2a
  <2>3. QED BY <2>1, <2>2, Zenon
<1>6. f[t] = x /\ \A i \in 1..n : f[q[i]] = e[q[i]] /\ e[q[i]] \in Int
  BY <1>1
<1> HIDE DEF f
<1>7. \A i, j \in 1..n : i < j => e[q[i]] =< e[q[j]]
  BY DEF QueueOK
<1>8. \A i, j \in 1..n : q[i] = q[j] => i = j
  BY DEF QueueOK
<1> HIDE DEF n
<1>9. ASSUME NEW i \in 1..Len(r), NEW j \in 1..Len(r), i < j
      PROVE  f[r[i]] =< f[r[j]] /\ r[i] # r[j]
  <2>1. CASE j =< k
    <3>1. i \in 1..n /\ j \in 1..n /\ r[i] = q[i] /\ r[j] = q[j]
      BY <1>2a, <1>2c, <1>3, <1>9, <2>1
    <3>2. QED BY <1>6, <1>7, <1>8, <1>9, <3>1
  <2>2. CASE j = k+1
    <3>1. i \in 1..k /\ i \in 1..n /\ r[i] = q[i] /\ r[j] = t
      BY <1>2a, <1>3, <1>4, <1>9, <2>2
    <3>2. QED BY <1>1, <1>6, <3>1
  <2>3. CASE j > k+1 /\ i =< k
    <3>1. /\ i \in 1..k /\ i \in 1..n /\ j \in (k+2)..(n+1)
          /\ j-1 \in 1..n /\ i < j-1
      BY <1>2a, <1>2c, <2>3
    <3>2. r[i] = q[i] /\ r[j] = q[j-1]
      BY <1>3, <1>5, <3>1
    <3>3. QED BY <1>6, <1>7, <1>8, <3>1, <3>2
  <2>4. CASE j > k+1 /\ i = k+1
    <3>a. j \in (k+2)..(n+1) /\ j-1 \in (k+1)..n /\ j-1 \in 1..n
      BY <1>2a, <1>2c, <2>4
    <3>1. r[i] = t /\ r[j] = q[j-1] /\ j-1 \in (k+1)..n /\ j-1 \in 1..n
      BY <1>4, <1>5, <2>4, <3>a, Zenon
    <3>2. x < e[q[j-1]] /\ e[q[j-1]] \in Int
      BY <1>6, <3>1 DEF n
    <3>3. QED BY <1>1, <1>6, <3>1, <3>2
  <2>5. CASE j > k+1 /\ i > k+1
    <3>1. i \in (k+2)..(n+1) /\ j \in (k+2)..(n+1)
      BY <1>2a, <1>2c, <2>5
    <3>2. i-1 \in 1..n /\ j-1 \in 1..n /\ i-1 < j-1
      BY <1>2a, <1>9, <3>1
    <3>3. r[i] = q[i-1] /\ r[j] = q[j-1]
      BY <1>5, <3>1
    <3>4. QED BY <1>6, <1>7, <1>8, <3>2, <3>3
  <2>6. QED BY <1>2a, <2>1, <2>2, <2>3, <2>4, <2>5
<1>10. \A i, j \in 1..Len(r) : r[i] = r[j] => i = j
  <2> SUFFICES ASSUME NEW i \in 1..Len(r), NEW j \in 1..Len(r), i # j
               PROVE  r[i] # r[j]
    OBVIOUS
  <2>1. CASE i < j
    BY <1>9, <2>1
  <2>2. CASE j < i
    BY <1>9, <2>2
  <2>3. QED BY <2>1, <2>2
<1>11. A \cup {t} = {r[i] : i \in 1..Len(r)}
  <2>1. ASSUME NEW i \in 1..Len(r) PROVE r[i] \in A \cup {t}
    <3>1. \/ i \in 1..k /\ i \in 1..n
          \/ i = k+1
          \/ i \in (k+2)..(n+1) /\ i-1 \in 1..n
      BY <1>2a, <1>2c
    <3>2. \A j \in 1..n : q[j] \in A
      BY DEF QueueOK, n
    <3>3. QED BY <1>3, <1>4, <1>5, <3>1, <3>2, Zenon
  <2>2. ASSUME NEW u \in A PROVE \E i \in 1..Len(r) : r[i] = u
    <3>1. PICK m \in 1..n : q[m] = u
      BY DEF QueueOK, n
    <3>2. CASE m =< k
      <4>1. m \in 1..Len(r) /\ r[m] = u
        BY <1>2a, <1>2c, <1>3, <3>1, <3>2
      <4>2. QED BY <4>1
    <3>3. CASE m > k
      <4>1. m+1 \in 1..Len(r) /\ m+1 \in (k+2)..(n+1) /\ (m+1)-1 = m
        BY <1>2a, <1>2c, <3>3
      <4>2. r[m+1] = u
        BY <1>5, <3>1, <4>1
      <4>3. QED BY <4>1, <4>2
    <3>4. QED BY <3>1, <3>2, <3>3
  <2>3. k+1 \in 1..Len(r) /\ r[k+1] = t
    BY <1>2a, <1>2c, <1>4
  <2>4. QED BY <2>1, <2>2, <2>3
<1>12. \A i, j \in 1..Len(r) : i < j => f[r[i]] =< f[r[j]]
  BY <1>9
<1>13. QED
  <2>1. r \in Seq(Timers)
    BY <1>2, Zenon
  <2>2. QueueOK(r, f, A \cup {t})
    BY <2>1, <1>10, <1>11, <1>12, Zenon DEF QueueOK
  <2>3. QED BY <2>2, Zenon DEF r, f

\* Popping the first timer leaves the others, in order.
LEMMA TailQueueOK ==
    ASSUME NEW q, NEW e \in [Timers -> Int], NEW A, QueueOK(q, e, A),
           q # <<>>
    PROVE  /\ Head(q) \in A
           /\ \A u \in A : e[Head(q)] =< e[u]
           /\ QueueOK(Tail(q), e, A \ {Head(q)})
<1>1. /\ q \in Seq(Timers) /\ Len(q) \in Nat \ {0}
      /\ Head(q) = q[1]
      /\ Tail(q) \in Seq(Timers)
      /\ Len(Tail(q)) = Len(q) - 1
      /\ \A j \in 1..(Len(q) - 1) : Tail(q)[j] = q[j+1]
  BY DEF QueueOK
<1>2. Head(q) \in A
  BY <1>1 DEF QueueOK
<1>3. ASSUME NEW u \in A PROVE e[Head(q)] =< e[u]
  <2>1. PICK m \in 1..Len(q) : q[m] = u
    BY DEF QueueOK
  <2>2. CASE m = 1
    BY <1>1, <2>1, <2>2
  <2>3. CASE m > 1
    BY <1>1, <2>1, <2>3 DEF QueueOK
  <2>4. QED BY <2>2, <2>3
<1>4. \A i, j \in 1..Len(Tail(q)) : i < j => e[Tail(q)[i]] =< e[Tail(q)[j]]
  BY <1>1 DEF QueueOK
<1>5. \A i, j \in 1..Len(Tail(q)) : Tail(q)[i] = Tail(q)[j] => i = j
  BY <1>1 DEF QueueOK
<1>6. A \ {Head(q)} = {Tail(q)[i] : i \in 1..Len(Tail(q))}
  <2>1. ASSUME NEW i \in 1..Len(Tail(q)) PROVE Tail(q)[i] \in A \ {Head(q)}
    BY <1>1 DEF QueueOK
  <2>2. ASSUME NEW u \in A \ {Head(q)}
        PROVE  \E i \in 1..Len(Tail(q)) : Tail(q)[i] = u
    <3>1. PICK m \in 1..Len(q) : q[m] = u
      BY DEF QueueOK
    <3>2. m-1 \in 1..Len(Tail(q)) /\ Tail(q)[m-1] = u
      BY <1>1, <3>1
    <3>3. QED BY <3>2
  <2>3. QED BY <2>1, <2>2
<1>7. QED
  BY <1>1, <1>2, <1>3, <1>4, <1>5, <1>6 DEF QueueOK

-----------------------------------------------------------------------------
(* The inductive invariant.                                                *)

\* While run() fires due timers, no timer that is still queued expired before
\* the current time: the clock was moved to the earliest expiry.
FiringAligned == ctx = "fire" => \A t \in armed : now =< expiry[t]

IInv ==
    /\ TypeOK
    /\ TimerQueueOrdered
    /\ TimerQueueComplete
    /\ WaitIsArmed
    /\ OnTime
    /\ FiringAligned

\* The two invariants on the queue say that QueueOK holds of it.
LEMMA QueueInvariant ==
    ASSUME TypeOK
    PROVE  TimerQueueOrdered /\ TimerQueueComplete
           <=> QueueOK(timerq, expiry, armed)
<1>1. timerq \in Seq(Timers) /\ DOMAIN timerq = 1..Len(timerq)
  BY DEF TypeOK
<1>2. QED
  BY <1>1, Zenon DEF TimerQueueOrdered, TimerQueueComplete, QueueOK

\* The same of the next state.
LEMMA QueueInvariantPrime ==
    ASSUME TypeOK'
    PROVE  TimerQueueOrdered' /\ TimerQueueComplete'
           <=> QueueOK(timerq', expiry', armed')
<1>1. timerq' \in Seq(Timers) /\ DOMAIN timerq' = 1..Len(timerq')
  BY DEF TypeOK
<1>2. QED
  BY <1>1, Zenon DEF TimerQueueOrdered, TimerQueueComplete, QueueOK

\* Posting a completion that is due now keeps the posted handlers on time.
LEMMA PostOnTime ==
    ASSUME TypeOK, OnTime, NEW t \in Timers,
           NEW ec \in {"ok", "operation_aborted"}, NEW due \in Int, due = now
    PROVE  LET r == Append(ready, Completion(t, ec, due)) IN
           /\ r \in Seq(Completions)
           /\ \A i \in DOMAIN r : r[i].due = now
<1> DEFINE c == Completion(t, ec, due)
<1>1. c \in Completions /\ c.due = now
  BY DEF Completion, Completions
<1> HIDE DEF c
<1>2. ready \in Seq(Completions)
  BY DEF TypeOK
<1>3. /\ Append(ready, c) \in Seq(Completions)
      /\ Len(Append(ready, c)) = Len(ready) + 1
      /\ \A i \in 1..Len(ready) : Append(ready, c)[i] = ready[i]
      /\ Append(ready, c)[Len(ready) + 1] = c
  BY <1>1, <1>2
<1>4. \A i \in DOMAIN Append(ready, c) : Append(ready, c)[i].due = now
  <2> SUFFICES ASSUME NEW i \in 1..(Len(ready) + 1)
               PROVE  Append(ready, c)[i].due = now
    BY <1>1, <1>2, <1>3
  <2>1. CASE i \in 1..Len(ready)
    <3>1. ready[i].due = now
      BY <1>2, <2>1 DEF OnTime
    <3>2. QED BY <1>3, <2>1, <3>1
  <2>2. CASE i = Len(ready) + 1
    BY <1>1, <1>3, <2>2
  <2>3. QED BY <1>2, <2>1, <2>2
<1>5. QED
  BY <1>3, <1>4 DEF c

\* high_resolution_timer::cancel() leaves a queue without t, no wait on t and
\* handlers that are due now.
LEMMA CancelKeeps ==
    ASSUME IInv, NEW t \in Timers
    PROVE  /\ QueueOK(CancelledQueue(t), expiry, armed \ {t})
           /\ CancelledWaiting(t) \subseteq armed \ {t}
           /\ CancelledReady(t) \in Seq(Completions)
           /\ \A i \in DOMAIN CancelledReady(t) :
                CancelledReady(t)[i].due = now
<1>1. /\ QueueOK(timerq, expiry, armed)
      /\ expiry \in [Timers -> Int]
      /\ ready \in Seq(Completions)
      /\ now \in Int
      /\ waiting \subseteq armed
  BY QueueInvariant DEF IInv, TypeOK, WaitIsArmed
<1>2. QueueOK(CancelledQueue(t), expiry, armed \ {t})
  <2>1. CASE t \in armed
    BY <1>1, <2>1, RemoveTimerQueueOK, Zenon DEF CancelledQueue
  <2>2. CASE t \notin armed
    <3>1. armed \ {t} = armed
      BY <2>2
    <3>2. QED BY <1>1, <2>2, <3>1, Zenon DEF CancelledQueue
  <2>3. QED BY <2>1, <2>2
<1>3. CancelledWaiting(t) \subseteq armed \ {t}
  BY <1>1 DEF CancelledWaiting
<1>4. /\ CancelledReady(t) \in Seq(Completions)
      /\ \A i \in DOMAIN CancelledReady(t) : CancelledReady(t)[i].due = now
  <2>1. CASE t \in armed \cap waiting
    <3>1. CancelledReady(t)
            = Append(ready, Completion(t, "operation_aborted", now))
      BY <2>1 DEF CancelledReady
    <3>2. QED BY <1>1, <3>1, PostOnTime DEF IInv
  <2>2. CASE t \notin armed \cap waiting
    BY <1>1, <2>2 DEF CancelledReady, IInv, OnTime
  <2>3. QED BY <2>1, <2>2
<1>5. QED
  BY <1>2, <1>3, <1>4

\* A new simulation, with no timer armed, satisfies the invariant.
LEMMA InitIInv == Init => IInv
<1> SUFFICES ASSUME Init PROVE IInv
  OBVIOUS
<1>1. timerq = <<>> /\ ready = <<>> /\ armed = {} /\ waiting = {}
  BY DEF Init
<1>2. TypeOK
  <2>1. timerq \in Seq(Timers) /\ ready \in Seq(Completions)
    BY <1>1
  <2>2. expiry \in [Timers -> Int]
    BY DEF Init
  <2>3. now \in Int /\ prev \in Int /\ stalled \in Nat
    BY DEF Init
  <2>4. stopped \in BOOLEAN /\ executed \in BOOLEAN /\ ctx \in Contexts
    BY Zenon DEF Init, Contexts
  <2>5. QED BY <1>1, <2>1, <2>2, <2>3, <2>4 DEF TypeOK
<1>3. TimerQueueOrdered /\ TimerQueueComplete
  BY <1>1 DEF TimerQueueOrdered, TimerQueueComplete
<1>4. WaitIsArmed /\ OnTime /\ FiringAligned
  BY <1>1 DEF WaitIsArmed, OnTime, FiringAligned
<1>5. QED
  BY <1>2, <1>3, <1>4 DEF IInv

\* cancel() by user code, or by the catch block, keeps the invariant.
LEMMA CancelIInv ==
    ASSUME IInv, NEW t \in Timers, ctx # "fire",
           timerq' = CancelledQueue(t),
           armed' = armed \ {t},
           waiting' = CancelledWaiting(t),
           ready' = CancelledReady(t),
           UNCHANGED <<now, expiry, stopped, ctx, loopVars>>
    PROVE  IInv'
<1>1. /\ QueueOK(timerq', expiry', armed')
      /\ waiting' \subseteq armed'
      /\ ready' \in Seq(Completions)
      /\ \A i \in DOMAIN ready' : ready'[i].due = now'
  BY CancelKeeps
<1>2. TypeOK'
  <2>1. timerq' \in Seq(Timers)
    BY <1>1 DEF QueueOK
  <2>2. QED BY <1>1, <2>1 DEF IInv, TypeOK, loopVars
<1>3. TimerQueueOrdered' /\ TimerQueueComplete'
  BY <1>1, <1>2, QueueInvariantPrime
<1>4. WaitIsArmed' /\ OnTime' /\ FiringAligned'
  BY <1>1 DEF WaitIsArmed, OnTime, FiringAligned
<1>5. QED
  BY <1>2, <1>3, <1>4 DEF IInv

\* Arming a timer, whatever it did before, keeps the invariant.
LEMMA ArmIInv ==
    ASSUME IInv, NEW t \in Timers, NEW x \in Int, Arm(t, x)
    PROVE  IInv'
<1>1. /\ QueueOK(CancelledQueue(t), expiry, armed \ {t})
      /\ CancelledWaiting(t) \subseteq armed \ {t}
      /\ CancelledReady(t) \in Seq(Completions)
      /\ \A i \in DOMAIN CancelledReady(t) : CancelledReady(t)[i].due = now
  BY CancelKeeps
<1>2. /\ expiry' = [expiry EXCEPT ![t] = x]
      /\ armed' = (armed \ {t}) \cup {t}
      /\ waiting' = CancelledWaiting(t)
      /\ ready' = CancelledReady(t)
      /\ ctx # "fire"
      /\ UNCHANGED <<now, stopped, ctx, loopVars>>
  BY DEF Arm, UserContext
<1> DEFINE q == CancelledQueue(t)
<1>3. PICK k \in 0..Len(q) :
        /\ \A i \in 1..k : expiry[q[i]] =< x
        /\ \A i \in (k+1)..Len(q) : x < expiry[q[i]]
        /\ timerq' = InsertAt(q, k+1, t)
  BY Zenon DEF Arm, add_timer, UpperBound
<1>4. expiry \in [Timers -> Int]
  BY DEF IInv, TypeOK
<1> HIDE DEF q
<1>5. QueueOK(timerq', expiry', armed')
  <2>1. QueueOK(q, expiry, armed \ {t}) /\ t \notin armed \ {t}
    BY <1>1 DEF q
  <2>2. QueueOK(InsertAt(q, k+1, t), [expiry EXCEPT ![t] = x],
                (armed \ {t}) \cup {t})
    BY <1>3, <1>4, <2>1, InsertTimerQueueOK, Zenon
  <2>3. QED BY <1>2, <1>3, <2>2, Zenon
<1>6. TypeOK'
  <2>1. timerq' \in Seq(Timers)
    BY <1>5 DEF QueueOK
  <2>2. waiting' \in SUBSET Timers /\ armed' \in SUBSET Timers
    BY <1>1, <1>2 DEF IInv, TypeOK
  <2>3. QED BY <1>1, <1>2, <2>1, <2>2 DEF IInv, TypeOK, loopVars
<1>7. TimerQueueOrdered' /\ TimerQueueComplete'
  BY <1>5, <1>6, QueueInvariantPrime
<1>8. WaitIsArmed' /\ OnTime' /\ FiringAligned'
  BY <1>1, <1>2 DEF WaitIsArmed, OnTime, FiringAligned
<1>9. QED
  BY <1>6, <1>7, <1>8 DEF IInv

\* Firing the first due timer keeps the invariant: it expires exactly now.
LEMMA FireIInv ==
    ASSUME IInv, FireNext
    PROVE  IInv'
<1> DEFINE t == Head(timerq)
<1>1. QueueOK(timerq, expiry, armed) /\ expiry \in [Timers -> Int]
  BY QueueInvariant DEF IInv, TypeOK
<1>2. /\ t \in armed /\ t \in Timers
      /\ \A u \in armed : expiry[t] =< expiry[u]
      /\ QueueOK(Tail(timerq), expiry, armed \ {t})
  <2>1. timerq # <<>>
    BY DEF FireNext
  <2>2. QED BY <1>1, <2>1, TailQueueOK DEF IInv, TypeOK
<1>3. expiry[t] = now
  BY <1>1, <1>2 DEF FireNext, IInv, FiringAligned, TypeOK
<1>4. /\ timerq' = Tail(timerq)
      /\ armed' = armed \ {t}
      /\ waiting' = waiting \ {t}
      /\ ready' = IF t \in waiting
                  THEN Append(ready, Completion(t, "ok", expiry[t]))
                  ELSE ready
      /\ executed' = TRUE
      /\ UNCHANGED <<now, expiry, stopped, ctx, prev, stalled>>
  BY DEF FireNext
<1> HIDE DEF t
<1>5. ready' \in Seq(Completions) /\ \A i \in DOMAIN ready' : ready'[i].due = now'
  <2>1. CASE t \in waiting
    <3>1. ready' = Append(ready, Completion(t, "ok", now)) /\ now \in Int
      BY <1>3, <1>4, <2>1 DEF IInv, TypeOK
    <3>2. QED BY <1>2, <1>4, <3>1, PostOnTime DEF IInv
  <2>2. CASE t \notin waiting
    BY <1>4, <2>2 DEF IInv, TypeOK, OnTime
  <2>3. QED BY <2>1, <2>2
<1>6. TypeOK'
  <2>1. timerq' \in Seq(Timers)
    BY <1>2, <1>4 DEF QueueOK
  <2>2. QED BY <1>4, <1>5, <2>1 DEF IInv, TypeOK
<1>7. QueueOK(timerq', expiry', armed')
  BY <1>2, <1>4, Zenon
<1>8. TimerQueueOrdered' /\ TimerQueueComplete'
  BY <1>6, <1>7, QueueInvariantPrime
<1>9. WaitIsArmed' /\ OnTime' /\ FiringAligned'
  BY <1>4, <1>5 DEF IInv, WaitIsArmed, OnTime, FiringAligned
<1>10. QED
  BY <1>6, <1>8, <1>9 DEF IInv

\* Moving the clock, with no handler posted, to the earliest expiry keeps the
\* invariant.
LEMMA FastForwardIInv ==
    ASSUME IInv, FastForward
    PROVE  /\ IInv'
           /\ timerq # <<>> => Head(timerq) \in armed
<1>1. /\ ready = <<>> /\ ready' = <<>>
      /\ UNCHANGED <<timerVars, stopped, loopVars>>
  BY DEF FastForward
<1>2. CASE timerq = <<>>
  <2>1. ctx' = "check" /\ now' = now
    BY <1>2 DEF FastForward
  <2>2. QED
    BY <1>1, <1>2, <2>1
       DEF timerVars, loopVars, IInv, TypeOK, Contexts, TimerQueueOrdered,
           TimerQueueComplete, WaitIsArmed, OnTime, FiringAligned
<1>3. CASE timerq # <<>>
  <2>1. ctx' = "fire" /\ now' = expiry[Head(timerq)]
    BY <1>3 DEF FastForward
  <2>2. QueueOK(timerq, expiry, armed) /\ expiry \in [Timers -> Int]
    BY QueueInvariant DEF IInv, TypeOK
  <2>3. /\ Head(timerq) \in armed
        /\ \A u \in armed : expiry[Head(timerq)] =< expiry[u]
    BY <1>3, <2>2, TailQueueOK
  <2>4. TypeOK'
    BY <1>1, <2>1, <2>3 DEF timerVars, loopVars, IInv, TypeOK, Contexts
  <2>5. TimerQueueOrdered' /\ TimerQueueComplete' /\ WaitIsArmed'
    BY <1>1 DEF timerVars, IInv, TimerQueueOrdered, TimerQueueComplete,
                WaitIsArmed
  <2>6. OnTime' /\ FiringAligned'
    BY <1>1, <2>1, <2>3 DEF timerVars, OnTime, FiringAligned
  <2>7. QED
    BY <2>3, <2>4, <2>5, <2>6 DEF IInv
<1>4. QED
  BY <1>2, <1>3

\* A step that touches neither the clock nor a timer and posts no handler
\* keeps the invariant, as long as it does not enter the firing loop.
LEMMA LoopStepIInv ==
    ASSUME IInv, UNCHANGED <<now, timerVars>>,
           ready' \in {ready, Tail(ready)}, ready' # ready => ready # <<>>,
           stopped' \in BOOLEAN, ctx' \in Contexts,
           ctx' = "fire" => ctx = "fire",
           executed' \in BOOLEAN, prev' \in Int, stalled' \in Nat
    PROVE  IInv'
<1>1. ready' \in Seq(Completions) /\ \A i \in DOMAIN ready' : ready'[i].due = now
  <2>1. ready \in Seq(Completions)
    BY DEF IInv, TypeOK
  <2>2. CASE ready' = ready
    BY <2>1, <2>2 DEF IInv, OnTime
  <2>3. CASE ready' = Tail(ready) /\ ready # <<>>
    <3>1. /\ Tail(ready) \in Seq(Completions)
          /\ \A i \in DOMAIN Tail(ready) :
                i+1 \in DOMAIN ready /\ Tail(ready)[i] = ready[i+1]
      BY <2>1, <2>3
    <3>2. QED BY <2>3, <3>1 DEF IInv, OnTime
  <2>4. QED BY <2>2, <2>3
<1>2. TypeOK'
  BY <1>1 DEF timerVars, IInv, TypeOK
<1>3. TimerQueueOrdered' /\ TimerQueueComplete' /\ WaitIsArmed'
  BY DEF timerVars, IInv, TimerQueueOrdered, TimerQueueComplete, WaitIsArmed
<1>4. OnTime' /\ FiringAligned'
  BY <1>1 DEF timerVars, IInv, OnTime, FiringAligned
<1>5. QED
  BY <1>2, <1>3, <1>4 DEF IInv

\* Every step keeps the invariant, whatever user code does in its handlers.
LEMMA NextIInv ==
    ASSUME IInv, [Next]_vars
    PROVE  IInv'
<1> USE DEF UserContext
<1>1. ASSUME NEW t \in Timers, Cancel(t) PROVE IInv'
  BY <1>1, CancelIInv DEF Cancel
<1>2. ASSUME NEW t \in Timers, NEW x \in Times, expires_at(t, x) PROVE IInv'
  BY <1>2, ArmIInv, ConstantsAssumption DEF expires_at
<1>3. ASSUME NEW t \in Timers, NEW d \in Durations, expires_after(t, d)
      PROVE  IInv'
  <2>1. now + d \in Int
    BY ConstantsAssumption DEF IInv, TypeOK
  <2>2. QED BY <1>3, <2>1, ArmIInv DEF expires_after
<1>4. ASSUME NEW t \in Timers, ArmStopped(t) PROVE IInv'
  BY <1>4, LoopStepIInv DEF ArmStopped, loopVars, Contexts, IInv, TypeOK
<1>5. ASSUME NEW t \in Timers, async_wait(t) PROVE IInv'
  <2>1. /\ UNCHANGED <<now, timerq, expiry, armed, stopped, ctx, loopVars>>
        /\ waiting' \subseteq armed
        /\ ready' \in Seq(Completions)
        /\ \A i \in DOMAIN ready' : ready'[i].due = now
    <3>1. CASE t \in armed
      BY <1>5, <3>1 DEF async_wait, IInv, WaitIsArmed, OnTime, TypeOK
    <3>2. CASE t \notin armed
      <4>1. ready' = Append(ready, Completion(t, "ok", now)) /\ waiting' = waiting
        BY <1>5, <3>2 DEF async_wait
      <4>2. now \in Int /\ TypeOK /\ OnTime
        BY DEF IInv, TypeOK
      <4>3. /\ ready' \in Seq(Completions)
            /\ \A i \in DOMAIN ready' : ready'[i].due = now
        BY <4>1, <4>2, PostOnTime
      <4>4. QED BY <1>5, <4>1, <4>3 DEF async_wait, IInv, WaitIsArmed
    <3>3. QED BY <3>1, <3>2
  <2>2. TypeOK'
    BY <2>1 DEF IInv, TypeOK, loopVars
  <2>3. TimerQueueOrdered' /\ TimerQueueComplete'
    BY <2>1 DEF IInv, TimerQueueOrdered, TimerQueueComplete
  <2>4. WaitIsArmed' /\ OnTime' /\ FiringAligned'
    BY <2>1 DEF IInv, WaitIsArmed, OnTime, FiringAligned
  <2>5. QED BY <2>2, <2>3, <2>4 DEF IInv
<1>6. CASE stop \/ restart \/ HandlerThrows
  BY <1>6, LoopStepIInv
     DEF stop, restart, HandlerThrows, loopVars, Contexts, IInv, TypeOK
<1>7. CASE RunEnter \/ CallHandler \/ HandlerReturns
  <2>1. CASE RunEnter
    BY <2>1, LoopStepIInv DEF RunEnter, Contexts, IInv, TypeOK
  <2>2. CASE CallHandler
    BY <2>2, LoopStepIInv DEF CallHandler, Contexts, IInv, TypeOK
  <2>3. CASE HandlerReturns
    BY <2>3, LoopStepIInv DEF HandlerReturns, loopVars, Contexts, IInv, TypeOK
  <2>4. QED BY <1>7, <2>1, <2>2, <2>3
<1>8. CASE FastForward
  BY <1>8, FastForwardIInv
<1>9. CASE FireNext
  BY <1>9, FireIInv
<1>10. CASE FireDone \/ RunIdle \/ RunProgress
  <2>1. CASE FireDone \/ RunIdle
    BY <2>1, LoopStepIInv DEF FireDone, RunIdle, loopVars, Contexts, IInv, TypeOK
  <2>2. CASE RunProgress
    BY <2>2, LoopStepIInv DEF RunProgress, Contexts, IInv, TypeOK
  <2>3. QED BY <1>10, <2>1, <2>2
<1>11. CASE RunStalled \/ RunThrows
  <2>1. stalled + 1 \in Nat
    BY DEF IInv, TypeOK
  <2>2. CASE RunStalled
    BY <2>1, <2>2, LoopStepIInv DEF RunStalled, Contexts, IInv, TypeOK
  <2>3. CASE RunThrows
    BY <2>1, <2>3, LoopStepIInv DEF RunThrows, Contexts, IInv, TypeOK
  <2>4. QED BY <1>11, <2>2, <2>3
<1>12. CASE CatchCancel
  <2>1. Head(timerq) \in Timers /\ ctx # "fire"
    BY <1>12 DEF CatchCancel, IInv, TypeOK
  <2>2. QED BY <1>12, <2>1, CancelIInv DEF CatchCancel
<1>13. CASE CatchDone
  BY <1>13, LoopStepIInv DEF CatchDone, loopVars, Contexts, IInv, TypeOK
<1>14. CASE UNCHANGED vars
  <2>1. UNCHANGED <<now, timerVars, ready, stopped, ctx, loopVars>>
    BY <1>14 DEF vars, timerVars, loopVars
  <2>2. QED BY <2>1, LoopStepIInv DEF loopVars, IInv, TypeOK
<1>15. QED
  BY <1>1, <1>2, <1>3, <1>4, <1>5, <1>6, <1>7, <1>8, <1>9, <1>10, <1>11,
     <1>12, <1>13, <1>14
     DEF Next, User, TimerOp, Loop

\* The invariant holds in every state of every run.
THEOREM Invariance == Spec => []IInv
<1>1. Init => IInv
  BY InitIInv
<1>2. IInv /\ [Next]_vars => IInv'
  BY NextIInv
<1>3. QED
  BY <1>1, <1>2, PTL DEF Spec

-----------------------------------------------------------------------------
(* What the invariant gives.                                               *)

\* Type correctness of the event loop.
THEOREM TypeCorrect == Spec => []TypeOK
BY Invariance, PTL DEF IInv

\* The timer queue is always sorted by expiry and holds no timer twice, so the
\* binary searches of add_timer() and remove_timer() find what they look for.
THEOREM QueueIsOrdered == Spec => []TimerQueueOrdered
BY Invariance, PTL DEF IInv

\* The timer queue holds exactly the timers that are not expired, and a handler
\* waits only in such a timer: no sequence of cancel(), expires_at(), fire()
\* and exceptions leaves a wait that nothing will complete.
THEOREM QueueIsComplete == Spec => [](TimerQueueComplete /\ WaitIsArmed)
BY Invariance, PTL DEF IInv

\* Every posted handler is called at the time it became due.
THEOREM HandlersOnTime == Spec => []OnTime
BY Invariance, PTL DEF IInv

\* When user code never arms a timer in the past, no armed timer is overdue.
THEOREM TimersNeverLate ==
    ASSUME PastAllowed = FALSE
    PROVE  Spec => []NeverLate
<1>1. Init => NeverLate
  BY DEF Init, NeverLate
<1>2. ASSUME IInv, NeverLate, [Next]_vars PROVE NeverLate'
  <2>1. expiry \in [Timers -> Int] /\ now \in Int /\ armed \in SUBSET Timers
    BY <1>2 DEF IInv, TypeOK
  <2>2. ASSUME NEW t \in Timers, NEW x \in Int, Arm(t, x) PROVE NeverLate'
    <3>1. /\ now =< x /\ now' = now
          /\ expiry' = [expiry EXCEPT ![t] = x]
          /\ armed' = armed \cup {t}
      BY <2>2 DEF Arm
    <3>2. QED BY <1>2, <2>1, <3>1 DEF NeverLate
  <2>3. CASE FastForward
    <3>1. CASE timerq = <<>>
      BY <1>2, <2>3, <3>1 DEF FastForward, timerVars, NeverLate
    <3>2. CASE timerq # <<>>
      <4>1. \A u \in armed : expiry[Head(timerq)] =< expiry[u]
        BY <1>2, <2>1, <3>2, QueueInvariant, TailQueueOK DEF IInv
      <4>2. QED BY <2>3, <3>2, <4>1 DEF FastForward, timerVars, NeverLate
    <3>3. QED BY <3>1, <3>2
  <2>4. ASSUME UNCHANGED <<now, expiry>>, armed' \subseteq armed
        PROVE  NeverLate'
    BY <1>2, <2>4 DEF NeverLate
  <2>5. CASE \E t \in Timers : TimerOp(t)
    <3>1. PICK t \in Timers : TimerOp(t)
      BY <2>5
    <3>2. CASE \E x \in Times : expires_at(t, x)
      BY <2>2, <3>2, ConstantsAssumption DEF expires_at
    <3>3. CASE \E d \in Durations : expires_after(t, d)
      <4>1. PICK d \in Durations : expires_after(t, d)
        BY <3>3
      <4>2. now + d \in Int
        BY <2>1, ConstantsAssumption
      <4>3. QED BY <2>2, <4>1, <4>2 DEF expires_after
    <3>4. CASE Cancel(t) \/ ArmStopped(t) \/ async_wait(t)
      BY <2>4, <3>4 DEF Cancel, ArmStopped, async_wait, timerVars
    <3>5. QED BY <3>1, <3>2, <3>3, <3>4 DEF TimerOp
  <2>6. CASE \/ stop \/ restart \/ HandlerThrows \/ RunEnter \/ CallHandler
             \/ HandlerReturns \/ FireDone \/ RunIdle \/ RunProgress
             \/ RunStalled \/ RunThrows \/ CatchDone
    BY <2>4, <2>6 DEF stop, restart, HandlerThrows, RunEnter, CallHandler,
       HandlerReturns, FireDone, RunIdle, RunProgress, RunStalled, RunThrows,
       CatchDone, timerVars
  <2>7. CASE FireNext \/ CatchCancel
    BY <2>4, <2>7 DEF FireNext, CatchCancel
  <2>8. CASE UNCHANGED vars
    BY <2>4, <2>8 DEF vars
  <2>9. QED
    BY <1>2, <2>3, <2>5, <2>6, <2>7, <2>8 DEF Next, User, Loop
<1>3. QED
  BY <1>1, <1>2, Invariance, PTL DEF Spec

\* When user code never arms a timer in the past, time never goes back: only
\* run() moves the clock, and only to the expiry of an armed timer.
THEOREM ClockIsSteady ==
    ASSUME PastAllowed = FALSE
    PROVE  Spec => ClockSteady
<1>1. ASSUME IInv, NeverLate, [Next]_vars PROVE [now =< now']_vars
  <2>1. now \in Int
    BY <1>1 DEF IInv, TypeOK
  <2>2. CASE FastForward
    <3>1. CASE timerq = <<>>
      BY <2>1, <2>2, <3>1 DEF FastForward
    <3>2. CASE timerq # <<>>
      <4>1. Head(timerq) \in armed
        BY <1>1, <2>2, <3>2, FastForwardIInv
      <4>2. QED BY <1>1, <2>2, <3>2, <4>1 DEF FastForward, NeverLate
    <3>3. QED BY <3>1, <3>2
  <2>3. CASE now' = now
    BY <2>1, <2>3
  <2>4. CASE User \/ RunEnter
    BY <2>3, <2>4 DEF User, TimerOp, Cancel, expires_at, expires_after, Arm,
       ArmStopped, async_wait, stop, restart, HandlerThrows, RunEnter
  <2>5. CASE Loop /\ ~FastForward
    BY <2>3, <2>5 DEF Loop, CallHandler, HandlerReturns, FireNext, FireDone,
       RunIdle, RunProgress, RunStalled, RunThrows, CatchCancel, CatchDone
  <2>6. CASE UNCHANGED vars
    BY <2>6
  <2>7. QED
    BY <1>1, <2>2, <2>4, <2>5, <2>6 DEF Next
<1>2. QED
  BY <1>1, Invariance, TimersNeverLate, PTL DEF Spec, ClockSteady

-----------------------------------------------------------------------------
(* The order of arming.                                                    *)

\* Queue r takes from queue q every timer but those of D, in the order of q.
OrderFrom(r, q, D) ==
    \A i, j \in 1..Len(r) : i < j /\ r[i] \notin D /\ r[j] \notin D =>
        \E k, l \in 1..Len(q) : k < l /\ q[k] = r[i] /\ q[l] = r[j]

\* What ArmingOrderKept says of one step from queue q with the timers A to
\* queue r with the expiries f.
ArmingOrder(q, A, r, f) ==
    \A j \in DOMAIN r :
        /\ r[j] \notin A => LastOfGroup(r, f, j)
        /\ \A i \in 1..(j-1), k, l \in DOMAIN q :
            q[k] = r[i] /\ q[l] = r[j] /\ l < k
            => LastOfGroup(r, f, i) \/ LastOfGroup(r, f, j)

\* A queue taken in order from the one before, with only new or armed-again
\* timers D out of order and each of those last of its expiry, keeps the order
\* of arming.
LEMMA OrderFromKeeps ==
    ASSUME NEW q, NEW e, NEW A, QueueOK(q, e, A),
           NEW r \in Seq(Timers), NEW f, NEW D, OrderFrom(r, q, D),
           \A j \in 1..Len(r) : r[j] \in A \cup D,
           \A j \in 1..Len(r) : r[j] \in D => LastOfGroup(r, f, j)
    PROVE  ArmingOrder(q, A, r, f)
<1>1. q \in Seq(Timers) /\ DOMAIN q = 1..Len(q) /\ DOMAIN r = 1..Len(r)
  BY DEF QueueOK
<1>2. ASSUME NEW j \in 1..Len(r), r[j] \notin A PROVE LastOfGroup(r, f, j)
  BY <1>2
<1>3. ASSUME NEW j \in 1..Len(r), NEW i \in 1..(j-1),
             NEW k \in 1..Len(q), NEW l \in 1..Len(q),
             q[k] = r[i], q[l] = r[j], l < k
      PROVE  LastOfGroup(r, f, i) \/ LastOfGroup(r, f, j)
  <2>1. i \in 1..Len(r) /\ i < j
    BY <1>1
  <2>2. SUFFICES ASSUME r[i] \notin D, r[j] \notin D PROVE FALSE
    BY <2>1
  <2>3. PICK a \in 1..Len(q), b \in 1..Len(q) :
            a < b /\ q[a] = r[i] /\ q[b] = r[j]
    BY <2>1, <2>2 DEF OrderFrom
  <2>4. a = k /\ b = l
    BY <1>3, <2>3 DEF QueueOK
  <2>5. QED BY <1>3, <2>3, <2>4
<1>4. QED
  BY <1>1, <1>2, <1>3, Zenon DEF ArmingOrder

\* A queue is taken in order from itself.
LEMMA SameOrder ==
    ASSUME NEW q, NEW D
    PROVE  OrderFrom(q, q, D)
BY Zenon DEF OrderFrom

\* Popping the first timer keeps the order of the others.
LEMMA TailOrder ==
    ASSUME NEW q \in Seq(Timers), q # <<>>
    PROVE  OrderFrom(Tail(q), q, {})
<1>1. PICK r : r = Tail(q)
  OBVIOUS
<1>2. /\ Len(q) \in Nat \ {0} /\ Len(r) = Len(q) - 1
      /\ \A j \in 1..(Len(q) - 1) : r[j] = q[j+1]
  BY <1>1
<1>3. ASSUME NEW i \in 1..Len(r), NEW j \in 1..Len(r), i < j
      PROVE  \E k, l \in 1..Len(q) : k < l /\ q[k] = r[i] /\ q[l] = r[j]
  <2>1. i+1 \in 1..Len(q) /\ j+1 \in 1..Len(q) /\ i+1 < j+1
    BY <1>2, <1>3
  <2>2. q[i+1] = r[i] /\ q[j+1] = r[j]
    BY <1>2
  <2>3. QED BY <2>1, <2>2
<1>4. OrderFrom(r, q, {})
  BY <1>3, Zenon DEF OrderFrom
<1>5. QED BY <1>1, <1>4

\* remove_timer() keeps the order of the timers it leaves.
LEMMA RemoveOrder ==
    ASSUME NEW q, NEW e, NEW A, QueueOK(q, e, A), NEW t \in A
    PROVE  OrderFrom(remove_timer(q, t), q, {})
<1> DEFINE m == CHOOSE i \in DOMAIN q : q[i] = t
<1>1. q \in Seq(Timers) /\ DOMAIN q = 1..Len(q) /\ Len(q) \in Nat
  BY DEF QueueOK
<1>2. m \in 1..Len(q) /\ q[m] = t
  BY <1>1 DEF QueueOK
<1>3. remove_timer(q, t) = RemoveAt(q, m)
  BY <1>1, <1>2 DEF remove_timer
<1> HIDE DEF m
<1>4. PICK r : r = RemoveAt(q, m)
  OBVIOUS
<1>5. /\ Len(r) = Len(q) - 1
      /\ \A j \in 1..(m-1) : r[j] = q[j]
      /\ \A j \in m..(Len(q)-1) : r[j] = q[j+1]
  BY <1>1, <1>2, <1>4, RemoveAtElements, Zenon
<1>6. Len(q) \in Nat /\ Len(r) = Len(q) - 1 /\ m \in Nat
  BY <1>1, <1>2, <1>5
<1>7. \A j \in 1..Len(r) : j < m => j \in 1..Len(q) /\ r[j] = q[j]
  BY <1>5, <1>6
<1>8. \A j \in 1..Len(r) : m =< j => j+1 \in 1..Len(q) /\ r[j] = q[j+1]
  BY <1>5, <1>6
<1>9. ASSUME NEW i \in 1..Len(r), NEW j \in 1..Len(r), i < j
      PROVE  \E k, l \in 1..Len(q) : k < l /\ q[k] = r[i] /\ q[l] = r[j]
  <2>1. CASE j < m
    <3>1. i < m
      BY <1>6, <1>9, <2>1
    <3>2. QED BY <1>7, <1>9, <2>1, <3>1
  <2>2. CASE i < m /\ m =< j
    <3>1. i \in 1..Len(q) /\ r[i] = q[i]
      BY <1>7, <2>2, Zenon
    <3>2. j+1 \in 1..Len(q) /\ r[j] = q[j+1]
      BY <1>8, <2>2, Zenon
    <3>3. i < j+1
      BY <1>9
    <3>4. QED BY <3>1, <3>2, <3>3
  <2>3. CASE m =< i
    <3>1. /\ i+1 \in 1..Len(q) /\ j+1 \in 1..Len(q) /\ i+1 < j+1
          /\ r[i] = q[i+1] /\ r[j] = q[j+1]
      <4>1. m =< j /\ i+1 < j+1
        BY <1>6, <1>9, <2>3
      <4>2. QED BY <1>8, <2>3, <4>1, Zenon
    <3>2. QED BY <3>1
  <2>4. j < m \/ (i < m /\ m =< j) \/ m =< i
    BY <1>6
  <2>5. QED BY <2>1, <2>2, <2>3, <2>4, Zenon
<1>10. OrderFrom(r, q, {})
  BY <1>9, Zenon DEF OrderFrom
<1>11. QED BY <1>3, <1>4, <1>10

\* Inserting t at the partition point of its expiry puts it last of its expiry
\* and keeps the order of the others.
LEMMA InsertOrder ==
    ASSUME NEW q, NEW e \in [Timers -> Int], NEW A, QueueOK(q, e, A),
           NEW t \in Timers, t \notin A, NEW x \in Int,
           NEW m \in 0..Len(q),
           \A i \in (m+1)..Len(q) : x < e[q[i]],
           NEW f, f = [e EXCEPT ![t] = x],
           NEW r, r = InsertAt(q, m+1, t)
    PROVE  /\ OrderFrom(r, q, {t})
           /\ \A j \in 1..Len(r) : r[j] = t => LastOfGroup(r, f, j)
<1>1. PICK n \in Nat : n = Len(q)
  BY DEF QueueOK
<1>2. /\ q \in Seq(Timers)
      /\ \A i \in 1..n : q[i] # t /\ q[i] \in Timers
      /\ m \in Nat /\ m =< n
  BY <1>1 DEF QueueOK
<1>3. PICK p \in Nat : p = m+1
  BY <1>2
<1>4. /\ r \in Seq(Timers)
      /\ Len(r) = n + 1
      /\ \A j \in 1..(p-1) : r[j] = q[j]
      /\ r[p] = t
      /\ \A j \in (p+1)..(n+1) : r[j] = q[j-1]
  <2>1. p \in 1..(Len(q)+1) /\ r = InsertAt(q, p, t)
    BY <1>1, <1>2, <1>3
  <2>2. /\ InsertAt(q, p, t) \in Seq(Timers)
        /\ Len(InsertAt(q, p, t)) = Len(q) + 1
        /\ \A j \in 1..(p-1) : InsertAt(q, p, t)[j] = q[j]
        /\ InsertAt(q, p, t)[p] = t
        /\ \A j \in (p+1)..(Len(q)+1) : InsertAt(q, p, t)[j] = q[j-1]
    <3>1. q \in Seq(Timers) /\ p \in 1..(Len(q)+1)
      BY <1>2, <2>1
    <3>2. QED BY <3>1, InsertAtElements
  <2>3. QED BY <1>1, <2>1, <2>2, Zenon
<1>5. p =< n + 1 /\ 1 =< p
  BY <1>2, <1>3
<1>6. \A j \in 1..(n+1) : r[j] = t => j = p
  <2> SUFFICES ASSUME NEW j \in 1..(n+1), j # p PROVE r[j] # t
    OBVIOUS
  <2>1. CASE j < p
    <3>1. j \in 1..(p-1) /\ j \in 1..n
      BY <1>5, <2>1
    <3>2. QED BY <1>2, <1>4, <3>1
  <2>2. CASE j > p
    <3>1. j \in (p+1)..(n+1) /\ j-1 \in 1..n
      BY <1>5, <2>2
    <3>2. QED BY <1>2, <1>4, <3>1
  <2>3. QED BY <2>1, <2>2
<1>7. ASSUME NEW k \in 1..(n+1), p < k PROVE f[r[p]] < f[r[k]]
  <2>1. k \in (p+1)..(n+1) /\ k-1 \in (m+1)..n /\ k-1 \in 1..n
    BY <1>2, <1>3, <1>5, <1>7
  <2>2. r[k] = q[k-1] /\ r[p] = t
    BY <1>4, <2>1
  <2>3. q[k-1] # t /\ q[k-1] \in Timers /\ x < e[q[k-1]]
    BY <1>1, <1>2, <2>1
  <2>4. f[t] = x /\ f[q[k-1]] = e[q[k-1]]
    BY <2>3
  <2>5. QED BY <2>2, <2>3, <2>4
<1>8. LastOfGroup(r, f, p)
  <2>1. DOMAIN r = 1..(n+1)
    BY <1>4
  <2>2. QED BY <1>7, <2>1, Zenon DEF LastOfGroup
<1>9. ASSUME NEW i \in 1..(n+1), NEW j \in 1..(n+1), i < j,
             r[i] # t, r[j] # t
      PROVE  \E k, l \in 1..n : k < l /\ q[k] = r[i] /\ q[l] = r[j]
  <2>1. i # p /\ j # p
    BY <1>4, <1>9
  <2>2. CASE j < p
    <3>1. i \in 1..(p-1) /\ j \in 1..(p-1) /\ i \in 1..n /\ j \in 1..n
      BY <1>5, <1>9, <2>2
    <3>2. QED BY <1>4, <1>9, <3>1
  <2>3. CASE i < p /\ p < j
    <3>1. /\ i \in 1..(p-1) /\ j \in (p+1)..(n+1)
          /\ i \in 1..n /\ j-1 \in 1..n /\ i < j-1
      BY <1>5, <2>3
    <3>2. q[i] = r[i] /\ q[j-1] = r[j]
      BY <1>4, <3>1
    <3>3. QED BY <3>1, <3>2
  <2>4. CASE p < i
    <3>1. /\ i \in (p+1)..(n+1) /\ j \in (p+1)..(n+1)
          /\ i-1 \in 1..n /\ j-1 \in 1..n /\ i-1 < j-1
      BY <1>5, <1>9, <2>4
    <3>2. q[i-1] = r[i] /\ q[j-1] = r[j]
      BY <1>4, <3>1
    <3>3. QED BY <3>1, <3>2
  <2>5. QED BY <2>1, <2>2, <2>3, <2>4
<1>10. OrderFrom(r, q, {t})
  <2>1. Len(r) = n + 1 /\ Len(q) = n
    BY <1>1, <1>4
  <2>2. ASSUME NEW i \in 1..Len(r), NEW j \in 1..Len(r), i < j,
               r[i] \notin {t}, r[j] \notin {t}
        PROVE  \E k, l \in 1..Len(q) : k < l /\ q[k] = r[i] /\ q[l] = r[j]
    <3>1. /\ i \in 1..(n+1) /\ j \in 1..(n+1) /\ i < j
          /\ r[i] # t /\ r[j] # t
      BY <2>1, <2>2
    <3>2. PICK k \in 1..n, l \in 1..n : k < l /\ q[k] = r[i] /\ q[l] = r[j]
      BY <1>9, <3>1, Zenon
    <3>3. k \in 1..Len(q) /\ l \in 1..Len(q)
      BY <2>1
    <3>4. QED BY <3>2, <3>3, Zenon
  <2>3. QED BY <2>2 DEF OrderFrom
<1>11. \A j \in 1..Len(r) : r[j] = t => LastOfGroup(r, f, j)
  <2>1. Len(r) = n + 1
    BY <1>4
  <2>2. QED BY <1>6, <1>8, <2>1, Zenon
<1>12. QED BY <1>10, <1>11

\* Taking in order composes.
LEMMA OrderComposes ==
    ASSUME NEW q, NEW p, NEW r, NEW e, NEW A, QueueOK(p, e, A), NEW D,
           OrderFrom(p, q, {}), OrderFrom(r, p, D)
    PROVE  OrderFrom(r, q, D)
<1> SUFFICES ASSUME NEW i \in 1..Len(r), NEW j \in 1..Len(r), i < j,
                    r[i] \notin D, r[j] \notin D
             PROVE  \E k, l \in 1..Len(q) : k < l /\ q[k] = r[i] /\ q[l] = r[j]
  BY Zenon DEF OrderFrom
<1>1. PICK a \in 1..Len(p), b \in 1..Len(p) :
        a < b /\ p[a] = r[i] /\ p[b] = r[j]
  BY Zenon DEF OrderFrom
<1>2. \E k, l \in 1..Len(q) : k < l /\ q[k] = p[a] /\ q[l] = p[b]
  BY <1>1, Zenon DEF OrderFrom
<1>3. QED BY <1>1, <1>2

\* cancel() keeps the order of the timers it leaves in the queue.
LEMMA CancelOrder ==
    ASSUME IInv, NEW t \in Timers
    PROVE  OrderFrom(CancelledQueue(t), timerq, {})
<1>1. QueueOK(timerq, expiry, armed)
  BY QueueInvariant DEF IInv
<1>2. CASE t \in armed
  BY <1>1, <1>2, RemoveOrder, Zenon DEF CancelledQueue
<1>3. CASE t \notin armed
  BY <1>3, SameOrder, Zenon DEF CancelledQueue
<1>4. QED BY <1>2, <1>3

\* A step that takes the queue in order from the one before, with no timer
\* added, keeps the order of arming.
LEMMA ShrinkArmingOrder ==
    ASSUME IInv, IInv', armed' \subseteq armed, OrderFrom(timerq', timerq, {})
    PROVE  ArmingOrder(timerq, armed, timerq', expiry')
<1>1. QueueOK(timerq, expiry, armed)
  BY QueueInvariant DEF IInv
<1>2. QueueOK(timerq', expiry', armed')
  BY QueueInvariantPrime DEF IInv
<1>3. PICK q, e, A, r, f : /\ q = timerq /\ e = expiry /\ A = armed
                           /\ r = timerq' /\ f = expiry'
  OBVIOUS
<1>4. r \in Seq(Timers) /\ \A j \in 1..Len(r) : r[j] \in A
  BY <1>2, <1>3 DEF QueueOK
<1>5. QueueOK(q, e, A) /\ OrderFrom(r, q, {})
  BY <1>1, <1>3
<1>6. ArmingOrder(q, A, r, f)
  <2>1. \A j \in 1..Len(r) : r[j] \in A \cup {}
    BY <1>4
  <2>2. \A j \in 1..Len(r) : r[j] \in {} => LastOfGroup(r, f, j)
    OBVIOUS
  <2>3. QED BY <1>4, <1>5, <2>1, <2>2, OrderFromKeeps, Zenon
<1>7. QED BY <1>3, <1>6

\* expires_at() and expires_after() put the timer last of its expiry and keep
\* the order of the others.
LEMMA ArmArmingOrder ==
    ASSUME IInv, NEW t \in Timers, NEW x \in Int, Arm(t, x)
    PROVE  ArmingOrder(timerq, armed, timerq', expiry')
<1>1. PICK p : p = CancelledQueue(t)
  OBVIOUS
<1>2. QueueOK(p, expiry, armed \ {t}) /\ OrderFrom(p, timerq, {})
  BY <1>1, CancelKeeps, CancelOrder
<1>3. PICK m \in 0..Len(p) :
        /\ \A i \in (m+1)..Len(p) : x < expiry[p[i]]
        /\ timerq' = InsertAt(p, m+1, t)
  BY <1>1, Zenon DEF Arm, add_timer, UpperBound
<1>4. expiry' = [expiry EXCEPT ![t] = x] /\ armed' = armed \cup {t}
  BY DEF Arm
<1>5. /\ expiry \in [Timers -> Int] /\ t \notin armed \ {t}
      /\ QueueOK(timerq, expiry, armed)
  BY QueueInvariant DEF IInv, TypeOK
<1>6. PICK q, e, A, r, f : /\ q = timerq /\ e = expiry /\ A = armed
                           /\ r = timerq' /\ f = expiry'
  OBVIOUS
<1>7. /\ OrderFrom(r, p, {t})
      /\ \A j \in 1..Len(r) : r[j] = t => LastOfGroup(r, f, j)
  <2>1. /\ QueueOK(p, e, A \ {t}) /\ e \in [Timers -> Int]
        /\ t \notin A \ {t}
        /\ \A i \in (m+1)..Len(p) : x < e[p[i]]
        /\ f = [e EXCEPT ![t] = x]
        /\ r = InsertAt(p, m+1, t)
    BY <1>2, <1>3, <1>4, <1>5, <1>6
  <2>2. QED BY <2>1, InsertOrder, Zenon
<1>8. OrderFrom(r, q, {t})
  BY <1>2, <1>6, <1>7, OrderComposes
<1>9. r \in Seq(Timers) /\ \A j \in 1..Len(r) : r[j] \in A \cup {t}
  <2>1. IInv'
    BY ArmIInv
  <2>2. QueueOK(timerq', expiry', armed')
    BY <2>1, QueueInvariantPrime DEF IInv
  <2>3. QueueOK(r, f, A \cup {t})
    BY <1>4, <1>6, <2>2
  <2>4. QED BY <2>3 DEF QueueOK
<1>10. ArmingOrder(q, A, r, f)
  <2>1. \A j \in 1..Len(r) : r[j] \in {t} => LastOfGroup(r, f, j)
    BY <1>7
  <2>2. QueueOK(q, e, A)
    BY <1>5, <1>6
  <2>3. QED BY <1>8, <1>9, <2>1, <2>2, OrderFromKeeps, Zenon
<1>11. QED BY <1>6, <1>10

\* No step swaps two timers of the queue but by arming one of them again, and
\* a timer that is armed goes behind all that expire no later: timers with the
\* same expiry fire in the order in which they were armed.
THEOREM TimersFireAsArmed == Spec => ArmingOrderKept
<1>1. ASSUME IInv, [Next]_vars
      PROVE  ArmingOrder(timerq, armed, timerq', expiry')
  <2>1. IInv'
    BY <1>1, NextIInv
  <2>2. ASSUME NEW t \in Timers, NEW x \in Int, Arm(t, x)
        PROVE  ArmingOrder(timerq, armed, timerq', expiry')
    BY <1>1, <2>2, ArmArmingOrder
  <2>3. ASSUME NEW t \in Timers, timerq' = CancelledQueue(t),
               armed' = armed \ {t}
        PROVE  ArmingOrder(timerq, armed, timerq', expiry')
    <3>1. OrderFrom(timerq', timerq, {})
      BY <1>1, <2>3, CancelOrder
    <3>2. armed' \subseteq armed
      BY <2>3
    <3>3. QED BY <1>1, <2>1, <3>1, <3>2, ShrinkArmingOrder
  <2>4. ASSUME timerq' = timerq, armed' = armed
        PROVE  ArmingOrder(timerq, armed, timerq', expiry')
    <3>1. OrderFrom(timerq', timerq, {})
      BY <2>4, SameOrder
    <3>2. QED BY <1>1, <2>1, <2>4, <3>1, ShrinkArmingOrder
  <2>5. CASE FireNext
    <3>1. timerq \in Seq(Timers) /\ timerq # <<>> /\ timerq' = Tail(timerq)
      BY <1>1, <2>5 DEF FireNext, IInv, TypeOK
    <3>2. OrderFrom(timerq', timerq, {})
      BY <3>1, TailOrder
    <3>3. armed' \subseteq armed
      BY <2>5 DEF FireNext
    <3>4. QED BY <1>1, <2>1, <3>2, <3>3, ShrinkArmingOrder
  <2>6. CASE CatchCancel
    <3>1. Head(timerq) \in Timers
      BY <1>1, <2>6 DEF CatchCancel, IInv, TypeOK
    <3>2. QED BY <2>3, <2>6, <3>1 DEF CatchCancel
  <2>7. CASE \E t \in Timers : TimerOp(t)
    <3>1. PICK t \in Timers : TimerOp(t)
      BY <2>7
    <3>2. CASE \E x \in Times : expires_at(t, x)
      BY <2>2, <3>2, ConstantsAssumption DEF expires_at
    <3>3. CASE \E d \in Durations : expires_after(t, d)
      <4>1. PICK d \in Durations : expires_after(t, d)
        BY <3>3
      <4>2. now + d \in Int
        BY <1>1, ConstantsAssumption DEF IInv, TypeOK
      <4>3. QED BY <2>2, <4>1, <4>2 DEF expires_after
    <3>4. CASE Cancel(t)
      BY <2>3, <3>4 DEF Cancel
    <3>5. CASE ArmStopped(t) \/ async_wait(t)
      BY <2>4, <3>5 DEF ArmStopped, async_wait, timerVars
    <3>6. QED BY <3>1, <3>2, <3>3, <3>4, <3>5 DEF TimerOp
  <2>8. CASE \/ stop \/ restart \/ HandlerThrows \/ RunEnter \/ CallHandler
             \/ HandlerReturns \/ FastForward \/ FireDone \/ RunIdle
             \/ RunProgress \/ RunStalled \/ RunThrows \/ CatchDone
    BY <2>4, <2>8 DEF stop, restart, HandlerThrows, RunEnter, CallHandler,
       HandlerReturns, FastForward, FireDone, RunIdle, RunProgress,
       RunStalled, RunThrows, CatchDone, timerVars
  <2>9. CASE UNCHANGED vars
    BY <2>4, <2>9 DEF vars
  <2>10. QED
    BY <1>1, <2>5, <2>6, <2>7, <2>8, <2>9 DEF Next, User, Loop
<1>2. ASSUME IInv, [Next]_vars
      PROVE  [\A j \in DOMAIN timerq' :
                /\ timerq'[j] \notin armed => LastOfGroup(timerq', expiry', j)
                /\ \A i \in 1..(j-1), k, l \in DOMAIN timerq :
                    timerq[k] = timerq'[i] /\ timerq[l] = timerq'[j] /\ l < k
                    => \/ LastOfGroup(timerq', expiry', i)
                       \/ LastOfGroup(timerq', expiry', j)]_vars
  BY <1>1, <1>2, Zenon DEF ArmingOrder
<1>3. QED
  BY <1>2, Invariance, PTL DEF Spec, ArmingOrderKept

=============================================================================
