-------------------------- MODULE TcpStreamProofs --------------------------
(***************************************************************************)
(* Proofs about TcpStream, for any sizes of segments, writes and reads and *)
(* any number of drops: the assertions of the ack handler hold, and the    *)
(* connection implements ByteStream.  What the sums, the copy loop and the *)
(* reorder buffer compute is shown by induction over numbers, which is     *)
(* stated about sets (UpToInduction).                                      *)
(***************************************************************************)
EXTENDS TcpStream, FiniteSetTheorems, SequenceTheorems, WellFoundedInduction, TLAPS

-----------------------------------------------------------------------------
(* Induction over numbers.                                                 *)

\* A set of numbers that is not empty has a least element.
LEMMA LeastNumber ==
    ASSUME NEW T, T \subseteq Nat, T # {}
    PROVE  \E x \in T : \A y \in T : x =< y
<1> DEFINE R == {ss \in Nat \X Nat : ss[1] < ss[2]}
<1>1. IsWellFoundedOn(R, Nat)
  BY NatLessThanWellFounded DEF OpToRel
<1>2. \A x, y \in T : y < x => <<y, x>> \in R
  OBVIOUS
<1> HIDE DEF R
<1>3. PICK x \in T : \A y \in T : <<y, x>> \notin R
  BY <1>1, WFMin, Zenon
<1>4. \A y \in T : ~(y < x)
  BY <1>2, <1>3, Zenon
<1>5. QED
  BY <1>4

\* Induction over the numbers up to N, as a statement about a set.
LEMMA UpToInduction ==
    ASSUME NEW N \in Nat, NEW T, 0 \in T,
           \A n \in 1..N : n-1 \in T => n \in T
    PROVE  0..N \subseteq T
<1> DEFINE X == (0..N) \ T
<1>1. SUFFICES ASSUME X # {} PROVE FALSE
  OBVIOUS
<1>2. PICK x \in X : \A y \in X : x =< y
  <2>1. X \subseteq Nat
    OBVIOUS
  <2> HIDE DEF X
  <2>2. QED
    BY <1>1, <2>1, LeastNumber, Zenon
<1>3. x \in 1..N /\ x-1 \notin X
  BY <1>2
<1>4. QED
  BY <1>3

-----------------------------------------------------------------------------
(* The sum of the lengths in a finite set.                                 *)

Sum(S) == MapThenSumSet(LAMBDA o : o.len, S)

Sized(S) == IsFiniteSet(S) /\ \A x \in S : x.len \in Nat

Some(s) == CHOOSE x \in s : TRUE
SumFrom(f, s) == IF s = {} THEN 0 ELSE Some(s).len + f[s \ {Some(s)}]

\* The sums of all subsets of S, which MapThenSumSet() is made of.
IsSums(f, S) == f = [s \in SUBSET S |-> SumFrom(f, s)]

\* Sum is the sum that some function of the subsets of S gives.
LEMMA SumIsOne ==
    ASSUME NEW S
    PROVE  Sum(S) = (CHOOSE f : IsSums(f, S))[S]
BY DEF Sum, MapThenSumSet, MapThenFoldSet, IsSums, SumFrom, Some

\* Subsets of a finite set of sizes, counted.
LEMMA SubsetSized ==
    ASSUME NEW S, Sized(S), NEW s \in SUBSET S
    PROVE  /\ Sized(s) /\ Cardinality(s) \in Nat /\ Cardinality(s) =< Cardinality(S)
           /\ (s = {}) <=> (Cardinality(s) = 0)
           /\ \A x \in s : Cardinality(s \ {x}) = Cardinality(s) - 1 /\ Sized(s \ {x})
<1>1. IsFiniteSet(s) /\ Cardinality(s) \in Nat /\ Cardinality(s) =< Cardinality(S)
  BY FS_Subset, FS_CardinalityType DEF Sized
<1>2. Sized(s)
  BY <1>1 DEF Sized
<1>3. (s = {}) <=> (Cardinality(s) = 0)
  BY <1>1, FS_EmptySet
<1>4. ASSUME NEW x \in s PROVE Cardinality(s \ {x}) = Cardinality(s) - 1 /\ Sized(s \ {x})
  BY <1>1, <1>2, FS_RemoveElement DEF Sized
<1>5. QED
  BY <1>1, <1>2, <1>3, <1>4

\* The element a sum takes next is an element of the set.
LEMMA SomeIn ==
    ASSUME NEW s, s # {}
    PROVE  Some(s) \in s
BY DEF Some

\* Such a function exists: by the least size of a set without one.
LEMMA SumsExist ==
    ASSUME NEW S, Sized(S)
    PROVE  \E f \in [SUBSET S -> Nat] : IsSums(f, S)
<1>1. Cardinality(S) \in Nat
  BY SubsetSized
<1> DEFINE N == Cardinality(S)
<1> DEFINE UpTo(f, n) == \A s \in SUBSET S : Cardinality(s) =< n => f[s] = SumFrom(f, s)
<1> DEFINE T == {n \in 0..N : \E f \in [SUBSET S -> Nat] : UpTo(f, n)}
<1>2. 0 \in T
  <2>1. [s \in SUBSET S |-> 0] \in [SUBSET S -> Nat]
    OBVIOUS
  <2>2. \A s \in SUBSET S : Cardinality(s) =< 0 => s = {}
    BY SubsetSized
  <2>3. UpTo([s \in SUBSET S |-> 0], 0)
    BY <2>2 DEF SumFrom
  <2>4. QED
    BY <1>1, <2>1, <2>3
<1>3. ASSUME NEW n \in 1..N, n-1 \in T PROVE n \in T
  <2>1. PICK f \in [SUBSET S -> Nat] : UpTo(f, n-1)
    BY <1>3
  <2> DEFINE g == [s \in SUBSET S |-> SumFrom(f, s)]
  <2>2. \A s \in SUBSET S : SumFrom(f, s) \in Nat
    <3>1. ASSUME NEW s \in SUBSET S, s # {} PROVE SumFrom(f, s) \in Nat
      <4>1. Some(s) \in s /\ Some(s).len \in Nat
        BY <3>1, SomeIn DEF Sized
      <4>2. f[s \ {Some(s)}] \in Nat
        BY <2>1
      <4>3. QED
        BY <3>1, <4>1, <4>2 DEF SumFrom
    <3>2. QED
      BY <3>1 DEF SumFrom
  <2>3. g \in [SUBSET S -> Nat]
    BY <2>2
  <2>4. ASSUME NEW s \in SUBSET S, Cardinality(s) =< n PROVE g[s] = SumFrom(g, s)
    <3>1. CASE s = {}
      BY <3>1 DEF SumFrom
    <3>2. CASE s # {}
      <4>1. Some(s) \in s
        BY <3>2, SomeIn
      <4>2. PICK r \in SUBSET S : r = s \ {Some(s)}
        OBVIOUS
      <4>3. Cardinality(r) =< n-1
        <5>1. Cardinality(r) = Cardinality(s) - 1 /\ Cardinality(s) \in Nat
          BY <4>1, <4>2, SubsetSized
        <5>2. QED
          BY <1>1, <2>4, <5>1
      <4>4. g[r] = f[r]
        BY <2>1, <4>3
      <4>5. QED
        BY <3>2, <4>2, <4>4 DEF SumFrom
    <3>3. QED
      BY <3>1, <3>2
  <2> HIDE DEF g
  <2>5. UpTo(g, n)
    BY <2>4
  <2>6. QED
    BY <2>3, <2>5
<1>4. N \in T
  <2>1. \A n \in 1..N : n-1 \in T => n \in T
    BY <1>3
  <2>2. N \in Nat
    BY <1>1
  <2> HIDE DEF T, N
  <2>3. 0..N \subseteq T
    BY <1>2, <2>1, <2>2, UpToInduction, Zenon
  <2>4. QED
    BY <2>2, <2>3
<1>5. PICK f \in [SUBSET S -> Nat] : UpTo(f, N)
  BY <1>4
<1>6. \A s \in SUBSET S : f[s] = SumFrom(f, s)
  BY <1>5, SubsetSized
<1>7. IsSums(f, S)
  BY <1>6 DEF IsSums
<1>8. QED
  BY <1>7

\* The sums of the subsets do not depend on the set they are subsets of.
LEMMA SumsAgree ==
    ASSUME NEW S, Sized(S), NEW f, IsSums(f, S), NEW R, NEW g, IsSums(g, R), R \subseteq S
    PROVE  \A s \in SUBSET R : f[s] = g[s]
<1>1. Sized(R) /\ Cardinality(R) \in Nat
  BY SubsetSized
<1> DEFINE N == Cardinality(R)
<1> DEFINE T == {n \in 0..N : \A s \in SUBSET R : Cardinality(s) =< n => f[s] = g[s]}
<1>2. \A s \in SUBSET R : f[s] = SumFrom(f, s) /\ g[s] = SumFrom(g, s)
  BY DEF IsSums
<1>3. 0 \in T
  <2>1. \A s \in SUBSET R : Cardinality(s) =< 0 => s = {}
    BY <1>1, SubsetSized
  <2>2. QED
    BY <1>1, <1>2, <2>1 DEF SumFrom
<1>4. ASSUME NEW n \in 1..N, n-1 \in T PROVE n \in T
  <2>1. ASSUME NEW s \in SUBSET R, Cardinality(s) =< n PROVE f[s] = g[s]
    <3>1. CASE s = {}
      BY <1>2, <3>1 DEF SumFrom
    <3>2. CASE s # {}
      <4>1. Some(s) \in s
        BY <3>2, SomeIn
      <4>2. PICK r \in SUBSET R : r = s \ {Some(s)}
        OBVIOUS
      <4>3. Cardinality(r) =< n-1
        <5>1. Cardinality(r) = Cardinality(s) - 1 /\ Cardinality(s) \in Nat
          BY <1>1, <4>1, <4>2, SubsetSized
        <5>2. QED
          BY <1>1, <2>1, <5>1
      <4>4. g[r] = f[r]
        BY <1>4, <4>3
      <4>5. QED
        BY <1>2, <3>2, <4>2, <4>4 DEF SumFrom
    <3>3. QED
      BY <3>1, <3>2
  <2>2. QED
    BY <2>1
<1>5. N \in T
  <2>1. \A n \in 1..N : n-1 \in T => n \in T
    BY <1>4
  <2>2. N \in Nat
    BY <1>1
  <2> HIDE DEF T, N
  <2>3. 0..N \subseteq T
    BY <1>3, <2>1, <2>2, UpToInduction, Zenon
  <2>4. QED
    BY <2>2, <2>3
<1>6. QED
  BY <1>1, <1>5, SubsetSized

\* A sum, one element at a time.
LEMMA SumStep ==
    ASSUME NEW S, Sized(S)
    PROVE  /\ Sum(S) \in Nat
           /\ S = {} => Sum(S) = 0
           /\ S # {} => Sum(S) = Some(S).len + Sum(S \ {Some(S)})
<1>1. PICK f : f = CHOOSE h : IsSums(h, S)
  OBVIOUS
<1>2. IsSums(f, S) /\ Sum(S) = f[S]
  BY <1>1, SumsExist, SumIsOne
<1>3. PICK h \in [SUBSET S -> Nat] : IsSums(h, S)
  BY SumsExist
<1>4. f[S] = h[S]
  BY <1>2, <1>3, SumsAgree
<1>5. Sum(S) \in Nat
  BY <1>2, <1>3, <1>4
<1>6. f[S] = SumFrom(f, S)
  BY <1>2 DEF IsSums
<1>7. ASSUME S # {} PROVE Sum(S) = Some(S).len + Sum(S \ {Some(S)})
  <2>1. PICK R : R = S \ {Some(S)}
    OBVIOUS
  <2>2. Sized(R) /\ R \subseteq S
    BY <1>7, <2>1, SomeIn, SubsetSized
  <2>3. PICK g : g = CHOOSE k : IsSums(k, R)
    OBVIOUS
  <2>4. IsSums(g, R) /\ Sum(R) = g[R]
    BY <2>2, <2>3, SumsExist, SumIsOne
  <2>5. f[R] = g[R]
    BY <1>2, <2>2, <2>4, SumsAgree
  <2>6. QED
    BY <1>2, <1>6, <1>7, <2>1, <2>4, <2>5 DEF SumFrom
<1>8. S = {} => Sum(S) = 0
  BY <1>2, <1>6 DEF SumFrom
<1>9. QED
  BY <1>5, <1>7, <1>8

\* Any element can be taken out first.
LEMMA SumRemove ==
    ASSUME NEW S, Sized(S), NEW y \in S
    PROVE  Sum(S) = y.len + Sum(S \ {y})
<1>1. Cardinality(S) \in Nat
  BY SubsetSized
<1> DEFINE N == Cardinality(S)
<1> DEFINE T == {n \in 0..N : \A s \in SUBSET S : Cardinality(s) =< n =>
                                \A x \in s : Sum(s) = x.len + Sum(s \ {x})}
<1>2. 0 \in T
  <2>1. \A s \in SUBSET S : Cardinality(s) =< 0 => s = {}
    BY SubsetSized
  <2>2. QED
    BY <1>1, <2>1
<1>3. ASSUME NEW n \in 1..N, n-1 \in T PROVE n \in T
  <2>1. ASSUME NEW s \in SUBSET S, Cardinality(s) =< n, NEW x \in s PROVE Sum(s) = x.len + Sum(s \ {x})
    <3>0. PICK c \in s : c = Some(s)
      BY SomeIn
    <3>1. Sized(s) /\ Sum(s) = c.len + Sum(s \ {c})
      BY <3>0, SubsetSized, SumStep
    <3>2. CASE c = x
      BY <3>1, <3>2
    <3>3. CASE c # x
      <4>1. PICK a \in SUBSET S : a = s \ {c}
        OBVIOUS
      <4>2. PICK b \in SUBSET S : b = s \ {x}
        OBVIOUS
      <4>3. PICK d \in SUBSET S : d = a \ {x} /\ d = b \ {c}
        BY <4>1, <4>2
      <4>4. x \in a /\ c \in b
        BY <3>3, <4>1, <4>2
      <4>5. Cardinality(a) =< n-1 /\ Cardinality(b) =< n-1
        <5>1. Cardinality(a) = Cardinality(s) - 1 /\ Cardinality(b) = Cardinality(s) - 1 /\ Cardinality(s) \in Nat
          BY <4>1, <4>2, SubsetSized
        <5>2. QED
          BY <1>1, <2>1, <5>1
      <4>6. Sum(a) = x.len + Sum(d) /\ Sum(b) = c.len + Sum(d)
        BY <1>3, <4>3, <4>4, <4>5
      <4>7. x.len \in Nat /\ c.len \in Nat /\ Sum(d) \in Nat
        BY SubsetSized, SumStep DEF Sized
      <4>8. Sum(s) = c.len + Sum(a)
        BY <3>1, <4>1
      <4>9. QED
        BY <4>2, <4>6, <4>7, <4>8
    <3>4. QED
      BY <3>2, <3>3
  <2>2. QED
    BY <2>1
<1>4. N \in T
  <2>1. \A n \in 1..N : n-1 \in T => n \in T
    BY <1>3
  <2>2. N \in Nat
    BY <1>1
  <2> HIDE DEF T, N
  <2>3. 0..N \subseteq T
    BY <1>2, <2>1, <2>2, UpToInduction, Zenon
  <2>4. QED
    BY <2>2, <2>3
<1>5. S \in SUBSET S /\ Cardinality(S) =< N
  BY <1>1
<1>6. QED
  BY <1>4, <1>5

\* An element more adds its size, whatever the order of summing.
LEMMA SumAdd ==
    ASSUME NEW S, Sized(S), NEW y, y.len \in Nat, y \notin S
    PROVE  Sized(S \cup {y}) /\ Sum(S \cup {y}) = Sum(S) + y.len
<1>1. PICK R : R = S \cup {y}
  OBVIOUS
<1>2. Sized(R) /\ y \in R /\ R \ {y} = S
  BY <1>1, FS_AddElement DEF Sized
<1>3. Sum(R) = y.len + Sum(S) /\ Sum(S) \in Nat
  BY <1>2, SumRemove, SumStep
<1>4. QED
  BY <1>1, <1>2, <1>3

-----------------------------------------------------------------------------
(* Sequences.                                                              *)

\* What Tail returns.
LEMMA TailSeq ==
    ASSUME NEW S, NEW s \in Seq(S), s # <<>>
    PROVE  /\ Tail(s) \in Seq(S) /\ Head(s) \in S /\ Head(s) = s[1] /\ 1 \in DOMAIN s
           /\ Len(s) \in Nat \ {0} /\ DOMAIN s = 1..Len(s) /\ DOMAIN Tail(s) = 1..(Len(s)-1)
           /\ Len(Tail(s)) = Len(s) - 1
           /\ \A i \in DOMAIN Tail(s) : i+1 \in DOMAIN s /\ Tail(s)[i] = s[i+1] /\ i+1 # 1
           /\ \A k \in DOMAIN s : k = 1 \/ (k-1 \in DOMAIN Tail(s) /\ Tail(s)[k-1] = s[k])
<1>1. Len(s) \in Nat \ {0}
  BY EmptySeq
<1>2. QED
  BY <1>1, HeadTailProperties, LenProperties

\* What Append returns.
LEMMA AppendSeq ==
    ASSUME NEW S, NEW s \in Seq(S), NEW e \in S
    PROVE  /\ Append(s, e) \in Seq(S) /\ Append(s, e) # <<>>
           /\ Len(s) \in Nat /\ DOMAIN s = 1..Len(s) /\ Len(Append(s, e)) = Len(s) + 1
           /\ DOMAIN Append(s, e) = 1..(Len(s)+1)
           /\ Len(s)+1 \in DOMAIN Append(s, e) /\ Append(s, e)[Len(s)+1] = e /\ Len(s)+1 \notin DOMAIN s
           /\ \A i \in DOMAIN s : i \in DOMAIN Append(s, e) /\ Append(s, e)[i] = s[i]
           /\ \A i \in DOMAIN Append(s, e) : i \in DOMAIN s \/ i = Len(s)+1
BY AppendProperties, LenProperties

\* What \o returns.
LEMMA ConcatSeq ==
    ASSUME NEW S, NEW a \in Seq(S), NEW b \in Seq(S)
    PROVE  /\ a \o b \in Seq(S) /\ DOMAIN a = 1..Len(a) /\ DOMAIN b = 1..Len(b) /\ Len(a) \in Nat /\ Len(b) \in Nat
           /\ \A i \in DOMAIN a : i \in DOMAIN (a \o b) /\ (a \o b)[i] = a[i]
           /\ \A i \in DOMAIN b : Len(a)+i \in DOMAIN (a \o b) /\ (a \o b)[Len(a)+i] = b[i]
           /\ \A k \in DOMAIN (a \o b) : k \in DOMAIN a \/ (k - Len(a) \in DOMAIN b /\ k = Len(a) + (k - Len(a)))
<1>1. /\ a \o b \in Seq(S) /\ Len(a \o b) = Len(a) + Len(b) /\ Len(a) \in Nat /\ Len(b) \in Nat
      /\ \A i \in 1..(Len(a)+Len(b)) : (a \o b)[i] = IF i =< Len(a) THEN a[i] ELSE b[i - Len(a)]
  BY ConcatProperties, LenProperties
<1>2. DOMAIN (a \o b) = 1..(Len(a)+Len(b)) /\ DOMAIN a = 1..Len(a) /\ DOMAIN b = 1..Len(b)
  BY <1>1, LenProperties
<1>3. \A i \in DOMAIN a : i \in DOMAIN (a \o b) /\ (a \o b)[i] = a[i]
  BY <1>1, <1>2
<1>4. ASSUME NEW i \in DOMAIN b PROVE Len(a)+i \in DOMAIN (a \o b) /\ (a \o b)[Len(a)+i] = b[i]
  <2>1. Len(a)+i \in 1..(Len(a)+Len(b)) /\ ~(Len(a)+i =< Len(a)) /\ (Len(a)+i) - Len(a) = i
    BY <1>1, <1>2
  <2>2. QED
    BY <1>1, <1>2, <2>1
<1>5. ASSUME NEW k \in DOMAIN (a \o b) PROVE k \in DOMAIN a \/ (k - Len(a) \in DOMAIN b /\ k = Len(a) + (k - Len(a)))
  BY <1>1, <1>2
<1>6. QED
  BY <1>1, <1>2, <1>3, <1>4, <1>5

\* The first k elements, and the others.
LEMMA SplitSeq ==
    ASSUME NEW S, NEW s \in Seq(S), NEW k \in 0..Len(s)
    PROVE  /\ SubSeq(s, 1, k) \in Seq(S) /\ DOMAIN SubSeq(s, 1, k) = 1..k /\ Len(SubSeq(s, 1, k)) = k
           /\ SubSeq(s, k+1, Len(s)) \in Seq(S) /\ DOMAIN SubSeq(s, k+1, Len(s)) = 1..(Len(s)-k)
           /\ Len(SubSeq(s, k+1, Len(s))) = Len(s) - k
           /\ Len(s) \in Nat /\ DOMAIN s = 1..Len(s)
           /\ \A i \in 1..k : i \in DOMAIN s /\ SubSeq(s, 1, k)[i] = s[i]
           /\ \A i \in 1..(Len(s)-k) : k+i \in DOMAIN s /\ SubSeq(s, k+1, Len(s))[i] = s[k+i]
<1>1. Len(s) \in Nat /\ DOMAIN s = 1..Len(s) /\ k \in Nat /\ k =< Len(s)
  BY LenProperties
<1>2. \A i \in 1..k : i \in 1..Len(s)
  BY <1>1
<1>3. \A i \in (k+1)..Len(s) : i \in 1..Len(s)
  BY <1>1
<1>4. /\ SubSeq(s, 1, k) \in Seq(S) /\ Len(SubSeq(s, 1, k)) = (IF 1 =< k THEN k - 1 + 1 ELSE 0)
      /\ \A i \in 1..(k-1+1) : SubSeq(s, 1, k)[i] = s[1+i-1]
  BY <1>1, <1>2, SubSeqProperties
<1>5. /\ SubSeq(s, k+1, Len(s)) \in Seq(S)
      /\ Len(SubSeq(s, k+1, Len(s))) = (IF k+1 =< Len(s) THEN Len(s) - (k+1) + 1 ELSE 0)
      /\ \A i \in 1..(Len(s)-(k+1)+1) : SubSeq(s, k+1, Len(s))[i] = s[k+1+i-1]
  BY <1>1, <1>3, SubSeqProperties
<1> DEFINE a == SubSeq(s, 1, k)
           b == SubSeq(s, k+1, Len(s))
<1>6. a \in Seq(S) /\ b \in Seq(S)
  BY <1>4, <1>5
<1> HIDE DEF a, b
<1>7. DOMAIN a = 1..Len(a) /\ DOMAIN b = 1..Len(b)
  BY <1>6, LenProperties
<1>8. Len(a) = k /\ Len(b) = Len(s) - k
  <2>1. Len(a) = (IF 1 =< k THEN k - 1 + 1 ELSE 0)
    BY <1>4 DEF a
  <2>2. Len(b) = (IF k+1 =< Len(s) THEN Len(s) - (k+1) + 1 ELSE 0)
    BY <1>5 DEF b
  <2>3. PICK n \in Nat : n = Len(s)
    BY <1>1
  <2>4. k \in Nat /\ n \in Nat /\ k =< n
    BY <1>1, <2>3
  <2>5. Len(a) = k
    <3>1. CASE k = 0
      BY <2>1, <3>1
    <3>2. CASE 1 =< k
      BY <2>1, <2>4, <3>2
    <3>3. QED
      BY <2>4, <3>1, <3>2
  <2>6. Len(b) = n - k
    <3>1. CASE k = n
      BY <2>2, <2>3, <2>4, <3>1
    <3>2. CASE k+1 =< n
      BY <2>2, <2>3, <2>4, <3>2
    <3>3. QED
      BY <2>4, <3>1, <3>2
  <2>7. QED
    BY <2>3, <2>5, <2>6
<1>9. ASSUME NEW i \in 1..k PROVE i \in DOMAIN s /\ a[i] = s[i]
  <2>1. i \in 1..(k-1+1) /\ 1+i-1 = i
    BY <1>1
  <2>2. QED
    BY <1>1, <1>2, <1>4, <2>1 DEF a
<1>10. ASSUME NEW i \in 1..(Len(s)-k) PROVE k+i \in DOMAIN s /\ b[i] = s[k+i]
  <2>1. i \in 1..(Len(s)-(k+1)+1) /\ k+1+i-1 = k+i /\ k+i \in 1..Len(s)
    BY <1>1
  <2>2. QED
    BY <1>1, <1>5, <2>1 DEF b
<1>11. QED
  BY <1>1, <1>6, <1>7, <1>8, <1>9, <1>10 DEF a, b

\* What RemoveAt returns.
LEMMA RemoveSeq ==
    ASSUME NEW S, NEW s \in Seq(S), NEW k \in DOMAIN s
    PROVE  /\ RemoveAt(s, k) \in Seq(S) /\ DOMAIN RemoveAt(s, k) = 1..(Len(s)-1)
           /\ Len(s) \in Nat /\ DOMAIN s = 1..Len(s)
           /\ \A i \in 1..(Len(s)-1) : RemoveAt(s, k)[i] = s[IF i < k THEN i ELSE i+1]
<1>1. Len(s) \in Nat /\ DOMAIN s = 1..Len(s) /\ k \in 1..Len(s) /\ k-1 \in 0..Len(s) /\ k \in 0..Len(s)
  BY LenProperties
<1>2. PICK a : a = SubSeq(s, 1, k-1)
  OBVIOUS
<1>3. PICK b : b = SubSeq(s, k+1, Len(s))
  OBVIOUS
<1>4. a \in Seq(S) /\ Len(a) = k-1 /\ \A i \in 1..(k-1) : a[i] = s[i]
  BY <1>1, <1>2, SplitSeq
<1>5. b \in Seq(S) /\ Len(b) = Len(s)-k /\ \A i \in 1..(Len(s)-k) : b[i] = s[k+i]
  BY <1>1, <1>3, SplitSeq
<1>6. PICK c : c = a \o b
  OBVIOUS
<1>7. /\ c \in Seq(S) /\ Len(c) = Len(a) + Len(b)
      /\ \A i \in 1..(Len(a)+Len(b)) : c[i] = IF i =< Len(a) THEN a[i] ELSE b[i - Len(a)]
  <2>1. a \in Seq(S) /\ b \in Seq(S)
    BY <1>4, <1>5
  <2>2. QED
    BY <1>6, <2>1, ConcatProperties
<1>8. Len(c) = Len(s) - 1 /\ DOMAIN c = 1..(Len(s)-1)
  BY <1>1, <1>4, <1>5, <1>7, LenProperties
<1>9. ASSUME NEW i \in 1..(Len(s)-1) PROVE c[i] = s[IF i < k THEN i ELSE i+1]
  <2>1. c[i] = IF i =< k-1 THEN a[i] ELSE b[i - (k-1)]
    BY <1>1, <1>4, <1>5, <1>7
  <2>2. CASE i < k
    <3>1. i \in 1..(k-1) /\ i =< k-1
      BY <1>1, <2>2
    <3>2. QED
      BY <1>4, <2>1, <2>2, <3>1
  <2>3. CASE ~(i < k)
    <3>1. i-(k-1) \in 1..(Len(s)-k) /\ ~(i =< k-1) /\ k+(i-(k-1)) = i+1
      BY <1>1, <2>3
    <3>2. QED
      BY <1>5, <2>1, <2>3, <3>1
  <2>4. QED
    BY <2>2, <2>3
<1>10. RemoveAt(s, k) = c
  BY <1>2, <1>3, <1>6 DEF RemoveAt
<1>11. QED
  BY <1>1, <1>7, <1>8, <1>9, <1>10

-----------------------------------------------------------------------------
(* Segments.                                                               *)

\* The flag that tells the end of the stream from data.
Fin(s) == s.fin

\* The fields of a segment.
LEMMA SegmentFacts ==
    ASSUME NEW s \in Segments
    PROVE  s.seq \in Nat /\ s.off \in Nat /\ s.len \in Nat
BY Zenon DEF Segments

\* The segment as write_some_impl() sends it, the end of the stream as close()
\* does, and a segment that was dropped.
NewSegment(n, o, k) == [seq |-> n, off |-> o, len |-> k, fin |-> FALSE, cb |-> TRUE]
EndSegment(n, o) == [seq |-> n, off |-> o, len |-> 0, fin |-> TRUE, cb |-> FALSE]
Dropped(p) == [p EXCEPT !.cb = FALSE]
Shortened(p, k) == [p EXCEPT !.off = @ + k, !.len = @ - k]

\* The segment write_some_impl() sends.
LEMMA NewFacts ==
    ASSUME NEW n \in Nat, NEW o \in Nat, NEW k \in Nat
    PROVE  \E s \in Segments : /\ s = NewSegment(n, o, k)
                               /\ s.seq = n /\ s.off = o /\ s.len = k /\ ~Fin(s)
<1>1. NewSegment(n, o, k) \in Segments
  BY Zenon DEF NewSegment, Segments
<1>2. /\ NewSegment(n, o, k).seq = n /\ NewSegment(n, o, k).off = o /\ NewSegment(n, o, k).len = k
      /\ ~Fin(NewSegment(n, o, k))
  BY Zenon DEF NewSegment, Fin
<1>3. QED
  BY <1>1, <1>2

\* The segment close() sends.
LEMMA EndFacts ==
    ASSUME NEW n \in Nat, NEW o \in Nat
    PROVE  \E s \in Segments : /\ s = EndSegment(n, o)
                               /\ s.seq = n /\ s.off = o /\ s.len = 0 /\ Fin(s)
<1>1. EndSegment(n, o) \in Segments
  BY DEF EndSegment, Segments
<1>2. /\ EndSegment(n, o).seq = n /\ EndSegment(n, o).off = o /\ EndSegment(n, o).len = 0
      /\ Fin(EndSegment(n, o))
  BY Zenon DEF EndSegment, Fin
<1>3. QED
  BY <1>1, <1>2

\* packet_dropped() keeps number, place and size of a segment.
LEMMA DroppedFacts ==
    ASSUME NEW p \in Segments
    PROVE  \E s \in Segments : /\ s = Dropped(p)
                               /\ s.seq = p.seq /\ s.off = p.off /\ s.len = p.len /\ (Fin(s) <=> Fin(p))
<1>1. Dropped(p) \in Segments
  BY Zenon DEF Dropped, Segments
<1>2. /\ Dropped(p).seq = p.seq /\ Dropped(p).off = p.off /\ Dropped(p).len = p.len
      /\ (Fin(Dropped(p)) <=> Fin(p))
  BY Zenon DEF Dropped, Segments, Fin
<1>3. QED
  BY <1>1, <1>2

\* What read_some_impl() leaves of a segment read in part.
LEMMA ShortenedFacts ==
    ASSUME NEW p \in Segments, NEW k \in Nat, k =< p.len
    PROVE  \E s \in Segments : /\ s = Shortened(p, k)
                               /\ s.off = p.off + k /\ s.len = p.len - k /\ (Fin(s) <=> Fin(p))
<1>1. PICK a \in Nat : a = p.off + k
  BY SegmentFacts
<1>2. PICK b \in Nat : b = p.len - k
  BY SegmentFacts
<1>3. Shortened(p, k) = [p EXCEPT !.off = a, !.len = b]
  BY <1>1, <1>2 DEF Shortened
<1>4. PICK s : s = [p EXCEPT !.off = a, !.len = b]
  OBVIOUS
<1>5. s \in Segments
  BY <1>4, Zenon DEF Segments
<1>6. s.off = a /\ s.len = b /\ (Fin(s) <=> Fin(p))
  BY <1>4, Zenon DEF Segments, Fin
<1>7. QED
  BY <1>1, <1>2, <1>3, <1>4, <1>5, <1>6

-----------------------------------------------------------------------------
(* The length of a sequence of segments.                                   *)

IsLengths(f, q) == f = [i \in 0..Len(q) |-> IF i = 0 THEN 0 ELSE f[i-1] + q[i].len]

\* The lengths of the prefixes of a queue exist: TotalLen is well defined.
LEMMA LengthsExist ==
    ASSUME NEW q \in Seq(Segments)
    PROVE  \E f \in [0..Len(q) -> Nat] : IsLengths(f, q)
<1>0. Len(q) \in Nat /\ \A i \in 1..Len(q) : q[i].len \in Nat
  <2>1. \A i \in 1..Len(q) : q[i] \in Segments
    BY LenProperties
  <2>2. QED
    BY <2>1, SegmentFacts, LenProperties
<1> DEFINE Sums(n) ==
        {f \in [0..n -> Nat] : \A i \in 0..n : f[i] = IF i = 0 THEN 0 ELSE f[i-1] + q[i].len}
<1> DEFINE T == {n \in 0..Len(q) : Sums(n) # {}}
<1>1. 0 \in T
  <2>1. [i \in 0..0 |-> 0] \in Sums(0)
    OBVIOUS
  <2>2. QED
    BY <1>0, <2>1
<1>2. ASSUME NEW n \in 1..Len(q), n-1 \in T
      PROVE  n \in T
  <2>1. PICK f \in Sums(n-1) : TRUE
    BY <1>2
  <2>2. q[n].len \in Nat
    BY <1>0
  <2> DEFINE g == [i \in 0..n |-> IF i = n THEN f[n-1] + q[n].len ELSE f[i]]
  <2>3. g \in [0..n -> Nat]
    BY <1>0, <2>1, <2>2
  <2>4. \A i \in 0..n : g[i] = IF i = 0 THEN 0 ELSE g[i-1] + q[i].len
    BY <1>0, <2>1
  <2> HIDE DEF g
  <2>5. g \in Sums(n)
    BY <2>3, <2>4
  <2>6. n \in 0..Len(q)
    BY <1>0
  <2> HIDE DEF Sums
  <2>7. QED
    BY <2>5, <2>6
<1>3. Len(q) \in T
  <2>1. \A n \in 1..Len(q) : n-1 \in T => n \in T
    BY <1>2
  <2> HIDE DEF T
  <2>2. 0..Len(q) \subseteq T
    BY <1>0, <1>1, <2>1, UpToInduction, Zenon
  <2>3. QED
    BY <1>0, <2>2
<1>4. PICK f \in Sums(Len(q)) : TRUE
  BY <1>3
<1>5. IsLengths(f, q)
  BY <1>4 DEF IsLengths
<1>6. QED
  BY <1>4, <1>5

\* The bytes of a queue are a number, none for an empty queue.
LEMMA TotalLenFacts ==
    ASSUME NEW q \in Seq(Segments)
    PROVE  TotalLen(q) \in Nat /\ (q = <<>> => TotalLen(q) = 0)
<1> DEFINE f == CHOOSE upTo : upTo = [i \in 0..Len(q) |-> IF i = 0 THEN 0 ELSE upTo[i-1] + q[i].len]
<1>1. IsLengths(f, q)
  BY LengthsExist DEF IsLengths
<1>2. TotalLen(q) = f[Len(q)]
  BY DEF TotalLen
<1> HIDE DEF f
<1>3. \A i \in 0..Len(q) : f[i] = IF i = 0 THEN 0 ELSE f[i-1] + q[i].len
  BY <1>1 DEF IsLengths
<1>4. Len(q) \in Nat /\ \A i \in 1..Len(q) : q[i].len \in Nat
  <2>1. \A i \in 1..Len(q) : q[i] \in Segments
    BY LenProperties
  <2>2. QED
    BY <2>1, SegmentFacts, LenProperties
<1> DEFINE T == {i \in 0..Len(q) : f[i] \in Nat}
<1>5. \A n \in 1..Len(q) : n-1 \in T => n \in T
  BY <1>3, <1>4
<1>6. 0..Len(q) \subseteq T
  <2>1. 0 \in T
    BY <1>3, <1>4
  <2> HIDE DEF T
  <2>2. QED
    BY <1>4, <2>1, <1>5, UpToInduction, Zenon
<1>7. f[Len(q)] \in Nat /\ f[0] = 0
  BY <1>3, <1>4, <1>6
<1>8. q = <<>> => Len(q) = 0
  OBVIOUS
<1>9. QED
  BY <1>2, <1>7, <1>8

-----------------------------------------------------------------------------
(* Bytes in order.                                                         *)

\* The segments of q follow each other in the stream, the first of them after
\* the first from bytes; EndOf is where the last one ends.
Chained(q, from) ==
    /\ q # <<>> => q[1].off = from
    /\ \A i \in DOMAIN q : i+1 \in DOMAIN q => q[i+1].off = q[i].off + q[i].len

EndOf(q, from) == IF q = <<>> THEN from ELSE q[Len(q)].off + q[Len(q)].len

\* The n bytes that follow the first from ones.
Bytes(from, n) == [j \in 1..n |-> from + j]

\* The segments of a queue.
LEMMA ElementFacts ==
    ASSUME NEW q \in Seq(Segments)
    PROVE  /\ Len(q) \in Nat /\ DOMAIN q = 1..Len(q) /\ (q = <<>>) <=> (Len(q) = 0)
           /\ \A i \in DOMAIN q : /\ q[i] \in Segments /\ q[i].seq \in Nat
                                  /\ q[i].off \in Nat /\ q[i].len \in Nat
<1>1. Len(q) \in Nat /\ DOMAIN q = 1..Len(q) /\ (q = <<>>) <=> (Len(q) = 0)
  BY EmptySeq, LenProperties
<1>2. \A i \in DOMAIN q : q[i] \in Segments
  BY <1>1, LenProperties
<1>3. QED
  BY <1>1, <1>2, SegmentFacts

\* Where a queue ends in the stream.
LEMMA EndFactsOf ==
    ASSUME NEW q \in Seq(Segments), NEW from \in Nat
    PROVE  EndOf(q, from) \in Nat
<1>1. q # <<>> => Len(q) \in DOMAIN q
  BY ElementFacts
<1>2. QED
  BY <1>1, ElementFacts DEF EndOf

\* A segment that begins where a chained queue ends extends the chain.
LEMMA ChainAppend ==
    ASSUME NEW q \in Seq(Segments), NEW from \in Nat, Chained(q, from),
           NEW s \in Segments, s.off = EndOf(q, from)
    PROVE  /\ Append(q, s) \in Seq(Segments)
           /\ Chained(Append(q, s), from) /\ EndOf(Append(q, s), from) = s.off + s.len
<1>1. PICK a : a = Append(q, s)
  OBVIOUS
<1>2. PICK n \in Nat : n = Len(q)
  BY ElementFacts
<1>3. /\ a \in Seq(Segments) /\ a # <<>> /\ DOMAIN q = 1..n /\ Len(a) = n+1 /\ DOMAIN a = 1..(n+1)
      /\ a[n+1] = s /\ \A i \in 1..n : a[i] = q[i]
  BY <1>1, <1>2, AppendSeq
<1>4. (q = <<>>) <=> (n = 0)
  BY <1>2, ElementFacts
<1>5. EndOf(a, from) = s.off + s.len
  BY <1>3 DEF EndOf
<1>6. a[1].off = from
  <2>1. CASE n = 0
    <3>1. a[1] = s
      BY <1>3, <2>1
    <3>2. QED
      BY <1>4, <2>1, <3>1 DEF EndOf
  <2>2. CASE n # 0
    <3>1. 1 \in 1..n
      BY <2>2
    <3>2. QED
      BY <1>3, <1>4, <2>2, <3>1 DEF Chained
  <2>3. QED
    BY <2>1, <2>2
<1>7. ASSUME NEW i \in 1..(n+1), i+1 \in 1..(n+1) PROVE a[i+1].off = a[i].off + a[i].len
  <2>1. CASE i = n
    <3>1. a[i+1] = s /\ a[i] = q[n] /\ n # 0
      BY <1>3, <1>7, <2>1
    <3>2. QED
      BY <1>2, <1>4, <3>1 DEF EndOf
  <2>2. CASE i # n
    <3>1. i \in 1..n /\ i+1 \in 1..n
      BY <1>7, <2>2
    <3>2. a[i] = q[i] /\ a[i+1] = q[i+1]
      BY <1>3, <3>1
    <3>3. QED
      BY <1>3, <3>1, <3>2 DEF Chained
  <2>3. QED
    BY <2>1, <2>2
<1>8. Chained(a, from)
  BY <1>3, <1>6, <1>7 DEF Chained
<1>9. QED
  BY <1>1, <1>3, <1>5, <1>8

\* A chain continued by another one.
LEMMA ChainConcat ==
    ASSUME NEW q \in Seq(Segments), NEW from \in Nat, Chained(q, from),
           NEW r \in Seq(Segments), Chained(r, EndOf(q, from))
    PROVE  /\ q \o r \in Seq(Segments)
           /\ Chained(q \o r, from) /\ EndOf(q \o r, from) = EndOf(r, EndOf(q, from))
<1>1. PICK a : a = q \o r
  OBVIOUS
<1>2. PICK n \in Nat : n = Len(q)
  BY ElementFacts
<1>3. PICK m \in Nat : m = Len(r)
  BY ElementFacts
<1>4. /\ a \in Seq(Segments) /\ Len(a) = n+m
      /\ \A i \in 1..(n+m) : a[i] = IF i =< n THEN q[i] ELSE r[i - n]
  BY <1>1, <1>2, <1>3, ConcatProperties
<1>5. /\ DOMAIN a = 1..(n+m) /\ DOMAIN q = 1..n /\ DOMAIN r = 1..m
      /\ (a = <<>>) <=> (n+m = 0)
      /\ (q = <<>>) <=> (n = 0)
      /\ (r = <<>>) <=> (m = 0)
  BY <1>2, <1>3, <1>4, ElementFacts
<1>6. /\ \A i \in 1..n : a[i] = q[i]
      /\ \A i \in 1..m : n+i \in 1..(n+m) /\ a[n+i] = r[i]
  <2>1. ASSUME NEW i \in 1..m PROVE n+i \in 1..(n+m) /\ ~(n+i =< n) /\ (n+i)-n = i
    OBVIOUS
  <2>2. ASSUME NEW i \in 1..n PROVE i \in 1..(n+m) /\ i =< n
    OBVIOUS
  <2>3. QED
    BY <1>4, <2>1, <2>2
<1>7. EndOf(a, from) = EndOf(r, EndOf(q, from))
  <2>1. CASE m = 0
    <3>1. n+m = n
      BY <2>1
    <3>2. n # 0 => a[n] = q[n]
      BY <1>6
    <3>3. QED
      BY <1>2, <1>4, <1>5, <2>1, <3>1, <3>2 DEF EndOf
  <2>2. CASE m # 0
    <3>1. a[n+m] = r[m] /\ n+m # 0
      BY <1>6, <2>2
    <3>2. QED
      BY <1>3, <1>4, <1>5, <2>2, <3>1 DEF EndOf
  <2>3. QED
    BY <2>1, <2>2
<1>8. ASSUME a # <<>> PROVE a[1].off = from
  <2>1. CASE n = 0
    <3>1. m # 0 /\ 1 \in 1..m /\ n+1 = 1
      BY <1>5, <1>8, <2>1
    <3>2. a[1] = r[1]
      BY <1>6, <3>1
    <3>3. r[1].off = EndOf(q, from) /\ EndOf(q, from) = from
      BY <1>5, <2>1, <3>1 DEF Chained, EndOf
    <3>4. QED
      BY <3>2, <3>3
  <2>2. CASE n # 0
    <3>1. a[1] = q[1]
      BY <1>6, <2>2
    <3>2. QED
      BY <1>5, <2>2, <3>1 DEF Chained
  <2>3. QED
    BY <2>1, <2>2
<1>9. ASSUME NEW i \in 1..(n+m), i+1 \in 1..(n+m) PROVE a[i+1].off = a[i].off + a[i].len
  <2>1. CASE i < n
    <3>1. i \in 1..n /\ i+1 \in 1..n
      BY <1>9, <2>1
    <3>2. a[i] = q[i] /\ a[i+1] = q[i+1]
      BY <1>6, <3>1
    <3>3. QED
      BY <1>5, <3>1, <3>2 DEF Chained
  <2>2. CASE i = n
    <3>1. i \in 1..n /\ 1 \in 1..m /\ n # 0 /\ m # 0
      BY <1>9, <2>2
    <3>2. a[i] = q[n] /\ a[i+1] = r[1]
      BY <1>6, <2>2, <3>1
    <3>3. r[1].off = EndOf(q, from) /\ EndOf(q, from) = q[n].off + q[n].len
      BY <1>2, <1>5, <3>1 DEF Chained, EndOf
    <3>4. QED
      BY <3>2, <3>3
  <2>3. CASE i > n
    <3>1. PICK j \in 1..m : i = n+j /\ j+1 \in 1..m /\ i+1 = n+(j+1)
      <4>1. i-n \in 1..m /\ i = n+(i-n) /\ (i-n)+1 \in 1..m /\ i+1 = n+((i-n)+1)
        BY <1>9, <2>3
      <4>2. QED
        BY <4>1
    <3>2. a[i] = r[j] /\ a[i+1] = r[j+1]
      BY <1>6, <3>1
    <3>3. QED
      BY <1>5, <3>1, <3>2 DEF Chained
  <2>4. QED
    BY <2>1, <2>2, <2>3
<1>10. Chained(a, from)
  BY <1>5, <1>8, <1>9 DEF Chained
<1>11. QED
  BY <1>1, <1>4, <1>7, <1>10

\* What is left when the first segment is taken away.
LEMMA ChainTail ==
    ASSUME NEW q \in Seq(Segments), q # <<>>, NEW from \in Nat, Chained(q, from)
    PROVE  /\ Tail(q) \in Seq(Segments) /\ Head(q) = q[1] /\ q[1].off = from /\ q[1] \in Segments
           /\ Chained(Tail(q), from + q[1].len)
           /\ EndOf(Tail(q), from + q[1].len) = EndOf(q, from)
<1>1. PICK t : t = Tail(q)
  OBVIOUS
<1>2. PICK n \in Nat : Len(q) = n+1
  <2>1. Len(q) \in Nat /\ Len(q) # 0
    BY ElementFacts
  <2>2. Len(q)-1 \in Nat /\ Len(q) = (Len(q)-1)+1
    BY <2>1
  <2>3. QED
    BY <2>2
<1>3. /\ t \in Seq(Segments) /\ Head(q) = q[1] /\ DOMAIN q = 1..(n+1) /\ DOMAIN t = 1..n /\ Len(t) = n
      /\ \A i \in 1..n : t[i] = q[i+1]
  BY <1>1, <1>2, TailSeq
<1>4. (t = <<>>) <=> (n = 0)
  BY <1>3, ElementFacts
<1>5. 1 \in 1..(n+1) /\ q[1] \in Segments /\ q[1].off = from
  BY <1>3, ElementFacts DEF Chained
<1>6. ASSUME n # 0 PROVE t[1].off = from + q[1].len
  <2>1. 1 \in 1..n /\ 1+1 \in 1..(n+1)
    BY <1>6
  <2>2. QED
    BY <1>3, <1>5, <2>1 DEF Chained
<1>7. ASSUME NEW i \in 1..n, i+1 \in 1..n PROVE t[i+1].off = t[i].off + t[i].len
  <2>1. i+1 \in 1..(n+1) /\ (i+1)+1 \in 1..(n+1)
    BY <1>7
  <2>2. QED
    BY <1>3, <1>7, <2>1 DEF Chained
<1>8. Chained(t, from + q[1].len)
  BY <1>3, <1>4, <1>6, <1>7 DEF Chained
<1>9. EndOf(t, from + q[1].len) = EndOf(q, from)
  <2>1. CASE n = 0
    BY <1>2, <1>4, <1>5, <2>1 DEF EndOf
  <2>2. CASE n # 0
    <3>1. t[n] = q[n+1]
      BY <1>3, <2>2
    <3>2. QED
      BY <1>2, <1>3, <1>4, <2>2, <3>1 DEF EndOf
  <2>3. QED
    BY <2>1, <2>2
<1>10. QED
  BY <1>1, <1>3, <1>5, <1>8, <1>9

-----------------------------------------------------------------------------
(* What a read returns and what it leaves.                                 *)

Copies == [bytes : Seq(Nat), room : Nat, rest : Seq(Segments)]

\* The state of the copy loop.
LEMMA CopyFacts ==
    ASSUME NEW c \in Copies
    PROVE  /\ c.bytes \in Seq(Nat) /\ c.room \in Nat /\ c.rest \in Seq(Segments)
           /\ \A r \in Seq(Segments) : LET d == [c EXCEPT !.rest = r] IN
                d \in Copies /\ d.bytes = c.bytes /\ d.room = c.room /\ d.rest = r
BY DEF Copies

\* A state of the copy loop, built from its fields.
LEMMA CopyMade ==
    ASSUME NEW b \in Seq(Nat), NEW m \in Nat, NEW r \in Seq(Segments),
           NEW d, d = [bytes |-> b, room |-> m, rest |-> r]
    PROVE  d \in Copies /\ d.bytes = b /\ d.room = m /\ d.rest = r
BY DEF Copies

\* The bytes of a piece of the stream.
LEMMA BytesFacts ==
    ASSUME NEW from \in Nat, NEW n \in Nat
    PROVE  /\ Bytes(from, n) \in Seq(Nat) /\ Len(Bytes(from, n)) = n /\ DOMAIN Bytes(from, n) = 1..n
           /\ \A j \in 1..n : Bytes(from, n)[j] = from + j
BY DEF Bytes

\* Two neighbouring pieces of the stream make one.
LEMMA BytesJoin ==
    ASSUME NEW from \in Nat, NEW n \in Nat, NEW m \in Nat
    PROVE  Bytes(from, n) \o Bytes(from + n, m) = Bytes(from, n + m)
<1>1. PICK x : x = Bytes(from, n)
  OBVIOUS
<1>2. PICK y : y = Bytes(from + n, m)
  OBVIOUS
<1>3. x \in Seq(Nat) /\ Len(x) = n /\ \A j \in 1..n : x[j] = from + j
  BY <1>1, BytesFacts
<1>4. y \in Seq(Nat) /\ Len(y) = m /\ \A j \in 1..m : y[j] = (from + n) + j
  <2>1. PICK f \in Nat : f = from + n
    OBVIOUS
  <2>2. y = Bytes(f, m)
    BY <1>2, <2>1
  <2>3. QED
    BY <2>1, <2>2, BytesFacts
<1>5. PICK z : z = x \o y
  OBVIOUS
<1>6. z \in Seq(Nat) /\ Len(z) = n+m /\ \A i \in 1..(n+m) : z[i] = IF i =< n THEN x[i] ELSE y[i - n]
  <2>1. x \in Seq(Nat) /\ y \in Seq(Nat) /\ Len(x) = n /\ Len(y) = m
    BY <1>3, <1>4
  <2>2. QED
    BY <1>5, <2>1, ConcatProperties
<1>7. \A i \in 1..(n+m) : z[i] = from + i
  <2>1. ASSUME NEW i \in 1..(n+m) PROVE z[i] = from + i
    <3>1. CASE i =< n
      BY <1>3, <1>6, <3>1
    <3>2. CASE ~(i =< n)
      <4>1. i-n \in 1..m /\ (from + n) + (i-n) = from + i
        BY <3>2
      <4>2. QED
        BY <1>4, <1>6, <3>2, <4>1
    <3>3. QED
      BY <3>1, <3>2
  <2>2. QED
    BY <2>1
<1>8. PICK w : w = Bytes(from, n+m)
  OBVIOUS
<1>9. w \in Seq(Nat) /\ Len(w) = n+m /\ \A i \in 1..(n+m) : w[i] = from + i
  <2>1. PICK l \in Nat : l = n + m
    OBVIOUS
  <2>2. w = Bytes(from, l)
    BY <1>8, <2>1
  <2>3. QED
    BY <2>1, <2>2, BytesFacts
<1>10. z = w
  BY <1>6, <1>7, <1>9, SeqEqual
<1>11. QED
  BY <1>1, <1>2, <1>5, <1>8, <1>10

\* After the segments that end with byte number end the copy c has the first k
\* bytes, and the others in order; what is left are segments of q, the first of
\* them perhaps cut.
CopyGood(c, q, from, end) ==
    \E k \in Nat :
        /\ c \in Copies
        /\ c.bytes = Bytes(from, k)
        /\ Chained(c.rest, from + k)
        /\ EndOf(c.rest, from + k) = end
        /\ \A j \in DOMAIN c.rest : \E i \in DOMAIN q :
            /\ c.rest[j].off + c.rest[j].len = q[i].off + q[i].len
            /\ Fin(c.rest[j]) => c.rest[j] = q[i]

\* One turn of the loop of read_some_impl() keeps what is copied a piece
\* of the stream that ends where the rest of the queue begins.
LEMMA CopyStep ==
    ASSUME NEW q \in Seq(Segments), NEW from \in Nat, NEW c, NEW i \in DOMAIN q,
           CopyGood(c, q, from, q[i].off)
    PROVE  CopyGood(CopySegment(c, q[i]), q, from, q[i].off + q[i].len)
<1>1. PICK k \in Nat :
        /\ c \in Copies
        /\ c.bytes = Bytes(from, k)
        /\ Chained(c.rest, from + k)
        /\ EndOf(c.rest, from + k) = q[i].off
        /\ \A j \in DOMAIN c.rest : \E h \in DOMAIN q :
            /\ c.rest[j].off + c.rest[j].len = q[h].off + q[h].len
            /\ Fin(c.rest[j]) => c.rest[j] = q[h]
  BY DEF CopyGood
<1>2. PICK s \in Segments : s = q[i] /\ s.off \in Nat /\ s.len \in Nat
  BY ElementFacts
<1>3. c.bytes \in Seq(Nat) /\ c.room \in Nat /\ c.rest \in Seq(Segments) /\ from + k \in Nat
  BY <1>1, CopyFacts
<1>4. PICK d : d = CopySegment(c, s)
  OBVIOUS
<1>5. CASE c.room = 0 \/ Fin(s) \/ c.rest # <<>>
  <2>1. PICK r : r = Append(c.rest, s)
    OBVIOUS
  <2>2. r \in Seq(Segments) /\ Chained(r, from + k) /\ EndOf(r, from + k) = s.off + s.len
    BY <1>1, <1>2, <1>3, <2>1, ChainAppend
  <2>3. d = [c EXCEPT !.rest = r]
    BY <1>4, <1>5, <2>1 DEF CopySegment, Fin
  <2>4. d \in Copies /\ d.bytes = c.bytes /\ d.rest = r
    BY <1>1, <2>2, <2>3, CopyFacts
  <2>5. ASSUME NEW j \in DOMAIN r PROVE \E h \in DOMAIN q : /\ r[j].off + r[j].len = q[h].off + q[h].len
                                                            /\ Fin(r[j]) => r[j] = q[h]
    <3>1. (j \in DOMAIN c.rest /\ r[j] = c.rest[j]) \/ r[j] = s
      BY <1>3, <2>1, AppendSeq
    <3>2. QED
      BY <1>1, <1>2, <3>1
  <2>6. CopyGood(d, q, from, s.off + s.len)
    BY <1>1, <2>2, <2>4, <2>5 DEF CopyGood
  <2>7. QED
    BY <1>2, <1>4, <2>6
<1>6. CASE ~(c.room = 0 \/ Fin(s) \/ c.rest # <<>>)
  <2>1. PICK m : m = IF s.len < c.room THEN s.len ELSE c.room
    OBVIOUS
  <2>2. m \in Nat /\ m =< s.len /\ c.room - m \in Nat
    BY <1>2, <1>3, <2>1
  <2>3. s.off = from + k
    BY <1>1, <1>2, <1>6 DEF EndOf
  <2>4. PICK r : r = IF m = s.len THEN <<>> ELSE <<Shortened(s, m)>>
    OBVIOUS
  <2>5. PICK b : b = c.bytes \o Bytes(s.off, m)
    OBVIOUS
  <2>6. d = [bytes |-> b, room |-> c.room - m, rest |-> r]
    BY <1>4, <1>6, <2>1, <2>4, <2>5 DEF CopySegment, Bytes, Shortened, Fin
  <2>7. b = Bytes(from, k + m) /\ b \in Seq(Nat) /\ k + m \in Nat
    <3>1. k + m \in Nat
      BY <2>2
    <3>2. b = Bytes(from, k + m)
      <4>1. b = Bytes(from, k) \o Bytes(from + k, m)
        BY <1>1, <2>3, <2>5
      <4>2. QED
        BY <2>2, <4>1, BytesJoin, Zenon
    <3>3. QED
      BY <3>1, <3>2, BytesFacts
  <2>8. /\ r \in Seq(Segments) /\ Chained(r, from + (k + m)) /\ EndOf(r, from + (k + m)) = s.off + s.len
        /\ \A j \in DOMAIN r : r[j].off + r[j].len = s.off + s.len /\ ~Fin(r[j])
    <3>1. CASE m = s.len
      <4>1. r = <<>>
        BY <2>4, <3>1
      <4>2. from + (k + m) = s.off + s.len
        BY <1>2, <2>2, <2>3, <3>1
      <4>3. QED
        BY <4>1, <4>2 DEF Chained, EndOf
    <3>2. CASE m # s.len
      <4>1. PICK x \in Segments : x = Shortened(s, m) /\ x.off = s.off + m /\ x.len = s.len - m /\ ~Fin(x)
        BY <1>6, <2>2, ShortenedFacts
      <4>2. r = <<x>>
        BY <2>4, <3>2, <4>1
      <4>3. r \in Seq(Segments) /\ DOMAIN r = 1..1 /\ r[1] = x /\ Len(r) = 1 /\ r # <<>>
        BY <4>1, <4>2
      <4>4. x.off = from + (k + m) /\ x.off + x.len = s.off + s.len
        BY <1>2, <2>2, <2>3, <4>1
      <4>5. \A j \in DOMAIN r : j = 1 /\ r[j] = x
        BY <4>3
      <4>6. Chained(r, from + (k + m))
        BY <4>3, <4>4 DEF Chained
      <4>7. EndOf(r, from + (k + m)) = s.off + s.len
        BY <4>3, <4>4 DEF EndOf
      <4>8. QED
        BY <4>1, <4>3, <4>4, <4>5, <4>6, <4>7
    <3>3. QED
      BY <3>1, <3>2
  <2>9. d \in Copies /\ d.bytes = b /\ d.rest = r
    <3>1. PICK e \in Nat : e = c.room - m
      BY <2>2
    <3>2. d = [bytes |-> b, room |-> e, rest |-> r] /\ b \in Seq(Nat) /\ r \in Seq(Segments)
      BY <2>6, <2>7, <2>8, <3>1
    <3>3. QED
      BY <3>2, CopyMade
  <2>10. CopyGood(d, q, from, s.off + s.len)
    BY <1>2, <2>7, <2>8, <2>9 DEF CopyGood
  <2>11. QED
    BY <1>2, <1>4, <2>10
<1>7. QED
  BY <1>5, <1>6

IsCopy(f, q, n) ==
    f = [i \in 0..Len(q) |-> IF i = 0 THEN [bytes |-> <<>>, room |-> n, rest |-> <<>>]
                                      ELSE CopySegment(f[i-1], q[i])]

\* The copy loop is well defined on every queue.
LEMMA CopyExists ==
    ASSUME NEW q \in Seq(Segments), NEW n
    PROVE  \E f : IsCopy(f, q, n)
<1>0. Len(q) \in Nat
  BY ElementFacts
<1> DEFINE Start == [bytes |-> <<>>, room |-> n, rest |-> <<>>]
<1> DEFINE Upto(f, m) == /\ f = [i \in 0..m |-> f[i]]
                         /\ \A i \in 0..m : f[i] = IF i = 0 THEN Start ELSE CopySegment(f[i-1], q[i])
<1> DEFINE T == {m \in 0..Len(q) : \E f : Upto(f, m)}
<1> HIDE DEF Start
<1>1. 0 \in T
  <2>1. PICK f : f = [i \in 0..0 |-> Start]
    OBVIOUS
  <2>2. Upto(f, 0)
    BY <2>1
  <2>3. 0 \in 0..Len(q)
    BY <1>0
  <2> HIDE DEF Upto
  <2>4. QED
    BY <2>2, <2>3
<1>2. ASSUME NEW m \in 1..Len(q), m-1 \in T
      PROVE  m \in T
  <2>1. PICK f : Upto(f, m-1)
    BY <1>2
  <2>2. PICK e : e = CopySegment(f[m-1], q[m])
    OBVIOUS
  <2> DEFINE g == [i \in 0..m |-> IF i = m THEN e ELSE f[i]]
  <2>3. m \in Nat /\ m # 0 /\ m \in 0..Len(q)
    BY <1>0
  <2>4. ASSUME NEW i \in 0..m PROVE g[i] = IF i = 0 THEN Start ELSE CopySegment(g[i-1], q[i])
    <3>1. CASE i = m
      <4>1. g[i] = e /\ i # 0 /\ i-1 \in 0..m /\ i-1 # m
        BY <2>3, <3>1
      <4>2. g[i-1] = f[m-1]
        BY <3>1, <4>1
      <4>3. QED
        BY <2>2, <3>1, <4>1, <4>2
    <3>2. CASE i # m
      <4>1. i \in 0..(m-1) /\ g[i] = f[i]
        BY <2>3, <3>2
      <4>2. i # 0 => i-1 \in 0..m /\ i-1 # m /\ g[i-1] = f[i-1]
        BY <2>3, <3>2
      <4> HIDE DEF g
      <4>3. f[i] = IF i = 0 THEN Start ELSE CopySegment(f[i-1], q[i])
        BY <2>1, <4>1
      <4>4. QED
        BY <4>1, <4>2, <4>3
    <3>3. QED
      BY <3>1, <3>2
  <2>5. g = [i \in 0..m |-> g[i]]
    OBVIOUS
  <2> HIDE DEF g
  <2>6. Upto(g, m)
    BY <2>4, <2>5
  <2> HIDE DEF Upto
  <2>7. QED
    BY <2>3, <2>6
<1>3. Len(q) \in T
  <2>1. \A m \in 1..Len(q) : m-1 \in T => m \in T
    BY <1>2
  <2> HIDE DEF T
  <2>2. 0..Len(q) \subseteq T
    BY <1>0, <1>1, <2>1, UpToInduction, Zenon
  <2>3. QED
    BY <1>0, <2>2
<1>4. PICK f : Upto(f, Len(q))
  BY <1>3
<1>5. IsCopy(f, q, n)
  BY <1>4 DEF IsCopy, Start
<1>6. QED
  BY <1>5

\* A read returns the next bytes and leaves the others in order.
LEMMA CopyOutGood ==
    ASSUME NEW q \in Seq(Segments), NEW from \in Nat, Chained(q, from), NEW n \in Nat
    PROVE  CopyGood(CopyOut(q, n), q, from, EndOf(q, from))
<1> DEFINE f == CHOOSE after :
                    after = [i \in 0..Len(q) |->
                                IF i = 0 THEN [bytes |-> <<>>, room |-> n, rest |-> <<>>]
                                         ELSE CopySegment(after[i-1], q[i])]
<1>1. IsCopy(f, q, n)
  BY CopyExists DEF IsCopy
<1>2. CopyOut(q, n) = f[Len(q)]
  BY DEF CopyOut
<1> HIDE DEF f
<1>3. PICK N \in Nat : N = Len(q) /\ DOMAIN q = 1..N
  BY ElementFacts
<1>4. f[0] = [bytes |-> <<>>, room |-> n, rest |-> <<>>] /\ \A i \in 1..N : f[i] = CopySegment(f[i-1], q[i])
  BY <1>1, <1>3 DEF IsCopy
<1> DEFINE End(i) == IF i = 0 THEN from ELSE q[i].off + q[i].len
<1> DEFINE T == {i \in 0..N : CopyGood(f[i], q, from, End(i))}
<1>5. 0 \in T
  <2>1. <<>> \in Seq(Nat) /\ <<>> \in Seq(Segments) /\ Bytes(from, 0) = <<>>
    BY DEF Bytes
  <2>2. f[0] \in Copies /\ f[0].bytes = <<>> /\ f[0].rest = <<>>
    <3>1. PICK b \in Seq(Nat) : b = <<>>
      BY <2>1
    <3>2. PICK r \in Seq(Segments) : r = <<>>
      BY <2>1
    <3>3. f[0] = [bytes |-> b, room |-> n, rest |-> r]
      BY <1>4, <3>1, <3>2
    <3>4. f[0] \in Copies /\ f[0].bytes = b /\ f[0].rest = r
      BY <3>3, CopyMade
    <3>5. QED
      BY <3>1, <3>2, <3>4
  <2>3. Chained(<<>>, from + 0) /\ EndOf(<<>>, from + 0) = from
    BY DEF Chained, EndOf
  <2>4. CopyGood(f[0], q, from, from)
    BY <2>1, <2>2, <2>3 DEF CopyGood
  <2>5. QED
    BY <2>4
<1>6. ASSUME NEW i \in 1..N, i-1 \in T PROVE i \in T
  <2>1. End(i-1) = q[i].off
    <3>1. CASE i = 1
      <4>1. q # <<>>
        BY <1>3, ElementFacts
      <4>2. QED
        BY <3>1, <4>1 DEF Chained
    <3>2. CASE i # 1
      <4>1. i-1 \in 1..N /\ (i-1)+1 = i /\ i-1 # 0
        BY <3>2
      <4>2. QED
        BY <1>3, <4>1 DEF Chained
    <3>3. QED
      BY <3>1, <3>2
  <2>2. CopyGood(f[i-1], q, from, q[i].off)
    BY <1>6, <2>1
  <2>3. CopyGood(f[i], q, from, q[i].off + q[i].len)
    BY <1>3, <1>4, <2>2, CopyStep
  <2>4. i # 0 /\ i \in 0..N
    OBVIOUS
  <2>5. QED
    BY <2>3, <2>4
<1>7. N \in T
  <2>1. \A i \in 1..N : i-1 \in T => i \in T
    BY <1>6
  <2> HIDE DEF T
  <2>2. 0..N \subseteq T
    BY <1>5, <2>1, UpToInduction, Zenon
  <2>3. QED
    BY <2>2
<1>8. End(N) = EndOf(q, from)
  BY <1>3, ElementFacts DEF EndOf
<1>9. QED
  BY <1>2, <1>3, <1>7, <1>8

-----------------------------------------------------------------------------
(* The segments that follow each other in the reorder buffer.              *)

\* The numbers after n found in segs, without a gap.
LEMMA ConsecutiveFacts ==
    ASSUME NEW segs, segs \subseteq Segments, NEW n \in Nat, Cardinality(segs) \in Nat
    PROVE  /\ Consecutive(n, segs) \in Seq(Segments)
           /\ \A i \in DOMAIN Consecutive(n, segs) :
                Consecutive(n, segs)[i] \in segs /\ Consecutive(n, segs)[i].seq = n + i
<1> DEFINE Found(i) == \A m \in 1..i : \E s \in segs : s.seq = n + m
<1> DEFINE run == {i \in 1..Cardinality(segs) : Found(i)}
<1> DEFINE next == [i \in run |-> CHOOSE s \in segs : s.seq = n + i]
<1>1. next = Consecutive(n, segs)
  BY DEF Consecutive
<1>2. PICK C \in Nat : C = Cardinality(segs)
  OBVIOUS
<1>3. ASSUME NEW i \in run PROVE next[i] \in segs /\ next[i].seq = n + i
  <2>1. i \in 1..i
    BY <1>2
  <2>2. \E s \in segs : s.seq = n + i
    BY <2>1
  <2>3. QED
    BY <2>2
<1>4. \E K \in Nat : run = 1..K
  <2> DEFINE X == {i \in 1..(C+1) : i \notin run}
  <2>1. C+1 \in X
    BY <1>2
  <2>2. X \subseteq Nat
    OBVIOUS
  <2>3. PICK x \in X : \A y \in X : x =< y
    <3> HIDE DEF X
    <3>1. QED
      BY <2>1, <2>2, LeastNumber, Zenon
  <2>4. x \in 1..(C+1) /\ x \notin run /\ x-1 \in Nat
    BY <2>3
  <2>5. ASSUME NEW i \in 1..(x-1) PROVE i \in run
    <3>1. i \in 1..(C+1) /\ ~(x =< i)
      BY <2>4
    <3>2. QED
      BY <2>3, <3>1
  <2>6. ASSUME NEW i \in run PROVE i \in 1..(x-1)
    <3>1. i \in 1..C /\ Found(i)
      BY <1>2
    <3>2. ASSUME ~(i < x) PROVE FALSE
      <4>1. x \in 1..C /\ \A m \in 1..x : m \in 1..i
        BY <2>4, <3>1, <3>2
      <4>2. Found(x)
        BY <3>1, <4>1
      <4>3. QED
        BY <1>2, <2>4, <4>1, <4>2
    <3>3. QED
      BY <2>4, <3>1, <3>2
  <2> HIDE DEF run
  <2>7. run = 1..(x-1)
    BY <2>5, <2>6
  <2>8. QED
    BY <2>4, <2>7
<1>5. PICK K \in Nat : run = 1..K
  BY <1>4
<1>6. DOMAIN next = run
  OBVIOUS
<1>7. next \in [1..K -> Segments]
  <2>1. \A i \in run : next[i] \in Segments
    BY <1>3
  <2>2. next = [i \in 1..K |-> next[i]]
    BY <1>5
  <2> HIDE DEF next
  <2>3. QED
    BY <1>5, <2>1, <2>2
<1> HIDE DEF next, run
<1>8. next \in Seq(Segments)
  BY <1>7, SeqDef
<1>9. QED
  BY <1>1, <1>3, <1>6, <1>8

-----------------------------------------------------------------------------
(* Where segments are.                                                     *)

\* Every sequence number is at one place only.
NoTwice(q) == \A i, j \in DOMAIN q : q[i].seq = q[j].seq => i = j
OneBySeq(S) == \A s, t \in S : s.seq = t.seq => s = t
Apart(S, T) == \A s \in S, t \in T : s.seq # t.seq

\* The same segment, but for the callback that a drop takes from it.
Alike(s, t) == s.seq = t.seq /\ s.off = t.off /\ s.len = t.len /\ (Fin(s) <=> Fin(t))

\* S has nothing that T has not, but for the callback of a dropped segment.
Covered(S, T) == \A s \in S : \E t \in T : Alike(s, t)

\* The elements of a queue.
LEMMA ToSetFacts ==
    ASSUME NEW q \in Seq(Segments)
    PROVE  /\ ToSet(q) \subseteq Segments
           /\ \A i \in DOMAIN q : q[i] \in ToSet(q)
           /\ \A s \in ToSet(q) : \E i \in DOMAIN q : s = q[i]
BY ElementFacts DEF ToSet

\* A subset is covered.
LEMMA SubsetCovered ==
    ASSUME NEW S, NEW T, S \subseteq T
    PROVE  Covered(S, T)
<1>1. \A s : Alike(s, s)
  BY DEF Alike
<1>2. QED
  BY <1>1, Zenon DEF Covered

\* What is covered by a set is apart from what the set is apart from.
LEMMA CoveredApart ==
    ASSUME NEW S, NEW T, NEW U, Covered(S, T), Apart(T, U)
    PROVE  Apart(S, U) /\ Apart(U, S)
BY DEF Covered, Apart, Alike

\* Taking the head off a queue without repetitions.
LEMMA TailSet ==
    ASSUME NEW q \in Seq(Segments), q # <<>>, NoTwice(q)
    PROVE  /\ Tail(q) \in Seq(Segments) /\ NoTwice(Tail(q))
           /\ Head(q) \in Segments /\ Head(q) \in ToSet(q)
           /\ ToSet(q) = ToSet(Tail(q)) \cup {Head(q)}
           /\ Apart(ToSet(Tail(q)), {Head(q)})
<1>1. PICK t : t = Tail(q)
  OBVIOUS
<1>2. PICK h : h = Head(q)
  OBVIOUS
<1>3. /\ t \in Seq(Segments) /\ h \in Segments /\ h = q[1] /\ 1 \in DOMAIN q
      /\ \A i \in DOMAIN t : i \in Nat /\ i+1 \in DOMAIN q /\ t[i] = q[i+1] /\ i+1 # 1
      /\ \A k \in DOMAIN q : k = 1 \/ (k-1 \in DOMAIN t /\ t[k-1] = q[k])
  BY <1>1, <1>2, TailSeq
<1>4. NoTwice(t)
  <2>1. ASSUME NEW i \in DOMAIN t, NEW j \in DOMAIN t, t[i].seq = t[j].seq PROVE i = j
    <3>1. PICK x \in DOMAIN q : x = i+1 /\ t[i] = q[x]
      BY <1>3
    <3>2. PICK y \in DOMAIN q : y = j+1 /\ t[j] = q[y]
      BY <1>3
    <3>3. x = y
      BY <2>1, <3>1, <3>2 DEF NoTwice
    <3>4. QED
      BY <1>3, <3>1, <3>2, <3>3
  <2>2. QED
    BY <2>1 DEF NoTwice
<1>5. ToSet(q) = ToSet(t) \cup {h} /\ h \in ToSet(q)
  <2>1. ToSet(q) = {q[i] : i \in DOMAIN q} /\ ToSet(t) = {t[i] : i \in DOMAIN t}
    BY DEF ToSet
  <2>2. QED
    BY <1>3, <2>1
<1>6. Apart(ToSet(t), {h})
  <2>1. ASSUME NEW s \in ToSet(t) PROVE s.seq # h.seq
    <3>1. PICK i \in DOMAIN t : s = t[i]
      BY <1>3, ToSetFacts
    <3>2. QED
      BY <1>3, <3>1 DEF NoTwice
  <2>2. QED
    BY <2>1 DEF Apart
<1>7. QED
  BY <1>1, <1>2, <1>3, <1>4, <1>5, <1>6

\* A segment put at the end of a queue.
LEMMA AppendSet ==
    ASSUME NEW q \in Seq(Segments), NEW e \in Segments
    PROVE  /\ Append(q, e) \in Seq(Segments)
           /\ ToSet(Append(q, e)) = ToSet(q) \cup {e}
           /\ (NoTwice(q) /\ Apart(ToSet(q), {e})) => NoTwice(Append(q, e))
<1>1. PICK a : a = Append(q, e)
  OBVIOUS
<1>2. PICK n \in Nat : n = Len(q)
  BY ElementFacts
<1>3. /\ a \in Seq(Segments) /\ n+1 \in DOMAIN a /\ a[n+1] = e
      /\ \A i \in DOMAIN q : i \in DOMAIN a /\ a[i] = q[i]
      /\ \A i \in DOMAIN a : i \in DOMAIN q \/ i = n+1
  BY <1>1, <1>2, AppendSeq
<1>4. ToSet(a) = ToSet(q) \cup {e}
  <2>1. ToSet(q) = {q[i] : i \in DOMAIN q} /\ ToSet(a) = {a[i] : i \in DOMAIN a}
    BY DEF ToSet
  <2>2. QED
    BY <1>3, <2>1
<1>5. ASSUME NoTwice(q), Apart(ToSet(q), {e}) PROVE NoTwice(a)
  <2>1. \A i \in DOMAIN q : q[i].seq # e.seq
    BY <1>5, ToSetFacts DEF Apart
  <2>2. ASSUME NEW i \in DOMAIN a, NEW j \in DOMAIN a, a[i].seq = a[j].seq PROVE i = j
    BY <1>3, <1>5, <2>1, <2>2 DEF NoTwice
  <2>3. QED
    BY <2>2 DEF NoTwice
<1>6. QED
  BY <1>1, <1>3, <1>4, <1>5

\* Taking one segment out of a queue without repetitions.
LEMMA RemoveSet ==
    ASSUME NEW q \in Seq(Segments), NEW k \in DOMAIN q, NoTwice(q)
    PROVE  /\ RemoveAt(q, k) \in Seq(Segments) /\ NoTwice(RemoveAt(q, k))
           /\ q[k] \in Segments /\ q[k] \in ToSet(q)
           /\ ToSet(RemoveAt(q, k)) \subseteq ToSet(q)
           /\ Apart(ToSet(RemoveAt(q, k)), {q[k]})
<1>1. PICK r : r = RemoveAt(q, k)
  OBVIOUS
<1>2. PICK n \in Nat : n = Len(q) /\ DOMAIN q = 1..n
  BY ElementFacts
<1>3. r \in Seq(Segments) /\ DOMAIN r = 1..(n-1) /\ \A i \in 1..(n-1) : r[i] = q[IF i < k THEN i ELSE i+1]
  BY <1>1, <1>2, RemoveSeq
<1> DEFINE At(i) == IF i < k THEN i ELSE i+1
<1>4. /\ \A i \in 1..(n-1) : At(i) \in 1..n /\ At(i) # k
      /\ \A i, j \in 1..(n-1) : At(i) = At(j) => i = j
  BY <1>2
<1>5. \A i \in 1..(n-1) : r[i] = q[At(i)]
  BY <1>3
<1> HIDE DEF At
<1>6. NoTwice(r)
  <2>1. ASSUME NEW i \in 1..(n-1), NEW j \in 1..(n-1), r[i].seq = r[j].seq PROVE i = j
    <3>1. At(i) = At(j)
      BY <1>2, <1>4, <1>5, <2>1 DEF NoTwice
    <3>2. QED
      BY <1>4, <3>1
  <2>2. QED
    BY <1>3, <2>1 DEF NoTwice
<1>7. ToSet(r) \subseteq ToSet(q)
  <2>1. ASSUME NEW s \in ToSet(r) PROVE s \in ToSet(q)
    <3>1. PICK i \in 1..(n-1) : s = r[i]
      BY <1>3, ToSetFacts
    <3>2. QED
      BY <1>2, <1>4, <1>5, <3>1, ToSetFacts
  <2>2. QED
    BY <2>1
<1>8. Apart(ToSet(r), {q[k]})
  <2>1. ASSUME NEW s \in ToSet(r) PROVE s.seq # q[k].seq
    <3>1. PICK i \in 1..(n-1) : s = r[i]
      BY <1>3, ToSetFacts
    <3>2. s = q[At(i)] /\ At(i) \in DOMAIN q /\ At(i) # k
      BY <1>2, <1>4, <1>5, <3>1
    <3>3. QED
      BY <3>2 DEF NoTwice
  <2>2. QED
    BY <2>1 DEF Apart
<1>9. q[k] \in Segments /\ q[k] \in ToSet(q)
  BY ElementFacts, ToSetFacts
<1>10. QED
  BY <1>1, <1>3, <1>6, <1>7, <1>8, <1>9

\* The elements of two queues put together.
LEMMA ConcatParts ==
    ASSUME NEW a \in Seq(Segments), NEW b \in Seq(Segments), NEW c, c = a \o b, NEW m, m = Len(a)
    PROVE  /\ c \in Seq(Segments)
           /\ \A i \in DOMAIN a : i \in DOMAIN c /\ c[i] = a[i]
           /\ \A i \in DOMAIN b : m+i \in DOMAIN c /\ c[m+i] = b[i]
           /\ \A i \in DOMAIN c : i \in DOMAIN a \/ (i-m \in DOMAIN b /\ i = m + (i-m))
BY ConcatSeq

\* The segments of two queues put together.
LEMMA ConcatSet ==
    ASSUME NEW d \in Seq(Segments), NEW a \in Seq(Segments)
    PROVE  /\ d \o a \in Seq(Segments)
           /\ ToSet(d \o a) = ToSet(d) \cup ToSet(a)
           /\ d # <<>> => d \o a # <<>>
<1>1. PICK m \in Nat : m = Len(d) /\ DOMAIN d = 1..m /\ ((d = <<>>) <=> (m = 0))
  BY ElementFacts
<1>2. PICK c : c = d \o a
  OBVIOUS
<1>3. /\ c \in Seq(Segments)
      /\ \A i \in DOMAIN d : i \in DOMAIN c /\ c[i] = d[i]
      /\ \A i \in DOMAIN a : m+i \in DOMAIN c /\ c[m+i] = a[i]
      /\ \A i \in DOMAIN c : i \in DOMAIN d \/ (i-m \in DOMAIN a /\ i = m + (i-m))
  BY <1>1, <1>2, ConcatParts
<1>4. ToSet(c) = ToSet(d) \cup ToSet(a)
  <2>1. ASSUME NEW s \in ToSet(c) PROVE s \in ToSet(d) \/ s \in ToSet(a)
    <3>1. PICK i \in DOMAIN c : s = c[i]
      BY <1>3, ToSetFacts
    <3>2. CASE i \in DOMAIN d
      BY <1>3, <3>1, <3>2, ToSetFacts
    <3>3. CASE i-m \in DOMAIN a /\ i = m + (i-m)
      <4>1. s = a[i-m]
        BY <1>3, <3>1, <3>3
      <4>2. QED
        BY <3>3, <4>1, ToSetFacts
    <3>4. QED
      BY <1>3, <3>2, <3>3
  <2>2. ASSUME NEW s \in ToSet(d) PROVE s \in ToSet(c)
    <3>1. PICK i \in DOMAIN d : s = d[i]
      BY ToSetFacts
    <3>2. QED
      BY <1>3, <3>1, ToSetFacts
  <2>3. ASSUME NEW s \in ToSet(a) PROVE s \in ToSet(c)
    <3>1. PICK i \in DOMAIN a : s = a[i]
      BY ToSetFacts
    <3>2. QED
      BY <1>3, <3>1, ToSetFacts
  <2>4. QED
    BY <2>1, <2>2, <2>3
<1>5. ASSUME d # <<>> PROVE c # <<>>
  <2>1. 1 \in DOMAIN d
    BY <1>1, <1>5
  <2>2. 1 \in DOMAIN c
    BY <1>3, <2>1
  <2>3. QED
    BY <1>3, <2>2, ElementFacts
<1>6. QED
  BY <1>2, <1>3, <1>4, <1>5

\* The ack handler moves the first k of r to the end of d.
LEMMA MoveSet ==
    ASSUME NEW d \in Seq(Segments), NEW r \in Seq(Segments), NEW k \in 0..Len(r),
           NoTwice(d), NoTwice(r), Apart(ToSet(d), ToSet(r))
    PROVE  /\ d \o SubSeq(r, 1, k) \in Seq(Segments) /\ SubSeq(r, k+1, Len(r)) \in Seq(Segments)
           /\ NoTwice(d \o SubSeq(r, 1, k)) /\ NoTwice(SubSeq(r, k+1, Len(r)))
           /\ ToSet(d \o SubSeq(r, 1, k)) \cup ToSet(SubSeq(r, k+1, Len(r))) = ToSet(d) \cup ToSet(r)
           /\ Apart(ToSet(d \o SubSeq(r, 1, k)), ToSet(SubSeq(r, k+1, Len(r))))
<1>1. PICK a : a = SubSeq(r, 1, k)
  OBVIOUS
<1>2. PICK b : b = SubSeq(r, k+1, Len(r))
  OBVIOUS
<1>3. PICK n \in Nat : n = Len(r) /\ DOMAIN r = 1..n
  BY ElementFacts
<1>4. /\ k \in Nat /\ k =< n
      /\ a \in Seq(Segments) /\ DOMAIN a = 1..k /\ \A i \in 1..k : i \in 1..n /\ a[i] = r[i]
      /\ b \in Seq(Segments) /\ DOMAIN b = 1..(n-k) /\ \A i \in 1..(n-k) : k+i \in 1..n /\ b[i] = r[k+i]
  BY <1>1, <1>2, <1>3, SplitSeq
<1>5. PICK m \in Nat : m = Len(d) /\ DOMAIN d = 1..m
  BY ElementFacts
<1>6. PICK c : c = d \o a
  OBVIOUS
<1>7. /\ c \in Seq(Segments)
      /\ \A i \in DOMAIN d : i \in DOMAIN c /\ c[i] = d[i]
      /\ \A i \in DOMAIN a : m+i \in DOMAIN c /\ c[m+i] = a[i]
      /\ \A i \in DOMAIN c : i \in DOMAIN d \/ (i-m \in DOMAIN a /\ i = m + (i-m))
  <2>1. a \in Seq(Segments) /\ m = Len(d)
    BY <1>4, <1>5
  <2>2. QED
    BY <1>6, <2>1, ConcatParts
<1>8. ToSet(a) \subseteq ToSet(r) /\ ToSet(b) \subseteq ToSet(r) /\ ToSet(r) \subseteq ToSet(a) \cup ToSet(b)
  <2>1. ASSUME NEW s \in ToSet(a) PROVE s \in ToSet(r)
    <3>1. PICK i \in 1..k : s = a[i]
      BY <1>4, ToSetFacts
    <3>2. QED
      BY <1>3, <1>4, <3>1, ToSetFacts
  <2>2. ASSUME NEW s \in ToSet(b) PROVE s \in ToSet(r)
    <3>1. PICK i \in 1..(n-k) : s = b[i]
      BY <1>4, ToSetFacts
    <3>2. QED
      BY <1>3, <1>4, <3>1, ToSetFacts
  <2>3. ASSUME NEW s \in ToSet(r) PROVE s \in ToSet(a) \/ s \in ToSet(b)
    <3>1. PICK i \in 1..n : s = r[i]
      BY <1>3, ToSetFacts
    <3>2. CASE i =< k
      <4>1. i \in DOMAIN a /\ a[i] = s
        BY <1>4, <3>1, <3>2
      <4>2. QED
        BY <1>4, <4>1, ToSetFacts
    <3>3. CASE ~(i =< k)
      <4>1. i-k \in 1..(n-k) /\ k+(i-k) = i
        BY <1>4, <3>3
      <4>2. i-k \in DOMAIN b /\ b[i-k] = s
        BY <1>4, <3>1, <4>1
      <4>3. QED
        BY <1>4, <4>2, ToSetFacts
    <3>4. QED
      BY <3>2, <3>3
  <2>4. QED
    BY <2>1, <2>2, <2>3
<1>9. ToSet(c) = ToSet(d) \cup ToSet(a)
  BY <1>4, <1>6, ConcatSet
<1>10. \A i \in DOMAIN d, j \in DOMAIN a : d[i].seq # a[j].seq
  BY <1>4, <1>8, ToSetFacts DEF Apart
<1>11. NoTwice(c)
  <2>1. ASSUME NEW i \in DOMAIN c, NEW j \in DOMAIN c, c[i].seq = c[j].seq PROVE i = j
    <3>1. CASE i \in DOMAIN d /\ j \in DOMAIN d
      BY <1>7, <2>1, <3>1 DEF NoTwice
    <3>2. CASE i \in DOMAIN d /\ j \notin DOMAIN d
      <4>1. j-m \in DOMAIN a /\ c[j] = a[j-m]
        BY <1>7, <3>2
      <4>2. QED
        BY <1>7, <1>10, <2>1, <3>2, <4>1
    <3>3. CASE i \notin DOMAIN d /\ j \in DOMAIN d
      <4>1. i-m \in DOMAIN a /\ c[i] = a[i-m]
        BY <1>7, <3>3
      <4>2. QED
        BY <1>7, <1>10, <2>1, <3>3, <4>1
    <3>4. CASE i \notin DOMAIN d /\ j \notin DOMAIN d
      <4>1. i-m \in 1..k /\ c[i] = a[i-m] /\ i = m+(i-m) /\ j-m \in 1..k /\ c[j] = a[j-m] /\ j = m+(j-m)
        BY <1>4, <1>7, <3>4
      <4>2. i-m = j-m
        BY <1>3, <1>4, <2>1, <4>1 DEF NoTwice
      <4>3. QED
        BY <4>1, <4>2
    <3>5. QED
      BY <3>1, <3>2, <3>3, <3>4
  <2>2. QED
    BY <2>1 DEF NoTwice
<1>12. NoTwice(b)
  <2>1. ASSUME NEW i \in 1..(n-k), NEW j \in 1..(n-k), b[i].seq = b[j].seq PROVE i = j
    <3>1. PICK x \in DOMAIN r : x = k+i /\ b[i] = r[x]
      BY <1>3, <1>4
    <3>2. PICK y \in DOMAIN r : y = k+j /\ b[j] = r[y]
      BY <1>3, <1>4
    <3>3. x = y
      BY <2>1, <3>1, <3>2 DEF NoTwice
    <3>4. QED
      BY <1>4, <3>1, <3>2, <3>3
  <2>2. QED
    BY <1>4, <2>1 DEF NoTwice
<1>13. Apart(ToSet(c), ToSet(b))
  <2>1. ASSUME NEW s \in ToSet(d), NEW t \in ToSet(b) PROVE s.seq # t.seq
    BY <1>8 DEF Apart
  <2>2. ASSUME NEW s \in ToSet(a), NEW t \in ToSet(b) PROVE s.seq # t.seq
    <3>1. PICK i \in 1..k : s = a[i]
      BY <1>4, ToSetFacts
    <3>2. PICK j \in 1..(n-k) : t = b[j]
      BY <1>4, ToSetFacts
    <3>3. i # k+j /\ i \in 1..n /\ k+j \in 1..n /\ s = r[i] /\ t = r[k+j]
      BY <1>4, <3>1, <3>2
    <3>4. QED
      BY <1>3, <3>3 DEF NoTwice
  <2>3. QED
    BY <1>9, <2>1, <2>2 DEF Apart
<1>14. ToSet(c) \cup ToSet(b) = ToSet(d) \cup ToSet(r)
  BY <1>8, <1>9
<1>15. QED
  BY <1>1, <1>2, <1>4, <1>6, <1>7, <1>11, <1>12, <1>13, <1>14

-----------------------------------------------------------------------------
(* How the segments on their way fit the stream.                           *)

\* Two segments with consecutive numbers are neighbours in the stream.
Follow(A) == \A s, t \in A : s.seq + 1 = t.seq => t.off = s.off + s.len

\* The reader expects number n, after the first r bytes.
AfterIn(A, n, r) == \A s \in A : n =< s.seq /\ (s.seq = n => s.off = r)

\* The writer sends number n next, after the first w bytes.
BeforeOut(A, n, w) == \A s \in A : s.seq < n /\ (s.seq + 1 = n => s.off + s.len = w)

\* Only bytes that were written; the end of the stream only after all of them.
Within(A, w) == \A s \in A : s.off + s.len =< w
EndsAt(A, w) == \A s \in A : Fin(s) => s.off = w /\ s.len = 0
NoEnd(A) == \A s \in A : ~Fin(s)

\* All of it holds of fewer segments as well.
LEMMA CoveredFits ==
    ASSUME NEW A, NEW B, Covered(A, B)
    PROVE  /\ Follow(B) => Follow(A)
           /\ \A n, r : AfterIn(B, n, r) => AfterIn(A, n, r)
           /\ \A n, w : BeforeOut(B, n, w) => BeforeOut(A, n, w)
           /\ \A w : Within(B, w) => Within(A, w)
           /\ \A w : EndsAt(B, w) => EndsAt(A, w)
           /\ NoEnd(B) => NoEnd(A)
<1>1. \A s \in A : \E t \in B : s.seq = t.seq /\ s.off = t.off /\ s.len = t.len /\ (Fin(s) <=> Fin(t))
  BY DEF Covered, Alike
<1>2. ASSUME Follow(B) PROVE Follow(A)
  <2>1. ASSUME NEW s \in A, NEW t \in A, s.seq + 1 = t.seq PROVE t.off = s.off + s.len
    <3>1. PICK x \in B : s.seq = x.seq /\ s.off = x.off /\ s.len = x.len
      BY <1>1
    <3>2. PICK y \in B : t.seq = y.seq /\ t.off = y.off
      BY <1>1
    <3>3. QED
      BY <1>2, <2>1, <3>1, <3>2 DEF Follow
  <2>2. QED
    BY <2>1 DEF Follow
<1>3. ASSUME NEW n, NEW r, AfterIn(B, n, r) PROVE AfterIn(A, n, r)
  BY <1>1, <1>3 DEF AfterIn
<1>4. ASSUME NEW n, NEW w, BeforeOut(B, n, w) PROVE BeforeOut(A, n, w)
  <2>1. ASSUME NEW s \in A PROVE s.seq < n /\ (s.seq + 1 = n => s.off + s.len = w)
    <3>1. PICK x \in B : s.seq = x.seq /\ s.off = x.off /\ s.len = x.len
      BY <1>1
    <3>2. QED
      BY <1>4, <3>1 DEF BeforeOut
  <2>2. QED
    BY <2>1 DEF BeforeOut
<1>5. ASSUME NEW w, Within(B, w) PROVE Within(A, w)
  BY <1>1, <1>5 DEF Within
<1>6. ASSUME NEW w, EndsAt(B, w) PROVE EndsAt(A, w)
  BY <1>1, <1>6 DEF EndsAt
<1>7. ASSUME NoEnd(B) PROVE NoEnd(A)
  BY <1>1, <1>7 DEF NoEnd
<1>8. QED
  BY <1>2, <1>3, <1>4, <1>5, <1>6, <1>7

\* The next segment of the writer fits.
LEMMA AddFits ==
    ASSUME NEW A, A \subseteq Segments, NEW e \in Segments, NEW n \in Nat, NEW w \in Nat,
           Follow(A), BeforeOut(A, n, w), e.seq = n, e.off = w
    PROVE  /\ Apart(A, {e}) /\ Follow(A \cup {e})
           /\ BeforeOut(A \cup {e}, n+1, w + e.len)
           /\ \A r : \A m \in Nat : (AfterIn(A, m, r) /\ m =< n /\ (m = n => r = w)) => AfterIn(A \cup {e}, m, r)
<1>0. e.len \in Nat /\ \A s \in A : s.seq \in Nat /\ s.off \in Nat /\ s.len \in Nat
  BY SegmentFacts
<1>1. \A s \in A : s.seq < n /\ (s.seq + 1 = n => s.off + s.len = w)
  BY DEF BeforeOut
<1>2. Apart(A, {e})
  BY <1>0, <1>1 DEF Apart
<1>3. Follow(A \cup {e})
  <2>1. ASSUME NEW s \in A \cup {e}, NEW t \in A \cup {e}, s.seq + 1 = t.seq PROVE t.off = s.off + s.len
    <3>1. CASE t = e
      BY <1>0, <1>1, <2>1, <3>1
    <3>2. CASE t # e
      <4>1. t \in A /\ s # e
        BY <1>0, <1>1, <2>1, <3>2
      <4>2. QED
        BY <2>1, <4>1 DEF Follow
    <3>3. QED
      BY <3>1, <3>2
  <2>2. QED
    BY <2>1 DEF Follow
<1>4. BeforeOut(A \cup {e}, n+1, w + e.len)
  <2>1. ASSUME NEW s \in A PROVE s.seq < n+1 /\ s.seq + 1 # n+1
    BY <1>0, <1>1
  <2>2. QED
    BY <1>0, <2>1 DEF BeforeOut
<1>5. ASSUME NEW m \in Nat, NEW r, AfterIn(A, m, r), m =< n, m = n => r = w
      PROVE AfterIn(A \cup {e}, m, r)
  BY <1>5 DEF AfterIn
<1>6. QED
  BY <1>2, <1>3, <1>4, <1>5

\* The numbers that follow n.
Numbered(q, n, A) == \A i \in DOMAIN q : q[i] \in A /\ q[i].seq = n + i

\* The reader takes the segment h it expects, and those that follow it, from A
\* to the end of its queue q, which becomes a.
Takes(A, h, n, q, from, next, a) ==
    /\ A \subseteq Segments /\ h \in A /\ n \in Nat /\ h.seq = n
    /\ q \in Seq(Segments) /\ from \in Nat /\ Chained(q, from)
    /\ Follow(A) /\ AfterIn(A, n, EndOf(q, from))
    /\ next \in Seq(Segments) /\ Numbered(next, n, A)
    /\ a = Append(q, h) \o next

Taken(A, n, q, from, next, a) ==
    /\ a \in Seq(Segments) /\ a # <<>> /\ Chained(a, from) /\ ToSet(a) \subseteq ToSet(q) \cup A
    /\ \E l \in A : l.seq = n + Len(next) /\ EndOf(a, from) = l.off + l.len

\* Taking the next segment and the run that follows it out of the reorder
\* buffer extends the chain of readable segments.
LEMMA TakeFits ==
    ASSUME NEW A, NEW h, NEW n, NEW q, NEW from, NEW next, NEW a, Takes(A, h, n, q, from, next, a)
    PROVE  Taken(A, n, q, from, next, a)
<1> USE DEF Takes
<1>0. \A i \in DOMAIN next : next[i] \in A /\ next[i].seq = n + i
  BY DEF Numbered
<1>1. PICK p : p = Append(q, h)
  OBVIOUS
<1>2. h \in Segments /\ h.off = EndOf(q, from) /\ h.len \in Nat /\ h.off \in Nat
  BY SegmentFacts DEF AfterIn
<1>3. p \in Seq(Segments) /\ Chained(p, from) /\ EndOf(p, from) = h.off + h.len
  BY <1>1, <1>2, ChainAppend
<1>4. PICK K \in Nat : K = Len(next) /\ DOMAIN next = 1..K /\ ((next = <<>>) <=> (K = 0))
  BY ElementFacts
<1>5. Chained(next, h.off + h.len)
  <2>1. ASSUME K # 0 PROVE next[1].off = h.off + h.len
    <3>1. 1 \in 1..K
      BY <2>1
    <3>2. next[1] \in A /\ next[1].seq = n + 1
      BY <1>0, <1>4, <3>1
    <3>3. QED
      BY <3>2 DEF Follow
  <2>2. ASSUME NEW i \in 1..K, i+1 \in 1..K PROVE next[i+1].off = next[i].off + next[i].len
    <3>1. PICK x \in A : x = next[i] /\ x.seq = n+i
      BY <1>0, <1>4
    <3>2. PICK y \in A : y = next[i+1] /\ y.seq = n+(i+1)
      BY <1>0, <1>4, <2>2
    <3>3. x.seq + 1 = y.seq
      BY <3>1, <3>2
    <3>4. QED
      BY <3>1, <3>2, <3>3 DEF Follow
  <2>3. QED
    BY <1>4, <2>1, <2>2 DEF Chained
<1>6. a = p \o next
  BY <1>1
<1>7. a \in Seq(Segments) /\ Chained(a, from) /\ EndOf(a, from) = EndOf(next, h.off + h.len)
  BY <1>3, <1>5, <1>6, ChainConcat
<1>8. \E l \in A : l.seq = n + K /\ EndOf(a, from) = l.off + l.len
  <2>1. CASE K = 0
    BY <1>4, <1>7, <2>1 DEF EndOf
  <2>2. CASE K # 0
    <3>1. K \in DOMAIN next
      BY <1>4, <2>2
    <3>2. next[K] \in A /\ next[K].seq = n + K
      BY <1>0, <3>1
    <3>3. EndOf(next, h.off + h.len) = next[K].off + next[K].len
      BY <1>4, <2>2 DEF EndOf
    <3>4. QED
      BY <1>7, <3>2, <3>3
  <2>3. QED
    BY <2>1, <2>2
<1>9. ToSet(p) = ToSet(q) \cup {h} /\ p # <<>>
  BY <1>1, <1>2, AppendSet, AppendSeq
<1>10. ToSet(a) = ToSet(p) \cup ToSet(next) /\ a # <<>>
  BY <1>3, <1>6, <1>9, ConcatSet
<1>11. ToSet(next) \subseteq A
  BY <1>0, ToSetFacts
<1>12. ToSet(a) \subseteq ToSet(q) \cup A
  BY <1>9, <1>10, <1>11
<1>13. QED
  BY <1>1, <1>4, <1>6, <1>7, <1>8, <1>10, <1>12 DEF Taken

\* What is left for the reader comes after what it took.
LEMMA LeftFits ==
    ASSUME NEW A, A \subseteq Segments, NEW n \in Nat, NEW r, AfterIn(A, n, r), Follow(A),
           NEW K \in Nat, NEW l \in A, l.seq = n + K,
           NEW B, B \subseteq A, \A s \in B : s.seq # n /\ \A i \in 1..K : s.seq # n + i
    PROVE  AfterIn(B, n + 1 + K, l.off + l.len)
<1>1. ASSUME NEW s \in B PROVE n + 1 + K =< s.seq
  <2>1. s.seq \in Nat /\ n =< s.seq
    BY SegmentFacts DEF AfterIn
  <2>2. PICK d \in Nat : s.seq = n + d
    <3>1. s.seq - n \in Nat /\ s.seq = n + (s.seq - n)
      BY <2>1
    <3>2. QED
      BY <3>1
  <2>3. d # 0 /\ d \notin 1..K
    BY <2>2
  <2>4. d > K
    BY <2>3
  <2>5. QED
    BY <2>2, <2>4
<1>2. ASSUME NEW s \in B, s.seq = n + 1 + K PROVE s.off = l.off + l.len
  <2>1. l.seq + 1 = s.seq
    BY <1>2
  <2>2. QED
    BY <2>1 DEF Follow
<1>3. QED
  BY <1>1, <1>2 DEF AfterIn

-----------------------------------------------------------------------------
(* Reading.                                                                *)

\* The queue q of a reader that took L of the w bytes written.
QueueFits(q, L, w) ==
    /\ Chained(q, L) /\ EndOf(q, L) =< w
    /\ Within(ToSet(q), w) /\ EndsAt(ToSet(q), w)

\* A read takes a piece of the stream from its current end and leaves a
\* queue that continues behind it.
LEMMA CopyFits ==
    ASSUME NEW q \in Seq(Segments), NEW L \in Nat, NEW w \in Nat, QueueFits(q, L, w), NEW n \in Nat
    PROVE  \E k \in Nat :
            /\ CopyOut(q, n).bytes = Bytes(L, k) /\ L + k =< w
            /\ CopyOut(q, n).rest \in Seq(Segments)
            /\ QueueFits(CopyOut(q, n).rest, L + k, w)
            /\ EndOf(CopyOut(q, n).rest, L + k) = EndOf(q, L)
            /\ NoEnd(ToSet(q)) => NoEnd(ToSet(CopyOut(q, n).rest))
<1>1. PICK c : c = CopyOut(q, n)
  OBVIOUS
<1>2. CopyGood(c, q, L, EndOf(q, L))
  BY <1>1, CopyOutGood DEF QueueFits
<1>3. PICK k \in Nat :
        /\ c \in Copies
        /\ c.bytes = Bytes(L, k)
        /\ Chained(c.rest, L + k)
        /\ EndOf(c.rest, L + k) = EndOf(q, L)
        /\ \A j \in DOMAIN c.rest : \E i \in DOMAIN q :
            /\ c.rest[j].off + c.rest[j].len = q[i].off + q[i].len
            /\ Fin(c.rest[j]) => c.rest[j] = q[i]
  BY <1>2 DEF CopyGood
<1>4. PICK r \in Seq(Segments) : r = c.rest
  BY <1>3, CopyFacts
<1>5. \A s \in ToSet(r) : \E t \in ToSet(q) : s.off + s.len = t.off + t.len /\ (Fin(s) => s = t)
  <2>1. ASSUME NEW s \in ToSet(r) PROVE \E t \in ToSet(q) : s.off + s.len = t.off + t.len /\ (Fin(s) => s = t)
    <3>1. PICK j \in DOMAIN r : s = r[j]
      BY ToSetFacts
    <3>2. PICK i \in DOMAIN q : s.off + s.len = q[i].off + q[i].len /\ (Fin(s) => s = q[i])
      BY <1>3, <1>4, <3>1
    <3>3. q[i] \in ToSet(q)
      BY ToSetFacts
    <3>4. QED
      BY <3>2, <3>3
  <2>2. QED
    BY <2>1
<1>6. Within(ToSet(r), w)
  BY <1>5 DEF QueueFits, Within
<1>7. EndsAt(ToSet(r), w)
  BY <1>5 DEF QueueFits, EndsAt
<1>8. NoEnd(ToSet(q)) => NoEnd(ToSet(r))
  BY <1>5 DEF NoEnd
<1>9. L + k =< w
  <2>1. CASE r = <<>>
    BY <1>3, <1>4, <2>1 DEF EndOf, QueueFits
  <2>2. CASE r # <<>>
    <3>1. 1 \in DOMAIN r /\ r[1].off \in Nat /\ r[1].len \in Nat
      BY <2>2, ElementFacts
    <3>2. r[1].off = L + k
      BY <1>3, <1>4, <2>2 DEF Chained
    <3>3. r[1].off + r[1].len =< w
      BY <1>6, <3>1, ToSetFacts DEF Within
    <3>4. QED
      BY <3>1, <3>2, <3>3
  <2>3. QED
    BY <2>1, <2>2
<1>10. QueueFits(r, L + k, w)
  BY <1>3, <1>4, <1>6, <1>7 DEF QueueFits
<1>11. QED
  BY <1>1, <1>3, <1>4, <1>8, <1>9, <1>10

\* The end of the stream is read after the last byte.
LEMMA EndFits ==
    ASSUME NEW q \in Seq(Segments), q # <<>>, NEW L \in Nat, NEW w \in Nat, QueueFits(q, L, w), Fin(Head(q))
    PROVE  /\ Tail(q) \in Seq(Segments) /\ QueueFits(Tail(q), L, w) /\ EndOf(Tail(q), L) = EndOf(q, L)
           /\ L = w /\ ~NoEnd(ToSet(q)) /\ ToSet(Tail(q)) \subseteq ToSet(q)
<1>1. PICK t : t = Tail(q)
  OBVIOUS
<1>2. /\ t \in Seq(Segments) /\ Head(q) = q[1] /\ q[1].off = L
      /\ Chained(t, L + q[1].len) /\ EndOf(t, L + q[1].len) = EndOf(q, L)
  BY <1>1, ChainTail DEF QueueFits
<1>3. 1 \in DOMAIN q /\ \A i \in DOMAIN t : i+1 \in DOMAIN q /\ t[i] = q[i+1]
  BY <1>1, TailSeq
<1>4. q[1] \in ToSet(q)
  BY <1>3, ToSetFacts
<1>5. q[1].off = w /\ q[1].len = 0
  BY <1>2, <1>4 DEF QueueFits, EndsAt
<1>6. L + q[1].len = L
  BY <1>5
<1>7. ToSet(t) \subseteq ToSet(q)
  <2>1. ASSUME NEW s \in ToSet(t) PROVE s \in ToSet(q)
    <3>1. PICK i \in DOMAIN t : s = t[i]
      BY <1>2, ToSetFacts
    <3>2. QED
      BY <1>3, <3>1, ToSetFacts
  <2>2. QED
    BY <2>1
<1>8. QueueFits(t, L, w) /\ EndOf(t, L) = EndOf(q, L)
  BY <1>2, <1>6, <1>7 DEF QueueFits, Within, EndsAt
<1>9. QED
  BY <1>1, <1>2, <1>4, <1>5, <1>7, <1>8 DEF NoEnd

\* What read_some_impl() does with a queue q.
LEMMA ReadStep ==
    ASSUME NEW q \in Seq(Segments), q # <<>>, NEW n \in Nat, written \in Nat, Len(got) \in Nat,
           got = Bytes(0, Len(got)), QueueFits(q, Len(got), written), ReadFrom(q, n)
    PROVE  /\ incoming' \in Seq(Segments) /\ QueueFits(incoming', Len(got'), written)
           /\ EndOf(incoming', Len(got')) = EndOf(q, Len(got))
           /\ NoEnd(ToSet(q)) => NoEnd(ToSet(incoming'))
           /\ got' = Bytes(0, Len(got')) /\ Len(got') \in Nat /\ Len(got') =< written
           /\ \/ /\ eof' = TRUE /\ UNCHANGED got
                 /\ ~NoEnd(ToSet(q)) /\ Len(got) = written
              \/ /\ UNCHANGED eof
                 /\ \E k \in Nat : Len(got) + k =< written /\ got' = got \o Bytes(Len(got), k)
<1>1. PICK L \in Nat : L = Len(got)
  OBVIOUS
<1>2. PICK w \in Nat : w = written
  OBVIOUS
<1>3. QueueFits(q, L, w)
  BY <1>1, <1>2
<1> DEFINE Done(i, g, l) ==
               /\ i \in Seq(Segments) /\ QueueFits(i, l, w) /\ EndOf(i, l) = EndOf(q, L)
               /\ NoEnd(ToSet(q)) => NoEnd(ToSet(i))
               /\ g = Bytes(0, l) /\ l \in Nat /\ l =< w
<1> DEFINE Took == \/ /\ eof' = TRUE /\ UNCHANGED got
                      /\ ~NoEnd(ToSet(q)) /\ Len(got) = written
                   \/ /\ UNCHANGED eof
                      /\ \E k \in Nat : Len(got) + k =< written /\ got' = got \o Bytes(Len(got), k)
<1>4. SUFFICES Done(incoming', got', Len(got')) /\ Took
  BY <1>1, <1>2
<1> HIDE DEF Done, Took
<1>5. CASE Fin(Head(q))
  <2>1. eof' = TRUE /\ incoming' = Tail(q) /\ got' = got
    BY <1>5 DEF ReadFrom, Fin
  <2>2. PICK t : t = Tail(q)
    OBVIOUS
  <2>3. /\ t \in Seq(Segments) /\ QueueFits(t, L, w) /\ EndOf(t, L) = EndOf(q, L)
        /\ L = w /\ ~NoEnd(ToSet(q))
    BY <1>3, <1>5, <2>2, EndFits
  <2>4. L = Len(got') /\ got' = Bytes(0, L)
    BY <1>1, <2>1
  <2>5. Done(t, got', L)
    BY <2>3, <2>4 DEF Done
  <2>6. Done(incoming', got', Len(got'))
    BY <2>1, <2>2, <2>4, <2>5
  <2>7. Took
    <3>1. Len(got) = written
      BY <1>1, <1>2, <2>3
    <3>2. QED
      BY <2>1, <2>3, <3>1 DEF Took
  <2>8. QED
    BY <1>4, <2>6, <2>7
<1>6. CASE ~Fin(Head(q))
  <2>1. PICK c : c = CopyOut(q, n)
    OBVIOUS
  <2>2. eof' = eof /\ incoming' = c.rest /\ got' = got \o c.bytes
    BY <1>6, <2>1 DEF ReadFrom, Fin
  <2>3. PICK k \in Nat :
            /\ c.bytes = Bytes(L, k) /\ L + k =< w
            /\ c.rest \in Seq(Segments)
            /\ QueueFits(c.rest, L + k, w)
            /\ EndOf(c.rest, L + k) = EndOf(q, L)
            /\ NoEnd(ToSet(q)) => NoEnd(ToSet(c.rest))
    BY <1>3, <2>1, CopyFits
  <2>4. got' = Bytes(0, L + k) /\ Len(got') = L + k
    <3>0. PICK z \in Nat : z = 0
      OBVIOUS
    <3>1. z + L = L /\ L + k \in Nat
      BY <3>0
    <3>2. got' = Bytes(z, L) \o Bytes(z + L, k)
      BY <1>1, <2>2, <2>3, <3>0, <3>1
    <3>3. got' = Bytes(z, L + k)
      BY <3>2, BytesJoin, Zenon
    <3>4. Len(Bytes(z, L + k)) = L + k
      BY <3>1, BytesFacts
    <3>5. QED
      BY <3>0, <3>3, <3>4
  <2>5. L + k \in Nat
    OBVIOUS
  <2>6. Done(c.rest, got', L + k)
    BY <2>3, <2>4, <2>5 DEF Done
  <2>7. Done(incoming', got', Len(got'))
    BY <2>2, <2>4, <2>6
  <2>8. got' = got \o Bytes(Len(got), k) /\ Len(got) + k =< written /\ eof' = eof
    BY <1>1, <1>2, <2>2, <2>3
  <2>9. Took
    BY <2>8 DEF Took
  <2>10. QED
    BY <1>4, <2>7, <2>9
<1>7. QED
  BY <1>5, <1>6

-----------------------------------------------------------------------------
(* The inductive invariant.                                                *)

\* The segments on their way: sent, dropped or waiting to be reordered.
Air == ToSet(data) \cup ToSet(resend) \cup reorder

\* The bytes that came in order.
Received == EndOf(incoming, Len(got))

\* No number is at two of the three places a segment can be at before the
\* reader has it, or twice at one.
OnePlace ==
    /\ NoTwice(data) /\ NoTwice(resend) /\ OneBySeq(reorder) /\ IsFiniteSet(reorder)
    /\ Apart(ToSet(data), ToSet(resend))
    /\ Apart(ToSet(data), reorder)
    /\ Apart(ToSet(resend), reorder)

\* The segments on their way: neighbours in number are neighbours in the stream,
\* the numbers begin where the reader waits and end where the writer is, and
\* the end of the stream is behind the last byte.
AirFits ==
    /\ Follow(Air)
    /\ AfterIn(Air, next_in, Received)
    /\ Within(Air, written) /\ EndsAt(Air, written)
    /\ ~closed => BeforeOut(Air, next_seq, written) /\ NoEnd(Air)

\* What is readable continues what was read, and the reader is never ahead of
\* the writer.
ReaderFits ==
    /\ QueueFits(incoming, Len(got), written)
    /\ ~closed => NoEnd(ToSet(incoming))
    /\ ~closed => next_in =< next_seq /\ (next_in = next_seq => Received = written)
    /\ got = Bytes(0, Len(got))

\* Nothing is read after the end of the stream.
EofFits == eof => closed /\ recv_op = NoOp

\* The writer's loop runs on an open socket with no other write pending; the
\* window has room for a segment.
WriterFits ==
    /\ ctx \in {"writing", "sent"} => ~closed /\ send_op = NoOp /\ written + left =< MaxBytes
    /\ send_op.op = "some" => written + send_op.n =< MaxBytes
    /\ cwnd >= Mss

\* What m_outstanding_packet_sizes has for a segment.
Size(s) == [seq |-> s.seq, len |-> s.len]

\* Every segment that is neither acknowledged nor in the reader's hands is
\* counted, and every ack is the only one for a segment that is counted.
OutstandingFits ==
    /\ Sized(outstanding)
    /\ in_flight >= Sum(outstanding)
    /\ OneBySeq(outstanding)
    /\ \A o \in outstanding : o.seq < next_seq
    /\ \A s \in ToSet(data) \cup ToSet(resend) : Size(s) \in outstanding
    /\ \A i \in DOMAIN acks : \E o \in outstanding : o.seq = acks[i]
    /\ \A i, j \in DOMAIN acks : acks[i] = acks[j] => i = j
    /\ \A i \in DOMAIN acks : \A s \in ToSet(data) \cup ToSet(resend) : acks[i] # s.seq

\* The inductive invariant.
IInv ==
    /\ TypeOK
    /\ OnePlace
    /\ AirFits
    /\ ReaderFits
    /\ EofFits
    /\ WriterFits
    /\ ~closed => OutstandingFits

\* No operation is pending.
LEMMA NoOpFacts == NoOp.op # "some" /\ \A S : NoOp \in Ops(S)
BY DEF NoOp, Ops

\* A connection just established satisfies the invariant.
LEMMA InitEstablishes == Init => IInv
<1> SUFFICES ASSUME Init PROVE IInv
  OBVIOUS
<1>1. TypeOK
  <2>1. <<>> \in Seq(Segments) /\ <<>> \in Seq(Nat) /\ <<>> \in Seq(1..MaxBytes)
    OBVIOUS
  <2>2. 2 * Mss \in Nat /\ 0 \in 0..MaxDrops /\ 0 \in 0..MaxBytes
    BY ConstantsAssumption
  <2>3. QED
    BY <2>1, <2>2, NoOpFacts DEF Init, TypeOK
<1>2. ToSet(data) = {} /\ ToSet(resend) = {} /\ Air = {} /\ ToSet(incoming) = {} /\ Len(got) = 0 /\ Received = 0
  BY DEF Init, Air, ToSet, Received, EndOf
<1>3. OnePlace
  BY <1>2, FS_EmptySet DEF Init, OnePlace, NoTwice, OneBySeq, Apart
<1>4. AirFits
  BY <1>2 DEF AirFits, Follow, AfterIn, Within, EndsAt, BeforeOut, NoEnd
<1>5. ReaderFits
  <2>1. QueueFits(incoming, Len(got), written)
    BY <1>2 DEF Init, QueueFits, Chained, EndOf, Within, EndsAt
  <2>2. NoEnd(ToSet(incoming))
    BY <1>2 DEF NoEnd
  <2>3. got = Bytes(0, Len(got))
    BY <1>2 DEF Init, Bytes
  <2>4. QED
    BY <1>2, <2>1, <2>2, <2>3 DEF ReaderFits, Init
<1>6. EofFits /\ WriterFits
  BY ConstantsAssumption DEF Init, EofFits, WriterFits, NoOp
<1>7. OutstandingFits
  <2>1. Sized({}) /\ Sum({}) = 0
    BY FS_EmptySet, SumStep DEF Sized
  <2>2. QED
    BY <1>2, <2>1 DEF Init, OutstandingFits, OneBySeq
<1>8. QED
  BY <1>1, <1>3, <1>4, <1>5, <1>6, <1>7 DEF IInv

-----------------------------------------------------------------------------
(* What a step does not touch stays true.                                  *)

\* A step that moves no segment keeps them at one place each.
LEMMA PlacesKept ==
    ASSUME OnePlace, UNCHANGED <<data, resend, reorder>>
    PROVE  OnePlace'
BY DEF OnePlace

\* A step that only takes segments away leaves those on their way fitting.
LEMMA AirKept ==
    ASSUME AirFits, Covered(Air', Air), UNCHANGED <<next_in, next_seq, written, closed>>, Received' = Received
    PROVE  AirFits'
<1>1. PICK A : A = Air
  OBVIOUS
<1>2. PICK B : B = Air'
  OBVIOUS
<1>3. Covered(B, A)
  BY <1>1, <1>2
<1>4. Follow(A) /\ AfterIn(A, next_in, Received) /\ Within(A, written) /\ EndsAt(A, written)
  BY <1>1 DEF AirFits
<1>5. Follow(B) /\ AfterIn(B, next_in, Received) /\ Within(B, written) /\ EndsAt(B, written)
  BY <1>3, <1>4, CoveredFits, Zenon
<1>6. ASSUME ~closed PROVE BeforeOut(B, next_seq, written) /\ NoEnd(B)
  <2>1. BeforeOut(A, next_seq, written) /\ NoEnd(A)
    BY <1>1, <1>6 DEF AirFits
  <2>2. QED
    BY <1>3, <2>1, CoveredFits, Zenon
<1>7. QED
  BY <1>2, <1>5, <1>6 DEF AirFits

\* The same of a step that touches none of them.
LEMMA AirSame ==
    ASSUME AirFits, UNCHANGED <<data, resend, reorder, next_in, next_seq, written, closed, incoming, got>>
    PROVE  AirFits'
<1>1. Air' = Air /\ Received' = Received
  BY DEF Air, Received
<1>2. Covered(Air', Air)
  BY <1>1, SubsetCovered
<1>3. QED
  BY <1>1, <1>2, AirKept

\* A step that does not touch the reader's side.
LEMMA ReaderKept ==
    ASSUME ReaderFits, UNCHANGED <<incoming, got, written, closed, next_in, next_seq>>
    PROVE  ReaderFits'
BY DEF ReaderFits, Received

\* A step that does not touch the end of the stream.
LEMMA EofKept ==
    ASSUME EofFits, UNCHANGED <<eof, closed, recv_op>>
    PROVE  EofFits'
BY DEF EofFits

\* A step that does not touch the writer's operation and window.
LEMMA WriterKept ==
    ASSUME WriterFits, UNCHANGED <<ctx, left, send_op, closed, written, cwnd>>
    PROVE  WriterFits'
BY DEF WriterFits

\* A step that does not touch what is outstanding.
LEMMA OutstandingKept ==
    ASSUME OutstandingFits, UNCHANGED <<outstanding, in_flight, next_seq, data, resend, acks>>
    PROVE  OutstandingFits'
BY DEF OutstandingFits

-----------------------------------------------------------------------------
(* The steps that move no segment.                                         *)

\* An async_write_some() or async_read_some() that is pending.
LEMMA SomeOpFacts ==
    ASSUME NEW S, NEW n \in S
    PROVE  /\ [op |-> "some", n |-> n] \in Ops(S)
           /\ [op |-> "some", n |-> n].op = "some" /\ [op |-> "some", n |-> n].n = n
BY DEF Ops

\* An async_wait() that is pending.
LEMMA WaitOpFacts ==
    ASSUME NEW S
    PROVE  [op |-> "wait", n |-> 0] \in Ops(S) /\ [op |-> "wait", n |-> 0].op # "some"
BY DEF Ops

\* The size of a pending operation.
LEMMA OpFacts ==
    ASSUME NEW S, NEW o \in Ops(S), o.op = "some"
    PROVE  o.n \in S
BY DEF Ops, NoOp

\* Only the pending operation of the writer and its loop change.
LEMMA LoopStep ==
    ASSUME IInv, WriterFits', left' \in Nat, ctx' \in {"idle", "writing", "sent", "undefined"},
           send_op' \in Ops(Writes),
           UNCHANGED <<next_seq, cwnd, in_flight, outstanding, resend, last_drop, written,
                       closed, recover, readerVars, data, acks, drops>>
    PROVE  IInv'
<1>1. UNCHANGED <<next_in, reorder, incoming, recv_op, got, eof>>
  BY DEF readerVars
<1>2. TypeOK'
  BY <1>1 DEF IInv, TypeOK
<1>3. OnePlace' /\ AirFits' /\ ReaderFits' /\ EofFits'
  BY <1>1, PlacesKept, AirSame, ReaderKept, EofKept DEF IInv
<1>4. ~closed' => OutstandingFits'
  BY OutstandingKept DEF IInv
<1>5. QED
  BY <1>2, <1>3, <1>4 DEF IInv

\* Starting a write keeps the invariant.
LEMMA AsyncWriteSome ==
    ASSUME IInv, NEW n \in Writes, async_write_some(n)
    PROVE  IInv'
<1>0. n \in Nat /\ written \in Nat /\ closed \in BOOLEAN
  BY ConstantsAssumption DEF IInv, TypeOK
<1>1. CASE WindowFull(in_flight, cwnd)
  <2>1. send_op' = [op |-> "some", n |-> n] /\ ctx' = ctx /\ left' = left /\ ctx = "idle"
    BY <1>1 DEF async_write_some
  <2>2. send_op' \in Ops(Writes) /\ send_op'.n = n
    BY <2>1, SomeOpFacts
  <2>3. WriterFits'
    BY <2>1, <2>2 DEF async_write_some, WriterFits, IInv
  <2>4. QED
    BY <2>1, <2>2, <2>3, LoopStep DEF async_write_some, IInv, TypeOK
<1>2. CASE ~WindowFull(in_flight, cwnd)
  <2>1. send_op' = NoOp /\ ctx' = "writing" /\ left' = n
    BY <1>2 DEF async_write_some
  <2>2. WriterFits'
    BY <2>1, NoOpFacts DEF async_write_some, WriterFits, IInv
  <2>3. QED
    BY <1>0, <2>1, <2>2, LoopStep, NoOpFacts DEF async_write_some
<1>3. QED
  BY <1>1, <1>2

\* Waiting for room keeps the invariant.
LEMMA AsyncWaitWrite ==
    ASSUME IInv, async_wait_write
    PROVE  IInv'
<1>1. send_op' \in Ops(Writes) /\ send_op'.op # "some"
  BY NoOpFacts, WaitOpFacts DEF async_wait_write
<1>2. ctx = "idle" /\ ctx' = ctx /\ left' = left /\ left \in Nat
  BY DEF async_wait_write, IInv, TypeOK
<1>3. WriterFits'
  BY <1>1, <1>2 DEF async_wait_write, WriterFits, IInv
<1>4. QED
  BY <1>1, <1>2, <1>3, LoopStep DEF async_wait_write

\* Going on with the loop of write_some_impl(), or ending it, keeps the invariant.
LEMMA WriteLoops ==
    ASSUME IInv, WriteLoop
    PROVE  IInv'
<1>1. /\ left' \in Nat /\ (left' = left \/ ctx' = "idle") /\ ctx' \in {"idle", "writing"} /\ ctx = "sent"
      /\ send_op' = send_op /\ send_op \in Ops(Writes)
  BY DEF WriteLoop, IInv, TypeOK
<1>2. WriterFits'
  BY <1>1 DEF WriteLoop, WriterFits, IInv
<1>3. QED
  BY <1>1, <1>2, LoopStep DEF WriteLoop

\* cancel() of the writer's operation keeps the invariant.
LEMMA CancelWrite ==
    ASSUME IInv, cancel_write
    PROVE  IInv'
<1>1. ctx = "idle" /\ ctx' = ctx /\ left' = left /\ left \in Nat /\ send_op' = NoOp
  BY DEF cancel_write, IInv, TypeOK
<1>2. WriterFits'
  BY <1>1, NoOpFacts DEF cancel_write, WriterFits, IInv
<1>3. QED
  BY <1>1, <1>2, LoopStep, NoOpFacts DEF cancel_write

\* An ack that finds no socket keeps the invariant.
LEMMA AckLost ==
    ASSUME IInv, LoseAck
    PROVE  IInv'
<1>1. UNCHANGED <<ctx, left, send_op, next_seq, cwnd, in_flight, outstanding, resend, last_drop,
                  written, closed, recover, next_in, reorder, incoming, recv_op, got, eof, data, drops>>
  BY DEF LoseAck, writerVars, readerVars
<1>2. acks' \in Seq(Nat)
  <2>1. acks \in Seq(Nat) /\ acks # <<>> /\ acks' = Tail(acks)
    BY DEF LoseAck, IInv, TypeOK
  <2>2. QED
    BY <2>1, TailSeq
<1>3. TypeOK'
  BY <1>1, <1>2 DEF IInv, TypeOK
<1>4. OnePlace' /\ AirFits' /\ ReaderFits' /\ EofFits' /\ WriterFits'
  BY <1>1, PlacesKept, AirSame, ReaderKept, EofKept, WriterKept DEF IInv
<1>5. closed'
  BY <1>1 DEF LoseAck
<1>6. QED
  BY <1>3, <1>4, <1>5 DEF IInv

\* Only the pending operation of the reader changes.
LEMMA ReadOpStep ==
    ASSUME IInv, EofFits', recv_op' \in Ops(Reads),
           UNCHANGED <<writerVars, next_in, reorder, incoming, got, eof, data, acks, drops>>
    PROVE  IInv'
<1>1. UNCHANGED <<ctx, left, send_op, next_seq, cwnd, in_flight, outstanding, resend, last_drop,
                  written, closed, recover>>
  BY DEF writerVars
<1>2. TypeOK'
  BY <1>1 DEF IInv, TypeOK
<1>3. OnePlace' /\ AirFits' /\ ReaderFits' /\ WriterFits'
  BY <1>1, PlacesKept, AirSame, ReaderKept, WriterKept DEF IInv
<1>4. ~closed' => OutstandingFits'
  BY <1>1, OutstandingKept DEF IInv
<1>5. QED
  BY <1>2, <1>3, <1>4 DEF IInv

\* Waiting for data keeps the invariant.
LEMMA AsyncWaitRead ==
    ASSUME IInv, async_wait_read
    PROVE  IInv'
<1>1. EofFits'
  BY DEF async_wait_read, EofFits
<1>2. recv_op' \in Ops(Reads)
  BY NoOpFacts, WaitOpFacts DEF async_wait_read
<1>3. QED
  BY <1>1, <1>2, ReadOpStep DEF async_wait_read

\* cancel() of the reader's operation keeps the invariant.
LEMMA CancelRead ==
    ASSUME IInv, cancel_read
    PROVE  IInv'
<1>1. closed' = closed
  BY DEF cancel_read, writerVars
<1>2. EofFits'
  BY <1>1 DEF cancel_read, EofFits, IInv
<1>3. recv_op' \in Ops(Reads)
  BY NoOpFacts DEF cancel_read
<1>4. QED
  BY <1>2, <1>3, ReadOpStep DEF cancel_read

-----------------------------------------------------------------------------
(* The steps that send a segment.                                          *)

\* The types of what the invariant speaks of.
LEMMA AirTyped ==
    ASSUME TypeOK
    PROVE  /\ Air \subseteq Segments /\ ToSet(data) \subseteq Segments /\ ToSet(resend) \subseteq Segments
           /\ reorder \subseteq Segments /\ ToSet(incoming) \subseteq Segments
           /\ Len(got) \in Nat /\ Received \in Nat /\ written \in Nat /\ MaxBytes \in Nat
<1>1. data \in Seq(Segments) /\ resend \in Seq(Segments) /\ incoming \in Seq(Segments) /\ reorder \subseteq Segments
  BY DEF TypeOK
<1>2. ToSet(data) \subseteq Segments /\ ToSet(resend) \subseteq Segments /\ ToSet(incoming) \subseteq Segments
  BY <1>1, ToSetFacts
<1>3. Len(got) \in Nat
  BY LenProperties DEF TypeOK
<1>4. Received \in Nat
  BY <1>1, <1>3, EndFactsOf DEF Received
<1>5. QED
  BY <1>1, <1>2, <1>3, <1>4, ConstantsAssumption DEF Air, TypeOK

\* A segment that is sent takes the next number and the next place.
LEMMA SegmentSent ==
    ASSUME IInv, ~closed, NEW e \in Segments, e.seq = next_seq, e.off = written,
           data' = Append(data, e), written' = written + e.len,
           UNCHANGED <<resend, reorder, incoming, got, next_in>>
    PROVE  /\ data' \in Seq(Segments) /\ ToSet(data)' = ToSet(data) \cup {e} /\ OnePlace'
           /\ Follow(Air') /\ AfterIn(Air', next_in', Received')
           /\ Within(Air', written') /\ BeforeOut(Air', next_seq + 1, written')
           /\ \A s \in Air : ~Fin(s)
           /\ Air' = Air \cup {e} /\ Apart(Air, {e})
<1>1. PICK A : A = Air
  OBVIOUS
<1>2. /\ A \subseteq Segments /\ next_seq \in Nat /\ written \in Nat /\ next_in \in Nat /\ e.len \in Nat
      /\ data \in Seq(Segments)
  BY <1>1, AirTyped, SegmentFacts DEF IInv, TypeOK
<1>3. PICK D : D = ToSet(data)
  OBVIOUS
<1>4. Follow(A) /\ BeforeOut(A, next_seq, written) /\ AfterIn(A, next_in, Received) /\ Within(A, written) /\ NoEnd(A)
  BY <1>1 DEF IInv, AirFits
<1>5. next_in =< next_seq /\ (next_in = next_seq => Received = written)
  BY DEF IInv, ReaderFits
<1>6. Apart(A, {e}) /\ Follow(A \cup {e}) /\ BeforeOut(A \cup {e}, next_seq + 1, written + e.len)
  BY <1>2, <1>4, AddFits
<1>7. AfterIn(A \cup {e}, next_in, Received)
  BY <1>2, <1>4, <1>5, AddFits
<1>8. Within(A \cup {e}, written + e.len)
  <2>1. ASSUME NEW s \in A PROVE s.off + s.len =< written + e.len
    <3>1. s.off + s.len =< written /\ s.off \in Nat /\ s.len \in Nat
      BY <1>2, <1>4, SegmentFacts DEF Within
    <3>2. QED
      BY <1>2, <3>1
  <2>2. e.off + e.len =< written + e.len
    BY <1>2
  <2>3. QED
    BY <2>1, <2>2 DEF Within
<1>9. /\ Append(data, e) \in Seq(Segments) /\ ToSet(Append(data, e)) = D \cup {e}
      /\ (NoTwice(data) /\ Apart(D, {e})) => NoTwice(Append(data, e))
  BY <1>2, <1>3, AppendSet
<1>10. ToSet(data)' = D \cup {e}
  BY <1>9
<1>11. Air' = A \cup {e}
  BY <1>1, <1>3, <1>10 DEF Air
<1>12. Received' = Received
  BY DEF Received
<1>13. D \subseteq A /\ ToSet(resend) \subseteq A /\ reorder \subseteq A
  BY <1>1, <1>3 DEF Air
<1>14. OnePlace'
  <2>1. Apart(D, {e})
    BY <1>6, <1>13 DEF Apart
  <2>2. NoTwice(data')
    BY <1>9, <2>1 DEF IInv, OnePlace
  <2>3. Apart(D \cup {e}, ToSet(resend)) /\ Apart(D \cup {e}, reorder)
    BY <1>3, <1>6, <1>13 DEF Apart, IInv, OnePlace
  <2>4. ToSet(resend)' = ToSet(resend)
    OBVIOUS
  <2>5. QED
    BY <1>10, <2>2, <2>3, <2>4 DEF IInv, OnePlace
<1>15. QED
  BY <1>1, <1>3, <1>4, <1>6, <1>7, <1>8, <1>9, <1>10, <1>11, <1>12, <1>14 DEF NoEnd

\* What is recorded of a segment.
LEMMA SizeFacts ==
    ASSUME NEW s \in Segments
    PROVE  Size(s) \in [seq : Nat, len : Nat] /\ Size(s).seq = s.seq /\ Size(s).len = s.len
BY SegmentFacts DEF Size

\* Sending a segment keeps the invariant.
LEMMA SegmentWritten ==
    ASSUME IInv, WriteSegment
    PROVE  IInv'
<1>0. /\ left \in Nat /\ Mss \in Nat /\ next_seq \in Nat /\ written \in Nat /\ in_flight \in Nat
      /\ MaxBytes \in Nat /\ ctx = "writing"
  BY ConstantsAssumption DEF IInv, TypeOK, WriteSegment
<1>1. PICK k \in Nat : k = (IF left < Mss THEN left ELSE Mss) /\ k =< left
  BY <1>0
<1>2. PICK e \in Segments : e = NewSegment(next_seq, written, k) /\ e.seq = next_seq /\ e.off = written /\ e.len = k /\ ~Fin(e)
  BY <1>0, NewFacts
<1>3. /\ data' = Append(data, e) /\ in_flight' = in_flight + k
      /\ next_seq' = next_seq + 1 /\ written' = written + k /\ left' = left - k /\ ctx' = "sent"
      /\ UNCHANGED <<send_op, cwnd, resend, last_drop, closed, recover, acks, drops>>
      /\ UNCHANGED <<next_in, reorder, incoming, recv_op, got, eof>>
  BY <1>1, <1>2 DEF WriteSegment, readerVars, NewSegment
<1>4. outstanding' = outstanding \cup {Size(e)}
  BY <1>1, <1>2 DEF WriteSegment, Size
<1>5. ~closed /\ send_op = NoOp /\ written + left =< MaxBytes /\ cwnd >= Mss
  BY <1>0 DEF IInv, WriterFits
<1>6. /\ data' \in Seq(Segments) /\ ToSet(data)' = ToSet(data) \cup {e} /\ OnePlace'
      /\ Follow(Air') /\ AfterIn(Air', next_in', Received')
      /\ Within(Air', written') /\ BeforeOut(Air', next_seq + 1, written')
      /\ \A s \in Air : ~Fin(s)
      /\ Air' = Air \cup {e} /\ Apart(Air, {e})
  BY <1>2, <1>3, <1>5, SegmentSent
<1>7. NoEnd(Air')
  BY <1>2, <1>6 DEF NoEnd
<1>8. AirFits'
  BY <1>3, <1>6, <1>7 DEF AirFits, EndsAt, NoEnd
<1>9. ReaderFits'
  <2>1. NoEnd(ToSet(incoming)) /\ QueueFits(incoming, Len(got), written) /\ got = Bytes(0, Len(got)) /\ next_in =< next_seq
    BY <1>5 DEF IInv, ReaderFits
  <2>2. Received \in Nat /\ next_in \in Nat /\ ToSet(incoming) \subseteq Segments
    BY AirTyped DEF IInv, TypeOK
  <2>3. EndOf(incoming, Len(got)) =< written + k
    BY <1>0, <2>1, <2>2 DEF QueueFits, Received
  <2>4. Within(ToSet(incoming), written + k)
    <3>1. ASSUME NEW s \in ToSet(incoming) PROVE s.off + s.len =< written + k
      <4>1. s.off + s.len =< written /\ s.off \in Nat /\ s.len \in Nat
        BY <2>1, <2>2, SegmentFacts DEF QueueFits, Within
      <4>2. QED
        BY <1>0, <4>1
    <3>2. QED
      BY <3>1 DEF Within
  <2>5. QueueFits(incoming, Len(got), written + k)
    BY <2>1, <2>3, <2>4 DEF QueueFits, EndsAt, NoEnd
  <2>6. next_in =< next_seq + 1 /\ next_in # next_seq + 1
    BY <1>0, <2>1, <2>2
  <2>7. QED
    BY <1>3, <2>1, <2>5, <2>6 DEF ReaderFits
<1>10. EofFits'
  BY <1>3, EofKept DEF IInv
<1>11. WriterFits'
  BY <1>0, <1>1, <1>3, <1>5, NoOpFacts DEF WriterFits
<1>12. Size(e) \in [seq : Nat, len : Nat] /\ Size(e).seq = next_seq /\ Size(e).len = k
  BY <1>2, SizeFacts
<1>13. OutstandingFits'
  <2>1. OutstandingFits
    BY <1>5 DEF IInv
  <2>2. Size(e) \notin outstanding /\ \A o \in outstanding : o.seq \in Nat /\ o.seq < next_seq
    BY <1>0, <1>12, <2>1 DEF OutstandingFits, IInv, TypeOK
  <2>3. Sized(outstanding') /\ Sum(outstanding') = Sum(outstanding) + k /\ Sum(outstanding) \in Nat
    <3>1. Sized(outstanding)
      BY <2>1 DEF OutstandingFits
    <3>2. QED
      BY <1>4, <1>12, <2>2, <3>1, SumAdd, SumStep
  <2>4. in_flight' >= Sum(outstanding')
    BY <1>0, <1>3, <2>1, <2>3 DEF OutstandingFits
  <2>5. OneBySeq(outstanding')
    BY <1>0, <1>4, <1>12, <2>1, <2>2 DEF OutstandingFits, OneBySeq
  <2>6. \A o \in outstanding' : o.seq < next_seq'
    BY <1>0, <1>3, <1>4, <1>12, <2>2
  <2>7. ToSet(data)' \cup ToSet(resend)' = (ToSet(data) \cup ToSet(resend)) \cup {e}
    BY <1>3, <1>6
  <2>8. \A s \in ToSet(data)' \cup ToSet(resend)' : Size(s) \in outstanding'
    BY <1>4, <2>1, <2>7 DEF OutstandingFits
  <2>9. \A i \in DOMAIN acks : \E o \in outstanding : o.seq = acks[i]
    BY <2>1 DEF OutstandingFits
  <2>10. \A i \in DOMAIN acks' : \E o \in outstanding' : o.seq = acks'[i]
    BY <1>3, <1>4, <2>9
  <2>11. \A i, j \in DOMAIN acks' : acks'[i] = acks'[j] => i = j
    BY <1>3, <2>1 DEF OutstandingFits
  <2>12. \A i \in DOMAIN acks' : \A s \in ToSet(data)' \cup ToSet(resend)' : acks'[i] # s.seq
    <3>1. \A i \in DOMAIN acks : acks[i] # e.seq
      BY <1>0, <1>2, <2>2, <2>9
    <3>2. \A i \in DOMAIN acks : \A s \in ToSet(data) \cup ToSet(resend) : acks[i] # s.seq
      BY <2>1 DEF OutstandingFits
    <3>3. QED
      BY <1>3, <2>7, <3>1, <3>2
  <2>13. QED
    BY <2>3, <2>4, <2>5, <2>6, <2>8, <2>10, <2>11, <2>12 DEF OutstandingFits
<1>14. TypeOK'
  <2>1. left' \in Nat /\ next_seq' \in Nat /\ in_flight' \in Nat /\ written' \in 0..MaxBytes
    BY <1>0, <1>1, <1>3, <1>5
  <2>2. outstanding' \subseteq [seq : Nat, len : Nat]
    BY <1>4, <1>12 DEF IInv, TypeOK
  <2>3. QED
    BY <1>3, <1>6, <2>1, <2>2 DEF IInv, TypeOK
<1>15. QED
  BY <1>8, <1>9, <1>10, <1>11, <1>13, <1>14, <1>6 DEF IInv

\* close(), which sends the end of the stream, keeps the invariant.
LEMMA Closed ==
    ASSUME IInv, close
    PROVE  IInv'
<1>0. /\ Mss \in Nat /\ next_seq \in Nat /\ written \in Nat /\ MaxBytes \in Nat /\ ctx = "idle" /\ ~closed
  BY ConstantsAssumption DEF IInv, TypeOK, close
<1>1. PICK e \in Segments : e = EndSegment(next_seq, written) /\ e.seq = next_seq /\ e.off = written /\ e.len = 0 /\ Fin(e)
  BY <1>0, EndFacts
<1>2. /\ data' = Append(data, e) /\ closed' = TRUE /\ send_op' = NoOp /\ next_seq' = 0 /\ cwnd' = 2 * Mss
      /\ in_flight' = 0 /\ outstanding' = {} /\ last_drop' = 0 /\ recover' = 0
      /\ UNCHANGED <<ctx, left, resend, written, acks, drops>>
      /\ UNCHANGED <<next_in, reorder, incoming, recv_op, got, eof>>
  BY <1>1 DEF close, readerVars, EndSegment
<1>3. written' = written + e.len
  BY <1>0, <1>1, <1>2
<1>4. /\ data' \in Seq(Segments) /\ OnePlace'
      /\ Follow(Air') /\ AfterIn(Air', next_in', Received')
      /\ Within(Air', written')
      /\ \A s \in Air : ~Fin(s)
      /\ Air' = Air \cup {e}
  BY <1>0, <1>1, <1>2, <1>3, SegmentSent
<1>5. EndsAt(Air', written')
  BY <1>1, <1>2, <1>4 DEF EndsAt
<1>6. AirFits'
  BY <1>2, <1>4, <1>5 DEF AirFits
<1>7. ReaderFits'
  BY <1>2 DEF ReaderFits, IInv
<1>8. EofFits'
  BY <1>2, <1>0 DEF EofFits, IInv
<1>9. WriterFits'
  BY <1>0, <1>2, NoOpFacts DEF WriterFits
<1>10. TypeOK'
  BY <1>0, <1>2, <1>4, NoOpFacts DEF IInv, TypeOK
<1>11. QED
  BY <1>2, <1>4, <1>6, <1>7, <1>8, <1>9, <1>10 DEF IInv

-----------------------------------------------------------------------------
(* The steps that drop a segment or send it again.                         *)

\* Segments are dropped, or moved to or from the queue of dropped ones.
LEMMA SegmentsMoved ==
    ASSUME IInv, Covered(ToSet(data)' \cup ToSet(resend)', ToSet(data) \cup ToSet(resend)),
           NoTwice(data'), NoTwice(resend'), Apart(ToSet(data)', ToSet(resend)'),
           UNCHANGED <<next_in, reorder, incoming, recv_op, got, eof, next_seq, written, closed>>
    PROVE  OnePlace' /\ AirFits' /\ ReaderFits' /\ EofFits'
<1>1. PICK S : S = ToSet(data) \cup ToSet(resend)
  OBVIOUS
<1>2. PICK T : T = ToSet(data)' \cup ToSet(resend)'
  OBVIOUS
<1>3. Covered(T, S)
  BY <1>1, <1>2
<1>4. Air = S \cup reorder /\ Air' = T \cup reorder
  BY <1>1, <1>2 DEF Air
<1>5. Covered(Air', Air)
  BY <1>3, <1>4 DEF Covered, Alike
<1>6. Received' = Received
  BY DEF Received
<1>7. AirFits'
  BY <1>5, <1>6, AirKept DEF IInv
<1>8. Apart(T, reorder)
  <2>1. Apart(S, reorder)
    BY <1>1 DEF Apart, IInv, OnePlace
  <2>2. QED
    BY <1>3, <2>1, CoveredApart
<1>9. Apart(ToSet(data)', reorder) /\ Apart(ToSet(resend)', reorder)
  BY <1>2, <1>8 DEF Apart
<1>10. OnePlace'
  BY <1>9 DEF IInv, OnePlace
<1>11. ReaderFits' /\ EofFits'
  BY ReaderKept, EofKept DEF IInv
<1>12. QED
  BY <1>7, <1>10, <1>11

\* The same is recorded of a segment that was dropped.
LEMMA SizeAlike ==
    ASSUME NEW s, NEW t, Alike(s, t)
    PROVE  Size(s) = Size(t) /\ s.seq = t.seq
BY DEF Alike, Size

\* With no more segments and fewer acks, and nothing taken from the outstanding
\* ones but what was acknowledged, these stay matched.
LEMMA OutstandingMoved ==
    ASSUME OutstandingFits, Covered(ToSet(data)' \cup ToSet(resend)', ToSet(data) \cup ToSet(resend)),
           UNCHANGED <<outstanding, in_flight, next_seq, acks>>
    PROVE  OutstandingFits'
<1>1. PICK S : S = ToSet(data) \cup ToSet(resend)
  OBVIOUS
<1>2. PICK T : T = ToSet(data)' \cup ToSet(resend)'
  OBVIOUS
<1>3. Covered(T, S)
  BY <1>1, <1>2
<1>4. (\A s \in S : Size(s) \in outstanding) /\ \A i \in DOMAIN acks : \A s \in S : acks[i] # s.seq
  BY <1>1 DEF OutstandingFits
<1>5. \A s \in T : \E t \in S : Size(s) = Size(t) /\ s.seq = t.seq
  BY <1>3, SizeAlike DEF Covered
<1>6. (\A s \in T : Size(s) \in outstanding) /\ \A i \in DOMAIN acks : \A s \in T : acks[i] # s.seq
  BY <1>4, <1>5
<1>7. QED
  BY <1>2, <1>6 DEF OutstandingFits

\* A drop moves a segment from its way to the resend queue and keeps the
\* invariant.
LEMMA PacketDropped ==
    ASSUME IInv, NEW i \in DOMAIN data, NetDrop(i)
    PROVE  IInv'
<1>1. data \in Seq(Segments) /\ resend \in Seq(Segments) /\ NoTwice(data) /\ NoTwice(resend)
  BY DEF IInv, TypeOK, OnePlace
<1>2. PICK p : p = data[i]
  OBVIOUS
<1>3. PICK D : D = ToSet(data)
  OBVIOUS
<1>4. PICK R : R = ToSet(resend)
  OBVIOUS
<1>5. PICK E : E = ToSet(data)'
  OBVIOUS
<1>6. /\ data' \in Seq(Segments) /\ NoTwice(data') /\ p \in Segments /\ p \in D
      /\ E \subseteq D /\ Apart(E, {p})
  <2>1. data' = RemoveAt(data, i)
    BY DEF NetDrop
  <2>2. QED
    BY <1>1, <1>2, <1>3, <1>5, <2>1, RemoveSet
<1>7. UNCHANGED <<next_in, reorder, incoming, recv_op, got, eof, acks>>
  BY DEF NetDrop, readerVars
<1>8. Apart(D, R)
  BY <1>3, <1>4 DEF IInv, OnePlace
<1>9. drops' \in 0..MaxDrops
  BY ConstantsAssumption DEF NetDrop, IInv, TypeOK
<1>10. CASE resend' = resend /\ UNCHANGED <<left, send_op, next_seq, cwnd, in_flight, outstanding, last_drop,
                                            written, closed, recover>>
            /\ (ctx' = ctx \/ ctx' = "undefined")
  <2>1. ToSet(resend)' = R
    BY <1>4, <1>10
  <2>2. Covered(ToSet(data)' \cup ToSet(resend)', ToSet(data) \cup ToSet(resend))
    <3>1. E \cup R \subseteq D \cup R
      BY <1>6
    <3>2. Covered(E \cup R, D \cup R)
      BY <3>1, SubsetCovered
    <3>3. QED
      BY <1>3, <1>4, <1>5, <2>1, <3>2
  <2>3. Apart(ToSet(data)', ToSet(resend)')
    <3>1. Apart(E, R)
      BY <1>6, <1>8 DEF Apart
    <3>2. QED
      BY <1>5, <2>1, <3>1
  <2>4. NoTwice(resend')
    BY <1>1, <1>10
  <2>5. OnePlace' /\ AirFits' /\ ReaderFits' /\ EofFits'
    BY <1>6, <1>7, <1>10, <2>2, <2>3, <2>4, SegmentsMoved
  <2>6. WriterFits'
    BY <1>10 DEF WriterFits, IInv
  <2>7. ~closed' => OutstandingFits'
    BY <1>7, <1>10, <2>2, OutstandingMoved DEF IInv
  <2>8. TypeOK'
    BY <1>6, <1>7, <1>9, <1>10 DEF IInv, TypeOK
  <2>9. QED
    BY <2>5, <2>6, <2>7, <2>8 DEF IInv
<1>11. CASE packet_dropped(p)
  <2>1. UNCHANGED <<ctx, left, send_op, next_seq, in_flight, outstanding, written, closed>>
    BY <1>11 DEF packet_dropped
  <2>2. PICK d \in Segments : d = Dropped(p) /\ Alike(d, p)
    BY <1>6, DroppedFacts DEF Alike
  <2>3. resend' = Append(resend, d)
    BY <1>11, <2>2 DEF packet_dropped, Dropped
  <2>4. Apart(R, {d}) /\ Apart(E, {d})
    <3>1. d.seq = p.seq
      BY <2>2 DEF Alike
    <3>2. QED
      BY <1>6, <1>8, <3>1 DEF Apart
  <2>5. resend' \in Seq(Segments) /\ ToSet(resend)' = R \cup {d} /\ NoTwice(resend')
    BY <1>1, <1>4, <2>3, <2>4, AppendSet
  <2>6. Covered(ToSet(data)' \cup ToSet(resend)', ToSet(data) \cup ToSet(resend))
    <3>1. \A s : Alike(s, s)
      BY DEF Alike
    <3>2. ASSUME NEW s \in E \cup (R \cup {d}) PROVE \E t \in D \cup R : Alike(s, t)
      BY <1>6, <2>2, <3>1
    <3>3. Covered(E \cup (R \cup {d}), D \cup R)
      BY <3>2 DEF Covered
    <3>4. QED
      BY <1>3, <1>4, <1>5, <2>5, <3>3
  <2>7. Apart(ToSet(data)', ToSet(resend)')
    <3>1. Apart(E, R \cup {d})
      BY <1>6, <1>8, <2>4 DEF Apart
    <3>2. QED
      BY <1>5, <2>5, <3>1
  <2>8. OnePlace' /\ AirFits' /\ ReaderFits' /\ EofFits'
    BY <1>6, <1>7, <2>1, <2>5, <2>6, <2>7, SegmentsMoved
  <2>9. cwnd' \in Nat /\ cwnd' >= Mss /\ last_drop' \in Nat /\ recover' \in Nat
    <3>1. Mss \in Nat /\ cwnd \in Nat /\ cwnd >= Mss /\ last_drop \in Nat /\ recover \in Nat /\ next_seq \in Nat /\ p.seq \in Nat
      BY <1>6, SegmentFacts, ConstantsAssumption DEF IInv, TypeOK, WriterFits
    <3>2. PICK h \in Nat : h = cwnd \div 2
      BY <3>1
    <3>3. \/ cwnd' = cwnd /\ last_drop' = last_drop /\ recover' = recover
          \/ cwnd' = (IF h < Mss THEN Mss ELSE h) /\ last_drop' = p.seq /\ recover' = next_seq
      BY <1>11, <3>2 DEF packet_dropped
    <3>4. CASE cwnd' = cwnd /\ last_drop' = last_drop /\ recover' = recover
      BY <3>1, <3>4
    <3>5. CASE cwnd' = (IF h < Mss THEN Mss ELSE h) /\ last_drop' = p.seq /\ recover' = next_seq
      BY <3>1, <3>2, <3>5
    <3>6. QED
      BY <3>3, <3>4, <3>5
  <2>10. WriterFits'
    BY <2>1, <2>9 DEF WriterFits, IInv
  <2>11. ~closed' => OutstandingFits'
    BY <1>7, <2>1, <2>6, OutstandingMoved DEF IInv
  <2>12. TypeOK'
    BY <1>6, <1>7, <1>9, <2>1, <2>5, <2>9 DEF IInv, TypeOK
  <2>13. QED
    BY <2>8, <2>10, <2>11, <2>12 DEF IInv
<1>12. QED
  BY <1>2, <1>10, <1>11 DEF NetDrop, writerVars

-----------------------------------------------------------------------------
(* The ack handler.                                                        *)

\* The segment that the next ack is for.
Acked == CHOOSE o \in outstanding : o.seq = Head(acks)

\* An ack finds its entry; without it the other acks still find theirs, and
\* m_bytes_in_flight covers what is left.
LEMMA AckedFacts ==
    ASSUME TypeOK, OutstandingFits, acks # <<>>
    PROVE  /\ Acked \in outstanding /\ Acked.seq = acks[1] /\ Acked.len \in Nat
           /\ in_flight - Acked.len \in Nat
           /\ Sized(outstanding \ {Acked})
           /\ in_flight - Acked.len >= Sum(outstanding \ {Acked})
           /\ acks' = Tail(acks) =>
                /\ acks' \in Seq(Nat)
                /\ \A i \in DOMAIN acks' : \E o \in outstanding \ {Acked} : o.seq = acks'[i]
                /\ \A i, j \in DOMAIN acks' : acks'[i] = acks'[j] => i = j
                /\ \A i \in DOMAIN acks' : \E j \in DOMAIN acks : acks'[i] = acks[j]
<1>1. acks \in Seq(Nat) /\ outstanding \subseteq [seq : Nat, len : Nat] /\ in_flight \in Nat
  BY DEF TypeOK
<1>2. 1 \in DOMAIN acks /\ Head(acks) = acks[1]
  BY <1>1, TailSeq
<1>3. Acked \in outstanding /\ Acked.seq = acks[1]
  BY <1>2 DEF OutstandingFits, Acked
<1>4. PICK a \in outstanding : a = Acked /\ a.seq = acks[1] /\ a.len \in Nat
  BY <1>1, <1>3
<1>5. Sized(outstanding) /\ in_flight >= Sum(outstanding)
  BY DEF OutstandingFits
<1>6. Sum(outstanding) = a.len + Sum(outstanding \ {a})
  BY <1>5, SumRemove
<1>7. Sized(outstanding \ {a}) /\ Sum(outstanding \ {a}) \in Nat
  <2>1. Sized(outstanding \ {a})
    BY <1>5, SubsetSized
  <2>2. QED
    BY <2>1, SumStep
<1>8. in_flight - a.len \in Nat /\ in_flight - a.len >= Sum(outstanding \ {a})
  BY <1>1, <1>4, <1>5, <1>6, <1>7
<1>9. ASSUME acks' = Tail(acks)
      PROVE  /\ acks' \in Seq(Nat)
             /\ \A i \in DOMAIN acks' : \E o \in outstanding \ {a} : o.seq = acks'[i]
             /\ \A i, j \in DOMAIN acks' : acks'[i] = acks'[j] => i = j
             /\ \A i \in DOMAIN acks' : \E j \in DOMAIN acks : acks'[i] = acks[j]
  <2>1. PICK t : t = Tail(acks)
    OBVIOUS
  <2>2. t \in Seq(Nat) /\ \A i \in DOMAIN t : i \in Nat /\ i+1 \in DOMAIN acks /\ t[i] = acks[i+1] /\ i+1 # 1
    BY <1>1, <2>1, TailSeq
  <2>3. \A i, j \in DOMAIN acks : acks[i] = acks[j] => i = j
    BY DEF OutstandingFits
  <2>4. ASSUME NEW i \in DOMAIN t PROVE \E o \in outstanding \ {a} : o.seq = t[i]
    <3>1. PICK j \in DOMAIN acks : t[i] = acks[j] /\ j # 1
      BY <2>2
    <3>2. PICK o \in outstanding : o.seq = acks[j]
      BY DEF OutstandingFits
    <3>3. acks[j] # acks[1]
      BY <1>2, <2>3, <3>1
    <3>4. o # a
      BY <1>4, <3>2, <3>3
    <3>5. QED
      BY <3>1, <3>2, <3>4
  <2>5. ASSUME NEW i \in DOMAIN t, NEW j \in DOMAIN t, t[i] = t[j] PROVE i = j
    <3>1. PICK x \in DOMAIN acks : x = i+1 /\ t[i] = acks[x]
      BY <2>2
    <3>2. PICK y \in DOMAIN acks : y = j+1 /\ t[j] = acks[y]
      BY <2>2
    <3>3. x = y
      BY <2>3, <2>5, <3>1, <3>2
    <3>4. QED
      BY <2>2, <3>1, <3>2, <3>3
  <2>6. \A i \in DOMAIN t : \E j \in DOMAIN acks : t[i] = acks[j]
    BY <2>2
  <2>7. QED
    BY <1>9, <2>1, <2>2, <2>4, <2>5, <2>6
<1>10. QED
  BY <1>3, <1>4, <1>7, <1>8, <1>9

\* Halving the window.
LEMMA DivFacts ==
    ASSUME NEW a \in Nat, NEW b \in Nat \ {0}
    PROVE  a \div b \in Nat
OBVIOUS

\* The ack handler, with resends and window, keeps the invariant.
LEMMA AckReceived ==
    ASSUME IInv, ReceiveAck
    PROVE  IInv'
<1>1. ctx = "idle" /\ acks # <<>> /\ ~closed /\ acks' = Tail(acks) /\ TypeOK /\ OutstandingFits
  BY DEF ReceiveAck, IInv
<1>2. UNCHANGED <<next_seq, last_drop, written, closed, recover, drops, next_in, reorder, incoming, recv_op, got, eof>>
  BY DEF ReceiveAck, readerVars
<1>3. PICK a : a = Acked
  OBVIOUS
<1>4. PICK k \in 0..Len(resend) :
        /\ in_flight' = (in_flight - a.len) + TotalLen(SubSeq(resend, 1, k))
        /\ outstanding' = (outstanding \ {a}) \cup {Size(resend[j]) : j \in 1..k}
        /\ data' = data \o SubSeq(resend, 1, k)
        /\ resend' = SubSeq(resend, k+1, Len(resend))
        /\ cwnd' = cwnd + (Mss * a.len) \div cwnd
        /\ WakeupWriter \/ UNCHANGED <<ctx, left, send_op>>
  BY <1>3 DEF ReceiveAck, Acked, Size
<1>5. /\ a \in outstanding /\ a.seq = acks[1] /\ a.len \in Nat /\ in_flight - a.len \in Nat
      /\ Sized(outstanding \ {a}) /\ in_flight - a.len >= Sum(outstanding \ {a})
      /\ acks' \in Seq(Nat)
      /\ \A i \in DOMAIN acks' : \E o \in outstanding \ {a} : o.seq = acks'[i]
      /\ \A i, j \in DOMAIN acks' : acks'[i] = acks'[j] => i = j
      /\ \A i \in DOMAIN acks' : \E j \in DOMAIN acks : acks'[i] = acks[j]
  BY <1>1, <1>3, AckedFacts
<1>6. /\ data \in Seq(Segments) /\ resend \in Seq(Segments) /\ NoTwice(data) /\ NoTwice(resend)
      /\ Apart(ToSet(data), ToSet(resend))
  BY DEF IInv, TypeOK, OnePlace
<1>7. /\ data' \in Seq(Segments) /\ resend' \in Seq(Segments) /\ NoTwice(data') /\ NoTwice(resend')
      /\ ToSet(data') \cup ToSet(resend') = ToSet(data) \cup ToSet(resend)
      /\ Apart(ToSet(data'), ToSet(resend'))
  BY <1>4, <1>6, MoveSet
<1>8. PICK S : S = ToSet(data) \cup ToSet(resend)
  OBVIOUS
<1>9. ToSet(data)' \cup ToSet(resend)' = S
  BY <1>7, <1>8
<1>10. Covered(ToSet(data)' \cup ToSet(resend)', ToSet(data) \cup ToSet(resend))
  <2>1. Covered(S, S)
    BY SubsetCovered
  <2>2. QED
    BY <1>8, <1>9, <2>1
<1>11. OnePlace' /\ AirFits' /\ ReaderFits' /\ EofFits'
  <2>1. NoTwice(data') /\ NoTwice(resend') /\ Apart(ToSet(data)', ToSet(resend)')
    BY <1>7
  <2>2. QED
    BY <1>2, <1>10, <2>1, SegmentsMoved
<1>12. \A i \in DOMAIN acks : \A s \in S : acks[i] # s.seq
  BY <1>1, <1>8 DEF OutstandingFits
<1>13. \A s \in S : Size(s) \in outstanding \ {a}
  <2>1. 1 \in DOMAIN acks
    BY <1>1, TailSeq DEF TypeOK
  <2>2. S \subseteq Segments
    BY <1>1, <1>8, AirTyped
  <2>3. ASSUME NEW s \in S PROVE Size(s) \in outstanding \ {a}
    <3>1. Size(s) \in outstanding
      BY <1>1, <1>8 DEF OutstandingFits
    <3>2. Size(s).seq = s.seq
      BY <2>2, SizeFacts
    <3>3. Size(s) # a
      BY <1>5, <1>12, <2>1, <3>2
    <3>4. QED
      BY <3>1, <3>3
  <2>4. QED
    BY <2>3
<1>14. outstanding' = outstanding \ {a}
  <2>1. ASSUME NEW j \in 1..k PROVE Size(resend[j]) \in outstanding \ {a}
    <3>1. j \in DOMAIN resend
      BY <1>6, ElementFacts
    <3>2. resend[j] \in S
      BY <1>6, <1>8, <3>1, ToSetFacts
    <3>3. QED
      BY <1>13, <3>2
  <2>2. QED
    BY <1>4, <2>1
<1>15. PICK m \in Nat : in_flight' = (in_flight - a.len) + m
  <2>1. PICK p : p = SubSeq(resend, 1, k)
    OBVIOUS
  <2>2. p \in Seq(Segments)
    BY <1>6, <2>1, SplitSeq
  <2>3. TotalLen(p) \in Nat
    BY <2>2, TotalLenFacts
  <2>4. QED
    BY <1>4, <2>1, <2>3
<1>16. in_flight' \in Nat /\ in_flight' >= Sum(outstanding')
  <2>1. Sum(outstanding \ {a}) \in Nat
    BY <1>5, SumStep
  <2>2. QED
    BY <1>5, <1>14, <1>15, <2>1
<1>17. OutstandingFits'
  <2>1. OneBySeq(outstanding')
    BY <1>1, <1>14 DEF OutstandingFits, OneBySeq
  <2>2. \A o \in outstanding' : o.seq < next_seq'
    BY <1>1, <1>2, <1>14 DEF OutstandingFits
  <2>3. \A s \in S : Size(s) \in outstanding'
    BY <1>13, <1>14
  <2>4. \A i \in DOMAIN acks' : \A s \in S : acks'[i] # s.seq
    BY <1>5, <1>12
  <2>5. QED
    BY <1>5, <1>9, <1>14, <1>16, <2>1, <2>2, <2>3, <2>4 DEF OutstandingFits
<1>18. cwnd' \in Nat /\ cwnd' >= Mss
  <2>1. Mss \in Nat \ {0} /\ cwnd \in Nat /\ cwnd >= Mss
    BY ConstantsAssumption DEF IInv, TypeOK, WriterFits
  <2>2. PICK x \in Nat : x = Mss * a.len
    BY <1>5, <2>1
  <2>3. cwnd \in Nat \ {0}
    BY <2>1
  <2>4. PICK y \in Nat : y = x \div cwnd
    BY <2>3, DivFacts
  <2>5. cwnd' = cwnd + y
    BY <1>4, <2>2, <2>4
  <2>6. QED
    BY <2>1, <2>5
<1>19. WriterFits' /\ ctx' \in {"idle", "writing"} /\ left' \in Nat /\ send_op' \in Ops(Writes)
  <2>0. send_op \in Ops(Writes) /\ left \in Nat /\ Writes \subseteq Nat
    BY ConstantsAssumption DEF IInv, TypeOK
  <2>1. CASE UNCHANGED <<ctx, left, send_op>>
    BY <1>1, <1>2, <1>18, <2>0, <2>1 DEF WriterFits, IInv
  <2>2. CASE WakeupWriter /\ send_op.op = "some"
    <3>1. ctx' = "writing" /\ left' = send_op.n /\ send_op' = NoOp
      BY <2>2 DEF WakeupWriter
    <3>2. send_op.n \in Nat
      BY <2>0, <2>2, OpFacts
    <3>3. written + send_op.n =< MaxBytes
      BY <2>2 DEF WriterFits, IInv
    <3>4. QED
      BY <1>1, <1>2, <1>18, <3>1, <3>2, <3>3, NoOpFacts DEF WriterFits
  <2>3. CASE WakeupWriter /\ send_op.op # "some"
    <3>1. ctx' = ctx /\ left' = left /\ send_op' = NoOp
      BY <2>3 DEF WakeupWriter
    <3>2. QED
      BY <1>1, <1>2, <1>18, <2>0, <3>1, NoOpFacts DEF WriterFits
  <2>4. QED
    BY <1>4, <2>1, <2>2, <2>3
<1>20. TypeOK'
  <2>1. outstanding' \subseteq [seq : Nat, len : Nat]
    BY <1>14 DEF IInv, TypeOK
  <2>2. QED
    BY <1>2, <1>5, <1>7, <1>16, <1>18, <1>19, <2>1 DEF IInv, TypeOK
<1>21. QED
  BY <1>11, <1>17, <1>19, <1>20 DEF IInv

-----------------------------------------------------------------------------
(* The steps of the reader.                                                *)

\* Only bytes that were written are read.
LEMMA GotTyped ==
    ASSUME NEW g, NEW l \in Nat, g = Bytes(0, l), NEW w \in Nat, l =< w, w =< MaxBytes
    PROVE  g \in Seq(1..MaxBytes)
<1>1. MaxBytes \in Nat
  BY ConstantsAssumption
<1>2. g = [j \in 1..l |-> 0 + j]
  BY DEF Bytes
<1>3. \A j \in 1..l : 0 + j \in 1..MaxBytes
  BY <1>1
<1>4. g \in [1..l -> 1..MaxBytes]
  BY <1>2, <1>3
<1>5. QED
  BY <1>4, SeqDef

\* A read that finds data keeps the invariant.
LEMMA ReadSome ==
    ASSUME IInv, NEW n \in Reads, async_read_some(n), incoming # <<>>
    PROVE  IInv'
<1>1. /\ recv_op' = NoOp /\ ReadFrom(incoming, n) /\ ~eof
      /\ UNCHANGED <<ctx, left, send_op, next_seq, cwnd, in_flight, outstanding, resend, last_drop, written, closed, recover>>
      /\ UNCHANGED <<next_in, reorder, data, acks, drops>>
  BY DEF async_read_some, writerVars
<1>2. /\ n \in Nat /\ written \in Nat /\ Len(got) \in Nat /\ incoming \in Seq(Segments) /\ written =< MaxBytes
      /\ got = Bytes(0, Len(got)) /\ QueueFits(incoming, Len(got), written)
  BY ConstantsAssumption, AirTyped DEF IInv, TypeOK, ReaderFits
<1>3. /\ incoming' \in Seq(Segments) /\ QueueFits(incoming', Len(got'), written)
      /\ EndOf(incoming', Len(got')) = EndOf(incoming, Len(got))
      /\ NoEnd(ToSet(incoming)) => NoEnd(ToSet(incoming'))
      /\ got' = Bytes(0, Len(got')) /\ Len(got') \in Nat /\ Len(got') =< written
      /\ (eof' = TRUE /\ ~NoEnd(ToSet(incoming))) \/ UNCHANGED eof
  BY <1>1, <1>2, ReadStep
<1>4. Received' = Received
  BY <1>3 DEF Received
<1>5. AirFits'
  <2>1. Air' = Air
    BY <1>1 DEF Air
  <2>2. Covered(Air', Air)
    BY <2>1, SubsetCovered
  <2>3. QED
    BY <1>1, <1>4, <2>2, AirKept DEF IInv
<1>6. ReaderFits'
  <2>1. /\ ~closed => NoEnd(ToSet(incoming))
        /\ ~closed => next_in =< next_seq /\ (next_in = next_seq => Received = written)
    BY DEF IInv, ReaderFits
  <2>2. QED
    BY <1>1, <1>3, <1>4, <2>1 DEF ReaderFits
<1>7. EofFits'
  <2>1. ~NoEnd(ToSet(incoming)) => closed
    BY DEF IInv, ReaderFits
  <2>2. QED
    BY <1>1, <1>3, <2>1 DEF EofFits
<1>8. OnePlace' /\ WriterFits' /\ (~closed' => OutstandingFits')
  BY <1>1, PlacesKept, WriterKept, OutstandingKept DEF IInv
<1>9. TypeOK'
  <2>1. got' \in Seq(1..MaxBytes)
    BY <1>2, <1>3, GotTyped
  <2>2. eof' \in BOOLEAN
    BY <1>3 DEF IInv, TypeOK
  <2>3. QED
    BY <1>1, <1>3, <2>1, <2>2, NoOpFacts DEF IInv, TypeOK
<1>10. QED
  BY <1>5, <1>6, <1>7, <1>8, <1>9 DEF IInv

\* A read, with or without data, keeps the invariant.
LEMMA AsyncReadSome ==
    ASSUME IInv, NEW n \in Reads, async_read_some(n)
    PROVE  IInv'
<1>1. CASE incoming # <<>>
  BY <1>1, ReadSome
<1>2. CASE incoming = <<>>
  <2>1. recv_op' = [op |-> "some", n |-> n] /\ UNCHANGED <<got, eof, incoming>> /\ ~eof
    BY <1>2 DEF async_read_some
  <2>2. recv_op' \in Ops(Reads)
    BY <2>1, SomeOpFacts
  <2>3. EofFits'
    BY <2>1 DEF EofFits
  <2>4. QED
    BY <2>1, <2>2, <2>3, ReadOpStep DEF async_read_some
<1>3. QED
  BY <1>1, <1>2

\* The segment that arrives is acknowledged, once.
LEMMA AckSent ==
    ASSUME IInv, ~closed, data # <<>>, data' = Tail(data), acks' = Append(acks, Head(data).seq),
           UNCHANGED <<outstanding, in_flight, next_seq, resend>>
    PROVE  OutstandingFits'
<1>1. OutstandingFits /\ data \in Seq(Segments) /\ acks \in Seq(Nat) /\ NoTwice(data) /\ Apart(ToSet(data), ToSet(resend))
  BY DEF IInv, TypeOK, OnePlace
<1>2. PICK h : h = Head(data)
  OBVIOUS
<1>3. PICK D : D = ToSet(data)
  OBVIOUS
<1>4. PICK E : E = ToSet(Tail(data))
  OBVIOUS
<1>5. h \in Segments /\ h \in D /\ D = E \cup {h} /\ Apart(E, {h})
  BY <1>1, <1>2, <1>3, <1>4, TailSet
<1>6. PICK R : R = ToSet(resend)
  OBVIOUS
<1>7. ToSet(data)' = E /\ ToSet(resend)' = R
  BY <1>4, <1>6
<1>8. PICK n \in Nat : n = Len(acks)
  BY <1>1, LenProperties
<1>9. PICK x : x = Append(acks, h.seq)
  OBVIOUS
<1>10. h.seq \in Nat
  BY <1>5, SegmentFacts
<1>11. /\ DOMAIN acks = 1..n /\ n+1 \in DOMAIN x /\ x[n+1] = h.seq /\ n+1 \notin DOMAIN acks
       /\ \A i \in DOMAIN acks : i \in DOMAIN x /\ x[i] = acks[i]
       /\ \A i \in DOMAIN x : i \in DOMAIN acks \/ i = n+1
  BY <1>1, <1>8, <1>9, <1>10, AppendSeq
<1>12. acks' = x
  BY <1>2, <1>9
<1>13. \A s \in D \cup R : Size(s) \in outstanding
  BY <1>1, <1>3, <1>6 DEF OutstandingFits
<1>14. \A i \in DOMAIN acks : \A s \in D \cup R : acks[i] # s.seq
  BY <1>1, <1>3, <1>6 DEF OutstandingFits
<1>15. \A i \in DOMAIN x : \E o \in outstanding : o.seq = x[i]
  <2>1. \A i \in DOMAIN acks : \E o \in outstanding : o.seq = acks[i]
    BY <1>1 DEF OutstandingFits
  <2>2. Size(h) \in outstanding /\ Size(h).seq = h.seq
    BY <1>5, <1>13, SizeFacts
  <2>3. QED
    BY <1>11, <2>1, <2>2
<1>16. \A i \in DOMAIN acks : acks[i] # h.seq
  BY <1>5, <1>14
<1>17. \A i, j \in DOMAIN x : x[i] = x[j] => i = j
  <2>1. \A i, j \in DOMAIN acks : acks[i] = acks[j] => i = j
    BY <1>1 DEF OutstandingFits
  <2>2. QED
    BY <1>11, <1>16, <2>1
<1>18. \A s \in E \cup R : s.seq # h.seq
  BY <1>1, <1>3, <1>5, <1>6 DEF Apart
<1>19. \A i \in DOMAIN x : \A s \in E \cup R : x[i] # s.seq
  BY <1>5, <1>11, <1>14, <1>18
<1>20. \A s \in E \cup R : Size(s) \in outstanding
  BY <1>5, <1>13
<1>21. Sized(outstanding) /\ in_flight >= Sum(outstanding) /\ OneBySeq(outstanding) /\ \A o \in outstanding : o.seq < next_seq
  BY <1>1 DEF OutstandingFits
<1>22. /\ \A i \in DOMAIN acks' : \E o \in outstanding : o.seq = acks'[i]
       /\ \A i, j \in DOMAIN acks' : acks'[i] = acks'[j] => i = j
       /\ \A i \in DOMAIN acks' : \A s \in E \cup R : acks'[i] # s.seq
  BY <1>12, <1>15, <1>17, <1>19
<1>23. QED
  BY <1>7, <1>20, <1>21, <1>22 DEF OutstandingFits

\* A segment that came too early waits in the reorder buffer.
LEMMA SegmentEarly ==
    ASSUME IInv, ReceiveSegment, Head(data).seq # next_in
    PROVE  IInv'
<1>1. /\ data # <<>> /\ data' = Tail(data) /\ acks' = Append(acks, Head(data).seq)
      /\ reorder' = reorder \cup {Head(data)}
      /\ UNCHANGED <<next_in, incoming, recv_op, got, eof, drops>>
      /\ UNCHANGED <<ctx, left, send_op, next_seq, cwnd, in_flight, outstanding, resend, last_drop, written, closed, recover>>
  BY DEF ReceiveSegment, writerVars
<1>2. data \in Seq(Segments) /\ acks \in Seq(Nat) /\ NoTwice(data) /\ reorder \subseteq Segments
  BY DEF IInv, TypeOK, OnePlace
<1>3. PICK h : h = Head(data)
  OBVIOUS
<1>4. PICK D : D = ToSet(data)
  OBVIOUS
<1>5. PICK E : E = ToSet(Tail(data))
  OBVIOUS
<1>6. PICK R : R = ToSet(resend)
  OBVIOUS
<1>7. h \in Segments /\ h \in D /\ D = E \cup {h} /\ Apart(E, {h}) /\ data' \in Seq(Segments) /\ NoTwice(data')
  BY <1>1, <1>2, <1>3, <1>4, <1>5, TailSet
<1>8. ToSet(data)' = E /\ ToSet(resend)' = R /\ reorder' = reorder \cup {h}
  BY <1>1, <1>3, <1>5, <1>6
<1>9. Air' = Air
  BY <1>4, <1>6, <1>7, <1>8 DEF Air
<1>10. AirFits'
  <2>1. Covered(Air', Air)
    BY <1>9, SubsetCovered
  <2>2. Received' = Received
    BY <1>1 DEF Received
  <2>3. QED
    BY <1>1, <2>1, <2>2, AirKept DEF IInv
<1>11. OnePlace'
  <2>1. Apart(D, R) /\ Apart(D, reorder) /\ Apart(R, reorder) /\ OneBySeq(reorder) /\ IsFiniteSet(reorder)
    BY <1>4, <1>6 DEF IInv, OnePlace
  <2>2. Apart(E, R) /\ Apart(E, reorder \cup {h}) /\ Apart(R, reorder \cup {h})
    BY <1>7, <2>1 DEF Apart
  <2>3. OneBySeq(reorder \cup {h})
    BY <1>7, <2>1 DEF Apart, OneBySeq
  <2>4. IsFiniteSet(reorder \cup {h})
    BY <2>1, FS_AddElement
  <2>5. NoTwice(resend')
    BY <1>1 DEF IInv, OnePlace
  <2>6. QED
    BY <1>7, <1>8, <2>2, <2>3, <2>4, <2>5 DEF OnePlace
<1>12. ReaderFits' /\ EofFits' /\ WriterFits'
  BY <1>1, ReaderKept, EofKept, WriterKept DEF IInv
<1>13. ~closed' => OutstandingFits'
  BY <1>1, AckSent
<1>14. TypeOK'
  <2>1. acks' \in Seq(Nat)
    <3>1. h.seq \in Nat
      BY <1>7, SegmentFacts
    <3>2. QED
      BY <1>1, <1>2, <1>3, <3>1, AppendSeq
  <2>2. reorder' \subseteq Segments
    BY <1>2, <1>7, <1>8
  <2>3. QED
    BY <1>1, <1>7, <2>1, <2>2 DEF IInv, TypeOK
<1>15. QED
  BY <1>10, <1>11, <1>12, <1>13, <1>14 DEF IInv

\* maybe_wakeup_reader() leaves or reads the queue q.
LEMMA WakeupFacts ==
    ASSUME NEW q \in Seq(Segments), q # <<>>, maybe_wakeup_reader(q), recv_op \in Ops(Reads), EofFits,
           written \in Nat, Len(got) \in Nat, got = Bytes(0, Len(got)), QueueFits(q, Len(got), written),
           ~closed => NoEnd(ToSet(q)), eof \in BOOLEAN, UNCHANGED closed
    PROVE  /\ incoming' \in Seq(Segments) /\ QueueFits(incoming', Len(got'), written)
           /\ EndOf(incoming', Len(got')) = EndOf(q, Len(got))
           /\ NoEnd(ToSet(q)) => NoEnd(ToSet(incoming'))
           /\ got' = Bytes(0, Len(got')) /\ Len(got') \in Nat /\ (Len(got') =< written \/ got' = got)
           /\ recv_op' \in Ops(Reads) /\ eof' \in BOOLEAN /\ EofFits'
<1>1. CASE incoming' = q /\ UNCHANGED <<got, eof>> /\ (recv_op' = recv_op \/ recv_op' = NoOp)
  <2>1. EofFits'
    BY <1>1 DEF EofFits
  <2>2. recv_op' \in Ops(Reads)
    BY <1>1, NoOpFacts
  <2>3. QED
    BY <1>1, <2>1, <2>2
<1>2. CASE recv_op # NoOp /\ recv_op' = NoOp /\ recv_op.op = "some" /\ ReadFrom(q, recv_op.n)
  <2>1. PICK n \in Nat : n = recv_op.n
    BY <1>2, OpFacts, ConstantsAssumption
  <2>2. ReadFrom(q, n)
    BY <1>2, <2>1
  <2>3. /\ incoming' \in Seq(Segments) /\ QueueFits(incoming', Len(got'), written)
        /\ EndOf(incoming', Len(got')) = EndOf(q, Len(got))
        /\ NoEnd(ToSet(q)) => NoEnd(ToSet(incoming'))
        /\ got' = Bytes(0, Len(got')) /\ Len(got') \in Nat /\ Len(got') =< written
        /\ (eof' = TRUE /\ ~NoEnd(ToSet(q))) \/ UNCHANGED eof
    BY <2>2, ReadStep
  <2>4. EofFits'
    BY <1>2, <2>3 DEF EofFits
  <2>5. recv_op' \in Ops(Reads) /\ eof' \in BOOLEAN
    BY <1>2, <2>3, NoOpFacts
  <2>6. QED
    BY <2>3, <2>4, <2>5
<1>3. recv_op = NoOp \/ recv_op.op = "wait" \/ recv_op.op = "some"
  BY DEF Ops
<1>4. QED
  BY <1>1, <1>2, <1>3 DEF maybe_wakeup_reader

\* The queue after the segment the reader expects has come.
Queued == Append(incoming, Head(data)) \o Consecutive(next_in, reorder)

\* The expected segment with the run that was waiting for it continues the
\* readable queue, and the next number expected is the one behind the run.
LEMMA QueuedFits ==
    ASSUME IInv, data # <<>>, Head(data).seq = next_in
    PROVE  /\ Queued \in Seq(Segments) /\ Queued # <<>> /\ QueueFits(Queued, Len(got), written)
           /\ ~closed => NoEnd(ToSet(Queued))
           /\ Len(Consecutive(next_in, reorder)) \in Nat
           /\ data' = Tail(data) /\ resend' = resend
                /\ reorder' = reorder \ ToSet(Consecutive(next_in, reorder)) =>
                AfterIn(Air', next_in + 1 + Len(Consecutive(next_in, reorder)), EndOf(Queued, Len(got)))
           /\ ~closed =>
                /\ next_in + 1 + Len(Consecutive(next_in, reorder)) =< next_seq
                /\ next_in + 1 + Len(Consecutive(next_in, reorder)) = next_seq => EndOf(Queued, Len(got)) = written
<1>1. PICK A : A = Air
  OBVIOUS
<1>2. /\ A \subseteq Segments /\ next_in \in Nat /\ incoming \in Seq(Segments) /\ Len(got) \in Nat /\ data \in Seq(Segments)
      /\ reorder \subseteq Segments /\ NoTwice(data) /\ IsFiniteSet(reorder) /\ written \in Nat /\ next_seq \in Nat
  BY <1>1, AirTyped DEF IInv, TypeOK, OnePlace
<1>3. PICK h : h = Head(data)
  OBVIOUS
<1>4. PICK D : D = ToSet(data)
  OBVIOUS
<1>5. PICK E : E = ToSet(Tail(data))
  OBVIOUS
<1>6. PICK R : R = ToSet(resend)
  OBVIOUS
<1>7. h \in D /\ D = E \cup {h} /\ Apart(E, {h}) /\ h.seq = next_in
  BY <1>2, <1>3, <1>4, <1>5, TailSet
<1>8. A = D \cup R \cup reorder
  BY <1>1, <1>4, <1>6 DEF Air
<1>9. PICK next : next = Consecutive(next_in, reorder)
  OBVIOUS
<1>10. /\ next \in Seq(Segments)
       /\ \A i \in DOMAIN next : next[i] \in reorder /\ next[i].seq = next_in + i
  BY <1>2, <1>9, ConsecutiveFacts, FS_CardinalityType
<1>11. PICK K \in Nat : K = Len(next) /\ DOMAIN next = 1..K
  BY <1>10, ElementFacts
<1>12. PICK L \in Nat : L = Len(got)
  BY <1>2
<1>13. /\ Follow(A) /\ AfterIn(A, next_in, EndOf(incoming, L)) /\ Within(A, written) /\ EndsAt(A, written)
       /\ Chained(incoming, L) /\ QueueFits(incoming, L, written)
  BY <1>1, <1>12 DEF IInv, AirFits, ReaderFits, Received, QueueFits
<1>14. PICK q : q = Queued
  OBVIOUS
<1>15. q = Append(incoming, h) \o next
  BY <1>3, <1>9, <1>14 DEF Queued
<1>16. h \in A /\ \A i \in DOMAIN next : next[i] \in A /\ next[i].seq = next_in + i
  BY <1>7, <1>8, <1>10
<1>17. /\ q \in Seq(Segments) /\ q # <<>> /\ Chained(q, L) /\ ToSet(q) \subseteq ToSet(incoming) \cup A
       /\ \E l \in A : l.seq = next_in + Len(next) /\ EndOf(q, L) = l.off + l.len
  <2>1. PICK n \in Nat : n = next_in
    BY <1>2
  <2>2. PICK p \in Seq(Segments) : p = incoming
    BY <1>2
  <2>3. /\ h.seq = n /\ Chained(p, L) /\ AfterIn(A, n, EndOf(p, L)) /\ q = Append(p, h) \o next
        /\ Numbered(next, n, A)
    BY <1>7, <1>13, <1>15, <1>16, <2>1, <2>2 DEF Numbered
  <2>4. A \subseteq Segments /\ h \in A /\ Follow(A) /\ next \in Seq(Segments)
    BY <1>2, <1>10, <1>13, <1>16
  <2>5. Takes(A, h, n, p, L, next, q)
    BY <2>3, <2>4 DEF Takes
  <2>6. Taken(A, n, p, L, next, q)
    BY <2>5, TakeFits
  <2>7. QED
    BY <2>1, <2>2, <2>6 DEF Taken
<1>18. PICK l \in A : l.seq = next_in + K /\ EndOf(q, L) = l.off + l.len
  BY <1>11, <1>17
<1>19. QueueFits(q, L, written)
  <2>1. EndOf(q, L) =< written
    BY <1>13, <1>18 DEF Within
  <2>2. Within(ToSet(q), written) /\ EndsAt(ToSet(q), written)
    BY <1>13, <1>17 DEF QueueFits, Within, EndsAt
  <2>3. QED
    BY <1>17, <2>1, <2>2 DEF QueueFits
<1>20. ~closed => NoEnd(ToSet(q))
  <2>1. ~closed => NoEnd(A) /\ NoEnd(ToSet(incoming))
    BY <1>1 DEF IInv, AirFits, ReaderFits
  <2>2. QED
    BY <1>17, <2>1 DEF NoEnd
<1>21. ASSUME ~closed
       PROVE next_in + 1 + K =< next_seq /\ (next_in + 1 + K = next_seq => EndOf(q, L) = written)
  <2>1. BeforeOut(A, next_seq, written)
    BY <1>1, <1>21 DEF IInv, AirFits
  <2>2. l.seq < next_seq /\ (l.seq + 1 = next_seq => l.off + l.len = written)
    BY <2>1 DEF BeforeOut
  <2>3. l.seq + 1 = next_in + 1 + K
    BY <1>2, <1>18
  <2>4. QED
    BY <1>2, <1>18, <2>2, <2>3
<1>22. ASSUME data' = Tail(data), resend' = resend, reorder' = reorder \ ToSet(next)
       PROVE  AfterIn(Air', next_in + 1 + K, EndOf(q, L))
  <2>1. PICK B : B = Air'
    OBVIOUS
  <2>2. B = E \cup R \cup (reorder \ ToSet(next))
    BY <1>5, <1>6, <1>22, <2>1 DEF Air
  <2>3. B \subseteq A
    BY <1>7, <1>8, <2>2
  <2>4. Apart(D, R) /\ Apart(D, reorder) /\ Apart(R, reorder) /\ OneBySeq(reorder)
    BY <1>4, <1>6 DEF IInv, OnePlace
  <2>5. \A s \in B : s.seq # next_in
    BY <1>7, <2>2, <2>4 DEF Apart
  <2>6. ASSUME NEW i \in 1..K, NEW s \in B PROVE s.seq # next_in + i
    <3>1. PICK x \in reorder : x = next[i] /\ x.seq = next_in + i
      BY <1>10, <1>11
    <3>2. x \in ToSet(next)
      BY <1>10, <1>11, <3>1, ToSetFacts
    <3>3. s \in reorder => s # x
      BY <2>2, <2>4, <3>2, <1>7 DEF Apart
    <3>4. s.seq # x.seq
      BY <1>7, <2>2, <2>4, <3>2, <3>3 DEF Apart, OneBySeq
    <3>5. QED
      BY <3>1, <3>4
  <2>7. AfterIn(B, next_in + 1 + K, l.off + l.len)
    BY <1>2, <1>13, <1>18, <2>3, <2>5, <2>6, LeftFits
  <2>8. QED
    BY <1>18, <2>1, <2>7
<1>23. QED
  BY <1>9, <1>11, <1>12, <1>14, <1>17, <1>19, <1>20, <1>21, <1>22

\* A segment in order is handed to the reader, with those that waited for it.
LEMMA SegmentInOrder ==
    ASSUME IInv, ReceiveSegment, Head(data).seq = next_in
    PROVE  IInv'
<1>1. PICK next : next = Consecutive(next_in, reorder)
  OBVIOUS
<1>2. /\ data # <<>> /\ data' = Tail(data) /\ acks' = Append(acks, Head(data).seq)
      /\ next_in' = next_in + 1 + Len(next)
      /\ reorder' = reorder \ ToSet(next)
      /\ maybe_wakeup_reader(Queued) /\ drops' = drops
      /\ UNCHANGED <<ctx, left, send_op, next_seq, cwnd, in_flight, outstanding, resend, last_drop, written, closed, recover>>
  BY <1>1 DEF ReceiveSegment, writerVars, Queued
<1>3. /\ Queued \in Seq(Segments) /\ Queued # <<>> /\ QueueFits(Queued, Len(got), written)
      /\ ~closed => NoEnd(ToSet(Queued))
      /\ Len(next) \in Nat
      /\ AfterIn(Air', next_in', EndOf(Queued, Len(got)))
      /\ ~closed => next_in' =< next_seq /\ (next_in' = next_seq => EndOf(Queued, Len(got)) = written)
  BY <1>1, <1>2, QueuedFits
<1>4. /\ recv_op \in Ops(Reads) /\ EofFits /\ written \in Nat /\ Len(got) \in Nat /\ got = Bytes(0, Len(got))
      /\ eof \in BOOLEAN /\ next_in \in Nat
  BY AirTyped DEF IInv, TypeOK, ReaderFits
<1>5. /\ incoming' \in Seq(Segments) /\ QueueFits(incoming', Len(got'), written)
      /\ EndOf(incoming', Len(got')) = EndOf(Queued, Len(got))
      /\ NoEnd(ToSet(Queued)) => NoEnd(ToSet(incoming'))
      /\ got' = Bytes(0, Len(got')) /\ Len(got') \in Nat /\ (Len(got') =< written \/ got' = got)
      /\ recv_op' \in Ops(Reads) /\ eof' \in BOOLEAN /\ EofFits'
  BY <1>2, <1>3, <1>4, WakeupFacts
<1>6. Received' = EndOf(Queued, Len(got))
  BY <1>5 DEF Received
<1>7. ReaderFits'
  BY <1>2, <1>3, <1>5, <1>6 DEF ReaderFits
<1>8. PICK E : E = ToSet(Tail(data))
  OBVIOUS
<1>9. E \subseteq ToSet(data) /\ data' \in Seq(Segments) /\ NoTwice(data') /\ Head(data) \in Segments
  <2>1. data \in Seq(Segments) /\ NoTwice(data)
    BY DEF IInv, TypeOK, OnePlace
  <2>2. QED
    BY <1>2, <1>8, <2>1, TailSet
<1>10. ToSet(data)' = E /\ ToSet(resend)' = ToSet(resend) /\ reorder' \subseteq reorder
  BY <1>2, <1>8
<1>11. OnePlace'
  <2>1. OneBySeq(reorder') /\ IsFiniteSet(reorder')
    BY <1>10, FS_Subset DEF IInv, OnePlace, OneBySeq
  <2>2. /\ Apart(E, ToSet(resend)) /\ Apart(E, reorder') /\ Apart(ToSet(resend), reorder')
    BY <1>9, <1>10 DEF IInv, OnePlace, Apart
  <2>3. NoTwice(resend')
    BY <1>2 DEF IInv, OnePlace
  <2>4. QED
    BY <1>9, <1>10, <2>1, <2>2, <2>3 DEF OnePlace
<1>12. AirFits'
  <2>1. Air' \subseteq Air
    BY <1>9, <1>10 DEF Air
  <2>2. PICK A : A = Air
    OBVIOUS
  <2>3. PICK B : B = Air'
    OBVIOUS
  <2>4. Covered(B, A)
    BY <2>1, <2>2, <2>3, SubsetCovered
  <2>5. Follow(A) /\ Within(A, written) /\ EndsAt(A, written) /\ (~closed => BeforeOut(A, next_seq, written) /\ NoEnd(A))
    BY <2>2 DEF IInv, AirFits
  <2>6. Follow(B) /\ Within(B, written) /\ EndsAt(B, written) /\ (~closed => BeforeOut(B, next_seq, written) /\ NoEnd(B))
    BY <2>4, <2>5, CoveredFits, Zenon
  <2>7. AfterIn(B, next_in', Received')
    BY <1>3, <1>6, <2>3
  <2>8. QED
    BY <1>2, <2>3, <2>6, <2>7 DEF AirFits
<1>13. WriterFits' /\ (~closed' => OutstandingFits')
  BY <1>2, WriterKept, AckSent DEF IInv
<1>14. TypeOK'
  <2>1. acks' \in Seq(Nat)
    <3>1. PICK n \in Nat : n = Head(data).seq
      BY <1>9, SegmentFacts
    <3>2. acks \in Seq(Nat)
      BY DEF IInv, TypeOK
    <3>3. QED
      BY <1>2, <3>1, <3>2, AppendSeq
  <2>2. got' \in Seq(1..MaxBytes)
    <3>1. written =< MaxBytes /\ got \in Seq(1..MaxBytes)
      BY DEF IInv, TypeOK
    <3>2. QED
      BY <1>4, <1>5, <3>1, GotTyped
  <2>3. next_in' \in Nat
    BY <1>2, <1>3, <1>4
  <2>4. reorder' \subseteq Segments
    BY <1>10 DEF IInv, TypeOK
  <2>5. QED
    BY <1>2, <1>5, <1>9, <2>1, <2>2, <2>3, <2>4 DEF IInv, TypeOK
<1>15. QED
  BY <1>5, <1>7, <1>11, <1>12, <1>13, <1>14 DEF IInv

\* Every step keeps the invariant.
LEMMA StepPreserves == IInv /\ [Next]_vars => IInv'
<1> SUFFICES ASSUME IInv, [Next]_vars PROVE IInv'
  OBVIOUS
<1>1. ASSUME NEW n \in Writes, async_write_some(n) PROVE IInv'
  BY <1>1, AsyncWriteSome
<1>2. CASE async_wait_write
  BY <1>2, AsyncWaitWrite
<1>3. CASE cancel_write
  BY <1>3, CancelWrite
<1>4. CASE close
  BY <1>4, Closed
<1>5. ASSUME NEW n \in Reads, async_read_some(n) PROVE IInv'
  BY <1>5, AsyncReadSome
<1>6. CASE async_wait_read
  BY <1>6, AsyncWaitRead
<1>7. CASE cancel_read
  BY <1>7, CancelRead
<1>8. CASE WriteSegment
  BY <1>8, SegmentWritten
<1>9. CASE WriteLoop
  BY <1>9, WriteLoops
<1>10. CASE ReceiveSegment
  BY <1>10, SegmentEarly, SegmentInOrder
<1>11. CASE ReceiveAck
  BY <1>11, AckReceived
<1>12. CASE LoseAck
  BY <1>12, AckLost
<1>13. ASSUME NEW i \in DOMAIN data, NetDrop(i) PROVE IInv'
  BY <1>13, PacketDropped
<1>14. CASE UNCHANGED vars
  <2>1. UNCHANGED <<ctx, left, send_op, next_seq, cwnd, in_flight, outstanding, resend, last_drop,
                    written, closed, recover, next_in, reorder, incoming, recv_op, got, eof, data, acks, drops>>
    BY <1>14 DEF vars, writerVars, readerVars
  <2>2. TypeOK'
    BY <2>1 DEF IInv, TypeOK
  <2>3. OnePlace' /\ AirFits' /\ ReaderFits' /\ EofFits' /\ WriterFits' /\ (~closed' => OutstandingFits')
    BY <2>1, PlacesKept, AirSame, ReaderKept, EofKept, WriterKept, OutstandingKept DEF IInv
  <2>4. QED
    BY <2>2, <2>3 DEF IInv
<1>15. QED
  BY <1>1, <1>2, <1>3, <1>4, <1>5, <1>6, <1>7, <1>8, <1>9, <1>10, <1>11, <1>12, <1>13, <1>14
     DEF Next, Writer, Reader, Deliver, Drop

\* The invariant holds in every state of every behaviour.
THEOREM InvariantHolds == Spec => []IInv
BY InitEstablishes, StepPreserves, PTL DEF Spec

-----------------------------------------------------------------------------
(* What follows from the invariant.                                        *)

\* The variables have their types: m_bytes_in_flight never becomes negative, no
\* more bytes are sent than were written, and only bytes that were written are
\* read.
THEOREM StreamTypeCorrect == Spec => []TypeOK
<1>1. IInv => TypeOK
  BY DEF IInv
<1>2. QED
  BY <1>1, InvariantHolds, PTL

\* No sequence number is at two places: a segment is on its way, queued to be
\* sent again or in the reorder buffer, so none is sent again while it is still
\* on its way, and m_reorder_buffer never has two for a number.
THEOREM SegmentsAtOnePlace == Spec => []OnePlace
<1>1. IInv => OnePlace
  BY DEF IInv
<1>2. QED
  BY <1>1, InvariantHolds, PTL

\* The assertions of the ack handler (tcp_socket.cpp, lines 840 and 843): an ack
\* finds exactly one entry in m_outstanding_packet_sizes, and m_bytes_in_flight is
\* at least the sum of the entries.
THEOREM AcksFindTheirSegment == Spec => []AcksMatch
<1>1. ASSUME IInv PROVE AcksMatch
  <2>1. SUFFICES ASSUME ~closed
                 PROVE  /\ \A i \in DOMAIN acks : Cardinality({o \in outstanding : o.seq = acks[i]}) = 1
                        /\ in_flight >= MapThenSumSet(LAMBDA o : o.len, outstanding)
    BY DEF AcksMatch
  <2>2. OutstandingFits
    BY <1>1, <2>1 DEF IInv
  <2>3. ASSUME NEW i \in DOMAIN acks PROVE Cardinality({o \in outstanding : o.seq = acks[i]}) = 1
    <3>1. PICK a \in outstanding : a.seq = acks[i]
      BY <2>2 DEF OutstandingFits
    <3>2. {o \in outstanding : o.seq = acks[i]} = {a}
      BY <2>2, <3>1 DEF OutstandingFits, OneBySeq
    <3>3. QED
      BY <3>2, FS_Singleton
  <2>4. in_flight >= MapThenSumSet(LAMBDA o : o.len, outstanding)
    BY <2>2 DEF OutstandingFits, Sum
  <2>5. QED
    BY <2>3, <2>4
<1>2. QED
  BY <1>1, InvariantHolds, PTL

-----------------------------------------------------------------------------
(* The connection is a byte stream.                                        *)

\* The connection begins as the abstract stream does.
LEMMA StreamInit == Init => Stream!Init
BY DEF Init, Stream!Init

\* Sending a segment is a write of its bytes.
LEMMA StreamWrite ==
    ASSUME IInv, WriteSegment
    PROVE  [Stream!Next]_(Stream!vars)
<1>0. /\ left \in Nat /\ Mss \in Nat /\ written \in Nat /\ MaxBytes \in Nat /\ ctx = "writing"
  BY ConstantsAssumption DEF IInv, TypeOK, WriteSegment
<1>1. PICK k \in Nat : k = (IF left < Mss THEN left ELSE Mss) /\ k =< left
  BY <1>0
<1>2. written' = written + k /\ UNCHANGED <<got, closed, eof>>
  BY <1>1 DEF WriteSegment, readerVars
<1>3. ~closed /\ written + left =< MaxBytes
  BY <1>0 DEF IInv, WriterFits
<1>4. CASE k = 0
  BY <1>0, <1>2, <1>4 DEF Stream!vars
<1>5. CASE k # 0
  <2>1. k \in 1..(MaxBytes - written)
    BY <1>0, <1>1, <1>3, <1>5
  <2>2. Stream!Write
    BY <1>2, <1>3, <2>1 DEF Stream!Write
  <2>3. QED
    BY <2>2 DEF Stream!Next
<1>6. QED
  BY <1>4, <1>5

\* close() is the close of the stream.
LEMMA StreamClose ==
    ASSUME close
    PROVE  [Stream!Next]_(Stream!vars)
<1>1. Stream!Close
  BY DEF close, Stream!Close, readerVars
<1>2. QED
  BY <1>1 DEF Stream!Next

\* Copying out of the queue is a read of the next bytes, or the end of the
\* stream after the last.
LEMMA StreamRead ==
    ASSUME IInv, NEW q \in Seq(Segments), q # <<>>, NEW n \in Nat, QueueFits(q, Len(got), written),
           ~closed => NoEnd(ToSet(q)), ~eof, ReadFrom(q, n), UNCHANGED <<written, closed>>
    PROVE  [Stream!Next]_(Stream!vars)
<1>1. written \in Nat /\ Len(got) \in Nat /\ got = Bytes(0, Len(got))
  BY AirTyped DEF IInv, ReaderFits
<1>2. \/ eof' = TRUE /\ UNCHANGED got /\ ~NoEnd(ToSet(q)) /\ Len(got) = written
      \/ UNCHANGED eof /\ \E k \in Nat : Len(got) + k =< written /\ got' = got \o Bytes(Len(got), k)
  BY <1>1, ReadStep
<1>3. CASE eof' = TRUE /\ UNCHANGED got /\ ~NoEnd(ToSet(q)) /\ Len(got) = written
  <2>1. Stream!Eof
    BY <1>3 DEF Stream!Eof
  <2>2. QED
    BY <2>1 DEF Stream!Next
<1>4. CASE UNCHANGED eof /\ \E k \in Nat : Len(got) + k =< written /\ got' = got \o Bytes(Len(got), k)
  <2>1. PICK k \in Nat : Len(got) + k =< written /\ got' = got \o Bytes(Len(got), k)
    BY <1>4
  <2>2. CASE k = 0
    <3>1. Bytes(Len(got), 0) = <<>>
      BY DEF Bytes
    <3>2. got \in Seq(1..MaxBytes)
      BY DEF IInv, TypeOK
    <3>3. got' = got
      BY <2>1, <2>2, <3>1, <3>2, ConcatEmptySeq
    <3>4. QED
      BY <1>4, <3>3 DEF Stream!vars
  <2>3. CASE k # 0
    <3>1. k \in 1..(written - Len(got))
      BY <1>1, <2>1, <2>3
    <3>2. got' = got \o [i \in 1..k |-> Len(got) + i]
      BY <2>1 DEF Bytes
    <3>3. Stream!Read
      BY <1>4, <3>1, <3>2 DEF Stream!Read
    <3>4. QED
      BY <3>3 DEF Stream!Next
  <2>4. QED
    BY <2>2, <2>3
<1>5. QED
  BY <1>2, <1>3, <1>4

\* A read by user code is a read of the stream or no step of it.
LEMMA StreamReadSome ==
    ASSUME IInv, NEW n \in Reads, async_read_some(n)
    PROVE  [Stream!Next]_(Stream!vars)
<1>1. UNCHANGED <<written, closed>> /\ ~eof
  BY DEF async_read_some, writerVars
<1>2. CASE incoming = <<>>
  BY <1>1, <1>2 DEF async_read_some, Stream!vars
<1>3. CASE incoming # <<>>
  <2>1. ReadFrom(incoming, n)
    BY <1>3 DEF async_read_some
  <2>2. n \in Nat /\ incoming \in Seq(Segments)
    BY ConstantsAssumption DEF IInv, TypeOK
  <2>3. QueueFits(incoming, Len(got), written) /\ (~closed => NoEnd(ToSet(incoming)))
    BY DEF IInv, ReaderFits
  <2>4. QED
    BY <1>1, <1>3, <2>1, <2>2, <2>3, StreamRead
<1>4. QED
  BY <1>2, <1>3

\* A segment that arrives and completes a pending read is a read of the
\* stream; otherwise it is no step of it.
LEMMA StreamReceive ==
    ASSUME IInv, ReceiveSegment
    PROVE  [Stream!Next]_(Stream!vars)
<1>1. UNCHANGED <<written, closed>> /\ data # <<>>
  BY DEF ReceiveSegment, writerVars
<1>2. CASE UNCHANGED <<got, eof>>
  BY <1>1, <1>2 DEF Stream!vars
<1>3. CASE Head(data).seq = next_in /\ recv_op # NoOp /\ recv_op.op # "wait" /\ ReadFrom(Queued, recv_op.n)
  <2>1. Queued \in Seq(Segments) /\ Queued # <<>> /\ QueueFits(Queued, Len(got), written) /\ (~closed => NoEnd(ToSet(Queued)))
    BY <1>1, <1>3, QueuedFits
  <2>2. ~eof
    BY <1>3 DEF IInv, EofFits
  <2>3. recv_op \in Ops(Reads)
    BY DEF IInv, TypeOK
  <2>4. recv_op.op = "some"
    BY <1>3, <2>3 DEF Ops
  <2>5. recv_op.n \in Nat
    BY <2>3, <2>4, OpFacts, ConstantsAssumption
  <2>6. PICK q : q = Queued
    OBVIOUS
  <2>7. PICK n \in Nat : n = recv_op.n
    BY <2>5
  <2>8. q \in Seq(Segments) /\ q # <<>> /\ QueueFits(q, Len(got), written) /\ (~closed => NoEnd(ToSet(q))) /\ ReadFrom(q, n)
    BY <1>3, <2>1, <2>6, <2>7
  <2>9. QED
    BY <1>1, <2>2, <2>8, StreamRead
<1>4. QED
  BY <1>2, <1>3 DEF ReceiveSegment, maybe_wakeup_reader, Queued

\* Every step is a step of the abstract stream or none.
LEMMA StreamStep == IInv /\ [Next]_vars => [Stream!Next]_(Stream!vars)
<1> SUFFICES ASSUME IInv, [Next]_vars PROVE [Stream!Next]_(Stream!vars)
  OBVIOUS
<1>1. CASE UNCHANGED <<written, got, closed, eof>>
  BY <1>1 DEF Stream!vars
<1>2. ASSUME NEW n \in Writes, async_write_some(n) PROVE UNCHANGED <<written, got, closed, eof>>
  BY <1>2 DEF async_write_some, readerVars
<1>3. async_wait_write \/ cancel_write \/ WriteLoop => UNCHANGED <<written, got, closed, eof>>
  BY DEF async_wait_write, cancel_write, WriteLoop, readerVars
<1>4. async_wait_read \/ cancel_read \/ LoseAck => UNCHANGED <<written, got, closed, eof>>
  BY DEF async_wait_read, cancel_read, LoseAck, writerVars, readerVars
<1>5. ReceiveAck => UNCHANGED <<written, got, closed, eof>>
  BY DEF ReceiveAck, readerVars
<1>6. ASSUME NEW i \in DOMAIN data, NetDrop(i) PROVE UNCHANGED <<written, got, closed, eof>>
  BY <1>6 DEF NetDrop, packet_dropped, writerVars, readerVars
<1>7. UNCHANGED vars => UNCHANGED <<written, got, closed, eof>>
  BY DEF vars, writerVars, readerVars
<1>8. QED
  BY <1>1, <1>2, <1>3, <1>4, <1>5, <1>6, <1>7, StreamWrite, StreamClose, StreamReadSome, StreamReceive
     DEF Next, Writer, Reader, Deliver, Drop

\* Whatever is dropped, sent again and reordered, a connection is a byte stream
\* (write_some_impl(), packet_dropped(), incoming_packet(), read_some_impl()): the
\* reader gets the bytes written, each once and in order, and the end of the
\* stream after all of them.
THEOREM TcpIsByteStream == Spec => IsByteStream
<1>1. Init => Stream!Init
  BY StreamInit
<1>2. IInv /\ [Next]_vars => [Stream!Next]_(Stream!vars)
  BY StreamStep
<1>3. QED
  BY <1>1, <1>2, InvariantHolds, PTL DEF Spec, IsByteStream, Stream!Spec

-----------------------------------------------------------------------------
(* Without drops.                                                          *)

Exact == resend = <<>> /\ in_flight = Sum(outstanding) /\ drops = 0

\* Without drops each step keeps the count exact.
LEMMA ExactStep ==
    ASSUME MaxDrops = 0, IInv, Exact, [Next]_vars
    PROVE  Exact'
<1>0. IInv'
  BY StepPreserves
<1>1. CASE UNCHANGED <<resend, in_flight, outstanding, drops>>
  BY <1>1 DEF Exact
<1>2. CASE WriteSegment
  <2>0. left \in Nat /\ Mss \in Nat /\ in_flight \in Nat /\ next_seq \in Nat /\ ctx = "writing"
    BY <1>2, ConstantsAssumption DEF IInv, TypeOK, WriteSegment
  <2>1. PICK k \in Nat : k = IF left < Mss THEN left ELSE Mss
    BY <2>0
  <2>2. PICK o : o = [seq |-> next_seq, len |-> k]
    OBVIOUS
  <2>3. in_flight' = in_flight + k /\ outstanding' = outstanding \cup {o} /\ UNCHANGED <<resend, drops>>
    BY <1>2, <2>1, <2>2 DEF WriteSegment
  <2>4. OutstandingFits
    BY <2>0 DEF IInv, WriterFits
  <2>5. o.len = k /\ o \notin outstanding
    <3>1. o.seq = next_seq /\ o.len = k
      BY <2>2
    <3>2. \A x \in outstanding : x.seq < next_seq
      BY <2>4 DEF OutstandingFits
    <3>3. QED
      BY <2>0, <3>1, <3>2
  <2>6. Sized(outstanding)
    BY <2>4 DEF OutstandingFits
  <2>7. Sum(outstanding \cup {o}) = Sum(outstanding) + k
    BY <2>5, <2>6, SumAdd
  <2>8. QED
    BY <2>3, <2>7 DEF Exact
<1>3. CASE close
  <2>1. in_flight' = 0 /\ outstanding' = {} /\ UNCHANGED <<resend, drops>>
    BY <1>3 DEF close
  <2>2. Sum({}) = 0
    BY FS_EmptySet, SumStep DEF Sized
  <2>3. QED
    BY <2>1, <2>2 DEF Exact
<1>4. CASE ReceiveAck
  <2>1. acks # <<>> /\ TypeOK /\ OutstandingFits /\ drops' = drops
    BY <1>4 DEF ReceiveAck, IInv
  <2>2. PICK a : a = Acked
    OBVIOUS
  <2>3. PICK k \in 0..Len(resend) :
            /\ in_flight' = (in_flight - a.len) + TotalLen(SubSeq(resend, 1, k))
            /\ outstanding' = (outstanding \ {a}) \cup {Size(resend[j]) : j \in 1..k}
            /\ resend' = SubSeq(resend, k+1, Len(resend))
    BY <1>4, <2>2 DEF ReceiveAck, Acked, Size
  <2>4. resend \in Seq(Segments) /\ resend = <<>> /\ Len(resend) = 0 /\ k = 0
    BY <2>1, <2>3 DEF Exact, TypeOK
  <2>5. outstanding' = outstanding \ {a}
    BY <2>3, <2>4
  <2>6. resend' = <<>> /\ SubSeq(resend, 1, k) = <<>>
    <3>1. /\ SubSeq(resend, 1, k) \in Seq(Segments) /\ Len(SubSeq(resend, 1, k)) = k
          /\ SubSeq(resend, k+1, Len(resend)) \in Seq(Segments)
          /\ Len(SubSeq(resend, k+1, Len(resend))) = Len(resend) - k
      BY <2>4, SplitSeq
    <3>2. QED
      BY <2>3, <2>4, <3>1, EmptySeq
  <2>7. TotalLen(SubSeq(resend, 1, k)) = 0
    <3>1. TotalLen(<<>>) = 0
      BY <2>4, TotalLenFacts
    <3>2. QED
      BY <2>6, <3>1
  <2>8. a \in outstanding /\ a.len \in Nat /\ Sized(outstanding) /\ in_flight \in Nat /\ Sized(outstanding \ {a})
    BY <2>1, <2>2, AckedFacts DEF OutstandingFits, TypeOK
  <2>9. Sum(outstanding) = a.len + Sum(outstanding \ {a}) /\ Sum(outstanding \ {a}) \in Nat
    BY <2>8, SumRemove, SumStep
  <2>10. in_flight' = Sum(outstanding')
    <3>1. in_flight' = (in_flight - a.len) + 0 /\ in_flight = Sum(outstanding)
      BY <2>3, <2>7 DEF Exact
    <3>2. PICK s \in Nat : s = Sum(outstanding \ {a})
      BY <2>9
    <3>3. in_flight = a.len + s
      BY <2>9, <3>1, <3>2
    <3>4. in_flight' = s
      BY <2>8, <3>1, <3>3
    <3>5. QED
      BY <2>5, <3>2, <3>4
  <2>11. QED
    BY <2>1, <2>6, <2>10 DEF Exact
<1>5. ASSUME NEW n \in Writes, async_write_some(n) PROVE UNCHANGED <<resend, in_flight, outstanding, drops>>
  BY <1>5 DEF async_write_some
<1>6. async_wait_write \/ cancel_write \/ WriteLoop => UNCHANGED <<resend, in_flight, outstanding, drops>>
  BY DEF async_wait_write, cancel_write, WriteLoop
<1>7. async_wait_read \/ cancel_read \/ LoseAck \/ ReceiveSegment => UNCHANGED <<resend, in_flight, outstanding, drops>>
  BY DEF async_wait_read, cancel_read, LoseAck, ReceiveSegment, writerVars
<1>8. ASSUME NEW n \in Reads, async_read_some(n) PROVE UNCHANGED <<resend, in_flight, outstanding, drops>>
  BY <1>8 DEF async_read_some, writerVars
<1>9. ASSUME NEW i \in DOMAIN data, NetDrop(i) PROVE FALSE
  BY <1>9 DEF NetDrop, Exact
<1>10. UNCHANGED vars => UNCHANGED <<resend, in_flight, outstanding, drops>>
  BY DEF vars, writerVars
<1>11. QED
  BY <1>1, <1>2, <1>3, <1>4, <1>5, <1>6, <1>7, <1>8, <1>9, <1>10
     DEF Next, Writer, Reader, Deliver, Drop

\* As long as nothing is dropped m_bytes_in_flight is "the number of bytes that
\* have been sent but not ACKed yet" (simulator.hpp): nothing is counted twice.
\* A segment that is dropped and sent again is, which TcpStreamInFlight.cfg shows.
THEOREM ExactWithoutDrops == (MaxDrops = 0) => (Spec => []InFlightExact)
<1> SUFFICES ASSUME MaxDrops = 0 PROVE Spec => []InFlightExact
  OBVIOUS
<1>1. Init => Exact
  BY FS_EmptySet, SumStep DEF Init, Exact, Sized
<1>2. IInv /\ Exact /\ [Next]_vars => Exact'
  BY ExactStep
<1>3. Exact => InFlightExact
  BY DEF Exact, InFlightExact, Sum
<1>4. QED
  BY <1>1, <1>2, <1>3, InvariantHolds, PTL DEF Spec

=============================================================================
