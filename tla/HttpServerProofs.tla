-------------------------- MODULE HttpServerProofs --------------------------
(***************************************************************************)
(* Proofs about HttpServer, for any set of clients, flags, kinds of        *)
(* requests and buffer size.  They are about clients that neither send nor *)
(* hang up after a request that makes the server close (MayOverrun is      *)
(* FALSE): what such a client sends is left in m_incoming_queue by close() *)
(* and is read as the beginning of the next connection.                    *)
(***************************************************************************)
EXTENDS HttpServer, SequenceTheorems, WellFoundedInduction, TLAPS

-----------------------------------------------------------------------------
(* The inductive invariant.                                                *)

\* The units that the completion posted carries, and all of those that arrived
\* and are not parsed.
Data == IF posted = <<>> THEN <<>> ELSE Head(posted).data
Unparsed == (recv \o Data) \o inq

\* What a client sends, with the end of its stream.
Stream(c) == IF state[c] = "hungup" THEN Append(sent[c], "eof") ELSE sent[c]

BeginsWith(s, r) == Len(r) =< Len(s) /\ \A i \in 1..Len(r) : r[i] = s[i]
EndsWith(s, r) ==
    Len(r) =< Len(s) /\ \A i \in 1..Len(r) : r[i] = s[Len(s) - Len(r) + i]

\* The requests of client c that are answered, one after the other.
AnsweredUnits(c) == FlattenSeq([i \in DOMAIN got[c] |-> got[c][i].request])

ClosingUnit(u) == u \in EndUnits /\ (u = "bad" \/ Closes(u))

IsPosted(h) == posted # <<>> /\ Head(posted).h = h
EofPosted == posted # <<>> /\ Head(posted).ec = "eof"
Nothing == posted = <<>> /\ ~accepting /\ ~reading /\ ~writing

\* The next step of the server is one of accept, read, write and a completion.
OneStep ==
    /\ Len(posted) =< 1
    /\ posted # <<>> => ~accepting /\ ~reading /\ ~writing
    /\ accepting => ~reading /\ ~writing
    /\ reading => ~writing
    /\ Nothing => m_close \/ (conn # NoClient /\ StalledBy(conn))

\* How that step goes with the state of the connection and the buffer.
StepFits ==
    /\ conn = NoClient => recv = <<>> /\ inq = <<>> /\ ~reading /\ ~writing
    /\ accepting => conn = NoClient
    /\ reading => inq = <<>> /\ Len(recv) < size
    /\ Len(recv) + Len(Data) =< size
    /\ IsPosted("on_accept") =>
        /\ Data = <<>>
        /\ \/ Head(posted).ec = "ok" /\ conn # NoClient
           \/ Head(posted).ec # "ok" /\ conn = NoClient /\ m_close
    /\ IsPosted("on_read") => conn # NoClient /\ Head(posted).ec \in {"ok", "eof"}
    /\ IsPosted("on_write") => conn # NoClient /\ Head(posted).ec = "ok" /\ Data = <<>>
    /\ EofPosted => /\ IsPosted("on_read") /\ Data = <<>>
                    /\ inq = <<>> /\ state[conn] = "hungup"

\* Only the client that is connected is open; those in the queue are new.
OneClient ==
    /\ \A c \in Clients : state[c] = "open" => c = conn
    /\ conn # NoClient => state[conn] \in {"open", "hungup"}
    /\ \A i \in DOMAIN backlog :
        /\ state[backlog[i]] \in {"waiting", "hungup"}
        /\ backlog[i] # conn
        /\ sent[backlog[i]] = <<>> /\ got[backlog[i]] = <<>>
    /\ \A i, j \in DOMAIN backlog : i # j => backlog[i] # backlog[j]
    /\ \A c \in Clients :
        state[c] \in {"idle", "waiting"} => sent[c] = <<>> /\ got[c] = <<>>

\* A request that makes the server close is the last thing a client sends.
ClosingIsLast ==
    \A c \in Clients : \A i \in DOMAIN sent[c] :
        ClosingUnit(sent[c][i]) => i = Len(sent[c]) /\ state[c] # "hungup"

\* What is unparsed is the end of what the client that is connected sent.
UnparsedIsOwn == conn # NoClient /\ ~EofPosted => EndsWith(Stream(conn), Unparsed)

\* The response under way.
ResponseFits ==
    writing \/ IsPosted("on_write") =>
        /\ response.request # <<>>
        /\ response.close = Closes(Last(response.request))
        /\ Closes(Last(response.request)) =>
            /\ recv = <<>> /\ inq = <<>>
            /\ \E i \in DOMAIN sent[conn] : ClosingUnit(sent[conn][i])
        /\ ~writing /\ state[conn] = "open" =>
            got[conn] # <<>> /\ Last(got[conn]) = response

\* As long as the client is there, everything it sent is answered, is being
\* answered, or is unparsed.
NothingSkipped ==
    conn # NoClient /\ state[conn] = "open" /\ ~Nothing =>
        LET n == Len(AnsweredUnits(conn))
            w == IF writing THEN Len(response.request) ELSE 0
        IN /\ n + w + Len(Unparsed) = Len(sent[conn])
           /\ \A i \in 1..w : response.request[i] = sent[conn][n + i]

AnswersFit == \A c \in Clients : BeginsWith(sent[c], AnsweredUnits(c))

IInv ==
    /\ TypeOK
    /\ OneStep
    /\ StepFits
    /\ OneClient
    /\ ClosingIsLast
    /\ UnparsedIsOwn
    /\ ResponseFits
    /\ NothingSkipped
    /\ AnswersFit
    /\ CloseIsAnnounced

-----------------------------------------------------------------------------
(* Sequences.                                                              *)

Wire == Units \cup {"eof"}

LEMMA SeqWider ==
    ASSUME NEW A, NEW B, A \subseteq B, NEW s \in Seq(A)
    PROVE  s \in Seq(B)
OBVIOUS

LEMMA NotEof == "eof" \notin Units
BY DEF Units, EndUnits

LEMMA OneElement ==
    ASSUME NEW S, NEW s \in Seq(S), s # <<>>, Len(s) =< 1
    PROVE  Tail(s) = <<>> /\ s = <<Head(s)>> /\ Head(s) \in S
<1>0. Len(s) \in Nat \ {0}
  BY EmptySeq
<1>1. Len(s) = 1 /\ Tail(s) \in Seq(S) /\ Head(s) \in S /\ Head(s) = s[1]
  <2>1. Tail(s) \in Seq(S) /\ Head(s) \in S
    BY HeadTailProperties
  <2>2. Len(s) = 1
    BY <1>0
  <2>3. Head(s) = s[1]
    OBVIOUS
  <2>4. QED
    BY <2>1, <2>2, <2>3
<1>2. Len(Tail(s)) = 0
  BY <1>1, HeadTailProperties
<1>3. Tail(s) = <<>>
  BY <1>1, <1>2, EmptySeq
<1>4. s = <<s[1]>>
  BY <1>1
<1>5. QED
  BY <1>1, <1>3, <1>4

LEMMA Singleton ==
    ASSUME NEW S, NEW e \in S
    PROVE  /\ <<e>> \in Seq(S) /\ <<e>> # <<>> /\ Len(<<e>>) = 1
           /\ Head(<<e>>) = e /\ Tail(<<e>>) = <<>>
           /\ Append(<<>>, e) = <<e>>
OBVIOUS

\* A sequence in two parts.
LEMMA TwoParts ==
    ASSUME NEW S, NEW s \in Seq(S), NEW k \in 0..Len(s)
    PROVE  /\ SubSeq(s, 1, k) \in Seq(S) /\ Len(SubSeq(s, 1, k)) = k
           /\ SubSeq(s, k+1, Len(s)) \in Seq(S)
           /\ Len(SubSeq(s, k+1, Len(s))) = Len(s) - k
           /\ SubSeq(s, 1, k) \o SubSeq(s, k+1, Len(s)) = s
           /\ \A i \in 1..k : SubSeq(s, 1, k)[i] = s[i]
<1>1. Len(s) \in Nat /\ \A i \in 1..Len(s) : s[i] \in S
  BY LenProperties
<1>2. /\ SubSeq(s, 1, k) \in Seq(S) /\ Len(SubSeq(s, 1, k)) = k
      /\ \A i \in 1..k : SubSeq(s, 1, k)[i] = s[i]
  BY <1>1
<1>3. /\ SubSeq(s, k+1, Len(s)) \in Seq(S)
      /\ Len(SubSeq(s, k+1, Len(s))) = Len(s) - k
  BY <1>1
<1>4. SubSeq(s, 1, k) \o SubSeq(s, k+1, Len(s)) = SubSeq(s, 1, Len(s))
  <2>1. 1 \in 1..Len(s)+1 /\ k \in (1-1)..Len(s) /\ Len(s) \in k..Len(s)
    BY <1>1
  <2>2. QED
    BY <2>1, ConcatAdjacentSubSeq
<1>5. QED
  BY <1>2, <1>3, <1>4, SubSeqFull

LEMMA Associative ==
    ASSUME NEW S, NEW s \in Seq(S), NEW t \in Seq(S), NEW u \in Seq(S)
    PROVE  (s \o t) \o u = s \o (t \o u)
BY ConcatAssociative

LEMMA EndsWithAppend ==
    ASSUME NEW S, NEW s \in Seq(S), NEW r \in Seq(S), NEW e \in S, EndsWith(s, r)
    PROVE  EndsWith(Append(s, e), Append(r, e))
<1>1. Len(s) \in Nat /\ Len(r) \in Nat /\ Len(r) =< Len(s)
  BY LenProperties DEF EndsWith
<1>2. ASSUME NEW i \in 1..(Len(r)+1)
      PROVE  Append(r, e)[i] = Append(s, e)[Len(s)+1 - (Len(r)+1) + i]
  <2>1. CASE i = Len(r)+1
    BY <1>1, <2>1, AppendProperties
  <2>2. CASE i \in 1..Len(r)
    <3>1. Len(s) - Len(r) + i \in 1..Len(s) /\ Len(s)+1 - (Len(r)+1) + i = Len(s) - Len(r) + i
      BY <1>1, <2>2
    <3>2. QED
      BY <2>2, <3>1, AppendProperties DEF EndsWith
  <2>3. QED
    BY <1>1, <2>1, <2>2
<1>3. Len(Append(s, e)) = Len(s) + 1 /\ Len(Append(r, e)) = Len(r) + 1
  BY AppendProperties
<1>4. QED
  BY <1>1, <1>2, <1>3 DEF EndsWith

LEMMA EndsWithRest ==
    ASSUME NEW S, NEW s \in Seq(S), NEW a \in Seq(S), NEW b \in Seq(S), EndsWith(s, a \o b)
    PROVE  EndsWith(s, b)
<1>1. /\ Len(s) \in Nat /\ Len(a) \in Nat /\ Len(b) \in Nat
      /\ Len(a \o b) = Len(a) + Len(b) /\ Len(a) + Len(b) =< Len(s)
  BY LenProperties, ConcatProperties DEF EndsWith
<1>2. ASSUME NEW i \in 1..Len(b)
      PROVE  b[i] = s[Len(s) - Len(b) + i]
  <2>1. Len(a)+i \in 1..(Len(a)+Len(b)) /\ ~(Len(a)+i =< Len(a)) /\ Len(a)+i-Len(a) = i
    BY <1>1
  <2>2. (a \o b)[Len(a)+i] = b[i]
    BY <2>1, ConcatProperties
  <2>3. (a \o b)[Len(a)+i] = s[Len(s) - (Len(a)+Len(b)) + (Len(a)+i)]
    BY <1>1, <2>1 DEF EndsWith
  <2>4. Len(s) - (Len(a)+Len(b)) + (Len(a)+i) = Len(s) - Len(b) + i
    BY <1>1
  <2>5. QED
    BY <2>2, <2>3, <2>4
<1>3. QED
  BY <1>1, <1>2 DEF EndsWith

LEMMA EndsWithNothing ==
    ASSUME NEW S, NEW s \in Seq(S)
    PROVE  EndsWith(s, <<>>)
BY LenProperties, EmptySeq DEF EndsWith

LEMMA BeginsWithAppend ==
    ASSUME NEW S, NEW s \in Seq(S), NEW r \in Seq(S), NEW e \in S, BeginsWith(s, r)
    PROVE  BeginsWith(Append(s, e), r)
<1>1. Len(s) \in Nat /\ Len(r) \in Nat /\ Len(r) =< Len(s)
  BY LenProperties DEF BeginsWith
<1>2. \A i \in 1..Len(r) : i \in 1..Len(s)
  BY <1>1
<1>3. QED
  BY <1>1, <1>2, AppendProperties DEF BeginsWith

LEMMA BeginsWithMore ==
    ASSUME NEW S, NEW s \in Seq(S), NEW r \in Seq(S), NEW a \in Seq(S), BeginsWith(s, r),
           Len(r) + Len(a) =< Len(s), \A i \in 1..Len(a) : a[i] = s[Len(r) + i]
    PROVE  BeginsWith(s, r \o a)
<1>1. /\ Len(s) \in Nat /\ Len(r) \in Nat /\ Len(a) \in Nat
      /\ Len(r \o a) = Len(r) + Len(a)
  BY LenProperties, ConcatProperties
<1>2. ASSUME NEW i \in 1..(Len(r) + Len(a))
      PROVE  (r \o a)[i] = s[i]
  <2>1. CASE i =< Len(r)
    <3>1. i \in 1..Len(r)
      BY <1>1, <2>1
    <3>2. QED
      BY <2>1, <3>1, ConcatProperties DEF BeginsWith
  <2>2. CASE ~(i =< Len(r))
    <3>1. i - Len(r) \in 1..Len(a) /\ Len(r) + (i - Len(r)) = i
      BY <1>1, <2>2
    <3>2. (r \o a)[i] = a[i - Len(r)]
      BY <2>2, ConcatProperties
    <3>3. QED
      BY <3>1, <3>2
  <2>3. QED
    BY <2>1, <2>2
<1>3. QED
  BY <1>1, <1>2 DEF BeginsWith

LEMMA BeginsWithIsPrefix ==
    ASSUME NEW S, NEW s \in Seq(S), NEW r \in Seq(S), BeginsWith(s, r)
    PROVE  IsPrefix(r, s)
<1>1. Len(s) \in Nat /\ Len(r) \in Nat /\ Len(r) =< Len(s)
  BY LenProperties DEF BeginsWith
<1>2. SubSeq(r, 1, Len(r)) = r
  BY SubSeqFull
<1>3. /\ SubSeq(s, 1, Len(r)) \in Seq(S) /\ Len(SubSeq(s, 1, Len(r))) = Len(r)
      /\ \A i \in 1..Len(r) : SubSeq(s, 1, Len(r))[i] = s[i]
  BY <1>1, TwoParts
<1>4. r = SubSeq(s, 1, Len(r))
  <2> DEFINE t == SubSeq(s, 1, Len(r))
  <2>1. Len(r) = Len(t) /\ \A i \in 1..Len(r) : r[i] = t[i]
    BY <1>3 DEF BeginsWith
  <2>2. t \in Seq(S)
    BY <1>3
  <2> HIDE DEF t
  <2>3. QED
    BY <2>1, <2>2, SeqEqual DEF t
<1>5. QED
  BY <1>1, <1>2, <1>4 DEF IsPrefix

\* A set of numbers that is not empty has a least element.
LEMMA LeastNumber ==
    ASSUME NEW T, T \subseteq Nat, T # {}
    PROVE  \E x \in T : \A y \in T : x =< y
<1> DEFINE R == {ss \in Nat \X Nat : ss[1] < ss[2]}
<1>1. IsWellFoundedOn(R, Nat)
  BY NatLessThanWellFounded DEF OpToRel
<1>2. \A x, y \in T : y < x => <<y, x>> \in R
  OBVIOUS
<1> HIDE DEF R
<1>3. PICK x \in T : \A y \in T : <<y, x>> \notin R
  BY <1>1, WFMin, Zenon
<1>4. \A y \in T : ~(y < x)
  BY <1>2, <1>3, Zenon
<1>5. QED
  BY <1>4

\* Induction over the numbers from 1 to N, as a statement about a set.
LEMMA UpToInduction ==
    ASSUME NEW N \in Nat, NEW T, N # 0 => 1 \in T,
           \A n \in 2..N : n-1 \in T => n \in T
    PROVE  1..N \subseteq T
<1> DEFINE X == (1..N) \ T
<1>1. SUFFICES ASSUME X # {} PROVE FALSE
  OBVIOUS
<1>2. PICK x \in X : \A y \in X : x =< y
  <2>1. X \subseteq Nat
    OBVIOUS
  <2> HIDE DEF X
  <2>2. QED
    BY <1>1, <2>1, LeastNumber, Zenon
<1>3. x \in 2..N /\ x-1 \notin X
  BY <1>2
<1>4. QED
  BY <1>3

-----------------------------------------------------------------------------
(* What FlattenSeq() computes.                                             *)

Concats(f, q) ==
    f = [i \in 1..Len(q) |-> IF i = 1 THEN q[i] ELSE f[i-1] \o q[i]]

LEMMA ConcatsExist ==
    ASSUME NEW S, NEW q \in Seq(Seq(S)), q # <<>>
    PROVE  \E f \in [1..Len(q) -> Seq(S)] : Concats(f, q)
<1> DEFINE Fs(n) ==
        {f \in [1..n -> Seq(S)] : \A i \in 1..n : f[i] = IF i = 1 THEN q[i] ELSE f[i-1] \o q[i]}
<1> DEFINE T == {n \in 1..Len(q) : Fs(n) # {}}
<1>0. Len(q) \in Nat \ {0} /\ \A i \in 1..Len(q) : q[i] \in Seq(S)
  BY EmptySeq, ElementOfSeq
<1>1. 1 \in T
  <2>1. [i \in 1..1 |-> q[1]] \in Fs(1)
    BY <1>0
  <2>2. QED
    BY <1>0, <2>1
<1>2. ASSUME NEW n \in 2..Len(q), n-1 \in T
      PROVE  n \in T
  <2>1. PICK f \in Fs(n-1) : TRUE
    BY <1>2
  <2>2. /\ f \in [1..(n-1) -> Seq(S)]
        /\ \A i \in 1..(n-1) : f[i] = IF i = 1 THEN q[i] ELSE f[i-1] \o q[i]
    BY <2>1
  <2>3. n \in Nat /\ n > 1 /\ n-1 \in 1..(n-1) /\ n \in 1..Len(q)
    BY <1>0
  <2> HIDE DEF Fs
  <2> DEFINE e == f[n-1] \o q[n]
  <2>4. e \in Seq(S)
    BY <1>0, <2>2, <2>3, ConcatProperties
  <2> HIDE DEF e
  <2> DEFINE g == [i \in 1..n |-> IF i = n THEN e ELSE f[i]]
  <2>5. g \in [1..n -> Seq(S)] /\ g[n] = e /\ \A i \in 1..(n-1) : g[i] = f[i]
    BY <2>2, <2>3, <2>4
  <2> HIDE DEF g
  <2>6. ASSUME NEW i \in 1..n PROVE g[i] = IF i = 1 THEN q[i] ELSE g[i-1] \o q[i]
    <3>1. CASE i = n
      <4>1. g[n] = g[n-1] \o q[n]
        BY <2>3, <2>5 DEF e
      <4>2. n # 1
        BY <2>3
      <4>3. QED
        BY <3>1, <4>1, <4>2, Zenon
    <3>2. CASE i = 1
      <4>1. 1 \in 1..(n-1)
        BY <2>3
      <4>2. g[1] = f[1] /\ f[1] = q[1]
        BY <2>2, <2>5, <4>1
      <4>3. QED
        BY <3>2, <4>2, Zenon
    <3>3. CASE i # n /\ i # 1
      <4>1. i \in 1..(n-1) /\ i-1 \in 1..(n-1)
        BY <2>3, <3>3
      <4>2. QED
        BY <2>2, <2>5, <3>3, <4>1
    <3>4. QED
      BY <3>1, <3>2, <3>3
  <2>7. g \in Fs(n)
    BY <2>5, <2>6 DEF Fs
  <2>8. QED
    BY <2>3, <2>7
<1>3. Len(q) \in T
  <2>1. \A n \in 2..Len(q) : n-1 \in T => n \in T
    BY <1>2
  <2> HIDE DEF T
  <2>2. 1..Len(q) \subseteq T
    BY <1>0, <1>1, <2>1, UpToInduction
  <2>3. Len(q) \in 1..Len(q)
    BY <1>0
  <2>4. QED
    BY <2>2, <2>3, Zenon
<1>4. PICK f \in Fs(Len(q)) : TRUE
  BY <1>3
<1>5. Concats(f, q)
  BY <1>4 DEF Concats
<1>6. QED
  BY <1>4, <1>5

\* The concatenations of the first elements of q.
Flat(q) == CHOOSE flatten :
    flatten = [i \in 1..Len(q) |-> IF i = 1 THEN q[i] ELSE flatten[i-1] \o q[i]]

LEMMA FlatStep ==
    ASSUME NEW S, NEW q \in Seq(Seq(S)), q # <<>>
    PROVE  /\ FlattenSeq(q) = Flat(q)[Len(q)]
           /\ \A i \in 1..Len(q) : Flat(q)[i] = IF i = 1 THEN q[i] ELSE Flat(q)[i-1] \o q[i]
           /\ \A i \in 1..Len(q) : Flat(q)[i] \in Seq(S)
<1>0. Len(q) \in Nat \ {0} /\ \A i \in 1..Len(q) : q[i] \in Seq(S)
  BY EmptySeq, ElementOfSeq
<1>1. Concats(Flat(q), q)
  <2>1. \E f : Concats(f, q)
    BY ConcatsExist
  <2>2. QED
    BY <2>1, Zenon DEF Concats, Flat
<1>2. FlattenSeq(q) = Flat(q)[Len(q)]
  BY <1>0 DEF FlattenSeq, Flat
<1> DEFINE f == Flat(q)
<1> HIDE DEF f
<1>3. \A i \in 1..Len(q) : f[i] = IF i = 1 THEN q[i] ELSE f[i-1] \o q[i]
  BY <1>1 DEF Concats, f
<1> DEFINE T == {i \in 1..Len(q) : f[i] \in Seq(S)}
<1>4. ASSUME NEW n \in 2..Len(q), n-1 \in T PROVE n \in T
  <2>1. n \in 1..Len(q) /\ n # 1 /\ f[n-1] \in Seq(S)
    BY <1>0, <1>4
  <2>2. f[n] = f[n-1] \o q[n] /\ q[n] \in Seq(S)
    BY <1>0, <1>3, <2>1
  <2>3. QED
    BY <2>1, <2>2, ConcatProperties
<1>5. 1 \in T
  BY <1>0, <1>3
<1>6. 1..Len(q) \subseteq T
  <2> HIDE DEF T
  <2>1. QED
    BY <1>0, <1>4, <1>5, UpToInduction
<1>7. QED
  BY <1>2, <1>3, <1>6 DEF f

LEMMA FlattenAppend ==
    ASSUME NEW S, NEW q \in Seq(Seq(S)), NEW e \in Seq(S)
    PROVE  /\ FlattenSeq(q) \in Seq(S)
           /\ FlattenSeq(Append(q, e)) = FlattenSeq(q) \o e
<1> DEFINE a == Append(q, e)
<1>0. Len(q) \in Nat /\ a \in Seq(Seq(S)) /\ a # <<>> /\ Len(a) = Len(q)+1
      /\ a[Len(q)+1] = e /\ \A i \in 1..Len(q) : a[i] = q[i]
  BY LenProperties, AppendProperties
<1> HIDE DEF a
<1>1. /\ FlattenSeq(a) = Flat(a)[Len(q)+1]
      /\ \A i \in 1..(Len(q)+1) : Flat(a)[i] = IF i = 1 THEN a[i] ELSE Flat(a)[i-1] \o a[i]
  BY <1>0, FlatStep
<1>2. CASE q = <<>>
  <2>1. FlattenSeq(q) = <<>>
    BY <1>2 DEF FlattenSeq
  <2>2. FlattenSeq(a) = e
    BY <1>0, <1>1, <1>2
  <2>3. QED
    BY <2>1, <2>2, ConcatEmptySeq, EmptySeq DEF a
<1>3. CASE q # <<>>
  <2>0. Len(q) \in Nat \ {0}
    BY <1>3, EmptySeq
  <2>1. /\ FlattenSeq(q) = Flat(q)[Len(q)]
        /\ \A i \in 1..Len(q) : Flat(q)[i] = IF i = 1 THEN q[i] ELSE Flat(q)[i-1] \o q[i]
        /\ \A i \in 1..Len(q) : Flat(q)[i] \in Seq(S)
    BY <1>3, FlatStep
  <2> DEFINE f == Flat(q)
  <2> DEFINE g == Flat(a)
  <2> HIDE DEF f, g
  <2> DEFINE T == {i \in 1..Len(q) : g[i] = f[i]}
  <2>2. 1 \in T
    BY <1>0, <1>1, <2>0, <2>1 DEF f, g
  <2>3. ASSUME NEW n \in 2..Len(q), n-1 \in T PROVE n \in T
    <3>1. n \in 1..Len(q) /\ n \in 1..(Len(q)+1) /\ n # 1 /\ g[n-1] = f[n-1]
      BY <2>0, <2>3
    <3>2. g[n] = g[n-1] \o a[n] /\ f[n] = f[n-1] \o q[n] /\ a[n] = q[n]
      BY <1>0, <1>1, <2>1, <3>1 DEF f, g
    <3>3. QED
      BY <3>1, <3>2
  <2>4. 1..Len(q) \subseteq T
    <3> HIDE DEF T
    <3>1. QED
      BY <2>0, <2>2, <2>3, UpToInduction
  <2>5. g[Len(q)] = f[Len(q)] /\ Len(q) \in 1..Len(q)
    BY <2>0, <2>4
  <2>6. g[Len(q)+1] = g[Len(q)] \o e
    <3>1. Len(q)+1 \in 1..(Len(q)+1) /\ Len(q)+1 # 1 /\ (Len(q)+1)-1 = Len(q)
      BY <2>0
    <3>2. QED
      BY <1>0, <1>1, <3>1 DEF g
  <2>7. QED
    BY <1>1, <2>1, <2>5, <2>6 DEF a, f, g
<1>4. QED
  BY <1>2, <1>3

Requests(g) == [i \in DOMAIN g |-> g[i].request]

LEMMA RequestsAppend ==
    ASSUME NEW g \in Seq(Responses), NEW r \in Responses
    PROVE  /\ Requests(g) \in Seq(Seq(Units))
           /\ Requests(Append(g, r)) = Append(Requests(g), r.request)
           /\ r.request \in Seq(Units)
<1>1. \A x \in Responses : x.request \in Seq(Units)
  BY DEF Responses
<1>2. /\ Len(g) \in Nat /\ DOMAIN g = 1..Len(g) /\ \A i \in 1..Len(g) : g[i] \in Responses
      /\ Append(g, r) \in Seq(Responses) /\ DOMAIN Append(g, r) = 1..(Len(g)+1)
      /\ \A i \in 1..Len(g) : Append(g, r)[i] = g[i]
      /\ Append(g, r)[Len(g)+1] = r
  BY LenProperties, AppendProperties
<1>3. Requests(g) \in Seq(Seq(Units)) /\ Len(Requests(g)) = Len(g)
  BY <1>1, <1>2 DEF Requests
<1>4. Requests(Append(g, r)) \in Seq(Seq(Units)) /\ Len(Requests(Append(g, r))) = Len(g) + 1
  BY <1>1, <1>2 DEF Requests
<1>5. r.request \in Seq(Units)
  BY <1>1
<1> DEFINE u == Append(Requests(g), r.request)
<1>6. /\ u \in Seq(Seq(Units)) /\ Len(u) = Len(g) + 1
      /\ \A i \in 1..Len(g) : u[i] = Requests(g)[i]
      /\ u[Len(g)+1] = r.request
  BY <1>3, <1>5, AppendProperties
<1>7. \A i \in 1..(Len(g)+1) : Requests(Append(g, r))[i] = u[i]
  <2> HIDE DEF u
  <2>1. QED
    BY <1>2, <1>6 DEF Requests
<1>8. Requests(Append(g, r)) = u
  <2> HIDE DEF u
  <2>1. QED
    BY <1>4, <1>6, <1>7, SeqEqual
<1>9. QED
  BY <1>3, <1>5, <1>8

LEMMA AnsweredAppend ==
    ASSUME NEW g \in Seq(Responses), NEW r \in Responses
    PROVE  /\ FlattenSeq(Requests(g)) \in Seq(Units)
           /\ FlattenSeq(Requests(Append(g, r))) = FlattenSeq(Requests(g)) \o r.request
           /\ r.request \in Seq(Units)
BY RequestsAppend, FlattenAppend

LEMMA AnsweredNothing == FlattenSeq(Requests(<<>>)) = <<>>
<1>1. Requests(<<>>) = <<>>
  BY DEF Requests
<1>2. QED
  BY <1>1 DEF FlattenSeq

-----------------------------------------------------------------------------
(* The operators of the model.                                             *)

LEMMA GrownFacts ==
    ASSUME NEW b \in Seq(Units), NEW n \in Nat
    PROVE  Grown(b, n) \in Nat /\ Len(b) < Grown(b, n) /\ Grown(b, n) - Len(b) \in Nat \ {0}
<1>1. Len(b) \in Nat /\ MinSize \in Nat \ {0} /\ n \div 2 \in Nat /\ n \div 2 =< n
  BY LenProperties, ConstantsAssumption
<1> DEFINE m == Max({MinSize, Len(b) * 2})
<1>2. m \in {MinSize, Len(b) * 2} /\ m >= MinSize /\ m >= Len(b) * 2
  <2>1. \E x \in {MinSize, Len(b) * 2} : \A y \in {MinSize, Len(b) * 2} : x >= y
    <3>1. CASE MinSize >= Len(b) * 2
      BY <1>1, <3>1
    <3>2. CASE ~(MinSize >= Len(b) * 2)
      BY <1>1, <3>2
    <3>3. QED
      BY <3>1, <3>2
  <2>2. QED
    BY <2>1 DEF Max
<1> HIDE DEF m
<1>3. m \in Nat /\ Len(b) < m
  BY <1>1, <1>2
<1>4. Grown(b, n) = IF Len(b) >= n \div 2 THEN m ELSE n
  BY DEF Grown, m
<1>5. QED
  BY <1>1, <1>3, <1>4

\* find_request_len() finds the end of a request, if there is one.
LEMMA RequestLenFacts ==
    ASSUME NEW b \in Seq(Units)
    PROVE  /\ RequestLen(b) \in 0..Len(b)
           /\ RequestLen(b) # 0 => b[RequestLen(b)] \in EndUnits
<1>1. Len(b) \in Nat /\ DOMAIN b = 1..Len(b) /\ \A i \in 1..Len(b) : b[i] \in Units
  BY LenProperties, ElementOfSeq
<1>2. CASE \A i \in DOMAIN b : b[i] = "part"
  BY <1>1, <1>2 DEF RequestLen
<1>3. CASE ~(\A i \in DOMAIN b : b[i] = "part")
  <2> DEFINE T == {i \in DOMAIN b : b[i] # "part"}
  <2>1. PICK k \in T : \A y \in T : k =< y
    <3>1. T \subseteq Nat /\ T # {}
      BY <1>1, <1>3
    <3> HIDE DEF T
    <3>2. QED
      BY <3>1, LeastNumber
  <2>2. k \in DOMAIN b /\ b[k] # "part" /\ \A j \in 1..(k-1) : b[j] = "part"
    BY <1>1, <2>1
  <2> DEFINE r == CHOOSE i \in DOMAIN b : b[i] # "part" /\ \A j \in 1..(i-1) : b[j] = "part"
  <2>3. r \in DOMAIN b /\ b[r] # "part"
    BY <2>2
  <2>4. RequestLen(b) = r
    BY <1>3 DEF RequestLen
  <2> HIDE DEF r
  <2>5. QED
    BY <1>1, <2>3, <2>4 DEF Units
<1>4. QED
  BY <1>2, <1>3

EofLast(q) == \A i \in 1..Len(q) : q[i] = "eof" => i = Len(q)

LEMMA ReadableFacts ==
    ASSUME NEW q \in Seq(Wire), q # <<>>, NEW n \in Nat \ {0}, EofLast(q)
    PROVE  /\ Readable(q, n) \in 0..Len(q) /\ Readable(q, n) =< n
           /\ \A i \in 1..Readable(q, n) : q[i] # "eof"
           /\ Readable(q, n) = 0 => Len(q) = 1 /\ q[1] = "eof"
<1>1. Len(q) \in Nat \ {0}
  BY EmptySeq
<1> DEFINE R(k) == /\ k =< n
                   /\ \A i \in 1..k : q[i] # "eof"
                   /\ (k = n \/ k = Len(q) \/ q[k+1] = "eof")
<1> DEFINE m == IF q[Len(q)] = "eof" THEN Len(q) - 1 ELSE Len(q)
<1> DEFINE k0 == IF n =< m THEN n ELSE m
<1>2. m \in Nat /\ m =< Len(q) /\ k0 \in 0..Len(q) /\ k0 =< n /\ k0 =< m
  BY <1>1
<1>3. \A i \in 1..k0 : q[i] # "eof"
  BY <1>1, <1>2 DEF EofLast
<1>4. k0 = n \/ k0 = Len(q) \/ q[k0+1] = "eof"
  BY <1>1, <1>2
<1>5. \E k \in 0..Len(q) : R(k)
  <2>1. R(k0)
    BY <1>2, <1>3, <1>4
  <2> HIDE DEF k0
  <2>2. QED
    BY <1>2, <2>1
<1> DEFINE r == CHOOSE k \in 0..Len(q) : R(k)
<1>6. Readable(q, n) = r
  BY DEF Readable
<1>7. r \in 0..Len(q) /\ R(r)
  BY <1>5
<1> HIDE DEF r
<1>8. r = 0 => Len(q) = 1 /\ q[1] = "eof"
  <2>1. r = 0 => q[0+1] = "eof"
    BY <1>1, <1>7
  <2>2. 1 \in 1..Len(q) /\ 0+1 = 1
    BY <1>1
  <2>3. q[1] = "eof" => 1 = Len(q)
    BY <2>2 DEF EofLast
  <2>4. QED
    BY <2>1, <2>2, <2>3
<1>9. QED
  BY <1>6, <1>7, <1>8

\* async_read_some() waits, or reads the end of the stream, or a part of the queue.
LEMMA ReadSomeFacts ==
    ASSUME NEW q \in Seq(Wire), NEW n \in Nat \ {0}, EofLast(q), ReadSome(q, n, <<>>)
    PROVE  \/ /\ q = <<>> /\ reading' = TRUE /\ inq' = <<>> /\ posted' = <<>>
           \/ /\ Len(q) = 1 /\ q[1] = "eof" /\ reading' = FALSE /\ inq' = <<>>
              /\ posted' = <<Completion("on_read", "eof", <<>>)>>
           \/ \E k \in 1..Len(q) :
                /\ k =< n /\ reading' = FALSE
                /\ SubSeq(q, 1, k) \in Seq(Units)
                /\ inq' = SubSeq(q, k+1, Len(q))
                /\ posted' = <<Completion("on_read", "ok", SubSeq(q, 1, k))>>
<1>1. CASE q = <<>>
  BY <1>1 DEF ReadSome
<1>2. CASE q # <<>>
  <2> DEFINE k == Readable(q, n)
  <2>1. /\ k \in 0..Len(q) /\ k =< n /\ \A i \in 1..k : q[i] # "eof"
        /\ k = 0 => Len(q) = 1 /\ q[1] = "eof"
    BY <1>2, ReadableFacts
  <2>2. /\ reading' = FALSE
        /\ inq' = IF k = 0 THEN Tail(q) ELSE SubSeq(q, k+1, Len(q))
        /\ posted' = Append(<<>>, IF k = 0 THEN Completion("on_read", "eof", <<>>)
                                ELSE Completion("on_read", "ok", SubSeq(q, 1, k)))
    BY <1>2 DEF ReadSome
  <2>3. Len(q) \in Nat
    BY LenProperties
  <2> HIDE DEF k
  <2>4. CASE k = 0
    <3>1. Tail(q) = <<>>
      <4>1. Len(q) = 1
        BY <2>1, <2>4, Zenon
      <4>2. Len(q) =< 1
        BY <4>1
      <4>3. QED
        BY <1>2, <4>2, OneElement
    <3>2. posted' = <<Completion("on_read", "eof", <<>>)>>
      BY <2>2, <2>4
    <3>3. QED
      BY <2>1, <2>2, <2>4, <3>1, <3>2
  <2>5. CASE k # 0
    <3>1. k \in 1..Len(q)
      BY <2>1, <2>3, <2>5
    <3>2. SubSeq(q, 1, k) \in Seq(Units)
      <4>1. \A i \in 1..k : q[i] \in Units
        BY <2>1, <2>3, ElementOfSeq DEF Wire
      <4>2. 1 \in Int /\ k \in Int
        BY <2>1, <2>3
      <4>3. QED
        BY <4>1, <4>2, SubSeqProperties
    <3>3. posted' = <<Completion("on_read", "ok", SubSeq(q, 1, k))>>
      BY <2>2, <2>5
    <3>4. QED
      BY <2>1, <2>2, <2>5, <3>1, <3>2, <3>3
  <2>6. QED
    BY <2>4, <2>5
<1>3. QED
  BY <1>1, <1>2

IsCompletion(p, h, ec, d) ==
    /\ p \in Seq(Completions) /\ p # <<>> /\ Len(p) = 1 /\ Tail(p) = <<>>
    /\ Head(p).h = h /\ Head(p).ec = ec /\ Head(p).data = d

LEMMA CompletionFacts ==
    ASSUME NEW h \in {"on_accept", "on_read", "on_write"},
           NEW ec \in {"ok", "eof", "operation_aborted"}, NEW d \in Seq(Units)
    PROVE  IsCompletion(<<Completion(h, ec, d)>>, h, ec, d)
<1>1. Completion(h, ec, d) \in Completions
  BY DEF Completion, Completions
<1>2. Completion(h, ec, d).h = h /\ Completion(h, ec, d).ec = ec /\ Completion(h, ec, d).data = d
  BY DEF Completion
<1> DEFINE e == Completion(h, ec, d)
<1> HIDE DEF e
<1>3. <<e>> \in Seq(Completions) /\ <<e>> # <<>> /\ Len(<<e>>) = 1 /\ Tail(<<e>>) = <<>> /\ Head(<<e>>) = e
  BY <1>1 DEF e
<1>4. QED
  BY <1>2, <1>3 DEF e, IsCompletion

LEMMA ClosingFacts ==
    ASSUME NEW c \in Clients, sent[c] \in Seq(Units), ~Closing(c)
    PROVE  \A i \in DOMAIN sent[c] : ~ClosingUnit(sent[c][i])
BY DEF Closing, ClosingUnit, ToSet

-----------------------------------------------------------------------------
(* Between two connections.                                                *)

\* The clients q wait, none is open, and everyone who was served was served well.
Between(q, st) ==
    /\ q \in Seq(Clients)
    /\ st \in [Clients -> ClientStates]
    /\ \A c \in Clients : st[c] # "open"
    /\ \A i \in DOMAIN q :
        st[q[i]] \in {"waiting", "hungup"} /\ sent[q[i]] = <<>> /\ got[q[i]] = <<>>
    /\ \A i, j \in DOMAIN q : i # j => q[i] # q[j]
    /\ \A c \in Clients :
        st[c] \in {"idle", "waiting"} => sent[c] = <<>> /\ got[c] = <<>>
    /\ \A c \in Clients : \A i \in DOMAIN sent[c] :
        ClosingUnit(sent[c][i]) => i = Len(sent[c]) /\ st[c] # "hungup"
    /\ \A c \in Clients : st[c] = "closed" =>
        ("bad" \in ToSet(sent[c])) \/ (got[c] # <<>> /\ Last(got[c]).close)
    /\ AnswersFit

\* The connection is closed and the buffers are empty.
Cleared ==
    /\ recv' = <<>> /\ inq' = <<>> /\ size' \in Nat
    /\ reading' = FALSE /\ writing' = FALSE
    /\ UNCHANGED <<flags, response, sent, got>>

LEMMA ClearedTypes ==
    ASSUME TypeOK, Cleared
    PROVE  /\ flags' \in FlagSets /\ response' \in Responses /\ size' \in Nat
           /\ recv' \in Seq(Units) /\ inq' \in Seq(Units \cup {"eof"})
           /\ reading' \in BOOLEAN /\ writing' \in BOOLEAN
           /\ sent' \in [Clients -> Seq(Units)] /\ got' \in [Clients -> Seq(Responses)]
<1>1. <<>> \in Seq(Units) /\ <<>> \in Seq(Units \cup {"eof"})
  BY EmptySeq
<1>2. QED
  BY <1>1 DEF TypeOK, Cleared

LEMMA Framed ==
    ASSUME UNCHANGED <<flags, sent, got>>
    PROVE  /\ \A u : ClosingUnit(u)' <=> ClosingUnit(u)
           /\ \A c : AnsweredUnits(c)' = AnsweredUnits(c)
           /\ AnswersFit' <=> AnswersFit
BY DEF ClosingUnit, Closes, AnsweredUnits, AnswersFit, BeginsWith

\* close_connection() after stop(), and an accept that waits.
LEMMA NoneConnected ==
    ASSUME TypeOK, NEW q, NEW st, Between(q, st), Cleared,
           backlog' = q, state' = st, conn' = NoClient, posted' = <<>>,
           m_close' \in BOOLEAN, accepting' \in BOOLEAN, accepting' \/ m_close'
    PROVE  IInv'
<1>1. TypeOK'
  <2>1. <<>> \in Seq(Completions)
    BY EmptySeq
  <2>2. QED
    BY <2>1, ClearedTypes DEF TypeOK, Between
<1>2. OneStep' /\ StepFits'
  <2>1. Data' = <<>> /\ ~EofPosted' /\ \A h : ~IsPosted(h)'
    BY DEF Data, EofPosted, IsPosted
  <2>2. OneStep'
    BY DEF OneStep, Cleared, Nothing
  <2>3. StepFits'
    BY <2>1 DEF StepFits, Cleared
  <2>4. QED
    BY <2>2, <2>3
<1>3. OneClient'
  <2>1. NoClient \notin Clients /\ \A i \in DOMAIN q : q[i] \in Clients
    BY ConstantsAssumption DEF Between
  <2>2. QED
    BY <2>1 DEF OneClient, Between, Cleared
<1>4. ClosingIsLast'
  BY Framed DEF ClosingIsLast, Between, Cleared
<1>5. UnparsedIsOwn' /\ ResponseFits' /\ NothingSkipped'
  BY DEF UnparsedIsOwn, ResponseFits, NothingSkipped, Cleared, IsPosted
<1>6. AnswersFit'
  BY Framed DEF Between, Cleared
<1>7. CloseIsAnnounced'
  BY DEF CloseIsAnnounced, Between, Cleared, ToSet
<1>8. QED
  BY <1>1, <1>2, <1>3, <1>4, <1>5, <1>6, <1>7 DEF IInv

\* check_accept_queue() with an accept pending.
LEMMA Accepted ==
    ASSUME TypeOK, NEW q, NEW st, Between(q, st), Cleared, UNCHANGED m_close,
           Accept(q, <<>>, st)
    PROVE  IInv'
<1>1. CASE q = <<>>
  BY <1>1, NoneConnected DEF Accept, TypeOK
<1>2. CASE q # <<>>
  <2> DEFINE c == Head(q)
  <2>1. /\ q \in Seq(Clients) /\ Tail(q) \in Seq(Clients) /\ c \in Clients /\ c = q[1]
        /\ Len(q) \in Nat \ {0} /\ DOMAIN q = 1..Len(q)
        /\ DOMAIN Tail(q) = 1..(Len(q)-1)
        /\ \A i \in 1..(Len(q)-1) : Tail(q)[i] = q[i+1] /\ i+1 \in 1..Len(q) /\ i+1 # 1
    <3>1. q \in Seq(Clients)
      BY DEF Between
    <3>2. Len(q) \in Nat \ {0}
      BY <1>2, <3>1, EmptySeq
    <3>3. QED
      BY <1>2, <3>1, <3>2, HeadTailProperties, LenProperties
  <2>2. NoClient \notin Clients /\ c # NoClient
    BY <2>1, ConstantsAssumption
  <2>3. st[c] \in {"waiting", "hungup"} /\ sent[c] = <<>> /\ got[c] = <<>>
    BY <2>1 DEF Between
  <2>4. /\ accepting' = FALSE /\ backlog' = Tail(q) /\ conn' = c
        /\ posted' = <<Completion("on_accept", "ok", <<>>)>>
        /\ state' = IF st[c] = "waiting" THEN [st EXCEPT ![c] = "open"] ELSE st
    BY <1>2 DEF Accept
  <2> HIDE DEF c
  <2>5. /\ posted' \in Seq(Completions) /\ posted' # <<>> /\ Len(posted') = 1
        /\ Head(posted').h = "on_accept" /\ Head(posted').ec = "ok"
        /\ Head(posted').data = <<>>
    <3>1. <<>> \in Seq(Units)
      BY EmptySeq
    <3>2. IsCompletion(<<Completion("on_accept", "ok", <<>>)>>, "on_accept", "ok", <<>>)
      BY <3>1, CompletionFacts
    <3>3. QED
      BY <2>4, <3>2 DEF IsCompletion
  <2>6. /\ state' \in [Clients -> ClientStates]
        /\ state'[c] \in {"open", "hungup"} /\ (state'[c] = "hungup" => st[c] = "hungup")
        /\ \A d \in Clients : d # c => state'[d] = st[d]
    BY <2>1, <2>3, <2>4 DEF Between, ClientStates
  <2>7. Data' = <<>> /\ ~EofPosted' /\ IsPosted("on_accept")'
        /\ ~IsPosted("on_read")' /\ ~IsPosted("on_write")'
    BY <2>5 DEF Data, EofPosted, IsPosted
  <2>8. TypeOK'
    <3>1. m_close' \in BOOLEAN /\ accepting' \in BOOLEAN
      BY <2>4 DEF TypeOK
    <3>2. QED
      BY <2>1, <2>4, <2>5, <2>6, <3>1, ClearedTypes DEF TypeOK
  <2>9. OneStep' /\ StepFits'
    <3>1. OneStep'
      BY <2>4, <2>5 DEF OneStep, Nothing, Cleared
    <3>2. Len(<<>>) = 0
      OBVIOUS
    <3>3. StepFits'
      BY <2>2, <2>4, <2>5, <2>7, <3>2 DEF StepFits, Cleared
    <3>4. QED
      BY <3>1, <3>3
  <2>10. OneClient'
    <3>1. \A d \in Clients : state'[d] = "open" => d = c
      BY <2>6 DEF Between
    <3>2. ASSUME NEW i \in 1..(Len(q)-1)
          PROVE  /\ state'[Tail(q)[i]] \in {"waiting", "hungup"} /\ Tail(q)[i] # c
                 /\ sent[Tail(q)[i]] = <<>> /\ got[Tail(q)[i]] = <<>>
      <4>1. Tail(q)[i] = q[i+1] /\ i+1 \in DOMAIN q /\ i+1 # 1 /\ 1 \in DOMAIN q
        BY <2>1
      <4>2. q[i+1] # c /\ q[i+1] \in Clients
        BY <2>1, <4>1 DEF Between
      <4>3. QED
        BY <2>6, <4>1, <4>2 DEF Between
    <3>3. \A i, j \in 1..(Len(q)-1) : i # j => Tail(q)[i] # Tail(q)[j]
      BY <2>1 DEF Between
    <3>4. \A d \in Clients : state'[d] \in {"idle", "waiting"} => sent[d] = <<>> /\ got[d] = <<>>
      BY <2>6 DEF Between
    <3>5. QED
      BY <2>1, <2>2, <2>4, <2>6, <3>1, <3>2, <3>3, <3>4 DEF OneClient, Cleared
  <2>11. ClosingIsLast'
    BY <2>6, Framed DEF ClosingIsLast, Between, Cleared
  <2>12. Unparsed' = <<>>
    BY <2>7 DEF Unparsed, Cleared
  <2>13. UnparsedIsOwn'
    <3>1. Stream(c)' \in Seq(Wire)
      <4>1. sent[c] \in Seq(Units) /\ sent' = sent
        BY <2>1 DEF TypeOK, Cleared
      <4>2. sent[c] \in Seq(Wire) /\ "eof" \in Wire
        BY <4>1, SeqWider DEF Wire
      <4>3. QED
        BY <4>1, <4>2, AppendProperties DEF Stream
    <3>2. EndsWith(Stream(c)', <<>>)
      BY <3>1, EndsWithNothing
    <3>3. QED
      BY <2>4, <2>12, <3>2 DEF UnparsedIsOwn, EndsWith, Stream
  <2>14. ResponseFits'
    BY <2>7 DEF ResponseFits, Cleared
  <2>15. NothingSkipped'
    <3>1. AnsweredUnits(c)' = <<>>
      BY <2>3, AnsweredNothing DEF AnsweredUnits, Requests, Cleared
    <3>2. Len(<<>>) = 0
      OBVIOUS
    <3>3. QED
      BY <2>3, <2>4, <2>12, <3>1, <3>2 DEF NothingSkipped, Cleared, AnsweredUnits
  <2>16. AnswersFit'
    BY Framed DEF Between, Cleared
  <2>17. CloseIsAnnounced'
    <3>1. \A d \in Clients : state'[d] = "closed" => st[d] = "closed"
      BY <2>6
    <3>2. QED
      BY <3>1 DEF CloseIsAnnounced, Between, Cleared, ToSet
  <2>18. QED
    BY <2>8, <2>9, <2>10, <2>11, <2>13, <2>14, <2>15, <2>16, <2>17 DEF IInv
<1>3. QED
  BY <1>1, <1>2

-----------------------------------------------------------------------------
(* The actions.                                                            *)

LEMMA Initially == Init => IInv
<1> SUFFICES ASSUME Init PROVE IInv
  OBVIOUS
<1>1. TypeOK
  <2>1. /\ <<>> \in Seq(Units) /\ <<>> \in Seq(Units \cup {"eof"}) /\ <<>> \in Seq(Completions)
        /\ <<>> \in Seq(Clients) /\ <<>> \in Seq(Responses)
    BY EmptySeq
  <2>2. NoResponse \in Responses
    BY <2>1 DEF NoResponse, Responses
  <2>3. 0 \in Nat
    OBVIOUS
  <2>4. QED
    BY <2>1, <2>2, <2>3 DEF Init, TypeOK, ClientStates
<1>2. Data = <<>> /\ ~EofPosted /\ (\A h : ~IsPosted(h)) /\ Len(<<>>) = 0
  BY DEF Init, Data, EofPosted, IsPosted
<1>3. OneStep /\ StepFits
  BY <1>2 DEF Init, OneStep, StepFits, Nothing
<1>4. OneClient /\ ClosingIsLast /\ CloseIsAnnounced
  BY DEF Init, OneClient, ClosingIsLast, CloseIsAnnounced
<1>5. UnparsedIsOwn /\ ResponseFits /\ NothingSkipped
  BY <1>2 DEF Init, UnparsedIsOwn, ResponseFits, NothingSkipped
<1>6. AnswersFit
  <2>1. ASSUME NEW c \in Clients PROVE BeginsWith(sent[c], AnsweredUnits(c))
    <3>1. AnsweredUnits(c) = <<>> /\ sent[c] = <<>>
      BY AnsweredNothing DEF Init, AnsweredUnits, Requests
    <3>2. QED
      BY <3>1 DEF BeginsWith
  <2>2. QED
    BY <2>1 DEF AnswersFit
<1>7. QED
  BY <1>1, <1>3, <1>4, <1>5, <1>6 DEF IInv

\* A step that changes nothing of what the clients and the queue are about.
LEMMA ClientsFramed ==
    ASSUME IInv, UNCHANGED <<flags, backlog, conn, state, sent, got>>
    PROVE  OneClient' /\ ClosingIsLast' /\ AnswersFit' /\ CloseIsAnnounced'
<1>1. OneClient'
  BY DEF IInv, OneClient
<1>2. ClosingIsLast'
  BY Framed DEF IInv, ClosingIsLast
<1>3. AnswersFit'
  BY Framed DEF IInv
<1>4. CloseIsAnnounced'
  BY DEF IInv, CloseIsAnnounced, ToSet
<1>5. QED
  BY <1>1, <1>2, <1>3, <1>4

\* The completion that runs is the only thing outstanding.
LEMMA RunningAlone ==
    ASSUME IInv, posted # <<>>
    PROVE  /\ ~accepting /\ ~reading /\ ~writing
           /\ Tail(posted) = <<>> /\ posted = <<Head(posted)>> /\ Head(posted) \in Completions
           /\ Data = Head(posted).data /\ Data \in Seq(Units)
<1>1. ~accepting /\ ~reading /\ ~writing /\ Len(posted) =< 1 /\ posted \in Seq(Completions)
  BY DEF IInv, OneStep, TypeOK
<1>2. Tail(posted) = <<>> /\ posted = <<Head(posted)>> /\ Head(posted) \in Completions
  BY <1>1, OneElement
<1>3. Data = Head(posted).data
  BY DEF Data
<1>4. QED
  BY <1>1, <1>2, <1>3 DEF Completions

LEMMA CloseStep ==
    ASSUME IInv, posted # <<>>, close_connection, inq = <<>>,
           conn # NoClient /\ state[conn] = "open" =>
            ("bad" \in ToSet(sent[conn])) \/ (got[conn] # <<>> /\ Last(got[conn]).close)
    PROVE  IInv'
<1>1. ~accepting /\ ~reading /\ ~writing /\ Tail(posted) = <<>>
  BY RunningAlone
<1>2. AbortIf(reading, "on_read") = <<>> /\ AbortIf(writing, "on_write") = <<>>
      /\ AbortIf(accepting, "on_accept") = <<>>
  BY <1>1 DEF AbortIf
<1>3. PostedAfterClose = <<>> /\ PostedAfterClose \o AbortIf(accepting, "on_accept") = <<>>
  <2>1. <<>> \o <<>> = <<>>
    OBVIOUS
  <2>2. QED
    BY <1>1, <1>2, <2>1 DEF PostedAfterClose
<1>4. Cleared /\ UNCHANGED m_close
  BY DEF Cleared, close_connection, CloseAndAccept
<1> DEFINE st == StateAfterClose
<1>5. /\ st \in [Clients -> ClientStates]
      /\ \A c \in Clients : \/ st[c] = state[c] /\ state[c] # "open"
                            \/ st[c] = "closed" /\ c = conn /\ state[c] = "open"
  <2>1. /\ state \in [Clients -> ClientStates] /\ NoClient \notin Clients
        /\ conn \in Clients \cup {NoClient}
        /\ \A c \in Clients : state[c] = "open" => c = conn
    BY ConstantsAssumption DEF IInv, TypeOK, OneClient
  <2>2. CASE conn # NoClient /\ state[conn] = "open"
    <3>1. st = [state EXCEPT ![conn] = "closed"]
      BY <2>2 DEF StateAfterClose
    <3> HIDE DEF st
    <3>2. QED
      BY <2>1, <2>2, <3>1 DEF ClientStates
  <2>3. CASE ~(conn # NoClient /\ state[conn] = "open")
    <3>1. st = state
      BY <2>3 DEF StateAfterClose
    <3> HIDE DEF st
    <3>2. QED
      BY <2>1, <2>3, <3>1
  <2>4. QED
    BY <2>2, <2>3
<1> HIDE DEF st
<1>6. Between(backlog, st)
  <2>1. backlog \in Seq(Clients) /\ (\A i \in DOMAIN backlog : backlog[i] \in Clients)
    BY DEF IInv, TypeOK
  <2>2. \A c \in Clients : st[c] # "open"
    BY <1>5
  <2>3. \A i \in DOMAIN backlog :
            /\ st[backlog[i]] \in {"waiting", "hungup"}
            /\ sent[backlog[i]] = <<>> /\ got[backlog[i]] = <<>>
    BY <1>5, <2>1 DEF IInv, OneClient
  <2>4. \A i, j \in DOMAIN backlog : i # j => backlog[i] # backlog[j]
    BY DEF IInv, OneClient
  <2>5. \A c \in Clients :
            st[c] \in {"idle", "waiting"} => sent[c] = <<>> /\ got[c] = <<>>
    BY <1>5 DEF IInv, OneClient
  <2>6. \A c \in Clients : \A i \in DOMAIN sent[c] :
            ClosingUnit(sent[c][i]) => i = Len(sent[c]) /\ st[c] # "hungup"
    BY <1>5 DEF IInv, ClosingIsLast
  <2>7. \A c \in Clients : st[c] = "closed" =>
            ("bad" \in ToSet(sent[c])) \/ (got[c] # <<>> /\ Last(got[c]).close)
    <3>1. NoClient \notin Clients
      BY ConstantsAssumption
    <3>2. QED
      BY <1>5, <3>1 DEF IInv, CloseIsAnnounced
  <2>8. AnswersFit
    BY DEF IInv
  <2>9. QED
    BY <1>5, <2>1, <2>2, <2>3, <2>4, <2>5, <2>6, <2>7, <2>8 DEF Between
<1>7. TypeOK
  BY DEF IInv
<1>8. CASE m_close
  <2>1. /\ conn' = NoClient /\ posted' = <<>> /\ state' = st
        /\ backlog' = backlog /\ accepting' = accepting
    BY <1>3, <1>8 DEF close_connection, CloseAndAccept, st
  <2>2. m_close' \in BOOLEAN /\ accepting' \in BOOLEAN /\ m_close'
    BY <1>4, <1>7, <1>8, <2>1 DEF TypeOK
  <2>3. QED
    BY <1>4, <1>6, <1>7, <2>1, <2>2, NoneConnected
<1>9. CASE ~m_close
  <2>1. Accept(backlog, <<>>, st)
    BY <1>3, <1>9 DEF close_connection, CloseAndAccept, st
  <2>2. QED
    BY <1>4, <1>6, <1>7, <2>1, Accepted
<1>10. QED
  BY <1>8, <1>9

-----------------------------------------------------------------------------
(* What is unparsed.                                                       *)

LEMMA WireAssociative ==
    \A s, t, u \in Seq(Wire) : (s \o t) \o u = s \o (t \o u)
BY Associative

LEMMA WireTypes ==
    ASSUME IInv
    PROVE  /\ recv \in Seq(Wire) /\ Data \in Seq(Wire) /\ inq \in Seq(Wire)
           /\ recv \in Seq(Units) /\ Data \in Seq(Units)
           /\ recv \o Data \in Seq(Units) /\ recv \o Data \in Seq(Wire)
           /\ Unparsed \in Seq(Wire)
           /\ Len(recv \o Data) = Len(recv) + Len(Data)
           /\ Len(Unparsed) = Len(recv \o Data) + Len(inq)
           /\ conn # NoClient => /\ conn \in Clients /\ sent[conn] \in Seq(Units)
                                 /\ sent[conn] \in Seq(Wire) /\ Stream(conn) \in Seq(Wire)
<1>1. Units \subseteq Wire /\ "eof" \in Wire
  BY DEF Wire
<1>2. recv \in Seq(Units) /\ inq \in Seq(Wire)
  BY DEF IInv, TypeOK, Wire
<1>3. Data \in Seq(Units)
  <2>1. CASE posted = <<>>
    BY <2>1, EmptySeq DEF Data
  <2>2. CASE posted # <<>>
    BY <2>2, RunningAlone
  <2>3. QED
    BY <2>1, <2>2
<1>4. recv \in Seq(Wire) /\ Data \in Seq(Wire)
  BY <1>1, <1>2, <1>3, SeqWider
<1>5. recv \o Data \in Seq(Units) /\ Len(recv \o Data) = Len(recv) + Len(Data)
  BY <1>2, <1>3, ConcatProperties
<1>6. recv \o Data \in Seq(Wire)
  BY <1>1, <1>5, SeqWider
<1>7. Unparsed \in Seq(Wire) /\ Len(Unparsed) = Len(recv \o Data) + Len(inq)
  BY <1>2, <1>6, ConcatProperties DEF Unparsed
<1>8. ASSUME conn # NoClient
      PROVE  /\ conn \in Clients /\ sent[conn] \in Seq(Units)
             /\ sent[conn] \in Seq(Wire) /\ Stream(conn) \in Seq(Wire)
  <2>1. conn \in Clients /\ sent[conn] \in Seq(Units)
    BY <1>8 DEF IInv, TypeOK
  <2>2. sent[conn] \in Seq(Wire)
    BY <1>1, <2>1, SeqWider
  <2>3. QED
    BY <1>1, <2>1, <2>2, AppendProperties DEF Stream
<1>9. QED
  BY <1>2, <1>3, <1>4, <1>5, <1>6, <1>7, <1>8

\* Each unparsed unit is one the client sent, or the end of its stream, and a
\* request that makes the server close is the last of them.
LEMMA UnparsedFacts ==
    ASSUME IInv, conn # NoClient, ~EofPosted, NEW n \in 1..Len(Unparsed)
    PROVE  /\ Unparsed[n] = "eof" => n = Len(Unparsed) /\ state[conn] = "hungup"
           /\ Unparsed[n] # "eof" => \E j \in DOMAIN sent[conn] : sent[conn][j] = Unparsed[n]
           /\ ClosingUnit(Unparsed[n]) => n = Len(Unparsed) /\ state[conn] = "open"
<1> DEFINE s == sent[conn]
<1> DEFINE t == Stream(conn)
<1> DEFINE j == Len(t) - Len(Unparsed) + n
<1>1. /\ conn \in Clients /\ s \in Seq(Units) /\ t \in Seq(Wire) /\ Unparsed \in Seq(Wire)
      /\ Len(s) \in Nat /\ Len(t) \in Nat /\ Len(Unparsed) \in Nat /\ DOMAIN s = 1..Len(s)
  BY WireTypes, LenProperties
<1>2. Len(Unparsed) =< Len(t) /\ Unparsed[n] = t[j]
  BY DEF IInv, UnparsedIsOwn, EndsWith
<1>3. j \in 1..Len(t) /\ (j = Len(t) => n = Len(Unparsed))
  BY <1>1, <1>2
<1>4. \A i \in 1..Len(s) : s[i] # "eof"
  BY <1>1, NotEof, ElementOfSeq
<1>5. state[conn] \in {"open", "hungup"}
  BY DEF IInv, OneClient
<1>6. CASE state[conn] = "hungup"
  <2>1. t = Append(s, "eof")
    BY <1>6 DEF Stream
  <2>2. /\ Len(t) = Len(s) + 1 /\ t[Len(s)+1] = "eof"
        /\ \A i \in 1..Len(s) : t[i] = s[i]
    <3>1. s \in Seq(Wire) /\ "eof" \in Wire
      BY WireTypes DEF Wire
    <3>2. QED
      BY <2>1, <3>1, AppendProperties
  <2>3. CASE j = Len(t)
    BY <1>2, <1>3, <1>6, <2>2, <2>3 DEF ClosingUnit, EndUnits
  <2>4. CASE j # Len(t)
    <3>0. j \in 1..Len(s)
      <4> HIDE DEF j, t, s
      <4>1. QED
        BY <1>1, <1>3, <2>2, <2>4
    <3>1. j \in 1..Len(s) /\ t[j] = s[j]
      BY <2>2, <3>0
    <3>2. ~ClosingUnit(s[j])
      BY <1>1, <1>6, <3>1 DEF IInv, ClosingIsLast
    <3>3. QED
      BY <1>1, <1>2, <1>4, <3>1, <3>2
  <2>5. QED
    BY <2>3, <2>4
<1>7. CASE state[conn] = "open"
  <2>1. t = s
    BY <1>7 DEF Stream
  <2>2. j \in DOMAIN s /\ s[j] = Unparsed[n]
    BY <1>1, <1>2, <1>3, <2>1
  <2>3. ClosingUnit(s[j]) => j = Len(s)
    BY <1>1, <2>2 DEF IInv, ClosingIsLast
  <2> HIDE DEF j
  <2>4. QED
    BY <1>1, <1>3, <1>4, <1>7, <2>1, <2>2, <2>3
<1>8. QED
  BY <1>5, <1>6, <1>7

LEMMA InqFacts ==
    ASSUME IInv, conn # NoClient, ~EofPosted
    PROVE  /\ EofLast(inq)
           /\ \A i \in 1..Len(inq) : inq[i] = "eof" => state[conn] = "hungup"
<1> DEFINE b == recv \o Data
<1>1. /\ b \in Seq(Wire) /\ inq \in Seq(Wire) /\ Unparsed = b \o inq
      /\ Len(b) \in Nat /\ Len(inq) \in Nat /\ Len(Unparsed) = Len(b) + Len(inq)
  BY WireTypes, LenProperties DEF Unparsed
<1> HIDE DEF b
<1>2. ASSUME NEW i \in 1..Len(inq), inq[i] = "eof"
      PROVE  i = Len(inq) /\ state[conn] = "hungup"
  <2>1. Len(b)+i \in 1..(Len(b)+Len(inq)) /\ ~(Len(b)+i =< Len(b)) /\ Len(b)+i-Len(b) = i
    BY <1>1
  <2>2. Unparsed[Len(b)+i] = inq[i]
    BY <1>1, <2>1, ConcatProperties
  <2>3. Len(b)+i = Len(Unparsed) /\ state[conn] = "hungup"
    BY <1>1, <1>2, <2>1, <2>2, UnparsedFacts
  <2>4. QED
    BY <1>1, <2>3
<1>3. QED
  BY <1>2 DEF EofLast

-----------------------------------------------------------------------------
(* Reading.                                                                *)

\* What is unparsed is moved, and nothing else happens to the stream.
LEMMA UnparsedKept ==
    ASSUME IInv, UNCHANGED <<flags, conn, state, sent, got>>, conn # NoClient, ~EofPosted,
           Unparsed' = Unparsed, ~writing, writing' = FALSE, posted # <<>>
    PROVE  UnparsedIsOwn' /\ NothingSkipped'
<1>1. UnparsedIsOwn'
  BY DEF IInv, UnparsedIsOwn, EndsWith, Stream
<1>2. \A c : AnsweredUnits(c)' = AnsweredUnits(c)
  BY Framed
<1>3. NothingSkipped'
  <2>1. SUFFICES ASSUME state[conn] = "open"
        PROVE  Len(AnsweredUnits(conn)) + 0 + Len(Unparsed) = Len(sent[conn])
    BY <1>2 DEF NothingSkipped, AnsweredUnits
  <2>2. QED
    BY <2>1 DEF IInv, NothingSkipped, Nothing
<1>4. QED
  BY <1>1, <1>3

\* A read into a buffer that holds all of the data that has arrived so far.
LEMMA ReadStep ==
    ASSUME IInv, posted # <<>>, Head(posted).ec = "ok", conn # NoClient,
           read(recv \o Data, size),
           UNCHANGED <<flags, backlog, accepting, conn, writing, response, m_close, clientVars>>
    PROVE  IInv'
<1> DEFINE b == recv \o Data
<1> DEFINE n == Grown(b, size)
<1>1. /\ ~accepting /\ ~reading /\ ~writing /\ Tail(posted) = <<>> /\ ~EofPosted
      /\ writing' = FALSE /\ accepting' = FALSE
  <2>1. ~accepting /\ ~reading /\ ~writing /\ Tail(posted) = <<>>
    BY RunningAlone
  <2>2. ~EofPosted
    BY DEF EofPosted
  <2>3. writing \in BOOLEAN /\ accepting \in BOOLEAN
    BY DEF IInv, TypeOK
  <2>4. QED
    BY <2>1, <2>2, <2>3
<1>2. /\ b \in Seq(Units) /\ b \in Seq(Wire) /\ inq \in Seq(Wire) /\ Unparsed = b \o inq
      /\ Len(b) \in Nat /\ size \in Nat
  BY WireTypes, LenProperties DEF Unparsed, IInv, TypeOK
<1>3. n \in Nat /\ Len(b) < n /\ n - Len(b) \in Nat \ {0}
  BY <1>2, GrownFacts
<1>4. size' = n /\ recv' = b /\ ReadSome(inq, n - Len(b), <<>>)
  BY <1>1 DEF read
<1>5. UNCHANGED <<flags, backlog, conn, state, sent, got>>
  BY DEF clientVars
<1> HIDE DEF b, n
<1>6. OneClient' /\ ClosingIsLast' /\ AnswersFit' /\ CloseIsAnnounced'
  BY <1>5, ClientsFramed
<1>7. EofLast(inq) /\ \A i \in 1..Len(inq) : inq[i] = "eof" => state[conn] = "hungup"
  BY <1>1, InqFacts
<1>8. ASSUME posted' \in Seq(Completions), inq' \in Seq(Wire), reading' \in BOOLEAN
      PROVE  TypeOK'
  BY <1>1, <1>2, <1>3, <1>4, <1>8 DEF IInv, TypeOK, Wire, clientVars
<1>9. CASE inq = <<>> /\ reading' = TRUE /\ inq' = <<>> /\ posted' = <<>>
  <2>1. TypeOK'
    BY <1>8, <1>9, EmptySeq
  <2>2. Data' = <<>> /\ Len(<<>>) = 0 /\ ~EofPosted' /\ \A h : ~IsPosted(h)'
    BY <1>9 DEF Data, EofPosted, IsPosted
  <2>3. Unparsed' = Unparsed
    <3>1. b \o <<>> = b
      BY <1>2, ConcatEmptySeq
    <3>2. QED
      BY <1>2, <1>4, <1>9, <2>2, <3>1 DEF Unparsed
  <2>4. OneStep'
    BY <1>1, <1>9 DEF OneStep, Nothing
  <2>5. StepFits'
    BY <1>1, <1>2, <1>3, <1>4, <1>5, <1>9, <2>2 DEF StepFits
  <2>6. ResponseFits'
    BY <1>1, <2>2 DEF ResponseFits
  <2>7. QED
    BY <1>1, <1>5, <1>6, <2>1, <2>3, <2>4, <2>5, <2>6, UnparsedKept DEF IInv
<1>10. CASE /\ Len(inq) = 1 /\ inq[1] = "eof" /\ reading' = FALSE /\ inq' = <<>>
            /\ posted' = <<Completion("on_read", "eof", <<>>)>>
  <2>1. IsCompletion(<<Completion("on_read", "eof", <<>>)>>, "on_read", "eof", <<>>)
    <3>1. <<>> \in Seq(Units)
      BY EmptySeq
    <3>2. QED
      BY <3>1, CompletionFacts
  <2>2. /\ posted' \in Seq(Completions) /\ posted' # <<>> /\ Len(posted') = 1
        /\ Data' = <<>> /\ Len(<<>>) = 0 /\ EofPosted' /\ IsPosted("on_read")'
        /\ ~IsPosted("on_accept")' /\ ~IsPosted("on_write")'
        /\ Head(posted').ec = "eof"
    BY <1>10, <2>1 DEF IsCompletion, Data, EofPosted, IsPosted
  <2>3. state[conn] = "hungup"
    <3>1. 1 \in 1..Len(inq)
      BY <1>10
    <3>2. QED
      BY <1>7, <1>10, <3>1
  <2>4. TypeOK'
    BY <1>8, <1>10, <2>2, EmptySeq
  <2>5. OneStep'
    BY <1>1, <1>10, <2>2 DEF OneStep, Nothing
  <2>6. StepFits'
    BY <1>1, <1>2, <1>3, <1>4, <1>5, <1>10, <2>2, <2>3 DEF StepFits
  <2>7. ResponseFits' /\ UnparsedIsOwn'
    BY <1>1, <2>2 DEF ResponseFits, UnparsedIsOwn
  <2>8. NothingSkipped'
    BY <1>5, <2>3 DEF NothingSkipped
  <2>9. QED
    BY <1>6, <2>4, <2>5, <2>6, <2>7, <2>8 DEF IInv
<1>11. ASSUME NEW k \in 1..Len(inq), k =< n - Len(b), reading' = FALSE,
              SubSeq(inq, 1, k) \in Seq(Units), inq' = SubSeq(inq, k+1, Len(inq)),
              posted' = <<Completion("on_read", "ok", SubSeq(inq, 1, k))>>
       PROVE  IInv'
  <2> DEFINE x == SubSeq(inq, 1, k)
  <2> DEFINE y == SubSeq(inq, k+1, Len(inq))
  <2>0. Len(inq) \in Nat /\ k \in 0..Len(inq) /\ k \in Nat
    BY <1>2, LenProperties
  <2>1. x \in Seq(Wire) /\ Len(x) = k /\ y \in Seq(Wire) /\ x \o y = inq
    BY <1>2, <2>0, TwoParts
  <2>2. x \in Seq(Units) /\ inq' = y /\ posted' = <<Completion("on_read", "ok", x)>>
    BY <1>11
  <2> HIDE DEF x, y
  <2>3. IsCompletion(<<Completion("on_read", "ok", x)>>, "on_read", "ok", x)
    BY <2>2, CompletionFacts
  <2>4. /\ posted' \in Seq(Completions) /\ posted' # <<>> /\ Len(posted') = 1
        /\ Data' = x /\ ~EofPosted' /\ IsPosted("on_read")'
        /\ ~IsPosted("on_accept")' /\ ~IsPosted("on_write")'
        /\ Head(posted').ec = "ok"
    BY <2>2, <2>3 DEF IsCompletion, Data, EofPosted, IsPosted
  <2>5. TypeOK'
    BY <1>8, <1>11, <2>1, <2>2, <2>4
  <2>6. Unparsed' = Unparsed
    <3>0. b \in Seq(Wire) /\ x \in Seq(Wire) /\ y \in Seq(Wire)
      BY <1>2, <2>1
    <3>1. (b \o x) \o y = b \o (x \o y)
      BY <3>0, Associative
    <3>2. QED
      BY <1>2, <1>4, <2>1, <2>2, <2>4, <3>1 DEF Unparsed
  <2>7. OneStep'
    BY <1>1, <1>11, <2>4 DEF OneStep, Nothing
  <2>8. Len(b) + k =< n
    BY <1>2, <1>3, <1>11, <2>0
  <2>9. StepFits'
    BY <1>1, <1>4, <1>5, <1>11, <2>1, <2>4, <2>8 DEF StepFits
  <2>10. ResponseFits'
    BY <1>1, <2>4 DEF ResponseFits
  <2>11. QED
    BY <1>1, <1>5, <1>6, <2>5, <2>6, <2>7, <2>9, <2>10, UnparsedKept DEF IInv
<1>12. QED
  BY <1>2, <1>3, <1>4, <1>7, <1>9, <1>10, <1>11, ReadSomeFacts

LEMMA OnAcceptStep ==
    ASSUME IInv, on_accept
    PROVE  IInv'
<1>1. IsPosted("on_accept") /\ posted # <<>>
  BY DEF on_accept, Running, IsPosted
<1>2. CASE Head(posted).ec # "ok"
  <2>1. conn = NoClient /\ inq = <<>> /\ close_connection
    BY <1>1, <1>2 DEF IInv, StepFits, on_accept
  <2>2. QED
    BY <1>1, <2>1, CloseStep
<1>3. CASE Head(posted).ec = "ok"
  <2>1. conn # NoClient /\ Data = <<>>
    BY <1>1, <1>3 DEF IInv, StepFits
  <2>2. recv \o Data = recv
    BY <2>1, ConcatEmptySeq DEF IInv, TypeOK
  <2>3. QED
    BY <1>1, <1>3, <2>1, <2>2, ReadStep DEF on_accept
<1>4. QED
  BY <1>2, <1>3

-----------------------------------------------------------------------------
(* Serving a request.                                                      *)

\* A request at the beginning of the buffer is at the beginning of what is
\* unparsed, and is the next one that is not answered.
LEMMA RequestFacts ==
    ASSUME IInv, posted # <<>>, Head(posted).ec = "ok", conn # NoClient,
           NEW a \in Seq(Units), NEW z \in Seq(Units), a # <<>>, a \o z = recv \o Data
    PROVE  /\ Len(a) \in Nat \ {0} /\ Len(z) \in Nat
           /\ Last(a) = Unparsed[Len(a)] /\ Len(a) \in 1..Len(Unparsed)
           /\ a \in Seq(Wire) /\ z \o inq \in Seq(Wire) /\ Unparsed = a \o (z \o inq)
           /\ Len(Unparsed) = Len(a) + Len(z \o inq)
           /\ Len(a) = Len(Unparsed) => z = <<>> /\ inq = <<>>
           /\ state[conn] = "open" =>
                /\ Len(AnsweredUnits(conn)) \in Nat
                /\ Len(AnsweredUnits(conn)) + Len(Unparsed) = Len(sent[conn])
                /\ \A i \in 1..Len(a) : a[i] = sent[conn][Len(AnsweredUnits(conn)) + i]
<1> DEFINE n == Len(a)
<1>1. /\ inq \in Seq(Wire) /\ Len(inq) \in Nat /\ Len(z) \in Nat /\ n \in Nat \ {0}
      /\ Unparsed = (a \o z) \o inq
  <2>1. n \in Nat \ {0}
    BY EmptySeq
  <2>2. QED
    BY <2>1, WireTypes, LenProperties DEF Unparsed
<1>2. a \in Seq(Wire) /\ z \in Seq(Wire)
  BY SeqWider DEF Wire
<1>3. Unparsed = a \o (z \o inq)
  <2>1. a \in Seq(Wire) /\ z \in Seq(Wire) /\ inq \in Seq(Wire)
    BY <1>1, <1>2
  <2>2. (a \o z) \o inq = a \o (z \o inq)
    BY <2>1, WireAssociative
  <2>3. QED
    BY <1>1, <2>2, Zenon
<1> DEFINE r == z \o inq
<1>4. r \in Seq(Wire) /\ Len(r) = Len(z) + Len(inq)
  BY <1>1, <1>2, ConcatProperties
<1>5. Unparsed = a \o r
  BY <1>3
<1> HIDE DEF r
<1>6. /\ Len(Unparsed) = n + Len(r) /\ Len(r) \in Nat
      /\ \A i \in 1..(n + Len(r)) : i =< n => Unparsed[i] = a[i]
  <2>1. a \in Seq(Wire) /\ r \in Seq(Wire)
    BY <1>2, <1>4
  <2>2. /\ Len(a \o r) = Len(a) + Len(r)
        /\ \A i \in 1..(Len(a) + Len(r)) :
            (a \o r)[i] = IF i =< Len(a) THEN a[i] ELSE r[i - Len(a)]
    BY <2>1, ConcatProperties, Zenon
  <2>3. Len(r) \in Nat
    BY <2>1, LenProperties
  <2>4. QED
    BY <1>5, <2>2, <2>3
<1> HIDE DEF n
<1>7. \A i \in 1..n : Unparsed[i] = a[i] /\ i \in 1..Len(Unparsed)
  BY <1>1, <1>6
<1>8. Last(a) = Unparsed[n] /\ n \in 1..Len(Unparsed)
  <2>1. n \in 1..n
    BY <1>1
  <2>2. Last(a) = a[n]
    BY DEF Last, n
  <2>3. QED
    BY <1>7, <2>1, <2>2
<1>9. ASSUME n = Len(Unparsed) PROVE z = <<>> /\ inq = <<>>
  <2>1. Len(z) = 0 /\ Len(inq) = 0
    BY <1>1, <1>4, <1>6, <1>9
  <2>2. QED
    BY <1>1, <1>2, <2>1, EmptySeq
<1>10. ASSUME state[conn] = "open"
       PROVE  /\ Len(AnsweredUnits(conn)) \in Nat
              /\ Len(AnsweredUnits(conn)) + Len(Unparsed) = Len(sent[conn])
              /\ \A i \in 1..n : a[i] = sent[conn][Len(AnsweredUnits(conn)) + i]
  <2>1. ~writing /\ ~EofPosted /\ ~Nothing
    BY RunningAlone DEF EofPosted, Nothing
  <2>2. /\ conn \in Clients /\ sent[conn] \in Seq(Units) /\ Len(sent[conn]) \in Nat
        /\ got[conn] \in Seq(Responses)
    BY WireTypes, LenProperties DEF IInv, TypeOK
  <2>3. Len(AnsweredUnits(conn)) \in Nat
    <3>1. NoResponse \in Responses
      <4>1. <<>> \in Seq(Units)
        BY EmptySeq
      <4>2. QED
        BY <4>1 DEF NoResponse, Responses
    <3>2. FlattenSeq(Requests(got[conn])) \in Seq(Units)
      BY <2>2, <3>1, AnsweredAppend
    <3>3. QED
      BY <3>2, LenProperties DEF AnsweredUnits, Requests
  <2>4. Len(AnsweredUnits(conn)) + 0 + Len(Unparsed) = Len(sent[conn])
    BY <1>10, <2>1 DEF IInv, NothingSkipped
  <2>5. EndsWith(sent[conn], Unparsed)
    BY <1>10, <2>1 DEF IInv, UnparsedIsOwn, Stream
  <2>6. \A i \in 1..n : Unparsed[i] = sent[conn][Len(sent[conn]) - Len(Unparsed) + i]
    BY <1>7, <2>5 DEF EndsWith
  <2> DEFINE m == Len(AnsweredUnits(conn))
  <2> DEFINE l == Len(Unparsed)
  <2>7. m + l = Len(sent[conn]) /\ l \in Nat /\ Len(sent[conn]) - l = m
    <3>1. m \in Nat /\ m + 0 + l = Len(sent[conn]) /\ l \in Nat
      BY <1>1, <1>6, <2>3, <2>4
    <3> HIDE DEF m, l
    <3>2. QED
      BY <2>2, <3>1
  <2>8. \A i \in 1..n : a[i] = sent[conn][m + i]
    BY <1>7, <2>6, <2>7
  <2>9. QED
    BY <2>3, <2>7, <2>8
<1>11. QED
  BY <1>1, <1>2, <1>3, <1>4, <1>6, <1>8, <1>9, <1>10 DEF n, r

\* A response is written: at once, or when acks arrive.
LEMMA WriteStep ==
    ASSUME IInv, posted # <<>>, Head(posted).ec = "ok", conn # NoClient,
           NEW a \in Seq(Units), NEW z \in Seq(Units), a # <<>>, a \o z = recv \o Data,
           Last(a) \in EndUnits, Last(a) # "bad", NEW big \in BOOLEAN,
           recv' = z, size' = size - Len(a),
           Write([request |-> a, close |-> Closes(Last(a))], big),
           UNCHANGED <<flags, backlog, accepting, conn, inq, reading, m_close, state, sent>>
    PROVE  IInv'
<1> DEFINE r == [request |-> a, close |-> Closes(Last(a))]
<1> DEFINE n == Len(a)
<1>1. /\ ~accepting /\ ~reading /\ ~writing /\ Tail(posted) = <<>> /\ ~EofPosted
      /\ accepting' = FALSE /\ reading' = FALSE
  <2>1. ~accepting /\ ~reading /\ ~writing /\ Tail(posted) = <<>>
    BY RunningAlone
  <2>2. ~EofPosted
    BY DEF EofPosted
  <2>3. reading \in BOOLEAN /\ accepting \in BOOLEAN
    BY DEF IInv, TypeOK
  <2>4. QED
    BY <2>1, <2>2, <2>3
<1>2. r \in Responses /\ r.request = a /\ r.close = Closes(Last(a))
  <2>1. Closes(Last(a)) \in BOOLEAN
    BY DEF Closes
  <2>2. QED
    BY <2>1 DEF Responses
<1>3. /\ response' = r /\ writing' = big
      /\ posted' = IF big THEN <<>> ELSE <<Completion("on_write", "ok", <<>>)>>
      /\ got' = IF big \/ state[conn] # "open" THEN got
                ELSE [got EXCEPT ![conn] = Append(@, r)]
  <2>1. Append(<<>>, Completion("on_write", "ok", <<>>)) = <<Completion("on_write", "ok", <<>>)>>
    OBVIOUS
  <2>2. QED
    BY <1>1, <2>1 DEF Write
<1>4. /\ conn \in Clients /\ sent[conn] \in Seq(Units) /\ sent[conn] \in Seq(Wire)
      /\ Stream(conn) \in Seq(Wire) /\ state[conn] \in {"open", "hungup"}
      /\ got \in [Clients -> Seq(Responses)] /\ got[conn] \in Seq(Responses)
      /\ inq \in Seq(Wire) /\ recv' \in Seq(Units)
  BY WireTypes DEF IInv, OneClient, TypeOK
<1>5. /\ n \in Nat \ {0} /\ Len(z) \in Nat
      /\ Last(a) = Unparsed[n] /\ n \in 1..Len(Unparsed)
      /\ a \in Seq(Wire) /\ z \o inq \in Seq(Wire) /\ Unparsed = a \o (z \o inq)
      /\ Len(Unparsed) = n + Len(z \o inq)
      /\ n = Len(Unparsed) => z = <<>> /\ inq = <<>>
  BY RequestFacts
<1>6. ASSUME state[conn] = "open"
      PROVE  /\ Len(AnsweredUnits(conn)) \in Nat
             /\ Len(AnsweredUnits(conn)) + Len(Unparsed) = Len(sent[conn])
             /\ \A i \in 1..n : a[i] = sent[conn][Len(AnsweredUnits(conn)) + i]
  BY <1>6, RequestFacts
<1>7. ASSUME Closes(Last(a))
      PROVE  /\ z = <<>> /\ inq = <<>>
             /\ \E i \in DOMAIN sent[conn] : ClosingUnit(sent[conn][i])
  <2>1. ClosingUnit(Unparsed[n]) /\ Unparsed[n] # "eof"
    BY <1>5, <1>7 DEF ClosingUnit, EndUnits
  <2>2. /\ n = Len(Unparsed)
        /\ \E j \in DOMAIN sent[conn] : sent[conn][j] = Unparsed[n]
    BY <1>1, <1>5, <2>1, UnparsedFacts
  <2>3. QED
    BY <1>5, <2>1, <2>2
<1>8. /\ posted' \in Seq(Completions) /\ Len(posted') =< 1 /\ (posted' = <<>> <=> big)
      /\ Data' = <<>> /\ ~EofPosted' /\ ~IsPosted("on_accept")' /\ ~IsPosted("on_read")'
      /\ IsPosted("on_write")' => Head(posted').ec = "ok"
  <2>1. IsCompletion(<<Completion("on_write", "ok", <<>>)>>, "on_write", "ok", <<>>)
    <3>1. <<>> \in Seq(Units)
      BY EmptySeq
    <3>2. QED
      BY <3>1, CompletionFacts
  <2>2. CASE big
    <3>1. posted' = <<>>
      BY <1>3, <2>2
    <3>2. <<>> \in Seq(Completions) /\ Len(<<>>) = 0
      BY EmptySeq
    <3>3. QED
      BY <2>2, <3>1, <3>2 DEF Data, EofPosted, IsPosted
  <2>3. CASE ~big
    <3>1. posted' = <<Completion("on_write", "ok", <<>>)>>
      BY <1>3, <2>3
    <3>2. QED
      BY <2>1, <2>3, <3>1 DEF IsCompletion, Data, EofPosted, IsPosted
  <2>4. QED
    BY <2>2, <2>3
<1>9. Unparsed' = z \o inq
  <2>1. z \o <<>> = z
    BY ConcatEmptySeq
  <2>2. QED
    BY <1>8, <2>1 DEF Unparsed
<1> HIDE DEF r, n
<1>10. /\ got' \in [Clients -> Seq(Responses)]
       /\ \A c \in Clients : c # conn => got'[c] = got[c]
       /\ ~big /\ state[conn] = "open" => got'[conn] = Append(got[conn], r)
       /\ big => got' = got
  <2>1. Append(got[conn], r) \in Seq(Responses)
    BY <1>2, <1>4, AppendProperties
  <2>2. QED
    BY <1>3, <1>4, <2>1
<1>11. TypeOK'
  <2>1. size' \in Nat
    <3>1. size \in Nat /\ Len(recv) + Len(Data) =< size /\ Len(recv \o Data) = Len(recv) + Len(Data)
      BY WireTypes DEF IInv, TypeOK, StepFits
    <3>2. Len(a \o z) = n + Len(z)
      BY ConcatProperties DEF n
    <3>3. size' = size - n
      BY DEF n
    <3>4. QED
      BY <1>5, <3>1, <3>2, <3>3
  <2>2. writing' \in BOOLEAN /\ response' \in Responses
    BY <1>2, <1>3
  <2>3. QED
    BY <1>1, <1>4, <1>8, <1>10, <2>1, <2>2 DEF IInv, TypeOK
<1>12. OneStep'
  BY <1>1, <1>3, <1>8 DEF OneStep, Nothing
<1>13. StepFits'
  <2>1. size \in Nat /\ Len(recv) + Len(Data) =< size /\ Len(recv \o Data) = Len(recv) + Len(Data)
    BY WireTypes DEF IInv, TypeOK, StepFits
  <2>2. Len(a \o z) = n + Len(z)
    BY ConcatProperties DEF n
  <2>3. size' = size - n
    BY DEF n
  <2>4. Len(z) + Len(<<>>) =< size'
    <3>1. Len(<<>>) = 0
      OBVIOUS
    <3>2. QED
      BY <1>5, <2>1, <2>2, <2>3, <3>1
  <2>5. QED
    BY <1>1, <1>8, <2>4 DEF StepFits
<1>14. OneClient'
  <2>1. \A i \in DOMAIN backlog : backlog[i] \in Clients /\ backlog[i] # conn
    BY DEF IInv, TypeOK, OneClient
  <2>2. \A c \in Clients : state[c] \in {"idle", "waiting"} => c # conn
    BY <1>4
  <2>3. QED
    BY <1>10, <2>1, <2>2 DEF IInv, OneClient
<1>15. ClosingIsLast'
  BY DEF IInv, ClosingIsLast, ClosingUnit, Closes
<1>16. UnparsedIsOwn'
  <2>1. EndsWith(Stream(conn), a \o (z \o inq))
    BY <1>1, <1>5 DEF IInv, UnparsedIsOwn
  <2>2. EndsWith(Stream(conn), z \o inq)
    BY <1>4, <1>5, <2>1, EndsWithRest
  <2>3. Stream(conn)' = Stream(conn)
    BY DEF Stream
  <2>4. QED
    BY <1>9, <2>2, <2>3 DEF UnparsedIsOwn, EndsWith
<1>17. ResponseFits'
  <2>1. response'.request = a /\ response'.close = Closes(Last(a)) /\ response' = r
    BY <1>2, <1>3
  <2>2. Closes(Last(response.request))' = Closes(Last(a))
    BY <2>1 DEF Closes
  <2>3. ~big /\ state[conn] = "open" => got'[conn] # <<>> /\ Last(got'[conn]) = r
    BY <1>2, <1>4, <1>10, AppendProperties DEF Last
  <2>4. \A u : ClosingUnit(u)' <=> ClosingUnit(u)
    BY DEF ClosingUnit, Closes
  <2>5. QED
    BY <1>3, <1>7, <2>1, <2>2, <2>3, <2>4 DEF ResponseFits
<1>18. NothingSkipped' /\ AnswersFit'
  <2>1. \A c : got'[c] = got[c] => AnsweredUnits(c)' = AnsweredUnits(c)
    BY DEF AnsweredUnits
  <2>2. \A c \in Clients : BeginsWith(sent[c], AnsweredUnits(c))
    BY DEF IInv, AnswersFit
  <2>3. CASE state[conn] # "open"
    <3>1. got' = got
      BY <1>3, <2>3
    <3>2. NothingSkipped'
      BY <2>3 DEF NothingSkipped
    <3>3. AnswersFit'
      BY <2>1, <2>2, <3>1 DEF AnswersFit, BeginsWith
    <3>4. QED
      BY <3>2, <3>3
  <2>4. CASE state[conn] = "open" /\ big
    <3>1. got' = got
      BY <1>3, <2>4
    <3>2. AnswersFit'
      BY <2>1, <2>2, <3>1 DEF AnswersFit, BeginsWith
    <3>3. AnsweredUnits(conn)' = AnsweredUnits(conn)
      BY <2>1, <3>1
    <3> DEFINE m == Len(AnsweredUnits(conn))
    <3>4. m + n + Len(z \o inq) = Len(sent[conn]) /\ \A i \in 1..n : a[i] = sent[conn][m + i]
      <4>1. /\ m \in Nat /\ m + Len(Unparsed) = Len(sent[conn])
            /\ \A i \in 1..n : a[i] = sent[conn][m + i]
        BY <1>6, <2>4
      <4>2. Len(z \o inq) \in Nat
        BY <1>5, LenProperties
      <4> HIDE DEF m
      <4>3. QED
        BY <1>5, <4>1, <4>2
    <3>5. writing' = TRUE /\ response'.request = a /\ Len(response'.request) = n
      BY <1>2, <1>3, <2>4 DEF n
    <3>6. NothingSkipped'
      BY <1>9, <3>3, <3>4, <3>5 DEF NothingSkipped
    <3>7. QED
      BY <3>2, <3>6
  <2>5. CASE state[conn] = "open" /\ ~big
    <3> DEFINE u == AnsweredUnits(conn)
    <3>1. got'[conn] = Append(got[conn], r)
      BY <1>10, <2>5
    <3>2. u \in Seq(Units) /\ AnsweredUnits(conn)' = u \o a
      BY <1>2, <1>4, <3>1, AnsweredAppend DEF AnsweredUnits, Requests
    <3>3. /\ Len(u) \in Nat /\ Len(u) + Len(Unparsed) = Len(sent[conn])
          /\ \A i \in 1..n : a[i] = sent[conn][Len(u) + i]
      BY <1>6, <2>5
    <3>4. BeginsWith(sent[conn], u)
      BY <1>4, <2>2
    <3> HIDE DEF u
    <3>5. Len(z \o inq) \in Nat /\ Len(u) + n + Len(z \o inq) = Len(sent[conn])
      <4>1. Len(z \o inq) \in Nat
        BY <1>5, LenProperties
      <4>2. QED
        BY <1>5, <3>3, <4>1
    <3>6. BeginsWith(sent[conn], u \o a)
      <4>1. Len(u) + Len(a) =< Len(sent[conn])
        BY <1>5, <3>3, <3>5 DEF n
      <4>2. \A i \in 1..Len(a) : a[i] = sent[conn][Len(u) + i]
        BY <3>3 DEF n
      <4>3. QED
        BY <1>4, <3>2, <3>4, <4>1, <4>2, BeginsWithMore
    <3>7. AnswersFit'
      <4>1. ASSUME NEW c \in Clients PROVE BeginsWith(sent[c], AnsweredUnits(c)')
        <5>1. CASE c = conn
          BY <3>2, <3>6, <5>1
        <5>2. CASE c # conn
          BY <1>10, <2>1, <2>2, <5>2
        <5>3. QED
          BY <5>1, <5>2
      <4>2. QED
        BY <4>1 DEF AnswersFit, BeginsWith
    <3>8. Len(u \o a) = Len(u) + n
      BY <3>2, ConcatProperties DEF n
    <3>9. Len(u \o a) + 0 + Len(z \o inq) = Len(sent[conn])
      BY <1>5, <3>3, <3>5, <3>8
    <3>10. writing' = FALSE
      BY <1>3, <2>5
    <3>11. NothingSkipped'
      BY <1>9, <3>2, <3>9, <3>10 DEF NothingSkipped
    <3>12. QED
      BY <3>7, <3>11
  <2>6. QED
    BY <2>3, <2>4, <2>5
<1>19. CloseIsAnnounced'
  <2>1. \A c \in Clients : state[c] = "closed" => c # conn
    BY <1>4
  <2>2. QED
    BY <1>10, <2>1 DEF IInv, CloseIsAnnounced, ToSet
<1>20. QED
  BY <1>11, <1>12, <1>13, <1>14, <1>15, <1>16, <1>17, <1>18, <1>19 DEF IInv

\* A stalled request ends the chain of handlers.
LEMMA StallStep ==
    ASSUME IInv, posted # <<>>, Head(posted).ec = "ok", conn # NoClient,
           NEW a \in Seq(Units), NEW z \in Seq(Units), a # <<>>, a \o z = recv \o Data,
           Last(a) = "stall",
           recv' = z, size' = size - Len(a), posted' = Tail(posted),
           UNCHANGED <<writing, response, got, flags, backlog, accepting, conn, inq, reading,
                       m_close, state, sent>>
    PROVE  IInv'
<1>1. ~accepting /\ ~reading /\ ~writing /\ ~EofPosted /\ posted' = <<>>
  <2>1. ~accepting /\ ~reading /\ ~writing /\ posted' = <<>>
    BY RunningAlone
  <2>2. QED
    BY <2>1 DEF EofPosted
<1>2. /\ conn \in Clients /\ Stream(conn) \in Seq(Wire)
  BY WireTypes
<1>3. /\ Len(a) \in Nat /\ Len(z) \in Nat
      /\ "stall" = Unparsed[Len(a)] /\ Len(a) \in 1..Len(Unparsed)
      /\ a \in Seq(Wire) /\ z \o inq \in Seq(Wire) /\ Unparsed = a \o (z \o inq)
  BY RequestFacts
<1>4. StalledBy(conn)
  <2>1. \E j \in DOMAIN sent[conn] : sent[conn][j] = "stall"
    BY <1>1, <1>3, UnparsedFacts
  <2>2. QED
    BY <2>1 DEF StalledBy, ToSet
<1>5. Data' = <<>> /\ ~EofPosted' /\ \A h : ~IsPosted(h)'
  BY <1>1 DEF Data, EofPosted, IsPosted
<1>6. size' \in Nat /\ Len(z) + Len(<<>>) =< size'
  <2>1. size \in Nat /\ Len(recv) + Len(Data) =< size /\ Len(recv \o Data) = Len(recv) + Len(Data)
    BY WireTypes DEF IInv, TypeOK, StepFits
  <2>2. Len(a \o z) = Len(a) + Len(z) /\ Len(<<>>) = 0
    BY ConcatProperties
  <2> DEFINE n == Len(a)
  <2> DEFINE m == Len(z)
  <2>3. n \in Nat /\ m \in Nat /\ n + m =< size /\ size' = size - n
    BY <1>3, <2>1, <2>2
  <2> HIDE DEF n, m
  <2>4. size' \in Nat /\ m + 0 =< size'
    BY <2>1, <2>3
  <2>5. QED
    BY <2>2, <2>4 DEF m
<1>7. TypeOK'
  <2>1. <<>> \in Seq(Completions)
    BY EmptySeq
  <2>2. QED
    BY <1>1, <1>6, <2>1 DEF IInv, TypeOK
<1>8. OneStep'
  <2>1. Len(<<>>) = 0
    OBVIOUS
  <2>2. QED
    BY <1>1, <1>4, <2>1 DEF OneStep, StalledBy, ToSet
<1>9. StepFits'
  BY <1>1, <1>5, <1>6 DEF StepFits
<1>10. OneClient' /\ ClosingIsLast' /\ AnswersFit' /\ CloseIsAnnounced'
  BY ClientsFramed
<1>11. UnparsedIsOwn'
  <2>1. EndsWith(Stream(conn), a \o (z \o inq))
    BY <1>1, <1>3 DEF IInv, UnparsedIsOwn
  <2>2. EndsWith(Stream(conn), z \o inq)
    BY <1>2, <1>3, <2>1, EndsWithRest
  <2>3. Stream(conn)' = Stream(conn)
    BY DEF Stream
  <2>4. Unparsed' = z \o inq
    <3>1. z \o <<>> = z
      BY ConcatEmptySeq
    <3>2. QED
      BY <1>5, <3>1 DEF Unparsed
  <2>5. QED
    BY <2>2, <2>3, <2>4 DEF UnparsedIsOwn, EndsWith
<1>12. ResponseFits' /\ NothingSkipped'
  BY <1>1, <1>5 DEF ResponseFits, NothingSkipped, Nothing
<1>13. QED
  BY <1>7, <1>8, <1>9, <1>10, <1>11, <1>12 DEF IInv

LEMMA OnReadStep ==
    ASSUME IInv, on_read
    PROVE  IInv'
<1>1. IsPosted("on_read") /\ posted # <<>>
  BY DEF on_read, Running, IsPosted
<1>2. conn # NoClient /\ Head(posted).ec \in {"ok", "eof"}
  BY <1>1 DEF IInv, StepFits
<1>3. CASE Head(posted).ec # "ok"
  <2>1. inq = <<>> /\ state[conn] = "hungup"
    BY <1>1, <1>2, <1>3 DEF IInv, StepFits, EofPosted
  <2>2. close_connection
    BY <1>3 DEF on_read
  <2>3. QED
    BY <1>1, <2>1, <2>2, CloseStep
<1>4. CASE Head(posted).ec = "ok"
  <2> DEFINE b == recv \o Data
  <2> DEFINE n == RequestLen(b)
  <2>1. Data = Head(posted).data /\ b \in Seq(Units) /\ Len(b) \in Nat
    BY <1>1, RunningAlone, WireTypes, LenProperties
  <2>2. n \in 0..Len(b) /\ (n # 0 => b[n] \in EndUnits)
    BY <2>1, RequestLenFacts
  <2>3. IF n = 0
        THEN /\ read(b, size)
             /\ UNCHANGED <<flags, backlog, accepting, conn, writing,
                            response, m_close, clientVars>>
        ELSE Serve(b, size, n)
    BY <1>4, <2>1 DEF on_read
  <2>4. CASE n = 0
    BY <1>1, <1>2, <1>4, <2>3, <2>4, ReadStep
  <2>5. CASE n # 0
    <3>1. Serve(b, size, n) /\ n \in 1..Len(b) /\ n \in Nat /\ b[n] \in EndUnits
      BY <2>1, <2>2, <2>3, <2>5
    <3> DEFINE a == SubSeq(b, 1, n)
    <3> DEFINE z == SubSeq(b, n+1, Len(b))
    <3> HIDE DEF n
    <3>2. /\ a \in Seq(Units) /\ z \in Seq(Units) /\ a \o z = b /\ Len(a) = n
          /\ a[n] = b[n]
      <4>1. n \in 0..Len(b) /\ n \in 1..n
        BY <2>1, <3>1
      <4>2. QED
        BY <2>1, <4>1, TwoParts, SMTT(30)
    <3>3. \/ b[n] = "bad" /\ close_connection
          \/ /\ b[n] # "bad" /\ recv' = z /\ size' = size - n
             /\ \/ b[n] = "stall" /\ posted' = Tail(posted) /\ UNCHANGED <<writing, response, got>>
                \/ /\ b[n] # "stall"
                   /\ Write([request |-> a, close |-> Closes(b[n])], b[n] = "big")
             /\ UNCHANGED <<flags, backlog, accepting, conn, inq, reading, m_close,
                            state, sent>>
      BY <3>1 DEF Serve, Tells
    <3> HIDE DEF a, z, b
    <3>4. a # <<>> /\ Last(a) = b[n] /\ a \o z = recv \o Data
      <4>1. Len(<<>>) = 0
        OBVIOUS
      <4>2. a # <<>>
        BY <2>5, <3>2, <4>1
      <4>3. QED
        BY <3>2, <4>2 DEF Last, b
    <3>5. CASE b[n] = "bad" /\ close_connection
      <4>1. /\ "bad" = Unparsed[n] /\ n \in 1..Len(Unparsed)
            /\ n = Len(Unparsed) => z = <<>> /\ inq = <<>>
        BY <1>1, <1>2, <1>4, <3>2, <3>4, <3>5, RequestFacts
      <4>2. ~EofPosted /\ ClosingUnit("bad")
        BY <1>4 DEF EofPosted, ClosingUnit, EndUnits
      <4>3. /\ n = Len(Unparsed)
            /\ \E j \in DOMAIN sent[conn] : sent[conn][j] = "bad"
        BY <1>2, <4>1, <4>2, UnparsedFacts
      <4>4. inq = <<>> /\ "bad" \in ToSet(sent[conn])
        BY <4>1, <4>3 DEF ToSet
      <4>5. QED
        BY <1>1, <3>5, <4>4, CloseStep
    <3>6. CASE /\ b[n] = "stall" /\ recv' = z /\ size' = size - n
               /\ posted' = Tail(posted) /\ UNCHANGED <<writing, response, got>>
               /\ UNCHANGED <<flags, backlog, accepting, conn, inq, reading, m_close,
                              state, sent>>
      <4>1. Last(a) = "stall" /\ size' = size - Len(a)
        BY <3>2, <3>4, <3>6
      <4>2. QED
        BY <1>1, <1>2, <1>4, <3>2, <3>4, <3>6, <4>1, StallStep
    <3>7. CASE /\ b[n] # "bad" /\ recv' = z /\ size' = size - n
               /\ Write([request |-> a, close |-> Closes(b[n])], b[n] = "big")
               /\ UNCHANGED <<flags, backlog, accepting, conn, inq, reading, m_close,
                              state, sent>>
      <4> DEFINE big == b[n] = "big"
      <4>1. Write([request |-> a, close |-> Closes(Last(a))], big) /\ big \in BOOLEAN
        BY <3>4, <3>7
      <4>2. Last(a) \in EndUnits /\ Last(a) # "bad" /\ size' = size - Len(a)
        BY <3>1, <3>2, <3>4, <3>7
      <4> HIDE DEF big
      <4>3. QED
        BY <1>1, <1>2, <1>4, <3>2, <3>4, <3>7, <4>1, <4>2, WriteStep
    <3>8. QED
      BY <3>3, <3>5, <3>6, <3>7
  <2>6. QED
    BY <2>4, <2>5
<1>5. QED
  BY <1>3, <1>4

LEMMA OnWriteStep ==
    ASSUME IInv, on_write
    PROVE  IInv'
<1>1. IsPosted("on_write") /\ posted # <<>>
  BY DEF on_write, Running, IsPosted
<1>2. /\ conn # NoClient /\ Head(posted).ec = "ok" /\ Data = <<>>
      /\ ~accepting /\ ~reading /\ ~writing /\ Tail(posted) = <<>> /\ ~EofPosted
  <2>1. conn # NoClient /\ Head(posted).ec = "ok" /\ Data = <<>>
    BY <1>1 DEF IInv, StepFits
  <2>2. QED
    BY <1>1, <2>1, RunningAlone DEF EofPosted
<1>3. CASE Closes(Last(response.request))
  <2>1. inq = <<>> /\ response.close
        /\ (state[conn] = "open" => got[conn] # <<>> /\ Last(got[conn]) = response)
    BY <1>1, <1>2, <1>3 DEF IInv, ResponseFits
  <2>2. close_connection
    BY <1>3 DEF on_write
  <2>3. QED
    BY <1>1, <2>1, <2>2, CloseStep
<1>4. CASE ~Closes(Last(response.request))
  <2>1. /\ posted' = <<Completion("on_read", "ok", <<>>)>>
        /\ UNCHANGED <<flags, backlog, accepting, conn, inq, reading, writing, recv, size,
                       response, m_close, state, sent, got>>
    <3>1. Append(<<>>, Completion("on_read", "ok", <<>>)) = <<Completion("on_read", "ok", <<>>)>>
      OBVIOUS
    <3>2. QED
      BY <1>2, <1>4, <3>1 DEF on_write, connVars, bufVars, clientVars
  <2>2. IsCompletion(<<Completion("on_read", "ok", <<>>)>>, "on_read", "ok", <<>>)
    <3>1. <<>> \in Seq(Units)
      BY EmptySeq
    <3>2. QED
      BY <3>1, CompletionFacts
  <2>3. /\ posted' \in Seq(Completions) /\ posted' # <<>> /\ Len(posted') = 1
        /\ Data' = <<>> /\ ~EofPosted' /\ IsPosted("on_read")'
        /\ ~IsPosted("on_accept")' /\ ~IsPosted("on_write")' /\ Head(posted').ec = "ok"
    BY <2>1, <2>2 DEF IsCompletion, Data, EofPosted, IsPosted
  <2>4. TypeOK'
    BY <2>1, <2>3 DEF IInv, TypeOK
  <2>5. OneStep'
    BY <1>2, <2>1, <2>3 DEF OneStep, Nothing
  <2>6. StepFits'
    BY <1>2, <2>1, <2>3 DEF IInv, StepFits
  <2>7. OneClient' /\ ClosingIsLast' /\ AnswersFit' /\ CloseIsAnnounced'
    BY <2>1, ClientsFramed
  <2>8. ResponseFits'
    BY <1>2, <2>1, <2>3 DEF ResponseFits
  <2>9. Unparsed' = Unparsed /\ writing' = FALSE
    BY <1>2, <2>1, <2>3 DEF Unparsed, IInv, TypeOK
  <2>10. UnparsedIsOwn' /\ NothingSkipped'
    BY <1>1, <1>2, <2>1, <2>9, UnparsedKept
  <2>11. QED
    BY <2>4, <2>5, <2>6, <2>7, <2>8, <2>10 DEF IInv
<1>5. QED
  BY <1>3, <1>4

-----------------------------------------------------------------------------
(* What the clients do.                                                    *)

\* Client c sends u, or u is the end of its stream.
Grows(c, u) ==
    \/ /\ u \in Units /\ sent' = [sent EXCEPT ![c] = Append(@, u)] /\ state' = state
    \/ u = "eof" /\ sent' = sent /\ state' = [state EXCEPT ![c] = "hungup"]

LEMMA StreamGrows ==
    ASSUME IInv, NEW c \in Clients, state[c] = "open", ~Closing(c), NEW u, Grows(c, u),
           UNCHANGED <<flags, backlog, conn, got>>
    PROVE  /\ c = conn /\ conn # NoClient /\ u \in Wire
           /\ state' \in [Clients -> ClientStates] /\ sent' \in [Clients -> Seq(Units)]
           /\ Stream(conn) = sent[conn] /\ Stream(conn)' = Append(sent[conn], u)
           /\ state'[conn] = "open" => u \in Units /\ sent'[conn] = Append(sent[conn], u)
           /\ u = "eof" => state'[conn] = "hungup"
           /\ StalledBy(conn) => StalledBy(conn)'
           /\ OneClient' /\ ClosingIsLast' /\ AnswersFit' /\ CloseIsAnnounced'
<1>1. /\ NoClient \notin Clients /\ c = conn /\ conn # NoClient
      /\ state \in [Clients -> ClientStates] /\ sent \in [Clients -> Seq(Units)]
      /\ sent[c] \in Seq(Units) /\ Len(sent[c]) \in Nat /\ DOMAIN sent[c] = 1..Len(sent[c])
  <2>1. /\ c = conn /\ state \in [Clients -> ClientStates] /\ sent \in [Clients -> Seq(Units)]
    BY DEF IInv, OneClient, TypeOK
  <2>2. QED
    BY <2>1, ConstantsAssumption, LenProperties
<1>2. \A i \in DOMAIN sent[c] : ~ClosingUnit(sent[c][i])
  BY <1>1, ClosingFacts
<1>3. Stream(conn) = sent[conn]
  BY <1>1 DEF Stream
<1>4. \A v : ClosingUnit(v)' <=> ClosingUnit(v)
  BY DEF ClosingUnit, Closes
<1>5. \A d : AnsweredUnits(d)' = AnsweredUnits(d)
  BY DEF AnsweredUnits
<1>6. \A d \in Clients : AnsweredUnits(d) \in Seq(Units)
  <2>1. <<>> \in Seq(Units)
    BY EmptySeq
  <2>2. NoResponse \in Responses
    BY <2>1 DEF NoResponse, Responses
  <2>3. \A d \in Clients : got[d] \in Seq(Responses)
    BY DEF IInv, TypeOK
  <2>4. \A d \in Clients : FlattenSeq(Requests(got[d])) \in Seq(Units)
    BY <2>2, <2>3, AnsweredAppend
  <2>5. QED
    BY <2>4 DEF AnsweredUnits, Requests
<1>7. \A i \in DOMAIN backlog : backlog[i] \in Clients /\ backlog[i] # conn
  BY DEF IInv, TypeOK, OneClient
<1>8. CASE u \in Units /\ sent' = [sent EXCEPT ![c] = Append(@, u)] /\ state' = state
  <2>1. /\ Append(sent[c], u) \in Seq(Units) /\ sent'[c] = Append(sent[c], u)
        /\ DOMAIN sent'[c] = 1..(Len(sent[c]) + 1) /\ Len(sent'[c]) = Len(sent[c]) + 1
        /\ \A i \in 1..Len(sent[c]) : sent'[c][i] = sent[c][i]
        /\ \A d \in Clients : d # c => sent'[d] = sent[d]
        /\ sent' \in [Clients -> Seq(Units)]
    BY <1>1, <1>8, AppendProperties
  <2>2. u \in Wire /\ u # "eof"
    BY <1>8, NotEof DEF Wire
  <2>3. Stream(conn)' = Append(sent[conn], u)
    BY <1>1, <1>8, <2>1 DEF Stream
  <2>4. StalledBy(conn) => StalledBy(conn)'
    BY <1>1, <2>1 DEF StalledBy, ToSet
  <2>5. OneClient'
    <3>1. \A d \in Clients : state[d] \in {"idle", "waiting"} => d # c
      OBVIOUS
    <3>2. QED
      BY <1>1, <1>7, <1>8, <2>1, <3>1 DEF IInv, OneClient
  <2>6. ClosingIsLast'
    <3>1. ASSUME NEW d \in Clients, NEW i \in DOMAIN sent'[d], ClosingUnit(sent'[d][i])
          PROVE  i = Len(sent'[d]) /\ state'[d] # "hungup"
      <4>1. CASE d = c
        <5>1. i = Len(sent[c]) + 1
          BY <1>1, <1>2, <2>1, <3>1, <4>1, SMTT(30)
        <5>2. QED
          BY <1>8, <2>1, <4>1, <5>1
      <4>2. CASE d # c
        BY <1>8, <2>1, <3>1, <4>2 DEF IInv, ClosingIsLast
      <4>3. QED
        BY <4>1, <4>2
    <3>2. QED
      BY <1>4, <3>1 DEF ClosingIsLast
  <2>7. AnswersFit'
    <3>1. ASSUME NEW d \in Clients PROVE BeginsWith(sent'[d], AnsweredUnits(d))
      <4>1. BeginsWith(sent[d], AnsweredUnits(d))
        BY DEF IInv, AnswersFit
      <4>2. CASE d = c
        BY <1>1, <1>6, <1>8, <2>1, <4>1, <4>2, BeginsWithAppend
      <4>3. CASE d # c
        BY <2>1, <4>1, <4>3
      <4>4. QED
        BY <4>2, <4>3
    <3>2. QED
      BY <1>5, <3>1 DEF AnswersFit, BeginsWith
  <2>8. CloseIsAnnounced'
    <3>1. \A d \in Clients : state'[d] = "closed" => d # c /\ state[d] = "closed"
      BY <1>8
    <3>2. QED
      BY <2>1, <3>1 DEF IInv, CloseIsAnnounced, ToSet
  <2>9. QED
    BY <1>1, <1>3, <1>8, <2>1, <2>2, <2>3, <2>4, <2>5, <2>6, <2>7, <2>8
<1>9. CASE u = "eof" /\ sent' = sent /\ state' = [state EXCEPT ![c] = "hungup"]
  <2>1. /\ state' \in [Clients -> ClientStates] /\ state'[c] = "hungup"
        /\ \A d \in Clients : d # c => state'[d] = state[d]
    BY <1>1, <1>9 DEF ClientStates
  <2>2. u \in Wire /\ u \notin Units
    BY <1>9, NotEof DEF Wire
  <2>3. Stream(conn)' = Append(sent[conn], u)
    BY <1>1, <1>9, <2>1 DEF Stream
  <2>4. StalledBy(conn) => StalledBy(conn)'
    BY <1>9 DEF StalledBy, ToSet
  <2>5. OneClient'
    BY <1>1, <1>7, <1>9, <2>1 DEF IInv, OneClient
  <2>6. ClosingIsLast'
    BY <1>2, <1>4, <1>9, <2>1 DEF IInv, ClosingIsLast
  <2>7. AnswersFit'
    BY <1>5, <1>9 DEF IInv, AnswersFit, BeginsWith
  <2>8. CloseIsAnnounced'
    <3>1. \A d \in Clients : state'[d] = "closed" => state[d] = "closed"
      BY <2>1
    <3>2. QED
      BY <1>9, <3>1 DEF IInv, CloseIsAnnounced, ToSet
  <2>9. QED
    BY <1>1, <1>3, <1>9, <2>1, <2>2, <2>3, <2>4, <2>5, <2>6, <2>7, <2>8
<1>10. QED
  BY <1>8, <1>9 DEF Grows

\* What arrives is in the queue, or completes the read that waits for it.
LEMMA ArriveStep ==
    ASSUME IInv, NEW c \in Clients, state[c] = "open", ~Closing(c), NEW u, Grows(c, u),
           Arrive(u),
           UNCHANGED <<flags, backlog, accepting, conn, writing, recv, size, response, m_close, got>>
    PROVE  IInv'
<1>1. /\ c = conn /\ conn # NoClient /\ u \in Wire
      /\ state' \in [Clients -> ClientStates] /\ sent' \in [Clients -> Seq(Units)]
      /\ Stream(conn) = sent[conn] /\ Stream(conn)' = Append(sent[conn], u)
      /\ state'[conn] = "open" => u \in Units /\ sent'[conn] = Append(sent[conn], u)
      /\ u = "eof" => state'[conn] = "hungup"
      /\ StalledBy(conn) => StalledBy(conn)'
      /\ OneClient' /\ ClosingIsLast' /\ AnswersFit' /\ CloseIsAnnounced'
  BY StreamGrows
<1>2. ~EofPosted /\ ~accepting
  BY <1>1 DEF IInv, StepFits
<1>3. /\ recv \in Seq(Wire) /\ Data \in Seq(Wire) /\ inq \in Seq(Wire) /\ recv \in Seq(Units)
      /\ recv \o Data \in Seq(Wire) /\ Unparsed \in Seq(Wire)
      /\ sent[conn] \in Seq(Units) /\ sent[conn] \in Seq(Wire)
      /\ Len(Unparsed) \in Nat /\ Len(sent[conn]) \in Nat /\ Len(recv) \in Nat
  BY <1>1, WireTypes, LenProperties
<1>4. ~\E i \in DOMAIN sent[conn] : ClosingUnit(sent[conn][i])
  BY <1>1, <1>3, ClosingFacts
<1>5. Append(Unparsed, u) \in Seq(Wire) /\ Len(Append(Unparsed, u)) = Len(Unparsed) + 1
      /\ Len(Append(sent[conn], u)) = Len(sent[conn]) + 1
      /\ \A i \in 1..Len(sent[conn]) : Append(sent[conn], u)[i] = sent[conn][i]
  BY <1>1, <1>3, AppendProperties
<1>6. EndsWith(Append(sent[conn], u), Append(Unparsed, u))
  <2>1. EndsWith(sent[conn], Unparsed)
    BY <1>1, <1>2 DEF IInv, UnparsedIsOwn
  <2>2. QED
    BY <1>1, <1>3, <2>1, EndsWithAppend
<1>7. ASSUME Unparsed' = Append(Unparsed, u) PROVE UnparsedIsOwn'
  BY <1>1, <1>6, <1>7 DEF UnparsedIsOwn, EndsWith
<1>8. ASSUME Unparsed' = Append(Unparsed, u), Nothing => Nothing'
      PROVE  NothingSkipped'
  <2>1. SUFFICES ASSUME state'[conn] = "open", ~Nothing
                 PROVE  LET n == Len(AnsweredUnits(conn)')
                            w == IF writing' THEN Len(response'.request) ELSE 0
                        IN /\ n + w + Len(Unparsed') = Len(sent'[conn])
                           /\ \A i \in 1..w : response'.request[i] = sent'[conn][n + i]
    BY <1>8 DEF NothingSkipped
  <2> DEFINE n == Len(AnsweredUnits(conn))
  <2> DEFINE w == IF writing THEN Len(response.request) ELSE 0
  <2>2. n + w + Len(Unparsed) = Len(sent[conn]) /\ \A i \in 1..w : response.request[i] = sent[conn][n + i]
    BY <1>1, <2>1 DEF IInv, NothingSkipped
  <2>3. n \in Nat /\ w \in Nat
    <3>1. <<>> \in Seq(Units)
      BY EmptySeq
    <3>2. NoResponse \in Responses
      BY <3>1 DEF NoResponse, Responses
    <3>3. got[conn] \in Seq(Responses) /\ response.request \in Seq(Units)
      BY <1>1 DEF IInv, TypeOK, Responses
    <3>4. FlattenSeq(Requests(got[conn])) \in Seq(Units)
      BY <3>2, <3>3, AnsweredAppend
    <3>5. Len(FlattenSeq(Requests(got[conn]))) \in Nat /\ Len(response.request) \in Nat
      BY <3>3, <3>4, LenProperties
    <3>6. QED
      BY <3>5 DEF AnsweredUnits, Requests
  <2>4. AnsweredUnits(conn)' = AnsweredUnits(conn)
    BY DEF AnsweredUnits
  <2>5. (IF writing' THEN Len(response'.request) ELSE 0) = w /\ response' = response
    OBVIOUS
  <2> HIDE DEF n, w
  <2>6. n + w + (Len(Unparsed) + 1) = Len(sent[conn]) + 1
    BY <1>3, <2>2, <2>3
  <2>7. \A i \in 1..w : n + i \in 1..Len(sent[conn])
    BY <1>3, <2>2, <2>3
  <2>8. sent'[conn] = Append(sent[conn], u)
    BY <1>1, <2>1
  <2>9. QED
    BY <1>5, <1>8, <2>2, <2>4, <2>5, <2>6, <2>7, <2>8 DEF n
<1>9. CASE ~reading
  <2>1. inq' = Append(inq, u) /\ reading' = reading /\ posted' = posted
    BY <1>9 DEF Arrive
  <2>2. /\ Data' = Data /\ ~EofPosted' /\ (Nothing' <=> Nothing)
        /\ \A h : IsPosted(h)' <=> IsPosted(h)
    BY <1>2, <2>1 DEF Data, EofPosted, Nothing, IsPosted
  <2>3. Unparsed' = Append(Unparsed, u)
    <3> DEFINE b == recv \o Data
    <3>1. b \in Seq(Wire) /\ inq \in Seq(Wire) /\ <<u>> \in Seq(Wire) /\ b \o inq \in Seq(Wire)
      BY <1>1, <1>3 DEF Unparsed
    <3> HIDE DEF b
    <3>2. (b \o inq) \o <<u>> = b \o (inq \o <<u>>)
      BY <3>1, WireAssociative
    <3>3. Append(inq, u) = inq \o <<u>> /\ Append(b \o inq, u) = (b \o inq) \o <<u>>
      BY <1>1, <3>1, AppendIsConcat
    <3>4. QED
      BY <2>1, <2>2, <3>2, <3>3 DEF Unparsed, b
  <2>4. TypeOK'
    <3>1. inq' \in Seq(Wire)
      BY <1>1, <1>3, <2>1, AppendProperties
    <3>2. QED
      BY <1>1, <2>1, <3>1 DEF IInv, TypeOK, Wire
  <2>5. OneStep'
    BY <1>1, <2>1, <2>2 DEF IInv, OneStep
  <2>6. StepFits'
    BY <1>1, <1>2, <1>9, <2>1, <2>2 DEF IInv, StepFits
  <2>7. ResponseFits'
    <3>1. SUFFICES ASSUME writing \/ IsPosted("on_write") PROVE ResponseFits'
      BY <2>2 DEF ResponseFits
    <3>2. /\ response.request # <<>>
          /\ response.close = Closes(Last(response.request))
          /\ ~Closes(Last(response.request))
          /\ ~writing => got[conn] # <<>> /\ Last(got[conn]) = response
      BY <1>1, <1>4, <3>1 DEF IInv, ResponseFits
    <3>3. QED
      BY <3>2 DEF ResponseFits, Closes
  <2>8. UnparsedIsOwn' /\ NothingSkipped'
    BY <1>7, <1>8, <2>2, <2>3
  <2>9. QED
    BY <1>1, <2>4, <2>5, <2>6, <2>7, <2>8 DEF IInv
<1>10. CASE reading
  <2>1. inq = <<>> /\ Len(recv) < size /\ posted = <<>> /\ ~writing /\ ~Nothing
    BY <1>10 DEF IInv, StepFits, OneStep, Nothing
  <2> DEFINE q == <<u>>
  <2> DEFINE n == size - Len(recv)
  <2>2. ReadSome(q, n, <<>>)
    <3>1. Append(<<>>, u) = <<u>>
      OBVIOUS
    <3>2. QED
      BY <1>10, <2>1, <3>1 DEF Arrive
  <2>3. /\ n \in Nat \ {0} /\ size \in Nat
        /\ q \in Seq(Wire) /\ EofLast(q) /\ Len(q) = 1 /\ q[1] = u /\ q # <<>>
        /\ SubSeq(q, 1, 1) = q /\ SubSeq(q, 1+1, 1) = <<>>
    <3>1. n \in Nat \ {0} /\ size \in Nat
      BY <1>3, <2>1 DEF IInv, TypeOK
    <3>2. q \in Seq(Wire) /\ Len(q) = 1 /\ q[1] = u /\ q # <<>>
      BY <1>1
    <3>3. EofLast(q)
      BY <3>2 DEF EofLast
    <3> HIDE DEF q
    <3>4. SubSeq(q, 1, 1) = q /\ SubSeq(q, 1+1, 1) = <<>>
      <4>1. SubSeq(q, 1, 1) = q
        BY <3>2, SubSeqFull
      <4>2. SubSeq(q, 1+1, 1) \in Seq(Wire) /\ Len(SubSeq(q, 1+1, 1)) = 0
        <5>1. 1 \in 0..Len(q) /\ 1 - 1 = 0
          BY <3>2
        <5>2. QED
          BY <3>2, <5>1, TwoParts
      <4>3. QED
        BY <4>1, <4>2, EmptySeq
    <3>5. QED
      BY <3>1, <3>2, <3>3, <3>4
  <2>4. accepting' = FALSE /\ writing' = FALSE
    BY <1>2, <2>1 DEF IInv, TypeOK
  <2>5. \/ /\ u = "eof" /\ reading' = FALSE /\ inq' = <<>>
           /\ posted' = <<Completion("on_read", "eof", <<>>)>>
        \/ /\ reading' = FALSE /\ inq' = <<>> /\ q \in Seq(Units)
           /\ posted' = <<Completion("on_read", "ok", q)>>
    <3> HIDE DEF q, n
    <3>1. ASSUME NEW k \in 1..Len(q), reading' = FALSE,
                 SubSeq(q, 1, k) \in Seq(Units), inq' = SubSeq(q, k+1, Len(q)),
                 posted' = <<Completion("on_read", "ok", SubSeq(q, 1, k))>>
          PROVE  /\ reading' = FALSE /\ inq' = <<>> /\ q \in Seq(Units)
                 /\ posted' = <<Completion("on_read", "ok", q)>>
      <4>1. k = 1
        BY <2>3
      <4>2. QED
        BY <2>3, <3>1, <4>1
    <3>2. QED
      BY <2>2, <2>3, <3>1, ReadSomeFacts
  <2>6. CASE /\ u = "eof" /\ reading' = FALSE /\ inq' = <<>>
             /\ posted' = <<Completion("on_read", "eof", <<>>)>>
    <3>1. IsCompletion(<<Completion("on_read", "eof", <<>>)>>, "on_read", "eof", <<>>)
      <4>1. <<>> \in Seq(Units)
        BY EmptySeq
      <4>2. QED
        BY <4>1, CompletionFacts
    <3>2. /\ posted' \in Seq(Completions) /\ posted' # <<>> /\ Len(posted') = 1
          /\ Data' = <<>> /\ Len(<<>>) = 0 /\ EofPosted' /\ IsPosted("on_read")'
          /\ ~IsPosted("on_accept")' /\ ~IsPosted("on_write")'
          /\ Head(posted').ec = "eof"
      BY <2>6, <3>1 DEF IsCompletion, Data, EofPosted, IsPosted
    <3>3. TypeOK'
      <4>1. inq' \in Seq(Wire)
        BY <2>6, EmptySeq
      <4>2. QED
        BY <1>1, <2>4, <2>6, <3>2, <4>1 DEF IInv, TypeOK, Wire
    <3>4. OneStep'
      BY <2>4, <2>6, <3>2 DEF OneStep, Nothing
    <3>5. StepFits'
      BY <1>1, <1>3, <2>1, <2>3, <2>4, <2>6, <3>2 DEF StepFits
    <3>6. ResponseFits' /\ UnparsedIsOwn'
      BY <2>4, <3>2 DEF ResponseFits, UnparsedIsOwn
    <3>7. NothingSkipped'
      BY <1>1, <2>6 DEF NothingSkipped
    <3>8. QED
      BY <1>1, <3>3, <3>4, <3>5, <3>6, <3>7 DEF IInv
  <2>7. CASE /\ reading' = FALSE /\ inq' = <<>> /\ q \in Seq(Units)
             /\ posted' = <<Completion("on_read", "ok", q)>>
    <3>1. Data = <<>> /\ Unparsed = recv
      <4>1. Data = <<>>
        BY <2>1 DEF Data
      <4>2. recv \o <<>> = recv
        BY <1>3, ConcatEmptySeq
      <4>3. QED
        BY <2>1, <4>1, <4>2 DEF Unparsed
    <3>2. recv \o q = Append(recv, u) /\ (recv \o q) \o <<>> = recv \o q
      <4>1. recv \o q = Append(recv, u)
        BY <1>1, <1>3, AppendIsConcat
      <4>2. Append(recv, u) \in Seq(Wire)
        BY <1>1, <1>3, AppendProperties
      <4>3. Append(recv, u) \o <<>> = Append(recv, u)
        BY <4>2, ConcatEmptySeq
      <4>4. QED
        BY <4>1, <4>3
    <3> HIDE DEF q
    <3>3. IsCompletion(<<Completion("on_read", "ok", q)>>, "on_read", "ok", q)
      BY <2>7, CompletionFacts
    <3>4. /\ posted' \in Seq(Completions) /\ posted' # <<>> /\ Len(posted') = 1
          /\ Data' = q /\ ~EofPosted' /\ IsPosted("on_read")'
          /\ ~IsPosted("on_accept")' /\ ~IsPosted("on_write")'
          /\ Head(posted').ec = "ok"
      BY <2>7, <3>3 DEF IsCompletion, Data, EofPosted, IsPosted
    <3>5. Unparsed' = Append(Unparsed, u)
      BY <2>7, <3>1, <3>2, <3>4 DEF Unparsed
    <3>6. TypeOK'
      <4>1. inq' \in Seq(Wire)
        BY <2>7, EmptySeq
      <4>2. QED
        BY <1>1, <2>4, <2>7, <3>4, <4>1 DEF IInv, TypeOK, Wire
    <3>7. OneStep'
      BY <2>4, <2>7, <3>4 DEF OneStep, Nothing
    <3>8. Len(recv) + Len(q) =< size
      BY <1>3, <2>1, <2>3
    <3>9. StepFits'
      BY <1>1, <2>4, <2>7, <3>4, <3>8 DEF StepFits
    <3>10. ResponseFits'
      BY <2>4, <3>4 DEF ResponseFits
    <3>11. UnparsedIsOwn' /\ NothingSkipped'
      BY <1>7, <1>8, <2>1, <3>5
    <3>12. QED
      BY <1>1, <3>6, <3>7, <3>9, <3>10, <3>11 DEF IInv
  <2>8. QED
    BY <2>5, <2>6, <2>7
<1>11. QED
  BY <1>9, <1>10

\* A client that is not connected comes or goes.
LEMMA OutsideStep ==
    ASSUME IInv, NEW c \in Clients, NEW x \in {"waiting", "hungup"},
           state[c] \in {"idle", "waiting"}, state' = [state EXCEPT ![c] = x],
           \/ backlog' = backlog /\ x = "hungup"
           \/ backlog' = Append(backlog, c) /\ state[c] = "idle" /\ x = "waiting",
           UNCHANGED <<flags, accepting, conn, inq, reading, writing, recv, size, response,
                       m_close, posted, sent, got>>
    PROVE  IInv'
<1>1. /\ state \in [Clients -> ClientStates] /\ NoClient \notin Clients
      /\ backlog \in Seq(Clients) /\ Len(backlog) \in Nat /\ DOMAIN backlog = 1..Len(backlog)
      /\ \A i \in 1..Len(backlog) : backlog[i] \in Clients
  <2>1. state \in [Clients -> ClientStates] /\ backlog \in Seq(Clients)
    BY DEF IInv, TypeOK
  <2>2. QED
    BY <2>1, ConstantsAssumption, LenProperties
<1>2. c # conn /\ sent[c] = <<>> /\ got[c] = <<>>
  BY <1>1 DEF IInv, OneClient
<1>3. /\ state' \in [Clients -> ClientStates] /\ state'[c] = x
      /\ \A d \in Clients : d # c => state'[d] = state[d]
  BY <1>1 DEF ClientStates
<1>4. conn # NoClient => conn \in Clients /\ state'[conn] = state[conn]
  BY <1>2, <1>3 DEF IInv, TypeOK
<1>5. /\ Data' = Data /\ Unparsed' = Unparsed /\ (EofPosted' <=> EofPosted)
      /\ (Nothing' <=> Nothing) /\ (\A h : IsPosted(h)' <=> IsPosted(h))
  BY DEF Data, Unparsed, EofPosted, Nothing, IsPosted
<1>6. /\ \A u : ClosingUnit(u)' <=> ClosingUnit(u)
      /\ \A d : AnsweredUnits(d)' = AnsweredUnits(d)
      /\ AnswersFit' <=> AnswersFit
  BY Framed
<1>7. /\ backlog' \in Seq(Clients)
      /\ \A i \in DOMAIN backlog' :
            /\ state'[backlog'[i]] \in {"waiting", "hungup"} /\ backlog'[i] # conn
            /\ sent[backlog'[i]] = <<>> /\ got[backlog'[i]] = <<>>
      /\ \A i, j \in DOMAIN backlog' : i # j => backlog'[i] # backlog'[j]
  <2>1. \A i \in 1..Len(backlog) :
            /\ state[backlog[i]] \in {"waiting", "hungup"} /\ backlog[i] # conn
            /\ sent[backlog[i]] = <<>> /\ got[backlog[i]] = <<>>
    BY <1>1 DEF IInv, OneClient
  <2>2. \A i, j \in 1..Len(backlog) : i # j => backlog[i] # backlog[j]
    BY <1>1 DEF IInv, OneClient
  <2>3. CASE backlog' = backlog /\ x = "hungup"
    BY <1>1, <1>3, <2>1, <2>2, <2>3
  <2>4. CASE backlog' = Append(backlog, c) /\ state[c] = "idle" /\ x = "waiting"
    <3>1. /\ backlog' \in Seq(Clients) /\ DOMAIN backlog' = 1..(Len(backlog) + 1)
          /\ backlog'[Len(backlog) + 1] = c
          /\ \A i \in 1..Len(backlog) : backlog'[i] = backlog[i]
      BY <1>1, <2>4, AppendProperties
    <3>2. \A i \in 1..Len(backlog) : backlog[i] # c
      BY <2>1, <2>4
    <3>3. \A i \in DOMAIN backlog' : i \in 1..Len(backlog) \/ i = Len(backlog) + 1
      BY <1>1, <3>1
    <3>4. QED
      BY <1>1, <1>2, <1>3, <2>1, <2>2, <2>4, <3>1, <3>2, <3>3
  <2>5. QED
    BY <2>3, <2>4
<1>8. TypeOK'
  BY <1>3, <1>7 DEF IInv, TypeOK
<1>9. OneStep'
  BY <1>5 DEF IInv, OneStep, StalledBy, ToSet
<1>10. StepFits'
  BY <1>4, <1>5 DEF IInv, StepFits
<1>11. OneClient'
  BY <1>2, <1>3, <1>4, <1>7 DEF IInv, OneClient
<1>12. ClosingIsLast'
  <2>1. DOMAIN <<>> = {}
    OBVIOUS
  <2>2. QED
    BY <1>2, <1>3, <1>6, <2>1 DEF IInv, ClosingIsLast
<1>13. UnparsedIsOwn'
  BY <1>4, <1>5 DEF IInv, UnparsedIsOwn, Stream, EndsWith
<1>14. ResponseFits'
  <2>1. writing \/ IsPosted("on_write") => conn # NoClient
    BY DEF IInv, StepFits
  <2>2. \A u : Closes(u)' <=> Closes(u)
    BY DEF Closes
  <2>3. QED
    BY <1>4, <1>5, <1>6, <2>1, <2>2 DEF IInv, ResponseFits, Closes
<1>15. NothingSkipped'
  BY <1>4, <1>5, <1>6 DEF IInv, NothingSkipped
<1>16. AnswersFit'
  BY <1>6 DEF IInv
<1>17. CloseIsAnnounced'
  <2>1. \A d \in Clients : state'[d] = "closed" => state[d] = "closed"
    BY <1>3
  <2>2. QED
    BY <2>1 DEF IInv, CloseIsAnnounced, ToSet
<1>18. QED
  BY <1>8, <1>9, <1>10, <1>11, <1>12, <1>13, <1>14, <1>15, <1>16, <1>17 DEF IInv

LEMMA ConnectStep ==
    ASSUME IInv, NEW c \in Clients, connect(c)
    PROVE  IInv'
<1> DEFINE st == [state EXCEPT ![c] = "waiting"]
<1>1. /\ state[c] = "idle"
      /\ UNCHANGED <<flags, inq, reading, writing, recv, size, response, m_close, sent, got>>
      /\ IF accepting THEN Accept(Append(backlog, c), posted, st)
         ELSE backlog' = Append(backlog, c) /\ state' = st /\ UNCHANGED <<accepting, conn, posted>>
  BY DEF connect, bufVars
<1>2. CASE ~accepting
  BY <1>1, <1>2, OutsideStep
<1>3. CASE accepting
  <2> DEFINE q == Append(backlog, c)
  <2>1. /\ conn = NoClient /\ recv = <<>> /\ inq = <<>> /\ ~reading /\ ~writing /\ posted = <<>>
    BY <1>3 DEF IInv, OneStep, StepFits
  <2>2. Accept(q, <<>>, st)
    BY <1>1, <1>3, <2>1
  <2>3. TypeOK /\ Cleared /\ UNCHANGED m_close
    BY <1>1, <2>1 DEF IInv, TypeOK, Cleared
  <2>4. /\ state \in [Clients -> ClientStates] /\ NoClient \notin Clients
        /\ backlog \in Seq(Clients) /\ Len(backlog) \in Nat /\ DOMAIN backlog = 1..Len(backlog)
        /\ \A i \in 1..Len(backlog) : backlog[i] \in Clients
    BY <2>3, ConstantsAssumption, LenProperties DEF TypeOK
  <2>5. /\ q \in Seq(Clients) /\ DOMAIN q = 1..(Len(backlog) + 1)
        /\ q[Len(backlog) + 1] = c /\ \A i \in 1..Len(backlog) : q[i] = backlog[i]
    BY <2>4, AppendProperties
  <2>6. /\ st \in [Clients -> ClientStates] /\ st[c] = "waiting"
        /\ \A d \in Clients : d # c => st[d] = state[d]
    BY <2>4 DEF ClientStates
  <2> HIDE DEF q, st
  <2>7. \A d \in Clients : st[d] # "open"
    BY <2>1, <2>4, <2>6 DEF IInv, OneClient
  <2>8. \A i \in 1..Len(backlog) :
            /\ state[backlog[i]] \in {"waiting", "hungup"}
            /\ sent[backlog[i]] = <<>> /\ got[backlog[i]] = <<>>
    BY <2>4 DEF IInv, OneClient
  <2>9. \A i, j \in 1..Len(backlog) : i # j => backlog[i] # backlog[j]
    BY <2>4 DEF IInv, OneClient
  <2>10. sent[c] = <<>> /\ got[c] = <<>>
    BY <1>1 DEF IInv, OneClient
  <2>11. \A i \in DOMAIN q : i \in 1..Len(backlog) \/ i = Len(backlog) + 1
    BY <2>4, <2>5
  <2>12. \A i \in 1..Len(backlog) : backlog[i] # c
    BY <1>1, <2>8
  <2>13. \A i \in DOMAIN q :
            st[q[i]] \in {"waiting", "hungup"} /\ sent[q[i]] = <<>> /\ got[q[i]] = <<>>
    BY <2>4, <2>5, <2>6, <2>8, <2>10, <2>11, <2>12
  <2>14. \A i, j \in DOMAIN q : i # j => q[i] # q[j]
    BY <2>4, <2>5, <2>9, <2>11, <2>12
  <2>15. \A d \in Clients : st[d] \in {"idle", "waiting"} => sent[d] = <<>> /\ got[d] = <<>>
    BY <2>6, <2>10 DEF IInv, OneClient
  <2>16. \A d \in Clients : \A i \in DOMAIN sent[d] :
            ClosingUnit(sent[d][i]) => i = Len(sent[d]) /\ st[d] # "hungup"
    BY <2>6 DEF IInv, ClosingIsLast
  <2>17. \A d \in Clients : st[d] = "closed" =>
            ("bad" \in ToSet(sent[d])) \/ (got[d] # <<>> /\ Last(got[d]).close)
    BY <2>6 DEF IInv, CloseIsAnnounced
  <2>18. Between(q, st)
    BY <2>5, <2>6, <2>7, <2>13, <2>14, <2>15, <2>16, <2>17 DEF Between, IInv
  <2>19. QED
    BY <2>2, <2>3, <2>18, Accepted
<1>4. QED
  BY <1>2, <1>3

LEMMA SendStep ==
    ASSUME MayOverrun = FALSE, IInv, NEW c \in Clients, NEW u \in {"part"} \cup Kinds, send(c, u)
    PROVE  IInv'
<1>1. u \in Units
  BY ConstantsAssumption DEF Units
<1>2. /\ state[c] = "open" /\ ~Closing(c) /\ Arrive(u)
      /\ sent' = [sent EXCEPT ![c] = Append(@, u)] /\ state' = state
      /\ UNCHANGED <<flags, backlog, accepting, conn, writing, recv, size, response, m_close, got>>
  BY DEF send, bufVars
<1>3. Grows(c, u)
  BY <1>1, <1>2 DEF Grows
<1>4. QED
  BY <1>2, <1>3, ArriveStep

LEMMA HangupStep ==
    ASSUME MayOverrun = FALSE, IInv, NEW c \in Clients, hangup(c)
    PROVE  IInv'
<1>1. /\ state' = [state EXCEPT ![c] = "hungup"] /\ sent' = sent
      /\ UNCHANGED <<flags, backlog, accepting, conn, writing, recv, size, response, m_close, got>>
  BY DEF hangup, bufVars
<1>2. CASE state[c] = "waiting"
  <2>1. UNCHANGED <<inq, reading, posted>>
    BY <1>2 DEF hangup
  <2>2. QED
    BY <1>1, <1>2, <2>1, OutsideStep
<1>3. CASE state[c] # "waiting"
  <2>1. state[c] = "open" /\ ~Closing(c) /\ Arrive("eof")
    BY <1>3 DEF hangup
  <2>2. Grows(c, "eof")
    BY <1>1 DEF Grows
  <2>3. QED
    BY <1>1, <2>1, <2>2, ArriveStep
<1>4. QED
  BY <1>2, <1>3

LEMMA AckedStep ==
    ASSUME IInv, Acked
    PROVE  IInv'
<1>1. /\ writing /\ state[conn] = "open" /\ writing' = FALSE
      /\ got' = [got EXCEPT ![conn] = Append(@, response)]
      /\ posted' = Append(posted, Completion("on_write", "ok", <<>>))
      /\ UNCHANGED <<flags, backlog, accepting, conn, inq, reading, recv, size, response, m_close,
                     state, sent>>
  BY DEF Acked, bufVars
<1>2. /\ conn # NoClient /\ conn \in Clients /\ posted = <<>> /\ ~accepting /\ ~reading
      /\ Data = <<>> /\ ~Nothing /\ ~EofPosted
      /\ response \in Responses /\ got \in [Clients -> Seq(Responses)]
      /\ got[conn] \in Seq(Responses) /\ sent[conn] \in Seq(Units)
  BY <1>1 DEF IInv, TypeOK, OneStep, StepFits, Data, Nothing, EofPosted
<1>3. IsCompletion(<<Completion("on_write", "ok", <<>>)>>, "on_write", "ok", <<>>)
  <2>1. <<>> \in Seq(Units)
    BY EmptySeq
  <2>2. QED
    BY <2>1, CompletionFacts
<1>4. /\ posted' \in Seq(Completions) /\ posted' # <<>> /\ Len(posted') = 1
      /\ Data' = <<>> /\ ~EofPosted' /\ IsPosted("on_write")'
      /\ ~IsPosted("on_accept")' /\ ~IsPosted("on_read")' /\ Head(posted').ec = "ok"
  <2>1. posted' = <<Completion("on_write", "ok", <<>>)>>
    BY <1>1, <1>2
  <2>2. QED
    BY <1>3, <2>1 DEF IsCompletion, Data, EofPosted, IsPosted
<1>5. Unparsed' = Unparsed
  BY <1>1, <1>2, <1>4 DEF Unparsed
<1>6. /\ got' \in [Clients -> Seq(Responses)]
      /\ \A c \in Clients : c # conn => got'[c] = got[c]
      /\ got'[conn] = Append(got[conn], response)
      /\ got'[conn] # <<>> /\ Last(got'[conn]) = response
  <2>1. Append(got[conn], response) \in Seq(Responses)
    BY <1>2, AppendProperties
  <2>2. /\ got' \in [Clients -> Seq(Responses)]
        /\ \A c \in Clients : c # conn => got'[c] = got[c]
        /\ got'[conn] = Append(got[conn], response)
    BY <1>1, <1>2, <2>1
  <2>3. Append(got[conn], response) # <<>> /\ Last(Append(got[conn], response)) = response
    BY <1>2, AppendProperties DEF Last
  <2>4. QED
    BY <2>2, <2>3
<1>7. TypeOK'
  BY <1>1, <1>4, <1>6 DEF IInv, TypeOK
<1>8. OneStep'
  BY <1>1, <1>2, <1>4 DEF OneStep, Nothing
<1>9. StepFits'
  BY <1>1, <1>2, <1>4 DEF IInv, StepFits
<1>10. OneClient'
  <2>1. \A i \in DOMAIN backlog : backlog[i] \in Clients /\ backlog[i] # conn
    BY <1>2 DEF IInv, TypeOK, OneClient
  <2>2. \A c \in Clients : state[c] \in {"idle", "waiting"} => c # conn
    BY <1>1
  <2>3. QED
    BY <1>1, <1>6, <2>1, <2>2 DEF IInv, OneClient
<1>11. \A u : (ClosingUnit(u)' <=> ClosingUnit(u)) /\ (Closes(u)' <=> Closes(u))
  BY <1>1 DEF ClosingUnit, Closes
<1>12. ClosingIsLast'
  BY <1>1, <1>11 DEF IInv, ClosingIsLast
<1>13. UnparsedIsOwn'
  BY <1>1, <1>2, <1>5 DEF IInv, UnparsedIsOwn, Stream, EndsWith
<1>14. ResponseFits'
  BY <1>1, <1>6, <1>11 DEF IInv, ResponseFits, Closes
<1> DEFINE n == Len(AnsweredUnits(conn))
<1> DEFINE a == response.request
<1>15. /\ AnsweredUnits(conn) \in Seq(Units) /\ a \in Seq(Units)
       /\ AnsweredUnits(conn)' = AnsweredUnits(conn) \o a
  BY <1>1, <1>2, <1>6, AnsweredAppend DEF AnsweredUnits, Requests
<1>16. n + Len(a) + Len(Unparsed) = Len(sent[conn]) /\ \A i \in 1..Len(a) : a[i] = sent[conn][n + i]
  BY <1>1, <1>2 DEF IInv, NothingSkipped
<1>17. n \in Nat /\ Len(a) \in Nat /\ Len(Unparsed) \in Nat /\ Len(sent[conn]) \in Nat
       /\ Len(AnsweredUnits(conn) \o a) = n + Len(a)
  BY <1>2, <1>15, WireTypes, LenProperties, ConcatProperties
<1>18. NothingSkipped'
  <2> HIDE DEF n, a
  <2>1. Len(AnsweredUnits(conn)') + 0 + Len(Unparsed') = Len(sent[conn])
    BY <1>5, <1>15, <1>16, <1>17
  <2>2. QED
    BY <1>1, <2>1 DEF NothingSkipped
<1>19. AnswersFit'
  <2>1. \A c \in Clients : BeginsWith(sent[c], AnsweredUnits(c))
    BY DEF IInv, AnswersFit
  <2>2. BeginsWith(sent[conn], AnsweredUnits(conn) \o a)
    <3>1. n + Len(a) =< Len(sent[conn])
      <4> HIDE DEF n, a
      <4>1. QED
        BY <1>16, <1>17
    <3>2. QED
      BY <1>2, <1>15, <1>16, <2>1, <3>1, BeginsWithMore
  <2>3. \A c \in Clients : c # conn => AnsweredUnits(c)' = AnsweredUnits(c)
    BY <1>6 DEF AnsweredUnits
  <2>4. ASSUME NEW c \in Clients PROVE BeginsWith(sent[c], AnsweredUnits(c)')
    <3>1. CASE c = conn
      BY <1>1, <1>15, <2>2, <3>1
    <3>2. CASE c # conn
      BY <2>1, <2>3, <3>2
    <3>3. QED
      BY <3>1, <3>2
  <2>5. QED
    BY <1>1, <2>4 DEF AnswersFit, BeginsWith
<1>20. CloseIsAnnounced'
  <2>1. \A c \in Clients : state[c] = "closed" => c # conn
    BY <1>1
  <2>2. QED
    BY <1>1, <1>6, <2>1 DEF IInv, CloseIsAnnounced, ToSet
<1>21. QED
  BY <1>7, <1>8, <1>9, <1>10, <1>12, <1>13, <1>14, <1>18, <1>19, <1>20 DEF IInv

LEMMA StopStep ==
    ASSUME IInv, stop
    PROVE  IInv'
<1>1. /\ m_close' = TRUE /\ accepting' = FALSE
      /\ posted' = IF accepting
                   THEN Append(posted, Completion("on_accept", "operation_aborted", <<>>))
                   ELSE posted
      /\ UNCHANGED <<flags, backlog, conn, inq, reading, writing, recv, size, response,
                     state, sent, got>>
  BY DEF stop, connVars, bufVars, clientVars
<1>2. OneClient' /\ ClosingIsLast' /\ AnswersFit' /\ CloseIsAnnounced'
  BY <1>1, ClientsFramed
<1>3. \A u : (ClosingUnit(u)' <=> ClosingUnit(u)) /\ (Closes(u)' <=> Closes(u))
  BY <1>1 DEF ClosingUnit, Closes
<1>4. CASE accepting
  <2>1. conn = NoClient /\ recv = <<>> /\ inq = <<>> /\ ~reading /\ ~writing /\ posted = <<>>
    BY <1>4 DEF IInv, OneStep, StepFits
  <2>2. IsCompletion(<<Completion("on_accept", "operation_aborted", <<>>)>>,
                     "on_accept", "operation_aborted", <<>>)
    <3>1. <<>> \in Seq(Units)
      BY EmptySeq
    <3>2. QED
      BY <3>1, CompletionFacts
  <2>3. /\ posted' \in Seq(Completions) /\ posted' # <<>> /\ Len(posted') = 1
        /\ Data' = <<>> /\ ~EofPosted' /\ IsPosted("on_accept")'
        /\ ~IsPosted("on_write")' /\ ~IsPosted("on_read")' /\ Head(posted').ec # "ok"
    <3>1. posted' = <<Completion("on_accept", "operation_aborted", <<>>)>>
      BY <1>1, <1>4, <2>1
    <3>2. QED
      BY <2>2, <3>1 DEF IsCompletion, Data, EofPosted, IsPosted
  <2>4. TypeOK'
    BY <1>1, <2>3 DEF IInv, TypeOK
  <2>5. OneStep'
    BY <1>1, <2>1, <2>3 DEF OneStep
  <2>6. StepFits'
    <3>1. Len(<<>>) = 0 /\ size \in Nat
      BY DEF IInv, TypeOK
    <3>2. QED
      BY <1>1, <2>1, <2>3, <3>1 DEF StepFits
  <2>7. UnparsedIsOwn' /\ ResponseFits' /\ NothingSkipped'
    BY <1>1, <2>1, <2>3 DEF UnparsedIsOwn, ResponseFits, NothingSkipped
  <2>8. QED
    BY <1>2, <2>4, <2>5, <2>6, <2>7 DEF IInv
<1>5. CASE ~accepting
  <2>1. posted' = posted /\ accepting' = accepting
    BY <1>1, <1>5 DEF IInv, TypeOK
  <2>2. /\ Data' = Data /\ Unparsed' = Unparsed /\ (EofPosted' <=> EofPosted)
        /\ (Nothing' <=> Nothing) /\ (\A h : IsPosted(h)' <=> IsPosted(h))
        /\ \A c : AnsweredUnits(c)' = AnsweredUnits(c)
    BY <1>1, <2>1 DEF Data, Unparsed, EofPosted, Nothing, IsPosted, AnsweredUnits
  <2>3. TypeOK'
    BY <1>1, <2>1 DEF IInv, TypeOK
  <2>4. OneStep'
    BY <1>1, <2>1, <2>2 DEF IInv, OneStep
  <2>5. StepFits'
    BY <1>1, <2>1, <2>2 DEF IInv, StepFits
  <2>6. UnparsedIsOwn'
    BY <1>1, <2>2 DEF IInv, UnparsedIsOwn, Stream, EndsWith
  <2>7. ResponseFits'
    BY <1>1, <1>3, <2>2 DEF IInv, ResponseFits, Closes
  <2>8. NothingSkipped'
    BY <1>1, <2>2 DEF IInv, NothingSkipped
  <2>9. QED
    BY <1>2, <2>3, <2>4, <2>5, <2>6, <2>7, <2>8 DEF IInv
<1>6. QED
  BY <1>4, <1>5

LEMMA Unchanged ==
    ASSUME IInv, UNCHANGED vars
    PROVE  IInv'
<1>1. UNCHANGED <<flags, backlog, accepting, conn, inq, reading, writing, recv, size, response,
                  m_close, posted, state, sent, got>>
  BY DEF vars, connVars, bufVars, clientVars
<1>2. OneClient' /\ ClosingIsLast' /\ AnswersFit' /\ CloseIsAnnounced'
  BY <1>1, ClientsFramed
<1>3. /\ Data' = Data /\ Unparsed' = Unparsed /\ (EofPosted' <=> EofPosted)
      /\ (Nothing' <=> Nothing) /\ (\A h : IsPosted(h)' <=> IsPosted(h))
      /\ \A c : AnsweredUnits(c)' = AnsweredUnits(c)
      /\ \A u : (ClosingUnit(u)' <=> ClosingUnit(u)) /\ (Closes(u)' <=> Closes(u))
  BY <1>1 DEF Data, Unparsed, EofPosted, Nothing, IsPosted, AnsweredUnits, ClosingUnit, Closes
<1>4. TypeOK'
  BY <1>1 DEF IInv, TypeOK
<1>5. OneStep' /\ StepFits'
  BY <1>1, <1>3 DEF IInv, OneStep, StepFits, StalledBy, ToSet
<1>6. UnparsedIsOwn'
  BY <1>1, <1>3 DEF IInv, UnparsedIsOwn, Stream, EndsWith
<1>7. ResponseFits'
  BY <1>1, <1>3 DEF IInv, ResponseFits, Closes
<1>8. NothingSkipped'
  BY <1>1, <1>3 DEF IInv, NothingSkipped
<1>9. QED
  BY <1>2, <1>4, <1>5, <1>6, <1>7, <1>8 DEF IInv

-----------------------------------------------------------------------------
(* The theorems.                                                           *)

\* What the server has in its queue and its buffer is the end of what its client
\* sent, and everything before it is answered or is being answered: at every
\* step of every handler, whatever the clients do that do not overrun a close.
THEOREM ServerInvariance == MayOverrun = FALSE => (Spec => []IInv)
<1>1. ASSUME MayOverrun = FALSE, IInv, [Next]_vars
      PROVE  IInv'
  <2>1. CASE Run
    BY <1>1, <2>1, OnAcceptStep, OnReadStep, OnWriteStep DEF Run
  <2>2. CASE Acked
    BY <1>1, <2>2, AckedStep
  <2>3. CASE stop
    BY <1>1, <2>3, StopStep
  <2>4. ASSUME NEW c \in Clients, connect(c) PROVE IInv'
    BY <1>1, <2>4, ConnectStep
  <2>5. ASSUME NEW c \in Clients, hangup(c) PROVE IInv'
    BY <1>1, <2>5, HangupStep
  <2>6. ASSUME NEW c \in Clients, NEW u \in {"part"} \cup Kinds, send(c, u) PROVE IInv'
    BY <1>1, <2>6, SendStep
  <2>7. CASE UNCHANGED vars
    BY <1>1, <2>7, Unchanged
  <2>8. QED
    BY <1>1, <2>1, <2>2, <2>3, <2>4, <2>5, <2>6, <2>7 DEF Next
<1>2. SUFFICES ASSUME MayOverrun = FALSE PROVE Spec => []IInv
  OBVIOUS
<1>3. IInv /\ [Next]_vars => IInv'
  BY <1>1, <1>2
<1>4. QED
  BY <1>3, Initially, PTL DEF Spec

\* The chain of completion handlers neither forks nor breaks: of accept, read, write
\* and a completion one is outstanding, and a read has room in the buffer.
THEOREM ServerKeepsItsChain == MayOverrun = FALSE => (Spec => []ChainKept)
<1>1. ASSUME IInv PROVE ChainKept
  <2>1. Len(posted) \in Nat /\ (posted = <<>> <=> Len(posted) = 0)
    BY EmptySeq, LenProperties DEF IInv, TypeOK
  <2> DEFINE n == Len(posted) + Count(accepting) + Count(reading) + Count(writing)
  <2>2. CASE posted # <<>>
    <3>1. ~accepting /\ ~reading /\ ~writing /\ Len(posted) = 1
      <4>1. ~accepting /\ ~reading /\ ~writing /\ Len(posted) =< 1 /\ Len(posted) # 0
        BY <1>1, <2>1, <2>2 DEF IInv, OneStep
      <4>2. Len(posted) = 1
        <5>1. \A k \in Nat : k =< 1 /\ k # 0 => k = 1
          OBVIOUS
        <5>2. QED
          BY <2>1, <4>1, <5>1, Zenon
      <4>3. QED
        BY <4>1, <4>2
    <3>2. n = 1
      BY <3>1 DEF Count
    <3>3. QED
      BY <1>1, <3>1, <3>2 DEF ChainKept, OneHandler, ReadHasRoom
  <2>3. CASE posted = <<>>
    <3>1. n =< 1
      BY <1>1, <2>1, <2>3 DEF IInv, OneStep, Count
    <3>2. n = 0 => Nothing
      BY <2>1, <2>3 DEF Nothing, Count
    <3>3. OneHandler
      BY <1>1, <3>1, <3>2 DEF IInv, OneStep, OneHandler
    <3>4. ReadHasRoom
      BY <1>1 DEF IInv, StepFits, ReadHasRoom, TypeOK
    <3>5. QED
      BY <3>3, <3>4 DEF ChainKept
  <2>4. QED
    BY <2>2, <2>3
<1>2. QED
  BY <1>1, ServerInvariance, PTL

\* The responses a client gets answer, one by one and whole, the requests it sent,
\* in the order it sent them: across connections, split and pipelined requests,
\* and responses that wait for acks.
THEOREM ServerAnswersOwnRequests == MayOverrun = FALSE => (Spec => []AnswersOwnRequests)
<1>1. ASSUME IInv PROVE AnswersOwnRequests
  <2>1. ASSUME NEW c \in Clients PROVE IsPrefix(AnsweredUnits(c), sent[c])
    <3>1. got[c] \in Seq(Responses) /\ sent[c] \in Seq(Units) /\ BeginsWith(sent[c], AnsweredUnits(c))
      BY <1>1 DEF IInv, TypeOK, AnswersFit
    <3>2. <<>> \in Seq(Units)
      BY EmptySeq
    <3>3. NoResponse \in Responses
      BY <3>2 DEF NoResponse, Responses
    <3>4. AnsweredUnits(c) \in Seq(Units)
      BY <3>1, <3>3, AnsweredAppend DEF AnsweredUnits, Requests
    <3>5. QED
      BY <3>1, <3>4, BeginsWithIsPrefix
  <2>2. QED
    BY <2>1 DEF AnswersOwnRequests, AnsweredUnits
<1>2. QED
  BY <1>1, ServerInvariance, PTL

\* The server closes a connection only after a response that said so, or for a
\* request it could not parse.
THEOREM ServerAnnouncesClose == MayOverrun = FALSE => (Spec => []CloseIsAnnounced)
<1>1. IInv => CloseIsAnnounced
  BY DEF IInv
<1>2. QED
  BY <1>1, ServerInvariance, PTL

=============================================================================
