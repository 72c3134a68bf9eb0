--------------------------- MODULE ResolverProofs ---------------------------
(***************************************************************************)
(* Proofs about Resolver, for any latencies and any number of lookups.     *)
(***************************************************************************)
EXTENDS Resolver, FiniteSetTheorems, SequenceTheorems, TLAPS

-----------------------------------------------------------------------------
(* Every lookup is in one place.                                           *)

\* The lookups in the queue, those whose handlers are posted by cancel(), and
\* those that are answered; each of them once.
Ids(q) == {q[i].id : i \in DOMAIN q}
Once(q) == \A i, j \in DOMAIN q : q[i].id = q[j].id => i = j

Handlers(p) == {i \in DOMAIN p : p[i].call = "handler"}
HandlerIds(p) == {p[i].lookup.id : i \in Handlers(p)}
HandlersOnce(p) == \A i, j \in Handlers(p) : p[i].lookup.id = p[j].lookup.id => i = j

DoneIds(d) == {d[i].lookup.id : i \in DOMAIN d}
DoneOnce(d) == \A i, j \in DOMAIN d : d[i].lookup.id = d[j].lookup.id => i = j

InOnePlace(q, p, d, n) ==
    /\ Once(q) /\ HandlersOnce(p) /\ DoneOnce(d)
    /\ Ids(q) \cap HandlerIds(p) = {}
    /\ Ids(q) \cap DoneIds(d) = {}
    /\ HandlerIds(p) \cap DoneIds(d) = {}
    /\ Ids(q) \cup HandlerIds(p) \cup DoneIds(d) = 1..n

PlacesInv == TypeOK /\ InOnePlace(queue, posted, done, asked)

-----------------------------------------------------------------------------
(* Names are answered in their turn.                                       *)

\* on_lookup() is about to be called for a timer that fired.
Fired == posted # <<>> /\ Head(posted) = OnLookup("ok")

\* Only the first thing posted can be that call: the clock moves, and the timer
\* fires, when nothing is posted.
FiredFirst == \A i \in DOMAIN posted : posted[i] = OnLookup("ok") => i = 1

\* The time of the last answer.
LastAnswer == IF done = <<>> THEN 0 ELSE done[Len(done)].at

\* The timer waits for the lookup at the front, or has fired for it; a name that
\* is looked up in between arms it again, and it is armed for the next lookup once
\* the handler of the first one has returned.
TimerFits ==
    /\ ctx = "idle" /\ queue = <<>> => ~Fired /\ ~timer.armed
    /\ ctx = "idle" /\ queue # <<>> /\ ~Fired => timer.armed /\ timer.at = Head(queue).completion
    /\ ctx = "idle" /\ queue # <<>> /\ Fired =>
        Head(queue).completion = now /\ (timer.armed => Len(queue) = 2)
    /\ ctx = "handler" => ~Fired
    /\ ctx = "handler" /\ queue = <<>> => ~timer.armed
    /\ ctx = "handler" /\ more => queue # <<>>
    /\ ctx = "handler" /\ ~more /\ queue # <<>> => timer.armed /\ timer.at = Head(queue).completion

\* The completion times of the queue are those of serial lookups.
QueueFits ==
    /\ Len(queue) =< 2
    /\ LastAnswer =< now
    /\ queue # <<>> =>
        /\ now =< Head(queue).completion
        /\ Head(queue).completion = Later(Head(queue).asked, LastAnswer) + Head(queue).lat
    /\ Len(queue) = 2 =>
        /\ queue[2].asked =< queue[1].completion
        /\ queue[2].completion = queue[1].completion + queue[2].lat

NoHandlers == \A i \in DOMAIN posted : posted[i].call # "handler"

SerialInv ==
    simple => TimerFits /\ QueueFits /\ NoHandlers /\ SerialLatency /\ ctx # "undefined"

TurnInv == TypeOK /\ FiredFirst /\ SerialInv

\* on_lookup() finds a lookup after the handler when there was one before.
FrontInv == TypeOK /\ ctx # "undefined" /\ (ctx = "handler" /\ more => queue # <<>>)

-----------------------------------------------------------------------------
(* Sequences and types.                                                    *)

Calls ==
    [call : {"on_lookup"}, ec : {"ok", "operation_aborted"}]
    \cup [call : {"handler"}, lookup : Lookups]

LEMMA TailSeq ==
    ASSUME NEW S, NEW s \in Seq(S), s # <<>>
    PROVE  /\ Tail(s) \in Seq(S) /\ Head(s) \in S /\ Head(s) = s[1] /\ 1 \in DOMAIN s
           /\ Len(s) \in Nat \ {0} /\ DOMAIN s = 1..Len(s) /\ DOMAIN Tail(s) = 1..(Len(s)-1)
           /\ Len(Tail(s)) = Len(s) - 1
           /\ \A i \in DOMAIN Tail(s) : i+1 \in DOMAIN s /\ Tail(s)[i] = s[i+1] /\ i+1 # 1
           /\ \A k \in DOMAIN s : k = 1 \/ (k-1 \in DOMAIN Tail(s) /\ Tail(s)[k-1] = s[k])
<1>1. Len(s) \in Nat \ {0}
  BY EmptySeq
<1>2. QED
  BY <1>1, HeadTailProperties, LenProperties

LEMMA AppendSeq ==
    ASSUME NEW S, NEW s \in Seq(S), NEW e \in S
    PROVE  /\ Append(s, e) \in Seq(S) /\ Append(s, e) # <<>>
           /\ Len(s) \in Nat /\ DOMAIN s = 1..Len(s) /\ Len(Append(s, e)) = Len(s) + 1
           /\ DOMAIN Append(s, e) = 1..(Len(s)+1)
           /\ Len(s)+1 \in DOMAIN Append(s, e) /\ Append(s, e)[Len(s)+1] = e /\ Len(s)+1 \notin DOMAIN s
           /\ \A i \in DOMAIN s : i \in DOMAIN Append(s, e) /\ Append(s, e)[i] = s[i]
           /\ \A i \in DOMAIN Append(s, e) : i \in DOMAIN s \/ i = Len(s)+1
BY AppendProperties, LenProperties

LEMMA PrefixSeq ==
    ASSUME NEW S, NEW s \in Seq(S), NEW e \in S
    PROVE  /\ <<e>> \o s \in Seq(S) /\ <<e>> \o s # <<>> /\ Head(<<e>> \o s) = e
           /\ DOMAIN (<<e>> \o s) = 1..(Len(s)+1) /\ (<<e>> \o s)[1] = e /\ 1 \in DOMAIN (<<e>> \o s)
           /\ \A i \in DOMAIN s : i+1 \in DOMAIN (<<e>> \o s) /\ (<<e>> \o s)[i+1] = s[i]
           /\ \A k \in DOMAIN (<<e>> \o s) : k = 1 \/ (k-1 \in DOMAIN s /\ (<<e>> \o s)[k] = s[k-1])
<1>1. <<e>> \in Seq(S) /\ Len(<<e>>) = 1 /\ <<e>>[1] = e /\ Len(s) \in Nat /\ DOMAIN s = 1..Len(s)
  BY LenProperties
<1> DEFINE a == <<e>>
<1>2. /\ a \o s \in Seq(S) /\ Len(a \o s) = Len(a) + Len(s)
      /\ \A i \in 1..(Len(a)+Len(s)) : (a \o s)[i] = IF i =< Len(a) THEN a[i] ELSE s[i - Len(a)]
  BY <1>1, ConcatProperties
<1>3. DOMAIN (a \o s) = 1..(Len(s)+1)
  BY <1>1, <1>2, LenProperties
<1> HIDE DEF a
<1>4. a[1] = e /\ Len(a) = 1
  BY <1>1 DEF a
<1>5. (a \o s)[1] = e /\ a \o s # <<>> /\ Len(a \o s) # 0
  BY <1>1, <1>2, <1>4
<1>6. Head(a \o s) = e
  BY <1>2, <1>5, HeadTailProperties
<1>7. ASSUME NEW k \in 1..(Len(s)+1), k # 1 PROVE k-1 \in DOMAIN s /\ (a \o s)[k] = s[k-1]
  BY <1>1, <1>2, <1>4, <1>7
<1>8. ASSUME NEW i \in DOMAIN s PROVE i+1 \in DOMAIN (a \o s) /\ (a \o s)[i+1] = s[i]
  <2>1. i+1 \in 1..(Len(s)+1) /\ i+1 # 1 /\ (i+1)-1 = i
    BY <1>1
  <2>2. QED
    BY <1>3, <1>7, <2>1
<1>9. 1 \in DOMAIN (a \o s)
  BY <1>1, <1>3
<1>10. QED
  BY <1>2, <1>3, <1>5, <1>6, <1>7, <1>8, <1>9 DEF a

LEMMA ConcatSeq ==
    ASSUME NEW S, NEW a \in Seq(S), NEW b \in Seq(S)
    PROVE  /\ a \o b \in Seq(S) /\ DOMAIN a = 1..Len(a) /\ DOMAIN b = 1..Len(b) /\ Len(a) \in Nat /\ Len(b) \in Nat
           /\ \A i \in DOMAIN a : i \in DOMAIN (a \o b) /\ (a \o b)[i] = a[i]
           /\ \A i \in DOMAIN b : Len(a)+i \in DOMAIN (a \o b) /\ (a \o b)[Len(a)+i] = b[i]
           /\ \A k \in DOMAIN (a \o b) : k \in DOMAIN a \/ (k - Len(a) \in DOMAIN b /\ k = Len(a) + (k - Len(a)))
<1>1. /\ a \o b \in Seq(S) /\ Len(a \o b) = Len(a) + Len(b) /\ Len(a) \in Nat /\ Len(b) \in Nat
      /\ \A i \in 1..(Len(a)+Len(b)) : (a \o b)[i] = IF i =< Len(a) THEN a[i] ELSE b[i - Len(a)]
  BY ConcatProperties, LenProperties
<1>2. DOMAIN (a \o b) = 1..(Len(a)+Len(b)) /\ DOMAIN a = 1..Len(a) /\ DOMAIN b = 1..Len(b)
  BY <1>1, LenProperties
<1>3. \A i \in DOMAIN a : i \in DOMAIN (a \o b) /\ (a \o b)[i] = a[i]
  BY <1>1, <1>2
<1>4. ASSUME NEW i \in DOMAIN b PROVE Len(a)+i \in DOMAIN (a \o b) /\ (a \o b)[Len(a)+i] = b[i]
  <2>1. Len(a)+i \in 1..(Len(a)+Len(b)) /\ ~(Len(a)+i =< Len(a)) /\ (Len(a)+i) - Len(a) = i
    BY <1>1, <1>2
  <2>2. QED
    BY <1>1, <1>2, <2>1
<1>5. ASSUME NEW k \in DOMAIN (a \o b) PROVE k \in DOMAIN a \/ (k - Len(a) \in DOMAIN b /\ k = Len(a) + (k - Len(a)))
  BY <1>1, <1>2
<1>6. QED
  BY <1>1, <1>2, <1>3, <1>4, <1>5

LEMMA TypeFacts ==
    ASSUME TypeOK
    PROVE  /\ now \in Nat /\ queue \in Seq(Lookups) /\ posted \in Seq(Calls) /\ done \in Seq(Answered)
           /\ timer.at \in Nat /\ asked \in 0..MaxLookups /\ MaxLookups \in Nat
           /\ LiteralLatency \in Nat /\ Latencies \subseteq Nat
BY ConstantsAssumption DEF TypeOK, Calls

LEMMA CallFacts ==
    /\ \A ec \in {"ok", "operation_aborted"} : OnLookup(ec) \in Calls /\ OnLookup(ec).call = "on_lookup"
    /\ \A r \in Lookups : Aborted(r) \in Calls /\ Aborted(r).call = "handler" /\ Aborted(r).lookup = r
    /\ \A k \in Calls : k.call = "handler" => k.lookup \in Lookups
    /\ OnLookup("ok") # OnLookup("operation_aborted")
<1>1. \A ec \in {"ok", "operation_aborted"} : OnLookup(ec) \in Calls /\ OnLookup(ec).call = "on_lookup"
  BY DEF OnLookup, Calls
<1>2. \A r \in Lookups : Aborted(r) \in Calls /\ Aborted(r).call = "handler" /\ Aborted(r).lookup = r
  BY DEF Aborted, Calls
<1>3. \A k \in Calls : k.call = "handler" => k.lookup \in Lookups
  BY DEF Calls
<1>4. OnLookup("ok").ec = "ok" /\ OnLookup("operation_aborted").ec = "operation_aborted"
  BY DEF OnLookup
<1>5. OnLookup("ok") # OnLookup("operation_aborted")
  BY <1>4
<1>6. QED
  BY <1>1, <1>2, <1>3, <1>5

\* A lookup as async_resolve() puts it in the queue.
NewLiteral(i, from, comp, l) ==
    [id |-> i, literal |-> TRUE, asked |-> from, completion |-> comp, lat |-> l]

LEMMA NewLiteralFacts ==
    ASSUME NEW i \in 1..MaxLookups, NEW from \in Nat, NEW comp \in Nat, NEW l \in Nat
    PROVE  /\ NewLiteral(i, from, comp, l) \in Lookups
           /\ NewLiteral(i, from, comp, l).id = i
           /\ NewLiteral(i, from, comp, l).asked = from
           /\ NewLiteral(i, from, comp, l).completion = comp
           /\ NewLiteral(i, from, comp, l).lat = l
<1>1. NewLiteral(i, from, comp, l) \in Lookups
  BY Zenon DEF NewLiteral, Lookups
<1>2. QED
  BY <1>1, Zenon DEF NewLiteral

NewName(i, from, comp, l) ==
    [id |-> i, literal |-> FALSE, asked |-> from, completion |-> comp, lat |-> l]

LEMMA NewNameFacts ==
    ASSUME NEW i \in 1..MaxLookups, NEW from \in Nat, NEW comp \in Nat, NEW l \in Nat
    PROVE  /\ NewName(i, from, comp, l) \in Lookups
           /\ NewName(i, from, comp, l).id = i
           /\ NewName(i, from, comp, l).asked = from
           /\ NewName(i, from, comp, l).completion = comp
           /\ NewName(i, from, comp, l).lat = l
<1>1. NewName(i, from, comp, l) \in Lookups
  BY Zenon DEF NewName, Lookups
<1>2. QED
  BY <1>1, Zenon DEF NewName

LEMMA LookupFacts ==
    ASSUME NEW r \in Lookups
    PROVE  /\ r.id \in 1..MaxLookups /\ r.completion \in Nat /\ r.asked \in Nat /\ r.lat \in Nat
BY Zenon DEF Lookups

\* The answer to lookup r.
Answer(r, ec, t) == [lookup |-> r, ec |-> ec, at |-> t]

LEMMA AnswerFacts ==
    ASSUME NEW r \in Lookups, NEW ec \in {"ok", "operation_aborted"}, NEW t \in Nat
    PROVE  /\ Answer(r, ec, t) \in Answered /\ Answer(r, ec, t).lookup = r
           /\ Answer(r, ec, t).ec = ec /\ Answer(r, ec, t).at = t
BY DEF Answer, Answered

LEMMA HeadFacts ==
    ASSUME TypeOK, queue # <<>>
    PROVE  Head(queue) \in Lookups /\ Head(queue).completion \in Nat /\ Tail(queue) \in Seq(Lookups)
<1>1. Head(queue) \in Lookups /\ Tail(queue) \in Seq(Lookups)
  BY TypeFacts, TailSeq
<1>2. QED
  BY <1>1, LookupFacts

LEMMA StartFacts ==
    ASSUME TypeOK
    PROVE  StartTime \in Nat
BY TypeFacts, HeadFacts DEF StartTime

\* What async_resolve() does to the queue.
LEMMA LiteralLookup ==
    ASSUME TypeOK, ResolveLiteral
    PROVE  \E r \in Lookups : /\ r.id = asked + 1 /\ queue' = <<r>> \o queue
                              /\ asked' = asked + 1 /\ asked' \in 0..MaxLookups
<1>1. asked' = asked + 1 /\ asked' \in 1..MaxLookups /\ asked' \in 0..MaxLookups
  BY TypeFacts DEF ResolveLiteral, MayAsk
<1>2. now + LiteralLatency \in Nat /\ now \in Nat /\ LiteralLatency \in Nat
  BY TypeFacts
<1>3. queue' = <<NewLiteral(asked', now, now + LiteralLatency, LiteralLatency)>> \o queue
  BY DEF ResolveLiteral, NewLiteral
<1>4. /\ NewLiteral(asked', now, now + LiteralLatency, LiteralLatency) \in Lookups
      /\ NewLiteral(asked', now, now + LiteralLatency, LiteralLatency).id = asked'
  BY <1>1, <1>2, NewLiteralFacts
<1>5. QED
  BY <1>1, <1>3, <1>4

LEMMA NameLookup ==
    ASSUME TypeOK, NEW lat \in Latencies, ResolveName(lat)
    PROVE  \E r \in Lookups : /\ r.id = asked + 1 /\ r.asked = now /\ r.completion = StartTime + lat /\ r.lat = lat
                              /\ queue' = Append(queue, r)
                              /\ asked' = asked + 1 /\ asked' \in 0..MaxLookups
<1>1. asked' = asked + 1 /\ asked' \in 1..MaxLookups /\ asked' \in 0..MaxLookups
  BY TypeFacts DEF ResolveName, MayAsk
<1>2. StartTime + lat \in Nat /\ now \in Nat /\ lat \in Nat
  BY TypeFacts, StartFacts
<1>3. queue' = Append(queue, NewName(asked', now, StartTime + lat, lat))
  BY DEF ResolveName, NewName
<1>4. PICK r \in Lookups : /\ r = NewName(asked', now, StartTime + lat, lat)
                           /\ r.id = asked' /\ r.asked = now /\ r.completion = StartTime + lat /\ r.lat = lat
  BY <1>1, <1>2, NewNameFacts
<1>5. queue' = Append(queue, r)
  BY <1>3, <1>4
<1>6. QED
  BY <1>1, <1>4, <1>5

\* What arming the timer for the front of the queue does.
LEMMA WaitFacts ==
    ASSUME TypeOK, NEW q \in Seq(Lookups), q # <<>>, NEW p \in Seq(Calls), WaitForFront(q, p)
    PROVE  /\ timer' \in [at : Nat, armed : BOOLEAN] /\ timer'.armed = TRUE /\ timer'.at = Head(q).completion
           /\ posted' \in Seq(Calls)
           /\ posted' = p \/ posted' = Append(p, OnLookup("operation_aborted"))
<1>1. Head(q) \in Lookups
  BY TailSeq
<1>2. Head(q).completion \in Nat
  BY <1>1, LookupFacts
<1>3. timer' = [at |-> Head(q).completion, armed |-> TRUE]
  BY DEF WaitForFront
<1>4. timer' \in [at : Nat, armed : BOOLEAN] /\ timer'.armed = TRUE /\ timer'.at = Head(q).completion
  BY <1>2, <1>3
<1>5. posted' = p \/ posted' = Append(p, OnLookup("operation_aborted"))
  BY DEF WaitForFront
<1>6. OnLookup("operation_aborted") \in Calls
  BY CallFacts
<1>7. Append(p, OnLookup("operation_aborted")) \in Seq(Calls)
  BY <1>6, AppendSeq
<1>8. posted' \in Seq(Calls)
  BY <1>5, <1>7
<1>9. QED
  BY <1>4, <1>5, <1>8

AbortAll(q) == [i \in DOMAIN q |-> Aborted(q[i])]

LEMMA AbortAllFacts ==
    ASSUME NEW q \in Seq(Lookups)
    PROVE  /\ AbortAll(q) \in Seq(Calls) /\ DOMAIN AbortAll(q) = DOMAIN q
           /\ \A i \in DOMAIN q : /\ AbortAll(q)[i] = Aborted(q[i])
                                  /\ AbortAll(q)[i].call = "handler" /\ AbortAll(q)[i].lookup = q[i]
<1>1. Len(q) \in Nat /\ DOMAIN q = 1..Len(q) /\ \A i \in DOMAIN q : q[i] \in Lookups
  BY LenProperties
<1>2. \A i \in DOMAIN q : AbortAll(q)[i] = Aborted(q[i]) /\ AbortAll(q)[i] \in Calls
  BY <1>1, CallFacts DEF AbortAll
<1>3. AbortAll(q) \in [1..Len(q) -> Calls]
  BY <1>1, <1>2 DEF AbortAll
<1>4. AbortAll(q) \in Seq(Calls)
  BY <1>1, <1>3
<1>5. QED
  BY <1>1, <1>2, <1>4, CallFacts DEF AbortAll

LEMMA TypeStep ==
    ASSUME TypeOK, [Next]_vars
    PROVE  TypeOK'
<1>0. /\ now \in Nat /\ queue \in Seq(Lookups) /\ posted \in Seq(Calls) /\ done \in Seq(Answered)
      /\ timer.at \in Nat /\ asked \in 0..MaxLookups
  BY TypeFacts
<1>1. CASE ResolveLiteral
  <2>1. PICK r \in Lookups : queue' = <<r>> \o queue /\ asked' \in 0..MaxLookups
    BY <1>1, LiteralLookup
  <2>2. queue' \in Seq(Lookups) /\ queue' # <<>>
    BY <1>0, <2>1, PrefixSeq
  <2>3. PICK q \in Seq(Lookups) : q = queue'
    BY <2>2
  <2>4. WaitForFront(q, posted)
    BY <1>1, <2>3 DEF ResolveLiteral
  <2>5. timer' \in [at : Nat, armed : BOOLEAN] /\ posted' \in Seq(Calls)
    BY <1>0, <2>2, <2>3, <2>4, WaitFacts
  <2>6. QED
    BY <1>1, <2>1, <2>2, <2>5 DEF TypeOK, Calls, ResolveLiteral
<1>2. ASSUME NEW lat \in Latencies, ResolveName(lat) PROVE TypeOK'
  <2>1. PICK r \in Lookups : queue' = Append(queue, r) /\ asked' \in 0..MaxLookups
    BY <1>2, NameLookup
  <2>2. queue' \in Seq(Lookups) /\ queue' # <<>>
    BY <1>0, <2>1, AppendSeq
  <2>3. PICK q \in Seq(Lookups) : q = queue'
    BY <2>2
  <2>4. WaitForFront(q, posted)
    BY <1>2, <2>3 DEF ResolveName
  <2>5. timer' \in [at : Nat, armed : BOOLEAN] /\ posted' \in Seq(Calls)
    BY <1>0, <2>2, <2>3, <2>4, WaitFacts
  <2>6. simple' \in BOOLEAN
    BY <1>2, Zenon DEF ResolveName
  <2>7. QED
    BY <1>2, <2>1, <2>2, <2>5, <2>6 DEF TypeOK, Calls, ResolveName
<1>3. CASE cancel
  <2>1. posted' = posted \o AbortAll(queue) /\ queue' = <<>>
    BY <1>3 DEF cancel, AbortAll
  <2>2. posted' \in Seq(Calls) /\ queue' \in Seq(Lookups)
    BY <1>0, <2>1, AbortAllFacts, ConcatProperties
  <2>3. QED
    BY <1>3, <2>2 DEF TypeOK, Calls, cancel
<1>4. CASE on_lookup
  <2>1. posted' \in Seq(Calls)
    BY <1>0, <1>4, TailSeq DEF on_lookup
  <2>2. CASE queue = <<>>
    BY <1>4, <2>1, <2>2 DEF TypeOK, Calls, on_lookup
  <2>3. CASE queue # <<>>
    <3>1. queue' = Tail(queue) /\ done' = Append(done, Answer(Head(queue), "ok", now)) /\ ctx' = "handler"
      BY <1>4, <2>3 DEF on_lookup, Answer
    <3>2. Answer(Head(queue), "ok", now) \in Answered /\ Tail(queue) \in Seq(Lookups)
      BY <1>0, <2>3, HeadFacts, AnswerFacts
    <3>3. done' \in Seq(Answered)
      BY <1>0, <3>1, <3>2, AppendSeq
    <3>4. more' \in BOOLEAN
      <4>1. more' = (Tail(queue) # <<>>)
        BY <1>4, <2>3, Zenon DEF on_lookup
      <4>2. QED
        BY <4>1, Zenon
    <3>5. QED
      BY <1>4, <2>1, <3>1, <3>2, <3>3, <3>4 DEF TypeOK, Calls, on_lookup
  <2>4. QED
    BY <2>2, <2>3
<1>5. CASE HandlerReturns
  <2>1. ASSUME queue # <<>>, WaitForFront(queue, posted)
        PROVE  timer' \in [at : Nat, armed : BOOLEAN] /\ posted' \in Seq(Calls)
    BY <1>0, <2>1, WaitFacts
  <2>2. timer' \in [at : Nat, armed : BOOLEAN] /\ posted' \in Seq(Calls)
    BY <1>0, <1>5, <2>1 DEF HandlerReturns, TypeOK
  <2>3. ctx' \in {"idle", "undefined"} /\ more' = FALSE
    BY <1>5 DEF HandlerReturns
  <2>4. QED
    BY <1>5, <2>2, <2>3 DEF TypeOK, Calls, HandlerReturns
<1>6. CASE OnLookupAborted
  <2>1. posted' \in Seq(Calls)
    BY <1>0, <1>6, TailSeq DEF OnLookupAborted
  <2>2. QED
    BY <1>6, <2>1 DEF TypeOK, Calls, OnLookupAborted
<1>7. CASE CallAborted
  <2>1. posted' \in Seq(Calls) /\ Head(posted) \in Calls
    BY <1>0, <1>7, TailSeq DEF CallAborted
  <2>2. Head(posted).lookup \in Lookups
    BY <1>7, <2>1, CallFacts DEF CallAborted
  <2>3. done' = Append(done, Answer(Head(posted).lookup, "operation_aborted", now))
    BY <1>7 DEF CallAborted, Answer
  <2>4. done' \in Seq(Answered)
    BY <1>0, <2>2, <2>3, AnswerFacts, AppendSeq
  <2>5. QED
    BY <1>7, <2>1, <2>4 DEF TypeOK, Calls, CallAborted
<1>8. CASE FastForward
  <2>1. now' \in Nat
    BY <1>0, <1>8 DEF FastForward
  <2>2. timer' \in [at : Nat, armed : BOOLEAN] /\ posted' \in Seq(Calls)
    <3>1. timer \in [at : Nat, armed : BOOLEAN]
      BY DEF TypeOK
    <3>2. [timer EXCEPT !.armed = FALSE] \in [at : Nat, armed : BOOLEAN]
      BY <3>1
    <3>3. PICK k \in Calls : k = OnLookup("ok")
      BY CallFacts
    <3>4. <<k>> \in Seq(Calls)
      OBVIOUS
    <3>5. (posted' = <<k>> /\ timer' = [timer EXCEPT !.armed = FALSE]) \/ (posted' = posted /\ timer' = timer)
      BY <1>8, <3>3 DEF FastForward
    <3>6. QED
      BY <1>0, <3>1, <3>2, <3>4, <3>5
  <2>3. QED
    BY <1>8, <2>1, <2>2 DEF TypeOK, Calls, FastForward
<1>9. CASE UNCHANGED vars
  BY <1>9 DEF TypeOK, vars
<1>10. QED
  BY <1>1, <1>2, <1>3, <1>4, <1>5, <1>6, <1>7, <1>8, <1>9 DEF Next, User, Run

LEMMA InitTypes ==
    ASSUME Init
    PROVE  TypeOK
<1>1. queue \in Seq(Lookups) /\ done \in Seq(Answered) /\ posted \in Seq(Calls) /\ asked \in 0..MaxLookups
  BY ConstantsAssumption, EmptySeq DEF Init
<1>2. timer \in [at : Nat, armed : BOOLEAN]
  BY DEF Init
<1>3. QED
  BY <1>1, <1>2 DEF Init, TypeOK, Calls

-----------------------------------------------------------------------------
(* Every lookup is in one place: what the operations do to the ids.        *)

LEMMA IdsAppend ==
    ASSUME NEW q \in Seq(Lookups), NEW r \in Lookups
    PROVE  /\ Ids(Append(q, r)) = Ids(q) \cup {r.id}
           /\ Once(q) /\ r.id \notin Ids(q) => Once(Append(q, r))
<1>1. \A x \in Ids(Append(q, r)) : x \in Ids(q) \cup {r.id}
  BY AppendSeq DEF Ids
<1>2. \A x \in Ids(q) : x \in Ids(Append(q, r))
  BY AppendSeq DEF Ids
<1>3. r.id \in Ids(Append(q, r))
  BY AppendSeq DEF Ids
<1>4. ASSUME Once(q), r.id \notin Ids(q) PROVE Once(Append(q, r))
  BY <1>4, AppendSeq DEF Once, Ids
<1>5. QED
  BY <1>1, <1>2, <1>3, <1>4

LEMMA IdsPrefix ==
    ASSUME NEW q \in Seq(Lookups), NEW r \in Lookups
    PROVE  /\ Ids(<<r>> \o q) = Ids(q) \cup {r.id}
           /\ Once(q) /\ r.id \notin Ids(q) => Once(<<r>> \o q)
<1> DEFINE b == <<r>> \o q
<1>1. /\ 1 \in DOMAIN b /\ b[1] = r /\ DOMAIN b = 1..(Len(q)+1) /\ Len(q) \in Nat /\ DOMAIN q = 1..Len(q)
      /\ \A i \in DOMAIN q : i+1 \in DOMAIN b /\ b[i+1] = q[i]
      /\ \A k \in DOMAIN b : k = 1 \/ (k-1 \in DOMAIN q /\ b[k] = q[k-1])
  BY PrefixSeq, LenProperties
<1> HIDE DEF b
<1>2. \A x \in Ids(b) : x \in Ids(q) \cup {r.id}
  BY <1>1 DEF Ids
<1>3. \A x \in Ids(q) : x \in Ids(b)
  BY <1>1 DEF Ids
<1>4. r.id \in Ids(b)
  BY <1>1 DEF Ids
<1>5. ASSUME Once(q), r.id \notin Ids(q) PROVE Once(b)
  <2>1. ASSUME NEW i \in DOMAIN b, NEW j \in DOMAIN b, b[i].id = b[j].id PROVE i = j
    <3>1. \A k \in DOMAIN b : k # 1 => k-1 \in DOMAIN q /\ b[k] = q[k-1] /\ q[k-1].id # r.id
      BY <1>1, <1>5 DEF Ids
    <3>2. (i = 1) <=> (j = 1)
      BY <1>1, <2>1, <3>1
    <3>3. CASE i # 1 /\ j # 1
      <4>1. i-1 = j-1
        BY <1>5, <2>1, <3>1, <3>3 DEF Once
      <4>2. QED
        BY <1>1, <4>1
    <3>4. QED
      BY <3>2, <3>3
  <2>2. QED
    BY <2>1 DEF Once
<1>6. QED
  BY <1>2, <1>3, <1>4, <1>5 DEF b

LEMMA IdsTail ==
    ASSUME NEW q \in Seq(Lookups), q # <<>>, Once(q)
    PROVE  Ids(Tail(q)) = Ids(q) \ {Head(q).id} /\ Head(q).id \in Ids(q) /\ Once(Tail(q))
<1> DEFINE t == Tail(q)
<1>1. /\ Head(q) = q[1] /\ 1 \in DOMAIN q /\ Len(q) \in Nat /\ DOMAIN q = 1..Len(q) /\ DOMAIN t = 1..(Len(q)-1)
      /\ \A i \in DOMAIN t : i+1 \in DOMAIN q /\ t[i] = q[i+1] /\ i+1 # 1
      /\ \A k \in DOMAIN q : k = 1 \/ (k-1 \in DOMAIN t /\ t[k-1] = q[k])
  BY TailSeq
<1> HIDE DEF t
<1>2. \A x \in Ids(t) : x \in Ids(q) /\ x # Head(q).id
  <2>1. ASSUME NEW i \in DOMAIN t PROVE t[i].id \in Ids(q) /\ t[i].id # q[1].id
    <3>1. i+1 \in DOMAIN q /\ t[i] = q[i+1] /\ i+1 # 1
      BY <1>1
    <3>2. QED
      BY <1>1, <3>1 DEF Ids, Once
  <2>2. QED
    BY <1>1, <2>1 DEF Ids
<1>3. \A x \in Ids(q) : x # Head(q).id => x \in Ids(t)
  BY <1>1 DEF Ids
<1>4. Head(q).id \in Ids(q)
  BY <1>1 DEF Ids
<1>5. ASSUME NEW i \in DOMAIN t, NEW j \in DOMAIN t, t[i].id = t[j].id PROVE i = j
  <2>1. i+1 = j+1
    BY <1>1, <1>5 DEF Once
  <2>2. QED
    BY <1>1, <2>1
<1>6. QED
  BY <1>2, <1>3, <1>4, <1>5 DEF Once, t

LEMMA HandlersAppend ==
    ASSUME NEW p \in Seq(Calls), NEW k \in Calls, k.call # "handler", HandlersOnce(p)
    PROVE  HandlerIds(Append(p, k)) = HandlerIds(p) /\ HandlersOnce(Append(p, k))
<1> DEFINE a == Append(p, k)
<1>1. Handlers(a) = Handlers(p) /\ \A i \in Handlers(p) : a[i] = p[i]
  <2>1. \A i \in Handlers(p) : i \in Handlers(a) /\ a[i] = p[i]
    BY AppendSeq DEF Handlers
  <2>2. \A i \in Handlers(a) : i \in Handlers(p)
    BY AppendSeq DEF Handlers
  <2>3. QED
    BY <2>1, <2>2
<1> HIDE DEF a
<1>2. HandlersOnce(a)
  BY <1>1 DEF HandlersOnce
<1>3. HandlerIds(a) = HandlerIds(p)
  BY <1>1 DEF HandlerIds
<1>4. QED
  BY <1>2, <1>3 DEF a

LEMMA HandlersTail ==
    ASSUME NEW p \in Seq(Calls), p # <<>>, HandlersOnce(p)
    PROVE  /\ HandlersOnce(Tail(p))
           /\ Head(p).call # "handler" => HandlerIds(Tail(p)) = HandlerIds(p)
           /\ Head(p).call = "handler" => /\ HandlerIds(Tail(p)) = HandlerIds(p) \ {Head(p).lookup.id}
                                          /\ Head(p).lookup.id \in HandlerIds(p)
<1> DEFINE t == Tail(p)
<1>1. /\ Head(p) = p[1] /\ 1 \in DOMAIN p /\ Len(p) \in Nat /\ DOMAIN p = 1..Len(p) /\ DOMAIN t = 1..(Len(p)-1)
      /\ \A i \in DOMAIN t : i+1 \in DOMAIN p /\ t[i] = p[i+1] /\ i+1 # 1
      /\ \A k \in DOMAIN p : k = 1 \/ (k-1 \in DOMAIN t /\ t[k-1] = p[k])
  BY TailSeq
<1> HIDE DEF t
<1>2. /\ \A i \in Handlers(t) : i \in Nat /\ i+1 \in Handlers(p) /\ t[i] = p[i+1] /\ i+1 # 1
      /\ \A k \in Handlers(p) : k = 1 \/ (k-1 \in Handlers(t) /\ t[k-1] = p[k])
  BY <1>1 DEF Handlers
<1>3. (1 \in Handlers(p)) <=> (Head(p).call = "handler")
  BY <1>1 DEF Handlers
<1>4. HandlersOnce(t)
  <2>1. ASSUME NEW i \in Handlers(t), NEW j \in Handlers(t), t[i].lookup.id = t[j].lookup.id
        PROVE  i = j
    <3>1. i+1 = j+1
      BY <1>2, <2>1 DEF HandlersOnce
    <3>2. i \in Nat /\ j \in Nat
      BY <1>1 DEF Handlers
    <3>3. QED
      BY <3>1, <3>2
  <2>2. QED
    BY <2>1 DEF HandlersOnce
<1>5. \A x \in HandlerIds(t) : x \in HandlerIds(p)
  BY <1>2 DEF HandlerIds
<1>6. CASE Head(p).call # "handler"
  <2>1. \A x \in HandlerIds(p) : x \in HandlerIds(t)
    BY <1>2, <1>3, <1>6 DEF HandlerIds
  <2>2. QED
    BY <1>4, <1>5, <1>6, <2>1 DEF t
<1>7. CASE Head(p).call = "handler"
  <2>1. 1 \in Handlers(p)
    BY <1>3, <1>7
  <2>2. \A x \in HandlerIds(p) : x # Head(p).lookup.id => x \in HandlerIds(t)
    BY <1>1, <1>2 DEF HandlerIds
  <2>3. \A x \in HandlerIds(t) : x # Head(p).lookup.id
    BY <1>1, <1>2, <2>1 DEF HandlerIds, HandlersOnce
  <2>4. Head(p).lookup.id \in HandlerIds(p)
    BY <1>1, <2>1 DEF HandlerIds
  <2>5. QED
    BY <1>4, <1>5, <1>7, <2>2, <2>3, <2>4 DEF t
<1>8. QED
  BY <1>6, <1>7

LEMMA HandlersAbort ==
    ASSUME NEW p \in Seq(Calls), NEW q \in Seq(Lookups), HandlersOnce(p), Once(q), Ids(q) \cap HandlerIds(p) = {}
    PROVE  /\ HandlerIds(p \o AbortAll(q)) = HandlerIds(p) \cup Ids(q)
           /\ HandlersOnce(p \o AbortAll(q))
<1> DEFINE a == AbortAll(q)
<1>1. /\ a \in Seq(Calls) /\ DOMAIN a = DOMAIN q /\ \A i \in DOMAIN q : a[i].call = "handler" /\ a[i].lookup = q[i]
  BY AbortAllFacts
<1> HIDE DEF a
<1> DEFINE b == p \o a
<1>2. /\ Len(p) \in Nat /\ DOMAIN q = 1..Len(a) /\ Len(a) \in Nat /\ DOMAIN p = 1..Len(p)
      /\ \A i \in DOMAIN p : i \in DOMAIN b /\ b[i] = p[i]
      /\ \A i \in DOMAIN q : Len(p)+i \in DOMAIN b /\ b[Len(p)+i] = a[i]
      /\ \A k \in DOMAIN b : k \in DOMAIN p \/ (k - Len(p) \in DOMAIN q /\ k = Len(p) + (k - Len(p)))
  BY <1>1, ConcatSeq
<1> HIDE DEF b
<1>3. /\ \A i \in Handlers(p) : i \in Handlers(b) /\ b[i] = p[i]
      /\ \A i \in DOMAIN q : Len(p)+i \in Handlers(b) /\ b[Len(p)+i].lookup = q[i]
  BY <1>1, <1>2 DEF Handlers
<1>4. \A k \in Handlers(b) : \/ k \in Handlers(p) /\ b[k] = p[k]
                             \/ \E i \in DOMAIN q : k = Len(p)+i /\ b[k].lookup = q[i]
  <2>1. ASSUME NEW k \in Handlers(b), k \notin DOMAIN p PROVE \E i \in DOMAIN q : k = Len(p)+i /\ b[k].lookup = q[i]
    <3>1. k \in DOMAIN b
      BY DEF Handlers
    <3>2. k - Len(p) \in DOMAIN q /\ k = Len(p) + (k - Len(p))
      BY <1>2, <2>1, <3>1
    <3>3. QED
      BY <1>3, <3>2
  <2>2. ASSUME NEW k \in Handlers(b), k \in DOMAIN p PROVE k \in Handlers(p) /\ b[k] = p[k]
    BY <1>2, <2>2 DEF Handlers
  <2>3. QED
    BY <2>1, <2>2
<1>5. HandlerIds(b) = HandlerIds(p) \cup Ids(q)
  <2>1. \A x \in HandlerIds(b) : x \in HandlerIds(p) \cup Ids(q)
    BY <1>4 DEF HandlerIds, Ids
  <2>2. \A x \in HandlerIds(p) : x \in HandlerIds(b)
    BY <1>3 DEF HandlerIds
  <2>3. \A x \in Ids(q) : x \in HandlerIds(b)
    BY <1>3 DEF HandlerIds, Ids
  <2>4. QED
    BY <2>1, <2>2, <2>3
<1>6. HandlersOnce(b)
  <2>1. ASSUME NEW i \in Handlers(b), NEW j \in Handlers(b), b[i].lookup.id = b[j].lookup.id PROVE i = j
    <3>1. CASE i \in Handlers(p) /\ b[i] = p[i] /\ j \in Handlers(p) /\ b[j] = p[j]
      BY <2>1, <3>1 DEF HandlersOnce
    <3>2. CASE \E k \in DOMAIN q : i = Len(p)+k /\ b[i].lookup = q[k]
      <4>1. PICK k \in DOMAIN q : i = Len(p)+k /\ b[i].lookup = q[k]
        BY <3>2
      <4>2. q[k].id \in Ids(q)
        BY DEF Ids
      <4>3. ~(j \in Handlers(p) /\ b[j] = p[j])
        BY <2>1, <4>1, <4>2 DEF HandlerIds
      <4>4. PICK l \in DOMAIN q : j = Len(p)+l /\ b[j].lookup = q[l]
        BY <1>4, <4>3
      <4>5. k = l
        BY <2>1, <4>1, <4>4 DEF Once
      <4>6. QED
        BY <4>1, <4>4, <4>5
    <3>3. CASE i \in Handlers(p) /\ b[i] = p[i] /\ \E k \in DOMAIN q : j = Len(p)+k /\ b[j].lookup = q[k]
      <4>1. PICK k \in DOMAIN q : j = Len(p)+k /\ b[j].lookup = q[k]
        BY <3>3
      <4>2. q[k].id \in Ids(q) /\ p[i].lookup.id \in HandlerIds(p)
        BY <3>3 DEF Ids, HandlerIds
      <4>3. QED
        BY <2>1, <3>3, <4>1, <4>2
    <3>4. QED
      BY <1>4, <3>1, <3>2, <3>3
  <2>2. QED
    BY <2>1 DEF HandlersOnce
<1>7. QED
  BY <1>5, <1>6 DEF a, b

LEMMA DoneAppend ==
    ASSUME NEW d \in Seq(Answered), NEW e \in Answered, DoneOnce(d), e.lookup.id \notin DoneIds(d)
    PROVE  DoneIds(Append(d, e)) = DoneIds(d) \cup {e.lookup.id} /\ DoneOnce(Append(d, e))
<1>1. \A x \in DoneIds(Append(d, e)) : x \in DoneIds(d) \cup {e.lookup.id}
  BY AppendSeq DEF DoneIds
<1>2. \A x \in DoneIds(d) : x \in DoneIds(Append(d, e))
  BY AppendSeq DEF DoneIds
<1>3. e.lookup.id \in DoneIds(Append(d, e))
  BY AppendSeq DEF DoneIds
<1>4. DoneOnce(Append(d, e))
  BY AppendSeq DEF DoneOnce, DoneIds
<1>5. QED
  BY <1>1, <1>2, <1>3, <1>4

\* A lookup is added to the queue, and its timer armed.
LEMMA AskedPlaces ==
    ASSUME PlacesInv, NEW r \in Lookups, r.id = asked + 1, asked' = asked + 1, done' = done,
           Ids(queue') = Ids(queue) \cup {r.id}, r.id \notin Ids(queue) => Once(queue'),
           HandlerIds(posted') = HandlerIds(posted), HandlersOnce(posted')
    PROVE  InOnePlace(queue', posted', done', asked')
<1>1. asked \in Nat /\ 1..(asked+1) = 1..asked \cup {asked+1} /\ asked+1 \notin 1..asked
  BY TypeFacts DEF PlacesInv
<1>2. InOnePlace(queue, posted, done, asked)
  BY DEF PlacesInv
<1>3. asked+1 \notin Ids(queue) /\ asked+1 \notin HandlerIds(posted) /\ asked+1 \notin DoneIds(done)
  BY <1>1, <1>2 DEF InOnePlace
<1>4. Once(queue') /\ DoneOnce(done')
  BY <1>2, <1>3 DEF InOnePlace
<1>5. QED
  BY <1>1, <1>2, <1>3, <1>4 DEF InOnePlace

\* What arming the timer posts is no handler of a lookup.
LEMMA WaitPlaces ==
    ASSUME TypeOK, NEW q \in Seq(Lookups), q # <<>>, WaitForFront(q, posted), HandlersOnce(posted)
    PROVE  HandlerIds(posted') = HandlerIds(posted) /\ HandlersOnce(posted')
<1>1. posted \in Seq(Calls)
  BY TypeFacts
<1>2. posted' = posted \/ posted' = Append(posted, OnLookup("operation_aborted"))
  BY <1>1, WaitFacts
<1>3. PICK k \in Calls : k = OnLookup("operation_aborted") /\ k.call # "handler"
  BY CallFacts
<1>4. HandlerIds(Append(posted, k)) = HandlerIds(posted) /\ HandlersOnce(Append(posted, k))
  BY <1>1, <1>3, HandlersAppend
<1>5. QED
  BY <1>2, <1>3, <1>4

LEMMA PlacesStep ==
    ASSUME PlacesInv, [Next]_vars
    PROVE  PlacesInv'
<1>0. /\ TypeOK /\ queue \in Seq(Lookups) /\ posted \in Seq(Calls) /\ done \in Seq(Answered) /\ now \in Nat
      /\ Once(queue) /\ HandlersOnce(posted) /\ DoneOnce(done)
  BY TypeFacts DEF PlacesInv, InOnePlace
<1>i. InOnePlace(queue, posted, done, asked)
  BY DEF PlacesInv
<1>t. TypeOK'
  BY <1>0, TypeStep
<1>q. queue' \in Seq(Lookups)
  BY <1>t DEF TypeOK
<1> SUFFICES InOnePlace(queue', posted', done', asked')
  BY <1>t DEF PlacesInv
<1>1. CASE ResolveLiteral
  <2>1. PICK r \in Lookups : r.id = asked + 1 /\ queue' = <<r>> \o queue /\ asked' = asked + 1
    BY <1>0, <1>1, LiteralLookup
  <2>2. queue' # <<>>
    BY <1>0, <2>1, PrefixSeq
  <2>3. PICK q \in Seq(Lookups) : q = queue'
    BY <1>q
  <2>4. WaitForFront(q, posted) /\ done' = done /\ q # <<>>
    BY <1>1, <2>2, <2>3 DEF ResolveLiteral
  <2>5. HandlerIds(posted') = HandlerIds(posted) /\ HandlersOnce(posted')
    BY <1>0, <2>4, WaitPlaces
  <2>6. Ids(<<r>> \o queue) = Ids(queue) \cup {r.id} /\ (r.id \notin Ids(queue) => Once(<<r>> \o queue))
    BY <1>0, IdsPrefix
  <2>7. QED
    BY <2>1, <2>4, <2>5, <2>6, AskedPlaces
<1>2. ASSUME NEW lat \in Latencies, ResolveName(lat) PROVE InOnePlace(queue', posted', done', asked')
  <2>1. PICK r \in Lookups : r.id = asked + 1 /\ queue' = Append(queue, r) /\ asked' = asked + 1
    BY <1>0, <1>2, NameLookup
  <2>2. queue' # <<>>
    BY <1>0, <2>1, AppendSeq
  <2>3. PICK q \in Seq(Lookups) : q = queue'
    BY <1>q
  <2>4. WaitForFront(q, posted) /\ done' = done /\ q # <<>>
    BY <1>2, <2>2, <2>3 DEF ResolveName
  <2>5. HandlerIds(posted') = HandlerIds(posted) /\ HandlersOnce(posted')
    BY <1>0, <2>4, WaitPlaces
  <2>6. Ids(Append(queue, r)) = Ids(queue) \cup {r.id} /\ (r.id \notin Ids(queue) => Once(Append(queue, r)))
    BY <1>0, IdsAppend
  <2>7. QED
    BY <2>1, <2>4, <2>5, <2>6, AskedPlaces
<1>3. CASE cancel
  <2>1. posted' = posted \o AbortAll(queue) /\ queue' = <<>> /\ done' = done /\ asked' = asked
    BY <1>3 DEF cancel, AbortAll
  <2>2. HandlerIds(posted') = HandlerIds(posted) \cup Ids(queue) /\ HandlersOnce(posted')
    BY <1>0, <1>i, <2>1, HandlersAbort DEF InOnePlace
  <2>3. Ids(queue') = {} /\ Once(queue')
    BY <2>1 DEF Ids, Once
  <2>4. QED
    BY <1>0, <1>i, <2>1, <2>2, <2>3 DEF InOnePlace
<1>4. CASE on_lookup
  <2>1. posted # <<>> /\ posted' = Tail(posted) /\ Head(posted).call # "handler" /\ asked' = asked
    BY <1>4, CallFacts DEF on_lookup
  <2>2. HandlerIds(posted') = HandlerIds(posted) /\ HandlersOnce(posted')
    BY <1>0, <2>1, HandlersTail
  <2>3. CASE queue = <<>>
    <3>1. queue' = queue /\ done' = done
      BY <1>4, <2>3 DEF on_lookup
    <3>2. QED
      BY <1>i, <2>1, <2>2, <3>1 DEF InOnePlace
  <2>4. CASE queue # <<>>
    <3>1. queue' = Tail(queue) /\ done' = Append(done, Answer(Head(queue), "ok", now))
      BY <1>4, <2>4 DEF on_lookup, Answer
    <3>2. PICK r \in Lookups : r = Head(queue)
      BY <1>0, <2>4, HeadFacts
    <3>3. PICK e \in Answered : e = Answer(r, "ok", now) /\ e.lookup = r
      BY <1>0, AnswerFacts
    <3>4. Ids(queue') = Ids(queue) \ {r.id} /\ r.id \in Ids(queue) /\ Once(queue')
      BY <1>0, <2>4, <3>1, <3>2, IdsTail
    <3>5. r.id \notin DoneIds(done)
      BY <1>i, <3>4 DEF InOnePlace
    <3>6. DoneIds(done') = DoneIds(done) \cup {r.id} /\ DoneOnce(done')
      BY <1>0, <3>1, <3>2, <3>3, <3>5, DoneAppend
    <3>7. QED
      BY <1>i, <2>1, <2>2, <3>4, <3>6 DEF InOnePlace
  <2>5. QED
    BY <2>3, <2>4
<1>5. CASE HandlerReturns
  <2>1. queue' = queue /\ done' = done /\ asked' = asked
    BY <1>5 DEF HandlerReturns
  <2>2. (queue # <<>> /\ WaitForFront(queue, posted)) \/ posted' = posted
    BY <1>5 DEF HandlerReturns
  <2>3. PICK q \in Seq(Lookups) : q = queue
    BY <1>0
  <2>4. HandlerIds(posted') = HandlerIds(posted) /\ HandlersOnce(posted')
    <3>1. ASSUME q # <<>>, WaitForFront(q, posted) PROVE HandlerIds(posted') = HandlerIds(posted) /\ HandlersOnce(posted')
      BY <1>0, <3>1, WaitPlaces
    <3>2. QED
      BY <1>0, <2>2, <2>3, <3>1
  <2>5. QED
    BY <1>i, <2>1, <2>4 DEF InOnePlace
<1>6. CASE OnLookupAborted
  <2>1. /\ posted # <<>> /\ posted' = Tail(posted) /\ Head(posted).call # "handler" /\ asked' = asked
        /\ queue' = queue /\ done' = done
    BY <1>6, CallFacts DEF OnLookupAborted
  <2>2. HandlerIds(posted') = HandlerIds(posted) /\ HandlersOnce(posted')
    BY <1>0, <2>1, HandlersTail
  <2>3. QED
    BY <1>i, <2>1, <2>2 DEF InOnePlace
<1>7. CASE CallAborted
  <2>1. /\ posted # <<>> /\ posted' = Tail(posted) /\ Head(posted).call = "handler" /\ asked' = asked
        /\ queue' = queue /\ done' = Append(done, Answer(Head(posted).lookup, "operation_aborted", now))
    BY <1>7 DEF CallAborted, Answer
  <2>2. Head(posted) \in Calls
    BY <1>0, <2>1, TailSeq
  <2>3. PICK r \in Lookups : r = Head(posted).lookup
    BY <2>1, <2>2, CallFacts
  <2>4. PICK e \in Answered : e = Answer(r, "operation_aborted", now) /\ e.lookup = r
    BY <1>0, AnswerFacts
  <2>5. HandlerIds(posted') = HandlerIds(posted) \ {r.id} /\ r.id \in HandlerIds(posted) /\ HandlersOnce(posted')
    BY <1>0, <2>1, <2>3, HandlersTail
  <2>6. r.id \notin DoneIds(done)
    BY <1>i, <2>5 DEF InOnePlace
  <2>7. DoneIds(done') = DoneIds(done) \cup {r.id} /\ DoneOnce(done')
    BY <1>0, <2>1, <2>3, <2>4, <2>6, DoneAppend
  <2>8. QED
    BY <1>i, <2>1, <2>5, <2>7 DEF InOnePlace
<1>8. CASE FastForward
  <2>1. queue' = queue /\ done' = done /\ asked' = asked /\ posted = <<>>
    BY <1>8 DEF FastForward
  <2>2. posted' = posted \/ posted' = <<OnLookup("ok")>>
    BY <1>8 DEF FastForward
  <2>3. Handlers(posted) = {}
    BY <2>1 DEF Handlers
  <2>4. Handlers(<<OnLookup("ok")>>) = {}
    BY CallFacts DEF Handlers
  <2>5. HandlerIds(posted') = HandlerIds(posted) /\ HandlersOnce(posted')
    BY <2>2, <2>3, <2>4 DEF HandlerIds, HandlersOnce
  <2>6. QED
    BY <1>i, <2>1, <2>5 DEF InOnePlace
<1>9. CASE UNCHANGED vars
  BY <1>i, <1>9 DEF vars
<1>10. QED
  BY <1>1, <1>2, <1>3, <1>4, <1>5, <1>6, <1>7, <1>8, <1>9 DEF Next, User, Run

\* Whatever the order of async_resolve(), cancel() and on_lookup(), the lookups in
\* m_queue, those cancelled and those answered are different ones, and together
\* all of them.
THEOREM PlacesInvariance == Spec => []PlacesInv
<1>1. ASSUME Init PROVE PlacesInv
  <2>1. TypeOK /\ queue = <<>> /\ posted = <<>> /\ done = <<>> /\ asked = 0
    BY <1>1, InitTypes DEF Init
  <2>2. 1..0 = {}
    OBVIOUS
  <2>3. /\ Ids(<<>>) = {} /\ HandlerIds(<<>>) = {} /\ DoneIds(<<>>) = {}
        /\ Once(<<>>) /\ HandlersOnce(<<>>) /\ DoneOnce(<<>>)
    BY DEF Ids, HandlerIds, Handlers, DoneIds, Once, HandlersOnce, DoneOnce
  <2>4. QED
    BY <2>1, <2>2, <2>3 DEF PlacesInv, InOnePlace
<1>2. PlacesInv /\ [Next]_vars => PlacesInv'
  BY PlacesStep
<1>3. QED
  BY <1>1, <1>2, PTL DEF Spec

LEMMA OneOfThree ==
    ASSUME NEW A, NEW B, NEW C, A = {} \/ B = {}, A = {} \/ C = {}, B = {} \/ C = {},
           A # {} \/ B # {} \/ C # {},
           \A x, y \in A : x = y, \A x, y \in B : x = y, \A x, y \in C : x = y
    PROVE  Cardinality(A) + Cardinality(B) + Cardinality(C) = 1
<1>1. ASSUME NEW S, \A x, y \in S : x = y, S # {} PROVE Cardinality(S) = 1
  <2>1. PICK x \in S : TRUE
    BY <1>1
  <2>2. S = {x}
    BY <1>1
  <2>3. QED
    BY <2>2, FS_Singleton
<1>2. Cardinality({}) = 0
  BY FS_EmptySet
<1>3. QED
  BY <1>1, <1>2

\* No lookup is lost or answered twice (resolver.cpp:45-135).
THEOREM LookupsAnsweredOnce == Spec => []AnsweredOnce
<1>1. ASSUME PlacesInv PROVE AnsweredOnce
  <2>1. ASSUME NEW n \in 1..asked
        PROVE  Cardinality(QueuedAs(n)) + Cardinality(PostedAs(n)) + Cardinality(DoneAs(n)) = 1
    <3>1. InOnePlace(queue, posted, done, asked)
      BY <1>1 DEF PlacesInv
    <3>2. /\ \A x, y \in QueuedAs(n) : x = y
          /\ \A x, y \in PostedAs(n) : x = y
          /\ \A x, y \in DoneAs(n) : x = y
      BY <3>1 DEF InOnePlace, Once, HandlersOnce, Handlers, DoneOnce, QueuedAs, PostedAs, DoneAs
    <3>3. /\ (QueuedAs(n) # {}) <=> (n \in Ids(queue))
          /\ (PostedAs(n) # {}) <=> (n \in HandlerIds(posted))
          /\ (DoneAs(n) # {}) <=> (n \in DoneIds(done))
      BY DEF Ids, HandlerIds, Handlers, DoneIds, QueuedAs, PostedAs, DoneAs
    <3>4. n \in Ids(queue) \/ n \in HandlerIds(posted) \/ n \in DoneIds(done)
      BY <3>1 DEF InOnePlace
    <3>5. /\ ~(n \in Ids(queue) /\ n \in HandlerIds(posted))
          /\ ~(n \in Ids(queue) /\ n \in DoneIds(done))
          /\ ~(n \in HandlerIds(posted) /\ n \in DoneIds(done))
      BY <3>1 DEF InOnePlace
    <3>6. QED
      BY <3>2, <3>3, <3>4, <3>5, OneOfThree
  <2>2. QED
    BY <2>1 DEF AnsweredOnce
<1>2. QED
  BY PlacesInvariance, <1>1, PTL

-----------------------------------------------------------------------------
(* Names are answered in their turn.                                       *)

LEMMA PostedKept ==
    ASSUME TypeOK, FiredFirst, posted' = posted \/ posted' = Append(posted, OnLookup("operation_aborted"))
    PROVE  FiredFirst' /\ (Fired' <=> Fired) /\ (NoHandlers => NoHandlers')
<1>1. PICK k \in Calls : k = OnLookup("operation_aborted") /\ k # OnLookup("ok") /\ k.call # "handler"
  BY CallFacts
<1>2. PICK p \in Seq(Calls) : p = posted
  BY TypeFacts
<1>3. PICK ok : ok = OnLookup("ok")
  OBVIOUS
<1>4. CASE posted' = Append(posted, k)
  <2>1. PICK a : a = Append(p, k)
    OBVIOUS
  <2>2. /\ a \in Seq(Calls) /\ a # <<>> /\ Len(p) \in Nat /\ DOMAIN p = 1..Len(p) /\ DOMAIN a = 1..(Len(p)+1)
        /\ a[Len(p)+1] = k /\ \A i \in DOMAIN p : a[i] = p[i]
    BY <2>1, AppendSeq
  <2>3. posted' = a
    BY <1>2, <1>4, <2>1
  <2>4. FiredFirst'
    BY <1>1, <1>2, <1>3, <2>2, <2>3 DEF FiredFirst
  <2>5. NoHandlers => NoHandlers'
    BY <1>1, <1>2, <2>2, <2>3 DEF NoHandlers
  <2>6. Head(a) = a[1] /\ (p # <<>> => Head(p) = p[1] /\ 1 \in DOMAIN p) /\ (p = <<>> => Len(p) = 0)
    BY <2>2, TailSeq
  <2>7. Fired' <=> Fired
    BY <1>1, <1>2, <1>3, <2>2, <2>3, <2>6 DEF Fired
  <2>8. QED
    BY <2>4, <2>5, <2>7
<1>5. CASE posted' = posted
  BY <1>5 DEF FiredFirst, Fired, NoHandlers
<1>6. QED
  BY <1>1, <1>4, <1>5

LEMMA PostedTaken ==
    ASSUME TypeOK, FiredFirst, posted # <<>>, posted' = Tail(posted)
    PROVE  FiredFirst' /\ ~Fired' /\ (NoHandlers => NoHandlers')
<1>1. PICK p \in Seq(Calls) : p = posted
  BY TypeFacts
<1>2. PICK t : t = Tail(p)
  OBVIOUS
<1>3. /\ t \in Seq(Calls) /\ \A i \in DOMAIN t : i+1 \in DOMAIN p /\ t[i] = p[i+1] /\ i+1 # 1
  BY <1>1, <1>2, TailSeq
<1>4. posted' = t
  BY <1>1, <1>2
<1>5. \A i \in DOMAIN t : t[i] # OnLookup("ok")
  BY <1>1, <1>3 DEF FiredFirst
<1>6. t # <<>> => Head(t) = t[1] /\ 1 \in DOMAIN t
  BY <1>3, TailSeq
<1>7. FiredFirst' /\ ~Fired'
  BY <1>4, <1>5, <1>6 DEF FiredFirst, Fired
<1>8. NoHandlers => NoHandlers'
  BY <1>1, <1>3, <1>4 DEF NoHandlers
<1>9. QED
  BY <1>7, <1>8

LEMMA LastFacts ==
    ASSUME TypeOK
    PROVE  LastAnswer \in Nat
<1>1. done # <<>> => done[Len(done)] \in Answered
  BY TypeFacts, EmptySeq, LenProperties
<1>2. QED
  BY <1>1 DEF LastAnswer, Answered

\* The lookups of a queue of two.
LEMMA QueueElements ==
    ASSUME TypeOK, queue # <<>>
    PROVE  /\ Head(queue) = queue[1] /\ queue[1] \in Lookups /\ Len(queue) \in Nat \ {0}
           /\ Len(queue) = 2 => queue[2] \in Lookups /\ Tail(queue) # <<>> /\ Head(Tail(queue)) = queue[2]
           /\ Len(queue) = 1 => Tail(queue) = <<>>
           /\ Tail(queue) \in Seq(Lookups) /\ Len(Tail(queue)) = Len(queue) - 1
<1>1. PICK q \in Seq(Lookups) : q = queue
  BY TypeFacts
<1>2. PICK t : t = Tail(q)
  OBVIOUS
<1>3. /\ Head(q) = q[1] /\ 1 \in DOMAIN q /\ Len(q) \in Nat \ {0} /\ DOMAIN q = 1..Len(q)
      /\ t \in Seq(Lookups) /\ Len(t) = Len(q) - 1 /\ DOMAIN t = 1..(Len(q)-1)
      /\ \A i \in DOMAIN t : t[i] = q[i+1]
  BY <1>1, <1>2, TailSeq
<1>4. \A i \in DOMAIN q : q[i] \in Lookups
  BY <1>1, LenProperties
<1>5. Len(q) = 1 => t = <<>>
  BY <1>3, EmptySeq
<1>6. ASSUME Len(q) = 2 PROVE q[2] \in Lookups /\ t # <<>> /\ Head(t) = q[2]
  <2>1. Len(t) = 1 /\ DOMAIN t = 1..1 /\ DOMAIN q = 1..2
    BY <1>3, <1>6
  <2>2. 1 \in DOMAIN t /\ 1+1 = 2 /\ 2 \in DOMAIN q
    BY <2>1
  <2>3. t[1] = q[2]
    BY <1>3, <2>2
  <2>4. t # <<>>
    BY <2>1
  <2>5. Head(t) = t[1]
    BY <1>3, <2>4, TailSeq
  <2>6. QED
    BY <1>4, <2>2, <2>3, <2>4, <2>5
<1>7. QED
  BY <1>1, <1>2, <1>3, <1>4, <1>5, <1>6

LEMMA NameTurn ==
    ASSUME TurnInv, TypeOK', NEW lat \in Latencies, ResolveName(lat)
    PROVE  FiredFirst' /\ SerialInv'
<1>1. TypeOK /\ FiredFirst /\ now \in Nat /\ queue \in Seq(Lookups) /\ LastAnswer \in Nat /\ posted \in Seq(Calls)
  BY TypeFacts, LastFacts DEF TurnInv
<1>2. PICK r \in Lookups : /\ r.asked = now /\ r.completion = StartTime + lat /\ r.lat = lat
                           /\ queue' = Append(queue, r)
  BY <1>1, NameLookup
<1>3. PICK q : q = Append(queue, r)
  OBVIOUS
<1>4. /\ q \in Seq(Lookups) /\ q # <<>> /\ Len(q) = Len(queue) + 1 /\ Len(queue) \in Nat
      /\ DOMAIN q = 1..(Len(queue)+1) /\ DOMAIN queue = 1..Len(queue)
      /\ q[Len(queue)+1] = r /\ \A i \in DOMAIN queue : q[i] = queue[i]
  BY <1>1, <1>3, AppendSeq
<1>5. Head(q) = q[1]
  BY <1>4, TailSeq
<1>6. queue' = q /\ WaitForFront(q, posted) /\ done' = done /\ now' = now /\ ctx' = ctx /\ more' = more
  BY <1>2, <1>3 DEF ResolveName
<1>7. /\ timer'.armed = TRUE /\ timer'.at = Head(q).completion
      /\ posted' = posted \/ posted' = Append(posted, OnLookup("operation_aborted"))
  BY <1>1, <1>4, <1>6, WaitFacts
<1>8. FiredFirst' /\ (Fired' <=> Fired) /\ (NoHandlers => NoHandlers')
  BY <1>1, <1>7, PostedKept
<1>9. ASSUME simple' PROVE TimerFits' /\ QueueFits' /\ NoHandlers' /\ SerialLatency' /\ ctx' # "undefined"
  <2>1. simple /\ Len(queue) + 1 =< 2
    BY <1>4, <1>6, <1>9 DEF ResolveName
  <2>2. TimerFits /\ QueueFits /\ NoHandlers /\ SerialLatency /\ ctx # "undefined"
    BY <2>1 DEF TurnInv, SerialInv
  <2>3. SerialLatency' /\ NoHandlers' /\ ctx' # "undefined" /\ LastAnswer' = LastAnswer
    BY <1>6, <1>8, <2>2 DEF SerialLatency, LastAnswer
  <2>4. CASE queue = <<>>
    <3>1. Len(queue) = 0 /\ StartTime = now
      BY <2>4 DEF StartTime
    <3>2. Head(q) = r /\ Len(q) = 1 /\ lat \in Nat
      BY <1>1, <1>4, <1>5, <3>1, TypeFacts
    <3>3. QueueFits'
      <4>1. now + lat = Later(now, LastAnswer) + lat /\ now =< now + lat
        BY <1>1, <2>2, <3>2 DEF QueueFits, Later
      <4>2. QED
        BY <1>2, <1>6, <2>2, <2>3, <3>1, <3>2, <4>1 DEF QueueFits
    <3>4. ~Fired'
      BY <1>8, <2>2, <2>4 DEF TimerFits, ResolveName, MayAsk
    <3>5. TimerFits'
      BY <1>4, <1>6, <1>7, <3>4 DEF TimerFits
    <3>6. QED
      BY <2>3, <3>3, <3>5
  <2>5. CASE queue # <<>>
    <3>1. Len(queue) = 1 /\ Head(queue) = queue[1] /\ StartTime = Head(queue).completion /\ queue[1] \in Lookups
      BY <1>1, <1>4, <2>1, <2>5, QueueElements DEF StartTime
    <3>2. Head(q) = Head(queue) /\ Len(q) = 2 /\ q[2] = r /\ q[1] = Head(queue)
      BY <1>4, <1>5, <3>1
    <3>3. QueueFits'
      BY <1>2, <1>6, <2>2, <2>3, <2>5, <3>1, <3>2 DEF QueueFits
    <3>4. TimerFits'
      BY <1>4, <1>6, <1>7, <1>8, <2>2, <2>5, <3>2 DEF TimerFits
    <3>5. QED
      BY <2>3, <3>3, <3>4
  <2>6. QED
    BY <2>4, <2>5
<1>10. QED
  BY <1>8, <1>9 DEF SerialInv

\* An answer at the time of its turn keeps all of them in their turn.
LEMMA AnswerTurn ==
    ASSUME TypeOK, SerialLatency, NEW r \in Lookups, done' = Append(done, Answer(r, "ok", now)),
           now = Later(r.asked, LastAnswer) + r.lat
    PROVE  SerialLatency' /\ LastAnswer' = now
<1>1. PICK d \in Seq(Answered) : d = done
  BY TypeFacts
<1>2. PICK e \in Answered : e = Answer(r, "ok", now) /\ e.lookup = r /\ e.at = now
  BY TypeFacts, AnswerFacts
<1>3. PICK a : a = Append(d, e)
  OBVIOUS
<1>4. PICK n \in Nat : n = Len(d)
  BY LenProperties
<1>5. /\ DOMAIN d = 1..n /\ DOMAIN a = 1..(n+1) /\ a[n+1] = e /\ a \in Seq(Answered) /\ a # <<>> /\ Len(a) = n+1
      /\ \A i \in DOMAIN d : a[i] = d[i]
  BY <1>3, <1>4, AppendSeq
<1>6. done' = a
  BY <1>1, <1>2, <1>3
<1>7. LastAnswer' = now
  BY <1>2, <1>5, <1>6 DEF LastAnswer
<1>8. LastAnswer = IF n = 0 THEN 0 ELSE d[n].at
  BY <1>1, <1>4, EmptySeq DEF LastAnswer
<1>9. ASSUME NEW i \in 1..(n+1), a[i].ec = "ok"
      PROVE  a[i].at = Later(a[i].lookup.asked, IF i = 1 THEN 0 ELSE a[i-1].at) + a[i].lookup.lat
  <2>1. CASE i = n+1
    <3>1. a[i] = e
      BY <1>5, <2>1
    <3>2. (IF i = 1 THEN 0 ELSE a[i-1].at) = LastAnswer
      <4>1. CASE n = 0
        BY <1>8, <2>1, <4>1
      <4>2. CASE n # 0
        <5>1. i # 1 /\ i - 1 = n /\ n \in DOMAIN d
          BY <1>5, <2>1, <4>2
        <5>2. a[i-1] = d[n]
          BY <1>5, <5>1
        <5>3. QED
          BY <1>8, <4>2, <5>1, <5>2
      <4>3. QED
        BY <4>1, <4>2
    <3>3. QED
      BY <1>2, <3>1, <3>2
  <2>2. CASE i # n+1
    <3>1. i \in DOMAIN d /\ a[i] = d[i]
      BY <1>5, <2>2
    <3>2. i # 1 => a[i-1] = d[i-1]
      <4>1. i # 1 => i-1 \in DOMAIN d
        BY <1>5, <2>2
      <4>2. QED
        BY <1>5, <4>1
    <3>3. d[i].at = Later(d[i].lookup.asked, IF i = 1 THEN 0 ELSE d[i-1].at) + d[i].lookup.lat
      BY <1>1, <1>9, <3>1 DEF SerialLatency
    <3>4. QED
      BY <3>1, <3>2, <3>3
  <2>3. QED
    BY <2>1, <2>2
<1>10. SerialLatency'
  BY <1>5, <1>6, <1>9 DEF SerialLatency
<1>11. QED
  BY <1>7, <1>10

LEMMA CallTurn ==
    ASSUME TurnInv, TypeOK', on_lookup
    PROVE  FiredFirst' /\ SerialInv'
<1>1. TypeOK /\ FiredFirst /\ now \in Nat /\ LastAnswer \in Nat /\ posted # <<>> /\ posted' = Tail(posted)
  BY TypeFacts, LastFacts DEF TurnInv, on_lookup
<1>2. FiredFirst' /\ ~Fired' /\ (NoHandlers => NoHandlers')
  BY <1>1, PostedTaken
<1>3. now' = now /\ timer' = timer /\ simple' = simple /\ ctx = "idle" /\ Fired
  BY DEF on_lookup, Fired
<1>4. ASSUME simple' PROVE TimerFits' /\ QueueFits' /\ NoHandlers' /\ SerialLatency' /\ ctx' # "undefined"
  <2>1. TimerFits /\ QueueFits /\ NoHandlers /\ SerialLatency
    BY <1>3, <1>4 DEF TurnInv, SerialInv
  <2>2. queue # <<>> /\ Head(queue).completion = now /\ (timer.armed => Len(queue) = 2)
    BY <1>3, <2>1 DEF TimerFits
  <2>3. /\ queue' = Tail(queue) /\ more' = (Tail(queue) # <<>>) /\ ctx' = "handler"
        /\ done' = Append(done, Answer(Head(queue), "ok", now))
    BY <2>2 DEF on_lookup, Answer
  <2>4. PICK t : t = Tail(queue)
    OBVIOUS
  <2>5. /\ Head(queue) = queue[1] /\ queue[1] \in Lookups /\ Len(queue) \in Nat \ {0}
        /\ Len(queue) = 2 => queue[2] \in Lookups /\ t # <<>> /\ Head(t) = queue[2]
        /\ Len(queue) = 1 => t = <<>>
        /\ t \in Seq(Lookups) /\ Len(t) = Len(queue) - 1
    BY <1>1, <2>2, <2>4, QueueElements
  <2>6. Len(queue) = 1 \/ Len(queue) = 2
    BY <2>1, <2>5 DEF QueueFits
  <2>7. PICK r \in Lookups : r = Head(queue)
    BY <2>5
  <2>8. now = Later(r.asked, LastAnswer) + r.lat
    BY <2>1, <2>2, <2>7 DEF QueueFits
  <2>9. SerialLatency' /\ LastAnswer' = now
    BY <1>1, <2>1, <2>3, <2>7, <2>8, AnswerTurn
  <2>10. queue' = t /\ more' = (t # <<>>)
    BY <2>3, <2>4
  <2>11. TimerFits'
    BY <1>2, <1>3, <2>2, <2>3, <2>5, <2>6, <2>10 DEF TimerFits
  <2>12. QueueFits'
    <3>1. CASE Len(queue) = 1
      <4>1. t = <<>> /\ Len(t) = 0
        BY <2>5, <3>1
      <4>2. QED
        BY <1>1, <1>3, <2>9, <2>10, <4>1 DEF QueueFits
    <3>2. CASE Len(queue) = 2
      <4>1. PICK s \in Lookups : s = queue[2]
        BY <2>5, <3>2
      <4>2. s.asked =< now /\ s.completion = now + s.lat /\ s.asked \in Nat /\ s.lat \in Nat
        BY <2>1, <2>2, <2>5, <3>2, <4>1, LookupFacts DEF QueueFits
      <4>3. Head(t) = s /\ Len(t) = 1
        BY <2>5, <3>2, <4>1
      <4>4. now =< s.completion /\ s.completion = Later(s.asked, now) + s.lat
        BY <1>1, <4>2 DEF Later
      <4>5. QED
        BY <1>1, <1>3, <2>9, <2>10, <4>3, <4>4 DEF QueueFits
    <3>3. QED
      BY <2>6, <3>1, <3>2
  <2>13. QED
    BY <1>2, <2>1, <2>3, <2>9, <2>11, <2>12
<1>5. QED
  BY <1>2, <1>4 DEF SerialInv

LEMMA ReturnTurn ==
    ASSUME TurnInv, TypeOK', HandlerReturns
    PROVE  FiredFirst' /\ SerialInv'
<1>1. TypeOK /\ FiredFirst /\ queue \in Seq(Lookups) /\ posted \in Seq(Calls) /\ more \in BOOLEAN
  BY TypeFacts DEF TurnInv, TypeOK
<1>2. now' = now /\ queue' = queue /\ done' = done /\ simple' = simple /\ ctx = "handler"
  BY DEF HandlerReturns
<1>3. PICK q \in Seq(Lookups) : q = queue
  BY <1>1
<1>4. \/ /\ more /\ q # <<>> /\ ctx' = "idle" /\ WaitForFront(q, posted)
      \/ timer' = timer /\ posted' = posted /\ ((more /\ queue = <<>>) \/ (~more /\ ctx' = "idle"))
  BY <1>1, <1>3 DEF HandlerReturns
<1>5. ASSUME q # <<>>, WaitForFront(q, posted)
      PROVE  /\ timer'.armed = TRUE /\ timer'.at = Head(q).completion
             /\ posted' = posted \/ posted' = Append(posted, OnLookup("operation_aborted"))
  BY <1>1, <1>5, WaitFacts
<1>6. posted' = posted \/ posted' = Append(posted, OnLookup("operation_aborted"))
  BY <1>4, <1>5
<1>7. FiredFirst' /\ (Fired' <=> Fired) /\ (NoHandlers => NoHandlers')
  BY <1>1, <1>6, PostedKept
<1>8. ASSUME simple' PROVE TimerFits' /\ QueueFits' /\ NoHandlers' /\ SerialLatency' /\ ctx' # "undefined"
  <2>1. TimerFits /\ QueueFits /\ NoHandlers /\ SerialLatency
    BY <1>2, <1>8 DEF TurnInv, SerialInv
  <2>2. QueueFits' /\ SerialLatency' /\ NoHandlers'
    BY <1>2, <1>7, <2>1 DEF QueueFits, SerialLatency, LastAnswer
  <2>3. ~Fired /\ ~Fired' /\ (more => queue # <<>>)
    BY <1>2, <1>7, <2>1 DEF TimerFits
  <2>4. CASE q # <<>> /\ ctx' = "idle" /\ WaitForFront(q, posted)
    <3>1. timer'.armed = TRUE /\ timer'.at = Head(queue').completion /\ queue' # <<>>
      BY <1>2, <1>3, <1>5, <2>4
    <3>2. QED
      BY <2>2, <2>3, <2>4, <3>1 DEF TimerFits
  <2>5. CASE timer' = timer /\ ~more /\ ctx' = "idle"
    <3>1. queue = <<>> => ~timer.armed
      BY <1>2, <2>1 DEF TimerFits
    <3>2. queue # <<>> => timer.armed /\ timer.at = Head(queue).completion
      BY <1>2, <2>1, <2>5 DEF TimerFits
    <3>3. QED
      BY <1>2, <2>2, <2>3, <2>5, <3>1, <3>2 DEF TimerFits
  <2>6. QED
    BY <1>4, <2>3, <2>4, <2>5
<1>9. QED
  BY <1>7, <1>8 DEF SerialInv

LEMMA AbortedTurn ==
    ASSUME TurnInv, TypeOK', OnLookupAborted \/ CallAborted
    PROVE  FiredFirst' /\ SerialInv'
<1>1. TypeOK /\ FiredFirst /\ posted \in Seq(Calls)
  BY TypeFacts DEF TurnInv
<1>2. /\ posted # <<>> /\ posted' = Tail(posted) /\ simple' = simple /\ now' = now /\ queue' = queue
      /\ timer' = timer /\ ctx' = ctx /\ more' = more
  BY DEF OnLookupAborted, CallAborted
<1>3. FiredFirst' /\ ~Fired' /\ (NoHandlers => NoHandlers')
  BY <1>1, <1>2, PostedTaken
<1>4. ASSUME simple' PROVE TimerFits' /\ QueueFits' /\ NoHandlers' /\ SerialLatency' /\ ctx' # "undefined"
  <2>1. TimerFits /\ QueueFits /\ NoHandlers /\ SerialLatency /\ ctx # "undefined"
    BY <1>2, <1>4 DEF TurnInv, SerialInv
  <2>2. Head(posted).call # "handler"
    <3>1. Head(posted) = posted[1] /\ 1 \in DOMAIN posted
      BY <1>1, <1>2, TailSeq
    <3>2. QED
      BY <2>1, <3>1 DEF NoHandlers
  <2>3. OnLookupAborted /\ done' = done
    BY <2>2 DEF OnLookupAborted, CallAborted
  <2>4. ~Fired
    BY <2>3, CallFacts DEF Fired, OnLookupAborted
  <2>5. QueueFits' /\ SerialLatency' /\ NoHandlers' /\ ctx' # "undefined"
    BY <1>2, <1>3, <2>1, <2>3 DEF QueueFits, SerialLatency, LastAnswer
  <2>6. TimerFits'
    BY <1>2, <1>3, <2>1, <2>4 DEF TimerFits
  <2>7. QED
    BY <2>5, <2>6
<1>5. QED
  BY <1>3, <1>4 DEF SerialInv

\* A literal, and cancel(), end the simple use; the calls posted stay in order.
LEMMA OtherTurn ==
    ASSUME TurnInv, TypeOK', ResolveLiteral \/ cancel
    PROVE  FiredFirst' /\ SerialInv'
<1>1. TypeOK /\ FiredFirst /\ queue \in Seq(Lookups) /\ posted \in Seq(Calls) /\ queue' \in Seq(Lookups)
  BY TypeFacts DEF TurnInv, TypeOK
<1>2. SerialInv'
  BY DEF SerialInv, ResolveLiteral, cancel
<1>3. CASE ResolveLiteral
  <2>1. PICK r \in Lookups : queue' = <<r>> \o queue
    BY <1>1, <1>3, LiteralLookup
  <2>2. queue' # <<>>
    BY <1>1, <2>1, PrefixSeq
  <2>3. PICK q \in Seq(Lookups) : q = queue'
    BY <1>1
  <2>4. WaitForFront(q, posted) /\ q # <<>>
    BY <1>3, <2>2, <2>3 DEF ResolveLiteral
  <2>5. posted' = posted \/ posted' = Append(posted, OnLookup("operation_aborted"))
    BY <1>1, <2>4, WaitFacts
  <2>6. QED
    BY <1>1, <1>2, <2>5, PostedKept
<1>4. CASE cancel
  <2>1. posted' = posted \o AbortAll(queue)
    BY <1>4 DEF cancel, AbortAll
  <2>2. PICK p \in Seq(Calls) : p = posted
    BY <1>1
  <2>3. PICK b \in Seq(Calls) : b = AbortAll(queue) /\ \A i \in DOMAIN b : b[i].call = "handler"
    BY <1>1, AbortAllFacts
  <2>4. PICK a : a = p \o b
    OBVIOUS
  <2>5. /\ \A i \in DOMAIN p : a[i] = p[i]
        /\ \A i \in DOMAIN b : a[Len(p)+i] = b[i]
        /\ \A k \in DOMAIN a : k \in DOMAIN p \/ (k - Len(p) \in DOMAIN b /\ k = Len(p) + (k - Len(p)))
    BY <2>4, ConcatSeq
  <2>6. OnLookup("ok").call # "handler"
    BY CallFacts
  <2>7. ASSUME NEW k \in DOMAIN a, a[k] = OnLookup("ok") PROVE k = 1
    <3>1. CASE k \in DOMAIN p
      BY <1>1, <2>2, <2>5, <2>7, <3>1 DEF FiredFirst
    <3>2. CASE k - Len(p) \in DOMAIN b /\ k = Len(p) + (k - Len(p))
      <4>1. a[k] = b[k - Len(p)]
        BY <2>5, <3>2
      <4>2. QED
        BY <2>3, <2>6, <2>7, <3>2, <4>1
    <3>3. QED
      BY <2>5, <3>1, <3>2
  <2>8. posted' = a
    BY <2>1, <2>2, <2>3, <2>4
  <2>9. QED
    BY <1>2, <2>7, <2>8 DEF FiredFirst
<1>5. QED
  BY <1>3, <1>4

\* The clock stops at the completion time of the lookup at the front.
LEMMA ClockTurn ==
    ASSUME TurnInv, TypeOK', FastForward
    PROVE  FiredFirst' /\ SerialInv' /\ (simple' => now =< now')
<1>1. TypeOK /\ FiredFirst /\ now \in Nat /\ timer.at \in Nat /\ LastAnswer \in Nat
  BY TypeFacts, LastFacts DEF TurnInv
<1>2. /\ posted = <<>> /\ ctx = "idle" /\ queue' = queue /\ ctx' = ctx /\ more' = more /\ done' = done
      /\ simple' = simple
      /\ now' = IF timer.armed /\ timer.at =< now THEN timer.at ELSE now + 1
  BY DEF FastForward
<1>3. \/ /\ timer.armed /\ timer.at = now' /\ posted' = <<OnLookup("ok")>>
         /\ timer' = [timer EXCEPT !.armed = FALSE]
      \/ ~(timer.armed /\ timer.at = now') /\ posted' = posted /\ timer' = timer
  BY DEF FastForward
<1>4. FiredFirst'
  <2>1. DOMAIN <<OnLookup("ok")>> = 1..1
    OBVIOUS
  <2>2. QED
    BY <1>2, <1>3, <2>1 DEF FiredFirst
<1>5. ASSUME simple' PROVE TimerFits' /\ QueueFits' /\ NoHandlers' /\ SerialLatency' /\ ctx' # "undefined" /\ now =< now'
  <2>1. TimerFits /\ QueueFits /\ SerialLatency
    BY <1>2, <1>5 DEF TurnInv, SerialInv
  <2>2. ~Fired
    BY <1>2 DEF Fired
  <2>3. /\ queue = <<>> => ~timer.armed
        /\ queue # <<>> => timer.armed /\ timer.at = Head(queue).completion /\ now =< timer.at
    BY <1>2, <2>1, <2>2 DEF TimerFits, QueueFits
  <2>4. now =< now' /\ (queue # <<>> => now' =< timer.at) /\ now' \in Nat
    BY <1>1, <1>2, <2>3
  <2>5. QueueFits'
    <3>1. LastAnswer' = LastAnswer /\ LastAnswer =< now'
      BY <1>1, <1>2, <2>1, <2>4 DEF QueueFits, LastAnswer
    <3>2. queue # <<>> => now' =< Head(queue).completion
      BY <2>3, <2>4
    <3>3. QED
      BY <1>2, <2>1, <3>1, <3>2 DEF QueueFits
  <2>6. SerialLatency' /\ ctx' # "undefined"
    BY <1>2, <2>1 DEF SerialLatency
  <2>7. CASE posted' = posted /\ timer' = timer
    <3>1. NoHandlers'
      BY <1>2, <2>7 DEF NoHandlers
    <3>2. ~Fired'
      BY <1>2, <2>7 DEF Fired
    <3>3. TimerFits'
      BY <1>2, <2>3, <2>7, <3>2 DEF TimerFits
    <3>4. QED
      BY <2>4, <2>5, <2>6, <3>1, <3>3
  <2>8. CASE timer.armed /\ timer.at = now' /\ posted' = <<OnLookup("ok")>> /\ timer' = [timer EXCEPT !.armed = FALSE]
    <3>1. NoHandlers'
      BY <2>8, CallFacts DEF NoHandlers
    <3>2. Fired' /\ ~timer'.armed
      BY <1>1, <2>8 DEF Fired, TypeOK
    <3>3. TimerFits'
      BY <1>2, <2>3, <2>8, <3>2 DEF TimerFits
    <3>4. QED
      BY <2>4, <2>5, <2>6, <3>1, <3>3
  <2>9. QED
    BY <1>3, <2>7, <2>8
<1>6. QED
  BY <1>4, <1>5 DEF SerialInv

LEMMA TurnStep ==
    ASSUME TurnInv, [Next]_vars
    PROVE  TurnInv' /\ (simple' => now =< now')
<1>1. TypeOK /\ TypeOK' /\ now \in Nat
  BY TypeStep, TypeFacts DEF TurnInv
<1>2. CASE FastForward
  BY <1>1, <1>2, ClockTurn DEF TurnInv
<1>3. CASE ~FastForward
  <2>1. FiredFirst' /\ SerialInv'
    <3>1. CASE UNCHANGED vars
      <4>1. /\ now' = now /\ queue' = queue /\ timer' = timer /\ posted' = posted /\ ctx' = ctx /\ more' = more
            /\ done' = done /\ simple' = simple
        BY <3>1 DEF vars
      <4>2. FiredFirst /\ SerialInv
        BY DEF TurnInv
      <4>3. QED
        BY <4>1, <4>2 DEF FiredFirst, SerialInv, TimerFits, QueueFits, LastAnswer, NoHandlers, SerialLatency, Fired
    <3>2. QED
      BY <1>1, <1>3, <3>1, NameTurn, CallTurn, ReturnTurn, AbortedTurn, OtherTurn DEF Next, User, Run
  <2>2. now' = now
    BY <1>3 DEF Next, User, Run, vars, ResolveLiteral, cancel, ResolveName, on_lookup, HandlerReturns,
                OnLookupAborted, CallAborted
  <2>3. QED
    BY <1>1, <2>1, <2>2 DEF TurnInv
<1>4. QED
  BY <1>2, <1>3

\* While user code looks up host names only, no more than two at a time, and cancels
\* nothing, m_timer waits for the lookup at the front of m_queue or has fired for
\* it, and the completion times in m_queue are those of lookups one after the other.
THEOREM TurnInvariance == Spec => []TurnInv
<1>1. ASSUME Init PROVE TurnInv
  <2>1. /\ TypeOK /\ queue = <<>> /\ posted = <<>> /\ done = <<>> /\ now = 0 /\ ctx = "idle"
        /\ timer.armed = FALSE
    BY <1>1, InitTypes DEF Init
  <2>2. FiredFirst /\ NoHandlers /\ ~Fired /\ SerialLatency /\ LastAnswer = 0
    BY <2>1 DEF FiredFirst, NoHandlers, Fired, SerialLatency, LastAnswer
  <2>3. QueueFits
    BY <2>1, <2>2 DEF QueueFits
  <2>4. TimerFits
    BY <2>1, <2>2 DEF TimerFits
  <2>5. QED
    BY <2>1, <2>2, <2>3, <2>4 DEF TurnInv, SerialInv
<1>2. TurnInv /\ [Next]_vars => TurnInv'
  BY TurnStep
<1>3. QED
  BY <1>1, <1>2, PTL DEF Spec

\* Each lookup is answered once, whatever user code does; and the names are
\* answered one after the other, each its latency after the later of its call and
\* the answer before it, as long as no more than two are looked up at a time and
\* nothing is cancelled: start_time is the completion of the FRONT lookup
\* (resolver.cpp:51-53, 79-97), which is the one before it only then.
THEOREM LookupsAnsweredInTurn == Spec => []AnsweredInTurn
<1>1. ASSUME TurnInv PROVE SimpleSerial
  BY <1>1 DEF TurnInv, SerialInv, SimpleSerial
<1>2. AnsweredOnce /\ SimpleSerial => AnsweredInTurn
  BY DEF AnsweredInTurn
<1>3. QED
  BY <1>1, <1>2, LookupsAnsweredOnce, TurnInvariance, PTL

\* In that use the timer is never armed for a time that is over, so that the event
\* loop, which sets the clock to the expiry of the first timer, does not set it back.
THEOREM ClockKeptBySimpleUse == Spec => SimpleSteady
<1>1. ASSUME TurnInv, [Next]_vars PROVE [simple' => now =< now']_vars
  BY <1>1, TurnStep
<1>2. QED
  BY <1>1, TurnInvariance, PTL DEF Spec, SimpleSteady

LEMMA FrontStep ==
    ASSUME "handler" \notin CancelFrom, FrontInv, [Next]_vars
    PROVE  FrontInv'
<1>1. TypeOK /\ TypeOK' /\ queue \in Seq(Lookups)
  BY TypeStep, TypeFacts DEF FrontInv
<1>2. ctx # "undefined" /\ (ctx = "handler" /\ more => queue # <<>>)
  BY DEF FrontInv
<1> SUFFICES ctx' # "undefined" /\ (ctx' = "handler" /\ more' => queue' # <<>>)
  BY <1>1 DEF FrontInv
<1>3. CASE ResolveLiteral
  <2>1. PICK r \in Lookups : queue' = <<r>> \o queue
    BY <1>1, <1>3, LiteralLookup
  <2>2. queue' # <<>>
    BY <1>1, <2>1, PrefixSeq
  <2>3. QED
    BY <1>2, <1>3, <2>2 DEF ResolveLiteral
<1>4. ASSUME NEW lat \in Latencies, ResolveName(lat)
      PROVE  ctx' # "undefined" /\ (ctx' = "handler" /\ more' => queue' # <<>>)
  <2>1. PICK r \in Lookups : queue' = Append(queue, r)
    BY <1>1, <1>4, NameLookup
  <2>2. queue' # <<>>
    BY <1>1, <2>1, AppendSeq
  <2>3. QED
    BY <1>2, <1>4, <2>2 DEF ResolveName
<1>5. CASE cancel
  <2>1. ctx' = "idle"
    BY <1>5, ConstantsAssumption DEF cancel
  <2>2. QED
    BY <2>1
<1>6. CASE on_lookup
  BY <1>2, <1>6 DEF on_lookup
<1>7. CASE HandlerReturns
  BY <1>2, <1>7 DEF HandlerReturns
<1>8. CASE OnLookupAborted \/ CallAborted \/ FastForward \/ UNCHANGED vars
  BY <1>2, <1>8 DEF OnLookupAborted, CallAborted, FastForward, vars
<1>9. QED
  BY <1>3, <1>4, <1>5, <1>6, <1>7, <1>8 DEF Next, User, Run

\* on_lookup() tests whether the queue is empty before it calls the handler and takes
\* the front after it (resolver.cpp:116-120): it never takes the front of an empty
\* queue if user code does not call cancel() from the handler of a lookup.
THEOREM FrontIsThere == ("handler" \notin CancelFrom) => (Spec => []FrontExists)
<1> SUFFICES ASSUME "handler" \notin CancelFrom PROVE Spec => []FrontExists
  OBVIOUS
<1>1. ASSUME Init PROVE FrontInv
  BY <1>1, InitTypes DEF Init, FrontInv
<1>2. FrontInv /\ [Next]_vars => FrontInv'
  BY FrontStep
<1>3. FrontInv => FrontExists
  BY DEF FrontInv, FrontExists
<1>4. QED
  BY <1>1, <1>2, <1>3, PTL DEF Spec

=============================================================================
