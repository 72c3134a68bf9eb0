------------------------------ MODULE Resolver ------------------------------
(***************************************************************************)
(* basic_resolver (src/resolver.cpp): host name lookups answered from a    *)
(* queue, one timer for the lookup at its front.  The timer always waits   *)
(* for on_lookup(); arming it again aborts the wait that is pending.       *)
(*                                                                         *)
(* User code calls the resolver from any handler (ctx is "idle" then) and  *)
(* from the handler of a lookup, called by on_lookup() (ctx is "handler"). *)
(* Of the event loop it uses what EventLoop shows: posted handlers run     *)
(* before the clock moves, and the clock is SET to the expiry of the first *)
(* timer, also when that is in the past.                                   *)
(***************************************************************************)
EXTENDS Integers, Sequences, SequencesExt, FiniteSets

CONSTANTS
    Latencies,       \* what configuration::hostname_lookup() may return
    LiteralLatency,  \* the microsecond an IP address literal takes
    Literals,        \* does user code resolve IP address literals?
    CancelFrom,      \* the contexts user code calls cancel() from
    MaxLookups,      \* bound: calls of async_resolve()
    MaxOutstanding,  \* bound: lookups in the queue at the same time
    LastCall         \* bound: user code has no timer later than this

ASSUME ConstantsAssumption ==
    /\ Latencies \subseteq Nat
    /\ LiteralLatency \in Nat \ {0}
    /\ Literals \in BOOLEAN
    /\ CancelFrom \subseteq {"idle", "handler"}
    /\ MaxLookups \in Nat
    /\ MaxOutstanding \in Nat
    /\ LastCall \in Nat

VARIABLES
    now,     \* the simulated time
    queue,   \* m_queue, the lookups to be answered
    timer,   \* m_timer: its expiry and whether on_lookup() waits for it
    posted,  \* what the resolver and its timer have posted to the event loop
    ctx,     \* "idle", "handler", or "undefined" after front() of no lookup
    more,    \* the negation of `empty`, a local of on_lookup()
    asked,   \* history: the number of calls of async_resolve()
    done,    \* history: the lookups answered, in order
    simple   \* history: so far user code looked up host names only, no more than
             \* two at a time, and cancelled nothing

vars == <<now, queue, timer, posted, ctx, more, asked, done, simple>>

\* result_t.  id, literal, asked and lat are history: which lookup it is, what
\* was looked up and when, and how long the lookup is to take.
Lookups ==
    [id : 1..MaxLookups, literal : BOOLEAN, completion : Nat, asked : Nat, lat : Nat]

\* on_lookup() with the error code of the wait, or the handler of a cancelled
\* lookup, bound to operation_aborted.
OnLookup(ec) == [call |-> "on_lookup", ec |-> ec]
Aborted(r) == [call |-> "handler", lookup |-> r]

Answered == [lookup : Lookups, ec : {"ok", "operation_aborted"}, at : Nat]

TypeOK ==
    /\ now \in Nat
    /\ queue \in Seq(Lookups)
    /\ timer \in [at : Nat, armed : BOOLEAN]
    /\ posted \in Seq([call : {"on_lookup"}, ec : {"ok", "operation_aborted"}]
                      \cup [call : {"handler"}, lookup : Lookups])
    /\ ctx \in {"idle", "handler", "undefined"}
    /\ more \in BOOLEAN
    /\ asked \in 0..MaxLookups
    /\ done \in Seq(Answered)
    /\ simple \in BOOLEAN

Init ==
    /\ now = 0
    /\ queue = <<>>
    /\ timer = [at |-> 0, armed |-> FALSE]
    /\ posted = <<>>
    /\ ctx = "idle"
    /\ more = FALSE
    /\ asked = 0
    /\ done = <<>>
    /\ simple = TRUE

-----------------------------------------------------------------------------

\* m_timer.expires_at(front().completion_time), which aborts the pending wait,
\* then m_timer.async_wait(on_lookup).
WaitForFront(q, pst) ==
    /\ timer' = [at |-> Head(q).completion, armed |-> TRUE]
    /\ posted' = IF timer.armed
                 THEN Append(pst, OnLookup("operation_aborted"))
                 ELSE pst

MayAsk ==
    /\ ctx \in {"idle", "handler"}
    /\ asked < MaxLookups
    /\ Len(queue) < MaxOutstanding

\* async_resolve() of an IP address: to the front of the queue.
ResolveLiteral ==
    /\ MayAsk
    /\ Literals
    /\ asked' = asked + 1
    /\ queue' = <<[id |-> asked', literal |-> TRUE, asked |-> now,
                   completion |-> now + LiteralLatency, lat |-> LiteralLatency]>>
                \o queue
    /\ WaitForFront(queue', posted)
    /\ simple' = FALSE
    /\ UNCHANGED <<now, ctx, more, done>>

\* Mutant: lookups do not wait for each other.
StartNow == now

\* start_time: the completion time of the lookup at the FRONT of the queue.
StartTime == IF queue = <<>> THEN now ELSE Head(queue).completion

\* async_resolve() of a host name: to the back of the queue.
ResolveName(lat) ==
    /\ MayAsk
    /\ asked' = asked + 1
    /\ queue' = Append(queue, [id |-> asked', literal |-> FALSE, asked |-> now,
                               completion |-> StartTime + lat, lat |-> lat])
    /\ WaitForFront(queue', posted)
    /\ simple' = (simple /\ Len(queue') =< 2)
    /\ UNCHANGED <<now, ctx, more, done>>

\* cancel(): every handler is posted with operation_aborted.  The timer is
\* left alone.
cancel ==
    /\ ctx \in CancelFrom
    /\ queue # <<>>
    /\ queue' = <<>>
    /\ posted' = posted \o [i \in DOMAIN queue |-> Aborted(queue[i])]
    /\ simple' = FALSE
    /\ UNCHANGED <<now, timer, ctx, more, asked, done>>

\* on_lookup() takes the front of the queue and calls its handler ...
on_lookup ==
    /\ ctx = "idle"
    /\ posted # <<>>
    /\ Head(posted) = OnLookup("ok")
    /\ posted' = Tail(posted)
    /\ IF queue = <<>>
       THEN UNCHANGED <<queue, more, ctx, done>>
       ELSE /\ queue' = Tail(queue)
            /\ more' = (Tail(queue) # <<>>)
            /\ done' = Append(done, [lookup |-> Head(queue), ec |-> "ok", at |-> now])
            /\ ctx' = "handler"
    /\ UNCHANGED <<now, timer, asked, simple>>

\* Mutant: the lookups left are not waited for.
HandlerReturnsOnly ==
    /\ ctx = "handler"
    /\ more' = FALSE
    /\ ctx' = "idle"
    /\ UNCHANGED <<now, queue, timer, posted, asked, done, simple>>

\* ... and when that returns waits for the next one, if there was one before
\* the call.
HandlerReturns ==
    /\ ctx = "handler"
    /\ more' = FALSE
    /\ IF more
       THEN IF queue = <<>>
            THEN /\ ctx' = "undefined"
                 /\ UNCHANGED <<timer, posted>>
            ELSE /\ ctx' = "idle"
                 /\ WaitForFront(queue, posted)
       ELSE /\ ctx' = "idle"
            /\ UNCHANGED <<timer, posted>>
    /\ UNCHANGED <<now, queue, asked, done, simple>>

\* on_lookup() of a wait that was aborted returns at once.
OnLookupAborted ==
    /\ ctx = "idle"
    /\ posted # <<>>
    /\ Head(posted) = OnLookup("operation_aborted")
    /\ posted' = Tail(posted)
    /\ UNCHANGED <<now, queue, timer, ctx, more, asked, done, simple>>

\* The event loop calls the handler of a cancelled lookup.
CallAborted ==
    /\ ctx = "idle"
    /\ posted # <<>>
    /\ Head(posted).call = "handler"
    /\ done' = Append(done, [lookup |-> Head(posted).lookup,
                             ec |-> "operation_aborted", at |-> now])
    /\ posted' = Tail(posted)
    /\ UNCHANGED <<now, queue, timer, ctx, more, asked, simple>>

\* Nothing is posted: run() sets the clock to the next expiry, of this timer
\* or of a later one of user code, and fires the timer if it is due.
FastForward ==
    /\ ctx = "idle"
    /\ posted = <<>>
    /\ timer.armed \/ now < LastCall
    /\ now' = IF timer.armed /\ timer.at =< now THEN timer.at ELSE now + 1
    /\ IF timer.armed /\ timer.at = now'
       THEN /\ posted' = <<OnLookup("ok")>>
            /\ timer' = [timer EXCEPT !.armed = FALSE]
       ELSE UNCHANGED <<posted, timer>>
    /\ UNCHANGED <<queue, ctx, more, asked, done, simple>>

Run == on_lookup \/ HandlerReturns \/ OnLookupAborted \/ CallAborted \/ FastForward

User == ResolveLiteral \/ cancel \/ \E lat \in Latencies : ResolveName(lat)

Next == User \/ Run

Spec == Init /\ [][Next]_vars

\* run() keeps calling what is posted and firing what is due.
FairSpec == Spec /\ WF_vars(Run)

-----------------------------------------------------------------------------

QueuedAs(id) == {i \in DOMAIN queue : queue[i].id = id}
PostedAs(id) ==
    {i \in DOMAIN posted : posted[i].call = "handler" /\ posted[i].lookup.id = id}
DoneAs(id) == {i \in DOMAIN done : done[i].lookup.id = id}

\* No lookup is lost or answered twice, whatever the order of async_resolve(),
\* cancel() and on_lookup(): its handler is in the queue, or posted, or has
\* been called, and in one of these places only.
AnsweredOnce ==
    \A id \in 1..asked :
        Cardinality(QueuedAs(id)) + Cardinality(PostedAs(id))
            + Cardinality(DoneAs(id)) = 1

\* on_lookup() never takes the front of an empty queue.  It checks for that
\* before the handler is called and not after it, so this is about user code
\* that does not call cancel() from the handler of a lookup.
FrontExists == ctx # "undefined"

\* "The client's callback won't be called until after waiting this long"
\* (hostname_lookup(), simulator.hpp): a name is not answered before its
\* latency is over.  Two things break it: cancel(), which leaves an on_lookup()
\* posted for a lookup that is gone, and a clock that went back.
HostLatencyKept ==
    \A i \in DOMAIN done :
        done[i].ec = "ok" /\ ~done[i].lookup.literal
        => done[i].lookup.asked + done[i].lookup.lat =< done[i].at

Later(a, b) == IF a < b THEN b ELSE a

\* "lookups resolve serially, compounding the latency" (test/resolver.cpp):
\* each lookup takes its latency after the later of its call and the answer of
\* the lookup before it.
SerialLatency ==
    \A i \in DOMAIN done :
        done[i].ec = "ok" =>
            LET r == done[i].lookup
                before == IF i = 1 THEN 0 ELSE done[i-1].at
            IN done[i].at = Later(r.asked, before) + r.lat

\* The clock declares is_steady = true (chrono.hpp), and the resolver is the
\* only one to arm a timer here.
TimeSteady == [][now =< now']_vars

\* While no more than two names are looked up at a time and nothing is cancelled,
\* lookups are answered one after the other, each when its latency is over, ...
SimpleSerial == simple => SerialLatency

\* ... and the clock does not go back.
SimpleSteady == [][simple' => now =< now']_vars

\* Each lookup is answered once, and names in their turn.
AnsweredInTurn == AnsweredOnce /\ SimpleSerial

\* Every lookup is answered in the end.
EveryLookupAnswered ==
    \A id \in 1..MaxLookups : (asked >= id) ~> (DoneAs(id) # {})

=============================================================================
