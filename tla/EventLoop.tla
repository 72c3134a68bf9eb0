------------------------------ MODULE EventLoop ------------------------------
(***************************************************************************)
(* The single time line of a simulation: the virtual clock, the queue of   *)
(* armed timers, the FIFO of posted completion handlers and the loop of    *)
(* simulation::run() that drains the handlers, fast-forwards the clock to  *)
(* the next expiry and fires what is due (src/simulation.cpp,              *)
(* src/high_resolution_timer.cpp, src/high_resolution_clock.cpp).          *)
(*                                                                         *)
(* User code runs in two places only: outside run(), and inside a          *)
(* completion handler that run() calls.  It is the environment here, and   *)
(* may call any operation of a timer or of the simulation object.          *)
(***************************************************************************)
EXTENDS Integers, Sequences, SequencesExt

CONSTANTS
    Timers,       \* the high_resolution_timer objects
    Times,        \* the absolute times user code passes to expires_at()
    Durations,    \* the durations user code passes to expires_after()
    PastAllowed,  \* may user code arm a timer with an expiry before now()?
    MaxStalled,   \* max_stalled_iterations of run() (1000 in the code)
    MaxTime,      \* bound: no timer is armed for a later time than this
    MaxReady      \* bound: user code posts no handler beyond this many

ASSUME ConstantsAssumption ==
    /\ Times \subseteq Int
    /\ Durations \subseteq Int
    /\ PastAllowed \in BOOLEAN
    /\ MaxStalled \in Nat
    /\ MaxTime \in Int
    /\ MaxReady \in Nat

VARIABLES
    now,       \* g_simulation_time
    timerq,    \* m_timer_queue: the armed timers in firing order
    expiry,    \* m_expiration_time of each timer
    armed,     \* the timers whose m_expired is false
    waiting,   \* the timers whose m_handler is set
    ready,     \* the handlers posted to m_service and not called yet
    stopped,   \* m_stopped
    ctx,       \* where the thread is: see Contexts
    executed,  \* last_executed > 0 in this iteration of run()
    prev,      \* prev_time, a local of run()
    stalled    \* stalled_iterations, a local of run()

timerVars == <<timerq, expiry, armed, waiting>>
loopVars == <<executed, prev, stalled>>
vars == <<now, timerq, expiry, armed, waiting, ready, stopped, ctx,
          executed, prev, stalled>>

\* "outside": not in run(); "poll": in m_service.poll() between two handlers;
\* "handler": in a completion handler; "fire": in the loop that fires due
\* timers; "check": at the runaway check; "catch": in run()'s catch block;
\* "aborted": an assert failed and the process is gone.
Contexts == {"outside", "poll", "handler", "fire", "check", "catch", "aborted"}

UserContext == ctx \in {"outside", "handler"}

\* A posted completion: whose handler it is, the error code bound to it and
\* the time at which it became due: the expiry of a timer that fires, the
\* time of the call when cancel() or async_wait() posts it at once.
Completions == [timer : Timers, ec : {"ok", "operation_aborted"}, due : Int]

Completion(t, ec, due) == [timer |-> t, ec |-> ec, due |-> due]

TypeOK ==
    /\ now \in Int
    /\ timerq \in Seq(Timers)
    /\ expiry \in [Timers -> Int]
    /\ armed \in SUBSET Timers
    /\ waiting \in SUBSET Timers
    /\ ready \in Seq(Completions)
    /\ stopped \in BOOLEAN
    /\ ctx \in Contexts
    /\ executed \in BOOLEAN
    /\ prev \in Int
    /\ stalled \in Nat

\* simulation::simulation() resets the clock; a timer is constructed expired.
Init ==
    /\ now = 0
    /\ timerq = <<>>
    /\ expiry = [t \in Timers |-> 0]
    /\ armed = {}
    /\ waiting = {}
    /\ ready = <<>>
    /\ stopped = FALSE
    /\ ctx = "outside"
    /\ executed = FALSE
    /\ prev = 0
    /\ stalled = 0

-----------------------------------------------------------------------------
(* The timer queue.                                                        *)

\* simulation::remove_timer(): equal_range() finds the timers with t's expiry,
\* find() finds t among them.
remove_timer(q, t) ==
    IF \E i \in DOMAIN q : q[i] = t
    THEN RemoveAt(q, CHOOSE i \in DOMAIN q : q[i] = t)
    ELSE q

\* Mutant: std::lower_bound() in place of std::upper_bound().
LowerBound(q, k, x) ==
    /\ \A i \in 1..k : expiry[q[i]] < x
    /\ \A i \in (k+1)..Len(q) : x =< expiry[q[i]]

\* std::upper_bound() returns the partition point of a sorted queue: as many
\* leading timers as do not expire after x.
UpperBound(q, k, x) ==
    /\ \A i \in 1..k : expiry[q[i]] =< x
    /\ \A i \in (k+1)..Len(q) : x < expiry[q[i]]

\* Mutant: push_back() without the search.
add_timer_at_end(q, t, x) == timerq' = Append(q, t)

\* simulation::add_timer(): insert t, which expires at x, after the timers
\* that expire no later, so that equal expiries keep the order of arming.
add_timer(q, t, x) ==
    \E k \in 0..Len(q) :
        /\ UpperBound(q, k, x)
        /\ timerq' = InsertAt(q, k+1, t)

-----------------------------------------------------------------------------
(* The operations of a timer, called by user code.                         *)

\* What high_resolution_timer::cancel() makes of the queue, of the set of
\* pending waits and of the posted handlers.
CancelledQueue(t) == IF t \in armed THEN remove_timer(timerq, t) ELSE timerq
CancelledWaiting(t) == IF t \in armed THEN waiting \ {t} ELSE waiting
CancelledReady(t) ==
    IF t \in armed \cap waiting
    THEN Append(ready, Completion(t, "operation_aborted", now))
    ELSE ready

\* Mutant: cancel() without the call of remove_timer().
CancelKeepsQueue(t) ==
    /\ UserContext
    /\ Len(ready) < MaxReady
    /\ armed' = armed \ {t}
    /\ waiting' = CancelledWaiting(t)
    /\ ready' = CancelledReady(t)
    /\ UNCHANGED <<now, timerq, expiry, stopped, ctx, loopVars>>

\* high_resolution_timer::cancel(), cancel_one() and the destructor.
Cancel(t) ==
    /\ UserContext
    /\ Len(ready) < MaxReady
    /\ timerq' = CancelledQueue(t)
    /\ armed' = armed \ {t}
    /\ waiting' = CancelledWaiting(t)
    /\ ready' = CancelledReady(t)
    /\ UNCHANGED <<now, expiry, stopped, ctx, loopVars>>

\* expires_at() and expires_after(): cancel, then arm for time x.
Arm(t, x) ==
    /\ UserContext
    /\ Len(ready) < MaxReady
    /\ x =< MaxTime
    /\ PastAllowed \/ now =< x
    /\ ~stopped
    /\ expiry' = [expiry EXCEPT ![t] = x]
    /\ armed' = armed \cup {t}
    /\ waiting' = CancelledWaiting(t)
    /\ ready' = CancelledReady(t)
    /\ add_timer(CancelledQueue(t), t, x)
    /\ UNCHANGED <<now, stopped, ctx, loopVars>>

\* add_timer() asserts that the simulation is not stopped.
ArmStopped(t) ==
    /\ UserContext
    /\ stopped
    /\ ctx' = "aborted"
    /\ UNCHANGED <<now, timerVars, ready, stopped, loopVars>>

expires_at(t, x) == Arm(t, x)
expires_after(t, d) == Arm(t, now + d)

\* high_resolution_timer::async_wait(); at most one handler may be pending
\* (the assert on m_handler).  The handler of an expired timer is posted at
\* once.
async_wait(t) ==
    /\ UserContext
    /\ t \notin waiting
    /\ Len(ready) < MaxReady
    /\ IF t \in armed
       THEN /\ waiting' = waiting \cup {t}
            /\ UNCHANGED ready
       ELSE /\ ready' = Append(ready, Completion(t, "ok", now))
            /\ UNCHANGED waiting
    /\ UNCHANGED <<now, timerq, expiry, armed, stopped, ctx, loopVars>>

\* simulation::stop() and simulation::restart(): m_service is not stopped, so
\* handlers already posted are still called.
stop ==
    /\ UserContext
    /\ stopped' = TRUE
    /\ UNCHANGED <<now, timerVars, ready, ctx, loopVars>>

restart ==
    /\ UserContext
    /\ stopped' = FALSE
    /\ UNCHANGED <<now, timerVars, ready, ctx, loopVars>>

-----------------------------------------------------------------------------
(* simulation::run().                                                      *)

\* Entering run(): the locals are initialised and the first poll() begins,
\* also when the simulation is stopped (the loop is a do-while).
RunEnter ==
    /\ ctx = "outside"
    /\ ctx' = "poll"
    /\ executed' = FALSE
    /\ prev' = now
    /\ stalled' = 0
    /\ UNCHANGED <<now, timerVars, ready, stopped>>

\* poll() calls the oldest posted handler.
CallHandler ==
    /\ ctx = "poll"
    /\ ready # <<>>
    /\ ready' = Tail(ready)
    /\ ctx' = "handler"
    /\ executed' = TRUE
    /\ UNCHANGED <<now, timerVars, stopped, prev, stalled>>

HandlerReturns ==
    /\ ctx = "handler"
    /\ ctx' = "poll"
    /\ UNCHANGED <<now, timerVars, ready, stopped, loopVars>>

\* A handler throws: the exception leaves poll() and reaches the catch block.
HandlerThrows ==
    /\ ctx = "handler"
    /\ ctx' = "catch"
    /\ UNCHANGED <<now, timerVars, ready, stopped, loopVars>>

\* Mutant: poll_one() in place of poll().
FastForwardEarly ==
    /\ ctx = "poll"
    /\ IF timerq = <<>>
       THEN ctx' = "check" /\ UNCHANGED now
       ELSE ctx' = "fire" /\ now' = expiry[Head(timerq)]
    /\ UNCHANGED <<timerVars, ready, stopped, loopVars>>

\* poll() returns when no handler is ready; the clock is then moved to the
\* expiry of the first timer, if there is one.
FastForward ==
    /\ ctx = "poll"
    /\ ready = <<>>
    /\ IF timerq = <<>>
       THEN ctx' = "check" /\ UNCHANGED now
       ELSE ctx' = "fire" /\ now' = expiry[Head(timerq)]
    /\ UNCHANGED <<timerVars, ready, stopped, loopVars>>

\* One iteration of the loop that fires due timers: take the first timer off
\* the queue and fire() it.
FireNext ==
    /\ ctx = "fire"
    /\ timerq # <<>>
    /\ LET t == Head(timerq) IN
        /\ expiry[t] =< now
        /\ armed' = armed \ {t}
        /\ waiting' = waiting \ {t}
        /\ ready' = IF t \in waiting
                    THEN Append(ready, Completion(t, "ok", expiry[t]))
                    ELSE ready
    /\ timerq' = Tail(timerq)
    /\ executed' = TRUE
    /\ UNCHANGED <<now, expiry, stopped, ctx, prev, stalled>>

FireDone ==
    /\ ctx = "fire"
    /\ timerq # <<>> => now < expiry[Head(timerq)]
    /\ ctx' = "check"
    /\ UNCHANGED <<now, timerVars, ready, stopped, loopVars>>

\* The end of an iteration: nothing was executed and run() returns.
RunIdle ==
    /\ ctx = "check"
    /\ ~executed
    /\ ctx' = "outside"
    /\ UNCHANGED <<now, timerVars, ready, stopped, loopVars>>

\* Something was executed and time moved since the last time it was looked at.
RunProgress ==
    /\ ctx = "check"
    /\ executed
    /\ now # prev
    /\ stalled' = 0
    /\ prev' = now
    /\ ctx' = IF stopped THEN "outside" ELSE "poll"
    /\ executed' = FALSE
    /\ UNCHANGED <<now, timerVars, ready, stopped>>

\* Mutant: no limit on the iterations without progress.
RunStalledForever ==
    /\ ctx = "check"
    /\ executed
    /\ now = prev
    /\ ctx' = IF stopped THEN "outside" ELSE "poll"
    /\ executed' = FALSE
    /\ UNCHANGED <<now, timerVars, ready, stopped, prev, stalled>>

\* Something was executed but time did not move.
RunStalled ==
    /\ ctx = "check"
    /\ executed
    /\ now = prev
    /\ stalled < MaxStalled
    /\ stalled' = stalled + 1
    /\ ctx' = IF stopped THEN "outside" ELSE "poll"
    /\ executed' = FALSE
    /\ UNCHANGED <<now, timerVars, ready, stopped, prev>>

\* Time did not move for too many iterations: run() throws.
RunThrows ==
    /\ ctx = "check"
    /\ executed
    /\ now = prev
    /\ stalled = MaxStalled
    /\ stalled' = stalled + 1
    /\ ctx' = "catch"
    /\ UNCHANGED <<now, timerVars, ready, stopped, executed, prev>>

\* The catch block cancels every armed timer, in queue order (and then what listens
\* and the UDP sockets, which this module does not have) ...
CatchCancel ==
    /\ ctx = "catch"
    /\ timerq # <<>>
    /\ LET t == Head(timerq) IN
        /\ timerq' = CancelledQueue(t)
        /\ armed' = armed \ {t}
        /\ waiting' = CancelledWaiting(t)
        /\ ready' = CancelledReady(t)
    /\ UNCHANGED <<now, expiry, stopped, ctx, loopVars>>

\* ... then marks the simulation stopped and rethrows.
CatchDone ==
    /\ ctx = "catch"
    /\ timerq = <<>>
    /\ stopped' = TRUE
    /\ ctx' = "outside"
    /\ UNCHANGED <<now, timerVars, ready, loopVars>>

-----------------------------------------------------------------------------

TimerOp(t) ==
    \/ Cancel(t)
    \/ \E x \in Times : expires_at(t, x)
    \/ \E d \in Durations : expires_after(t, d)
    \/ ArmStopped(t)
    \/ async_wait(t)

User == stop \/ restart \/ HandlerThrows \/ \E t \in Timers : TimerOp(t)

\* The steps the thread inside run() takes by itself.
Loop ==
    \/ CallHandler \/ HandlerReturns \/ FastForward
    \/ FireNext \/ FireDone
    \/ RunIdle \/ RunProgress \/ RunStalled \/ RunThrows
    \/ CatchCancel \/ CatchDone

Next == User \/ RunEnter \/ Loop

Spec == Init /\ [][Next]_vars

\* The thread keeps running: handlers return, run() makes its steps and the
\* program calls run() again when it is outside.
Fairness == WF_vars(Loop) /\ WF_vars(RunEnter)

FairSpec == Spec /\ Fairness

-----------------------------------------------------------------------------
(* Moving timers: the defaulted move constructor of high_resolution_timer, *)
(* used when a socket, an acceptor or a resolver is moved.                 *)

\* u is constructed from t: the handler moves, m_expired and the expiry are
\* copied, the queue still holds the address of t.
MoveTimer(t, u) ==
    /\ UserContext
    /\ t # u
    /\ u \notin armed \cup waiting
    /\ expiry' = [expiry EXCEPT ![u] = expiry[t]]
    /\ armed' = IF t \in armed THEN armed \cup {u} ELSE armed
    /\ waiting' = IF t \in waiting
                  THEN (waiting \ {t}) \cup {u}
                  ELSE waiting
    /\ UNCHANGED <<now, timerq, ready, stopped, ctx, loopVars>>

NextMove == Next \/ \E t, u \in Timers : MoveTimer(t, u)

SpecMove == Init /\ [][NextMove]_vars

-----------------------------------------------------------------------------
(* Safety.                                                                 *)

\* The queue that add_timer(), remove_timer() and run() search and pop is
\* sorted by expiry and holds no timer twice.  Both binary searches of
\* simulation.cpp rely on it.
TimerQueueOrdered ==
    /\ \A i, j \in DOMAIN timerq :
            i < j => expiry[timerq[i]] =< expiry[timerq[j]]
    /\ \A i, j \in DOMAIN timerq : timerq[i] = timerq[j] => i = j

\* m_timer_queue holds "all non-expired timers" (simulator.hpp:1195): a timer
\* is in it exactly when its m_expired is false, so run() fires every armed
\* timer and never one that was cancelled.
TimerQueueComplete == armed = {timerq[i] : i \in DOMAIN timerq}

\* A pending wait belongs to an armed timer: whatever sequence of cancel(),
\* expires_at(), fire() and exceptions came before, a handler is never left
\* in a timer that nothing will fire.
WaitIsArmed == waiting \subseteq armed

\* A completion handler is called at the very time it became due, neither
\* earlier nor later: the clock does not move while a handler is posted, and
\* what fires is what expires now.
OnTime == \A i \in DOMAIN ready : ready[i].due = now

\* When user code arms no timer in the past, no armed timer is ever overdue:
\* run() fires each one exactly when the clock shows its expiry.
NeverLate == \A t \in armed : now =< expiry[t]

\* The clock declares is_steady = true (chrono.hpp): time never goes back.
ClockSteady == [][now =< now']_vars

\* Position j is the last one of queue q with its expiry.
LastOfGroup(q, e, j) == \A m \in DOMAIN q : j < m => e[q[j]] < e[q[m]]

\* "make sure we get a deterministic ordering of timers with the same
\* expiration time" (add_timer): a newly armed timer is put behind every timer
\* with the same expiry, and no step swaps two timers that stay in the queue
\* except by arming one of them again.
ArmingOrderKept ==
    [][\A j \in DOMAIN timerq' :
        /\ timerq'[j] \notin armed => LastOfGroup(timerq', expiry', j)
        /\ \A i \in 1..(j-1), k, l \in DOMAIN timerq :
            timerq[k] = timerq'[i] /\ timerq[l] = timerq'[j] /\ l < k
            => \/ LastOfGroup(timerq', expiry', i)
               \/ LastOfGroup(timerq', expiry', j)]_vars

\* The assertion of add_timer(): no timer is armed while the simulation is
\* stopped.
NoTimerArmedWhileStopped == ctx # "aborted"

-----------------------------------------------------------------------------
(* Liveness.                                                               *)

\* poll() keeps returning: completion handlers do not post work forever.
PollReturns == []<>(ctx \notin {"poll", "handler"})

\* User code calls stop() only finitely often.
StopsEnd == <>[][~stop]_vars

\* Every pending wait is completed, by expiry or by cancellation, as long as
\* poll() keeps returning and the loop is not stopped over and over, even when
\* timers are armed for the current time again and again: the runaway check
\* of run() then cancels what is pending.
WaitCompletes ==
    PollReturns /\ StopsEnd =>
        \A t \in Timers :
            (t \in waiting) ~> (t \notin waiting \/ ctx = "aborted")

=============================================================================
