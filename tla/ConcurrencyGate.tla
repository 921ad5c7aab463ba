-------------------------- MODULE ConcurrencyGate --------------------------
(***************************************************************************)
(* One concurrency gate of the featherless mode: the budget of concurrency *)
(* units of one client credential (class ConcurrencyGate, Reservation and  *)
(* _Waiter of featherless.py), together with the request handlers that     *)
(* acquire from it and watch their client meanwhile                        *)
(* (_acquire_or_disconnect of app.py).                                     *)
(*                                                                         *)
(* Everything runs on one asyncio loop, so a step of the model is what     *)
(* runs between two awaits.  Three kinds of tasks interleave: the acquire  *)
(* task of a request (task), the handler that waits for it (handler), and  *)
(* the gate's snapshot poll loop (poll).                                   *)
(***************************************************************************)
EXTENDS Integers, FiniteSets, Units

CONSTANTS
  Requests,        \* the requests ever made with this credential
  Costs,           \* concurrency costs a model may have
  ConfigLimit,     \* featherless.concurrency_limit; 0 when not configured
  PlanLimits,      \* limits GET /v1/plan may report
  SnapshotCosts,   \* used_cost values GET /account/concurrency may report
  Impatient,       \* requests whose client may disconnect while waiting
  Abortable,       \* requests whose handler task the server may cancel
  SwallowsCancel   \* TRUE: asyncio.wait_for of Python 3.11, which returns the
                   \* result of a finished inner task when it is cancelled

ASSUME RequestsAssumption == IsFiniteSet(Requests)
ASSUME CostsAssumption == Costs \subseteq Nat \ {0}
ASSUME LimitsAssumption ==
  /\ ConfigLimit \in Nat
  /\ PlanLimits \subseteq Nat \ {0}
  /\ SnapshotCosts \subseteq Nat
ASSUME ActorsAssumption ==
  /\ Impatient \subseteq Requests
  /\ Abortable \subseteq Requests
  /\ SwallowsCancel \in BOOLEAN

FallbackCap == 2   \* _PLAN_FALLBACK_CAP

VARIABLES
  cap,           \* _cap, 0 standing for None
  capSource,     \* _cap_source
  reserved,      \* _reserved
  upstreamUsed,  \* _upstream_used, None counting as 0 as effective_used does
  cost,          \* the cost each request asks for (never changes)
  task,          \* where each acquire() call stands
  handler,       \* where each _acquire_or_disconnect() call stands
  ticket,        \* order of the waiters in _queue; 0 when not in it
  arrivals,      \* tickets handed out so far
  poll           \* the snapshot poll loop

gateVars == <<cap, capSource, reserved, upstreamUsed>>
queueVars == <<ticket, arrivals>>
vars == <<gateVars, cost, task, handler, queueVars, poll>>

\* queued: waits for its event; expired: queued, its deadline has passed but
\* its timer has not run; granted: woken with a reservation, not yet resumed;
\* acquired: acquire() returned the reservation.
TaskState == {"none", "lookup", "queued", "expired", "granted", "acquired",
              "timedout", "cancelled", "released"}

\* cancelling: the acquire task has been cancelled and is awaited; gone: the
\* handler ended without a reservation of its own.
HandlerState == {"idle", "waiting", "cancelling", "relaying", "served",
                 "rejected", "gone"}

\* The type of the state.
TypeOK ==
  /\ cap \in Nat
  /\ capSource \in {"none", "config", "plan", "fallback"}
  /\ reserved \in Nat
  /\ upstreamUsed \in Nat
  /\ cost \in [Requests -> Costs]
  /\ task \in [Requests -> TaskState]
  /\ handler \in [Requests -> HandlerState]
  /\ ticket \in [Requests -> Nat]
  /\ arrivals \in Nat
  /\ poll \in {"stopped", "sleeping", "fetching"}

-----------------------------------------------------------------------------
(* Helpers.                                                                 *)

\* The reservations the gate has handed out and not had back.
Holders == {r \in Requests : task[r] \in {"granted", "acquired"}}

InQueue == {r \in Requests : task[r] \in {"queued", "expired", "granted"}}

\* Mutant: the snapshot alone, which lags behind the local reservations.
EffectiveSnapshotOnly(res, used) == used

Effective(res, used) == IF res >= used THEN res ELSE used

\* Mutant: the request's own cost is forgotten.
FitsAlready(r, res, used, limit) == Effective(res, used) <= limit

Fits(r, res, used, limit) == Effective(res, used) + cost[r] <= limit

-----------------------------------------------------------------------------
(* Fragments the handlers share.                                            *)

\* Mutant: a reservation does not start the poll loop.
EnsurePollingNever == poll

EnsurePolling == IF poll = "stopped" THEN "sleeping" ELSE poll

\* Mutant: the queue is served newest first.
IsAdmittedNewestFirst(G, live, res, used) ==
  \A w \in live :
    LET before == {v \in G : ticket[v] > ticket[w]}
    IN  w \in G <=> Fits(w, res + CostOf(before, cost), used, cap)

\* The waiters one pass of _wake_queue admits, when res units are reserved,
\* used is the snapshot and the waiting requests are live: in queue order,
\* every waiter that fits what the ones admitted before it have left.
IsAdmitted(G, live, res, used) ==
  \A w \in live :
    LET before == {v \in G : ticket[v] < ticket[w]}
    IN  w \in G <=> Fits(w, res + CostOf(before, cost), used, cap)

\* _wake_queue, run at the end of a step that leaves res units reserved, the
\* snapshot at used and the acquire calls in state pending.
WakeQueue(res, used, pending) ==
  LET live == {w \in Requests : pending[w] = "queued"}
  IN  \E G \in SUBSET live :
        /\ IsAdmitted(G, live, res, used)
        /\ reserved' = res + CostOf(G, cost)
        /\ task' = [w \in Requests |-> IF w \in G THEN "granted" ELSE pending[w]]

\* acquire() from the moment the cap is known to be limit, up to its first
\* suspension: reserve, or join the queue, or find the deadline reached.
ReserveOrQueue(r, limit) ==
  \/ /\ Fits(r, reserved, upstreamUsed, limit)
     /\ reserved' = reserved + cost[r]
     /\ task' = [task EXCEPT ![r] = "acquired"]
     /\ poll' = EnsurePolling
     /\ UNCHANGED queueVars
  \/ /\ ~Fits(r, reserved, upstreamUsed, limit)
     /\ arrivals' = arrivals + 1
     /\ ticket' = [ticket EXCEPT ![r] = arrivals + 1]
     /\ task' = [task EXCEPT ![r] = "queued"]
     /\ UNCHANGED <<reserved, poll>>
  \/ /\ ~Fits(r, reserved, upstreamUsed, limit)
     /\ task' = [task EXCEPT ![r] = "timedout"]
     /\ UNCHANGED <<reserved, queueVars, poll>>

\* Mutant: a reservation granted in the meantime is forgotten.
WaiterExitsKeeping(r, outcome) ==
  /\ ticket' = [ticket EXCEPT ![r] = 0]
  /\ task' = [task EXCEPT ![r] = outcome]
  /\ UNCHANGED reserved

\* _handle_waiter_exit: leave the queue and give back a reservation granted
\* in the meantime, which wakes the others.
WaiterExits(r, outcome) ==
  /\ ticket' = [ticket EXCEPT ![r] = 0]
  /\ IF task[r] = "granted"
     THEN WakeQueue(reserved - cost[r], upstreamUsed, [task EXCEPT ![r] = outcome])
     ELSE /\ task' = [task EXCEPT ![r] = outcome]
          /\ UNCHANGED reserved

-----------------------------------------------------------------------------
Init ==
  /\ cap = 0
  /\ capSource = "none"
  /\ reserved = 0
  /\ upstreamUsed = 0
  /\ cost \in [Requests -> Costs]
  /\ task = [r \in Requests |-> "none"]
  /\ handler = [r \in Requests |-> "idle"]
  /\ ticket = [r \in Requests |-> 0]
  /\ arrivals = 0
  /\ poll = "stopped"

\* A request reaches the gate and runs up to its first suspension: with a
\* limit from the configuration or from an earlier plan answer it reserves or
\* queues at once, otherwise it starts a plan lookup of its own.
Arrive(r) ==
  /\ handler[r] = "idle"
  /\ handler' = [handler EXCEPT ![r] = "waiting"]
  /\ IF ConfigLimit # 0
     THEN /\ cap' = ConfigLimit
          /\ capSource' = "config"
          /\ ReserveOrQueue(r, ConfigLimit)
     ELSE /\ UNCHANGED <<cap, capSource>>
          /\ IF capSource = "plan"
             THEN ReserveOrQueue(r, cap)
             ELSE /\ task' = [task EXCEPT ![r] = "lookup"]
                  /\ UNCHANGED <<reserved, queueVars, poll>>
  /\ UNCHANGED <<upstreamUsed, cost>>

\* The plan lookup of r ends: limit is what it reported, 0 when the call
\* failed or its body was malformed.
LookupEnds(r, limit) ==
  /\ task[r] = "lookup"
  /\ handler[r] = "waiting"
  /\ cap' = IF limit = 0 THEN FallbackCap ELSE limit
  /\ capSource' = IF limit = 0 THEN "fallback" ELSE "plan"
  /\ ReserveOrQueue(r, cap')
  /\ UNCHANGED <<upstreamUsed, cost, handler>>

\* The clock passes the deadline of a waiter that has not been woken: from
\* here on _wake_queue skips it.
DeadlinePasses(r) ==
  /\ task[r] = "queued"
  /\ task' = [task EXCEPT ![r] = "expired"]
  /\ UNCHANGED <<gateVars, cost, handler, queueVars, poll>>

\* Mutant: the timer of a waiter is never armed.
TimesOutNever(r) == FALSE

\* The timer of wait_for runs, also for a waiter woken just before it.
TimesOut(r) ==
  /\ task[r] \in {"expired", "granted"}
  /\ handler[r] = "waiting"
  /\ WaiterExits(r, "timedout")
  /\ UNCHANGED <<cap, capSource, upstreamUsed, cost, handler, arrivals, poll>>

\* A woken waiter resumes and returns its reservation.
Resumes(r) ==
  /\ task[r] = "granted"
  /\ handler[r] = "waiting"
  /\ task' = [task EXCEPT ![r] = "acquired"]
  /\ ticket' = [ticket EXCEPT ![r] = 0]
  /\ UNCHANGED <<gateVars, cost, handler, arrivals, poll>>

\* The handler finds its acquire task done and takes the outcome: it relays,
\* or answers 429.
Collects(r) ==
  /\ handler[r] = "waiting"
  /\ \/ /\ task[r] = "acquired"
        /\ handler' = [handler EXCEPT ![r] = "relaying"]
     \/ /\ task[r] = "timedout"
        /\ handler' = [handler EXCEPT ![r] = "rejected"]
  /\ UNCHANGED <<gateVars, cost, task, queueVars, poll>>

\* Mutant: the reservation is given back without waking the queue.
RelayEndsSilently(r) ==
  /\ handler[r] = "relaying"
  /\ handler' = [handler EXCEPT ![r] = "served"]
  /\ reserved' = reserved - cost[r]
  /\ task' = [task EXCEPT ![r] = "released"]
  /\ UNCHANGED <<cap, capSource, upstreamUsed, cost, queueVars, poll>>

\* Mutant: the reservation is given back twice.
RelayEndsTwice(r) ==
  /\ handler[r] = "relaying"
  /\ handler' = [handler EXCEPT ![r] = "served"]
  /\ WakeQueue(reserved - 2 * cost[r], upstreamUsed, [task EXCEPT ![r] = "released"])
  /\ UNCHANGED <<cap, capSource, upstreamUsed, cost, queueVars, poll>>

\* The relay is over, however it ended: the reservation is given back.
RelayEnds(r) ==
  /\ handler[r] = "relaying"
  /\ handler' = [handler EXCEPT ![r] = "served"]
  /\ WakeQueue(reserved - cost[r], upstreamUsed, [task EXCEPT ![r] = "released"])
  /\ UNCHANGED <<cap, capSource, upstreamUsed, cost, queueVars, poll>>

\* acquire_task.cancel() on a call that has not finished.  With the wait_for
\* of Python 3.11 a waiter already woken returns its reservation instead of
\* raising, and the handler, which suppresses the cancellation and looks at
\* no result, drops it.
CancelAcquire(r) ==
  /\ task[r] \in {"lookup", "queued", "expired", "granted"}
  /\ IF SwallowsCancel /\ task[r] = "granted"
     THEN /\ task' = [task EXCEPT ![r] = "acquired"]
          /\ ticket' = [ticket EXCEPT ![r] = 0]
          /\ handler' = [handler EXCEPT ![r] = "gone"]
     ELSE /\ handler' = [handler EXCEPT ![r] = "cancelling"]
          /\ UNCHANGED <<task, ticket>>

\* Between two waits of poll_interval_seconds the handler finds its client
\* disconnected.
ClientDisconnects(r) ==
  /\ r \in Impatient
  /\ handler[r] = "waiting"
  /\ CancelAcquire(r)
  /\ UNCHANGED <<gateVars, cost, arrivals, poll>>

\* The server cancels the handler task itself.  An acquire task that has
\* finished is awaited all the same: its reservation is dropped, its timeout
\* raised.
HandlerCancelled(r) ==
  /\ r \in Abortable
  /\ handler[r] = "waiting"
  /\ \/ CancelAcquire(r)
     \/ /\ task[r] = "acquired"
        /\ handler' = [handler EXCEPT ![r] = "gone"]
        /\ UNCHANGED <<task, ticket>>
     \/ /\ task[r] = "timedout"
        /\ handler' = [handler EXCEPT ![r] = "rejected"]
        /\ UNCHANGED <<task, ticket>>
  /\ UNCHANGED <<gateVars, cost, arrivals, poll>>

\* Mutant: a waiter woken after its cancellation returns its reservation to a
\* handler that no longer looks at it.
CancelLandsUnheeded(r) ==
  /\ handler[r] = "cancelling"
  /\ handler' = [handler EXCEPT ![r] = "gone"]
  /\ ticket' = [ticket EXCEPT ![r] = 0]
  /\ task' = [task EXCEPT ![r] = IF @ = "granted" THEN "acquired" ELSE "cancelled"]
  /\ UNCHANGED <<gateVars, cost, arrivals, poll>>

\* The cancellation reaches the acquire task, also one that was woken after
\* it was cancelled.
CancelLands(r) ==
  /\ handler[r] = "cancelling"
  /\ handler' = [handler EXCEPT ![r] = "gone"]
  /\ WaiterExits(r, "cancelled")
  /\ UNCHANGED <<cap, capSource, upstreamUsed, cost, arrivals, poll>>

\* An interval of the poll loop is over while units are reserved or requests
\* wait: it asks for a snapshot.
PollAsks ==
  /\ poll = "sleeping"
  /\ reserved > 0 \/ InQueue # {}
  /\ poll' = "fetching"
  /\ UNCHANGED <<gateVars, cost, task, handler, queueVars>>

\* update_upstream_used: a snapshot arrives and the queue is woken.
PollAnswered(used) ==
  /\ poll = "fetching"
  /\ poll' = "sleeping"
  /\ upstreamUsed' = used
  /\ WakeQueue(reserved, used, task)
  /\ UNCHANGED <<cap, capSource, cost, handler, queueVars>>

\* The snapshot call fails: the previous snapshot is kept.  (Credentials that
\* cannot be sent as a header, which end the loop by an exception, are left
\* out: Authorization is ASCII.)
PollFails ==
  /\ poll = "fetching"
  /\ poll' = "sleeping"
  /\ UNCHANGED <<gateVars, cost, task, handler, queueVars>>

\* Nothing was active for poll_idle_stop_seconds: the poll loop returns.
PollStops ==
  /\ poll = "sleeping"
  /\ ~(reserved > 0 \/ InQueue # {})
  /\ poll' = "stopped"
  /\ UNCHANGED <<gateVars, cost, task, handler, queueVars>>

RequestStep(r) ==
  \/ Arrive(r)
  \/ \E limit \in PlanLimits \cup {0} : LookupEnds(r, limit)
  \/ DeadlinePasses(r)
  \/ TimesOut(r)
  \/ Resumes(r)
  \/ Collects(r)
  \/ RelayEnds(r)
  \/ ClientDisconnects(r)
  \/ HandlerCancelled(r)
  \/ CancelLands(r)

PollStep ==
  \/ PollAsks
  \/ \E used \in SnapshotCosts : PollAnswered(used)
  \/ PollFails
  \/ PollStops

Next == (\E r \in Requests : RequestStep(r)) \/ PollStep

Spec == Init /\ [][Next]_vars

\* The loop runs what is ready, timers fire, and the HTTP calls of the gate
\* are bounded by the client's timeouts.  Neither the end of a relay, nor a
\* disconnect, nor a snapshot is promised.
Fairness ==
  \A r \in Requests :
    /\ WF_vars(\E limit \in PlanLimits \cup {0} : LookupEnds(r, limit))
    /\ WF_vars(DeadlinePasses(r))
    /\ WF_vars(task[r] = "expired" /\ TimesOut(r))
    /\ WF_vars(Resumes(r))
    /\ WF_vars(Collects(r))
    /\ WF_vars(CancelLands(r))

FairSpec == Spec /\ Fairness

-----------------------------------------------------------------------------
(* What the gate promises.                                                  *)

\* Accounting: the counter is the cost of the reservations handed out and not
\* given back, whichever of release, timeout and cancellation ended a wait.
Accounting == reserved = CostOf(Holders, cost)

\* The limits the gate may ever work with.
Limits == IF ConfigLimit # 0 THEN {ConfigLimit} ELSE PlanLimits \cup {FallbackCap}

\* The budget: what is reserved fits some limit the gate was entitled to use,
\* which with a configured limit is that limit.
WithinLimit == \E limit \in Limits : reserved <= limit

\* Work conservation: no waiter that fits the remaining budget is left
\* waiting, whichever event freed the budget.  (Its deadline not passed.)
NoFittingWaiter ==
  \A w \in Requests : task[w] = "queued" => ~Fits(w, reserved, upstreamUsed, cap)

\* The step grants units to r.
Admits(r) == r \notin Holders /\ r \in Holders'

\* w was in the queue before r and the step leaves it there.
PassedOver(w, r) ==
  /\ task[w] = "queued" /\ task'[w] = "queued"
  /\ ticket[r] = 0 \/ ticket[w] < ticket[r]

\* "Waiting requests that fit the remaining budget are admitted in arrival
\* order" (README): no request is admitted, from the queue or on arrival,
\* over an earlier waiter that would have fitted in its place.
NoOvertaking ==
  [][\A r, w \in Requests :
       Admits(r) /\ PassedOver(w, r)
         => Effective(reserved' - cost[r], upstreamUsed') + cost[w] > cap']_vars

\* While units are reserved the snapshot poll loop runs, so that usage that
\* bypasses the proxy is noticed.
ReservedIsPolled == reserved > 0 => poll # "stopped"

\* "While busy the gate tracks the upstream used_cost" (test_featherless.py,
\* test of the poll loop): also while requests only wait.
BusyIsPolled == reserved > 0 \/ InQueue # {} => poll # "stopped"

\* "The gate's own cancellation handling removes the waiter and frees any
\* reservation granted concurrently with the disconnect" (docstring of
\* _acquire_or_disconnect): a handler that is gone has left no units behind.
NoLostUnits == \A r \in Requests : handler[r] = "gone" => r \notin Holders

\* The fallback cap is for "while /v1/plan cannot be fetched" (comment on
\* _PLAN_FALLBACK_CAP): a limit the plan has reported stays in force.
PlanSticky == [][capSource = "plan" => capSource' = "plan"]_vars

\* Every request that waits for capacity is answered, or its client is gone:
\* no order of the others' releases, timeouts and snapshots starves it.
Answered ==
  \A r \in Requests :
    handler[r] = "waiting" ~> handler[r] \in {"relaying", "served", "rejected", "gone"}

-----------------------------------------------------------------------------
(* The gate as a budget of units.                                           *)

\* What a request is to the budget.
Standing(state) ==
  CASE state \in {"granted", "acquired"} -> "holding"
    [] state \in {"released", "timedout", "cancelled"} -> "done"
    [] OTHER -> "asking"

Budget == INSTANCE UnitBudget
            WITH Limit <- ConfigLimit,
                 standing <- [r \in Requests |-> Standing(task[r])]

\* With a configured limit the gate implements the budget: every request is
\* granted its units at most once, gives them back at most once, and the
\* units granted never exceed the limit, in no interleaving.
ImplementsBudget == Budget!Spec

=============================================================================
