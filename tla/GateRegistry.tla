---------------------------- MODULE GateRegistry ----------------------------
(***************************************************************************)
(* The gates of a featherless listener, one for each credential (class     *)
(* GateRegistry of featherless.py): a handler finds its gate or creates    *)
(* it, a sweeper disposes of gates nobody has used for a while, and the    *)
(* end of the application closes them all.  The handlers do not ask the    *)
(* registry again, so what they hold is a gate that may have left it.      *)
(*                                                                         *)
(* Gates are abstracted from ConcurrencyGate: every request costs one      *)
(* unit, all limits are one Limit, and which of the waiting requests that  *)
(* fit are admitted is left open (snapshots may withhold them).  What      *)
(* matters here is what keeps a gate in use: reservations, the queue, the  *)
(* poll loop and the time since its last activity.  Time is in ticks.      *)
(***************************************************************************)
EXTENDS Integers, FiniteSets

CONSTANTS
  Requests,     \* the requests ever made
  Keys,         \* the client credentials
  KeyOf,        \* the credential of each request
  NoGate,
  Limit,        \* units of a credential
  Configured,   \* TRUE: the limit is configured and never looked up
  LookupTime,   \* ticks the plan lookup of one request takes at most
  PollIdle,     \* poll_idle_stop_seconds
  SweepIdle     \* gate_idle_dispose_seconds

ASSUME RequestsAssumption == IsFiniteSet(Requests) /\ NoGate \notin Requests
ASSUME KeysAssumption == KeyOf \in [Requests -> Keys]
ASSUME LimitAssumption == Limit \in Nat /\ Configured \in BOOLEAN
ASSUME TimesAssumption == {LookupTime, PollIdle, SweepIdle} \subseteq Nat

\* A gate is named by the request it was created for.
Gates == Requests

VARIABLES
  server,    \* the lifespan of the application
  gates,     \* _gates
  gateOf,    \* the gate each handler got
  stage,     \* where the acquire() call and the relay of each request stand
  waited,    \* ticks since a plan lookup began
  idleFor,   \* ticks since _last_activity of each gate
  polling,   \* the gates whose poll loop runs
  planned    \* the gates that know the limit of their plan

vars == <<server, gates, gateOf, stage, waited, idleFor, polling, planned>>

TypeOK ==
  /\ server \in {"starting", "serving", "closed"}
  /\ gates \in [Keys -> Gates \cup {NoGate}]
  /\ gateOf \in [Requests -> Gates \cup {NoGate}]
  /\ stage \in [Requests -> {"idle", "lookup", "queued", "holding", "done"}]
  /\ waited \in [Requests -> 0 .. LookupTime]
  /\ idleFor \in [Gates -> 0 .. SweepIdle]
  /\ polling \subseteq Gates
  /\ planned \subseteq Gates

-----------------------------------------------------------------------------
Live == {r \in Requests : stage[r] \in {"lookup", "queued", "holding"}}

\* The requests in a stage of gate g.
At(g, s) == {r \in Requests : gateOf[r] = g /\ stage[r] = s}

\* The gate has reserved units or a queue.
Busy(g) == At(g, "holding") \cup At(g, "queued") # {}

\* Mutant: reservations and the queue count, but not the last activity.
IsDisposableAtOnce(g) == ~Busy(g) /\ g \notin polling

\* is_disposable.
IsDisposable(g) == ~Busy(g) /\ g \notin polling /\ idleFor[g] >= SweepIdle

NoteActivity(g) == idleFor' = [idleFor EXCEPT ![g] = 0]

\* The waiters W of g get units that are free once r has given back its own.
Admits(g, r, W) ==
  /\ W \subseteq At(g, "queued") \ {r}
  /\ Cardinality((At(g, "holding") \ {r}) \cup W) <= Limit

\* acquire() on gate g, from where the limit is known: units are reserved,
\* which starts the poll loop, or the request joins the queue.
ReserveOrQueue(r, g) ==
  \/ /\ Cardinality(At(g, "holding")) < Limit
     /\ stage' = [stage EXCEPT ![r] = "holding"]
     /\ polling' = polling \cup {g}
  \/ /\ stage' = [stage EXCEPT ![r] = "queued"]
     /\ UNCHANGED polling

-----------------------------------------------------------------------------
Init ==
  /\ server = "starting"
  /\ gates = [k \in Keys |-> NoGate]
  /\ gateOf = [r \in Requests |-> NoGate]
  /\ stage = [r \in Requests |-> "idle"]
  /\ waited = [r \in Requests |-> 0]
  /\ idleFor = [g \in Gates |-> 0]
  /\ polling = {}
  /\ planned = {}

\* The lifespan starts the sweeper, and the server serves.
Start ==
  /\ server = "starting"
  /\ server' = "serving"
  /\ UNCHANGED <<gates, gateOf, stage, waited, idleFor, polling, planned>>

\* Mutant: a gate is created for every request.
GateForAlways(r) == r

\* Mutant: no gate is created.
GateForKnown(r) == gates[KeyOf[r]]

\* gate_for: the gate of the credential, or a new one.
GateFor(r) == IF gates[KeyOf[r]] = NoGate THEN r ELSE gates[KeyOf[r]]

\* A handler gets its gate and acquires from it, up to its first suspension.
Arrives(r) ==
  LET g == GateFor(r)
  IN  /\ server = "serving"
      /\ stage[r] = "idle"
      /\ gates' = [gates EXCEPT ![KeyOf[r]] = g]
      /\ gateOf' = [gateOf EXCEPT ![r] = g]
      /\ NoteActivity(g)
      /\ IF Configured \/ g \in planned
         THEN ReserveOrQueue(r, g)
         ELSE /\ stage' = [stage EXCEPT ![r] = "lookup"]
              /\ UNCHANGED polling
      /\ UNCHANGED <<server, waited, planned>>

\* The plan lookup of r ends, well or badly; time without activity goes on
\* for the gate if r then has to queue.
LookupEnds(r) ==
  LET g == gateOf[r]
  IN  /\ stage[r] = "lookup"
      /\ ReserveOrQueue(r, g)
      /\ IF stage'[r] = "holding" THEN NoteActivity(g) ELSE UNCHANGED idleFor
      /\ planned' \in {planned, planned \cup {g}}
      /\ UNCHANGED <<server, gates, gateOf, waited>>

\* The relay of r is over, or a reservation granted too late is given back:
\* the units are released and waiters are admitted.
Releases(r) ==
  LET g == gateOf[r]
  IN  /\ stage[r] = "holding"
      /\ \E W \in SUBSET Requests :
           /\ Admits(g, r, W)
           /\ stage' = [q \in Requests |->
                IF q = r THEN "done" ELSE IF q \in W THEN "holding" ELSE stage[q]]
      /\ NoteActivity(g)
      /\ UNCHANGED <<server, gates, gateOf, waited, polling, planned>>

\* The handler leaves without units: timeout, disconnect or cancellation.
Leaves(r) ==
  /\ stage[r] \in {"lookup", "queued"}
  /\ stage' = [stage EXCEPT ![r] = "done"]
  /\ UNCHANGED <<server, gates, gateOf, waited, idleFor, polling, planned>>

\* A turn of the poll loop of a gate in use, with the snapshot it brings.
PollTurns(g) ==
  /\ g \in polling
  /\ Busy(g)
  /\ NoteActivity(g)
  /\ \E W \in SUBSET Requests :
       /\ Admits(g, NoGate, W)
       /\ stage' = [q \in Requests |-> IF q \in W THEN "holding" ELSE stage[q]]
  /\ UNCHANGED <<server, gates, gateOf, waited, polling, planned>>

\* Mutant: the poll loop never returns.
PollStopsNever(g) == FALSE

\* The poll loop of a gate that has been idle for PollIdle returns.
PollStops(g) ==
  /\ g \in polling
  /\ ~Busy(g)
  /\ idleFor[g] >= PollIdle
  /\ polling' = polling \ {g}
  /\ UNCHANGED <<server, gates, gateOf, stage, waited, idleFor, planned>>

\* One turn of the sweeper.  Nothing is awaited for a gate that is disposable:
\* its poll loop does not run.
Sweeps ==
  /\ server = "serving"
  /\ \E k \in Keys : gates[k] # NoGate /\ IsDisposable(gates[k])
  /\ gates' = [k \in Keys |->
       IF gates[k] # NoGate /\ IsDisposable(gates[k]) THEN NoGate ELSE gates[k]]
  /\ UNCHANGED <<server, gateOf, stage, waited, idleFor, polling, planned>>

\* Mutant: the gates are forgotten but not closed.
ClosesNothing == polling

\* What close() leaves running: it cancels the poll loops it knows.
ClosesPolls == polling \ {gates[k] : k \in Keys}

\* The lifespan ends, after the server has waited for its handlers: the
\* sweeper and the gates are closed and forgotten.
Close ==
  /\ server = "serving"
  /\ Live = {}
  /\ server' = "closed"
  /\ polling' = ClosesPolls
  /\ gates' = [k \in Keys |-> NoGate]
  /\ UNCHANGED <<gateOf, stage, waited, idleFor, planned>>

Older(age, bound) == IF age < bound THEN age + 1 ELSE age

\* The clock advances; a lookup does not outlast LookupTime.
Tick ==
  /\ \A r \in Requests : stage[r] = "lookup" => waited[r] < LookupTime
  /\ waited' = [r \in Requests |-> IF stage[r] = "lookup" THEN waited[r] + 1 ELSE waited[r]]
  /\ idleFor' = [g \in Gates |-> Older(idleFor[g], SweepIdle)]
  /\ UNCHANGED <<server, gates, gateOf, stage, polling, planned>>

Next ==
  \/ Start
  \/ \E r \in Requests : Arrives(r) \/ LookupEnds(r) \/ Releases(r) \/ Leaves(r)
  \/ \E g \in Gates : PollTurns(g) \/ PollStops(g)
  \/ Sweeps
  \/ Close
  \/ Tick

Spec == Init /\ [][Next]_vars

\* The clock runs, and so do the sweeper and the poll loops; nothing is
\* promised of the requests.
Fairness ==
  /\ WF_vars(Tick)
  /\ WF_vars(Sweeps)
  /\ \A g \in Gates : WF_vars(PollStops(g))

FairSpec == Spec /\ Fairness

-----------------------------------------------------------------------------
(* What the registry promises.                                              *)

\* The units of a credential are limited whatever gates have stood for it:
\* no request holds units of a gate that was swept while a newer gate grants
\* the same units again.
OneBudgetPerKey ==
  \A k \in Keys :
    Cardinality({r \in Requests : KeyOf[r] = k /\ stage[r] = "holding"}) <= Limit

\* Every request under way is at the gate that newcomers with its credential
\* get: "an idle gate is disposed while a busy gate survives" (test of the
\* sweeper).
LiveIsRegistered ==
  \A r \in Live : gates[KeyOf[r]] = gateOf[r]

\* "Stop the sweeper and every gate" (docstring of close): no poll loop
\* outlives the application, also none of a gate that was swept before.
NoPollAfterClose == server = "closed" => polling = {}

\* A credential that is not used any more does not keep its gate: when no
\* request is under way for good, every gate is swept.
UnusedGatesGo ==
  Live = {} /\ server = "serving"
    ~> \/ Live # {}
       \/ \A k \in Keys : gates[k] = NoGate

=============================================================================
