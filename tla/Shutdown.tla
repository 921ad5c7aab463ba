------------------------------ MODULE Shutdown ------------------------------
(***************************************************************************)
(* The life of the process (main.py): several uvicorn servers on one loop, *)
(* one signal handler for all of them, and the end of their applications   *)
(* (the lifespan of app.py) in a graceful stop, a forced one, a failed     *)
(* start, and in the cancellation of every task with which asyncio.run     *)
(* ends.  Of an exchange only its last record matters here, which reaches  *)
(* a log that is still open or is lost.                                    *)
(***************************************************************************)
EXTENDS Naturals, Sequences

CONSTANTS
  Servers,       \* one for each listener that starts
  Featherless,   \* those that have gates to close
  Exchanges,     \* the exchanges ever begun
  ServerOf,      \* the server of each exchange
  MaxSignals     \* bound: signals the process gets

ASSUME FeatherlessAssumption == Featherless \subseteq Servers
ASSUME ServerOfAssumption == ServerOf \in [Exchanges -> Servers]
ASSUME MaxSignalsAssumption == MaxSignals \in Nat

VARIABLES
  process,      \* asyncio.run: running, unwinding (it cancels every task), exited
  signals,      \* the signals that came, in their order
  shouldExit,   \* Server.should_exit
  forceExit,    \* Server.force_exit
  server,       \* where the serve() of each server stands
  lifespan,     \* where the lifespan of each application stands
  log,          \* the LoggingRuntime of each application
  exchange      \* none, open, recorded (its final record was queued), lost

vars == <<process, signals, shouldExit, forceExit, server, lifespan, log, exchange>>

Signals == {"SIGINT", "SIGTERM"}

\* new, binding, serving, draining, leaving (shut down but for its lifespan),
\* ended; failing and failed: the port could not be bound; abandoned: serve()
\* returned without a shutdown.
ServerStates ==
  {"new", "binding", "serving", "draining", "leaving", "ended", "failing", "failed", "abandoned"}

TypeOK ==
  /\ process \in {"running", "unwinding", "exited"}
  /\ signals \in Seq(Signals)
  /\ shouldExit \in [Servers -> BOOLEAN]
  /\ forceExit \in [Servers -> BOOLEAN]
  /\ server \in [Servers -> ServerStates]
  /\ lifespan \in [Servers -> {"none", "open", "closing", "ended"}]
  /\ log \in [Servers -> {"open", "closed"}]
  /\ exchange \in [Exchanges -> {"none", "open", "recorded", "lost"}]

-----------------------------------------------------------------------------

OpenOn(s) == {x \in Exchanges : ServerOf[x] = s /\ exchange[x] = "open"}

\* build_servers: the logs are open before the loop runs.
Init ==
  /\ process = "running" /\ signals = <<>>
  /\ shouldExit = [s \in Servers |-> FALSE] /\ forceExit = [s \in Servers |-> FALSE]
  /\ server = [s \in Servers |-> "new"]
  /\ lifespan = [s \in Servers |-> "none"]
  /\ log = [s \in Servers |-> "open"]
  /\ exchange = [x \in Exchanges |-> "none"]

\* Mutant: what asks a server to exit is set before it is looked at.
HandleSignalHasty(sig) ==
  /\ shouldExit' = [s \in Servers |-> TRUE]
  /\ forceExit' = [s \in Servers |-> forceExit[s] \/ sig = "SIGINT"]

\* Mutant: only the server that installed its handler last gets the signal.
HandleSignalOnce(sig) ==
  \E last \in Servers :
    /\ shouldExit' = [shouldExit EXCEPT ![last] = TRUE]
    /\ forceExit' = [forceExit EXCEPT ![last] = @ \/ (shouldExit[last] /\ sig = "SIGINT")]

\* handle_signal: a server that was to exit already is forced to by a SIGINT.
HandleSignal(sig) ==
  /\ shouldExit' = [s \in Servers |-> TRUE]
  /\ forceExit' = [s \in Servers |-> forceExit[s] \/ (shouldExit[s] /\ sig = "SIGINT")]

Signalled(sig) ==
  /\ process = "running" /\ Len(signals) < MaxSignals
  /\ signals' = Append(signals, sig)
  /\ HandleSignal(sig)
  /\ UNCHANGED <<process, server, lifespan, log, exchange>>

-----------------------------------------------------------------------------
(* The lifespan of an application.                                          *)

\* serve() starts with the lifespan.
Opens(s) ==
  /\ process = "running" /\ server[s] = "new"
  /\ server' = [server EXCEPT ![s] = "binding"]
  /\ lifespan' = [lifespan EXCEPT ![s] = "open"]
  /\ UNCHANGED <<process, signals, shouldExit, forceExit, log, exchange>>

\* The "finally" of the lifespan: the gates are closed, which takes time, then
\* the log.
LeavesLifespan(s) ==
  IF s \in Featherless
  THEN lifespan' = [lifespan EXCEPT ![s] = "closing"] /\ UNCHANGED log
  ELSE lifespan' = [lifespan EXCEPT ![s] = "ended"] /\ log' = [log EXCEPT ![s] = "closed"]

\* Mutant: a cancellation gets through to the lifespan while it closes the gates.
EndsLifespanUnshielded(s) ==
  /\ lifespan[s] = "closing"
  /\ lifespan' = [lifespan EXCEPT ![s] = "ended"]
  /\ log' = IF process = "unwinding" THEN log ELSE [log EXCEPT ![s] = "closed"]
  /\ UNCHANGED <<process, signals, shouldExit, forceExit, server, exchange>>

\* The gates are closed; a cancellation that comes meanwhile is taken for that
\* of the task that is awaited, and suppressed.
EndsLifespan(s) ==
  /\ lifespan[s] = "closing"
  /\ lifespan' = [lifespan EXCEPT ![s] = "ended"]
  /\ log' = [log EXCEPT ![s] = "closed"]
  /\ UNCHANGED <<process, signals, shouldExit, forceExit, server, exchange>>

-----------------------------------------------------------------------------
(* A server, which is uvicorn's.                                            *)

\* The port is bound. A server that was asked to exit meanwhile returns at once,
\* its socket listening and its lifespan open.
Binds(s) ==
  /\ process = "running" /\ server[s] = "binding"
  /\ server' = [server EXCEPT ![s] = IF shouldExit[s] THEN "abandoned" ELSE "serving"]
  /\ UNCHANGED <<process, signals, shouldExit, forceExit, lifespan, log, exchange>>

BindFails(s) ==
  /\ process = "running" /\ server[s] = "binding"
  /\ server' = [server EXCEPT ![s] = "failing"]
  /\ LeavesLifespan(s)
  /\ UNCHANGED <<process, signals, shouldExit, forceExit, exchange>>

\* SystemExit passes gather and ends the loop.
Fails(s) ==
  /\ process = "running" /\ server[s] = "failing" /\ lifespan[s] = "ended"
  /\ server' = [server EXCEPT ![s] = "failed"]
  /\ process' = "unwinding"
  /\ UNCHANGED <<signals, shouldExit, forceExit, lifespan, log, exchange>>

\* The next tick of the main loop closes the sockets.
Drains(s) ==
  /\ process = "running" /\ server[s] = "serving" /\ shouldExit[s]
  /\ server' = [server EXCEPT ![s] = "draining"]
  /\ UNCHANGED <<process, signals, shouldExit, forceExit, lifespan, log, exchange>>

\* The exchanges have ended, or are not waited for; a forced exit leaves the
\* lifespan alone.
Leaves(s) ==
  /\ process = "running" /\ server[s] = "draining"
  /\ OpenOn(s) = {} \/ forceExit[s]
  /\ server' = [server EXCEPT ![s] = IF forceExit[s] THEN "ended" ELSE "leaving"]
  /\ IF forceExit[s] THEN UNCHANGED <<lifespan, log>> ELSE LeavesLifespan(s)
  /\ UNCHANGED <<process, signals, shouldExit, forceExit, exchange>>

Ends(s) ==
  /\ process = "running" /\ server[s] = "leaving" /\ lifespan[s] = "ended"
  /\ server' = [server EXCEPT ![s] = "ended"]
  /\ UNCHANGED <<process, signals, shouldExit, forceExit, lifespan, log, exchange>>

\* serve_all returns when every serve() has.
Returns ==
  /\ process = "running" /\ \A s \in Servers : server[s] \in {"ended", "abandoned"}
  /\ process' = "unwinding"
  /\ UNCHANGED <<signals, shouldExit, forceExit, server, lifespan, log, exchange>>

-----------------------------------------------------------------------------
(* asyncio.run cancels what is left, in no particular order.                *)

UnwindsLifespan(s) ==
  /\ process = "unwinding" /\ lifespan[s] = "open"
  /\ LeavesLifespan(s)
  /\ UNCHANGED <<process, signals, shouldExit, forceExit, server, exchange>>

Exits ==
  /\ process = "unwinding"
  /\ \A s \in Servers : lifespan[s] \in {"none", "ended"} /\ OpenOn(s) = {}
  /\ process' = "exited"
  /\ UNCHANGED <<signals, shouldExit, forceExit, server, lifespan, log, exchange>>

-----------------------------------------------------------------------------
(* An exchange.                                                             *)

\* A server takes exchanges while its socket listens, an abandoned one too.
Begins(x) ==
  /\ process = "running" /\ server[ServerOf[x]] \in {"serving", "abandoned"}
  /\ exchange[x] = "none"
  /\ exchange' = [exchange EXCEPT ![x] = "open"]
  /\ UNCHANGED <<process, signals, shouldExit, forceExit, server, lifespan, log>>

\* It comes to its end, or is cancelled; a closed log ignores its record.
Finishes(x) ==
  /\ exchange[x] = "open"
  /\ exchange' = [exchange EXCEPT ![x] = IF log[ServerOf[x]] = "open" THEN "recorded" ELSE "lost"]
  /\ UNCHANGED <<process, signals, shouldExit, forceExit, server, lifespan, log>>

UnwindsExchange(x) == process = "unwinding" /\ Finishes(x)

-----------------------------------------------------------------------------

ServerStep(s) == Opens(s) \/ Binds(s) \/ BindFails(s) \/ Fails(s) \/ Drains(s) \/ Leaves(s) \/ Ends(s)

Next ==
  \/ \E sig \in Signals : Signalled(sig)
  \/ \E s \in Servers : ServerStep(s) \/ EndsLifespan(s) \/ UnwindsLifespan(s)
  \/ \E x \in Exchanges : Begins(x) \/ Finishes(x)
  \/ Returns
  \/ Exits

Spec == Init /\ [][Next]_vars

\* The loop goes on; an exchange need not end unless it is cancelled, and nobody
\* has to send a signal.
Fairness ==
  /\ \A s \in Servers : WF_vars(ServerStep(s)) /\ WF_vars(EndsLifespan(s)) /\ WF_vars(UnwindsLifespan(s))
  /\ \A x \in Exchanges : WF_vars(UnwindsExchange(x))
  /\ WF_vars(Returns) /\ WF_vars(Exits)

FairSpec == Spec /\ Fairness

-----------------------------------------------------------------------------
(* What the process promises.                                               *)

\* A SIGINT came that was not the first signal.
Forced == \E i \in DOMAIN signals : i > 1 /\ signals[i] = "SIGINT"

HasFailed == \E s \in Servers : server[s] = "failed"

\* "the first signal requests a graceful shutdown of every server and a second
\* SIGINT escalates to a forced exit" (_install_shutdown_handlers): a final
\* record is lost only after such an escalation, in a start that fails, or on a
\* server that was asked to exit before it had started.
NoRecordLost ==
  \A x \in Exchanges : exchange[x] = "lost" => Forced \/ HasFailed \/ server[ServerOf[x]] = "abandoned"

\* However a lifespan ends, by its server, after a failed bind, or cancelled at
\* any point of its own end, it has closed its log ("finally" of the lifespan,
\* the suppressed cancellations of GateRegistry.close), and every lifespan that
\* began has ended when the process exits.
LogsAreClosed ==
  \A s \in Servers :
    /\ lifespan[s] = "ended" => log[s] = "closed"
    /\ process = "exited" /\ log[s] = "open" => lifespan[s] = "none"

\* A signal stops the whole process: for certain if no exchange goes on for
\* ever, and whatever the exchanges do after a second SIGINT (serve_all).
Stops ==
  /\ <>[](\A s \in Servers : OpenOn(s) = {}) => (signals # <<>> ~> process = "exited")
  /\ Forced ~> process = "exited"

=============================================================================
