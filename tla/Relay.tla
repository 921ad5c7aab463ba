-------------------------------- MODULE Relay --------------------------------
(***************************************************************************)
(* The life of a relayed request, from the handler's first step to the end *)
(* of the response: the raw relay and the gated relay of app.py            *)
(* (_relay_upstream, _handle_featherless_operation) with stream_response   *)
(* of passthrough.py, and the buffering relay of the image modes           *)
(* (relay_upstream of image_relay.py).  It is about what each way of       *)
(* ending leaves behind: the reservation of the gate, the HTTP client of   *)
(* the request, and the records of its ExchangeLog (logging_feature.py).   *)
(*                                                                         *)
(* A request waits in exactly one place at a time, so its state is that    *)
(* place (phase) and what it owns there.                                   *)
(***************************************************************************)
EXTENDS Integers, FiniteSets, Sequences

CONSTANTS
  Requests,  \* the requests
  Kind,      \* the relay each goes through: "stream", "gated" or "image"
  Logged,    \* those on a listener with the logging feature
  Capacity,  \* how many of them may hold a reservation of the gate at once
  Mishaps    \* what they may meet besides upstream and client errors

ASSUME RequestsAssumption == IsFiniteSet(Requests)
ASSUME KindAssumption == Kind \in [Requests -> {"stream", "gated", "image"}]
ASSUME LoggedAssumption == Logged \subseteq Requests
ASSUME CapacityAssumption == Capacity \in Nat

\* build: httpx refuses the upstream URL; body: the client leaves while its
\* body is read for the whitelist check; parse: json.loads refuses a body with
\* something else than a JSONDecodeError (an integer of too many digits, too deep
\* a nesting); gate: the server cancels the handler while it waits for the gate;
\* cancel: or while it waits for upstream; stream: upstream breaks off a
\* response; redact: json.loads refuses a captured body in that way when the
\* final record is made; abandon: the client leaves while a chunk is being sent
\* to it.
MishapNames == {"build", "body", "parse", "gate", "cancel", "stream", "redact", "abandon"}

ASSUME MishapsAssumption == Mishaps \subseteq MishapNames

VARIABLES
  phase,        \* where each request waits
  reservation,  \* its reservation of the gate
  units,        \* the reservations the gate counts, each of one unit
  client,       \* its HTTP client
  log,          \* the events of its exchange, in order
  mishap        \* what it met, "none" so far; one is enough to end it

gate == <<reservation, units>>
vars == <<phase, gate, client, log, mishap>>

\* body: request.body() or its stream; gate: the gate; sending: client.send();
\* broken: the same, the request stream having raised; reading: the next chunk
\* from upstream; yielding: a chunk on its way to the client; abandoned: the
\* generator of the response is suspended for good; buffering: aread().
Phases == {"idle", "body", "gate", "sending", "broken", "reading",
           "yielding", "abandoned", "buffering", "ended"}

FinalEvents == {"exchange_completed", "exchange_failed", "exchange_cancelled"}

\* The order the events of one exchange come in.
Rank(event) ==
  CASE event = "request_received" -> 1
    [] event = "upstream_request_sent" -> 2
    [] event = "upstream_response_started" -> 3
    [] OTHER -> 4   \* FinalEvents

Events == {"request_received", "upstream_request_sent",
           "upstream_response_started"} \cup FinalEvents

\* The type of the state; an exchange has one event of each rank at most.
TypeOK ==
  /\ phase \in [Requests -> Phases]
  /\ reservation \in [Requests -> {"none", "held", "released"}]
  /\ units \in 0 .. Capacity
  /\ client \in [Requests -> {"none", "open", "closed"}]
  /\ log \in [Requests -> Seq(Events)]
  /\ \A r \in Requests : Len(log[r]) <= 4
  /\ mishap \in [Requests -> MishapNames \cup {"none"}]

-----------------------------------------------------------------------------
(* The exchange.                                                            *)

HasFinal(events) == \E i \in 1 .. Len(events) : events[i] \in FinalEvents

\* ExchangeLog.emit, on the events so far.
Emit(r, events, event) == IF r \in Logged THEN Append(events, event) ELSE events

\* Mutant: there is no _finalized flag.
FinalizeAgain(r, events, event) == Emit(r, events, event)

\* complete, fail and cancel: only the first of them emits.
Finalize(r, events, event) ==
  IF HasFinal(events) THEN events ELSE Emit(r, events, event)

-----------------------------------------------------------------------------
(* Fragments the handlers share.                                            *)

Moves(r, to) == phase' = [phase EXCEPT ![r] = to]

Records(r, events) == log' = [log EXCEPT ![r] = events]

\* Mutant: the reservation does not remember that it was released.
ReleasesAgain(r) ==
  /\ reservation' = [reservation EXCEPT ![r] = "released"]
  /\ units' = units - 1

\* Reservation.release, if there is a reservation; it works once.
Releases(r) ==
  /\ reservation' = [reservation EXCEPT ![r] = IF @ = "held" THEN "released" ELSE @]
  /\ units' = IF reservation[r] = "held" THEN units - 1 ELSE units

ClosesClient(r) == client' = [client EXCEPT ![r] = "closed"]

Meets(r, m) == m \in Mishaps /\ mishap' = [mishap EXCEPT ![r] = m]

\* The handler ends the request before an upstream client exists.
EndsEarly(r, event) ==
  /\ Moves(r, "ended")
  /\ Records(r, Finalize(r, log[r], event))
  /\ UNCHANGED <<gate, client, mishap>>

\* An exception that no handler of the exchange sees does.
RaisesEarly(r, m) ==
  /\ Meets(r, m)
  /\ Moves(r, "ended")
  /\ UNCHANGED <<gate, client, log>>

\* Create the client, build the request and call send, with the events so
\* far.  Building is not guarded.
StartsSend(r, events) ==
  /\ client' = [client EXCEPT ![r] = "open"]
  /\ Records(r, events)
  /\ \/ Moves(r, "sending") /\ UNCHANGED mishap
     \/ Moves(r, "ended") /\ Meets(r, "build")

\* complete() raises while it redacts a captured body: no record is made, what
\* is chained behind it is not called, and the client is closed on the way out.
CompleteRaises(r) ==
  /\ r \in Logged /\ ~HasFinal(log[r])
  /\ Meets(r, "redact")
  /\ Moves(r, "ended")
  /\ ClosesClient(r)
  /\ UNCHANGED <<gate, log>>

\* The callbacks and the finally clause of stream_response.
StreamEnds(r, events) ==
  /\ Moves(r, "ended")
  /\ Releases(r)
  /\ ClosesClient(r)
  /\ Records(r, events)

-----------------------------------------------------------------------------
Init ==
  /\ phase = [r \in Requests |-> "idle"]
  /\ reservation = [r \in Requests |-> "none"]
  /\ units = 0
  /\ client = [r \in Requests |-> "none"]
  /\ log = [r \in Requests |-> <<>>]
  /\ mishap = [r \in Requests |-> "none"]

\* The handler creates the exchange; the raw relay sends at once, with the
\* client's request stream as content, the others read the body first.
Receives(r) ==
  /\ phase[r] = "idle"
  /\ LET events == Emit(r, <<>>, "request_received")
     IN  IF Kind[r] = "stream"
         THEN StartsSend(r, events) /\ UNCHANGED gate
         ELSE /\ Moves(r, "body")
              /\ Records(r, events)
              /\ UNCHANGED <<gate, client, mishap>>

\* The body of a gated operation is complete: its model is not whitelisted,
\* or there is no model or no credential and the gate is passed by, or a
\* reservation is needed, or reading the model from it raises.
GatedBodyArrives(r) ==
  /\ phase[r] = "body"
  /\ Kind[r] = "gated"
  /\ \/ EndsEarly(r, "exchange_failed")
     \/ StartsSend(r, log[r]) /\ UNCHANGED gate
     \/ Moves(r, "gate") /\ UNCHANGED <<gate, client, log, mishap>>
     \/ RaisesEarly(r, "parse")

\* The client leaves before its body is complete, which raises out of
\* request.body(), outside any handler of the exchange.
GatedBodyBreaks(r) ==
  /\ phase[r] = "body"
  /\ Kind[r] = "gated"
  /\ RaisesEarly(r, "body")

\* The gate answers: a reservation, the end of the wait budget, or nothing
\* because the client left.
GateAnswers(r) ==
  /\ phase[r] = "gate"
  /\ \/ /\ units < Capacity
        /\ units' = units + 1
        /\ reservation' = [reservation EXCEPT ![r] = "held"]
        /\ StartsSend(r, log[r])
     \/ EndsEarly(r, "exchange_failed")
     \/ EndsEarly(r, "exchange_cancelled")

\* The handler is cancelled while it waits for the gate.
GateCancelled(r) ==
  /\ phase[r] = "gate"
  /\ RaisesEarly(r, "gate")

\* The body of an image request is complete: the transformation rejects it or
\* raises something else, or the request is announced and sent.
ImageBodyArrives(r) ==
  /\ phase[r] = "body"
  /\ Kind[r] = "image"
  /\ \/ EndsEarly(r, "exchange_failed")
     \/ RaisesEarly(r, "parse")
     \/ /\ StartsSend(r, Emit(r, log[r], "upstream_request_sent"))
        /\ UNCHANGED gate

\* The body is read through wrap_request, which records what it raises.
ImageBodyBreaks(r) ==
  /\ phase[r] = "body"
  /\ Kind[r] = "image"
  /\ EndsEarly(r, "exchange_failed")

\* The client leaves during the upload: wrap_request records it and raises
\* through client.send().
RequestStreamBreaks(r) ==
  /\ phase[r] = "sending"
  /\ Kind[r] = "stream"
  /\ Moves(r, "broken")
  /\ Records(r, Finalize(r, log[r], "exchange_failed"))
  /\ UNCHANGED <<gate, client, mishap>>

\* Mutant: the cancellation of send is passed on without a release.
SendCancelledKeeping(r) ==
  /\ phase[r] = "sending"
  /\ Meets(r, "cancel")
  /\ Moves(r, "ended")
  /\ ClosesClient(r)
  /\ Records(r, Finalize(r, log[r], "exchange_cancelled"))
  /\ UNCHANGED gate

SendCancelled(r) ==
  /\ phase[r] = "sending"
  /\ Meets(r, "cancel")
  /\ Moves(r, "ended")
  /\ ClosesClient(r)
  /\ Releases(r)
  /\ Records(r, Finalize(r, log[r], "exchange_cancelled"))

\* send raises: an httpx error, or what the request stream raised.
SendFails(r) ==
  /\ phase[r] \in {"sending", "broken"}
  /\ Moves(r, "ended")
  /\ ClosesClient(r)
  /\ Releases(r)
  /\ Records(r, Finalize(r, log[r], "exchange_failed"))
  /\ UNCHANGED mishap

\* The response headers arrive.
Responds(r) ==
  /\ phase[r] = "sending"
  /\ Moves(r, IF Kind[r] = "image" THEN "buffering" ELSE "reading")
  /\ Records(r, Emit(r, log[r], "upstream_response_started"))
  /\ UNCHANGED <<gate, client, mishap>>

ChunkArrives(r) ==
  /\ phase[r] = "reading"
  /\ Moves(r, "yielding")
  /\ UNCHANGED <<gate, client, log, mishap>>

ChunkSent(r) ==
  /\ phase[r] = "yielding"
  /\ Moves(r, "reading")
  /\ UNCHANGED <<gate, client, log, mishap>>

\* on_complete: the final record, then the release.
UpstreamEnds(r) ==
  /\ phase[r] = "reading"
  /\ \/ StreamEnds(r, Finalize(r, log[r], "exchange_completed")) /\ UNCHANGED mishap
     \/ CompleteRaises(r)

\* on_error: the reservation is released, then exchange.fail is called
\* without its stage, which raises and records nothing.
UpstreamBreaks(r) ==
  /\ phase[r] = "reading"
  /\ Meets(r, "stream")
  /\ StreamEnds(r, log[r])

\* Mutant: the cancellation is not recorded.
ClientLeavesSilently(r) ==
  /\ phase[r] = "reading"
  /\ StreamEnds(r, log[r])
  /\ UNCHANGED mishap

\* on_cancel: the client leaves while the generator waits for upstream, and
\* the server cancels the wait.
ClientLeaves(r) ==
  /\ phase[r] = "reading"
  /\ StreamEnds(r, Finalize(r, log[r], "exchange_cancelled"))
  /\ UNCHANGED mishap

\* The client leaves while a chunk is being sent: the cancellation hits the
\* server's send and the generator stays suspended at its yield.
ClientLeavesInSend(r) ==
  /\ phase[r] = "yielding"
  /\ Meets(r, "abandon")
  /\ Moves(r, "abandoned")
  /\ UNCHANGED <<gate, client, log>>

\* The event loop closes the abandoned generator: GeneratorExit is raised at
\* the yield and goes the way of an error.
GeneratorClosed(r) ==
  /\ phase[r] = "abandoned"
  /\ StreamEnds(r, log[r])
  /\ UNCHANGED mishap

\* Mutant: only a complete response closes the client.
ReadFailsOpen(r) ==
  /\ phase[r] = "buffering"
  /\ Moves(r, "ended")
  /\ Records(r, Finalize(r, log[r], "exchange_failed"))
  /\ UNCHANGED <<gate, client, mishap>>

\* aread() fails: 502 or 504.
ReadFails(r) ==
  /\ phase[r] = "buffering"
  /\ Moves(r, "ended")
  /\ ClosesClient(r)
  /\ Records(r, Finalize(r, log[r], "exchange_failed"))
  /\ UNCHANGED <<gate, mishap>>

ReadCancelled(r) ==
  /\ phase[r] = "buffering"
  /\ Meets(r, "cancel")
  /\ Moves(r, "ended")
  /\ ClosesClient(r)
  /\ Records(r, Finalize(r, log[r], "exchange_cancelled"))
  /\ UNCHANGED gate

\* The client is closed, then the final record made.
ReadEnds(r) ==
  /\ phase[r] = "buffering"
  /\ \/ /\ Moves(r, "ended")
        /\ ClosesClient(r)
        /\ Records(r, Finalize(r, log[r], "exchange_completed"))
        /\ UNCHANGED <<gate, mishap>>
     \/ CompleteRaises(r)

Before(r) ==
  \/ Receives(r)
  \/ GatedBodyArrives(r)
  \/ GatedBodyBreaks(r)
  \/ GateAnswers(r)
  \/ GateCancelled(r)
  \/ ImageBodyArrives(r)
  \/ ImageBodyBreaks(r)

Exchange(r) ==
  \/ RequestStreamBreaks(r)
  \/ SendCancelled(r)
  \/ SendFails(r)
  \/ Responds(r)
  \/ ChunkArrives(r)
  \/ ChunkSent(r)
  \/ UpstreamEnds(r)
  \/ UpstreamBreaks(r)
  \/ ClientLeaves(r)
  \/ ClientLeavesInSend(r)
  \/ GeneratorClosed(r)
  \/ ReadFails(r)
  \/ ReadCancelled(r)
  \/ ReadEnds(r)

Next == \E r \in Requests : Before(r) \/ Exchange(r)

Spec == Init /\ [][Next]_vars

-----------------------------------------------------------------------------
(* What every ending leaves behind.                                         *)

\* "An optional concurrency reservation is released as soon as the relay
\* finishes, fails or is cancelled" (docstring of _relay_upstream): no way of
\* ending a request keeps its units from the others.
ReservationReturned ==
  \A r \in Requests : phase[r] = "ended" => reservation[r] # "held"

\* The same but for the two exceptions that pass by the release, one before the
\* try statement and one in the callback that is chained before it: failures,
\* cancellations, disconnects and suspended generators all give the units back.
ReservationReturnedUnlessRaised ==
  \A r \in Requests :
    phase[r] = "ended" /\ mishap[r] \notin {"build", "redact"} => reservation[r] # "held"

\* The gate counts exactly the reservations of the requests that are being
\* relayed: what one relay gives back, however it ends, is there for the next
\* and is given back once.
UnitsAreRelays ==
  units = Cardinality({r \in Requests : reservation[r] = "held"})

\* stream_response and the image relay "close connections after completion or
\* disconnect": no way of ending a request whose upstream URL httpx accepts leaves
\* its HTTP client open, not even a final record that cannot be made.
ClientsClosed ==
  \A r \in Requests : phase[r] = "ended" /\ mishap[r] # "build" => client[r] # "open"

\* The records of one exchange tell one story: received, sent, started, and
\* one final record at most with nothing after it, although the request
\* stream, send and the response stream each try to write it.
RecordsInOrder ==
  \A r \in Requests : \A i, j \in 1 .. Len(log[r]) :
    i < j => Rank(log[r][i]) < Rank(log[r][j])

\* "Protocol logs for request, upstream-response, completion, failure, and
\* cancellation events" (README): an exchange that was announced gets its
\* final record however it ends.
EveryExchangeRecorded ==
  \A r \in Logged : phase[r] = "ended" => HasFinal(log[r])

\* The same of the requests that met nothing worse than a cancelled wait for
\* upstream: rejections, queue timeouts, failing uploads, sends and reads, and
\* clients that leave between chunks all end in a final record, whatever
\* happens to the requests next to them.
RecordedUnlessMishap ==
  \A r \in Logged :
    phase[r] = "ended" /\ mishap[r] \in {"none", "cancel"} => HasFinal(log[r])

=============================================================================
