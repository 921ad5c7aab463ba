------------------------------ MODULE LogQueue ------------------------------
(***************************************************************************)
(* The way of a protocol record from the event loop to its destinations    *)
(* (class LoggingRuntime and _DroppingQueueHandler of logging_feature.py,  *)
(* with the QueueListener of the standard library): a bounded queue that   *)
(* the loop never waits for, a thread that writes, and a close() that ends *)
(* both while the queue may be full.  Loop and thread interleave at every  *)
(* step; records are numbered as they are emitted.                         *)
(***************************************************************************)
EXTENDS Integers, Sequences

CONSTANTS
  Size,        \* maxsize of the queue
  MaxRecords   \* bound: records emitted in a run

ASSUME SizeAssumption == Size \in Nat \ {0}
ASSUME MaxRecordsAssumption == MaxRecords \in Nat

Records == 1 .. MaxRecords
Nothing == 0             \* the thread has no record in hand
Sentinel == MaxRecords + 1   \* QueueListener._sentinel, above every record

VARIABLES
  emitted,   \* records the loop has emitted
  queue,     \* the queue
  dropped,   \* records enqueue() has dropped
  hand,      \* what the thread has taken and not written yet
  written,   \* what the destinations have got
  runtime,   \* where LoggingRuntime stands
  thread     \* whether the thread of the listener runs

vars == <<emitted, queue, dropped, hand, written, runtime, thread>>

\* closing: in the loop around stop(); joining: stop() has queued the sentinel
\* and waits for the thread; closed: the handlers are closed.
TypeOK ==
  /\ emitted \in 0 .. MaxRecords
  /\ queue \in Seq(Records \cup {Sentinel}) /\ Len(queue) <= Size
  /\ dropped \subseteq Records
  /\ hand \in Records \cup {Nothing}
  /\ written \in Seq(Records)
  /\ runtime \in {"open", "closing", "joining", "closed"}
  /\ thread \in {"running", "ended"}

-----------------------------------------------------------------------------
Init ==
  /\ emitted = 0
  /\ queue = <<>>
  /\ dropped = {}
  /\ hand = Nothing
  /\ written = <<>>
  /\ runtime = "open"
  /\ thread = "running"

\* Mutant: a full queue gives up its oldest record, which is not accounted for.
EnqueueMakingRoom(r) ==
  /\ queue' = Append(IF Len(queue) < Size THEN queue ELSE Tail(queue), r)
  /\ UNCHANGED dropped

\* enqueue: a record that finds the queue full is dropped.
Enqueue(r) ==
  \/ /\ Len(queue) < Size
     /\ queue' = Append(queue, r)
     /\ UNCHANGED dropped
  \/ /\ Len(queue) = Size
     /\ dropped' = dropped \cup {r}
     /\ UNCHANGED queue

\* emit() of an open runtime; a closed one ignores the record.
Emits ==
  /\ runtime = "open"
  /\ emitted < MaxRecords
  /\ emitted' = emitted + 1
  /\ Enqueue(emitted + 1)
  /\ UNCHANGED <<hand, written, runtime, thread>>

\* close() begins.  It blocks the loop, so nothing is emitted from here on.
CloseBegins ==
  /\ runtime = "open"
  /\ runtime' = "closing"
  /\ UNCHANGED <<emitted, queue, dropped, hand, written, thread>>

\* Mutant: a full queue is taken for a listener that has stopped, and no
\* sentinel is queued.
StopAttemptsOnce ==
  /\ runtime = "closing"
  /\ queue' = IF Len(queue) < Size THEN Append(queue, Sentinel) ELSE queue
  /\ runtime' = "joining"
  /\ UNCHANGED <<emitted, dropped, hand, written, thread>>

\* Mutant: the sentinel overtakes the records.
StopAttemptsAhead ==
  /\ runtime = "closing"
  /\ Len(queue) < Size
  /\ queue' = <<Sentinel>> \o queue
  /\ runtime' = "joining"
  /\ UNCHANGED <<emitted, dropped, hand, written, thread>>

\* stop() queues the sentinel; as long as the queue is full it raises
\* queue.Full and close() sleeps and tries again.
StopAttempts ==
  /\ runtime = "closing"
  /\ Len(queue) < Size
  /\ queue' = Append(queue, Sentinel)
  /\ runtime' = "joining"
  /\ UNCHANGED <<emitted, dropped, hand, written, thread>>

\* stop() joins the thread, and the handlers are closed.
CloseEnds ==
  /\ runtime = "joining"
  /\ thread = "ended"
  /\ runtime' = "closed"
  /\ UNCHANGED <<emitted, queue, dropped, hand, written, thread>>

\* The thread takes a record, or the sentinel, which ends it.
Takes ==
  /\ thread = "running"
  /\ hand = Nothing
  /\ queue # <<>>
  /\ queue' = Tail(queue)
  /\ IF Head(queue) = Sentinel
     THEN thread' = "ended" /\ UNCHANGED hand
     ELSE hand' = Head(queue) /\ UNCHANGED thread
  /\ UNCHANGED <<emitted, dropped, written, runtime>>

\* The thread hands its record to the handlers; what they raise stays there.
Writes ==
  /\ hand # Nothing
  /\ written' = Append(written, hand)
  /\ hand' = Nothing
  /\ UNCHANGED <<emitted, queue, dropped, runtime, thread>>

Next ==
  \/ Emits
  \/ CloseBegins
  \/ StopAttempts
  \/ CloseEnds
  \/ Takes
  \/ Writes

Spec == Init /\ [][Next]_vars

\* The thread and close() are scheduled; nobody has to close.
Fairness ==
  /\ WF_vars(StopAttempts)
  /\ WF_vars(CloseEnds)
  /\ WF_vars(Takes)
  /\ WF_vars(Writes)

FairSpec == Spec /\ Fairness

-----------------------------------------------------------------------------
(* What the logging runtime promises.                                       *)

Ascending(s) == \A i, j \in DOMAIN s : i < j => s[i] < s[j]

Members(s) == {s[i] : i \in DOMAIN s}

Kept == (1 .. emitted) \ dropped

InHand == IF hand = Nothing THEN <<>> ELSE <<hand>>

Way == written \o InHand \o queue

\* A record is written, on its way or dropped: none is lost otherwise, and no
\* record, nor the end of the thread, comes before one that was emitted earlier,
\* at any moment of the run.
NothingVanishes == Ascending(Way) /\ Members(Way) \ {Sentinel} = Kept

\* "Flush and close background logging resources once on app shutdown"
\* (docstring of close): when it has returned, the destinations have got
\* every record that was not dropped, in the order of their emission.
FlushedOnClose == runtime = "closed" => Ascending(written) /\ Members(written) = Kept

\* "Let its worker drain one record before retrying so ASGI shutdown remains
\* reliable" (comment in close): close() returns, also when it finds the queue
\* full.
CloseReturns == runtime = "closing" ~> runtime = "closed"

=============================================================================
