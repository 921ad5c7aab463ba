---------------------------- MODULE RelayProofs ----------------------------
(***************************************************************************)
(* Theorems about Relay, for any requests, any mix of kinds and any        *)
(* capacity of the gate.                                                   *)
(*                                                                         *)
(* Two inductive invariants.  Story: the events of an exchange have        *)
(* increasing ranks, none above what its phase has reached; it gives the   *)
(* order of the records and bounds their number.  Ownership: a reservation *)
(* is held only by a gated request that is being relayed, or that ended by *)
(* one of the two exceptions that pass by its release; it gives the        *)
(* accounts and the return of every other reservation.                     *)
(***************************************************************************)
EXTENDS Relay, FiniteSetTheorems, TLAPS

\* The highest rank an exchange may have reached in each phase.
Reached(p) ==
  CASE p = "idle" -> 0
    [] p \in {"body", "gate"} -> 1
    [] p = "sending" -> 2
    [] p \in {"reading", "yielding", "abandoned", "buffering"} -> 3
    [] OTHER -> 4

\* Increasing ranks, none above b.
Ordered(s, b) ==
  /\ \A k \in 1 .. Len(s) : k <= Rank(s[k]) /\ Rank(s[k]) <= b
  /\ \A k, l \in 1 .. Len(s) : k < l => Rank(s[k]) < Rank(s[l])

Story ==
  /\ phase \in [Requests -> Phases]
  /\ log \in [Requests -> Seq(Events)]
  /\ \A r \in Requests : Ordered(log[r], Reached(phase[r]))

-----------------------------------------------------------------------------
(* Lemmas about the events of one exchange.                                 *)

\* The ranks of events are 1 to 4, and 4 is the rank of the final ones.
LEMMA RankOfEvents ==
  ASSUME NEW e \in Events
  PROVE  Rank(e) \in 1 .. 4 /\ (Rank(e) = 4 <=> e \in FinalEvents)
BY DEF Events, FinalEvents, Rank

\* A bound may be weakened.
LEMMA OrderedWeaker ==
  ASSUME NEW s \in Seq(Events), NEW a \in Nat, NEW b \in Nat, a <= b, Ordered(s, a)
  PROVE  Ordered(s, b)
<1>1. \A k \in 1 .. Len(s) : Rank(s[k]) \in 1 .. 4
  BY RankOfEvents
<1> QED
  BY <1>1 DEF Ordered

\* ExchangeLog.emit of an event of a rank not reached yet keeps the order.
LEMMA EmitOrdered ==
  ASSUME NEW r, NEW s \in Seq(Events), NEW e \in Events, NEW b \in Nat,
         Ordered(s, b), b < Rank(e)
  PROVE  /\ Emit(r, s, e) \in Seq(Events)
         /\ Ordered(Emit(r, s, e), Rank(e))
<1>1. Rank(e) \in 1 .. 4 /\ \A k \in 1 .. Len(s) : Rank(s[k]) \in 1 .. 4
  BY RankOfEvents
<1>2. CASE r \notin Logged
  BY <1>1, <1>2, OrderedWeaker DEF Emit
<1>3. CASE r \in Logged
  <2>1. Emit(r, s, e) = Append(s, e)
    BY <1>3 DEF Emit
  <2>2. Len(s) <= b
    <3>1. CASE Len(s) = 0
      BY <3>1
    <3>2. CASE Len(s) # 0
      <4>1. Len(s) \in 1 .. Len(s)
        BY <3>2
      <4> QED
        BY <4>1, <1>1 DEF Ordered
    <3> QED
      BY <3>1, <3>2
  <2>3. /\ Len(Append(s, e)) = Len(s) + 1
        /\ Append(s, e)[Len(s) + 1] = e
        /\ \A k \in 1 .. Len(s) : Append(s, e)[k] = s[k]
    OBVIOUS
  <2>4. \A k \in 1 .. Len(s) + 1 :
          k <= Rank(Append(s, e)[k]) /\ Rank(Append(s, e)[k]) <= Rank(e)
    BY <1>1, <2>2, <2>3 DEF Ordered
  <2>5. \A k, l \in 1 .. Len(s) + 1 :
          k < l => Rank(Append(s, e)[k]) < Rank(Append(s, e)[l])
    BY <1>1, <2>2, <2>3 DEF Ordered
  <2> QED
    BY <2>1, <2>3, <2>4, <2>5 DEF Ordered
<1> QED
  BY <1>2, <1>3

\* complete, fail and cancel keep the order whatever was recorded before.
LEMMA FinalizeOrdered ==
  ASSUME NEW r, NEW s \in Seq(Events), NEW e \in FinalEvents, Ordered(s, 4)
  PROVE  /\ Finalize(r, s, e) \in Seq(Events)
         /\ Ordered(Finalize(r, s, e), 4)
<1>1. e \in Events /\ Rank(e) = 4
  BY DEF Events, FinalEvents, Rank
<1>2. CASE HasFinal(s)
  BY <1>2 DEF Finalize
<1>3. CASE ~HasFinal(s)
  <2>1. \A k \in 1 .. Len(s) : Rank(s[k]) \in 1 .. 4 /\ Rank(s[k]) # 4
    BY <1>3, RankOfEvents DEF HasFinal
  <2>2. Ordered(s, 3)
    BY <2>1 DEF Ordered
  <2> QED
    BY <1>1, <1>3, <2>2, EmitOrdered DEF Finalize
<1> QED
  BY <1>2, <1>3

\* A final event that is recorded on a logged exchange is there.
LEMMA FinalizeRecords ==
  ASSUME NEW r \in Logged, NEW s \in Seq(Events), NEW e \in FinalEvents
  PROVE  HasFinal(Finalize(r, s, e))
<1>1. CASE HasFinal(s)
  BY <1>1 DEF Finalize
<1>2. CASE ~HasFinal(s)
  <2>1. e \in Events
    BY DEF Events
  <2>2. Finalize(r, s, e) = Append(s, e)
    BY <1>2 DEF Finalize, Emit
  <2>3. Append(s, e)[Len(s) + 1] = e /\ Len(s) + 1 \in 1 .. Len(Append(s, e))
    BY <2>1
  <2> QED
    BY <2>2, <2>3 DEF HasFinal
<1> QED
  BY <1>1, <1>2

-----------------------------------------------------------------------------
(* The story of every exchange.                                             *)

LEMMA ReachedNat == \A p \in Phases : Reached(p) \in 0 .. 4
BY DEF Phases, Reached

\* A step of r that leaves it at p with the events s.
LEMMA StoryMoves ==
  ASSUME Story, NEW r \in Requests, NEW p \in Phases, NEW s \in Seq(Events),
         Moves(r, p), Records(r, s), Ordered(s, Reached(p))
  PROVE  Story'
<1>1. /\ phase' \in [Requests -> Phases]
      /\ phase'[r] = p
      /\ \A q \in Requests \ {r} : phase'[q] = phase[q]
  BY DEF Story, Moves
<1>2. /\ log' \in [Requests -> Seq(Events)]
      /\ log'[r] = s
      /\ \A q \in Requests \ {r} : log'[q] = log[q]
  BY DEF Story, Records
<1>3. ASSUME NEW q \in Requests
      PROVE  Ordered(log'[q], Reached(phase'[q]))
  <2>1. CASE q = r
    BY <2>1, <1>1, <1>2
  <2>2. CASE q # r
    BY <2>2, <1>1, <1>2 DEF Story
  <2> QED
    BY <2>1, <2>2
<1>4. \A q \in Requests : Ordered(log[q], Reached(phase[q]))'
  BY <1>3 DEF Ordered, Reached, Rank, FinalEvents
<1> QED
  BY <1>1, <1>2, <1>4 DEF Story

\* A step of r that records nothing and does not lower what may be reached.
LEMMA StoryStays ==
  ASSUME Story, NEW r \in Requests, NEW p \in Phases,
         Moves(r, p), log' = log, Reached(phase[r]) <= Reached(p)
  PROVE  Story'
<1>1. log[r] \in Seq(Events) /\ phase[r] \in Phases
  BY DEF Story
<1>2. Ordered(log[r], Reached(p))
  BY <1>1, OrderedWeaker, ReachedNat DEF Story
<1>3. Records(r, log[r])
  BY DEF Story, Records
<1> QED
  BY <1>1, <1>2, <1>3, StoryMoves

\* A step of r that writes a final event and moves where anything may be
\* reached.
LEMMA StoryEnds ==
  ASSUME Story, NEW r \in Requests, NEW e \in FinalEvents, NEW p \in {"ended", "broken"},
         Moves(r, p), Records(r, Finalize(r, log[r], e))
  PROVE  Story'
<1>1. log[r] \in Seq(Events) /\ phase[r] \in Phases /\ p \in Phases
  BY DEF Story, Phases
<1>2. Ordered(log[r], 4)
  <2>0. Reached(phase[r]) \in 0 .. 4
    BY <1>1, ReachedNat, Zenon
  <2>1. Reached(phase[r]) \in Nat /\ Reached(phase[r]) <= 4
    BY <2>0
  <2>2. Ordered(log[r], Reached(phase[r]))
    BY DEF Story
  <2> QED
    BY <1>1, <2>1, <2>2, OrderedWeaker
<1>3. /\ Finalize(r, log[r], e) \in Seq(Events)
      /\ Ordered(Finalize(r, log[r], e), 4)
  BY <1>1, <1>2, FinalizeOrdered
<1>4. Reached(p) = 4
  BY DEF Reached
<1> QED
  BY <1>1, <1>3, <1>4, StoryMoves

\* A request that starts to send, its events ordered up to 2.
LEMMA StorySends ==
  ASSUME Story, NEW r \in Requests, NEW s \in Seq(Events), Ordered(s, 2),
         StartsSend(r, s)
  PROVE  Story'
<1>1. Records(r, s) /\ (Moves(r, "sending") \/ Moves(r, "ended"))
  BY DEF StartsSend
<1>2. /\ "sending" \in Phases /\ Reached("sending") = 2
      /\ "ended" \in Phases /\ Reached("ended") = 4
  BY DEF Phases, Reached
<1>3. Ordered(s, 4)
  BY OrderedWeaker
<1> QED
  BY <1>1, <1>2, <1>3, StoryMoves

LEMMA StoryInit == Init => Story
<1> SUFFICES ASSUME Init PROVE Story
  OBVIOUS
<1>1. <<>> \in Seq(Events) /\ Len(<<>>) = 0
  OBVIOUS
<1>2. Ordered(<<>>, 0) /\ Reached("idle") = 0
  BY <1>1 DEF Ordered, Reached
<1> QED
  BY <1>1, <1>2 DEF Init, Story, Phases

LEMMA StoryStep ==
  ASSUME Story, NEW r \in Requests, Before(r) \/ Exchange(r)
  PROVE  Story'
<1> USE DEF EndsEarly, StreamEnds, RaisesEarly, CompleteRaises
<1>0. /\ log[r] \in Seq(Events) /\ phase[r] \in Phases
      /\ Ordered(log[r], Reached(phase[r]))
  BY DEF Story
<1>1. /\ "body" \in Phases /\ "gate" \in Phases /\ "sending" \in Phases
      /\ "reading" \in Phases /\ "yielding" \in Phases /\ "abandoned" \in Phases
      /\ "buffering" \in Phases /\ "ended" \in Phases /\ "broken" \in Phases
  BY DEF Phases
<1>2. /\ Reached("idle") = 0 /\ Reached("body") = 1 /\ Reached("gate") = 1
      /\ Reached("sending") = 2 /\ Reached("reading") = 3 /\ Reached("yielding") = 3
      /\ Reached("abandoned") = 3 /\ Reached("buffering") = 3 /\ Reached("ended") = 4
      /\ Reached("broken") = 4
  BY DEF Reached
<1>3. /\ Rank("request_received") = 1 /\ Rank("upstream_request_sent") = 2
      /\ Rank("upstream_response_started") = 3
  BY DEF Rank
<1>4. {"request_received", "upstream_request_sent", "upstream_response_started"}
        \subseteq Events
  BY DEF Events
<1>5. {"exchange_completed", "exchange_failed", "exchange_cancelled"} = FinalEvents
  BY DEF FinalEvents
\* An ending that records nothing.
<1>50. ASSUME Moves(r, "ended"), log' = log PROVE Story'
  <2>1. Reached(phase[r]) <= Reached("ended")
    BY <1>0, <1>2, ReachedNat
  <2> QED
    BY <1>1, <1>50, <2>1, StoryStays
<1>6. CASE Receives(r)
  <2> DEFINE first == Emit(r, <<>>, "request_received")
  <2>1. Ordered(<<>>, 0) /\ <<>> \in Seq(Events)
    BY DEF Ordered
  <2>2. first \in Seq(Events) /\ Ordered(first, 1)
    <3>1. "request_received" \in Events /\ 0 < Rank("request_received")
      BY <1>3, <1>4
    <3>2. /\ first \in Seq(Events)
          /\ Ordered(first, Rank("request_received"))
      BY <2>1, <3>1, EmitOrdered
    <3> QED
      BY <3>2, <1>3
  <2>3. Ordered(first, 2)
    BY <2>2, OrderedWeaker
  <2> QED
    BY <1>6, <1>1, <1>2, <2>2, <2>3, StoryMoves, StorySends DEF Receives
<1>7. CASE GatedBodyArrives(r)
  <2>1. phase[r] = "body" /\ Ordered(log[r], 2)
    BY <1>7, <1>0, <1>2, OrderedWeaker DEF GatedBodyArrives
  <2>2. CASE EndsEarly(r, "exchange_failed")
    BY <2>2, <1>5, StoryEnds
  <2>3. CASE StartsSend(r, log[r])
    BY <2>3, <2>1, <1>0, StorySends
  <2>4. CASE Moves(r, "gate") /\ UNCHANGED <<gate, client, log, mishap>>
    BY <2>4, <2>1, <1>1, <1>2, StoryStays
  <2>5. CASE RaisesEarly(r, "parse")
    BY <2>5, <1>50
  <2> QED
    BY <1>7, <2>2, <2>3, <2>4, <2>5 DEF GatedBodyArrives
<1>8. CASE GatedBodyBreaks(r) \/ GateCancelled(r)
  BY <1>8, <1>50 DEF GatedBodyBreaks, GateCancelled
<1>9. CASE GateAnswers(r)
  <2>1. phase[r] = "gate" /\ Ordered(log[r], 2)
    BY <1>9, <1>0, <1>2, OrderedWeaker DEF GateAnswers
  <2>2. CASE StartsSend(r, log[r])
    BY <2>2, <2>1, <1>0, StorySends
  <2>3. CASE EndsEarly(r, "exchange_failed") \/ EndsEarly(r, "exchange_cancelled")
    BY <2>3, <1>5, StoryEnds
  <2> QED
    BY <1>9, <2>2, <2>3 DEF GateAnswers
<1>10. CASE ImageBodyArrives(r)
  <2> DEFINE second == Emit(r, log[r], "upstream_request_sent")
  <2>1. Ordered(log[r], 1)
    BY <1>10, <1>0, <1>2 DEF ImageBodyArrives
  <2>2. second \in Seq(Events) /\ Ordered(second, 2)
    BY <2>1, <1>0, <1>3, <1>4, EmitOrdered
  <2>3. CASE EndsEarly(r, "exchange_failed")
    BY <2>3, <1>5, StoryEnds
  <2>4. CASE StartsSend(r, second)
    BY <2>4, <2>2, StorySends
  <2>5. CASE RaisesEarly(r, "parse")
    BY <2>5, <1>50
  <2> QED
    BY <1>10, <2>3, <2>4, <2>5 DEF ImageBodyArrives
<1>11. CASE ImageBodyBreaks(r)
  BY <1>11, <1>5, StoryEnds DEF ImageBodyBreaks
<1>12. CASE RequestStreamBreaks(r)
  BY <1>12, <1>5, StoryEnds DEF RequestStreamBreaks
<1>13. CASE SendCancelled(r) \/ SendFails(r)
  BY <1>13, <1>5, StoryEnds DEF SendCancelled, SendFails
<1>14. CASE Responds(r)
  <2> DEFINE third == Emit(r, log[r], "upstream_response_started")
  <2>1. Ordered(log[r], 2)
    BY <1>14, <1>0, <1>2 DEF Responds
  <2>2. third \in Seq(Events) /\ Ordered(third, 3)
    BY <2>1, <1>0, <1>3, <1>4, EmitOrdered
  <2> QED
    BY <1>14, <2>2, <1>1, <1>2, StoryMoves DEF Responds
<1>15. CASE ChunkArrives(r) \/ ChunkSent(r) \/ ClientLeavesInSend(r)
  BY <1>15, <1>1, <1>2, StoryStays DEF ChunkArrives, ChunkSent, ClientLeavesInSend
<1>16. CASE UpstreamEnds(r) \/ ClientLeaves(r)
  BY <1>16, <1>5, <1>50, StoryEnds DEF UpstreamEnds, ClientLeaves
<1>17. CASE UpstreamBreaks(r) \/ GeneratorClosed(r)
  <2>1. Moves(r, "ended") /\ Records(r, log[r])
    BY <1>17 DEF UpstreamBreaks, GeneratorClosed
  <2>2. Ordered(log[r], 4)
    BY <1>0, OrderedWeaker, ReachedNat
  <2> QED
    BY <2>1, <2>2, <1>0, <1>1, <1>2, StoryMoves
<1>18. CASE ReadFails(r) \/ ReadCancelled(r) \/ ReadEnds(r)
  BY <1>18, <1>5, <1>50, StoryEnds DEF ReadFails, ReadCancelled, ReadEnds
<1> QED
  BY <1>6, <1>7, <1>8, <1>9, <1>10, <1>11, <1>12, <1>13, <1>14, <1>15, <1>16,
     <1>17, <1>18 DEF Before, Exchange

\* The story holds in every reachable state.
THEOREM StoryInvariant == Spec => []Story
<1>1. Story /\ [Next]_vars => Story'
  <2>1. ASSUME Story, UNCHANGED vars PROVE Story'
    BY <2>1 DEF Story, vars, Ordered, Reached, Rank, FinalEvents
  <2> QED
    BY <2>1, StoryStep DEF Next
<1> QED
  BY <1>1, StoryInit, PTL DEF Spec

\* RecordsInOrder for any requests: one exchange tells one story, with at most
\* one final record and nothing after it.
THEOREM RecordsKeepOrder == Spec => []RecordsInOrder
<1>1. Story => RecordsInOrder
  BY DEF Story, RecordsInOrder, Ordered
<1> QED
  BY <1>1, StoryInvariant, PTL

-----------------------------------------------------------------------------
(* Who owns what.                                                           *)

Held == {r \in Requests : reservation[r] = "held"}

\* The exceptions that pass by the release.
Leaks == {"build", "redact"}

HoldingPhases == {"sending", "reading", "yielding", "abandoned"}

\* Where a request that holds a reservation can be, having met m.
MayHold(p, m) == p \in HoldingPhases \/ (p = "ended" /\ m \in Leaks)

Ownership ==
  /\ phase \in [Requests -> Phases]
  /\ mishap \in [Requests -> MishapNames \cup {"none"}]
  /\ reservation \in [Requests -> {"none", "held", "released"}]
  /\ units \in 0 .. Capacity
  /\ units = Cardinality(Held)
  /\ \A r \in Requests :
       /\ reservation[r] = "held" => Kind[r] = "gated" /\ MayHold(phase[r], mishap[r])
       /\ phase[r] = "buffering" => Kind[r] = "image"
       /\ phase[r] = "broken" => Kind[r] = "stream"
       /\ phase[r] = "gate" => Kind[r] = "gated"

LEMMA HeldFinite == IsFiniteSet(Held)
BY RequestsAssumption, FS_Subset DEF Held

\* Reservation.release takes one unit off the count if it is the first.
LEMMA ReleaseCounts ==
  ASSUME Ownership, NEW r \in Requests, Releases(r)
  PROVE  /\ reservation' \in [Requests -> {"none", "held", "released"}]
         /\ reservation'[r] # "held"
         /\ \A q \in Requests \ {r} : reservation'[q] = reservation[q]
         /\ units' \in 0 .. Capacity
         /\ units' = Cardinality(Held')
<1>1. /\ reservation' \in [Requests -> {"none", "held", "released"}]
      /\ reservation'[r] # "held"
      /\ \A q \in Requests \ {r} : reservation'[q] = reservation[q]
  BY DEF Ownership, Releases
<1>2. Held' = Held \ {r}
  BY <1>1 DEF Held
<1>3. units \in 0 .. Capacity /\ units = Cardinality(Held) /\ Capacity \in Nat
  BY CapacityAssumption DEF Ownership
<1>4. CASE reservation[r] = "held"
  <2>1. r \in Held
    BY <1>4 DEF Held
  <2>2. Cardinality(Held \ {r}) = Cardinality(Held) - 1
    BY <2>1, HeldFinite, FS_RemoveElement
  <2>3. Cardinality(Held \ {r}) \in Nat
    BY HeldFinite, FS_RemoveElement, FS_CardinalityType
  <2>4. units' = units - 1
    BY <1>4 DEF Releases
  <2>5. units' = Cardinality(Held \ {r})
    BY <2>2, <2>4, <1>3
  <2>6. units' \in 0 .. Capacity
    BY <2>3, <2>4, <2>5, <1>3
  <2> QED
    BY <1>1, <1>2, <2>5, <2>6
<1>5. CASE reservation[r] # "held"
  <2>1. Held' = Held
    BY <1>2, <1>5 DEF Held
  <2>2. units' = units
    BY <1>5 DEF Releases
  <2> QED
    BY <1>1, <1>3, <2>1, <2>2
<1> QED
  BY <1>4, <1>5

\* A grant adds one unit to the count.
LEMMA GrantCounts ==
  ASSUME Ownership, NEW r \in Requests, reservation[r] # "held", units < Capacity,
         units' = units + 1, reservation' = [reservation EXCEPT ![r] = "held"]
  PROVE  /\ reservation' \in [Requests -> {"none", "held", "released"}]
         /\ reservation'[r] = "held"
         /\ \A q \in Requests \ {r} : reservation'[q] = reservation[q]
         /\ units' \in 0 .. Capacity
         /\ units' = Cardinality(Held')
<1>1. /\ reservation' \in [Requests -> {"none", "held", "released"}]
      /\ reservation'[r] = "held"
      /\ \A q \in Requests \ {r} : reservation'[q] = reservation[q]
  BY DEF Ownership
<1>2. Held' = Held \cup {r} /\ r \notin Held
  BY <1>1 DEF Held
<1>3. Cardinality(Held \cup {r}) = Cardinality(Held) + 1
  BY <1>2, HeldFinite, FS_AddElement
<1>4. units' \in 0 .. Capacity
  BY CapacityAssumption DEF Ownership
<1>5. units' = Cardinality(Held')
  BY <1>2, <1>3 DEF Ownership
<1> QED
  BY <1>1, <1>4, <1>5

\* A step of r concerns no other request's mishaps.
Suffers(r) ==
  /\ mishap' \in [Requests -> MishapNames \cup {"none"}]
  /\ \A q \in Requests \ {r} : mishap'[q] = mishap[q]

\* A step of r that keeps every account but r's own right keeps Ownership.
LEMMA OwnershipMoves ==
  ASSUME Ownership, NEW r \in Requests, NEW p \in Phases, Moves(r, p), Suffers(r),
         reservation' \in [Requests -> {"none", "held", "released"}],
         \A q \in Requests \ {r} : reservation'[q] = reservation[q],
         units' \in 0 .. Capacity, units' = Cardinality(Held'),
         reservation'[r] = "held" => Kind[r] = "gated" /\ MayHold(p, mishap'[r]),
         p = "buffering" => Kind[r] = "image",
         p = "broken" => Kind[r] = "stream",
         p = "gate" => Kind[r] = "gated"
  PROVE  Ownership'
<1>1. /\ phase' \in [Requests -> Phases]
      /\ phase'[r] = p
      /\ \A q \in Requests \ {r} : phase'[q] = phase[q]
  BY DEF Ownership, Moves
<1>2. ASSUME NEW q \in Requests
      PROVE  /\ reservation'[q] = "held" => Kind[q] = "gated" /\ MayHold(phase'[q], mishap'[q])
             /\ phase'[q] = "buffering" => Kind[q] = "image"
             /\ phase'[q] = "broken" => Kind[q] = "stream"
             /\ phase'[q] = "gate" => Kind[q] = "gated"
  <2>1. CASE q = r
    BY <2>1, <1>1
  <2>2. CASE q # r
    BY <2>2, <1>1 DEF Ownership, Suffers
  <2> QED
    BY <2>1, <2>2
<1> QED
  BY <1>1, <1>2 DEF Ownership, Suffers, MayHold, HoldingPhases, Leaks

\* A step of r that leaves its reservation alone.
LEMMA OwnershipKeeps ==
  ASSUME Ownership, NEW r \in Requests, NEW p \in Phases, Moves(r, p), Suffers(r), UNCHANGED gate,
         reservation[r] = "held" => MayHold(p, mishap'[r]),
         p = "buffering" => Kind[r] = "image",
         p = "broken" => Kind[r] = "stream",
         p = "gate" => Kind[r] = "gated"
  PROVE  Ownership'
<1>1. reservation' = reservation /\ units' = units
  BY DEF gate
<1>2. Held' = Held
  BY <1>1 DEF Held
<1>3. reservation[r] = "held" => Kind[r] = "gated"
  BY DEF Ownership
<1>4. /\ reservation \in [Requests -> {"none", "held", "released"}]
      /\ units \in 0 .. Capacity
      /\ units = Cardinality(Held)
  BY DEF Ownership
<1> QED
  BY <1>1, <1>2, <1>3, <1>4, OwnershipMoves

\* A step of r that ends it and releases its reservation.
LEMMA OwnershipEnds ==
  ASSUME Ownership, NEW r \in Requests, Moves(r, "ended"), Suffers(r), Releases(r)
  PROVE  Ownership'
<1>1. "ended" \in Phases
  BY DEF Phases
<1> QED
  BY <1>1, ReleaseCounts, OwnershipMoves

\* Every step of r is one in which nobody else meets anything.
LEMMA StepsSuffer ==
  ASSUME Ownership, NEW r \in Requests, Before(r) \/ Exchange(r)
  PROVE  Suffers(r)
<1>1. UNCHANGED mishap \/ \E m \in Mishaps : mishap' = [mishap EXCEPT ![r] = m]
  BY DEF Meets, EndsEarly, RaisesEarly, StartsSend, CompleteRaises, Before, Receives, GatedBodyArrives,
    GatedBodyBreaks, GateAnswers, GateCancelled, ImageBodyArrives, ImageBodyBreaks, Exchange,
    RequestStreamBreaks, SendCancelled, SendFails, Responds, ChunkArrives, ChunkSent, UpstreamEnds,
    UpstreamBreaks, ClientLeaves, ClientLeavesInSend, GeneratorClosed, ReadFails, ReadCancelled, ReadEnds
<1> QED
  BY <1>1, MishapsAssumption DEF Suffers, Ownership

LEMMA OwnershipInit == Init => Ownership
<1> SUFFICES ASSUME Init PROVE Ownership
  OBVIOUS
<1>1. Held = {}
  BY DEF Init, Held
<1>2. Cardinality(Held) = 0
  BY <1>1, FS_EmptySet
<1> QED
  BY <1>2, CapacityAssumption DEF Init, Ownership, Phases

LEMMA OwnershipStep ==
  ASSUME Ownership, NEW r \in Requests, Before(r) \/ Exchange(r)
  PROVE  Ownership'
<1> USE DEF EndsEarly, StreamEnds, RaisesEarly
<1>0. Suffers(r)
  BY StepsSuffer
<1>1. /\ "body" \in Phases /\ "gate" \in Phases /\ "sending" \in Phases
      /\ "reading" \in Phases /\ "yielding" \in Phases /\ "abandoned" \in Phases
      /\ "buffering" \in Phases /\ "ended" \in Phases /\ "broken" \in Phases
  BY DEF Phases
<1>2. /\ \A p \in {"sending", "reading", "yielding", "abandoned"} : \A m : MayHold(p, m)
      /\ \A p \in {"idle", "body", "gate", "broken", "buffering"} : \A m : ~MayHold(p, m)
      /\ MayHold("ended", "build") /\ MayHold("ended", "redact")
  BY DEF MayHold, HoldingPhases, Leaks
<1>3. /\ reservation[r] = "held" => Kind[r] = "gated" /\ MayHold(phase[r], mishap[r])
      /\ phase[r] = "buffering" => Kind[r] = "image"
  BY DEF Ownership
<1>4. ASSUME phase[r] \in {"idle", "body", "gate"}, NEW s, StartsSend(r, s), UNCHANGED gate
      PROVE  Ownership'
  <2>1. reservation[r] # "held"
    BY <1>2, <1>3, <1>4
  <2> QED
    BY <2>1, <1>1, <1>4, <1>0, OwnershipKeeps DEF StartsSend
<1>5. ASSUME phase[r] \in {"body", "gate", "buffering"}, Moves(r, "ended"), UNCHANGED gate
      PROVE  Ownership'
  <2>1. reservation[r] # "held"
    BY <1>2, <1>3, <1>5
  <2> QED
    BY <2>1, <1>1, <1>5, <1>0, OwnershipKeeps
<1>6. CASE Receives(r)
  <2>1. phase[r] = "idle" /\ reservation[r] # "held"
    BY <1>6, <1>2, <1>3 DEF Receives
  <2> QED
    BY <1>6, <2>1, <1>1, <1>4, <1>0, OwnershipKeeps DEF Receives
<1>7. CASE GatedBodyArrives(r)
  <2>1. phase[r] = "body" /\ Kind[r] = "gated" /\ reservation[r] # "held"
    BY <1>7, <1>2, <1>3 DEF GatedBodyArrives
  <2> QED
    BY <1>7, <2>1, <1>1, <1>4, <1>5, <1>0, OwnershipKeeps DEF GatedBodyArrives, gate
<1>8. CASE GatedBodyBreaks(r) \/ GateCancelled(r) \/ ImageBodyBreaks(r)
  BY <1>8, <1>5 DEF GatedBodyBreaks, GateCancelled, ImageBodyBreaks, gate
<1>9. CASE GateAnswers(r)
  <2>1. phase[r] = "gate" /\ Kind[r] = "gated" /\ reservation[r] # "held"
    BY <1>9, <1>2, <1>3 DEF GateAnswers, Ownership
  <2>2. CASE /\ units < Capacity
             /\ units' = units + 1
             /\ reservation' = [reservation EXCEPT ![r] = "held"]
             /\ StartsSend(r, log[r])
    <3>1. /\ reservation' \in [Requests -> {"none", "held", "released"}]
          /\ \A q \in Requests \ {r} : reservation'[q] = reservation[q]
          /\ units' \in 0 .. Capacity
          /\ units' = Cardinality(Held')
      BY <2>1, <2>2, GrantCounts
    <3>2. CASE Moves(r, "sending")
      BY <3>1, <3>2, <2>1, <1>1, <1>2, <1>0, OwnershipMoves
    <3>3. CASE Moves(r, "ended") /\ Meets(r, "build")
      <4>1. mishap'[r] = "build"
        BY <3>3 DEF Meets, Ownership
      <4> QED
        BY <3>1, <3>3, <4>1, <2>1, <1>1, <1>2, <1>0, OwnershipMoves
    <3> QED
      BY <2>2, <3>2, <3>3 DEF StartsSend
  <2>3. CASE EndsEarly(r, "exchange_failed") \/ EndsEarly(r, "exchange_cancelled")
    BY <2>1, <2>3, <1>5 DEF gate
  <2> QED
    BY <1>9, <2>2, <2>3 DEF GateAnswers
<1>10. CASE ImageBodyArrives(r)
  BY <1>10, <1>4, <1>5 DEF ImageBodyArrives, gate
<1>11. CASE RequestStreamBreaks(r)
  <2>1. Kind[r] = "stream" /\ reservation[r] # "held"
    BY <1>11, <1>3 DEF RequestStreamBreaks
  <2> QED
    BY <1>11, <2>1, <1>1, <1>0, OwnershipKeeps DEF RequestStreamBreaks, gate
<1>12. CASE SendCancelled(r) \/ SendFails(r)
  BY <1>12, <1>0, OwnershipEnds DEF SendCancelled, SendFails
<1>13. CASE Responds(r)
  <2>1. CASE Kind[r] = "image"
    <3>1. reservation[r] # "held" /\ Moves(r, "buffering") /\ UNCHANGED gate
      BY <1>13, <2>1, <1>3 DEF Responds, gate
    <3> QED
      BY <3>1, <2>1, <1>1, <1>0, OwnershipKeeps
  <2>2. CASE Kind[r] # "image"
    <3>1. Moves(r, "reading") /\ UNCHANGED gate
      BY <1>13, <2>2 DEF Responds, gate
    <3> QED
      BY <3>1, <1>1, <1>2, <1>0, OwnershipKeeps
  <2> QED
    BY <2>1, <2>2
<1>14. CASE ChunkArrives(r) \/ ChunkSent(r) \/ ClientLeavesInSend(r)
  BY <1>14, <1>1, <1>2, <1>0, OwnershipKeeps DEF ChunkArrives, ChunkSent, ClientLeavesInSend, gate
<1>15. ASSUME CompleteRaises(r) PROVE Ownership'
  <2>1. mishap'[r] = "redact" /\ Moves(r, "ended") /\ UNCHANGED gate
    BY <1>15 DEF CompleteRaises, Meets, Ownership, gate
  <2> QED
    BY <2>1, <1>1, <1>2, <1>0, OwnershipKeeps
<1>16. CASE UpstreamEnds(r) \/ ClientLeaves(r) \/ UpstreamBreaks(r) \/ GeneratorClosed(r)
  BY <1>16, <1>15, <1>0, OwnershipEnds DEF UpstreamEnds, ClientLeaves, UpstreamBreaks, GeneratorClosed
<1>17. CASE ReadFails(r) \/ ReadCancelled(r) \/ ReadEnds(r)
  BY <1>17, <1>5, <1>15 DEF ReadFails, ReadCancelled, ReadEnds, gate
<1> QED
  BY <1>6, <1>7, <1>8, <1>9, <1>10, <1>11, <1>12, <1>13, <1>14, <1>16, <1>17
     DEF Before, Exchange

THEOREM OwnershipInvariant == Spec => []Ownership
<1>1. Ownership /\ [Next]_vars => Ownership'
  <2>1. ASSUME Ownership, UNCHANGED vars PROVE Ownership'
    <3>1. Held' = Held
      BY <2>1 DEF Held, vars, gate
    <3> QED
      BY <2>1, <3>1 DEF Ownership, vars, gate, MayHold, HoldingPhases, Leaks
  <2> QED
    BY <2>1, OwnershipStep DEF Next
<1> QED
  BY <1>1, OwnershipInit, PTL DEF Spec

\* UnitsAreRelays for any requests and any capacity: the gate's count is the
\* number of reservations out, whatever goes wrong.
THEOREM AccountsBalance == Spec => []UnitsAreRelays
<1>1. Ownership => UnitsAreRelays
  BY DEF Ownership, UnitsAreRelays, Held
<1> QED
  BY <1>1, OwnershipInvariant, PTL

\* ReservationReturnedUnlessRaised for any requests and any capacity: every way
\* of ending, but the two exceptions that pass by the release, gives the units
\* back.
THEOREM ReservationsComeBack == Spec => []ReservationReturnedUnlessRaised
<1>1. Ownership => ReservationReturnedUnlessRaised
  BY DEF Ownership, ReservationReturnedUnlessRaised, MayHold, HoldingPhases, Leaks
<1> QED
  BY <1>1, OwnershipInvariant, PTL

-----------------------------------------------------------------------------
(* The HTTP clients.                                                        *)

Clients ==
  /\ phase \in [Requests -> Phases]
  /\ DOMAIN mishap = Requests /\ mishap = [r \in Requests |-> mishap[r]]
  /\ client \in [Requests -> {"none", "open", "closed"}]
  /\ \A r \in Requests :
       /\ phase[r] \in {"idle", "body", "gate"} => client[r] = "none"
       /\ phase[r] = "ended" /\ client[r] = "open" => mishap[r] = "build"

LEMMA ClientsStep ==
  ASSUME Clients, NEW r \in Requests, Before(r) \/ Exchange(r)
  PROVE  Clients'
<1> USE DEF EndsEarly, RaisesEarly, Meets, StreamEnds, CompleteRaises, StartsSend, ClosesClient,
      Moves, Clients, Phases
<1>1. CASE Before(r)
  <2>1. CASE Receives(r)
    BY <2>1 DEF Receives
  <2>2. CASE GatedBodyArrives(r) \/ GatedBodyBreaks(r)
    BY <2>2 DEF GatedBodyArrives, GatedBodyBreaks
  <2>3. CASE GateAnswers(r) \/ GateCancelled(r)
    BY <2>3 DEF GateAnswers, GateCancelled
  <2>4. CASE ImageBodyArrives(r) \/ ImageBodyBreaks(r)
    BY <2>4 DEF ImageBodyArrives, ImageBodyBreaks
  <2> QED
    BY <1>1, <2>1, <2>2, <2>3, <2>4 DEF Before
<1>2. CASE Exchange(r)
  <2>1. CASE RequestStreamBreaks(r) \/ SendCancelled(r) \/ SendFails(r)
    BY <2>1 DEF RequestStreamBreaks, SendCancelled, SendFails
  <2>2. CASE Responds(r) \/ ChunkArrives(r) \/ ChunkSent(r)
    BY <2>2 DEF Responds, ChunkArrives, ChunkSent
  <2>3. CASE UpstreamEnds(r) \/ UpstreamBreaks(r) \/ ClientLeaves(r)
    BY <2>3 DEF UpstreamEnds, UpstreamBreaks, ClientLeaves
  <2>4. CASE ClientLeavesInSend(r) \/ GeneratorClosed(r)
    BY <2>4 DEF ClientLeavesInSend, GeneratorClosed
  <2>5. CASE ReadFails(r) \/ ReadCancelled(r) \/ ReadEnds(r)
    BY <2>5 DEF ReadFails, ReadCancelled, ReadEnds
  <2> QED
    BY <1>2, <2>1, <2>2, <2>3, <2>4, <2>5 DEF Exchange
<1> QED
  BY <1>1, <1>2

THEOREM ClientsInvariant == Spec => []Clients
<1>1. Init => Clients
  BY DEF Init, Clients, Phases
<1>2. Clients /\ [Next]_vars => Clients'
  <2>1. ASSUME Clients, UNCHANGED vars PROVE Clients'
    BY <2>1 DEF Clients, vars
  <2> QED
    BY <2>1, ClientsStep DEF Next
<1> QED
  BY <1>1, <1>2, PTL DEF Spec

\* ClientsClosed: unless its request could not be built, no way of ending leaves
\* a connection to upstream open.
THEOREM ConnectionsClose == Spec => []ClientsClosed
<1>1. Clients => ClientsClosed
  BY DEF Clients, ClientsClosed
<1> QED
  BY <1>1, ClientsInvariant, PTL

\* TypeOK: every variable keeps its type, and no exchange writes more than
\* four records.
THEOREM TypeCorrectness == Spec => []TypeOK
<1>1. Story => \A r \in Requests : Len(log[r]) <= 4
  <2> SUFFICES ASSUME Story, NEW r \in Requests PROVE Len(log[r]) <= 4
    OBVIOUS
  <2>1. log[r] \in Seq(Events) /\ Ordered(log[r], Reached(phase[r]))
    BY DEF Story
  <2>2. CASE Len(log[r]) = 0
    BY <2>2
  <2>3. CASE Len(log[r]) # 0
    <3>1. Len(log[r]) \in 1 .. Len(log[r])
      BY <2>1, <2>3
    <3>2. Len(log[r]) <= Rank(log[r][Len(log[r])])
      BY <2>1, <3>1 DEF Ordered
    <3>3. Rank(log[r][Len(log[r])]) \in 1 .. 4
      BY <2>1, <3>1, RankOfEvents
    <3> QED
      BY <2>1, <3>2, <3>3
  <2> QED
    BY <2>2, <2>3
<1>2. Story /\ Ownership /\ Clients => TypeOK
  BY <1>1 DEF Story, Ownership, Clients, TypeOK
<1> QED
  BY <1>2, StoryInvariant, OwnershipInvariant, ClientsInvariant, PTL

-----------------------------------------------------------------------------
(* Final records.                                                           *)

\* The requests that met nothing worse than a cancelled wait for upstream.
Spared(r) == mishap[r] \in {"none", "cancel"}

Recorded ==
  /\ log \in [Requests -> Seq(Events)]
  /\ phase \in [Requests -> Phases]
  /\ mishap \in [Requests -> MishapNames \cup {"none"}]
  /\ \A r \in Logged : phase[r] \in {"ended", "broken"} /\ Spared(r) => HasFinal(log[r])
  /\ \A r \in Requests : phase[r] = "abandoned" => ~Spared(r)

\* A step of r to p; where a final record is due, it writes one.
LEMMA RecordedMoves ==
  ASSUME Recorded, Story', NEW r \in Requests, NEW p \in Phases, Moves(r, p), Suffers(r),
         \A q \in Requests \ {r} : log'[q] = log[q],
         r \in Logged /\ p \in {"ended", "broken"} /\ Spared(r)' => HasFinal(log'[r]),
         p = "abandoned" => ~Spared(r)'
  PROVE  Recorded'
<1>1. /\ phase' \in [Requests -> Phases]
      /\ phase'[r] = p
      /\ \A q \in Requests \ {r} : phase'[q] = phase[q]
  BY DEF Recorded, Moves
<1>0. /\ mishap' \in [Requests -> MishapNames \cup {"none"}]
      /\ \A q \in Requests \ {r} : Spared(q)' <=> Spared(q)
  BY DEF Suffers, Spared
<1>2. ASSUME NEW q \in Logged, phase'[q] \in {"ended", "broken"}, Spared(q)'
      PROVE  HasFinal(log'[q])
  <2>1. CASE q = r
    BY <2>1, <1>1, <1>2
  <2>2. CASE q # r
    <3>1. q \in Requests \ {r}
      BY <2>2, LoggedAssumption
    <3>2. HasFinal(log[q])
      BY <3>1, <1>0, <1>1, <1>2 DEF Recorded
    <3> QED
      BY <3>1, <3>2
  <2> QED
    BY <2>1, <2>2
<1>3. \A q \in Requests : phase'[q] = "abandoned" => ~Spared(q)'
  BY <1>0, <1>1 DEF Recorded
<1>4. log' \in [Requests -> Seq(Events)]
  BY DEF Story
<1>5. \A q \in Logged :
        (phase[q] \in {"ended", "broken"} /\ Spared(q) => HasFinal(log[q]))'
  BY <1>2 DEF HasFinal, FinalEvents
<1>6. \A q \in Requests : (phase[q] = "abandoned" => ~Spared(q))'
  BY <1>3
<1> QED
  BY <1>0, <1>1, <1>4, <1>5, <1>6 DEF Recorded

LEMMA RecordedStep ==
  ASSUME Recorded, Story, Story', Ownership, NEW r \in Requests, Before(r) \/ Exchange(r)
  PROVE  Recorded'
<1> USE DEF EndsEarly, StreamEnds, RaisesEarly
<1>0. Suffers(r)
  BY StepsSuffer
<1>1. \A q \in Requests \ {r} : log'[q] = log[q]
  <2>1. UNCHANGED log \/ \E s : Records(r, s)
    BY DEF Before, Receives, GatedBodyArrives, GatedBodyBreaks, GateAnswers, GateCancelled,
      ImageBodyArrives, ImageBodyBreaks, StartsSend, CompleteRaises, Exchange, RequestStreamBreaks,
      SendCancelled, SendFails, Responds, ChunkArrives, ChunkSent, UpstreamEnds,
      UpstreamBreaks, ClientLeaves, ClientLeavesInSend, GeneratorClosed, ReadFails,
      ReadCancelled, ReadEnds
  <2> QED
    BY <2>1 DEF Records, Recorded
\* A step that writes a final event.
<1>2. ASSUME NEW e \in FinalEvents, NEW p \in {"ended", "broken"},
             Moves(r, p), Records(r, Finalize(r, log[r], e))
      PROVE  Recorded'
  <2>1. log'[r] = Finalize(r, log[r], e) /\ log[r] \in Seq(Events)
    BY <1>2 DEF Records, Recorded
  <2>2. r \in Logged => HasFinal(log'[r])
    BY <2>1, FinalizeRecords
  <2>3. p \in Phases /\ p # "abandoned"
    BY DEF Phases
  <2> QED
    BY <1>1, <1>2, <2>2, <2>3, <1>0, RecordedMoves
\* A step that ends nothing.
<1>3. ASSUME NEW p \in {"body", "gate", "sending", "reading", "yielding", "buffering"}, Moves(r, p)
      PROVE  Recorded'
  <2>1. p \in Phases \ {"abandoned", "ended", "broken"}
    BY DEF Phases
  <2> QED
    BY <1>1, <1>3, <2>1, <1>0, RecordedMoves
\* A step of a request that is not spared.
<1>4. ASSUME ~Spared(r)', NEW p \in {"ended", "abandoned"}, Moves(r, p)
      PROVE  Recorded'
  <2>1. p \in Phases
    BY DEF Phases
  <2> QED
    BY <1>1, <1>4, <2>1, <1>0, RecordedMoves
<1>5. {"exchange_completed", "exchange_failed", "exchange_cancelled"} = FinalEvents
  BY DEF FinalEvents
<1>6. ASSUME NEW m \in {"build", "body", "parse", "gate", "stream", "redact", "abandon"}, Meets(r, m)
      PROVE  ~Spared(r)'
  <2>1. mishap'[r] = m
    BY <1>6 DEF Meets, Recorded
  <2> QED
    BY <2>1 DEF Spared
<1>7. ASSUME NEW s, StartsSend(r, s) PROVE Recorded'
  <2>1. Moves(r, "sending") \/ (Moves(r, "ended") /\ Meets(r, "build"))
    BY <1>7 DEF StartsSend
  <2> QED
    BY <2>1, <1>3, <1>4, <1>6
<1>8. CASE Before(r)
  <2>1. CASE Receives(r)
    BY <2>1, <1>3, <1>7 DEF Receives
  <2>2. CASE GatedBodyArrives(r)
    BY <2>2, <1>2, <1>3, <1>4, <1>5, <1>6, <1>7 DEF GatedBodyArrives
  <2>3. CASE GatedBodyBreaks(r) \/ GateCancelled(r)
    BY <2>3, <1>4, <1>6 DEF GatedBodyBreaks, GateCancelled
  <2>4. CASE GateAnswers(r)
    BY <2>4, <1>2, <1>5, <1>7 DEF GateAnswers
  <2>5. CASE ImageBodyArrives(r) \/ ImageBodyBreaks(r)
    BY <2>5, <1>2, <1>4, <1>5, <1>6, <1>7 DEF ImageBodyArrives, ImageBodyBreaks
  <2> QED
    BY <1>8, <2>1, <2>2, <2>3, <2>4, <2>5 DEF Before
<1>9. CASE Exchange(r)
  <2>1. CASE RequestStreamBreaks(r) \/ SendFails(r) \/ SendCancelled(r)
    BY <2>1, <1>2, <1>5 DEF RequestStreamBreaks, SendFails, SendCancelled
  <2>2. CASE Responds(r) \/ ChunkArrives(r) \/ ChunkSent(r)
    BY <2>2, <1>3 DEF Responds, ChunkArrives, ChunkSent
  <2>3. CASE UpstreamEnds(r) \/ ClientLeaves(r)
    BY <2>3, <1>2, <1>4, <1>5, <1>6 DEF UpstreamEnds, ClientLeaves, CompleteRaises
  <2>4. CASE UpstreamBreaks(r) \/ ClientLeavesInSend(r)
    BY <2>4, <1>4, <1>6 DEF UpstreamBreaks, ClientLeavesInSend
  <2>5. CASE GeneratorClosed(r)
    <3>1. ~Spared(r)'
      BY <2>5 DEF GeneratorClosed, Recorded, Spared
    <3> QED
      BY <2>5, <3>1, <1>4 DEF GeneratorClosed
  <2>6. CASE ReadFails(r) \/ ReadEnds(r) \/ ReadCancelled(r)
    BY <2>6, <1>2, <1>4, <1>5, <1>6 DEF ReadFails, ReadEnds, ReadCancelled, CompleteRaises
  <2> QED
    BY <1>9, <2>1, <2>2, <2>3, <2>4, <2>5, <2>6 DEF Exchange
<1> QED
  BY <1>8, <1>9

\* RecordedUnlessMishap for any requests: an exchange that met nothing worse
\* than a cancelled wait for upstream has its final record, whatever the others
\* met.
THEOREM RecordsAreComplete == Spec => []RecordedUnlessMishap
<1>1. Init => Recorded
  BY LoggedAssumption DEF Init, Recorded, Phases
<1>2. Recorded /\ Story /\ Story' /\ Ownership /\ [Next]_vars => Recorded'
  <2>1. ASSUME Recorded, UNCHANGED vars PROVE Recorded'
    BY <2>1 DEF Recorded, vars, HasFinal, FinalEvents, Spared
  <2> QED
    BY <2>1, RecordedStep DEF Next
<1>3. Recorded => RecordedUnlessMishap
  BY DEF Recorded, RecordedUnlessMishap, Spared
<1> QED
  BY <1>1, <1>2, <1>3, StoryInvariant, OwnershipInvariant, PTL DEF Spec

=============================================================================
