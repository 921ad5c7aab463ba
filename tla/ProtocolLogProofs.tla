------------------------- MODULE ProtocolLogProofs -------------------------
(***************************************************************************)
(* What becomes of records, for any size of the queue and any number of   *)
(* them: none vanishes, their order holds, and close() flushes. What they  *)
(* tell of exchanges, for bodies of any length, cut anywhere, and JSON of  *)
(* any depth: a capture is always that of the beginning of what has passed *)
(* (ExchangeInv), and of a value redaction shows what the reference says,  *)
(* step by step along every way into it (GoesAlong).                       *)
(***************************************************************************)
EXTENDS ProtocolLog, SequenceTheorems, WellFoundedInduction, TLAPS

\* The sentinel is the last that goes into the queue and ends the thread.
SentinelIsLast ==
  /\ Sentinel \in Members(Way) <=> runtime = "joining" /\ thread = "running"
  /\ thread = "ended" => queue = <<>> /\ hand = Nothing /\ runtime \in {"joining", "closed"}
  /\ runtime = "closed" => thread = "ended"

IInv == TypeOK /\ NothingVanishes /\ SentinelIsLast /\ dropped \subseteq 1 .. emitted

Items == Records \cup {Sentinel}

-----------------------------------------------------------------------------
(* Sequences.                                                               *)

\* Appending something larger than every member keeps the order.
LEMMA AppendAscends ==
  ASSUME NEW S, S \subseteq Int, NEW s \in Seq(S), NEW r \in Int
  PROVE  /\ Members(Append(s, r)) = Members(s) \cup {r}
         /\ Ascending(s) /\ (\A x \in Members(s) : x < r) => Ascending(Append(s, r))
<1>1. /\ DOMAIN s = 1 .. Len(s) /\ Len(s) \in Nat
      /\ DOMAIN Append(s, r) = 1 .. Len(s) + 1
      /\ \A i \in 1 .. Len(s) : Append(s, r)[i] = s[i] /\ s[i] \in S
      /\ Append(s, r)[Len(s) + 1] = r
  OBVIOUS
<1>. DEFINE t == Append(s, r)
<1>. HIDE DEF t
<1>2. Members(t) = Members(s) \cup {r}
  BY <1>1 DEF Members, t
<1>3. ASSUME Ascending(s), \A x \in Members(s) : x < r PROVE Ascending(t)
  BY <1>1, <1>3 DEF Ascending, Members, t
<1>. QED
  BY <1>2, <1>3 DEF t

\* An append to the last of three sequences is an append to the whole.
LEMMA AppendToLast ==
  ASSUME NEW S, NEW a \in Seq(S), NEW b \in Seq(S), NEW c \in Seq(S), NEW r \in S
  PROVE  /\ a \o b \o c \in Seq(S)
         /\ a \o b \o Append(c, r) = Append(a \o b \o c, r)
<1>1. a \o b \in Seq(S) /\ a \o b \o c \in Seq(S)
  BY ConcatProperties
<1>2. ASSUME NEW d \in Seq(S) PROVE Append(d, r) = d \o <<r>>
  OBVIOUS
<1>3. (a \o b) \o (c \o <<r>>) = ((a \o b) \o c) \o <<r>>
  BY <1>1, ConcatAssociative
<1>. QED
  BY <1>1, <1>2, <1>3

\* A member that goes from the head of the last sequence to the middle one, or
\* from there to the end of the first, leaves the whole as it is.
LEMMA HandedOn ==
  ASSUME NEW S, NEW a \in Seq(S), NEW c \in Seq(S), NEW r \in S
  PROVE  /\ c # <<>> => a \o <<>> \o c = a \o <<Head(c)>> \o Tail(c)
         /\ Append(a, r) \o <<>> \o c = a \o <<r>> \o c
<1>1. ASSUME c # <<>> PROVE a \o <<>> \o c = a \o <<Head(c)>> \o Tail(c)
  <2>1. Head(c) \in S /\ Tail(c) \in Seq(S)
    BY <1>1
  <2>2. c = <<Head(c)>> \o Tail(c)
    BY <1>1
  <2>3. a \o <<>> = a
    BY ConcatEmptySeq
  <2>4. a \o (<<Head(c)>> \o Tail(c)) = a \o <<Head(c)>> \o Tail(c)
    BY <2>1, ConcatAssociative
  <2>. QED
    BY <2>2, <2>3, <2>4
<1>2. Append(a, r) \o <<>> = Append(a, r) /\ Append(a, r) = a \o <<r>>
  BY ConcatEmptySeq
<1>. QED
  BY <1>1, <1>2

-----------------------------------------------------------------------------
(* The invariant.                                                           *)

LEMMA WayTyped ==
  ASSUME TypeOK
  PROVE  /\ written \in Seq(Items) /\ InHand \in Seq(Items) /\ queue \in Seq(Items)
         /\ Way \in Seq(Items) /\ Items \subseteq Int
<1>1. written \in Seq(Items) /\ InHand \in Seq(Items) /\ queue \in Seq(Items)
  <2>1. Records \subseteq Items
    BY DEF Items
  <2>2. written \in Seq(Items)
    BY <2>1, SeqMonotonic DEF TypeOK
  <2>3. hand # Nothing => hand \in Items
    BY DEF TypeOK, Items
  <2>4. InHand \in Seq(Items)
    BY <2>3 DEF InHand
  <2>. QED
    BY <2>2, <2>4 DEF TypeOK, Items
<1>2. Way \in Seq(Items)
  BY <1>1, ConcatProperties DEF Way
<1>3. Items \subseteq Int
  BY MaxRecordsAssumption DEF Items, Records, Sentinel
<1>. QED
  BY <1>1, <1>2, <1>3

LEMMA Initially == Init => IInv
<1>. SUFFICES ASSUME Init PROVE IInv
  OBVIOUS
<1>1. TypeOK
  BY SizeAssumption, MaxRecordsAssumption DEF Init, TypeOK, Records, Nothing
<1>2. Way = <<>>
  BY DEF Init, Way, InHand
<1>3. Members(Way) = {} /\ Ascending(Way)
  BY <1>2 DEF Members, Ascending
<1>. QED
  BY <1>1, <1>3 DEF Init, IInv, NothingVanishes, SentinelIsLast, Kept

\* A record that finds room is the last of the way, one that does not is dropped.
LEMMA EmitsStep == ASSUME IInv, Emits PROVE IInv'
<1>. DEFINE r == emitted + 1
<1>1. r \in Records /\ r \in Items /\ r \in Int /\ emitted \in Nat
  BY MaxRecordsAssumption DEF IInv, TypeOK, Emits, Records, Items
<1>2. /\ emitted' = r /\ hand' = hand /\ written' = written /\ runtime' = "open" /\ runtime = "open"
      /\ thread' = thread
  BY DEF Emits
<1>3. Sentinel \notin Members(Way) /\ thread # "ended" /\ dropped \subseteq 1 .. emitted
  BY <1>2 DEF IInv, SentinelIsLast
<1>4. CASE Len(queue) < Size /\ queue' = Append(queue, r) /\ UNCHANGED dropped
  <2>1. Way' = Append(Way, r)
    <3>1. InHand' = InHand
      BY <1>2 DEF InHand
    <3>2. Way' = written \o InHand \o Append(queue, r)
      BY <3>1, <1>2, <1>4 DEF Way
    <3>3. written \in Seq(Items) /\ InHand \in Seq(Items) /\ queue \in Seq(Items)
      BY WayTyped DEF IInv
    <3>. QED
      BY <3>2, <3>3, <1>1, AppendToLast DEF Way
  <2>2. \A x \in Members(Way) : x < r
    BY <1>1, <1>3 DEF IInv, NothingVanishes, Kept
  <2>3. Members(Way') = Members(Way) \cup {r} /\ Ascending(Way')
    BY <2>1, <2>2, <1>1, WayTyped, AppendAscends DEF IInv, NothingVanishes
  <2>4. Kept' = Kept \cup {r}
    BY <1>1, <1>2, <1>3, <1>4 DEF Kept
  <2>5. r # Sentinel
    BY <1>1, MaxRecordsAssumption DEF Records, Sentinel
  <2>6. TypeOK'
    <3>1. queue' \in Seq(Items) /\ Len(queue') = Len(queue) + 1
      BY <1>1, <1>4, WayTyped DEF IInv
    <3>. QED
      BY <3>1, <1>1, <1>2, <1>4, SizeAssumption, MaxRecordsAssumption DEF IInv, TypeOK, Items, Records
  <2>7. NothingVanishes'
    BY <2>3, <2>4, <2>5 DEF IInv, NothingVanishes, Sentinel
  <2>8. SentinelIsLast'
    BY <2>3, <2>5, <1>2, <1>3 DEF SentinelIsLast, Sentinel
  <2>. QED
    BY <2>6, <2>7, <2>8, <1>1, <1>2, <1>3, <1>4 DEF IInv
<1>5. CASE Len(queue) = Size /\ dropped' = dropped \cup {r} /\ UNCHANGED queue
  <2>1. Way' = Way
    BY <1>2, <1>5 DEF Way, InHand
  <2>2. Kept' = Kept
    BY <1>1, <1>2, <1>5 DEF Kept
  <2>3. TypeOK'
    BY <1>1, <1>2, <1>5, MaxRecordsAssumption DEF IInv, TypeOK, Records
  <2>. QED
    BY <2>1, <2>2, <2>3, <1>1, <1>2, <1>3, <1>5
    DEF IInv, NothingVanishes, SentinelIsLast, Members, Ascending, Sentinel
<1>. QED
  BY <1>4, <1>5 DEF Emits, Enqueue

\* The sentinel goes behind every record.
LEMMA StopStep == ASSUME IInv, StopAttempts PROVE IInv'
<1>1. /\ queue' = Append(queue, Sentinel) /\ Len(queue) < Size /\ runtime = "closing" /\ runtime' = "joining"
      /\ emitted' = emitted /\ dropped' = dropped /\ hand' = hand /\ written' = written /\ thread' = thread
  BY DEF StopAttempts
<1>2. Sentinel \notin Members(Way) /\ thread = "running"
  BY <1>1 DEF IInv, SentinelIsLast, TypeOK
<1>3. Sentinel \in Items /\ Sentinel \in Int
  BY MaxRecordsAssumption DEF Items, Sentinel
<1>4. Way' = Append(Way, Sentinel)
  <2>1. InHand' = InHand
    BY <1>1 DEF InHand
  <2>2. Way' = written \o InHand \o Append(queue, Sentinel)
    BY <2>1, <1>1 DEF Way
  <2>3. written \in Seq(Items) /\ InHand \in Seq(Items) /\ queue \in Seq(Items)
    BY WayTyped DEF IInv
  <2>. QED
    BY <2>2, <2>3, <1>3, AppendToLast DEF Way
<1>5. \A x \in Members(Way) : x < Sentinel
  BY <1>2, MaxRecordsAssumption DEF IInv, NothingVanishes, Kept, TypeOK, Sentinel
<1>6. Members(Way') = Members(Way) \cup {Sentinel} /\ Ascending(Way')
  BY <1>3, <1>4, <1>5, WayTyped, AppendAscends DEF IInv, NothingVanishes
<1>7. TypeOK'
  <2>1. queue' \in Seq(Items) /\ Len(queue') = Len(queue) + 1
    BY <1>1, <1>3, WayTyped DEF IInv
  <2>. QED
    BY <2>1, <1>1, SizeAssumption DEF IInv, TypeOK, Items
<1>8. NothingVanishes'
  BY <1>1, <1>2, <1>6 DEF IInv, NothingVanishes, Kept, Sentinel
<1>9. SentinelIsLast'
  BY <1>1, <1>2, <1>6 DEF SentinelIsLast, Sentinel
<1>. QED
  BY <1>1, <1>7, <1>8, <1>9 DEF IInv

\* The thread ends with nothing left, or hands a record on.
LEMMA TakesStep == ASSUME IInv, Takes PROVE IInv'
<1>1. /\ thread = "running" /\ hand = Nothing /\ queue # <<>> /\ queue' = Tail(queue)
      /\ emitted' = emitted /\ dropped' = dropped /\ written' = written /\ runtime' = runtime
  BY DEF Takes
<1>2. /\ written \in Seq(Items) /\ queue \in Seq(Items) /\ Items \subseteq Int
      /\ Head(queue) \in Items /\ Tail(queue) \in Seq(Items) /\ Len(Tail(queue)) = Len(queue) - 1
  BY <1>1, WayTyped DEF IInv
<1>3. queue' \in Seq(Records \cup {Sentinel}) /\ Len(queue') <= Size
  BY <1>1, <1>2, SizeAssumption DEF IInv, TypeOK, Items
<1>4. CASE Head(queue) = Sentinel /\ thread' = "ended" /\ UNCHANGED hand
  <2>1. Way = written \o queue
    BY <1>1, <1>2, ConcatEmptySeq DEF Way, InHand
  <2>2. Tail(queue) = <<>>
    <3>1. SUFFICES ASSUME Tail(queue) # <<>> PROVE FALSE
      OBVIOUS
    <3>2. Len(queue) >= 2 /\ queue[1] = Sentinel /\ queue[2] \in Items
      BY <1>2, <1>4, <3>1
    <3>3. /\ Len(written) + 1 \in DOMAIN Way /\ Len(written) + 2 \in DOMAIN Way
          /\ Way[Len(written) + 1] = queue[1] /\ Way[Len(written) + 2] = queue[2]
      BY <2>1, <3>2, <1>2, ConcatProperties, LenProperties
    <3>4. Len(written) + 1 < Len(written) + 2
      BY <1>2
    <3>5. Sentinel < queue[2]
      BY <3>2, <3>3, <3>4 DEF IInv, NothingVanishes, Ascending
    <3>. QED
      BY <3>2, <3>5, MaxRecordsAssumption DEF Items, Records, Sentinel
  <2>3. Way' = written
    BY <1>1, <1>2, <1>4, <2>2, ConcatEmptySeq DEF Way, InHand
  <2>4. queue = <<Sentinel>>
    <3>1. queue = <<Head(queue)>> \o Tail(queue)
      BY <1>1, <1>2
    <3>2. <<Head(queue)>> \o <<>> = <<Head(queue)>>
      BY <1>2, ConcatEmptySeq
    <3>. QED
      BY <3>1, <3>2, <1>4, <2>2
  <2>5. Way = Append(written, Sentinel)
    BY <2>1, <2>4, <1>2
  <2>6. Sentinel \in Int /\ Members(Way) = Members(written) \cup {Sentinel}
    <3>1. Sentinel \in Int
      BY MaxRecordsAssumption DEF Sentinel
    <3>. QED
      BY <3>1, <2>5, <1>2, AppendAscends
  <2>7. Sentinel \notin Members(written)
    BY MaxRecordsAssumption DEF IInv, TypeOK, Members, Records, Sentinel
  <2>8. Ascending(written)
    <3>1. /\ DOMAIN written = 1 .. Len(written) /\ Len(written) \in Nat
          /\ DOMAIN Way = 1 .. Len(written) + 1
          /\ \A i \in 1 .. Len(written) : Way[i] = written[i]
      BY <2>5, <1>2
    <3>. QED
      BY <3>1 DEF IInv, NothingVanishes, Ascending
  <2>9. runtime = "joining"
    BY <2>6, <1>1 DEF IInv, SentinelIsLast
  <2>10. TypeOK'
    BY <1>1, <1>3, <1>4 DEF IInv, TypeOK, Records, Sentinel
  <2>11. NothingVanishes'
    BY <2>3, <2>6, <2>7, <2>8, <1>1 DEF IInv, NothingVanishes, Kept, Sentinel
  <2>12. SentinelIsLast'
    BY <2>2, <2>3, <2>7, <2>9, <1>1, <1>4 DEF SentinelIsLast, Sentinel, Nothing
  <2>. QED
    BY <2>10, <2>11, <2>12, <1>1 DEF IInv
<1>5. CASE Head(queue) # Sentinel /\ hand' = Head(queue) /\ UNCHANGED thread
  <2>1. hand' \in Records /\ hand' # Nothing
    BY <1>2, <1>5 DEF Items, Records, Nothing
  <2>2. Way' = Way
    BY <1>1, <1>2, <1>5, <2>1, HandedOn DEF Way, InHand, Nothing
  <2>3. TypeOK'
    BY <1>1, <1>3, <1>5, <2>1 DEF IInv, TypeOK, Records, Sentinel
  <2>4. NothingVanishes'
    BY <1>1, <2>2 DEF IInv, NothingVanishes, Kept, Sentinel, Members, Ascending
  <2>5. SentinelIsLast'
    BY <1>1, <1>5, <2>2 DEF IInv, SentinelIsLast, Sentinel, Members
  <2>. QED
    BY <2>3, <2>4, <2>5, <1>1 DEF IInv
<1>. QED
  BY <1>4, <1>5 DEF Takes

LEMMA WritesStep == ASSUME IInv, Writes PROVE IInv'
<1>1. /\ hand # Nothing /\ written' = Append(written, hand) /\ hand' = Nothing
      /\ emitted' = emitted /\ dropped' = dropped /\ queue' = queue /\ runtime' = runtime /\ thread' = thread
  BY DEF Writes
<1>2. hand \in Records /\ hand \in Items
  BY <1>1 DEF IInv, TypeOK, Items
<1>3. Way' = Way
  <2>1. InHand = <<hand>> /\ InHand' = <<>>
    BY <1>1 DEF InHand
  <2>2. written \in Seq(Items) /\ queue \in Seq(Items)
    BY WayTyped DEF IInv
  <2>3. Append(written, hand) \o <<>> \o queue = written \o <<hand>> \o queue
    BY <2>2, <1>2, HandedOn
  <2>. QED
    BY <2>1, <2>3, <1>1 DEF Way
<1>4. TypeOK'
  BY <1>1, <1>2 DEF IInv, TypeOK, Records, Nothing, Sentinel
<1>5. NothingVanishes'
  BY <1>1, <1>3 DEF IInv, NothingVanishes, Kept, Sentinel, Members, Ascending
<1>6. SentinelIsLast'
  BY <1>1, <1>3 DEF IInv, SentinelIsLast, Sentinel, Members, Nothing
<1>. QED
  BY <1>1, <1>4, <1>5, <1>6 DEF IInv

LEMMA Inductive == IInv /\ [Next]_vars => IInv'
<1>. SUFFICES ASSUME IInv, [Next]_vars PROVE IInv'
  OBVIOUS
<1>1. CASE CloseBegins
  BY <1>1 DEF CloseBegins, IInv, TypeOK, NothingVanishes, SentinelIsLast, Way, InHand, Kept, Members,
              Ascending, Records, Sentinel, Nothing
<1>2. CASE CloseEnds
  BY <1>2 DEF CloseEnds, IInv, TypeOK, NothingVanishes, SentinelIsLast, Way, InHand, Kept, Members,
              Ascending, Records, Sentinel, Nothing
<1>3. CASE UNCHANGED vars
  BY <1>3 DEF vars, IInv, TypeOK, NothingVanishes, SentinelIsLast, Way, InHand, Kept, Members,
              Ascending, Records, Sentinel, Nothing
<1>. QED
  BY <1>1, <1>2, <1>3, EmitsStep, StopStep, TakesStep, WritesStep DEF Next

-----------------------------------------------------------------------------

THEOREM Invariance == Spec => []IInv
  BY Initially, Inductive, PTL DEF Spec

\* Every variable keeps its type; the queue is never longer than it may be.
THEOREM TypeCorrectness == Spec => []TypeOK
<1>1. IInv => TypeOK
  BY DEF IInv
<1>. QED
  BY <1>1, Invariance, PTL

\* Each record that was emitted is written, on its way or dropped, and none
\* overtakes an earlier one (_DroppingQueueHandler and QueueListener).
THEOREM RecordsStayOnTheirWay == Spec => []NothingVanishes
<1>1. IInv => NothingVanishes
  BY DEF IInv
<1>. QED
  BY <1>1, Invariance, PTL

\* When close() has returned, everything that was not dropped is written, in order.
THEOREM CloseFlushes == Spec => []FlushedOnClose
<1>1. IInv => FlushedOnClose
  <2>. SUFFICES ASSUME IInv, runtime = "closed" PROVE Ascending(written) /\ Members(written) = Kept
    BY DEF FlushedOnClose
  <2>1. queue = <<>> /\ hand = Nothing /\ Sentinel \notin Members(Way)
    BY DEF IInv, SentinelIsLast
  <2>2. Way = written
    BY <2>1, WayTyped, ConcatEmptySeq DEF Way, InHand, IInv
  <2>. QED
    BY <2>1, <2>2 DEF IInv, NothingVanishes
<1>. QED
  BY <1>1, Invariance, PTL

-----------------------------------------------------------------------------
(* JSON values: what redaction makes of them, and ways into them.           *)

\* A set that has 0, and with a number the next, has all.
LEMMA NumberByNumber ==
  ASSUME NEW S, 0 \in S, \A n \in Nat : n \in S => n + 1 \in S
  PROVE  Nat \subseteq S
<1>. DEFINE others == Nat \ S
<1>1. SUFFICES ASSUME others # {} PROVE FALSE
  OBVIOUS
<1>2. PICK x \in others : \A y \in others : ~(<<y, x>> \in OpToRel(<, Nat))
  BY <1>1, NatLessThanWellFounded, WFMin
<1>3. x - 1 \in Nat /\ x - 1 < x /\ (x - 1) + 1 = x
  OBVIOUS
<1>4. x - 1 \in S
  BY <1>2, <1>3 DEF OpToRel
<1>. QED
  BY <1>3, <1>4

ShownItem(v, i, additional, inner) ==
  IF i \in DOMAIN v.names /\ IsSensitiveName(v.names[i], additional) THEN Redacted ELSE inner

\* The recursion of RedactJsonValue has a solution: one for the values nested less
\* deep than n, for each n, and these agree.
LEMMA RedactionUnfolds ==
  ASSUME NEW additional, NEW value \in JsonValues
  PROVE  RedactJsonValue(value, additional) =
           [value EXCEPT !.items = [i \in DOMAIN value.items |->
              ShownItem(value, i, additional, RedactJsonValue(value.items[i], additional))]]
<1>. DEFINE Shown(v, i, g) == ShownItem(v, i, additional, g[v.items[i]])
            Of(g, v) == [v EXCEPT !.items = [i \in DOMAIN v.items |-> Shown(v, i, g)]]
            Is(g) == g = [v \in JsonValues |-> Of(g, v)]
            redact == CHOOSE g : Is(g)
            Below(n, g) == \A v \in JsonValues : Depth[v] < n => g[v] = Of(g, v)
<1>1. \A v : RedactJsonValue(v, additional) = redact[v]
  BY DEF RedactJsonValue, ShownItem
<1>2. ASSUME NEW g, NEW h, NEW v, \A i \in DOMAIN v.items : g[v.items[i]] = h[v.items[i]]
      PROVE  Of(g, v) = Of(h, v)
  BY <1>2
<1>3. \A n \in Nat : \E g : Below(n, g)
  <2>. DEFINE reached == {n \in Nat : \E g : Below(n, g)}
  <2>1. 0 \in reached
    <3>1. Below(0, [v \in JsonValues |-> v])
      <4>. HIDE DEF Of
      <4>. QED
        BY JsonAssumption
    <3>. QED
      <4>. HIDE DEF Below
      <4>. QED
        BY <3>1
  <2>2. ASSUME NEW n \in Nat, n \in reached PROVE n + 1 \in reached
    <3>1. PICK g : Below(n, g)
      BY <2>2
    <3>. DEFINE h == [v \in JsonValues |-> Of(g, v)]
    <3>2. ASSUME NEW v \in JsonValues, Depth[v] < n + 1 PROVE h[v] = Of(h, v)
      <4>1. ASSUME NEW i \in DOMAIN v.items PROVE g[v.items[i]] = h[v.items[i]]
        <5>1. v.items[i] \in JsonValues /\ Depth[v.items[i]] \in Nat /\ Depth[v] \in Nat /\ Depth[v.items[i]] < Depth[v]
          BY JsonAssumption
        <5>2. Depth[v.items[i]] < n
          BY <5>1, <3>2
        <5>3. h[v.items[i]] = Of(g, v.items[i]) /\ g[v.items[i]] = Of(g, v.items[i])
          <6>. HIDE DEF Of
          <6>. QED
            BY <5>1, <5>2, <3>1
        <5>. QED
          BY ONLY <5>3
      <4>2. Of(g, v) = Of(h, v)
        <5>. HIDE DEF h, Of
        <5>. QED
          BY <4>1, <1>2
      <4>3. h[v] = Of(g, v)
        <5>. HIDE DEF Of
        <5>. QED
          OBVIOUS
      <4>. QED
        BY ONLY <4>2, <4>3
    <3>3. Below(n + 1, h)
      <4>. HIDE DEF h, Of
      <4>. QED
        BY <3>2
    <3>. QED
      <4>. HIDE DEF Below
      <4>. QED
        BY <3>3
  <2>3. Nat \subseteq reached
    <3>. HIDE DEF reached
    <3>. QED
      BY <2>1, <2>2, NumberByNumber
  <2>. QED
    BY <2>3
<1>4. ASSUME NEW m \in Nat, NEW n \in Nat, NEW g, NEW h, Below(m, g), Below(n, h)
      PROVE  \A v \in JsonValues : Depth[v] < m /\ Depth[v] < n => g[v] = h[v]
  <2>. DEFINE agreed == {k \in Nat : \A v \in JsonValues : Depth[v] < k /\ Depth[v] < m /\ Depth[v] < n => g[v] = h[v]}
  <2>1. 0 \in agreed
    BY JsonAssumption
  <2>2. ASSUME NEW k \in Nat, k \in agreed PROVE k + 1 \in agreed
    <3>. SUFFICES ASSUME NEW v \in JsonValues, Depth[v] < k + 1, Depth[v] < m, Depth[v] < n PROVE g[v] = h[v]
      OBVIOUS
    <3>1. ASSUME NEW i \in DOMAIN v.items PROVE g[v.items[i]] = h[v.items[i]]
      <4>1. v.items[i] \in JsonValues /\ Depth[v.items[i]] \in Nat /\ Depth[v] \in Nat /\ Depth[v.items[i]] < Depth[v]
        BY JsonAssumption
      <4>2. Depth[v.items[i]] < k /\ Depth[v.items[i]] < m /\ Depth[v.items[i]] < n
        BY <4>1
      <4>. QED
        BY <4>1, <4>2, <2>2
    <3>2. Of(g, v) = Of(h, v)
      <4>. HIDE DEF Of
      <4>. QED
        BY <3>1, <1>2
    <3>3. g[v] = Of(g, v) /\ h[v] = Of(h, v)
      <4>. HIDE DEF Of
      <4>. QED
        BY <1>4
    <3>. QED
      BY ONLY <3>2, <3>3
  <2>3. Nat \subseteq agreed
    <3>. HIDE DEF agreed
    <3>. QED
      BY <2>1, <2>2, NumberByNumber
  <2>4. ASSUME NEW v \in JsonValues, Depth[v] < m, Depth[v] < n PROVE g[v] = h[v]
    <3>1. Depth[v] \in Nat /\ Depth[v] + 1 \in agreed /\ Depth[v] < Depth[v] + 1
      <4>. HIDE DEF agreed
      <4>. QED
        BY <2>3, JsonAssumption
    <3>. QED
      BY <3>1, <2>4
  <2>. QED
    BY <2>4
<1>5. \E f : Is(f)
  <2>. DEFINE G(n) == CHOOSE g : Below(n, g)
              f == [v \in JsonValues |-> G(Depth[v] + 1)[v]]
  <2>1. ASSUME NEW n \in Nat PROVE Below(n, G(n))
    <3>. HIDE DEF Below
    <3>. QED
      BY <1>3
  <2>2. ASSUME NEW v \in JsonValues PROVE f[v] = Of(f, v)
    <3>. DEFINE d == Depth[v] + 1
    <3>1. Depth[v] \in Nat /\ d \in Nat /\ Depth[v] < d
      BY JsonAssumption
    <3>2. f[v] = G(d)[v] /\ G(d)[v] = Of(G(d), v)
      <4>1. Below(d, G(d))
        <5>. HIDE DEF G, Below, d
        <5>. QED
          BY <3>1, <2>1
      <4>2. f[v] = G(d)[v]
        <5>. HIDE DEF G
        <5>. QED
          OBVIOUS
      <4>. QED
        <5>. HIDE DEF G, f, Of
        <5>. QED
          BY <4>1, <4>2, <3>1
    <3>3. ASSUME NEW i \in DOMAIN v.items PROVE G(d)[v.items[i]] = f[v.items[i]]
      <4>. DEFINE w == v.items[i]
                  e == Depth[w] + 1
      <4>1. w \in JsonValues /\ Depth[w] \in Nat /\ e \in Nat /\ Depth[w] < Depth[v] /\ Depth[w] < e /\ Depth[w] < d
        BY <3>1, JsonAssumption
      <4>2. Below(d, G(d)) /\ Below(e, G(e))
        <5>. HIDE DEF G, Below, d, e
        <5>. QED
          BY <3>1, <4>1, <2>1
      <4>3. G(d)[w] = G(e)[w]
        <5>. HIDE DEF G, Below, d, e, w
        <5>. QED
          BY <3>1, <4>1, <4>2, <1>4
      <4>4. f[w] = G(e)[w]
        <5>. HIDE DEF G, w
        <5>. QED
          BY <4>1
      <4>. QED
        BY ONLY <4>3, <4>4
    <3>4. Of(G(d), v) = Of(f, v)
      <4>. HIDE DEF G, f, Of, d
      <4>. QED
        BY <3>3, <1>2
    <3>. QED
      BY ONLY <3>2, <3>4
  <2>3. f = [v \in JsonValues |-> Of(f, v)]
    <3>1. f = [v \in JsonValues |-> f[v]]
      <4>. HIDE DEF G
      <4>. QED
        OBVIOUS
    <3>2. [v \in JsonValues |-> f[v]] = [v \in JsonValues |-> Of(f, v)]
      <4>. HIDE DEF f, Of
      <4>. QED
        BY <2>2
    <3>. QED
      BY ONLY <3>1, <3>2
  <2>. QED
    BY <2>3
<1>6. Is(redact)
  <2>. HIDE DEF Is
  <2>. QED
    BY <1>5
<1>7. redact[value] = Of(redact, value)
  <2>. HIDE DEF redact, Of
  <2>. QED
    BY <1>6
<1>8. ASSUME NEW i \in DOMAIN value.items
      PROVE  Shown(value, i, redact) = ShownItem(value, i, additional, RedactJsonValue(value.items[i], additional))
  BY ONLY <1>1
<1>. QED
  <2>. HIDE DEF redact
  <2>. QED
    BY <1>1, <1>7, <1>8

\* The recursion of Visited.
LEMMA WaysGoOn ==
  ASSUME NEW value, NEW way, NEW N \in Nat, N = Len(way)
  PROVE  /\ Visited(value, way)[0] = value
         /\ \A n \in 1 .. N :
              LET before == Visited(value, way)[n - 1]
              IN  Visited(value, way)[n] = IF way[n] \in DOMAIN before.items THEN before.items[way[n]] ELSE Nowhere
<1>. DEFINE Step(before, n) == IF way[n] \in DOMAIN before.items THEN before.items[way[n]] ELSE Nowhere
            Of(g, n) == IF n = 0 THEN value ELSE Step(g[n - 1], n)
            Is(g) == g = [n \in 0 .. N |-> Of(g, n)]
            visited == CHOOSE g : Is(g)
            UpTo(m, g) == \A n \in 0 .. m : g[n] = Of(g, n)
<1>1. Visited(value, way) = visited
  BY DEF Visited
<1>2. \A m \in Nat : \E g : UpTo(m, g)
  <2>. DEFINE reached == {m \in Nat : \E g : UpTo(m, g)}
  <2>1. 0 \in reached
    <3>1. UpTo(0, [n \in {0} |-> value])
      OBVIOUS
    <3>. QED
      BY <3>1
  <2>2. ASSUME NEW m \in Nat, m \in reached PROVE m + 1 \in reached
    <3>1. PICK g : UpTo(m, g)
      BY <2>2
    <3>. DEFINE h == [n \in 0 .. m + 1 |-> Of(g, n)]
    <3>2. ASSUME NEW n \in 0 .. m + 1 PROVE h[n] = Of(h, n)
      <4>1. h[n] = Of(g, n)
        <5>. HIDE DEF Of
        <5>. QED
          OBVIOUS
      <4>2. CASE n = 0
        BY <4>1, <4>2
      <4>3. CASE n # 0
        <5>1. n - 1 \in 0 .. m /\ n - 1 \in 0 .. m + 1
          BY <4>3
        <5>2. h[n - 1] = g[n - 1]
          <6>. HIDE DEF Of
          <6>. QED
            BY <5>1, <3>1
        <5>3. Of(g, n) = Step(g[n - 1], n) /\ Of(h, n) = Step(h[n - 1], n)
          <6>. HIDE DEF Step, h
          <6>. QED
            BY <4>3
        <5>. QED
          BY ONLY <4>1, <5>2, <5>3
      <4>. QED
        BY <4>2, <4>3
    <3>3. UpTo(m + 1, h)
      <4>. HIDE DEF h, Of
      <4>. QED
        BY <3>2
    <3>. QED
      <4>. HIDE DEF UpTo
      <4>. QED
        BY <3>3
  <2>3. Nat \subseteq reached
    <3>. HIDE DEF reached
    <3>. QED
      BY <2>1, <2>2, NumberByNumber
  <2>. QED
    BY <2>3
<1>3. \E f : Is(f)
  <2>1. PICK g : UpTo(N, g)
    BY <1>2
  <2>. DEFINE f == [n \in 0 .. N |-> g[n]]
  <2>2. ASSUME NEW n \in 0 .. N PROVE f[n] = Of(f, n)
    <3>1. f[n] = Of(g, n)
      <4>. HIDE DEF Of
      <4>. QED
        BY <2>1
    <3>2. n # 0 => n - 1 \in 0 .. N
      OBVIOUS
    <3>3. n # 0 => f[n - 1] = g[n - 1]
      BY <3>2
    <3>4. Of(g, n) = Of(f, n)
      <4>. HIDE DEF f, Step
      <4>. QED
        BY <3>3
    <3>. QED
      BY ONLY <3>1, <3>4
  <2>3. f = [n \in 0 .. N |-> Of(f, n)]
    <3>1. f = [n \in 0 .. N |-> f[n]]
      OBVIOUS
    <3>2. [n \in 0 .. N |-> f[n]] = [n \in 0 .. N |-> Of(f, n)]
      <4>. HIDE DEF f, Of
      <4>. QED
        BY <2>2
    <3>. QED
      BY ONLY <3>1, <3>2
  <2>. QED
    BY <2>3
<1>4. Is(visited)
  <2>. HIDE DEF Is
  <2>. QED
    BY <1>3
<1>5. \A n \in 0 .. N : visited[n] = Of(visited, n)
  <2>. HIDE DEF visited, Of
  <2>. QED
    BY <1>4
<1>6. visited[0] = value
  <2>. HIDE DEF visited, Step
  <2>. QED
    BY <1>5
<1>7. ASSUME NEW n \in 1 .. N PROVE visited[n] = Step(visited[n - 1], n)
  <2>. HIDE DEF visited, Step
  <2>. QED
    BY <1>5
<1>. QED
  BY ONLY <1>1, <1>6, <1>7

\* The code's test of a name, on its normalized form, is the reference's on its words.
LEMMA NamesAreTold ==
  ASSUME NEW name, NEW configured
  PROVE  IsSensitiveName(name, NameSet(configured)) <=> IsNamedAsSecret(name, configured)
<1>1. \A h \in SensitiveHeaderNames : h = <<h[1], h[2], "lower">>
  <2>. DEFINE A == {"proxy authorization", "set cookie", "x api key", "api key", "x auth token"}
              B == {"authorization", "cookie"}
              Form(C, j) == {<<words, j, "lower">> : words \in C}
  <2>1. SensitiveHeaderNames = Form(A, "-") \cup Form(B, "")
    BY Zenon DEF SensitiveHeaderNames
  <2>2. ASSUME NEW C, NEW j, NEW h \in Form(C, j) PROVE h = <<h[1], h[2], "lower">>
    OBVIOUS
  <2>. HIDE DEF A, B, Form
  <2>. QED
    BY Zenon, <2>1, <2>2
<1>2. Lower(name) \in SensitiveHeaderNames <=> \E h \in SensitiveHeaderNames : <<h[1], h[2]>> = <<name[1], name[2]>>
  BY <1>1 DEF Lower
<1>3. Normalized(name) \in NameSet(configured) <=> name[1] \in {n[1] : n \in configured}
  BY DEF Normalized, NameSet
<1>4. Normalized(name)[1] = name[1]
  BY DEF Normalized
<1>. QED
  BY ONLY <1>2, <1>3, <1>4 DEF IsSensitiveName, IsNamedAsSecret

\* What is left to go by after the first n steps of a way, in a value and in what is
\* shown of it.
GoesAlong(value, way, configured, n) ==
  LET visited == Visited(value, way)[n]
      shown == Visited(RedactJsonValue(value, NameSet(configured)), way)[n]
      secrets == SecretSteps(value, way, configured) \cap 1 .. n
  IN  IF secrets = {}
      THEN \/ visited \in JsonValues /\ shown = RedactJsonValue(visited, NameSet(configured))
           \/ visited = Nowhere /\ shown = Nowhere
      ELSE shown = IF secrets = {n} THEN Redacted ELSE Nowhere

LEMMA NothingBelow == Redacted.items = <<>> /\ Nowhere.items = <<>> /\ Nowhere.names = <<>>
  BY DEF Redacted, Nowhere, Leaf, JsonValue

\* A value as it is shown has the same names and as many items.
LEMMA ShownAlike ==
  ASSUME NEW additional, NEW v \in JsonValues
  PROVE  /\ Alike(RedactJsonValue(v, additional), v)
         /\ \A i \in DOMAIN v.items :
              RedactJsonValue(v, additional).items[i] =
                ShownItem(v, i, additional, RedactJsonValue(v.items[i], additional))
<1>. DEFINE items == [i \in DOMAIN v.items |-> ShownItem(v, i, additional, RedactJsonValue(v.items[i], additional))]
<1>1. RedactJsonValue(v, additional) = [v EXCEPT !.items = items]
  BY RedactionUnfolds
<1>2. v = [kind |-> v.kind, text |-> v.text, names |-> v.names, items |-> v.items]
  BY JsonAssumption DEF JsonValue
<1>3. RedactJsonValue(v, additional) = [kind |-> v.kind, text |-> v.text, names |-> v.names, items |-> items]
  <2>. HIDE DEF items
  <2>. QED
    BY ONLY <1>1, <1>2
<1>4. /\ RedactJsonValue(v, additional).kind = v.kind /\ RedactJsonValue(v, additional).text = v.text
      /\ RedactJsonValue(v, additional).names = v.names /\ RedactJsonValue(v, additional).items = items
  <2>. HIDE DEF items
  <2>. QED
    BY ONLY <1>3
<1>5. DOMAIN items = DOMAIN v.items /\ \A i \in DOMAIN v.items : items[i] = ShownItem(v, i, additional, RedactJsonValue(v.items[i], additional))
  OBVIOUS
<1>. QED
  <2>. HIDE DEF items
  <2>. QED
    BY ONLY <1>4, <1>5 DEF Alike

\* One more step.
LEMMA OneStepOn ==
  ASSUME NEW value \in JsonValues, NEW way \in Ways, NEW configured, NEW m \in Nat, m + 1 <= Len(way),
         GoesAlong(value, way, configured, m)
  PROVE  GoesAlong(value, way, configured, m + 1)
<1>. DEFINE N == Len(way)
            n == m + 1
            additional == NameSet(configured)
            visited == Visited(value, way)
            shown == Visited(RedactJsonValue(value, additional), way)
            secrets == SecretSteps(value, way, configured)
            Next1(before) == IF way[n] \in DOMAIN before.items THEN before.items[way[n]] ELSE Nowhere
<1>1. way \in Seq(Nat) /\ N \in Nat /\ DOMAIN way = 1 .. N /\ n \in 1 .. N /\ n - 1 = m /\ n \in Nat
  BY WaysAssumption
<1>2. visited[n] = Next1(visited[m]) /\ shown[n] = Next1(shown[m])
  <2>1. \A w : LET g == Visited(w, way) IN g[n] = Next1(g[n - 1])
    <3>. HIDE DEF n
    <3>. QED
      BY <1>1, WaysGoOn
  <2>. QED
    <3>. HIDE DEF Next1, n
    <3>. QED
      BY <2>1, <1>1
<1>3. n \in secrets <=> way[n] \in DOMAIN visited[m].names /\ IsNamedAsSecret(visited[m].names[way[n]], configured)
  <2>. HIDE DEF visited, n
  <2>. QED
    BY <1>1 DEF SecretSteps, visited
<1>4. secrets \cap 1 .. n = (secrets \cap 1 .. m) \cup (IF n \in secrets THEN {n} ELSE {})
  <2>. HIDE DEF secrets
  <2>. QED
    BY <1>1
<1>. HIDE DEF visited, shown, secrets, N, n, additional
<1>5. CASE secrets \cap 1 .. m # {}
  <2>1. shown[m] \in {Redacted, Nowhere}
    BY <1>5 DEF GoesAlong, shown, secrets, additional
  <2>2. shown[n] = Nowhere
    BY <2>1, <1>2, NothingBelow
  <2>3. secrets \cap 1 .. n # {} /\ secrets \cap 1 .. n # {n}
    BY <1>4, <1>5 DEF n
  <2>. QED
    BY <2>2, <2>3 DEF GoesAlong, shown, secrets, additional, n
<1>6. CASE secrets \cap 1 .. m = {} /\ visited[m] = Nowhere /\ shown[m] = Nowhere
  <2>1. visited[n] = Nowhere /\ shown[n] = Nowhere /\ n \notin secrets
    BY <1>2, <1>3, <1>6, NothingBelow
  <2>2. secrets \cap 1 .. n = {}
    BY <2>1, <1>4, <1>6
  <2>. QED
    BY <2>1, <2>2 DEF GoesAlong, shown, visited, secrets, additional, n
<1>7. CASE secrets \cap 1 .. m = {} /\ visited[m] \in JsonValues /\ shown[m] = RedactJsonValue(visited[m], additional)
  <2>. DEFINE v == visited[m]
              i == way[n]
  <2>1. DOMAIN shown[m].items = DOMAIN v.items
    BY <1>7, ShownAlike DEF Alike
  <2>2. DOMAIN v.names \subseteq DOMAIN v.items /\ \A j \in DOMAIN v.items : v.items[j] \in JsonValues
    BY <1>7, JsonAssumption
  <2>3. CASE i \notin DOMAIN v.items
    <3>1. visited[n] = Nowhere /\ shown[n] = Nowhere /\ n \notin secrets
      BY <2>1, <2>2, <2>3, <1>2, <1>3
    <3>2. secrets \cap 1 .. n = {}
      BY <3>1, <1>4, <1>7
    <3>. QED
      BY <3>1, <3>2 DEF GoesAlong, shown, visited, secrets, additional, n
  <2>4. CASE i \in DOMAIN v.items
    <3>1. visited[n] = v.items[i] /\ visited[n] \in JsonValues
      BY <2>2, <2>4, <1>2
    <3>2. shown[n] = ShownItem(v, i, additional, RedactJsonValue(v.items[i], additional))
      <4>1. shown[n] = shown[m].items[i]
        BY <2>1, <2>4, <1>2
      <4>. QED
        BY <4>1, <1>7, <2>4, ShownAlike
    <3>3. n \in secrets <=> i \in DOMAIN v.names /\ IsSensitiveName(v.names[i], additional)
      BY <1>3, NamesAreTold DEF additional
    <3>4. CASE n \in secrets
      <4>1. shown[n] = Redacted
        BY <3>2, <3>3, <3>4 DEF ShownItem
      <4>2. secrets \cap 1 .. n = {n}
        BY <3>4, <1>4, <1>7
      <4>. QED
        BY <4>1, <4>2 DEF GoesAlong, shown, visited, secrets, additional, n
    <3>5. CASE n \notin secrets
      <4>1. shown[n] = RedactJsonValue(visited[n], additional)
        BY <3>1, <3>2, <3>3, <3>5 DEF ShownItem
      <4>2. secrets \cap 1 .. n = {}
        BY <3>5, <1>4, <1>7
      <4>. QED
        BY <3>1, <4>1, <4>2 DEF GoesAlong, shown, visited, secrets, additional, n
    <3>. QED
      BY <3>4, <3>5
  <2>. QED
    BY <2>3, <2>4
<1>. QED
  BY <1>5, <1>6, <1>7 DEF GoesAlong, shown, visited, secrets, additional

\* What RedactJsonValue shows of a value is what the reference says, at the end of
\* every way into it.
LEMMA SecretsAreHidden ==
  ASSUME NEW value \in JsonValues, NEW configured
  PROVE  ShowsButSecrets(RedactJsonValue(value, NameSet(configured)), value, configured)
<1>. DEFINE shown == RedactJsonValue(value, NameSet(configured))
<1>1. ASSUME NEW way \in Ways
      PROVE  LET secrets == SecretSteps(value, way, configured)
             IN  IF secrets = {} THEN Alike(AtEnd(shown, way), AtEnd(value, way))
                 ELSE AtEnd(shown, way) = IF secrets = {Len(way)} THEN Redacted ELSE Nowhere
  <2>1. way \in Seq(Nat) /\ Len(way) \in Nat /\ DOMAIN way = 1 .. Len(way)
    BY WaysAssumption
  <2>2. GoesAlong(value, way, configured, 0)
    <3>1. Visited(value, way)[0] = value /\ Visited(shown, way)[0] = shown
      BY <2>1, WaysGoOn
    <3>. QED
      BY <3>1 DEF GoesAlong
  <2>3. GoesAlong(value, way, configured, Len(way))
    <3>. DEFINE gone == {n \in Nat : n <= Len(way) => GoesAlong(value, way, configured, n)}
    <3>1. 0 \in gone
      BY <2>2
    <3>2. ASSUME NEW n \in Nat, n \in gone PROVE n + 1 \in gone
      BY <2>1, <3>2, OneStepOn
    <3>3. Nat \subseteq gone
      <4>. HIDE DEF gone
      <4>. QED
        BY <3>1, <3>2, NumberByNumber
    <3>. QED
      BY <2>1, <3>3
  <2>4. SecretSteps(value, way, configured) \cap 1 .. Len(way) = SecretSteps(value, way, configured)
    BY <2>1 DEF SecretSteps
  <2>5. Alike(Nowhere, Nowhere)
    BY DEF Alike
  <2>. HIDE DEF shown
  <2>6. CASE SecretSteps(value, way, configured) = {}
    <3>1. \/ AtEnd(value, way) \in JsonValues /\ AtEnd(shown, way) = RedactJsonValue(AtEnd(value, way), NameSet(configured))
          \/ AtEnd(value, way) = Nowhere /\ AtEnd(shown, way) = Nowhere
      BY <2>3, <2>4, <2>6 DEF GoesAlong, AtEnd, shown
    <3>. QED
      BY <3>1, <2>5, <2>6, ShownAlike
  <2>7. CASE SecretSteps(value, way, configured) # {}
    BY <2>3, <2>4, <2>7 DEF GoesAlong, AtEnd, shown
  <2>. QED
    BY <2>6, <2>7
<1>. QED
  <2>. HIDE DEF shown
  <2>. QED
    BY <1>1 DEF ShowsButSecrets, shown

-----------------------------------------------------------------------------
(* Captures: however a body is cut, a capture is that of its beginning.     *)

Least(m, n) == IF m < n THEN m ELSE n

\* What is kept of a body of which n bytes have passed.
CaptureOf(body, n) ==
  [type |-> body.type, count |-> n,
   prefix |-> IF settings.bodies /\ IsTextual(body.type) THEN SubSeq(body.text, 1, Least(n, settings.limit)) ELSE <<>>]

\* The first k of the n that follow the first p.
LEMMA BeginningsGrow ==
  ASSUME NEW S, NEW text \in Seq(S), NEW p \in Nat, NEW n \in Nat, NEW k \in 0 .. n, p + n <= Len(text)
  PROVE  SubSeq(text, 1, p) \o SubSeq(SubSeq(text, p + 1, p + n), 1, k) = SubSeq(text, 1, p + k)
<1>. DEFINE chunk == SubSeq(text, p + 1, p + n)
            some == SubSeq(text, p + 1, p + k)
            first == SubSeq(chunk, 1, k)
<1>1. \A i \in 1 .. Len(text) : text[i] \in S
  OBVIOUS
<1>2. /\ chunk \in Seq(S) /\ Len(chunk) = n /\ \A i \in 1 .. n : chunk[i] = text[p + i]
      /\ some \in Seq(S) /\ Len(some) = k /\ \A i \in 1 .. k : some[i] = text[p + i]
  <2>1. ASSUME NEW m \in 0 .. n
        PROVE  LET s == SubSeq(text, p + 1, p + m)
               IN  s \in Seq(S) /\ Len(s) = m /\ \A i \in 1 .. m : s[i] = text[p + i]
    <3>1. p + 1 \in Int /\ p + m \in Int /\ \A i \in p + 1 .. p + m : i \in 1 .. Len(text)
      OBVIOUS
    <3>2. \A i \in p + 1 .. p + m : text[i] \in S
      BY <1>1, <3>1
    <3>. DEFINE s == SubSeq(text, p + 1, p + m)
    <3>3. /\ s \in Seq(S) /\ Len(s) = IF p + 1 <= p + m THEN (p + m) - (p + 1) + 1 ELSE 0
          /\ \A i \in 1 .. (p + m) - (p + 1) + 1 : s[i] = text[p + 1 + i - 1]
      BY ONLY <3>1, <3>2, SubSeqProperties
    <3>. HIDE DEF s
    <3>4. (p + m) - (p + 1) + 1 = m /\ \A i \in 1 .. m : p + 1 + i - 1 = p + i
      OBVIOUS
    <3>5. ASSUME NEW i \in 1 .. m PROVE s[i] = text[p + i]
      <4>1. i \in 1 .. (p + m) - (p + 1) + 1 /\ p + 1 + i - 1 = p + i
        BY <3>4
      <4>. QED
        BY <4>1, <3>3
    <3>6. s \in Seq(S) /\ Len(s) = m
      BY <3>3, <3>4
    <3>. QED
      BY <3>5, <3>6 DEF s
  <2>. QED
    BY <2>1
<1>. HIDE DEF chunk, some
<1>3. first \in Seq(S) /\ Len(first) = k /\ \A i \in 1 .. k : first[i] = chunk[i]
  <2>1. \A i \in 1 .. k : chunk[i] \in S
    BY <1>2
  <2>2. /\ first \in Seq(S) /\ Len(first) = IF 1 <= k THEN k - 1 + 1 ELSE 0
        /\ \A i \in 1 .. k - 1 + 1 : first[i] = chunk[1 + i - 1]
    BY <2>1, SubSeqProperties
  <2>. HIDE DEF first
  <2>. QED
    BY <2>2
<1>4. first = some
  <2>. HIDE DEF first
  <2>1. Len(first) = Len(some) /\ \A i \in 1 .. Len(first) : first[i] = some[i]
    BY <1>2, <1>3
  <2>. QED
    BY <1>2, <1>3, <2>1, SeqEqual
<1>5. SubSeq(text, 1, p) \o some = SubSeq(text, 1, p + k)
  <2>1. 1 \in 1 .. Len(text) + 1 /\ p \in 1 - 1 .. Len(text) /\ p + k \in p .. Len(text)
    OBVIOUS
  <2>. QED
    BY <2>1, ConcatAdjacentSubSeq DEF some
<1>. QED
  BY <1>4, <1>5 DEF chunk

\* The first of a text, and of its first.
LEMMA Beginnings ==
  ASSUME NEW S, NEW text \in Seq(S), NEW n \in 0 .. Len(text)
  PROVE  /\ SubSeq(text, 1, n) \in Seq(S) /\ Len(SubSeq(text, 1, n)) = n
         /\ \A m \in 0 .. n : SubSeq(SubSeq(text, 1, n), 1, m) = SubSeq(text, 1, m)
<1>1. ASSUME NEW t \in Seq(S), NEW m \in 0 .. Len(t)
      PROVE  SubSeq(t, 1, m) \in Seq(S) /\ Len(SubSeq(t, 1, m)) = m /\ \A i \in 1 .. m : SubSeq(t, 1, m)[i] = t[i]
  <2>. DEFINE s == SubSeq(t, 1, m)
  <2>1. \A i \in 1 .. m : t[i] \in S
    OBVIOUS
  <2>2. s \in Seq(S) /\ Len(s) = (IF 1 <= m THEN m - 1 + 1 ELSE 0) /\ \A i \in 1 .. m - 1 + 1 : s[i] = t[1 + i - 1]
    BY <2>1, SubSeqProperties
  <2>. HIDE DEF s
  <2>3. s \in Seq(S) /\ Len(s) = m /\ \A i \in 1 .. m : s[i] = t[i]
    BY <2>2
  <2>. QED
    BY <2>3 DEF s
<1>. DEFINE u == SubSeq(text, 1, n)
<1>2. u \in Seq(S) /\ Len(u) = n /\ \A i \in 1 .. n : u[i] = text[i]
  BY <1>1
<1>. HIDE DEF u
<1>3. ASSUME NEW m \in 0 .. n PROVE SubSeq(u, 1, m) = SubSeq(text, 1, m)
  <2>. DEFINE v == SubSeq(u, 1, m)
              w == SubSeq(text, 1, m)
  <2>1. v \in Seq(S) /\ Len(v) = m /\ \A i \in 1 .. m : v[i] = u[i]
    BY <1>1, <1>2
  <2>2. w \in Seq(S) /\ Len(w) = m /\ \A i \in 1 .. m : w[i] = text[i]
    BY <1>1
  <2>. HIDE DEF v, w
  <2>3. v = w
    BY <1>2, <2>1, <2>2, SeqEqual
  <2>. QED
    BY <2>3 DEF v, w
<1>. QED
  BY <1>2, <1>3 DEF u

\* A chunk observed: the capture is that of the longer beginning.
LEMMA ObservesOn ==
  ASSUME NEW S, NEW body, body.text \in Seq(S), NEW p \in Nat, NEW n \in Nat, p + n <= Len(body.text),
         settings.limit \in Nat \ {0}
  PROVE  Observe(CaptureOf(body, p), SubSeq(body.text, p + 1, p + n)) = CaptureOf(body, p + n)
<1>. DEFINE text == body.text
            chunk == SubSeq(text, p + 1, p + n)
            limit == settings.limit
            textual == settings.bodies /\ IsTextual(body.type)
            before == CaptureOf(body, p)
            prefix == before.prefix
            k == IF Len(chunk) < limit - Len(prefix) THEN Len(chunk) ELSE limit - Len(prefix)
            after == IF textual /\ Len(prefix) < limit THEN prefix \o SubSeq(chunk, 1, k) ELSE prefix
<1>1. before.type = body.type /\ before.count = p /\ prefix = IF textual THEN SubSeq(text, 1, Least(p, limit)) ELSE <<>>
  BY DEF CaptureOf
<1>2. Len(chunk) = n
  <2>1. \A i \in p + 1 .. p + n : text[i] \in S
    OBVIOUS
  <2>2. Len(chunk) = IF p + 1 <= p + n THEN p + n - (p + 1) + 1 ELSE 0
    BY <2>1, SubSeqProperties
  <2>. QED
    BY <2>2
<1>3. Observe(before, chunk) = [type |-> body.type, count |-> p + n, prefix |-> after]
  <2>1. before = [type |-> body.type, count |-> p, prefix |-> prefix]
    BY DEF CaptureOf
  <2>. HIDE DEF chunk
  <2>2. Observe(before, chunk) = [before EXCEPT !.count = p + Len(chunk), !.prefix = after]
    <3>. HIDE DEF before
    <3>. QED
      BY <1>1, <2>1 DEF Observe
  <2>. HIDE DEF before, after, prefix
  <2>. QED
    BY ONLY <2>1, <2>2, <1>2
<1>. HIDE DEF chunk
<1>4. textual => after = SubSeq(text, 1, Least(p + n, limit))
  <2>. SUFFICES ASSUME textual PROVE after = SubSeq(text, 1, Least(p + n, limit))
    OBVIOUS
  <2>1. prefix = SubSeq(text, 1, Least(p, limit)) /\ Least(p, limit) \in 0 .. Len(text)
    BY <1>1 DEF Least
  <2>2. Len(prefix) = Least(p, limit)
    BY <2>1, Beginnings
  <2>. HIDE DEF prefix
  <2>3. CASE p < limit
    <3>1. Len(prefix) = p /\ prefix = SubSeq(text, 1, p)
      BY <2>1, <2>2, <2>3 DEF Least
    <3>2. k \in 0 .. n /\ p + k = Least(p + n, limit)
      <4>1. limit \in Nat
        OBVIOUS
      <4>. HIDE DEF limit
      <4>. QED
        BY <4>1, <1>2, <2>3, <3>1 DEF Least
    <3>3. after = prefix \o SubSeq(chunk, 1, k)
      BY <3>1, <2>3
    <3>. HIDE DEF k, after
    <3>4. prefix \o SubSeq(chunk, 1, k) = SubSeq(text, 1, p + k)
      BY <3>1, <3>2, BeginningsGrow DEF chunk
    <3>. QED
      BY <3>2, <3>3, <3>4
  <2>4. CASE ~(p < limit)
    <3>1. Len(prefix) = limit /\ Least(p, limit) = limit /\ Least(p + n, limit) = limit
      BY <2>2, <2>4 DEF Least
    <3>. QED
      BY <3>1, <2>1
  <2>. QED
    BY <2>3, <2>4
<1>5. ~textual => after = <<>>
  BY <1>1
<1>. HIDE DEF after, before
<1>. QED
  BY <1>3, <1>4, <1>5 DEF CaptureOf, chunk, before

\* The metadata of such a capture, with what has passed of the body.
LEMMA MetadataTells ==
  ASSUME NEW S, NEW body, body.text \in Seq(S), NEW n \in 0 .. Len(body.text),
         settings.limit \in Nat \ {0}, settings.bodies \in BOOLEAN
  PROVE  LET data == Metadata(CaptureOf(body, n))
             text == SubSeq(body.text, 1, n)
         IN  /\ Len(text) = n /\ data.bytes = n
             /\ data.captured <=> settings.bodies /\ IsTextual(body.type) /\ IsUtf8(Beginning(text))
             /\ data.captured =>
                  /\ data.kept = Len(Beginning(text))
                  /\ data.truncated <=> n > settings.limit
                  /\ data.body = IF IsJson(body.type) THEN RedactJsonText(Beginning(text), NameSet(settings.names))
                                 ELSE Unread(Beginning(text))
<1>. DEFINE c == CaptureOf(body, n)
            data == Metadata(c)
            text == SubSeq(body.text, 1, n)
            start == Beginning(text)
            read == settings.bodies /\ IsTextual(body.type)
<1>1. Len(text) = n /\ start = SubSeq(body.text, 1, Least(n, settings.limit)) /\ Len(start) = Least(n, settings.limit)
  <2>1. Len(text) = n /\ \A m \in 0 .. n : SubSeq(text, 1, m) = SubSeq(body.text, 1, m) /\ Len(SubSeq(body.text, 1, m)) = m
    <3>1. \A m \in 0 .. n : m \in 0 .. Len(body.text)
      OBVIOUS
    <3>. QED
      BY <3>1, Beginnings
  <2>. HIDE DEF text
  <2>2. start = SubSeq(text, 1, Least(n, settings.limit)) /\ Least(n, settings.limit) \in 0 .. n
    BY <2>1 DEF Beginning, Least
  <2>. QED
    BY <2>1, <2>2
<1>2. c.type = body.type /\ c.count = n /\ (read => c.prefix = start)
  BY <1>1 DEF CaptureOf
<1>. HIDE DEF c, text, start
<1>3. CASE ~read
  <2>1. data.bytes = n /\ data.captured = FALSE
    BY <1>2, <1>3 DEF Metadata, Omitted
  <2>. QED
    BY <1>1, <1>3, <2>1 DEF c, text, start
<1>4. CASE read /\ ~IsUtf8(start)
  <2>1. data.bytes = n /\ data.captured = FALSE
    BY <1>2, <1>4 DEF Metadata, Omitted
  <2>. QED
    BY <1>1, <1>4, <2>1 DEF c, text, start
<1>5. CASE read /\ IsUtf8(start)
  <2>1. data = [bytes |-> n, captured |-> TRUE,
                body |-> IF IsJson(body.type) THEN RedactJsonText(start, NameSet(settings.names)) ELSE Unread(start),
                truncated |-> n > Len(start), kept |-> Len(start)]
    BY <1>2, <1>5 DEF Metadata
  <2>2. n > Len(start) <=> n > settings.limit
    BY <1>1 DEF Least
  <2>3. /\ data.bytes = n /\ data.captured = TRUE /\ data.kept = Len(start) /\ (data.truncated <=> n > settings.limit)
        /\ data.body = IF IsJson(body.type) THEN RedactJsonText(start, NameSet(settings.names)) ELSE Unread(start)
    <3>. HIDE DEF data
    <3>. QED
      BY <2>1, <2>2
  <2>. HIDE DEF data
  <2>. QED
    BY <1>1, <1>5, <2>3 DEF data, c, text, start
<1>. QED
  BY <1>3, <1>4, <1>5

-----------------------------------------------------------------------------
(* Exchanges.                                                               *)

\* The records of an exchange: what opens it, and how it ends.
Opened ==
  {[event |-> "request_received", headers |-> RedactPairs(exchange.headers, NameSet(settings.names)),
    query |-> RedactPairs(exchange.query, NameSet(settings.names))],
   [event |-> "upstream_response_started", headers |-> RedactPairs(exchange.headers, NameSet(settings.names))]}

Completed ==
  [event |-> "exchange_completed", request |-> Metadata(captures.request), response |-> Metadata(captures.response)]

BrokenOff ==
  {[event |-> "exchange_failed"]}
    \cup {[event |-> "exchange_cancelled", requestBytes |-> m, responseBytes |-> n] : m, n \in Nat}

Captured(side) == CaptureOf(exchange[side], passed[side])

\* The captures are those of what has passed, and the records say no more than them.
ExchangeInv ==
  /\ settings \in Settings
  /\ phase \in {"idle", "announced", "responding", "final"}
  /\ phase = "idle" => records = <<>>
  /\ phase # "idle" =>
       /\ exchange \in Exchanges
       /\ passed \in [Sides -> Nat] /\ \A side \in Sides : passed[side] <= Len(exchange[side].text)
       /\ \/ phase # "responding" /\ captures = [request |-> Captured("request")] /\ passed["response"] = 0
          \/ phase # "announced" /\ captures = [request |-> Captured("request"), response |-> Captured("response")]
       /\ records \in Seq(Opened \cup BrokenOff \cup {Completed})
       /\ \A i \in DOMAIN records : records[i].event = "exchange_completed" =>
            phase = "final" /\ captures = [request |-> Captured("request"), response |-> Captured("response")]

LEMMA BodiesAreTexts ==
  ASSUME ExchangeInv, phase # "idle", NEW side \in Sides
  PROVE  /\ \E S : exchange[side].text \in Seq(S)
         /\ settings.limit \in Nat \ {0} /\ settings.bodies \in BOOLEAN
         /\ passed[side] \in 0 .. Len(exchange[side].text)
<1>1. exchange \in Exchanges /\ settings \in Settings /\ passed[side] \in Nat /\ passed[side] <= Len(exchange[side].text)
  BY DEF ExchangeInv
<1>2. exchange[side].text \in Seq({exchange[side].text[i] : i \in DOMAIN exchange[side].text})
  BY <1>1, ExchangesAssumption
<1>3. settings.limit \in Nat \ {0} /\ settings.bodies \in BOOLEAN
  BY <1>1, SettingsAssumption
<1>4. Len(exchange[side].text) \in Nat
  BY <1>2, LenProperties
<1>. QED
  BY <1>1, <1>2, <1>3, <1>4

\* Which records tell of bodies, and which show names.
LEMMA KindsOfRecords ==
  ASSUME NEW record \in Opened \cup BrokenOff \cup {Completed}
  PROVE  /\ record.event = "exchange_completed" => record = Completed
         /\ \A part \in DOMAIN record \cap {"headers", "query"} :
              record[part] = RedactPairs(exchange[part], NameSet(settings.names))
<1>. DEFINE hs == RedactPairs(exchange.headers, NameSet(settings.names))
            q == RedactPairs(exchange.query, NameSet(settings.names))
            m1 == Metadata(captures.request)
            m2 == Metadata(captures.response)
<1>. HIDE DEF hs, q, m1, m2
<1>1. CASE record = [event |-> "request_received", headers |-> hs, query |-> q]
  BY <1>1 DEF hs, q
<1>2. CASE record = [event |-> "upstream_response_started", headers |-> hs]
  BY <1>2 DEF hs
<1>3. CASE record = [event |-> "exchange_failed"]
  BY <1>3
<1>4. ASSUME NEW m \in Nat, NEW n \in Nat,
             record = [event |-> "exchange_cancelled", requestBytes |-> m, responseBytes |-> n]
      PROVE  record.event # "exchange_completed" /\ DOMAIN record \cap {"headers", "query"} = {}
  BY <1>4
<1>5. CASE record = [event |-> "exchange_completed", request |-> m1, response |-> m2]
  <2>1. record = Completed
    BY <1>5 DEF Completed, m1, m2
  <2>. QED
    BY <2>1, <1>5
<1>. QED
  BY <1>1, <1>2, <1>3, <1>4, <1>5 DEF Opened, BrokenOff, Completed, hs, q, m1, m2

LEMMA LogInitially == LogInit => IInv /\ ExchangeInv
  BY Initially DEF LogInit, ExchangeInv, None

\* What an exchange does to the queue is to emit, or nothing.
LEMMA QueueSteps == LogNext => [Next]_vars
<1>. SUFFICES ASSUME LogNext PROVE Next \/ UNCHANGED vars
  OBVIOUS
<1>1. CASE Announces
  BY <1>1 DEF Announces, Next
<1>2. ASSUME NEW record, EmitsRecord(record) PROVE Next \/ UNCHANGED vars
  BY <1>2 DEF EmitsRecord, Next
<1>3. CASE ResponseStarted \/ Complete \/ Fail \/ Cancel
  BY <1>2, <1>3 DEF ResponseStarted, Complete, Fail, Cancel, Ends
<1>4. CASE Forgets
  BY <1>4 DEF Forgets
<1>5. CASE \E n \in ChunkSizes : PassesRequest(n) \/ PassesResponse(n)
  BY <1>5 DEF PassesRequest, PassesResponse, Passes
<1>6. CASE RuntimeSteps
  BY <1>6 DEF RuntimeSteps, Next
<1>. QED
  BY <1>1, <1>3, <1>4, <1>5, <1>6 DEF LogNext, ExchangeSteps

\* An empty capture is that of nothing yet.
LEMMA NewIsOfNothing ==
  ASSUME NEW body, settings.limit \in Nat \ {0} PROVE NewCapture(body.type) = CaptureOf(body, 0)
<1>1. Least(0, settings.limit) = 0
  BY DEF Least
<1>2. SubSeq(body.text, 1, 0) = <<>>
  BY SubSeqEmpty
<1>. QED
  BY <1>1, <1>2 DEF NewCapture, CaptureOf

LEMMA AnnouncesStep == ASSUME ExchangeInv, Announces PROVE ExchangeInv'
<1>1. PICK x \in Exchanges :
        /\ exchange' = x
        /\ captures' = [request |-> NewCapture(x.request.type)]
        /\ records' = <<[event |-> "request_received", headers |-> RedactPairs(x.headers, NameSet(settings.names)),
                         query |-> RedactPairs(x.query, NameSet(settings.names))]>>
  BY DEF Announces
<1>2. passed' = [request |-> 0, response |-> 0] /\ phase' = "announced" /\ settings' = settings /\ settings \in Settings
  BY DEF Announces, ExchangeInv
<1>3. settings'.limit \in Nat \ {0}
  BY <1>2, SettingsAssumption
<1>4. passed' \in [Sides -> Nat] /\ passed'["request"] = 0 /\ passed'["response"] = 0
  BY <1>2 DEF Sides
<1>5. \A side \in Sides : passed'[side] <= Len(x[side].text)
  BY <1>4, ExchangesAssumption, LenProperties DEF Sides
<1>6. captures' = [request |-> Captured("request")']
  <2>1. Captured("request")' = CaptureOf(x.request, 0)'
    BY <1>1, <1>4 DEF Captured, CaptureOf
  <2>2. NewCapture(x.request.type) = CaptureOf(x.request, 0)
    BY <1>2, <1>3, NewIsOfNothing
  <2>3. CaptureOf(x.request, 0)' = CaptureOf(x.request, 0)
    BY <1>2 DEF CaptureOf
  <2>. QED
    BY <2>1, <2>2, <2>3, <1>1
<1>7. records' \in Seq(Opened') /\ \A i \in DOMAIN records' : records'[i].event # "exchange_completed"
  <2>. DEFINE r == [event |-> "request_received", headers |-> RedactPairs(x.headers, NameSet(settings.names)),
                    query |-> RedactPairs(x.query, NameSet(settings.names))]
  <2>1. r \in Opened'
    BY <1>1, <1>2 DEF Opened
  <2>2. r.event # "exchange_completed"
    OBVIOUS
  <2>. HIDE DEF r
  <2>3. records' = <<r>>
    BY <1>1 DEF r
  <2>. QED
    BY <2>1, <2>2, <2>3
<1>8. records' \in Seq((Opened \cup BrokenOff \cup {Completed})')
  BY <1>7, SeqMonotonic
<1>. QED
  BY <1>1, <1>2, <1>4, <1>5, <1>6, <1>7, <1>8 DEF ExchangeInv

\* A chunk that goes on.
LEMMA PassesStep ==
  ASSUME ExchangeInv, phase \in {"announced", "responding"}, NEW side \in Sides, side = "response" => phase = "responding",
         NEW n \in ChunkSizes, Passes(side, n)
  PROVE  ExchangeInv'
<1>1. /\ n \in Nat /\ passed[side] + n <= Len(exchange[side].text)
      /\ captures' = [captures EXCEPT ![side] =
                        Observe(@, SubSeq(exchange[side].text, passed[side] + 1, passed[side] + n))]
      /\ passed' = [passed EXCEPT ![side] = @ + n]
      /\ settings' = settings /\ exchange' = exchange /\ records' = records /\ phase' = phase
  BY ChunkSizesAssumption DEF Passes
<1>2. /\ \E S : exchange[side].text \in Seq(S)
      /\ settings.limit \in Nat \ {0} /\ passed[side] \in Nat
  BY BodiesAreTexts
<1>3. passed' \in [Sides -> Nat] /\ \A s \in Sides : passed'[s] = IF s = side THEN passed[s] + n ELSE passed[s]
  BY <1>1 DEF ExchangeInv
<1>4. \A s \in Sides : passed'[s] <= Len(exchange[s].text)
  BY <1>1, <1>3 DEF ExchangeInv
<1>5. Observe(Captured(side), SubSeq(exchange[side].text, passed[side] + 1, passed[side] + n)) = Captured(side)'
  <2>1. Observe(Captured(side), SubSeq(exchange[side].text, passed[side] + 1, passed[side] + n))
          = CaptureOf(exchange[side], passed[side] + n)
    BY <1>1, <1>2, ObservesOn DEF Captured
  <2>2. Captured(side)' = CaptureOf(exchange[side], passed[side] + n)
    BY <1>1, <1>3 DEF Captured, CaptureOf
  <2>. QED
    BY <2>1, <2>2
<1>6. \A s \in Sides : s # side => Captured(s)' = Captured(s)
  BY <1>1, <1>3 DEF Captured, CaptureOf
<1>7. \/ phase' # "responding" /\ captures' = [request |-> Captured("request")'] /\ passed'["response"] = 0
      \/ phase' # "announced" /\ captures' = [request |-> Captured("request")', response |-> Captured("response")']
  <2>. DEFINE chunk == SubSeq(exchange[side].text, passed[side] + 1, passed[side] + n)
              c1 == Captured("request")
              c2 == Captured("response")
  <2>0. side \in {"request", "response"} /\ captures' = [captures EXCEPT ![side] = Observe(captures[side], chunk)]
    BY <1>1 DEF Sides
  <2>1. CASE phase # "responding" /\ captures = [request |-> c1] /\ passed["response"] = 0
    <3>1. side = "request" /\ "response" \in Sides
      BY <2>0, <2>1 DEF Sides
    <3>2. captures' = [request |-> Observe(c1, chunk)]
      <4>. HIDE DEF c1, chunk
      <4>. QED
        BY <2>0, <2>1, <3>1
    <3>3. passed'["response"] = 0
      BY <3>1, <2>1, <1>3
    <3>. QED
      BY <3>1, <3>2, <3>3, <2>1, <1>1, <1>5
  <2>2. CASE phase # "announced" /\ captures = [request |-> c1, response |-> c2]
    <3>1. CASE side = "request"
      <4>1. captures' = [request |-> Observe(c1, chunk), response |-> c2]
        <5>. HIDE DEF c1, c2, chunk
        <5>. QED
          BY <2>0, <2>2, <3>1
      <4>. QED
        BY <4>1, <3>1, <2>2, <1>1, <1>5, <1>6 DEF Sides
    <3>2. CASE side = "response"
      <4>1. captures' = [request |-> c1, response |-> Observe(c2, chunk)]
        <5>. HIDE DEF c1, c2, chunk
        <5>. QED
          BY <2>0, <2>2, <3>2
      <4>. QED
        BY <4>1, <3>2, <2>2, <1>1, <1>5, <1>6 DEF Sides
    <3>. QED
      BY <3>1, <3>2, <2>0
  <2>. QED
    BY <2>1, <2>2 DEF ExchangeInv
<1>8. \A i \in DOMAIN records : records[i].event # "exchange_completed"
  BY DEF ExchangeInv
<1>9. records' \in Seq((Opened \cup BrokenOff \cup {Completed})')
  <2>1. records \in Seq(Opened \cup BrokenOff \cup {Completed})
    BY DEF ExchangeInv
  <2>2. Opened' = Opened /\ BrokenOff' = BrokenOff
    BY <1>1 DEF Opened, BrokenOff
  <2>3. DOMAIN records = 1 .. Len(records) /\ Len(records) \in Nat
    BY <2>1, LenProperties
  <2>4. \A i \in 1 .. Len(records) : records[i] \in Opened \cup BrokenOff
    <3>1. Completed.event = "exchange_completed"
      BY DEF Completed
    <3>. QED
      BY <2>1, <2>3, <1>8, <3>1, ElementOfSeq
  <2>5. records \in Seq(Opened \cup BrokenOff)
    BY <2>1, <2>4
  <2>. QED
    BY <2>2, <2>5, <1>1, SeqMonotonic
<1>. QED
  BY <1>1, <1>3, <1>4, <1>7, <1>8, <1>9 DEF ExchangeInv

\* The record of a step that changes no capture already made.
LEMMA EmittedStep ==
  ASSUME ExchangeInv, phase \in {"announced", "responding"}, NEW record, EmitsRecord(record),
         settings' = settings, exchange' = exchange,
         record \in (Opened \cup BrokenOff \cup {Completed})'
  PROVE  /\ records' \in Seq((Opened \cup BrokenOff \cup {Completed})')
         /\ \A i \in DOMAIN records' : records'[i].event = "exchange_completed" => records'[i] = record
<1>. DEFINE Kinds == (Opened \cup BrokenOff \cup {Completed})'
<1>1. records \in Seq(Opened \cup BrokenOff \cup {Completed}) /\ \A i \in DOMAIN records : records[i].event # "exchange_completed"
  BY DEF ExchangeInv
<1>2. records \in Seq(Kinds)
  <2>1. Opened' = Opened /\ BrokenOff' = BrokenOff
    BY DEF Opened, BrokenOff
  <2>2. DOMAIN records = 1 .. Len(records)
    BY <1>1, LenProperties
  <2>3. \A i \in 1 .. Len(records) : records[i] \in Opened \cup BrokenOff
    <3>1. Completed.event = "exchange_completed"
      BY DEF Completed
    <3>. QED
      BY <1>1, <2>2, <3>1, ElementOfSeq
  <2>4. records \in Seq(Opened \cup BrokenOff)
    BY <1>1, <2>3
  <2>. QED
    BY <2>1, <2>4, SeqMonotonic
<1>3. records' = Append(records, record) \/ records' = records
  BY DEF EmitsRecord
<1>. HIDE DEF Kinds
<1>4. record \in Kinds
  BY DEF Kinds
<1>5. records' \in Seq(Kinds) /\ \A i \in DOMAIN records' : records'[i] = record \/ (i \in DOMAIN records /\ records'[i] = records[i])
  BY <1>2, <1>3, <1>4
<1>. QED
  BY <1>1, <1>5 DEF Kinds

LEMMA StartedStep == ASSUME ExchangeInv, ResponseStarted PROVE ExchangeInv'
<1>. DEFINE record == [event |-> "upstream_response_started", headers |-> RedactPairs(exchange.headers, NameSet(settings.names))]
<1>1. /\ phase = "announced" /\ phase' = "responding" /\ EmitsRecord(record)
      /\ captures' = [request |-> captures.request, response |-> NewCapture(exchange.response.type)]
      /\ settings' = settings /\ exchange' = exchange /\ passed' = passed
  BY DEF ResponseStarted
<1>2. record \in Opened' /\ record.event # "exchange_completed"
  BY <1>1 DEF Opened
<1>. HIDE DEF record
<1>3. captures = [request |-> Captured("request")] /\ passed["response"] = 0
  BY <1>1 DEF ExchangeInv
<1>4. captures' = [request |-> Captured("request")', response |-> Captured("response")']
  <2>1. captures.request = Captured("request")
    BY <1>3
  <2>2. Captured("request")' = Captured("request") /\ Captured("response")' = CaptureOf(exchange.response, 0)
    BY <1>1, <1>3 DEF Captured, CaptureOf
  <2>3. settings.limit \in Nat \ {0}
    BY SettingsAssumption DEF ExchangeInv
  <2>4. NewCapture(exchange.response.type) = CaptureOf(exchange.response, 0)
    BY <2>3, NewIsOfNothing
  <2>. QED
    BY <2>1, <2>2, <2>4, <1>1
<1>5. /\ records' \in Seq((Opened \cup BrokenOff \cup {Completed})')
      /\ \A i \in DOMAIN records' : records'[i].event # "exchange_completed"
  <2>1. record \in (Opened \cup BrokenOff \cup {Completed})'
    BY <1>2
  <2>. QED
    BY <2>1, <1>1, <1>2, EmittedStep
<1>. QED
  BY <1>1, <1>4, <1>5 DEF ExchangeInv

\* What a completion says changes with the settings and captures only.
LEMMA CompletedStays ==
  ASSUME settings' = settings, captures' = captures
  PROVE  Completed' = Completed
<1>1. Metadata(captures.request)' = Metadata(captures.request)
  BY Zenon DEF Metadata
<1>2. Metadata(captures.response)' = Metadata(captures.response)
  BY Zenon DEF Metadata
<1>. QED
  BY ONLY <1>1, <1>2 DEF Completed

\* Every end but a completion can come at any time.
LEMMA EndsStep ==
  ASSUME ExchangeInv, NEW record, Ends(record), record \in BrokenOff \cup {Completed},
         record.event = "exchange_completed" => phase = "responding"
  PROVE  ExchangeInv'
<1>1. /\ phase \in {"announced", "responding"} /\ phase' = "final" /\ EmitsRecord(record)
      /\ settings' = settings /\ exchange' = exchange /\ passed' = passed /\ captures' = captures
  BY DEF Ends
<1>2. record \in (Opened \cup BrokenOff \cup {Completed})'
  <2>1. BrokenOff' = BrokenOff
    BY DEF BrokenOff
  <2>. QED
    BY <2>1, <1>1, CompletedStays
<1>3. /\ records' \in Seq((Opened \cup BrokenOff \cup {Completed})')
      /\ \A i \in DOMAIN records' : records'[i].event = "exchange_completed" => records'[i] = record
  BY <1>1, <1>2, EmittedStep
<1>4. \A side : Captured(side)' = Captured(side)
  BY <1>1 DEF Captured, CaptureOf
<1>5. \/ captures = [request |-> Captured("request")] /\ passed["response"] = 0
      \/ captures = [request |-> Captured("request"), response |-> Captured("response")]
  BY <1>1 DEF ExchangeInv
<1>6. phase = "responding" => captures = [request |-> Captured("request"), response |-> Captured("response")]
  BY DEF ExchangeInv
<1>. QED
  BY <1>1, <1>3, <1>4, <1>5, <1>6 DEF ExchangeInv

LEMMA ExchangeInductive == ExchangeInv /\ [LogNext]_<<vars, exchangeVars>> => ExchangeInv'
<1>. SUFFICES ASSUME ExchangeInv, LogNext \/ UNCHANGED exchangeVars PROVE ExchangeInv'
  BY DEF exchangeVars
<1>1. CASE UNCHANGED exchangeVars
  <2>1. /\ settings' = settings /\ exchange' = exchange /\ passed' = passed /\ captures' = captures
        /\ records' = records /\ phase' = phase
    BY <1>1 DEF exchangeVars
  <2>2. Completed' = Completed /\ Opened' = Opened /\ BrokenOff' = BrokenOff /\ \A side : Captured(side)' = Captured(side)
    BY <2>1, CompletedStays DEF Opened, BrokenOff, Captured, CaptureOf
  <2>. QED
    BY <2>1, <2>2 DEF ExchangeInv
<1>2. CASE Complete
  <2>1. CASE Ends(Completed)
    <3>1. phase = "responding"
      BY <1>2 DEF Complete
    <3>. QED
      BY <2>1, <3>1, EndsStep
  <2>2. CASE phase' = "final" /\ UNCHANGED <<settings, exchange, passed, captures, records>>
    <3>1. /\ phase = "responding" /\ settings' = settings /\ exchange' = exchange /\ passed' = passed
          /\ captures' = captures /\ records' = records
      BY <1>2, <2>2 DEF Complete
    <3>2. Completed' = Completed /\ Opened' = Opened /\ BrokenOff' = BrokenOff /\ \A side : Captured(side)' = Captured(side)
      BY <3>1, CompletedStays DEF Opened, BrokenOff, Captured, CaptureOf
    <3>. QED
      BY <2>2, <3>1, <3>2 DEF ExchangeInv
  <2>3. Ends(Completed) \/ (phase' = "final" /\ UNCHANGED <<settings, exchange, passed, captures, records>>)
    BY <1>2 DEF Complete, Completed
  <2>. QED
    BY <2>1, <2>2, <2>3
<1>3. CASE Fail
  <2>1. Ends([event |-> "exchange_failed"]) /\ [event |-> "exchange_failed"] \in BrokenOff
    BY <1>3 DEF Fail, BrokenOff
  <2>. QED
    BY <2>1, EndsStep
<1>4. CASE Cancel
  <2>. DEFINE m == captures.request.count
              n == IF phase = "announced" THEN 0 ELSE captures.response.count
              record == [event |-> "exchange_cancelled", requestBytes |-> m, responseBytes |-> n]
  <2>1. phase \in {"announced", "responding"} /\ Ends(record)
    BY <1>4 DEF Cancel, Ends
  <2>2. m \in Nat /\ n \in Nat
    <3>1. Captured("request").count \in Nat /\ Captured("response").count \in Nat
      BY <2>1 DEF ExchangeInv, Captured, CaptureOf, Sides
    <3>2. captures.request = Captured("request") /\ (phase = "responding" => captures.response = Captured("response"))
      <4>. DEFINE c1 == Captured("request")
                  c2 == Captured("response")
      <4>1. (phase # "responding" /\ captures = [request |-> c1]) \/ captures = [request |-> c1, response |-> c2]
        BY <2>1 DEF ExchangeInv
      <4>. HIDE DEF c1, c2
      <4>2. captures.request = c1 /\ (phase = "responding" => captures.response = c2)
        BY <4>1
      <4>. QED
        BY <4>2 DEF c1, c2
    <3>. QED
      BY <3>1, <3>2, <2>1
  <2>. HIDE DEF m, n
  <2>3. record \in BrokenOff /\ record.event # "exchange_completed"
    BY <2>2 DEF BrokenOff
  <2>. HIDE DEF record
  <2>. QED
    BY <2>1, <2>3, EndsStep
<1>5. CASE Forgets
  BY <1>5 DEF Forgets, ExchangeInv, None
<1>6. ASSUME NEW n \in ChunkSizes, PassesRequest(n) PROVE ExchangeInv'
  BY <1>6, PassesStep DEF PassesRequest, Sides
<1>7. ASSUME NEW n \in ChunkSizes, PassesResponse(n) PROVE ExchangeInv'
  BY <1>7, PassesStep DEF PassesResponse, Sides
<1>. QED
  BY <1>1, <1>2, <1>3, <1>4, <1>5, <1>6, <1>7, AnnouncesStep, StartedStep DEF LogNext, ExchangeSteps

-----------------------------------------------------------------------------
(* What the records say.                                                    *)

\* What Told gives of a completed exchange.
LEMMA TellsOfBodies ==
  ASSUME ExchangeInv, NEW t \in Told
  PROVE  \E side \in Sides : /\ phase # "idle"
                             /\ t.data = Metadata(Captured(side)) /\ t.type = exchange[side].type
                             /\ t.text = SubSeq(exchange[side].text, 1, passed[side])
<1>. DEFINE last == records[Len(records)]
<1>1. records # None /\ last.event = "exchange_completed"
  BY DEF Told
<1>2. phase # "idle" /\ records \in Seq(Opened \cup BrokenOff \cup {Completed})
  BY <1>1 DEF ExchangeInv, None
<1>3. Len(records) \in DOMAIN records
  BY <1>1, <1>2 DEF None
<1>4. last \in Opened \cup BrokenOff \cup {Completed}
  BY <1>2, <1>3
<1>5. last = Completed
  BY <1>1, <1>4, KindsOfRecords
<1>6. captures = [request |-> Captured("request"), response |-> Captured("response")]
  BY <1>1, <1>2, <1>3 DEF ExchangeInv
<1>7. PICK side \in Sides :
        t = [data |-> last[side], type |-> exchange[side].type, text |-> SubSeq(exchange[side].text, 1, passed[side])]
  BY <1>1 DEF Told
<1>8. last[side] = Metadata(Captured(side))
  <2>. DEFINE c1 == Captured("request")
              c2 == Captured("response")
  <2>1. captures.request = c1 /\ captures.response = c2
    <3>. HIDE DEF c1, c2
    <3>. QED
      BY <1>6 DEF c1, c2
  <2>. DEFINE m1 == Metadata(captures.request)
              m2 == Metadata(captures.response)
  <2>2. last = [event |-> "exchange_completed", request |-> m1, response |-> m2]
    BY <1>5 DEF Completed
  <2>. HIDE DEF m1, m2, last
  <2>3. last["request"] = m1 /\ last["response"] = m2
    BY <2>2
  <2>4. m1 = Metadata(c1) /\ m2 = Metadata(c2)
    BY <2>1 DEF m1, m2
  <2>. QED
    BY <2>3, <2>4 DEF Sides
<1>. HIDE DEF last
<1>9. t.data = last[side] /\ t.type = exchange[side].type /\ t.text = SubSeq(exchange[side].text, 1, passed[side])
  BY <1>7
<1>. QED
  BY <1>2, <1>8, <1>9

LEMMA TellsTheBody ==
  ASSUME ExchangeInv, NEW t \in Told
  PROVE  /\ t.data.bytes = Len(t.text)
         /\ t.data.captured <=> settings.bodies /\ IsTextual(t.type) /\ IsUtf8(Beginning(t.text))
         /\ t.data.captured =>
              /\ t.data.kept = Len(Beginning(t.text))
              /\ t.data.truncated <=> Len(t.text) > settings.limit
              /\ t.data.body = IF IsJson(t.type) THEN RedactJsonText(Beginning(t.text), NameSet(settings.names))
                               ELSE Unread(Beginning(t.text))
<1>1. PICK side \in Sides : /\ phase # "idle"
                            /\ t.data = Metadata(Captured(side)) /\ t.type = exchange[side].type
                            /\ t.text = SubSeq(exchange[side].text, 1, passed[side])
  BY TellsOfBodies
<1>. DEFINE body == exchange[side]
            n == passed[side]
<1>2. /\ \E S : body.text \in Seq(S)
      /\ n \in 0 .. Len(body.text) /\ settings.limit \in Nat \ {0} /\ settings.bodies \in BOOLEAN
  BY <1>1, BodiesAreTexts
<1>. HIDE DEF body, n
<1>3. t.data = Metadata(CaptureOf(body, n)) /\ t.type = body.type /\ t.text = SubSeq(body.text, 1, n)
  BY <1>1 DEF body, n, Captured
<1>. QED
  BY <1>2, <1>3, MetadataTells

LEMMA RecordsTell == ExchangeInv => RecordTellsTheBody
<1>. SUFFICES ASSUME ExchangeInv, NEW t \in Told
              PROVE  /\ t.data.bytes = Len(t.text)
                     /\ t.data.captured <=> settings.bodies /\ IsTextual(t.type) /\ IsUtf8(Beginning(t.text))
                     /\ t.data.captured =>
                          /\ t.data.kept = Len(Beginning(t.text))
                          /\ t.data.truncated <=> Len(t.text) > settings.limit
                          /\ ~(IsJson(t.type) /\ Beginning(t.text) \in DOMAIN Loads) =>
                               t.data.body = Unread(Beginning(t.text))
  BY DEF RecordTellsTheBody
<1>. QED
  BY TellsTheBody DEF RedactJsonText

LEMMA RecordsRedact == ExchangeInv => RedactsByName
<1>. SUFFICES ASSUME ExchangeInv PROVE RedactsByName
  OBVIOUS
<1>1. ASSUME NEW i \in DOMAIN records, NEW part \in DOMAIN records[i] \cap {"headers", "query"}
      PROVE  records[i][part] = [j \in DOMAIN exchange[part] |->
               LET pair == exchange[part][j]
               IN  <<pair[1], IF IsNamedAsSecret(pair[1], settings.names) THEN Redacted ELSE pair[2]>>]
  <2>. DEFINE pairs == exchange[part]
  <2>1. phase # "idle" /\ exchange \in Exchanges /\ records \in Seq(Opened \cup BrokenOff \cup {Completed})
    BY DEF ExchangeInv
  <2>2. records[i][part] = RedactPairs(pairs, NameSet(settings.names))
    BY <2>1, KindsOfRecords
  <2>3. \A j \in DOMAIN pairs : pairs[j] = <<pairs[j][1], pairs[j][2]>>
    BY <2>1, ExchangesAssumption
  <2>. HIDE DEF pairs
  <2>. QED
    BY <2>2, <2>3, NamesAreTold DEF RedactPairs, pairs
<1>2. ASSUME NEW t \in Told, t.data.captured, IsJson(t.type), Beginning(t.text) \in DOMAIN Loads
      PROVE  ShowsButSecrets(t.data.body, Loads[Beginning(t.text)], settings.names)
  <2>1. t.data.body = RedactJsonValue(Loads[Beginning(t.text)], NameSet(settings.names))
    BY <1>2, TellsTheBody DEF RedactJsonText
  <2>2. Loads[Beginning(t.text)] \in JsonValues
    BY <1>2, LoadsAssumption
  <2>. QED
    BY <2>1, <2>2, SecretsAreHidden
<1>. QED
  BY <1>1, <1>2 DEF RedactsByName

-----------------------------------------------------------------------------

LEMMA LogInvariance == LogSpec => []IInv /\ []ExchangeInv
<1>1. IInv /\ [LogNext]_<<vars, exchangeVars>> => IInv'
  <2>1. [LogNext]_<<vars, exchangeVars>> => [Next]_vars
    BY QueueSteps
  <2>. QED
    BY <2>1, Inductive
<1>. QED
  BY <1>1, LogInitially, ExchangeInductive, PTL DEF LogSpec

\* An exchange uses the queue as LogQueue lets the loop use it: what is proved of the
\* queue on its own holds with every exchange.
THEOREM ExchangesUseTheQueue == LogSpec => Spec
<1>1. LogInit => Init
  BY DEF LogInit
<1>2. [LogNext]_<<vars, exchangeVars>> => [Next]_vars
  BY QueueSteps
<1>. QED
  BY <1>1, <1>2, PTL DEF LogSpec, Spec

\* The record of a completed exchange says of each body how long it was, how it began
\* and whether it was cut, for chunks of any sizes and any limit (_BodyCapture).
THEOREM BodiesAreTold == LogSpec => []RecordTellsTheBody
  BY LogInvariance, RecordsTell, PTL

\* Headers, queries and JSON bodies that were captured whole, of any depth, are shown
\* without what stands under a sensitive name and with all else (_redact_headers,
\* _redact_query, _redact_json_value); of a body that the limit cut it says nothing.
THEOREM SecretsStayOut == LogSpec => []RedactsByName
  BY LogInvariance, RecordsRedact, PTL

=============================================================================
