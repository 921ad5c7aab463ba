------------------------- MODULE GateRegistryProofs -------------------------
(***************************************************************************)
(* Theorems about GateRegistry, for any requests, credentials and times.   *)
(*                                                                         *)
(* The sweeper sees reservations, queues and poll loops, but not a request *)
(* that is looking its plan up.  What protects that request is time alone: *)
(* its gate has been idle for at most as long as the lookup has taken      *)
(* (LookupsAreRecent), so a lookup shorter than the idle time of the       *)
(* sweeper ends before its gate can go.                                    *)
(***************************************************************************)
EXTENDS GateRegistry, FiniteSetTheorems, TLAPS

\* A registered gate was created for its credential; a gate that polls or has
\* a request under way is registered.
Registered ==
  /\ \A k \in Keys : gates[k] # NoGate => KeyOf[gates[k]] = k
  /\ \A g \in polling : gates[KeyOf[g]] = g
  /\ \A r \in Live : gateOf[r] \in Gates /\ gates[KeyOf[r]] = gateOf[r]

LookupsAreRecent ==
  \A r \in Requests : stage[r] = "lookup" => idleFor[gateOf[r]] <= waited[r]

\* No gate grants more than its limit.
GatesKeepLimit ==
  \A g \in Gates : Cardinality(At(g, "holding")) <= Limit

\* Nothing is left when the application has ended.
ClosedIsQuiet == server = "closed" => Live = {} /\ polling = {}

Inv == TypeOK /\ Registered /\ LookupsAreRecent /\ GatesKeepLimit /\ ClosedIsQuiet

Stages == {"idle", "lookup", "queued", "holding", "done"}

-----------------------------------------------------------------------------
(* Lemmas about gates.                                                      *)

LEMMA AtFinite == \A g, s : IsFiniteSet(At(g, s))
<1> TAKE g, s
<1>1. At(g, s) \subseteq Requests
  BY DEF At
<1> QED
  BY <1>1, RequestsAssumption, FS_Subset

\* The gate a handler gets: a gate, of its credential.
LEMMA GateForIsGate ==
  ASSUME TypeOK, Registered, NEW r \in Requests
  PROVE  GateFor(r) \in Gates /\ KeyOf[GateFor(r)] = KeyOf[r]
BY KeysAssumption DEF TypeOK, Registered, GateFor, Gates

\* ReserveOrQueue keeps the limit of a gate and starts its poll loop at most.
LEMMA ReserveOrQueueKeeps ==
  ASSUME TypeOK, GatesKeepLimit, NEW r \in Requests, NEW g \in Gates, stage[r] \in {"idle", "lookup"},
         ReserveOrQueue(r, g), gateOf' \in {gateOf, [gateOf EXCEPT ![r] = g]}, gateOf'[r] = g
  PROVE  /\ stage' \in [Requests -> Stages]
         /\ stage'[r] \in {"queued", "holding"}
         /\ \A q \in Requests \ {r} : stage'[q] = stage[q] /\ gateOf'[q] = gateOf[q]
         /\ polling' \in {polling, polling \cup {g}}
         /\ GatesKeepLimit'
<1>1. /\ stage' \in [Requests -> Stages]
      /\ stage'[r] \in {"queued", "holding"}
      /\ \A q \in Requests \ {r} : stage'[q] = stage[q] /\ gateOf'[q] = gateOf[q]
      /\ polling' \in {polling, polling \cup {g}}
  BY DEF ReserveOrQueue, TypeOK, Stages
<1>2. ASSUME NEW h \in Gates PROVE Cardinality(At(h, "holding")') <= Limit
  <2>1. CASE h = g /\ stage'[r] = "holding"
    <3>1. At(h, "holding")' = At(h, "holding") \cup {r} /\ r \notin At(h, "holding")
      BY <2>1, <1>1 DEF At
    <3>2. Cardinality(At(h, "holding")) < Limit
      BY <2>1, <1>1 DEF ReserveOrQueue, TypeOK
    <3>3. /\ Cardinality(At(h, "holding") \cup {r}) = Cardinality(At(h, "holding")) + 1
          /\ Cardinality(At(h, "holding")) \in Nat
      BY <3>1, AtFinite, FS_AddElement, FS_CardinalityType
    <3> QED
      BY <3>1, <3>2, <3>3, LimitAssumption
  <2>2. CASE ~(h = g /\ stage'[r] = "holding")
    <3>1. At(h, "holding")' = At(h, "holding")
      BY <2>2, <1>1 DEF At
    <3> QED
      BY <3>1 DEF GatesKeepLimit
  <2> QED
    BY <2>1, <2>2
<1>3. GatesKeepLimit'
  BY <1>2 DEF GatesKeepLimit, Gates
<1> QED
  BY <1>1, <1>3

\* A step in which the waiters W of g are admitted and r, if it is a request,
\* is done with its units.
LEMMA AdmissionKeeps ==
  ASSUME Inv, NEW g \in Gates, NEW r \in Requests \cup {NoGate},
         r \in Requests => stage[r] = "holding" /\ gateOf[r] = g,
         NEW W, Admits(g, r, W),
         stage' = [q \in Requests |->
            IF q = r THEN "done" ELSE IF q \in W THEN "holding" ELSE stage[q]],
         NoteActivity(g), UNCHANGED <<server, gates, gateOf, waited, polling, planned>>
  PROVE  Inv'
<1> USE DEF Inv
<1>1. /\ stage' \in [Requests -> Stages]
      /\ W \subseteq {q \in Requests : stage[q] = "queued" /\ gateOf[q] = g}
  BY DEF TypeOK, Admits, At, Stages
<1>2. idleFor' \in [Gates -> 0 .. SweepIdle] /\ \A h \in Gates : idleFor'[h] = IF h = g THEN 0 ELSE idleFor[h]
  BY TimesAssumption DEF TypeOK, NoteActivity
<1>3. TypeOK'
  BY <1>1, <1>2 DEF TypeOK, Stages
<1>4. Live' \subseteq Live
  BY <1>1 DEF Live
<1>5. Registered'
  BY <1>4 DEF Registered
<1>6. LookupsAreRecent'
  <2> SUFFICES ASSUME NEW q \in Requests, stage'[q] = "lookup"
               PROVE  idleFor'[gateOf[q]] <= waited[q]
    BY DEF LookupsAreRecent
  <2>1. stage[q] = "lookup" /\ q \in Live
    BY <1>1 DEF Live
  <2>2. gateOf[q] \in Gates /\ idleFor[gateOf[q]] <= waited[q] /\ waited[q] \in Nat
    BY <2>1, TimesAssumption DEF Registered, LookupsAreRecent, TypeOK
  <2> QED
    BY <2>2, <1>2
<1>7. ASSUME NEW h \in Gates PROVE Cardinality(At(h, "holding")') <= Limit
  <2>1. CASE h = g
    <3>1. At(g, "holding")' = (At(g, "holding") \ {r}) \cup W
      BY <1>1, RequestsAssumption DEF At
    <3> QED
      BY <2>1, <3>1 DEF Admits
  <2>2. CASE h # g
    <3>1. At(h, "holding")' = At(h, "holding")
      BY <2>2, <1>1 DEF At
    <3> QED
      BY <3>1 DEF GatesKeepLimit
  <2> QED
    BY <2>1, <2>2
<1>8. GatesKeepLimit'
  BY <1>7 DEF GatesKeepLimit, Gates
<1>9. ClosedIsQuiet'
  BY <1>4 DEF ClosedIsQuiet
<1> QED
  BY <1>3, <1>5, <1>6, <1>8, <1>9

-----------------------------------------------------------------------------
LEMMA InitInv == Init => Inv
<1> SUFFICES ASSUME Init PROVE Inv
  OBVIOUS
<1>1. TypeOK
  BY TimesAssumption DEF Init, TypeOK
<1>2. Live = {} /\ \A g \in Gates : At(g, "holding") = {}
  BY DEF Init, Live, At
<1>3. GatesKeepLimit
  BY <1>2, FS_EmptySet, LimitAssumption DEF GatesKeepLimit
<1> QED
  BY <1>1, <1>2, <1>3 DEF Init, Inv, Registered, LookupsAreRecent, ClosedIsQuiet

\* A handler gets its gate.
LEMMA ArrivesKeeps ==
  ASSUME Inv, NEW r \in Requests, Arrives(r)
  PROVE  Inv'
<1> DEFINE g == GateFor(r)
<1> USE DEF Inv
<1>1. g \in Gates /\ KeyOf[g] = KeyOf[r] /\ KeyOf[r] \in Keys /\ stage[r] = "idle"
  BY GateForIsGate, KeysAssumption DEF Arrives
<1>2. /\ gates' \in [Keys -> Gates \cup {NoGate}]
      /\ \A k \in Keys : gates'[k] = IF k = KeyOf[r] THEN g ELSE gates[k]
      /\ gateOf' = [gateOf EXCEPT ![r] = g]
      /\ gateOf' \in [Requests -> Gates \cup {NoGate}]
      /\ gateOf'[r] = g
      /\ \A q \in Requests \ {r} : gateOf'[q] = gateOf[q]
  BY <1>1 DEF Arrives, TypeOK
<1>3. idleFor' \in [Gates -> 0 .. SweepIdle] /\ \A h \in Gates : idleFor'[h] = IF h = g THEN 0 ELSE idleFor[h]
  BY <1>1, TimesAssumption DEF TypeOK, NoteActivity, Arrives
<1>4. UNCHANGED <<server, waited, planned>> /\ server = "serving"
  BY DEF Arrives
<1>5. /\ stage' \in [Requests -> Stages]
      /\ stage'[r] \in {"lookup", "queued", "holding"}
      /\ \A q \in Requests \ {r} : stage'[q] = stage[q]
      /\ polling' \in {polling, polling \cup {g}}
      /\ GatesKeepLimit'
  <2>1. CASE ReserveOrQueue(r, g)
    <3>1. stage[r] \in {"idle", "lookup"}
      BY <1>1
    <3> QED
      BY <2>1, <3>1, <1>1, <1>2, ReserveOrQueueKeeps
  <2>2. CASE stage' = [stage EXCEPT ![r] = "lookup"] /\ UNCHANGED polling
    <3>1. \A h \in Gates : At(h, "holding")' = At(h, "holding")
      BY <2>2, <1>1, <1>2 DEF At, TypeOK
    <3>2. GatesKeepLimit'
      BY <3>1 DEF GatesKeepLimit, Gates
    <3> QED
      BY <2>2, <3>2 DEF TypeOK, Stages
  <2> QED
    BY <2>1, <2>2 DEF Arrives
<1>6. TypeOK'
  BY <1>1, <1>2, <1>3, <1>4, <1>5 DEF TypeOK, Stages
<1>7. \A k \in Keys : gates[k] # NoGate => gates'[k] = gates[k]
  BY <1>2 DEF GateFor
<1>8. Live' = Live \cup {r}
  BY <1>5 DEF Live
<1>9. Registered'
  <2>1. \A k \in Keys : gates'[k] # NoGate => KeyOf[gates'[k]] = k
    BY <1>1, <1>2 DEF Registered
  <2>2. \A h \in polling' : gates'[KeyOf[h]] = h
    <3>1. ASSUME NEW h \in polling PROVE gates'[KeyOf[h]] = h
      <4>1. h \in Gates /\ KeyOf[h] \in Keys /\ gates[KeyOf[h]] = h /\ h # NoGate
        BY RequestsAssumption, KeysAssumption DEF Registered, TypeOK, Gates
      <4> QED
        BY <4>1, <1>7
    <3>2. gates'[KeyOf[g]] = g
      BY <1>1, <1>2
    <3> QED
      BY <3>1, <3>2, <1>5
  <2>3. ASSUME NEW q \in Live' PROVE gateOf'[q] \in Gates /\ gates'[KeyOf[q]] = gateOf'[q]
    <3>1. CASE q = r
      BY <3>1, <1>1, <1>2
    <3>2. CASE q # r
      <4>1. q \in Live /\ q \in Requests /\ KeyOf[q] \in Keys
        BY <3>2, <1>8, KeysAssumption DEF Live
      <4>2. gateOf[q] \in Gates /\ gates[KeyOf[q]] = gateOf[q] /\ gateOf[q] # NoGate
        BY <4>1, RequestsAssumption DEF Registered, Gates
      <4> QED
        BY <3>2, <4>1, <4>2, <1>2, <1>7
    <3> QED
      BY <3>1, <3>2
  <2> QED
    BY <2>1, <2>2, <2>3 DEF Registered
<1>10. LookupsAreRecent'
  <2> SUFFICES ASSUME NEW q \in Requests, stage'[q] = "lookup"
               PROVE  idleFor'[gateOf'[q]] <= waited[q]
    BY <1>4 DEF LookupsAreRecent
  <2>0. waited[q] \in Nat
    BY TimesAssumption DEF TypeOK
  <2>1. CASE q = r
    BY <2>0, <2>1, <1>1, <1>2, <1>3
  <2>2. CASE q # r
    <3>1. stage[q] = "lookup" /\ q \in Live
      BY <2>2, <1>5 DEF Live
    <3>2. gateOf[q] \in Gates /\ idleFor[gateOf[q]] <= waited[q]
      BY <3>1 DEF Registered, LookupsAreRecent
    <3> QED
      BY <2>0, <2>2, <3>2, <1>2, <1>3
  <2> QED
    BY <2>1, <2>2
<1>11. ClosedIsQuiet'
  BY <1>4 DEF ClosedIsQuiet
<1> QED
  BY <1>5, <1>6, <1>9, <1>10, <1>11

\* A plan lookup ends.
LEMMA LookupEndsKeeps ==
  ASSUME Inv, NEW r \in Requests, LookupEnds(r)
  PROVE  Inv'
<1> DEFINE g == gateOf[r]
<1> USE DEF Inv
<1>1. stage[r] = "lookup" /\ r \in Live /\ g \in Gates /\ gates[KeyOf[r]] = g
  BY DEF LookupEnds, Live, Registered
<1>2. UNCHANGED <<server, gates, gateOf, waited>> /\ planned' \subseteq Gates
  BY <1>1 DEF LookupEnds, TypeOK
<1>3. /\ stage' \in [Requests -> Stages]
      /\ stage'[r] \in {"queued", "holding"}
      /\ \A q \in Requests \ {r} : stage'[q] = stage[q]
      /\ polling' \in {polling, polling \cup {g}}
      /\ GatesKeepLimit'
  <2>1. ReserveOrQueue(r, g) /\ stage[r] \in {"idle", "lookup"}
    BY <1>1 DEF LookupEnds
  <2> QED
    BY <2>1, <1>1, <1>2, ReserveOrQueueKeeps
<1>4. idleFor' \in [Gates -> 0 .. SweepIdle] /\ \A h \in Gates : idleFor'[h] <= idleFor[h]
  BY <1>1, TimesAssumption DEF LookupEnds, NoteActivity, TypeOK
<1>5. TypeOK'
  BY <1>1, <1>2, <1>3, <1>4 DEF TypeOK, Stages
<1>6. Live' \subseteq Live
  BY <1>1, <1>3 DEF Live
<1>7. KeyOf[g] = KeyOf[r]
  <2>1. KeyOf[r] \in Keys /\ g # NoGate
    BY <1>1, RequestsAssumption, KeysAssumption DEF Gates
  <2> QED
    BY <2>1, <1>1 DEF Registered
<1>8. Registered'
  BY <1>1, <1>2, <1>3, <1>6, <1>7 DEF Registered
<1>9. LookupsAreRecent'
  <2> SUFFICES ASSUME NEW q \in Requests, stage'[q] = "lookup"
               PROVE  idleFor'[gateOf[q]] <= waited[q]
    BY <1>2 DEF LookupsAreRecent
  <2>1. stage[q] = "lookup" /\ q \in Live
    BY <1>3 DEF Live
  <2>2. gateOf[q] \in Gates /\ idleFor[gateOf[q]] <= waited[q] /\ waited[q] \in Nat
    BY <2>1, TimesAssumption DEF Registered, LookupsAreRecent, TypeOK
  <2>3. idleFor'[gateOf[q]] <= idleFor[gateOf[q]] /\ {idleFor'[gateOf[q]], idleFor[gateOf[q]]} \subseteq Nat
    BY <2>2, <1>4, TimesAssumption DEF TypeOK
  <2> QED
    BY <2>2, <2>3
<1>10. ClosedIsQuiet'
  BY <1>1, <1>2 DEF ClosedIsQuiet
<1> QED
  BY <1>3, <1>5, <1>8, <1>9, <1>10

\* The sweeper takes no gate a request is at.
LEMMA SweepsKeeps ==
  ASSUME LookupTime < SweepIdle, Inv, Sweeps
  PROVE  Inv'
<1> USE DEF Inv
<1>1. /\ \A k \in Keys : gates'[k] = IF gates[k] # NoGate /\ IsDisposable(gates[k]) THEN NoGate ELSE gates[k]
      /\ gates' \in [Keys -> Gates \cup {NoGate}]
      /\ UNCHANGED <<server, gateOf, stage, waited, idleFor, polling, planned>>
  BY DEF Sweeps, TypeOK
<1>2. TypeOK' /\ LookupsAreRecent' /\ GatesKeepLimit' /\ ClosedIsQuiet' /\ Live' = Live
  BY <1>1 DEF TypeOK, LookupsAreRecent, GatesKeepLimit, ClosedIsQuiet, Live, At
<1>3. ASSUME NEW r \in Live PROVE ~IsDisposable(gateOf[r])
  <2>1. r \in Requests /\ gateOf[r] \in Gates
    BY DEF Live, Registered
  <2>2. CASE stage[r] \in {"holding", "queued"}
    BY <2>1, <2>2 DEF IsDisposable, Busy, At
  <2>3. CASE stage[r] = "lookup"
    <3>1. idleFor[gateOf[r]] <= waited[r] /\ waited[r] \in 0 .. LookupTime /\ idleFor[gateOf[r]] \in Nat
      BY <2>1, <2>3, TimesAssumption DEF LookupsAreRecent, TypeOK
    <3> QED
      BY <3>1, TimesAssumption DEF IsDisposable
  <2> QED
    BY <2>2, <2>3 DEF Live
<1>4. Registered'
  <2>1. \A h \in polling : gates'[KeyOf[h]] = h
    <3> TAKE h \in polling
    <3>1. KeyOf[h] \in Keys /\ gates[KeyOf[h]] = h /\ ~IsDisposable(h)
      BY KeysAssumption DEF TypeOK, Gates, Registered, IsDisposable
    <3> QED
      BY <3>1, <1>1
  <2>2. \A r \in Live : gateOf[r] \in Gates /\ gates'[KeyOf[r]] = gateOf[r]
    BY <1>1, <1>3, KeysAssumption DEF Registered, Live
  <2> QED
    BY <2>1, <2>2, <1>1, <1>2 DEF Registered
<1> QED
  BY <1>2, <1>4

\* The end of the application.
LEMMA CloseKeeps ==
  ASSUME Inv, Close
  PROVE  Inv'
<1> USE DEF Inv
<1>1. polling' = {}
  <2>1. \A g \in polling : g \in {gates[k] : k \in Keys}
    BY KeysAssumption DEF Registered, TypeOK, Gates
  <2> QED
    BY <2>1 DEF Close, ClosesPolls
<1>2. Live' = {} /\ Live = {}
  BY DEF Close, Live
<1>3. TypeOK' /\ GatesKeepLimit' /\ LookupsAreRecent'
  BY <1>1 DEF TypeOK, Close, GatesKeepLimit, At, LookupsAreRecent
<1>4. Registered'
  BY <1>1, <1>2 DEF Registered, Close
<1> QED
  BY <1>1, <1>2, <1>3, <1>4 DEF ClosedIsQuiet

\* The clock advances for lookups and for idle gates alike.
LEMMA TickKeeps ==
  ASSUME Inv, Tick
  PROVE  Inv'
<1> USE DEF Inv
<1>1. UNCHANGED <<server, gates, gateOf, stage, polling, planned>>
  BY DEF Tick
<1>2. /\ \A r \in Requests : waited'[r] = IF stage[r] = "lookup" THEN waited[r] + 1 ELSE waited[r]
      /\ waited' \in [Requests -> 0 .. LookupTime]
  BY TimesAssumption DEF Tick, TypeOK
<1>3. /\ \A g \in Gates : idleFor'[g] <= idleFor[g] + 1
      /\ idleFor' \in [Gates -> 0 .. SweepIdle]
  BY TimesAssumption DEF Tick, TypeOK, Older
<1>4. TypeOK' /\ Registered' /\ GatesKeepLimit' /\ ClosedIsQuiet'
  BY <1>1, <1>2, <1>3 DEF TypeOK, Registered, GatesKeepLimit, ClosedIsQuiet, Live, At
<1>5. LookupsAreRecent'
  <2> SUFFICES ASSUME NEW q \in Requests, stage[q] = "lookup"
               PROVE  idleFor'[gateOf[q]] <= waited'[q]
    BY <1>1 DEF LookupsAreRecent
  <2>1. gateOf[q] \in Gates
    BY DEF Registered, Live
  <2>2. /\ idleFor[gateOf[q]] <= waited[q]
        /\ {idleFor[gateOf[q]], idleFor'[gateOf[q]], waited[q]} \subseteq Nat
    BY <2>1, <1>3, TimesAssumption DEF LookupsAreRecent, TypeOK
  <2> QED
    BY <2>1, <2>2, <1>2, <1>3
<1> QED
  BY <1>4, <1>5

LEMMA NextKeeps ==
  ASSUME LookupTime < SweepIdle, Inv, [Next]_vars
  PROVE  Inv'
<1>1. CASE Start
  <2>1. UNCHANGED <<gates, gateOf, stage, waited, idleFor, polling, planned>> /\ server' = "serving"
    BY <1>1 DEF Start
  <2> QED
    BY <2>1 DEF Inv, TypeOK, Registered, LookupsAreRecent, GatesKeepLimit, ClosedIsQuiet, Live, At
<1>2. ASSUME NEW r \in Requests, Releases(r) PROVE Inv'
  <2>1. gateOf[r] \in Gates /\ stage[r] = "holding" /\ NoteActivity(gateOf[r])
    BY <1>2 DEF Releases, Inv, Registered, Live
  <2>2. PICK W \in SUBSET Requests :
          /\ Admits(gateOf[r], r, W)
          /\ stage' = [q \in Requests |->
               IF q = r THEN "done" ELSE IF q \in W THEN "holding" ELSE stage[q]]
    BY <1>2 DEF Releases
  <2>3. UNCHANGED <<server, gates, gateOf, waited, polling, planned>>
    BY <1>2 DEF Releases
  <2> QED
    BY <2>1, <2>2, <2>3, AdmissionKeeps
<1>3. ASSUME NEW r \in Requests, Leaves(r) PROVE Inv'
  <2>1. /\ UNCHANGED <<server, gates, gateOf, waited, idleFor, polling, planned>>
        /\ stage' \in [Requests -> Stages]
        /\ \A q \in Requests : stage'[q] = IF q = r THEN "done" ELSE stage[q]
        /\ stage[r] # "holding"
    BY <1>3 DEF Leaves, Inv, TypeOK, Stages
  <2>2. Live' \subseteq Live
    BY <2>1 DEF Live
  <2>3. \A g \in Gates : At(g, "holding")' = At(g, "holding")
    BY <2>1 DEF At
  <2> QED
    BY <2>1, <2>2, <2>3 DEF Inv, TypeOK, Registered, LookupsAreRecent, GatesKeepLimit, ClosedIsQuiet, Stages, Gates
<1>4. ASSUME NEW g \in Gates, PollTurns(g) PROVE Inv'
  <2>1. PICK W \in SUBSET Requests :
          /\ Admits(g, NoGate, W)
          /\ stage' = [q \in Requests |-> IF q \in W THEN "holding" ELSE stage[q]]
    BY <1>4 DEF PollTurns
  <2>2. stage' = [q \in Requests |->
          IF q = NoGate THEN "done" ELSE IF q \in W THEN "holding" ELSE stage[q]]
    BY <2>1, RequestsAssumption
  <2>3. NoteActivity(g) /\ UNCHANGED <<server, gates, gateOf, waited, polling, planned>>
    BY <1>4 DEF PollTurns
  <2>4. NoGate \in Requests => stage[NoGate] = "holding" /\ gateOf[NoGate] = g
    BY RequestsAssumption
  <2> QED
    BY <2>1, <2>2, <2>3, <2>4, AdmissionKeeps
<1>5. ASSUME NEW g \in Gates, PollStops(g) PROVE Inv'
  BY <1>5 DEF PollStops, Inv, TypeOK, Registered, LookupsAreRecent, GatesKeepLimit, ClosedIsQuiet, Live, At
<1>6. CASE UNCHANGED vars
  BY <1>6 DEF vars, Inv, TypeOK, Registered, LookupsAreRecent, GatesKeepLimit, ClosedIsQuiet, Live, At
<1> QED
  BY <1>1, <1>2, <1>3, <1>4, <1>5, <1>6, ArrivesKeeps, LookupEndsKeeps, SweepsKeeps, CloseKeeps,
     TickKeeps DEF Next

\* The invariant holds when a lookup is shorter than the idle time.
THEOREM RegistryInvariant ==
  ASSUME LookupTime < SweepIdle
  PROVE  Spec => []Inv
<1>1. Inv /\ [Next]_vars => Inv'
  BY NextKeeps
<1> QED
  BY <1>1, InitInv, PTL DEF Spec

\* TypeOK for any requests, credentials and times.
THEOREM TypeCorrectness ==
  ASSUME LookupTime < SweepIdle
  PROVE  Spec => []TypeOK
<1>1. Inv => TypeOK
  BY DEF Inv
<1> QED
  BY <1>1, RegistryInvariant, PTL

\* LiveIsRegistered: no gate is swept under a request.
THEOREM BusyGatesSurvive ==
  ASSUME LookupTime < SweepIdle
  PROVE  Spec => []LiveIsRegistered
<1>1. Inv => LiveIsRegistered
  BY DEF Inv, Registered, LiveIsRegistered
<1> QED
  BY <1>1, RegistryInvariant, PTL

\* OneBudgetPerKey: no credential gets more than its limit, whatever gates
\* have stood for it.
THEOREM BudgetsAreSingle ==
  ASSUME LookupTime < SweepIdle
  PROVE  Spec => []OneBudgetPerKey
<1>1. Inv => OneBudgetPerKey
  <2> SUFFICES ASSUME Inv, NEW k \in Keys
               PROVE  Cardinality({r \in Requests : KeyOf[r] = k /\ stage[r] = "holding"}) <= Limit
    BY DEF OneBudgetPerKey
  <2> DEFINE S == {r \in Requests : KeyOf[r] = k /\ stage[r] = "holding"}
  <2>1. \A r \in S : gateOf[r] = gates[k] /\ gates[k] \in Gates
    BY DEF Inv, Registered, Live
  <2>2. CASE S = {}
    BY <2>2, FS_EmptySet, LimitAssumption
  <2>3. CASE S # {}
    <3>1. gates[k] \in Gates /\ S \subseteq At(gates[k], "holding")
      BY <2>1, <2>3 DEF At
    <3>2. Cardinality(At(gates[k], "holding")) <= Limit
      BY <3>1 DEF Inv, GatesKeepLimit
    <3>3. Cardinality(S) <= Cardinality(At(gates[k], "holding"))
      BY <3>1, AtFinite, FS_Subset
    <3>4. Cardinality(S) \in Nat /\ Cardinality(At(gates[k], "holding")) \in Nat
      BY <3>1, AtFinite, FS_Subset, FS_CardinalityType
    <3> QED
      BY <3>2, <3>3, <3>4, LimitAssumption
  <2> QED
    BY <2>2, <2>3
<1> QED
  BY <1>1, RegistryInvariant, PTL

\* NoPollAfterClose: no poll loop outlives the application.
THEOREM PollsEndWithClose ==
  ASSUME LookupTime < SweepIdle
  PROVE  Spec => []NoPollAfterClose
<1>1. Inv => NoPollAfterClose
  BY DEF Inv, ClosedIsQuiet, NoPollAfterClose
<1> QED
  BY <1>1, RegistryInvariant, PTL

=============================================================================
