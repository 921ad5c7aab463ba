----------------------- MODULE ConcurrencyGateProofs -----------------------
(***************************************************************************)
(* Theorems about ConcurrencyGate, for any requests, costs, limits and     *)
(* snapshots, and for either way wait_for treats a cancellation. With a    *)
(* configured limit, besides: no waiter that fits is left waiting, nobody  *)
(* overtakes a waiter that would have fitted, and the gate implements the  *)
(* abstract budget.                                                        *)
(***************************************************************************)
EXTENDS ConcurrencyGate, Functions, FiniteSetTheorems, WellFoundedInduction, TLAPS

-----------------------------------------------------------------------------
(* CostOf is a natural number, additive on disjoint sets, monotone, and the *)
(* price on one request.                                                    *)

\* The units of finitely many requests are finitely many.
LEMMA UnitsFinite ==
  ASSUME NEW S, IsFiniteSet(S), NEW price, \A r \in S : price[r] \in Nat
  PROVE  IsFiniteSet(UnitsOf(S, price))
<1> DEFINE U(r) == {r} \X (1..price[r])
           T == {U(r) : r \in S}
           f == [r \in S |-> U(r)]
<1>1. f \in Surjection(S, T)
  BY DEF Surjection
<1>2. IsFiniteSet(T)
  BY <1>1, FS_Surjection
<1>3. ASSUME NEW r \in S PROVE IsFiniteSet(U(r))
  <2>1. IsFiniteSet({r})
    BY FS_Singleton
  <2>2. 1 \in Int /\ price[r] \in Int
    OBVIOUS
  <2>3. IsFiniteSet(1..price[r])
    BY <2>2, FS_Interval
  <2> HIDE DEF U
  <2>4. IsFiniteSet({r} \X (1..price[r]))
    BY <2>1, <2>3, FS_Product
  <2> QED
    BY <2>4 DEF U
<1>4. IsFiniteSet(UNION T)
  BY <1>2, <1>3, FS_UNION
<1> QED
  BY <1>4 DEF UnitsOf

\* What a finite set of requests costs is a natural number.
LEMMA CostIsNat ==
  ASSUME NEW S, IsFiniteSet(S), NEW price, \A r \in S : price[r] \in Nat
  PROVE  CostOf(S, price) \in Nat
BY UnitsFinite, FS_CardinalityType DEF CostOf

\* Nothing costs nothing.
LEMMA CostOfNone ==
  ASSUME NEW price
  PROVE  CostOf({}, price) = 0
<1>1. UnitsOf({}, price) = {}
  BY DEF UnitsOf
<1> QED
  BY <1>1, FS_EmptySet DEF CostOf

\* One request costs its price.
LEMMA CostOfOne ==
  ASSUME NEW r, NEW price, price[r] \in Nat
  PROVE  CostOf({r}, price) = price[r]
<1>1. UnitsOf({r}, price) = {r} \X (1..price[r])
  BY DEF UnitsOf
<1>2. Cardinality({r}) = 1 /\ IsFiniteSet({r})
  BY FS_Singleton
<1>3. 1 \in Int /\ price[r] \in Int
  OBVIOUS
<1>4. /\ IsFiniteSet(1..price[r])
      /\ Cardinality(1..price[r]) = IF 1 > price[r] THEN 0 ELSE price[r] - 1 + 1
  BY <1>3, FS_Interval
<1>5. Cardinality(1..price[r]) = price[r]
  BY <1>4
<1>6. Cardinality({r} \X (1..price[r])) = Cardinality({r}) * Cardinality(1..price[r])
  BY <1>2, <1>4, FS_Product
<1>7. Cardinality({r} \X (1..price[r])) = 1 * price[r]
  BY <1>2, <1>5, <1>6
<1>8. CostOf({r}, price) = Cardinality({r} \X (1..price[r]))
  BY <1>1, Zenon DEF CostOf
<1> QED
  BY <1>7, <1>8

\* Disjoint sets of requests cost the sum of what each costs.
LEMMA CostOfUnion ==
  ASSUME NEW S, IsFiniteSet(S), NEW T, IsFiniteSet(T), S \cap T = {},
         NEW price, \A r \in S \cup T : price[r] \in Nat
  PROVE  CostOf(S \cup T, price) = CostOf(S, price) + CostOf(T, price)
<1>1. UnitsOf(S \cup T, price) = UnitsOf(S, price) \cup UnitsOf(T, price)
  BY DEF UnitsOf
<1>2. UnitsOf(S, price) \cap UnitsOf(T, price) = {}
  BY DEF UnitsOf
<1>3. IsFiniteSet(UnitsOf(S, price)) /\ IsFiniteSet(UnitsOf(T, price))
  BY UnitsFinite
<1>4. /\ Cardinality(UnitsOf(S, price)) \in Nat
      /\ Cardinality(UnitsOf(T, price)) \in Nat
  BY <1>3, FS_CardinalityType
<1>5. Cardinality(UnitsOf(S, price) \cup UnitsOf(T, price))
        = Cardinality(UnitsOf(S, price)) + Cardinality(UnitsOf(T, price))
          - Cardinality({})
  BY <1>2, <1>3, FS_Union
<1>6. CostOf(S \cup T, price) = Cardinality(UnitsOf(S, price) \cup UnitsOf(T, price))
  BY <1>1, Zenon DEF CostOf
<1> QED
  BY <1>4, <1>5, <1>6, FS_EmptySet DEF CostOf

\* One more request costs its price more.
LEMMA CostOfMore ==
  ASSUME NEW S, IsFiniteSet(S), NEW r, r \notin S,
         NEW price, price[r] \in Nat, \A s \in S : price[s] \in Nat
  PROVE  CostOf(S \cup {r}, price) = CostOf(S, price) + price[r]
<1>1. IsFiniteSet({r})
  BY FS_Singleton
<1>2. CostOf(S \cup {r}, price) = CostOf(S, price) + CostOf({r}, price)
  BY <1>1, CostOfUnion
<1> QED
  BY <1>2, CostOfOne

\* One request less costs its price less.
LEMMA CostOfLess ==
  ASSUME NEW S, IsFiniteSet(S), NEW r \in S,
         NEW price, \A s \in S : price[s] \in Nat
  PROVE  CostOf(S \ {r}, price) = CostOf(S, price) - price[r]
<1>1. IsFiniteSet(S \ {r})
  BY FS_RemoveElement
<1>2. (S \ {r}) \cup {r} = S
  OBVIOUS
<1>3. CostOf(S, price) = CostOf(S \ {r}, price) + price[r]
  BY <1>1, <1>2, CostOfMore
<1>4. CostOf(S \ {r}, price) \in Nat
  BY <1>1, CostIsNat
<1> QED
  BY <1>3, <1>4

\* A part never costs more than the whole.
LEMMA CostIsMonotone ==
  ASSUME NEW T, IsFiniteSet(T), NEW S \in SUBSET T,
         NEW price, \A r \in T : price[r] \in Nat
  PROVE  CostOf(S, price) <= CostOf(T, price)
<1>1. UnitsOf(S, price) \in SUBSET UnitsOf(T, price)
  BY DEF UnitsOf
<1>2. IsFiniteSet(UnitsOf(T, price))
  BY UnitsFinite
<1> QED
  BY <1>1, <1>2, FS_Subset DEF CostOf

-----------------------------------------------------------------------------
(* The inductive invariant.                                                 *)

\* The cap is unset or a limit the gate may use; a plan's limit is set.
CapIsALimit ==
  /\ cap = 0 \/ cap \in Limits
  /\ capSource = "plan" => cap \in Limits

\* Tickets follow the queue, and no two waiters share one.
TicketsOrdered ==
  /\ \A r \in Requests : ticket[r] <= arrivals
  /\ \A r \in InQueue : ticket[r] > 0
  /\ \A r, w \in InQueue : ticket[r] = ticket[w] => r = w

\* What a handler has seen of its acquire task.
HandlerFitsTask ==
  \A r \in Requests :
    /\ handler[r] = "idle" <=> task[r] = "none"
    /\ handler[r] = "relaying" => task[r] = "acquired"
    /\ handler[r] = "cancelling"
         => task[r] \in {"lookup", "queued", "expired", "granted"}

\* With a configured limit nobody looks up a plan, and the limit is in force
\* from the first request on.
ConfiguredCap ==
  ConfigLimit # 0 =>
    \A r \in Requests :
      /\ task[r] # "lookup"
      /\ task[r] # "none" => cap = ConfigLimit

IInv ==
  /\ TypeOK
  /\ Accounting
  /\ WithinLimit
  /\ CapIsALimit
  /\ TicketsOrdered
  /\ HandlerFitsTask
  /\ ConfiguredCap
  /\ ReservedIsPolled

-----------------------------------------------------------------------------
(* Lemmas.                                                                  *)

\* A nonempty set of requests with bounded tickets has a last one.
LEMMA LastTicket ==
  ASSUME NEW G, G # {}, NEW t, NEW n \in Nat,
         \A v \in G : t[v] \in Nat /\ t[v] <= n
  PROVE  \E m \in G : \A v \in G : t[v] <= t[m]
<1> DEFINE T == {n - t[v] : v \in G}
<1>1. T \subseteq Nat /\ T # {}
  OBVIOUS
<1>2. \E x \in T : \A y \in T : ~(<<y, x>> \in OpToRel(<, Nat))
  <2> HIDE DEF T
  <2> QED
    BY <1>1, NatLessThanWellFounded, WFMin
<1>3. PICK x \in T : \A y \in T : ~(<<y, x>> \in OpToRel(<, Nat))
  BY <1>2
<1>4. PICK m \in G : x = n - t[m]
  BY <1>3
<1>5. ASSUME NEW v \in G PROVE t[v] <= t[m]
  <2>1. n - t[v] \in T
    OBVIOUS
  <2>2. ~(<<n - t[v], x>> \in OpToRel(<, Nat))
    BY <2>1, <1>3
  <2>3. n - t[v] \in Nat /\ x \in Nat
    BY <1>1, <2>1
  <2>4. ~(n - t[v] < x)
    BY <2>2, <2>3 DEF OpToRel
  <2> QED
    BY <2>4, <1>4
<1> QED
  BY <1>5

\* The requests that hold units when the acquire calls are in state states.
HoldersIn(states) == {r \in Requests : states[r] \in {"granted", "acquired"}}

\* Sets of requests are finite and have natural costs.
LEMMA RequestSets ==
  ASSUME TypeOK, NEW S \in SUBSET Requests
  PROVE  /\ IsFiniteSet(S)
         /\ \A r \in S : cost[r] \in Nat
         /\ CostOf(S, cost) \in Nat
<1>1. IsFiniteSet(S)
  BY RequestsAssumption, FS_Subset
<1>2. \A r \in S : cost[r] \in Nat
  BY CostsAssumption DEF TypeOK
<1> QED
  BY <1>1, <1>2, CostIsNat

\* One pass over the queue admits nobody, or leaves at most cap reserved:
\* the last waiter it admitted fitted beside all the others.
LEMMA AdmittedFit ==
  ASSUME TypeOK, TicketsOrdered,
         NEW res \in Nat, NEW used \in Nat,
         NEW live \in SUBSET {w \in Requests : task[w] = "queued"},
         NEW G \in SUBSET live, IsAdmitted(G, live, res, used)
  PROVE  G = {} \/ res + CostOf(G, cost) <= cap
<1> SUFFICES ASSUME G # {} PROVE res + CostOf(G, cost) <= cap
  OBVIOUS
<1>1. \A v \in G : ticket[v] \in Nat /\ ticket[v] <= arrivals
  BY DEF TypeOK, TicketsOrdered
<1>2. PICK m \in G : \A v \in G : ticket[v] <= ticket[m]
  BY <1>1, LastTicket DEF TypeOK
<1> DEFINE before == {v \in G : ticket[v] < ticket[m]}
<1>3. \A v \in G : v # m => ticket[v] # ticket[m]
  BY DEF TicketsOrdered, InQueue
<1>4. G = before \cup {m} /\ m \notin before
  BY <1>1, <1>2, <1>3
<1>5. Fits(m, res + CostOf(before, cost), used, cap)
  BY DEF IsAdmitted
<1>6. IsFiniteSet(before) /\ \A v \in before : cost[v] \in Nat
  BY RequestSets
<1>7. cost[m] \in Nat /\ CostOf(before, cost) \in Nat
  BY RequestSets
<1>8. CostOf(G, cost) = CostOf(before, cost) + cost[m]
  <2> HIDE DEF before
  <2> QED
    BY <1>4, <1>6, <1>7, CostOfMore
<1> HIDE DEF before
<1>9. cap \in Nat
  BY DEF TypeOK
<1> QED
  BY <1>5, <1>7, <1>8, <1>9 DEF Fits, Effective

\* What waking the queue does to the accounts, for a step that leaves the
\* acquire calls in state pending with res units reserved.
LEMMA WakeEffect ==
  ASSUME TypeOK, TicketsOrdered,
         NEW res \in Nat, NEW used \in Nat,
         NEW pending \in [Requests -> TaskState],
         \A w \in Requests : pending[w] = "queued" => task[w] = "queued",
         res = CostOf(HoldersIn(pending), cost),
         WakeQueue(res, used, pending)
  PROVE  /\ reserved' \in Nat
         /\ task' \in [Requests -> TaskState]
         /\ reserved' = CostOf(HoldersIn(task'), cost)
         /\ reserved' = res \/ reserved' <= cap
         /\ \A w \in Requests :
              \/ task'[w] = pending[w]
              \/ pending[w] = "queued" /\ task'[w] = "granted"
         /\ \A w \in Requests :
              task'[w] = "queued" => ~Fits(w, reserved', used, cap)
<1> DEFINE live == {w \in Requests : pending[w] = "queued"}
<1>1. PICK G \in SUBSET live :
        /\ IsAdmitted(G, live, res, used)
        /\ reserved' = res + CostOf(G, cost)
        /\ task' = [w \in Requests |-> IF w \in G THEN "granted" ELSE pending[w]]
  BY DEF WakeQueue
<1>2. live \in SUBSET {w \in Requests : task[w] = "queued"}
  OBVIOUS
<1>3. CostOf(G, cost) \in Nat
  BY RequestSets
<1>4. reserved' \in Nat
  BY <1>1, <1>3
<1>5. task' \in [Requests -> TaskState]
  BY <1>1 DEF TaskState
<1>6. reserved' = CostOf(HoldersIn(task'), cost)
  <2>1. HoldersIn(task') = HoldersIn(pending) \cup G
    BY <1>1 DEF HoldersIn
  <2>2. HoldersIn(pending) \cap G = {}
    BY DEF HoldersIn
  <2>3. /\ IsFiniteSet(HoldersIn(pending)) /\ IsFiniteSet(G)
        /\ \A r \in HoldersIn(pending) \cup G : cost[r] \in Nat
    BY RequestSets DEF HoldersIn
  <2>4. CostOf(HoldersIn(pending) \cup G, cost) = res + CostOf(G, cost)
    BY <2>2, <2>3, CostOfUnion
  <2>5. CostOf(HoldersIn(task'), cost) = CostOf(HoldersIn(pending) \cup G, cost)
    BY <2>1, Zenon
  <2> QED
    BY <1>1, <2>4, <2>5
<1>7. reserved' = res \/ reserved' <= cap
  <2>1. G = {} \/ res + CostOf(G, cost) <= cap
    <3> HIDE DEF live
    <3> QED
      BY <1>1, <1>2, AdmittedFit
  <2>2. CASE G = {}
    BY <1>1, <2>2, CostOfNone
  <2>3. CASE res + CostOf(G, cost) <= cap
    BY <1>1, <2>3
  <2> QED
    BY <2>1, <2>2, <2>3
<1>8. \A w \in Requests :
        task'[w] = pending[w] \/ (pending[w] = "queued" /\ task'[w] = "granted")
  BY <1>1
<1>9. ASSUME NEW w \in Requests, task'[w] = "queued"
      PROVE  ~Fits(w, reserved', used, cap)
  <2> DEFINE before == {v \in G : ticket[v] < ticket[w]}
  <2>1. w \in live /\ w \notin G
    BY <1>1, <1>9
  <2>2. ~Fits(w, res + CostOf(before, cost), used, cap)
    BY <1>1, <2>1 DEF IsAdmitted
  <2>3. CostOf(before, cost) <= CostOf(G, cost)
    <3>1. IsFiniteSet(G) /\ \A r \in G : cost[r] \in Nat
      BY RequestSets
    <3> QED
      BY <3>1, CostIsMonotone
  <2>4. CostOf(before, cost) \in Nat
    BY RequestSets
  <2>5. cost[w] \in Nat /\ cap \in Nat
    BY CostsAssumption DEF TypeOK
  <2> HIDE DEF before
  <2> QED
    BY <1>1, <1>3, <2>2, <2>3, <2>4, <2>5 DEF Fits, Effective
<1> HIDE DEF live
<1> QED
  BY <1>4, <1>5, <1>6, <1>7, <1>8, <1>9

\* The limits are fixed natural numbers.
LEMMA LimitsAreFixed == Limits \subseteq Nat /\ Limits' = Limits
<1>1. CASE ConfigLimit # 0
  BY <1>1, LimitsAssumption DEF Limits
<1>2. CASE ConfigLimit = 0
  BY <1>2, LimitsAssumption DEF Limits, FallbackCap
<1> QED
  BY <1>1, <1>2

\* A step that wakes the queue keeps the accounts and the limit.
LEMMA WakeKeepsAccounts ==
  ASSUME IInv, NEW res \in Nat, NEW used \in Nat, res <= reserved,
         NEW pending \in [Requests -> TaskState],
         \A w \in Requests : pending[w] = "queued" => task[w] = "queued",
         res = CostOf(HoldersIn(pending), cost),
         WakeQueue(res, used, pending),
         UNCHANGED <<cap, cost>>
  PROVE  Accounting' /\ WithinLimit'
<1>1. /\ reserved' \in Nat
      /\ reserved' = CostOf(HoldersIn(task'), cost)
      /\ reserved' = res \/ reserved' <= cap
  BY WakeEffect DEF IInv
<1>2. Accounting'
  <2>1. HoldersIn(task') = Holders'
    BY DEF HoldersIn, Holders
  <2>2. CostOf(HoldersIn(task'), cost) = CostOf(Holders', cost')
    BY <2>1, Zenon
  <2> QED
    BY <1>1, <2>2 DEF Accounting
<1>3. PICK limit \in Limits : reserved <= limit
  BY DEF IInv, WithinLimit
<1>4. limit \in Nat /\ reserved \in Nat /\ cap \in Nat
  BY LimitsAreFixed DEF IInv, TypeOK
<1>5. CASE reserved' = res
  BY <1>1, <1>2, <1>3, <1>4, <1>5, LimitsAreFixed DEF WithinLimit
<1>6. CASE reserved' <= cap
  <2>1. CASE cap = 0
    BY <1>1, <1>2, <1>3, <1>4, <1>6, <2>1, LimitsAreFixed DEF WithinLimit
  <2>2. CASE cap \in Limits
    BY <1>2, <1>6, <2>2, LimitsAreFixed DEF WithinLimit
  <2> QED
    BY <2>1, <2>2 DEF IInv, CapIsALimit
<1> QED
  BY <1>1, <1>2, <1>5, <1>6

\* Taking one holder out of the accounts before the queue is woken.
LEMMA HolderLeaves ==
  ASSUME IInv, NEW r \in Holders,
         NEW outcome \in {"released", "timedout", "cancelled"}
  PROVE  LET pending == [task EXCEPT ![r] = outcome]
         IN  /\ pending \in [Requests -> TaskState]
             /\ reserved - cost[r] = CostOf(HoldersIn(pending), cost)
             /\ reserved - cost[r] \in Nat
             /\ reserved - cost[r] <= reserved
             /\ reserved > 0
             /\ \A w \in Requests : pending[w] = "queued" => task[w] = "queued"
<1> DEFINE pending == [task EXCEPT ![r] = outcome]
<1>1. task \in [Requests -> TaskState] /\ r \in Requests
  BY DEF IInv, TypeOK, Holders
<1>2. pending \in [Requests -> TaskState]
  BY <1>1 DEF TaskState
<1>3. HoldersIn(pending) = Holders \ {r}
  BY <1>1 DEF HoldersIn, Holders
<1>4. IsFiniteSet(Holders) /\ \A s \in Holders : cost[s] \in Nat
  BY RequestSets DEF IInv, Holders
<1>5. CostOf(Holders \ {r}, cost) = CostOf(Holders, cost) - cost[r]
  BY <1>4, CostOfLess
<1>6. CostOf(HoldersIn(pending), cost) = CostOf(Holders \ {r}, cost)
  BY <1>3, Zenon
<1>7. CostOf(HoldersIn(pending), cost) \in Nat
  BY RequestSets DEF IInv, HoldersIn
<1>8. cost[r] \in Nat \ {0}
  BY <1>1, CostsAssumption DEF IInv, TypeOK
<1>9. reserved = CostOf(Holders, cost) /\ reserved \in Nat
  BY DEF IInv, Accounting, TypeOK
<1>10. \A w \in Requests : pending[w] = "queued" => task[w] = "queued"
  BY <1>1
<1> HIDE DEF pending
<1>11. /\ reserved - cost[r] = CostOf(HoldersIn(pending), cost)
       /\ reserved - cost[r] \in Nat
       /\ reserved - cost[r] <= reserved
       /\ reserved > 0
  BY <1>5, <1>6, <1>7, <1>8, <1>9
<1> QED
  BY <1>2, <1>10, <1>11 DEF pending

\* acquire() up to its first suspension keeps the accounts, the limit, the
\* order of the queue and the poll loop.
LEMMA ReserveOrQueueKeeps ==
  ASSUME IInv, NEW r \in Requests, task[r] \in {"none", "lookup"},
         NEW limit \in Limits, ReserveOrQueue(r, limit), UNCHANGED cost
  PROVE  /\ Accounting' /\ WithinLimit' /\ TicketsOrdered' /\ ReservedIsPolled'
         /\ reserved' \in Nat /\ arrivals' \in Nat
         /\ ticket' \in [Requests -> Nat]
         /\ poll' \in {"stopped", "sleeping", "fetching"}
         /\ \E outcome \in {"acquired", "queued", "timedout"} :
              task' = [task EXCEPT ![r] = outcome]
<1> USE DEF IInv, TypeOK
<1>1. limit \in Nat /\ cost[r] \in Nat \ {0} /\ Limits \subseteq Nat
  BY LimitsAreFixed, CostsAssumption
<1>2. r \notin Holders /\ r \notin InQueue
  BY DEF Holders, InQueue
<1>3. CASE /\ Fits(r, reserved, upstreamUsed, limit)
           /\ reserved' = reserved + cost[r]
           /\ task' = [task EXCEPT ![r] = "acquired"]
           /\ poll' = EnsurePolling
           /\ UNCHANGED queueVars
  <2>1. Accounting'
    <3>1. Holders' = Holders \cup {r}
      BY <1>3 DEF Holders
    <3>2. IsFiniteSet(Holders) /\ \A s \in Holders : cost[s] \in Nat
      BY RequestSets DEF Holders
    <3>3. CostOf(Holders \cup {r}, cost) = CostOf(Holders, cost) + cost[r]
      BY <1>1, <1>2, <3>2, CostOfMore
    <3>4. CostOf(Holders', cost') = CostOf(Holders \cup {r}, cost)
      BY <3>1, Zenon
    <3> QED
      BY <1>3, <3>3, <3>4 DEF Accounting
  <2>2. WithinLimit'
    <3>1. reserved' <= limit
      BY <1>1, <1>3 DEF Fits, Effective
    <3> QED
      BY <3>1, LimitsAreFixed DEF WithinLimit
  <2>3. TicketsOrdered'
    BY <1>2, <1>3 DEF TicketsOrdered, InQueue, queueVars
  <2>4. ReservedIsPolled' /\ poll' \in {"stopped", "sleeping", "fetching"}
    BY <1>3 DEF ReservedIsPolled, EnsurePolling
  <2> QED
    BY <1>1, <1>3, <2>1, <2>2, <2>3, <2>4 DEF queueVars
<1>4. CASE /\ arrivals' = arrivals + 1
           /\ ticket' = [ticket EXCEPT ![r] = arrivals + 1]
           /\ task' = [task EXCEPT ![r] = "queued"]
           /\ UNCHANGED <<reserved, poll>>
  <2>1. Holders' = Holders
    BY <1>4 DEF Holders
  <2>2. CostOf(Holders', cost') = CostOf(Holders, cost)
    BY <2>1, Zenon
  <2>3. Accounting' /\ WithinLimit' /\ ReservedIsPolled'
    BY <1>4, <2>2, LimitsAreFixed DEF Accounting, WithinLimit, ReservedIsPolled
  <2>4. TicketsOrdered'
    BY <1>2, <1>4 DEF TicketsOrdered, InQueue
  <2> QED
    BY <1>4, <2>3, <2>4
<1>5. CASE /\ task' = [task EXCEPT ![r] = "timedout"]
           /\ UNCHANGED <<reserved, queueVars, poll>>
  <2>1. Holders' = Holders
    BY <1>5 DEF Holders
  <2>2. CostOf(Holders', cost') = CostOf(Holders, cost)
    BY <2>1, Zenon
  <2>3. Accounting' /\ WithinLimit' /\ ReservedIsPolled'
    BY <1>5, <2>2, LimitsAreFixed DEF Accounting, WithinLimit, ReservedIsPolled
  <2>4. TicketsOrdered'
    BY <1>2, <1>5 DEF TicketsOrdered, InQueue, queueVars
  <2> QED
    BY <1>5, <2>3, <2>4 DEF queueVars
<1> QED
  BY <1>3, <1>4, <1>5 DEF ReserveOrQueue

-----------------------------------------------------------------------------
(* Each action preserves the invariant.                                     *)

\* The parts of the invariant a step cannot disturb when it moves nobody in
\* or out of the holders and changes neither the counters nor the cap.
LEMMA AccountsKept ==
  ASSUME IInv, UNCHANGED <<cap, capSource, reserved, cost>>, Holders' = Holders
  PROVE  Accounting' /\ WithinLimit' /\ CapIsALimit'
<1>1. CostOf(Holders', cost') = CostOf(Holders, cost)
  BY Zenon
<1> QED
  BY <1>1, LimitsAreFixed DEF IInv, Accounting, WithinLimit, CapIsALimit

LEMMA InitInv == Init => IInv
<1> SUFFICES ASSUME Init PROVE IInv
  OBVIOUS
<1>1. TypeOK
  BY DEF Init, TypeOK, TaskState, HandlerState
<1>2. Holders = {}
  BY DEF Init, Holders
<1>3. Accounting
  BY <1>2, CostOfNone DEF Init, Accounting
<1>4. WithinLimit
  <2>1. \E limit \in Limits : TRUE
    BY DEF Limits
  <2> QED
    BY <2>1, LimitsAreFixed DEF Init, WithinLimit
<1>5. /\ CapIsALimit /\ TicketsOrdered /\ HandlerFitsTask
      /\ ConfiguredCap /\ ReservedIsPolled
  BY DEF Init, ConfiguredCap, CapIsALimit, TicketsOrdered, HandlerFitsTask, ReservedIsPolled, InQueue
<1> QED
  BY <1>1, <1>3, <1>4, <1>5 DEF IInv

LEMMA ArriveInv ==
  ASSUME IInv, NEW r \in Requests, Arrive(r)
  PROVE  IInv'
<1>1. task[r] = "none"
  BY DEF Arrive, IInv, HandlerFitsTask
<1>2. CASE \E limit \in Limits : cap' = limit /\ ReserveOrQueue(r, limit)
  <2>1. PICK limit \in Limits : cap' = limit /\ ReserveOrQueue(r, limit)
    BY <1>2
  <2>2. /\ Accounting' /\ WithinLimit' /\ TicketsOrdered' /\ ReservedIsPolled'
        /\ reserved' \in Nat /\ arrivals' \in Nat
        /\ ticket' \in [Requests -> Nat]
        /\ poll' \in {"stopped", "sleeping", "fetching"}
        /\ \E outcome \in {"acquired", "queued", "timedout"} :
             task' = [task EXCEPT ![r] = outcome]
    BY <1>1, <2>1, ReserveOrQueueKeeps DEF Arrive
  <2>3. capSource' \in {"none", "config", "plan", "fallback"}
    BY DEF Arrive, IInv, TypeOK
  <2>4. /\ handler' = [handler EXCEPT ![r] = "waiting"]
        /\ UNCHANGED <<upstreamUsed, cost>>
    BY DEF Arrive
  <2>5. TypeOK'
    BY <2>1, <2>2, <2>3, <2>4, LimitsAreFixed DEF IInv, TypeOK, TaskState, HandlerState
  <2>6. HandlerFitsTask'
    BY <2>2, <2>4 DEF HandlerFitsTask, IInv, TypeOK
  <2>7. CapIsALimit'
    BY <2>1, LimitsAreFixed DEF CapIsALimit
  <2>8. ConfiguredCap'
    BY <2>1, <2>2 DEF ConfiguredCap, Limits, IInv, TypeOK
  <2> QED
    BY <2>2, <2>5, <2>6, <2>7, <2>8 DEF IInv
<1>3. CASE /\ ConfigLimit = 0
           /\ UNCHANGED <<cap, capSource>>
           /\ task' = [task EXCEPT ![r] = "lookup"]
           /\ UNCHANGED <<reserved, queueVars, poll>>
  <2>1. Holders' = Holders
    BY <1>1, <1>3 DEF Holders, IInv, TypeOK
  <2>2. Accounting' /\ WithinLimit' /\ CapIsALimit'
    BY <1>3, <2>1, AccountsKept DEF Arrive
  <2>3. TypeOK'
    BY <1>3 DEF Arrive, IInv, TypeOK, TaskState, HandlerState, queueVars
  <2>4. /\ TicketsOrdered' /\ HandlerFitsTask'
        /\ ConfiguredCap' /\ ReservedIsPolled'
    BY <1>1, <1>3 DEF Arrive, ConfiguredCap, IInv, TypeOK, TicketsOrdered, HandlerFitsTask,
                      ReservedIsPolled, InQueue, queueVars
  <2> QED
    BY <2>2, <2>3, <2>4 DEF IInv
<1>4. ConfigLimit # 0 => ConfigLimit \in Limits
  BY DEF Limits
<1>5. capSource = "plan" => cap \in Limits
  BY DEF IInv, CapIsALimit
<1> QED
  BY <1>2, <1>3, <1>4, <1>5 DEF Arrive

LEMMA LookupEndsInv ==
  ASSUME IInv, NEW r \in Requests, NEW limit \in PlanLimits \cup {0},
         LookupEnds(r, limit)
  PROVE  IInv'
<1>0. ConfigLimit = 0
  BY DEF LookupEnds, IInv, ConfiguredCap
<1>1. cap' \in Limits
  BY <1>0 DEF LookupEnds, Limits
<1>2. /\ Accounting' /\ WithinLimit' /\ TicketsOrdered' /\ ReservedIsPolled'
      /\ reserved' \in Nat /\ arrivals' \in Nat
      /\ ticket' \in [Requests -> Nat]
      /\ poll' \in {"stopped", "sleeping", "fetching"}
      /\ \E outcome \in {"acquired", "queued", "timedout"} :
           task' = [task EXCEPT ![r] = outcome]
  <2>1. \A c \in Limits : c = cap' => ReserveOrQueue(r, c)
    BY DEF LookupEnds
  <2>2. PICK c \in Limits : c = cap'
    BY <1>1
  <2>3. ReserveOrQueue(r, c) /\ task[r] = "lookup" /\ UNCHANGED cost
    BY <2>1, <2>2 DEF LookupEnds
  <2> QED
    BY <2>3, ReserveOrQueueKeeps
<1>3. TypeOK'
  BY <1>1, <1>2, LimitsAreFixed DEF LookupEnds, IInv, TypeOK, TaskState
<1>4. HandlerFitsTask'
  BY <1>2 DEF LookupEnds, HandlerFitsTask, IInv, TypeOK
<1>5. CapIsALimit' /\ ConfiguredCap'
  BY <1>0, <1>1, LimitsAreFixed DEF CapIsALimit, ConfiguredCap
<1> QED
  BY <1>2, <1>3, <1>4, <1>5 DEF IInv

\* A step of r that only moves its task between states that hold no units, or
\* that keep the units they hold, and its handler.
LEMMA QuietStepInv ==
  ASSUME IInv, NEW r \in Requests,
         NEW state \in TaskState, NEW stage \in HandlerState,
         NEW place \in {0, ticket[r]},
         task' = [task EXCEPT ![r] = state],
         handler' = [handler EXCEPT ![r] = stage],
         ticket' = [ticket EXCEPT ![r] = place],
         UNCHANGED <<gateVars, cost, arrivals, poll>>,
         task[r] # "none", state \notin {"none", "lookup"} \/ state = task[r],
         state \in {"granted", "acquired"} <=> task[r] \in {"granted", "acquired"},
         state \in {"queued", "expired", "granted"}
           => place = ticket[r] /\ task[r] \in {"queued", "expired", "granted"},
         stage # "idle",
         stage = "relaying" => state = "acquired",
         stage = "cancelling" => state \in {"lookup", "queued", "expired", "granted"}
  PROVE  IInv'
<1> USE DEF IInv, TypeOK
<1>1. Holders' = Holders
  BY DEF Holders
<1>2. Accounting' /\ WithinLimit' /\ CapIsALimit'
  BY <1>1, AccountsKept DEF gateVars
<1>3. TypeOK'
  BY DEF gateVars
<1>4. TicketsOrdered'
  BY DEF TicketsOrdered, InQueue
<1>5. HandlerFitsTask' /\ ConfiguredCap' /\ ReservedIsPolled'
  BY DEF HandlerFitsTask, ConfiguredCap, ReservedIsPolled, gateVars
<1> QED
  BY <1>2, <1>3, <1>4, <1>5

\* A step of the holder r that gives its units back and wakes the queue.
LEMMA LeavingHolderInv ==
  ASSUME IInv, NEW r \in Holders,
         NEW outcome \in {"released", "timedout", "cancelled"},
         NEW stage \in HandlerState \ {"idle", "relaying", "cancelling"},
         WakeQueue(reserved - cost[r], upstreamUsed, [task EXCEPT ![r] = outcome]),
         handler' = [handler EXCEPT ![r] = stage],
         NEW place \in {0, ticket[r]}, ticket' = [ticket EXCEPT ![r] = place],
         UNCHANGED <<cap, capSource, upstreamUsed, cost, arrivals, poll>>
  PROVE  IInv'
<1> DEFINE pending == [task EXCEPT ![r] = outcome]
           res == reserved - cost[r]
<1>1. /\ pending \in [Requests -> TaskState]
      /\ res = CostOf(HoldersIn(pending), cost)
      /\ res \in Nat /\ res <= reserved /\ reserved > 0
      /\ \A w \in Requests : pending[w] = "queued" => task[w] = "queued"
  BY HolderLeaves
<1>2. r \in Requests /\ task[r] \in {"granted", "acquired"}
  BY DEF Holders
<1>3. WakeQueue(res, upstreamUsed, pending)
  OBVIOUS
<1>4. upstreamUsed \in Nat /\ TypeOK /\ TicketsOrdered
  BY DEF IInv, TypeOK
<1>5. Accounting' /\ WithinLimit'
  <2> HIDE DEF pending, res
  <2> QED
    BY <1>1, <1>3, <1>4, WakeKeepsAccounts
<1>6. /\ reserved' \in Nat
      /\ task' \in [Requests -> TaskState]
      /\ \A w \in Requests :
           \/ task'[w] = pending[w]
           \/ pending[w] = "queued" /\ task'[w] = "granted"
  <2> HIDE DEF pending, res
  <2> QED
    BY <1>1, <1>3, <1>4, WakeEffect
<1>7. \A w \in Requests :
        \/ w = r /\ task'[w] = outcome
        \/ w # r /\ task'[w] = task[w]
        \/ w # r /\ task[w] = "queued" /\ task'[w] = "granted"
  BY <1>2, <1>6 DEF IInv, TypeOK
<1> HIDE DEF pending, res
<1>8. TypeOK'
  <2>1. handler' \in [Requests -> HandlerState] /\ ticket' \in [Requests -> Nat]
    BY <1>2 DEF IInv, TypeOK
  <2> QED
    BY <1>6, <2>1 DEF IInv, TypeOK
<1>9. TicketsOrdered'
  BY <1>2, <1>7 DEF IInv, TypeOK, TicketsOrdered, InQueue
<1>10. HandlerFitsTask'
  BY <1>2, <1>7 DEF IInv, TypeOK, HandlerFitsTask
<1>11. ConfiguredCap'
  BY <1>2, <1>7 DEF IInv, TypeOK, ConfiguredCap
<1>12. CapIsALimit' /\ ReservedIsPolled'
  BY <1>1, LimitsAreFixed DEF IInv, CapIsALimit, ReservedIsPolled
<1> QED
  BY <1>5, <1>8, <1>9, <1>10, <1>11, <1>12 DEF IInv

\* A function updated with the value it has is the function.
LEMMA SameValue ==
  ASSUME IInv, NEW r \in Requests
  PROVE  /\ task = [task EXCEPT ![r] = task[r]] /\ task[r] \in TaskState
         /\ handler = [handler EXCEPT ![r] = handler[r]] /\ handler[r] \in HandlerState
         /\ ticket = [ticket EXCEPT ![r] = ticket[r]]
BY DEF IInv, TypeOK

LEMMA DeadlinePassesInv ==
  ASSUME IInv, NEW r \in Requests, DeadlinePasses(r)
  PROVE  IInv'
<1>1. /\ handler' = [handler EXCEPT ![r] = handler[r]]
      /\ ticket' = [ticket EXCEPT ![r] = ticket[r]]
      /\ handler[r] \in HandlerState
  BY SameValue DEF DeadlinePasses, queueVars
<1>2. /\ handler[r] # "idle"
      /\ handler[r] # "relaying"
  BY DEF IInv, HandlerFitsTask, DeadlinePasses
<1>3. "expired" \in TaskState
  BY DEF TaskState
<1> QED
  BY <1>1, <1>2, <1>3, QuietStepInv DEF DeadlinePasses, queueVars

\* Leaving the queue, on a timeout or a cancellation.
LEMMA WaiterExitsInv ==
  ASSUME IInv, NEW r \in Requests,
         NEW outcome \in {"timedout", "cancelled"},
         NEW stage \in {"waiting", "gone"},
         task[r] \in {"lookup", "queued", "expired", "granted"},
         WaiterExits(r, outcome),
         handler' = [handler EXCEPT ![r] = stage],
         UNCHANGED <<cap, capSource, upstreamUsed, cost, arrivals, poll>>
  PROVE  IInv'
<1>1. ticket' = [ticket EXCEPT ![r] = 0]
  BY DEF WaiterExits
<1>2. CASE task[r] = "granted"
  <2>1. WakeQueue(reserved - cost[r], upstreamUsed, [task EXCEPT ![r] = outcome])
    BY <1>2 DEF WaiterExits
  <2>2. r \in Holders
    BY <1>2 DEF Holders
  <2>3. stage \in HandlerState \ {"idle", "relaying", "cancelling"}
    BY DEF HandlerState
  <2> QED
    BY <1>1, <2>1, <2>2, <2>3, LeavingHolderInv
<1>3. CASE task[r] # "granted"
  <2>1. task' = [task EXCEPT ![r] = outcome] /\ UNCHANGED reserved
    BY <1>3 DEF WaiterExits
  <2>2. outcome \in TaskState /\ stage \in HandlerState
    BY DEF TaskState, HandlerState
  <2> QED
    BY <1>1, <1>3, <2>1, <2>2, QuietStepInv DEF gateVars
<1> QED
  BY <1>2, <1>3

LEMMA TimesOutInv ==
  ASSUME IInv, NEW r \in Requests, TimesOut(r)
  PROVE  IInv'
<1>1. handler' = [handler EXCEPT ![r] = "waiting"]
  BY SameValue DEF TimesOut
<1> QED
  BY <1>1, WaiterExitsInv DEF TimesOut

LEMMA ResumesInv ==
  ASSUME IInv, NEW r \in Requests, Resumes(r)
  PROVE  IInv'
<1>1. handler' = [handler EXCEPT ![r] = "waiting"]
  BY SameValue DEF Resumes
<1>2. "acquired" \in TaskState /\ "waiting" \in HandlerState
  BY DEF TaskState, HandlerState
<1> QED
  BY <1>1, <1>2, QuietStepInv DEF Resumes

LEMMA CollectsInv ==
  ASSUME IInv, NEW r \in Requests, Collects(r)
  PROVE  IInv'
<1>1. /\ task' = [task EXCEPT ![r] = task[r]]
      /\ ticket' = [ticket EXCEPT ![r] = ticket[r]]
      /\ task[r] \in TaskState
  BY SameValue DEF Collects, queueVars
<1>2. CASE task[r] = "acquired" /\ handler' = [handler EXCEPT ![r] = "relaying"]
  <2>1. "relaying" \in HandlerState
    BY DEF HandlerState
  <2> QED
    BY <1>1, <1>2, <2>1, QuietStepInv DEF Collects, queueVars
<1>3. CASE task[r] = "timedout" /\ handler' = [handler EXCEPT ![r] = "rejected"]
  <2>1. "rejected" \in HandlerState
    BY DEF HandlerState
  <2> QED
    BY <1>1, <1>3, <2>1, QuietStepInv DEF Collects, queueVars
<1> QED
  BY <1>2, <1>3 DEF Collects

LEMMA RelayEndsInv ==
  ASSUME IInv, NEW r \in Requests, RelayEnds(r)
  PROVE  IInv'
<1>1. r \in Holders
  BY DEF RelayEnds, IInv, HandlerFitsTask, Holders
<1>2. ticket' = [ticket EXCEPT ![r] = ticket[r]]
  BY SameValue DEF RelayEnds, queueVars
<1>3. "served" \in HandlerState \ {"idle", "relaying", "cancelling"}
  BY DEF HandlerState
<1> QED
  BY <1>1, <1>2, <1>3, LeavingHolderInv DEF RelayEnds, queueVars

\* A handler that cancels its acquire task.
LEMMA CancelAcquireInv ==
  ASSUME IInv, NEW r \in Requests, CancelAcquire(r),
         UNCHANGED <<gateVars, cost, arrivals, poll>>
  PROVE  IInv'
<1>1. CASE /\ task[r] = "granted"
           /\ task' = [task EXCEPT ![r] = "acquired"]
           /\ ticket' = [ticket EXCEPT ![r] = 0]
           /\ handler' = [handler EXCEPT ![r] = "gone"]
  <2>1. "acquired" \in TaskState /\ "gone" \in HandlerState
    BY DEF TaskState, HandlerState
  <2> QED
    BY <1>1, <2>1, QuietStepInv
<1>2. CASE /\ handler' = [handler EXCEPT ![r] = "cancelling"]
           /\ UNCHANGED <<task, ticket>>
  <2>1. /\ task' = [task EXCEPT ![r] = task[r]]
        /\ ticket' = [ticket EXCEPT ![r] = ticket[r]]
        /\ task[r] \in TaskState
    BY <1>2, SameValue
  <2>2. task[r] \in {"lookup", "queued", "expired", "granted"}
    BY DEF CancelAcquire
  <2>3. "cancelling" \in HandlerState
    BY DEF HandlerState
  <2> QED
    BY <1>2, <2>1, <2>2, <2>3, QuietStepInv
<1> QED
  BY <1>1, <1>2 DEF CancelAcquire

LEMMA HandlerCancelledInv ==
  ASSUME IInv, NEW r \in Requests, HandlerCancelled(r)
  PROVE  IInv'
<1>1. UNCHANGED <<gateVars, cost, arrivals, poll>>
  BY DEF HandlerCancelled
<1>2. CASE CancelAcquire(r)
  BY <1>1, <1>2, CancelAcquireInv
<1>3. ASSUME NEW stage \in {"gone", "rejected"},
             task[r] \in {"acquired", "timedout"},
             handler' = [handler EXCEPT ![r] = stage],
             UNCHANGED <<task, ticket>>
      PROVE  IInv'
  <2>1. /\ task' = [task EXCEPT ![r] = task[r]]
        /\ ticket' = [ticket EXCEPT ![r] = ticket[r]]
        /\ task[r] \in TaskState
    BY <1>3, SameValue
  <2>2. stage \in HandlerState
    BY DEF HandlerState
  <2> QED
    BY <1>1, <1>3, <2>1, <2>2, QuietStepInv
<1> QED
  BY <1>2, <1>3 DEF HandlerCancelled

LEMMA CancelLandsInv ==
  ASSUME IInv, NEW r \in Requests, CancelLands(r)
  PROVE  IInv'
<1>1. task[r] \in {"lookup", "queued", "expired", "granted"}
  BY DEF CancelLands, IInv, HandlerFitsTask
<1> QED
  BY <1>1, WaiterExitsInv DEF CancelLands

LEMMA PollAnsweredInv ==
  ASSUME IInv, NEW used \in SnapshotCosts, PollAnswered(used)
  PROVE  IInv'
<1>1. /\ reserved \in Nat /\ used \in Nat /\ reserved <= reserved
      /\ task \in [Requests -> TaskState]
      /\ TypeOK /\ TicketsOrdered
  BY LimitsAssumption DEF IInv, TypeOK
<1>2. reserved = CostOf(HoldersIn(task), cost)
  <2>1. HoldersIn(task) = Holders
    BY DEF HoldersIn, Holders
  <2> QED
    BY <2>1, Zenon DEF IInv, Accounting
<1>3. WakeQueue(reserved, used, task) /\ UNCHANGED <<cap, cost>>
  BY DEF PollAnswered
<1>4. Accounting' /\ WithinLimit'
  BY <1>1, <1>2, <1>3, WakeKeepsAccounts
<1>5. /\ reserved' \in Nat
      /\ task' \in [Requests -> TaskState]
      /\ \A w \in Requests :
           \/ task'[w] = task[w]
           \/ task[w] = "queued" /\ task'[w] = "granted"
  BY <1>1, <1>2, <1>3, WakeEffect
<1>6. TypeOK'
  BY <1>1, <1>5 DEF PollAnswered, IInv, TypeOK, queueVars
<1>7. TicketsOrdered' /\ HandlerFitsTask' /\ ConfiguredCap'
  BY <1>5 DEF PollAnswered, IInv, TypeOK, TicketsOrdered, InQueue,
              HandlerFitsTask, ConfiguredCap, queueVars
<1>8. CapIsALimit' /\ ReservedIsPolled'
  BY LimitsAreFixed DEF PollAnswered, IInv, CapIsALimit, ReservedIsPolled
<1> QED
  BY <1>4, <1>6, <1>7, <1>8 DEF IInv

\* A step of the poll loop that changes only the loop, and does not stop it
\* while units are reserved.
LEMMA PollOnlyInv ==
  ASSUME IInv, UNCHANGED <<gateVars, cost, task, handler, queueVars>>,
         poll' \in {"sleeping", "fetching"} \/ (poll' = "stopped" /\ ~(reserved > 0))
         \/ UNCHANGED poll
  PROVE  IInv'
<1>1. Holders' = Holders
  BY DEF Holders
<1>2. Accounting' /\ WithinLimit' /\ CapIsALimit'
  BY <1>1, AccountsKept DEF gateVars
<1>3. TypeOK'
  BY DEF IInv, TypeOK, gateVars, queueVars
<1>4. /\ TicketsOrdered' /\ HandlerFitsTask'
      /\ ConfiguredCap' /\ ReservedIsPolled'
  BY DEF IInv, TypeOK, TicketsOrdered, InQueue, HandlerFitsTask, ConfiguredCap,
         ReservedIsPolled, gateVars, queueVars
<1> QED
  BY <1>2, <1>3, <1>4 DEF IInv

LEMMA StepInv ==
  ASSUME IInv, [Next]_vars
  PROVE  IInv'
<1>1. ASSUME NEW r \in Requests, RequestStep(r) PROVE IInv'
  <2>1. CASE Arrive(r)
    BY <2>1, ArriveInv
  <2>2. CASE \E limit \in PlanLimits \cup {0} : LookupEnds(r, limit)
    BY <2>2, LookupEndsInv
  <2>3. CASE DeadlinePasses(r)
    BY <2>3, DeadlinePassesInv
  <2>4. CASE TimesOut(r)
    BY <2>4, TimesOutInv
  <2>5. CASE Resumes(r)
    BY <2>5, ResumesInv
  <2>6. CASE Collects(r)
    BY <2>6, CollectsInv
  <2>7. CASE RelayEnds(r)
    BY <2>7, RelayEndsInv
  <2>8. CASE ClientDisconnects(r)
    BY <2>8, CancelAcquireInv DEF ClientDisconnects
  <2>9. CASE HandlerCancelled(r)
    BY <2>9, HandlerCancelledInv
  <2>10. CASE CancelLands(r)
    BY <2>10, CancelLandsInv
  <2> QED
    BY <1>1, <2>1, <2>2, <2>3, <2>4, <2>5, <2>6, <2>7, <2>8, <2>9, <2>10
       DEF RequestStep
<1>2. CASE PollStep
  <2>1. CASE PollAsks
    BY <2>1, PollOnlyInv DEF PollAsks
  <2>2. CASE \E used \in SnapshotCosts : PollAnswered(used)
    BY <2>2, PollAnsweredInv
  <2>3. CASE PollFails
    BY <2>3, PollOnlyInv DEF PollFails
  <2>4. CASE PollStops
    BY <2>4, PollOnlyInv DEF PollStops
  <2> QED
    BY <1>2, <2>1, <2>2, <2>3, <2>4 DEF PollStep
<1>3. CASE UNCHANGED vars
  BY <1>3, PollOnlyInv DEF vars
<1> QED
  BY <1>1, <1>2, <1>3 DEF Next

-----------------------------------------------------------------------------
(* The theorems.                                                            *)

\* The inductive invariant holds in every reachable state.
THEOREM Invariance == Spec => []IInv
<1>1. IInv /\ [Next]_vars => IInv'
  BY StepInv
<1> QED
  BY InitInv, <1>1, PTL DEF Spec

\* Every variable keeps its type; in particular the counter of reserved units
\* is never negative, so no reservation is given back twice.
THEOREM TypeCorrectness == Spec => []TypeOK
BY Invariance, PTL DEF IInv

\* The counter of the gate is the cost of the reservations handed out and not
\* given back, whatever releases, timeouts and cancellations interleave.
THEOREM AccountingHolds == Spec => []Accounting
BY Invariance, PTL DEF IInv

\* The gate never reserves more than the largest limit it was entitled to:
\* the configured one, or else a plan's or the fallback.
THEOREM LimitHolds == Spec => []WithinLimit
BY Invariance, PTL DEF IInv

\* The snapshot poll loop runs as long as units are reserved.
THEOREM ReservedIsPolledHolds == Spec => []ReservedIsPolled
BY Invariance, PTL DEF IInv

-----------------------------------------------------------------------------
(* Units of handlers that are gone.                                         *)

\* A handler that is gone has seen its acquire call cancelled.
GoneIsCancelled == \A r \in Requests : handler[r] = "gone" => task[r] = "cancelled"

\* Waking the queue does nothing to a request that does not wait in it.
LEMMA WakesOnlyWaiters ==
  ASSUME NEW res, NEW used, NEW pending, WakeQueue(res, used, pending),
         NEW r \in Requests, pending[r] # "queued"
  PROVE  task'[r] = pending[r]
  BY DEF WakeQueue

\* A cancellation that raises at a woken waiter leaves no units with a handler
\* that is gone (_acquire_or_disconnect, _handle_waiter_exit), as long as the
\* server itself cancels no handler: what a client that leaves can do.
THEOREM DisconnectsLoseNothing ==
  ASSUME ~SwallowsCancel, Abortable = {}
  PROVE  Spec => []NoLostUnits
<1>1. Init => GoneIsCancelled
  BY DEF Init, GoneIsCancelled
<1>2. TypeOK /\ GoneIsCancelled /\ [Next]_vars => GoneIsCancelled'
  <2>. SUFFICES ASSUME TypeOK, GoneIsCancelled, [Next]_vars, NEW r \in Requests, handler'[r] = "gone"
                PROVE  task'[r] = "cancelled"
    BY DEF GoneIsCancelled
  <2>1. CASE UNCHANGED vars
    BY <2>1 DEF vars, GoneIsCancelled
  <2>2. ASSUME NEW s \in Requests, CancelLands(s) PROVE task'[r] = "cancelled"
    <3>. DEFINE pending == [task EXCEPT ![s] = "cancelled"]
    <3>1. pending[r] = "cancelled"
      BY <2>2 DEF CancelLands, TypeOK, GoneIsCancelled
    <3>2. task' = pending \/ WakeQueue(reserved - cost[s], upstreamUsed, pending)
      BY <2>2 DEF CancelLands, WaiterExits
    <3>. HIDE DEF pending
    <3>. QED
      BY <3>1, <3>2, WakesOnlyWaiters
  <2>3. ASSUME handler[r] = "gone",
               NEW s \in Requests, NEW outcome, NEW res, NEW used,
               task[s] # "cancelled", task' = [task EXCEPT ![s] = outcome] \/ WakeQueue(res, used, [task EXCEPT ![s] = outcome])
        PROVE  task'[r] = "cancelled"
    <3>. DEFINE pending == [task EXCEPT ![s] = outcome]
    <3>1. pending[r] = "cancelled"
      BY <2>3 DEF TypeOK, GoneIsCancelled
    <3>2. task' = pending \/ WakeQueue(res, used, pending)
      BY <2>3
    <3>. HIDE DEF pending
    <3>. QED
      BY <3>1, <3>2, WakesOnlyWaiters
  <2>4. ASSUME NEW s \in Requests, TimesOut(s) PROVE task'[r] = "cancelled"
    BY <2>3, <2>4 DEF TimesOut, WaiterExits
  <2>5. ASSUME NEW s \in Requests, RelayEnds(s) PROVE task'[r] = "cancelled"
    <3>1. handler[r] = "gone" /\ task[r] = "cancelled"
      BY <2>5 DEF RelayEnds, TypeOK, GoneIsCancelled
    <3>2. WakeQueue(reserved - cost[s], upstreamUsed, [task EXCEPT ![s] = "released"])
      BY <2>5 DEF RelayEnds
    <3>3. handler[s] = "relaying" /\ r # s
      BY <2>5, <3>1 DEF RelayEnds
    <3>. DEFINE pending == [task EXCEPT ![s] = "released"]
    <3>4. pending[r] = "cancelled" /\ WakeQueue(reserved - cost[s], upstreamUsed, pending)
      BY <3>1, <3>2, <3>3 DEF TypeOK
    <3>. HIDE DEF pending
    <3>. QED
      BY <3>4, WakesOnlyWaiters
  <2>6. ASSUME NEW used \in SnapshotCosts, PollAnswered(used) PROVE task'[r] = "cancelled"
    BY <2>6, WakesOnlyWaiters DEF PollAnswered, GoneIsCancelled
  <2>7. ASSUME NEW s \in Requests,
               \/ Arrive(s) \/ DeadlinePasses(s) \/ Resumes(s) \/ Collects(s)
               \/ ClientDisconnects(s) \/ \E limit \in PlanLimits \cup {0} : LookupEnds(s, limit)
        PROVE  task'[r] = "cancelled"
    <3>1. CASE Arrive(s)
      BY <3>1 DEF Arrive, ReserveOrQueue, TypeOK, GoneIsCancelled
    <3>2. CASE DeadlinePasses(s) \/ Resumes(s) \/ Collects(s)
      BY <3>2 DEF DeadlinePasses, Resumes, Collects, TypeOK, GoneIsCancelled
    <3>3. CASE ClientDisconnects(s)
      BY <3>3 DEF ClientDisconnects, CancelAcquire, TypeOK, GoneIsCancelled
    <3>4. CASE \E limit \in PlanLimits \cup {0} : LookupEnds(s, limit)
      BY <3>4 DEF LookupEnds, ReserveOrQueue, TypeOK, GoneIsCancelled
    <3>. QED
      BY <2>7, <3>1, <3>2, <3>3, <3>4
  <2>8. CASE PollAsks \/ PollFails \/ PollStops
    BY <2>8 DEF PollAsks, PollFails, PollStops, GoneIsCancelled
  <2>9. \A s \in Requests : ~HandlerCancelled(s)
    BY DEF HandlerCancelled
  <2>. QED
    BY <2>1, <2>2, <2>4, <2>5, <2>6, <2>7, <2>8, <2>9 DEF Next, RequestStep, PollStep
<1>3. GoneIsCancelled => NoLostUnits
  BY DEF GoneIsCancelled, NoLostUnits, Holders
<1>. QED
  BY <1>1, <1>2, <1>3, TypeCorrectness, PTL DEF Spec

-----------------------------------------------------------------------------
(* Work conservation.                                                       *)

\* A waiter that did not fit does not fit when more is reserved.
LEMMA FitsLess ==
  ASSUME TypeOK, NEW w \in Requests, NEW less \in Nat, NEW more \in Nat,
         less <= more, ~Fits(w, less, upstreamUsed, cap)
  PROVE  ~Fits(w, more, upstreamUsed, cap)
<1>1. cost[w] \in Nat /\ upstreamUsed \in Nat /\ cap \in Nat
  BY CostsAssumption DEF TypeOK
<1> QED
  BY <1>1 DEF Fits, Effective

LEMMA ArriveOrdered ==
  ASSUME IInv, NoFittingWaiter, ConfigLimit # 0, NEW r \in Requests, Arrive(r)
  PROVE  /\ NoFittingWaiter'
         /\ \A w \in Requests : task[w] = "queued" =>
              /\ task'[w] = "queued" /\ cap' = cap
              /\ \A a \in Requests : Admits(a)
                   => ~Fits(w, reserved' - cost[a], upstreamUsed', cap)
<1> USE DEF IInv, TypeOK
<1>1. /\ task[r] = "none" /\ ReserveOrQueue(r, ConfigLimit)
      /\ cap' = ConfigLimit /\ UNCHANGED <<upstreamUsed, cost>>
  BY DEF Arrive, HandlerFitsTask
<1>2. \A w \in Requests : task[w] = "queued" => cap = ConfigLimit
  BY DEF ConfiguredCap
<1>3. cost[r] \in Nat \ {0}
  BY CostsAssumption
<1>4. CASE /\ reserved' = reserved + cost[r]
           /\ task' = [task EXCEPT ![r] = "acquired"]
  <2>1. ASSUME NEW w \in Requests, task[w] = "queued"
        PROVE  ~Fits(w, reserved', upstreamUsed, cap)
    BY <1>3, <1>4, <2>1, FitsLess DEF NoFittingWaiter
  <2>2. \A w \in Requests : w # r => task'[w] = task[w]
    BY <1>4
  <2>3. \A a \in Requests : Admits(a) => a = r
    BY <1>4 DEF Admits, Holders
  <2>4. NoFittingWaiter'
    BY <1>1, <1>2, <1>4, <2>1 DEF NoFittingWaiter, Fits
  <2>5. reserved' - cost[r] = reserved
    BY <1>3, <1>4
  <2> QED
    BY <1>1, <1>2, <2>2, <2>3, <2>4, <2>5 DEF NoFittingWaiter
<1>5. ASSUME NEW outcome \in {"queued", "timedout"},
             outcome = "queued" => ~Fits(r, reserved, upstreamUsed, ConfigLimit),
             task' = [task EXCEPT ![r] = outcome], reserved' = reserved
      PROVE  /\ NoFittingWaiter'
             /\ \A w \in Requests : task[w] = "queued" =>
                  /\ task'[w] = "queued" /\ cap' = cap
                  /\ \A a \in Requests : ~Admits(a)
  <2>1. NoFittingWaiter'
    BY <1>1, <1>2, <1>5 DEF NoFittingWaiter, Fits
  <2>2. \A a \in Requests : ~Admits(a)
    BY <1>5 DEF Admits, Holders
  <2> QED
    BY <1>1, <1>2, <1>5, <2>1, <2>2
<1> QED
  BY <1>1, <1>4, <1>5 DEF ReserveOrQueue

\* Waking the queue admits in order: a waiter passed over would not have
\* fitted in the place of a later one.
LEMMA WakeOrdered ==
  ASSUME IInv, NEW res \in Nat, NEW used \in Nat,
         NEW pending \in [Requests -> TaskState],
         \A w \in Requests : pending[w] = "queued" => task[w] = "queued",
         \A w \in Requests : pending[w] \in {"granted", "acquired"}
                               => task[w] \in {"granted", "acquired"},
         WakeQueue(res, used, pending),
         NEW a \in Requests, Admits(a),
         NEW w \in Requests, task'[w] = "queued", ticket[w] < ticket[a]
  PROVE  ~Fits(w, reserved' - cost[a], used, cap)
<1> USE DEF IInv
<1> DEFINE live == {v \in Requests : pending[v] = "queued"}
<1>1. PICK G \in SUBSET live :
        /\ IsAdmitted(G, live, res, used)
        /\ reserved' = res + CostOf(G, cost)
        /\ task' = [v \in Requests |-> IF v \in G THEN "granted" ELSE pending[v]]
  BY DEF WakeQueue
<1>2. a \in G /\ w \in live /\ w \notin G
  BY <1>1 DEF Admits, Holders
<1> DEFINE before == {v \in G : ticket[v] < ticket[w]}
<1>3. ~Fits(w, res + CostOf(before, cost), used, cap)
  BY <1>1, <1>2 DEF IsAdmitted
<1>4. before \in SUBSET (G \ {a})
  BY DEF TypeOK
<1>5. /\ IsFiniteSet(G \ {a}) /\ IsFiniteSet(G)
      /\ \A v \in G : cost[v] \in Nat
      /\ CostOf(G \ {a}, cost) \in Nat
      /\ CostOf(before, cost) \in Nat
      /\ CostOf(G, cost) \in Nat
  BY RequestSets
<1>6. CostOf(before, cost) <= CostOf(G \ {a}, cost)
  <2> HIDE DEF before
  <2> QED
    BY <1>4, <1>5, CostIsMonotone
<1>7. CostOf(G \ {a}, cost) = CostOf(G, cost) - cost[a]
  BY <1>2, <1>5, CostOfLess
<1>8. cost[w] \in Nat /\ cost[a] \in Nat /\ cap \in Nat
  BY CostsAssumption DEF TypeOK
<1> HIDE DEF before, live
<1> QED
  BY <1>1, <1>3, <1>5, <1>6, <1>7, <1>8 DEF Fits, Effective

\* The two promises for one step: work conservation is kept, and nobody the
\* step admits overtakes.
OrderKept ==
  /\ NoFittingWaiter'
  /\ \A r, w \in Requests :
       Admits(r) /\ PassedOver(w, r)
         => Effective(reserved' - cost[r], upstreamUsed') + cost[w] > cap'

\* A step that admits nobody, queues nobody and leaves the budget alone.
LEMMA QuietOrdered ==
  ASSUME IInv, NoFittingWaiter, UNCHANGED <<gateVars, cost>>,
         \A w \in Requests : task'[w] = "queued" => task[w] = "queued",
         \A w \in Requests : ~Admits(w)
  PROVE  OrderKept
BY DEF NoFittingWaiter, OrderKept, Fits, gateVars

\* A step that ends by waking the queue.
LEMMA WakeKeepsOrder ==
  ASSUME IInv, NEW res \in Nat, NEW used \in Nat,
         NEW pending \in [Requests -> TaskState],
         \A w \in Requests : pending[w] = "queued" => task[w] = "queued",
         \A w \in Requests : pending[w] \in {"granted", "acquired"}
                               => task[w] \in {"granted", "acquired"},
         res = CostOf(HoldersIn(pending), cost),
         WakeQueue(res, used, pending),
         UNCHANGED <<cap, cost>>, upstreamUsed' = used
  PROVE  OrderKept
<1> USE DEF IInv
<1>1. /\ reserved' \in Nat
      /\ \A w \in Requests :
           \/ task'[w] = pending[w]
           \/ pending[w] = "queued" /\ task'[w] = "granted"
      /\ \A w \in Requests :
           task'[w] = "queued" => ~Fits(w, reserved', used, cap)
  BY WakeEffect
<1>2. NoFittingWaiter'
  BY <1>1 DEF NoFittingWaiter, Fits
<1>3. ASSUME NEW r \in Requests, NEW w \in Requests, Admits(r), PassedOver(w, r)
      PROVE  Effective(reserved' - cost[r], upstreamUsed') + cost[w] > cap'
  <2>1. task[r] = "queued" /\ task'[r] = "granted"
    BY <1>1, <1>3 DEF Admits, Holders
  <2>2. ticket[w] < ticket[r] /\ task'[w] = "queued"
    BY <1>3, <2>1 DEF PassedOver, TicketsOrdered, InQueue
  <2>3. ~Fits(w, reserved' - cost[r], used, cap)
    BY <1>3, <2>2, WakeOrdered
  <2>4. cost[r] \in Nat /\ cost[w] \in Nat /\ cap \in Nat
    BY CostsAssumption DEF TypeOK
  <2>5. reserved' - cost[r] \in Int
    BY <1>1, <2>4
  <2> QED
    BY <2>3, <2>4, <2>5 DEF Fits, Effective
<1> QED
  BY <1>2, <1>3 DEF OrderKept

LEMMA LeavingHolderOrder ==
  ASSUME IInv, NEW r \in Holders,
         NEW outcome \in {"released", "timedout", "cancelled"},
         WakeQueue(reserved - cost[r], upstreamUsed, [task EXCEPT ![r] = outcome]),
         UNCHANGED <<cap, upstreamUsed, cost>>
  PROVE  OrderKept
<1> DEFINE pending == [task EXCEPT ![r] = outcome]
           res == reserved - cost[r]
<1>1. /\ pending \in [Requests -> TaskState]
      /\ res = CostOf(HoldersIn(pending), cost)
      /\ res \in Nat
      /\ \A w \in Requests : pending[w] = "queued" => task[w] = "queued"
  BY HolderLeaves
<1>2. \A w \in Requests : pending[w] \in {"granted", "acquired"}
                            => task[w] \in {"granted", "acquired"}
  BY DEF IInv, TypeOK
<1>3. upstreamUsed \in Nat /\ WakeQueue(res, upstreamUsed, pending)
  BY DEF IInv, TypeOK
<1> HIDE DEF pending, res
<1> QED
  BY <1>1, <1>2, <1>3, WakeKeepsOrder

LEMMA WaiterExitsOrder ==
  ASSUME IInv, NoFittingWaiter, NEW r \in Requests,
         NEW outcome \in {"timedout", "cancelled"},
         task[r] \in {"lookup", "queued", "expired", "granted"},
         WaiterExits(r, outcome),
         UNCHANGED <<cap, capSource, upstreamUsed, cost>>
  PROVE  OrderKept
<1>1. CASE task[r] = "granted"
  <2>1. r \in Holders
    BY <1>1 DEF Holders
  <2> QED
    BY <1>1, <2>1, LeavingHolderOrder DEF WaiterExits
<1>2. CASE task[r] # "granted"
  <2>1. task' = [task EXCEPT ![r] = outcome] /\ UNCHANGED reserved
    BY <1>2 DEF WaiterExits
  <2>2. \A w \in Requests : ~Admits(w)
    BY <2>1 DEF Admits, Holders, IInv, TypeOK
  <2>3. \A w \in Requests : task'[w] = "queued" => task[w] = "queued"
    BY <2>1 DEF IInv, TypeOK
  <2> QED
    BY <2>1, <2>2, <2>3, QuietOrdered DEF gateVars
<1> QED
  BY <1>1, <1>2

LEMMA OrderStep ==
  ASSUME IInv, NoFittingWaiter, ConfigLimit # 0, [Next]_vars
  PROVE  OrderKept
<1>1. ASSUME NEW r \in Requests, RequestStep(r) PROVE OrderKept
  <2>1. CASE Arrive(r)
    <3>1. /\ NoFittingWaiter'
          /\ \A w \in Requests : task[w] = "queued" =>
               /\ task'[w] = "queued" /\ cap' = cap
               /\ \A a \in Requests : Admits(a)
                    => ~Fits(w, reserved' - cost[a], upstreamUsed', cap)
      BY <2>1, ArriveOrdered
    <3>2. IInv'
      BY <2>1, ArriveInv
    <3>3. ASSUME NEW a \in Requests, NEW w \in Requests, Admits(a), PassedOver(w, a)
          PROVE  Effective(reserved' - cost[a], upstreamUsed') + cost[w] > cap'
      <4>1. ~Fits(w, reserved' - cost[a], upstreamUsed', cap) /\ cap' = cap
        BY <3>1, <3>3 DEF PassedOver
      <4>2. cost[a] \in Nat /\ cost[w] \in Nat /\ cap \in Nat
        BY CostsAssumption DEF IInv, TypeOK
      <4>3. reserved' \in Nat /\ upstreamUsed' \in Nat
        BY <3>2 DEF IInv, TypeOK
      <4>4. reserved' - cost[a] \in Int
        BY <4>2, <4>3
      <4> QED
        BY <4>1, <4>2, <4>3, <4>4 DEF Fits, Effective
    <3> QED
      BY <3>1, <3>3 DEF OrderKept
  <2>2. CASE \E limit \in PlanLimits \cup {0} : LookupEnds(r, limit)
    BY <2>2 DEF LookupEnds, IInv, ConfiguredCap
  <2>3. CASE DeadlinePasses(r)
    BY <2>3, QuietOrdered DEF DeadlinePasses, Admits, Holders, IInv, TypeOK
  <2>4. CASE TimesOut(r)
    BY <2>4, WaiterExitsOrder DEF TimesOut
  <2>5. CASE Resumes(r)
    BY <2>5, QuietOrdered DEF Resumes, Admits, Holders, IInv, TypeOK
  <2>6. CASE Collects(r)
    BY <2>6, QuietOrdered DEF Collects, Admits, Holders
  <2>7. CASE RelayEnds(r)
    <3>1. r \in Holders
      BY <2>7 DEF RelayEnds, IInv, HandlerFitsTask, Holders
    <3> QED
      BY <2>7, <3>1, LeavingHolderOrder DEF RelayEnds
  <2>8. CASE ClientDisconnects(r)
    BY <2>8, QuietOrdered
       DEF ClientDisconnects, CancelAcquire, Admits, Holders, IInv, TypeOK
  <2>9. CASE HandlerCancelled(r)
    BY <2>9, QuietOrdered
       DEF HandlerCancelled, CancelAcquire, Admits, Holders, IInv, TypeOK
  <2>10. CASE CancelLands(r)
    <3>1. task[r] \in {"lookup", "queued", "expired", "granted"}
      BY <2>10 DEF CancelLands, IInv, HandlerFitsTask
    <3> QED
      BY <2>10, <3>1, WaiterExitsOrder DEF CancelLands
  <2> QED
    BY <1>1, <2>1, <2>2, <2>3, <2>4, <2>5, <2>6, <2>7, <2>8, <2>9, <2>10
       DEF RequestStep
<1>2. CASE PollStep
  <2>1. CASE PollAsks \/ PollFails \/ PollStops
    BY <2>1, QuietOrdered DEF PollAsks, PollFails, PollStops, Admits, Holders
  <2>2. ASSUME NEW used \in SnapshotCosts, PollAnswered(used)
        PROVE  OrderKept
    <3>1. /\ reserved \in Nat /\ used \in Nat
          /\ task \in [Requests -> TaskState]
      BY LimitsAssumption DEF IInv, TypeOK
    <3>2. reserved = CostOf(HoldersIn(task), cost)
      <4>1. HoldersIn(task) = Holders
        BY DEF HoldersIn, Holders
      <4> QED
        BY <4>1, Zenon DEF IInv, Accounting
    <3>3. /\ WakeQueue(reserved, used, task)
          /\ UNCHANGED <<cap, cost>> /\ upstreamUsed' = used
      BY <2>2 DEF PollAnswered
    <3> QED
      BY <3>1, <3>2, <3>3, WakeKeepsOrder
  <2> QED
    BY <1>2, <2>1, <2>2 DEF PollStep
<1>3. CASE UNCHANGED vars
  BY <1>3, QuietOrdered DEF vars, Admits, Holders
<1> QED
  BY <1>1, <1>2, <1>3 DEF Next

-----------------------------------------------------------------------------
(* The budget.                                                              *)

\* How the acquire call of a request may move in one step, as far as units are
\* concerned: a call that is over stays so, and none goes back to asking.
LEMMA CallsMoveForward ==
  ASSUME IInv, [Next]_vars, NEW w \in Requests
  PROVE  /\ task[w] \in {"released", "timedout", "cancelled"} => task'[w] = task[w]
         /\ task'[w] \in {"none", "lookup", "queued", "expired"}
              => task[w] \in {"none", "lookup", "queued", "expired"}
<1> USE DEF IInv, TypeOK, TaskState
<1> DEFINE Forward ==
      /\ task[w] \in {"released", "timedout", "cancelled"} => task'[w] = task[w]
      /\ task'[w] \in {"none", "lookup", "queued", "expired"}
           => task[w] \in {"none", "lookup", "queued", "expired"}
<1>1. ASSUME NEW r \in Requests, RequestStep(r) PROVE Forward
  <2>1. CASE Arrive(r) \/ \E limit \in PlanLimits \cup {0} : LookupEnds(r, limit)
    BY <2>1 DEF Arrive, LookupEnds, ReserveOrQueue, HandlerFitsTask
  <2>2. CASE DeadlinePasses(r) \/ Resumes(r) \/ Collects(r)
    BY <2>2 DEF DeadlinePasses, Resumes, Collects
  <2>3. CASE ClientDisconnects(r) \/ HandlerCancelled(r)
    BY <2>3 DEF ClientDisconnects, HandlerCancelled, CancelAcquire
  <2>4. CASE TimesOut(r) \/ CancelLands(r)
    BY <2>4 DEF TimesOut, CancelLands, WaiterExits, WakeQueue, HandlerFitsTask
  <2>5. CASE RelayEnds(r)
    BY <2>5 DEF RelayEnds, WakeQueue, HandlerFitsTask
  <2> QED
    BY <1>1, <2>1, <2>2, <2>3, <2>4, <2>5 DEF RequestStep
<1>2. CASE PollStep
  BY <1>2 DEF PollStep, PollAsks, PollAnswered, PollFails, PollStops, WakeQueue
<1>3. CASE UNCHANGED vars
  BY <1>3 DEF vars
<1> QED
  BY <1>1, <1>2, <1>3 DEF Next

LEMMA BudgetInit ==
  ASSUME Init
  PROVE  Budget!Init
BY DEF Init, Budget!Init, Standing

LEMMA BudgetStep ==
  ASSUME IInv, IInv', ConfigLimit # 0, [Next]_vars
  PROVE  Budget!Step
<1> DEFINE standing == [r \in Requests |-> Standing(task[r])]
<1>1. \A w \in Requests : task[w] \in TaskState /\ task'[w] \in TaskState
  BY DEF IInv, TypeOK
<1>2. UNCHANGED cost
  BY DEF Next, RequestStep, PollStep, vars, Arrive, LookupEnds, DeadlinePasses,
         TimesOut, Resumes, Collects, RelayEnds, ClientDisconnects,
         HandlerCancelled, CancelLands, PollAsks, PollAnswered, PollFails, PollStops
<1>3. \A w \in Requests :
        /\ Standing(task[w]) \in {"asking", "holding", "done"}
        /\ Standing(task[w]) = "done" => task[w] \in {"released", "timedout", "cancelled"}
        /\ Standing(task[w]) = "asking" <=> task[w] \in {"none", "lookup", "queued", "expired"}
        /\ Standing(task[w]) = "holding" <=> task[w] \in {"granted", "acquired"}
  BY <1>1 DEF Standing, TaskState
<1>4. \A w \in Requests :
        /\ Standing(task'[w]) \in {"asking", "holding", "done"}
        /\ task'[w] \in {"released", "timedout", "cancelled"} => Standing(task'[w]) = "done"
        /\ Standing(task'[w]) = "asking" <=> task'[w] \in {"none", "lookup", "queued", "expired"}
        /\ Standing(task'[w]) = "holding" <=> task'[w] \in {"granted", "acquired"}
  BY <1>1 DEF Standing, TaskState
<1>5. \A w \in Requests :
        /\ Standing(task[w]) = "done" => Standing(task'[w]) = "done"
        /\ Standing(task'[w]) = "asking" => Standing(task[w]) = "asking"
  BY <1>3, <1>4, CallsMoveForward
<1>6. {w \in Requests : standing'[w] = "holding"} = Holders'
  BY <1>4 DEF Holders
<1>7. CostOf(Holders', cost) <= ConfigLimit
  <2>1. \A limit \in Limits' : limit = ConfigLimit
    BY LimitsAreFixed DEF Limits
  <2>2. reserved' <= ConfigLimit /\ reserved' = CostOf(Holders', cost')
    BY <2>1 DEF IInv, WithinLimit, Accounting
  <2> QED
    BY <1>2, <2>2
<1>8. CostOf({w \in Requests : standing'[w] = "holding"}, cost) <= ConfigLimit
  <2>1. CostOf({w \in Requests : standing'[w] = "holding"}, cost) = CostOf(Holders', cost)
    BY <1>6, Zenon
  <2> QED
    BY <1>7, <2>1
<1>9. CostOf(Budget!Holding', cost) <= ConfigLimit
  <2>1. Budget!Holding' = {w \in Requests : standing'[w] = "holding"}
    BY DEF Budget!Holding
  <2> HIDE DEF standing
  <2> QED
    BY <1>8, <2>1, Zenon
<1>10. standing' \in [Requests -> {"asking", "holding", "done"}]
  BY <1>4
<1>11. \A r \in Requests :
         /\ standing[r] = "done" => standing'[r] = "done"
         /\ standing'[r] = "asking" => standing[r] = "asking"
  BY <1>5
<1> QED
  BY <1>2, <1>9, <1>10, <1>11 DEF Budget!Step

-----------------------------------------------------------------------------
(* The theorems.                                                            *)

\* With a configured limit no live waiter that fits the remaining budget is
\* ever left waiting: every release, timeout, cancellation and snapshot wakes
\* whoever fits.
THEOREM WorkConservation ==
  ASSUME ConfigLimit # 0
  PROVE  Spec => []NoFittingWaiter
<1>1. Init => NoFittingWaiter
  BY DEF Init, NoFittingWaiter
<1>2. IInv /\ NoFittingWaiter /\ [Next]_vars => NoFittingWaiter'
  BY OrderStep DEF OrderKept
<1> QED
  BY <1>1, <1>2, Invariance, PTL DEF Spec

\* With a configured limit nobody, from the queue or on arrival, is admitted
\* over an earlier waiter that would have fitted in its place.
THEOREM ArrivalOrder ==
  ASSUME ConfigLimit # 0
  PROVE  Spec => NoOvertaking
<1>1. IInv /\ NoFittingWaiter /\ [Next]_vars =>
        [\A r, w \in Requests :
           Admits(r) /\ PassedOver(w, r)
             => Effective(reserved' - cost[r], upstreamUsed') + cost[w] > cap']_vars
  BY OrderStep DEF OrderKept
<1> QED
  BY <1>1, Invariance, WorkConservation, PTL DEF Spec, NoOvertaking

\* With a configured limit the gate implements the abstract budget of units:
\* queue, deadlines, polling and cancellation change nothing about who may
\* hold how much.
THEOREM BudgetImplemented ==
  ASSUME ConfigLimit # 0
  PROVE  Spec => ImplementsBudget
<1>1. Init => Budget!Init
  BY BudgetInit
<1>2. IInv /\ IInv' /\ [Next]_vars => Budget!Step
  BY BudgetStep
<1> QED
  BY <1>1, <1>2, Invariance, PTL DEF Spec, ImplementsBudget, Budget!Spec

=============================================================================
