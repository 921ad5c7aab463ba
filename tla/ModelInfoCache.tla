--------------------------- MODULE ModelInfoCache ---------------------------
(***************************************************************************)
(* The model information cache of the featherless mode (class              *)
(* ModelInfoCache of featherless.py): a layer of model details common to   *)
(* all credentials, a layer of plan availability per credential, and one   *)
(* lock under which ensure_warm() fills both.                              *)
(*                                                                         *)
(* Time is counted in ticks.  An age is the time since a moment the code   *)
(* reads the clock; Ttl stands for every age from the time to live on, and *)
(* for a moment that never was.                                            *)
(***************************************************************************)
EXTENDS Integers, FiniteSets, Sequences, SequencesExt

CONSTANTS
  Models,       \* the whitelist
  Keys,         \* the client credentials
  NoKey,        \* no credential
  Calls,        \* the handlers that call ensure_warm(), one call at a time each
  KeyOf,        \* the credential each calls with
  Ttl           \* cache_ttl_seconds, in ticks

ASSUME KeysAssumption == NoKey \notin Keys /\ KeyOf \in [Calls -> Keys]
ASSUME TtlAssumption == Ttl \in Nat \ {0}

VARIABLES
  entries,       \* _entries: from whose response, and what it said
  missing,       \* _missing
  known,         \* the domain of _availability
  availability,  \* _availability: whose response the value for a model is from
  warned,        \* _warned
  fetchedAge,    \* age of _fetched_at
  call,          \* where each call stands
  lockQueue,     \* calls in line for _warm_lock, its holder or next holder first
  fetchAge,      \* age of the reading `now` of the call that is fetching
  wasStale,      \* common_stale of that call
  commonAge,     \* age of the reading under which the common layer was filled
  planAge,       \* and of the ones under which each credential's layer was
  notices,       \* warnings about a model since it was last in order
  costless       \* models whose details came without a usable cost since then

layers == <<entries, missing, known, availability, fetchedAge, commonAge, planAge>>
notes == <<warned, notices, costless>>
locking == <<call, lockQueue, fetchAge, wasStale>>
vars == <<layers, notes, locking>>

\* What a response with status 200 says: whether it has a usable
\* concurrency_cost, and whether it states available_on_current_plan.
Infos == [from : Keys \cup {NoKey}, costed : BOOLEAN, stated : BOOLEAN]

NoInfo == [from |-> NoKey, costed |-> FALSE, stated |-> FALSE]

\* The outcome of one fetch: details, HTTP 404, or anything else that fails.
Results ==
  [status : {"ok"}, costed : BOOLEAN, stated : BOOLEAN]
    \cup [status : {"gone", "failed"}, costed : {FALSE}, stated : {FALSE}]

NoticeBound == 2   \* notices are counted up to here

Ages == 0 .. Ttl

TypeOK ==
  /\ entries \in [Models -> Infos]
  /\ missing \subseteq Models
  /\ known \subseteq Keys
  /\ availability \in [Keys -> [Models -> Keys \cup {NoKey}]]
  /\ warned \subseteq Models
  /\ fetchedAge \in Ages
  /\ call \in [Calls -> {"idle", "locking", "fetching"}]
  /\ lockQueue \in Seq(Calls)
  /\ fetchAge \in Ages
  /\ wasStale \in BOOLEAN
  /\ commonAge \in Ages
  /\ planAge \in [Keys -> Ages]
  /\ notices \in [Models -> 0 .. NoticeBound]
  /\ costless \subseteq Models

-----------------------------------------------------------------------------
Listed(m) == entries[m] # NoInfo

Stale(age) == age = Ttl

\* Both layers serve k without a fetch.
Warm(k) == ~Stale(fetchedAge) /\ k \in known

\* _with_availability: the credential whose response says what a listing for
\* k shows as the availability of m, NoKey when it shows none.
AvailabilityShown(m, k) == IF k \in known THEN availability[k][m] ELSE NoKey

\* Mutant: every degradation is warned about again.
NoticesAfterWarningAlways(m) ==
  IF notices[m] < NoticeBound THEN notices[m] + 1 ELSE notices[m]

\* _warn_degraded: silent about a model that was warned about already.
NoticesAfterWarning(m) ==
  IF m \notin warned /\ notices[m] < NoticeBound
  THEN notices[m] + 1
  ELSE notices[m]

-----------------------------------------------------------------------------
(* The two layers.                                                          *)

\* What a response of k with status 200 puts into the common layer.
InfoFrom(k, result) ==
  [from |-> k, costed |-> result.costed, stated |-> result.stated]

\* Mutant: a refresh that fails clears the entry.
RefreshedClearing(m, result, k) ==
  IF result.status = "ok" THEN InfoFrom(k, result) ELSE NoInfo

\* The entry of m after a refresh by k: a refresh that fails keeps it.
Refreshed(m, result, k) ==
  CASE result.status = "ok" -> InfoFrom(k, result)
    [] result.status = "gone" -> NoInfo
    [] result.status = "failed" -> entries[m]

\* _apply_common.  For the code details of any kind end a degraded episode; in
\* truth they do if they come with a usable cost.
ApplyCommon(results, k) ==
  LET bad == {m \in Models : results[m].status # "ok"}
      good == {m \in Models : results[m].costed}
  IN  /\ entries' = [m \in Models |-> Refreshed(m, results[m], k)]
      /\ missing' = {m \in Models : results[m].status = "gone"}
      /\ warned' = bad
      /\ notices' = [m \in Models |->
                       CASE m \in bad -> NoticesAfterWarning(m)
                         [] m \in good -> 0
                         [] OTHER -> notices[m]]
      /\ costless' = (costless \cup (Models \ bad)) \ good
      /\ commonAge' = fetchAge

\* Mutant: the availability is taken from the common layer.
ApplyAvailabilityFromEntries(results, k) ==
  /\ known' = known \cup {k}
  /\ availability' = [availability EXCEPT ![k] =
       [m \in Models |-> IF entries'[m].stated THEN entries'[m].from ELSE NoKey]]
  /\ planAge' = [planAge EXCEPT ![k] = fetchAge]

\* _apply_availability.
ApplyAvailability(results, k) ==
  /\ known' = known \cup {k}
  /\ availability' = [availability EXCEPT ![k] =
       [m \in Models |-> IF InfoFrom(k, results[m]).stated THEN k ELSE NoKey]]
  /\ planAge' = [planAge EXCEPT ![k] = fetchAge]

-----------------------------------------------------------------------------
Init ==
  /\ entries = [m \in Models |-> NoInfo]
  /\ missing = {}
  /\ known = {}
  /\ availability = [k \in Keys |-> [m \in Models |-> NoKey]]
  /\ warned = {}
  /\ fetchedAge = Ttl
  /\ call = [c \in Calls |-> "idle"]
  /\ lockQueue = <<>>
  /\ fetchAge = Ttl
  /\ wasStale = FALSE
  /\ commonAge = Ttl
  /\ planAge = [k \in Keys |-> Ttl]
  /\ notices = [m \in Models |-> 0]
  /\ costless = {}

\* ensure_warm from the moment call c has the lock, with the calls rest in
\* line behind it: it returns at once, or starts to fetch and keeps the lock.
EntersLock(c, rest) ==
  IF Warm(KeyOf[c])
  THEN /\ call' = [call EXCEPT ![c] = "idle"]
       /\ lockQueue' = rest
       /\ UNCHANGED <<fetchAge, wasStale>>
  ELSE /\ call' = [call EXCEPT ![c] = "fetching"]
       /\ lockQueue' = <<c>> \o rest
       /\ fetchAge' = 0
       /\ wasStale' = Stale(fetchedAge)

\* A call begins.  It takes the lock if nobody holds it or is in line for it.
Begins(c) ==
  /\ call[c] = "idle"
  /\ IF lockQueue = <<>>
     THEN EntersLock(c, <<>>)
     ELSE /\ call' = [call EXCEPT ![c] = "locking"]
          /\ lockQueue' = Append(lockQueue, c)
          /\ UNCHANGED <<fetchAge, wasStale>>
  /\ UNCHANGED <<layers, notes>>

\* The first call in line gets the lock that was released.
LockGranted(c) ==
  /\ call[c] = "locking"
  /\ Head(lockQueue) = c
  /\ EntersLock(c, Tail(lockQueue))
  /\ UNCHANGED <<layers, notes>>

\* The handler of a call is cancelled while the call waits, whether or not the
\* lock was just passed to it.
WaitAborts(c) ==
  /\ call[c] = "locking"
  /\ call' = [call EXCEPT ![c] = "idle"]
  /\ \E i \in DOMAIN lockQueue : lockQueue[i] = c /\ lockQueue' = RemoveAt(lockQueue, i)
  /\ UNCHANGED <<layers, notes, fetchAge, wasStale>>

\* The call that fetched releases the lock.
LeavesLock ==
  /\ lockQueue' = Tail(lockQueue)
  /\ fetchAge' = Ttl
  /\ wasStale' = FALSE

\* Mutant: the clock is read once more when the fetches have ended.
FetchEndsLateClock(c, results) ==
  /\ call[c] = "fetching"
  /\ IF wasStale
     THEN ApplyCommon(results, KeyOf[c])
     ELSE UNCHANGED <<entries, missing, commonAge, notes>>
  /\ ApplyAvailability(results, KeyOf[c])
  /\ fetchedAge' = 0
  /\ call' = [call EXCEPT ![c] = "idle"]
  /\ LeavesLock

\* The fetches of a call have all ended.  The common layer is replaced if it
\* was stale when the call looked, the layer of its credential in any case,
\* and the age of both becomes the time since the call looked.
FetchEnds(c, results) ==
  /\ call[c] = "fetching"
  /\ IF wasStale
     THEN ApplyCommon(results, KeyOf[c])
     ELSE UNCHANGED <<entries, missing, commonAge, notes>>
  /\ ApplyAvailability(results, KeyOf[c])
  /\ fetchedAge' = fetchAge
  /\ call' = [call EXCEPT ![c] = "idle"]
  /\ LeavesLock

\* Mutant: a call that fails keeps the lock.
FetchAbortsHolding(c) ==
  /\ call[c] = "fetching"
  /\ call' = [call EXCEPT ![c] = "idle"]
  /\ UNCHANGED <<layers, notes, lockQueue, fetchAge, wasStale>>

\* The call leaves the fetch by an exception: a credential httpx cannot send,
\* or the cancellation of its handler.
FetchAborts(c) ==
  /\ call[c] = "fetching"
  /\ call' = [call EXCEPT ![c] = "idle"]
  /\ LeavesLock
  /\ UNCHANGED <<layers, notes>>

\* concurrency_cost: the lookup of a model without a usable cost warns, also
\* before a fetch has said anything of the model.
LooksUpCost(m) ==
  /\ ~entries[m].costed
  /\ notices' = [notices EXCEPT ![m] = NoticesAfterWarning(m)]
  /\ warned' = warned \cup {m}
  /\ UNCHANGED <<layers, locking, costless>>

Older(age) == IF age < Ttl THEN age + 1 ELSE age

\* The clock advances.
Tick ==
  /\ fetchedAge' = Older(fetchedAge)
  /\ fetchAge' = Older(fetchAge)
  /\ commonAge' = Older(commonAge)
  /\ planAge' = [k \in Keys |-> Older(planAge[k])]
  /\ UNCHANGED <<entries, missing, known, availability, notes, call, lockQueue, wasStale>>

Next ==
  \/ \E c \in Calls :
       \/ Begins(c)
       \/ LockGranted(c)
       \/ \E results \in [Models -> Results] : FetchEnds(c, results)
       \/ FetchAborts(c)
       \/ WaitAborts(c)
  \/ \E m \in Models : LooksUpCost(m)
  \/ Tick

Spec == Init /\ [][Next]_vars

\* The HTTP calls of a fetch are bounded by the client's timeouts, and asyncio
\* wakes the first call in line when the lock is released.
Fairness ==
  \A c \in Calls :
    /\ WF_vars(LockGranted(c))
    /\ WF_vars(\E results \in [Models -> Results] : FetchEnds(c, results))

FairSpec == Spec /\ Fairness

-----------------------------------------------------------------------------
(* What the cache promises.                                                 *)

\* "Common layer keeps key-independent model details" (docstring of the
\* class): whether a model is available on a plan is shown to a credential
\* only from the response that very credential got, never from the response
\* that filled the common layer.
NoForeignAvailability ==
  \A m \in Models, k \in Keys \cup {NoKey} :
    AvailabilityShown(m, k) \in {k, NoKey}

\* "Keep the previous entry when a refresh fails" (comment in _apply_common):
\* once listed, a model disappears only on a 404 from upstream.
KeptThroughFailure ==
  [][\A m \in Models : Listed(m) /\ ~Listed(m)' => m \in missing']_vars

\* "Model info refreshes every cache_ttl_seconds" (README): as long as the
\* cache answers from its common layer without a fetch, that layer is younger
\* than the time to live.
CommonIsFresh ==
  \A k \in Keys : Warm(k) => commonAge < Ttl

\* "Model info (including availability) is cached for this long" (README): as
\* long as a single credential has used the cache, what it is shown without a
\* fetch was filled by refreshes that began within the time to live, however
\* long they took and whoever waited for them.  (An entry a failed refresh kept
\* is older than the refresh that kept it.)
SoleKeyIsFresh ==
  \A k \in Keys :
    known = {k} /\ Warm(k) => commonAge < Ttl /\ planAge[k] < Ttl

\* "Warn once per degraded episode so refreshes stay quiet" (comment in
\* _warn_degraded): at most one warning about a model until it is in order, that
\* is, until details with a usable cost arrive.  The code breaks this.
WarnsOncePerEpisode == \A m \in Models : notices[m] <= 1

\* What is left of it: refreshes stay quiet, whether a model fails, disappears and
\* fails again or is looked up in between, as long as no details without a
\* usable cost arrive; _apply_common takes these for the end of the episode, and
\* the next lookup or failure warns once more.
WarnsOnce == \A m \in Models \ costless : notices[m] <= 1

\* One call at a time fetches, and the line for the lock holds exactly the
\* calls that wait or fetch: a failure or a cancellation cannot leave the
\* lock held by nobody.
LockIsHeld ==
  /\ {c \in Calls : call[c] \in {"locking", "fetching"}}
       = {lockQueue[i] : i \in 1 .. Len(lockQueue)}
  /\ \A c \in Calls : call[c] = "fetching" => Head(lockQueue) = c

\* Every call of ensure_warm returns, whatever becomes of the ones before it.
EveryCallReturns == \A c \in Calls : call[c] = "locking" ~> call[c] = "idle"

=============================================================================
