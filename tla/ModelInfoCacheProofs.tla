------------------------ MODULE ModelInfoCacheProofs ------------------------
(***************************************************************************)
(* The safety of the cache for any models, credentials, calls and time to  *)
(* live.                                                                   *)
(***************************************************************************)
EXTENDS ModelInfoCache, SequenceTheorems, TLAPS

\* The members of a sequence, and that it has none twice.
Members(s) == {s[i] : i \in 1 .. Len(s)}
IsDuplicateFree(s) == \A i, j \in 1 .. Len(s) : s[i] = s[j] => i = j

\* The availability a credential is shown is its own, where its layer exists.
OwnAvailability == \A k \in Keys, m \in Models : availability[k][m] \in {k, NoKey}

\* Layers that only one credential has filled are of the age the code keeps.
SoleKeyHasOneAge ==
  /\ known = {} => Stale(fetchedAge)
  /\ \A k \in Keys : known = {k} => commonAge = fetchedAge /\ planAge[k] = fetchedAge

\* A call fetches because the common layer was stale, or its credential new.
FetchHasReason ==
  \A c \in Calls : call[c] = "fetching" /\ ~wasStale => known # {} /\ KeyOf[c] \notin known

\* A model that was not warned about since it was in order is remembered so, unless
\* details without a usable cost came in between.
WarnedOnce ==
  \A m \in Models \ costless : notices[m] <= 1 /\ (m \notin warned => notices[m] = 0)

IInv ==
  /\ TypeOK
  /\ IsDuplicateFree(lockQueue)
  /\ LockIsHeld
  /\ OwnAvailability
  /\ SoleKeyHasOneAge
  /\ FetchHasReason
  /\ WarnedOnce

-----------------------------------------------------------------------------
(* The line for the lock.                                                   *)

LEMMA JoiningTheLine ==
  ASSUME NEW S, NEW s \in Seq(S), NEW c \in S
  PROVE  /\ Append(s, c) \in Seq(S)
         /\ Members(Append(s, c)) = Members(s) \cup {c}
         /\ s # <<>> => Head(Append(s, c)) = Head(s)
         /\ IsDuplicateFree(s) /\ c \notin Members(s) => IsDuplicateFree(Append(s, c))
<1>. DEFINE t == Append(s, c)
<1>1. /\ t \in Seq(S) /\ Len(s) \in Nat /\ Len(t) = Len(s) + 1
      /\ \A i \in 1 .. Len(s) : t[i] = s[i]
      /\ t[Len(s) + 1] = c
      /\ s # <<>> => Head(t) = Head(s)
  OBVIOUS
<1>. HIDE DEF t
<1>2. Members(t) = Members(s) \cup {c}
  BY <1>1 DEF Members
<1>3. IsDuplicateFree(s) /\ c \notin Members(s) => IsDuplicateFree(t)
  BY <1>1 DEF IsDuplicateFree, Members
<1>. QED
  BY <1>1, <1>2, <1>3 DEF t

LEMMA LeavingFirst ==
  ASSUME NEW S, NEW s \in Seq(S), s # <<>>
  PROVE  /\ Tail(s) \in Seq(S) /\ Head(s) \in S
         /\ <<Head(s)>> \o Tail(s) = s
         /\ IsDuplicateFree(s) =>
              IsDuplicateFree(Tail(s)) /\ Members(Tail(s)) = Members(s) \ {Head(s)}
<1>. DEFINE t == Tail(s)
<1>1. /\ t \in Seq(S) /\ Len(s) \in Nat /\ Len(s) > 0 /\ Len(t) = Len(s) - 1
      /\ \A i \in 1 .. Len(t) : t[i] = s[i + 1]
      /\ s[1] = Head(s) /\ Head(s) \in S
      /\ <<Head(s)>> \o t = s
  OBVIOUS
<1>. HIDE DEF t
<1>2. ASSUME IsDuplicateFree(s) PROVE IsDuplicateFree(t)
  BY <1>1, <1>2 DEF IsDuplicateFree
<1>3. ASSUME IsDuplicateFree(s) PROVE Members(t) = Members(s) \ {Head(s)}
  <2>1. ASSUME NEW i \in 1 .. Len(t) PROVE t[i] \in Members(s) \ {Head(s)}
    BY <1>1, <1>3 DEF IsDuplicateFree, Members
  <2>2. ASSUME NEW i \in 1 .. Len(s), s[i] # Head(s) PROVE s[i] \in Members(t)
    <3>1. i - 1 \in 1 .. Len(t) /\ t[i - 1] = s[i]
      BY <1>1, <2>2
    <3>. QED
      BY <3>1 DEF Members
  <2>. QED
    BY <2>1, <2>2 DEF Members
<1>. QED
  BY <1>1, <1>2, <1>3 DEF t

LEMMA LeavingInBetween ==
  ASSUME NEW S, NEW s \in Seq(S), NEW i \in 1 .. Len(s), IsDuplicateFree(s)
  PROVE  /\ RemoveAt(s, i) \in Seq(S)
         /\ Members(RemoveAt(s, i)) = Members(s) \ {s[i]}
         /\ i # 1 => Head(RemoveAt(s, i)) = Head(s)
         /\ IsDuplicateFree(RemoveAt(s, i))
<1>. DEFINE t == RemoveAt(s, i)
<1>. DEFINE front == SubSeq(s, 1, i - 1)
            back == SubSeq(s, i + 1, Len(s))
<1>1. /\ t \in Seq(S) /\ Len(s) \in Nat /\ Len(t) = Len(s) - 1
      /\ \A j \in 1 .. Len(t) : t[j] = IF j < i THEN s[j] ELSE s[j + 1]
  <2>1. /\ front \in Seq(S) /\ Len(front) = i - 1
        /\ \A j \in 1 .. i - 1 : front[j] = s[j]
    OBVIOUS
  <2>2. /\ back \in Seq(S) /\ Len(back) = Len(s) - i
        /\ \A j \in 1 .. Len(s) - i : back[j] = s[i + j]
    OBVIOUS
  <2>3. t = front \o back
    BY DEF RemoveAt
  <2>4. Len(s) \in Nat
    OBVIOUS
  <2>. HIDE DEF front, back, t
  <2>5. /\ t \in Seq(S) /\ Len(t) = Len(front) + Len(back)
        /\ \A j \in 1 .. Len(t) : t[j] = IF j <= Len(front) THEN front[j] ELSE back[j - Len(front)]
    <3>1. front \in Seq(S) /\ back \in Seq(S)
      BY <2>1, <2>2
    <3>2. /\ front \o back \in Seq(S)
          /\ Len(front \o back) = Len(front) + Len(back)
          /\ \A j \in 1 .. Len(front) + Len(back) : (front \o back)[j] =
                     IF j <= Len(front) THEN front[j] ELSE back[j - Len(front)]
      BY <3>1, ConcatProperties, Zenon
    <3>. QED
      BY <3>2, <2>3, Zenon
  <2>6. Len(t) = Len(s) - 1
    BY <2>1, <2>2, <2>4, <2>5
  <2>7. ASSUME NEW j \in 1 .. Len(t), j < i PROVE t[j] = s[j]
    BY <2>1, <2>4, <2>5, <2>6, <2>7
  <2>8. ASSUME NEW j \in 1 .. Len(t), ~(j < i) PROVE t[j] = s[j + 1]
    <3>1. t[j] = back[j - (i - 1)] /\ j - (i - 1) \in 1 .. Len(s) - i
      BY <2>1, <2>4, <2>5, <2>6, <2>8
    <3>2. i + (j - (i - 1)) = j + 1
      BY <2>4, <2>6
    <3>. QED
      BY <3>1, <3>2, <2>2
  <2>. QED
    BY <2>4, <2>5, <2>6, <2>7, <2>8
<1>. HIDE DEF t
<1>. DEFINE place(j) == IF j < i THEN j ELSE j + 1
<1>2. ASSUME NEW j \in 1 .. Len(t)
      PROVE  place(j) \in 1 .. Len(s) /\ place(j) # i /\ t[j] = s[place(j)]
  BY <1>1
<1>3. ASSUME NEW j \in 1 .. Len(t), NEW k \in 1 .. Len(t), t[j] = t[k] PROVE j = k
  <2>1. place(j) \in 1 .. Len(s) /\ place(k) \in 1 .. Len(s) /\ s[place(j)] = s[place(k)]
    BY <1>2, <1>3
  <2>2. place(j) = place(k)
    <3>. HIDE DEF place
    <3>. QED
      BY <2>1 DEF IsDuplicateFree
  <2>. QED
    BY <2>2, <1>1
<1>4. IsDuplicateFree(t)
  BY <1>3 DEF IsDuplicateFree
<1>5. Members(t) = Members(s) \ {s[i]}
  <2>1. ASSUME NEW j \in 1 .. Len(t) PROVE t[j] \in Members(s) \ {s[i]}
    <3>1. place(j) \in 1 .. Len(s) /\ place(j) # i /\ t[j] = s[place(j)]
      BY <1>2
    <3>. HIDE DEF place
    <3>. QED
      BY <3>1 DEF IsDuplicateFree, Members
  <2>2. ASSUME NEW j \in 1 .. Len(s), s[j] # s[i] PROVE s[j] \in Members(t)
    <3>1. CASE j < i
      <4>1. j \in 1 .. Len(t) /\ t[j] = s[j]
        BY <3>1, <1>1
      <4>. QED
        BY <4>1 DEF Members
    <3>2. CASE j > i
      <4>1. j - 1 \in 1 .. Len(t) /\ t[j - 1] = s[j]
        BY <3>2, <1>1
      <4>. QED
        BY <4>1 DEF Members
    <3>. QED
      BY <3>1, <3>2, <2>2, <1>1
  <2>. QED
    BY <2>1, <2>2 DEF Members
<1>6. i # 1 => Head(t) = Head(s)
  BY <1>1
<1>. QED
  BY <1>1, <1>4, <1>5, <1>6 DEF t

-----------------------------------------------------------------------------
(* Steps.                                                                   *)

LEMMA OlderIsAnAge ==
  ASSUME NEW age \in Ages
  PROVE  Older(age) \in Ages /\ (Stale(age) => Older(age) = age)
  BY TtlAssumption DEF Older, Ages, Stale

\* Only the first in line fetches.
LEMMA OneFetches ==
  ASSUME LockIsHeld, NEW c \in Calls, NEW d \in Calls, call[c] = "fetching", call[d] = "fetching"
  PROVE  c = d
  BY DEF LockIsHeld

\* A call that waits or fetches stands in line.
LEMMA StandsInLine ==
  ASSUME TypeOK, LockIsHeld, NEW c \in Calls
  PROVE  call[c] \in {"locking", "fetching"} <=> c \in Members(lockQueue)
  BY DEF TypeOK, LockIsHeld, Members

LEMMA LineIsNotEmpty ==
  ASSUME lockQueue \in Seq(Calls), NEW c \in Members(lockQueue)
  PROVE  lockQueue # <<>>
  BY DEF Members

\* What entering the lock does to everything but the line.
LEMMA EnteringKeepsReasons ==
  ASSUME IInv, NEW c \in Calls, NEW rest \in Seq(Calls), EntersLock(c, rest), UNCHANGED <<layers, notes>>,
         \A d \in Calls \ {c} : call[d] # "fetching"
  PROVE  FetchHasReason'
  BY KeysAssumption DEF EntersLock, IInv, TypeOK, Warm, FetchHasReason, SoleKeyHasOneAge, layers

\* A release leaves the line without its first.
LEMMA Releases ==
  ASSUME IInv, NEW c \in Calls, call[c] = "fetching", call' = [call EXCEPT ![c] = "idle"], LeavesLock
  PROVE  /\ call' \in [Calls -> {"idle", "locking", "fetching"}] /\ lockQueue' \in Seq(Calls)
         /\ fetchAge' \in Ages /\ wasStale' \in BOOLEAN
         /\ IsDuplicateFree(lockQueue') /\ LockIsHeld'
         /\ \A d \in Calls : call'[d] # "fetching"
<1>1. lockQueue \in Seq(Calls) /\ c \in Members(lockQueue) /\ Head(lockQueue) = c
  BY StandsInLine DEF IInv, TypeOK, LockIsHeld
<1>2. lockQueue # <<>>
  BY <1>1, LineIsNotEmpty
<1>3. /\ lockQueue' \in Seq(Calls) /\ IsDuplicateFree(lockQueue')
      /\ Members(lockQueue') = Members(lockQueue) \ {c}
  BY <1>1, <1>2, LeavingFirst DEF IInv, LeavesLock
<1>4. \A d \in Calls : call'[d] # "fetching"
  BY OneFetches DEF IInv, TypeOK
<1>5. \A d \in Calls : call'[d] \in {"locking", "fetching"} <=> d \in Members(lockQueue')
  BY <1>3, StandsInLine DEF IInv, TypeOK
<1>6. Members(lockQueue') \subseteq Calls
  BY <1>3 DEF Members
<1>7. LockIsHeld'
  BY <1>4, <1>5, <1>6 DEF LockIsHeld, Members
<1>8. call' \in [Calls -> {"idle", "locking", "fetching"}]
  BY DEF IInv, TypeOK
<1>9. fetchAge' \in Ages
  BY TtlAssumption DEF LeavesLock, Ages
<1>10. wasStale' \in BOOLEAN
  BY Zenon DEF LeavesLock
<1>. QED
  BY <1>3, <1>4, <1>7, <1>8, <1>9, <1>10

LEMMA Initially == Init => IInv
<1>. SUFFICES ASSUME Init PROVE IInv
  OBVIOUS
<1>1. TypeOK
  <2>1. NoInfo \in Infos
    BY DEF NoInfo, Infos
  <2>2. Ttl \in Ages
    BY TtlAssumption DEF Ages
  <2>3. call \in [Calls -> {"idle", "locking", "fetching"}] /\ lockQueue \in Seq(Calls)
    BY DEF Init
  <2>4. notices \in [Models -> 0 .. NoticeBound]
    BY DEF Init, NoticeBound
  <2>. QED
    BY <2>1, <2>2, <2>3, <2>4 DEF Init, TypeOK
<1>2. IsDuplicateFree(lockQueue) /\ LockIsHeld
  BY DEF Init, IsDuplicateFree, LockIsHeld
<1>. QED
  BY <1>1, <1>2 DEF Init, IInv, OwnAvailability, SoleKeyHasOneAge, Stale, FetchHasReason, WarnedOnce

LEMMA BeginningKeeps ==
  ASSUME IInv, NEW c \in Calls, Begins(c)
  PROVE  IInv'
<1>1. TypeOK /\ c \notin Members(lockQueue) /\ call[c] = "idle"
  BY StandsInLine DEF IInv, Begins
<1>2. CASE lockQueue # <<>>
  <2>1. /\ call' = [call EXCEPT ![c] = "locking"] /\ lockQueue' = Append(lockQueue, c)
        /\ UNCHANGED <<fetchAge, wasStale, layers, notes>>
    BY <1>2 DEF Begins
  <2>2. /\ lockQueue' \in Seq(Calls) /\ Members(lockQueue') = Members(lockQueue) \cup {c}
        /\ Head(lockQueue') = Head(lockQueue) /\ IsDuplicateFree(lockQueue')
    BY <1>1, <1>2, <2>1, JoiningTheLine DEF IInv, TypeOK
  <2>3. TypeOK'
    BY <2>1, <2>2 DEF IInv, TypeOK, layers, notes
  <2>4. LockIsHeld'
    <3>1. \A d \in Calls : call'[d] \in {"locking", "fetching"} <=> d \in Members(lockQueue')
      BY <1>1, <2>1, <2>2, StandsInLine DEF IInv, TypeOK
    <3>2. Members(lockQueue') \subseteq Calls
      BY <2>2 DEF Members
    <3>3. \A d \in Calls : call'[d] = "fetching" => Head(lockQueue') = d
      BY <1>1, <2>1, <2>2 DEF IInv, TypeOK, LockIsHeld
    <3>. QED
      BY <3>1, <3>2, <3>3 DEF LockIsHeld, Members
  <2>5. FetchHasReason'
    BY <2>1, <1>1 DEF IInv, FetchHasReason, layers, TypeOK
  <2>. QED
    BY <2>1, <2>2, <2>3, <2>4, <2>5
    DEF IInv, layers, notes, OwnAvailability, SoleKeyHasOneAge, WarnedOnce
<1>3. CASE lockQueue = <<>>
  <2>1. EntersLock(c, <<>>) /\ UNCHANGED <<layers, notes>>
    BY <1>3 DEF Begins
  <2>2. \A d \in Calls : call[d] = "idle"
    BY <1>1, <1>3, StandsInLine DEF IInv, TypeOK, Members
  <2>3. FetchHasReason'
    <3>1. <<>> \in Seq(Calls)
      OBVIOUS
    <3>2. \A d \in Calls \ {c} : call[d] # "fetching"
      BY <2>2
    <3>. QED
      BY <2>1, <3>1, <3>2, EnteringKeepsReasons, Zenon
  <2>4. /\ lockQueue' \in Seq(Calls) /\ IsDuplicateFree(lockQueue')
        /\ call' \in [Calls -> {"idle", "locking", "fetching"}]
        /\ fetchAge' \in Ages /\ wasStale' \in BOOLEAN /\ LockIsHeld'
    <3>1. CASE Warm(KeyOf[c])
      <4>1. /\ call' = [call EXCEPT ![c] = "idle"] /\ lockQueue' = <<>> /\ fetchAge' = fetchAge
            /\ wasStale' = wasStale
        BY <2>1, <3>1 DEF EntersLock
      <4>2. call' = call
        BY <4>1, <1>1 DEF TypeOK
      <4>3. LockIsHeld'
        BY <4>1, <4>2, <1>3 DEF IInv, LockIsHeld
      <4>4. wasStale' \in BOOLEAN
        BY <4>1, <1>1, Zenon DEF TypeOK
      <4>. QED
        BY <4>1, <4>2, <4>3, <4>4, <1>1 DEF TypeOK, IsDuplicateFree
    <3>2. CASE ~Warm(KeyOf[c])
      <4>1. /\ lockQueue' = <<c>> \o <<>> /\ call' = [call EXCEPT ![c] = "fetching"]
            /\ fetchAge' = 0 /\ wasStale' = Stale(fetchedAge)
        BY <2>1, <3>2 DEF EntersLock
      <4>2. lockQueue' \in Seq(Calls) /\ Len(lockQueue') = 1 /\ lockQueue'[1] = c /\ Head(lockQueue') = c
        BY <4>1
      <4>3. call' \in [Calls -> {"idle", "locking", "fetching"}]
        BY <4>1, <1>1 DEF TypeOK
      <4>4. IsDuplicateFree(lockQueue')
        BY <4>2 DEF IsDuplicateFree
      <4>5. LockIsHeld'
        <5>1. {lockQueue'[i] : i \in 1 .. Len(lockQueue')} = {c}
          BY <4>2
        <5>2. \A d \in Calls : call'[d] = IF d = c THEN "fetching" ELSE "idle"
          BY <4>1, <2>2, <1>1 DEF TypeOK
        <5>. QED
          BY <5>1, <5>2, <4>2 DEF LockIsHeld
      <4>6. fetchAge' \in Ages /\ wasStale' \in BOOLEAN
        BY <4>1, TtlAssumption DEF Ages, Stale
      <4>. QED
        BY <4>2, <4>3, <4>4, <4>5, <4>6
    <3>. QED
      BY <3>1, <3>2
  <2>5. TypeOK'
    BY <1>1, <2>1, <2>4 DEF TypeOK, layers, notes
  <2>. QED
    BY <2>1, <2>3, <2>4, <2>5
    DEF IInv, layers, notes, OwnAvailability, SoleKeyHasOneAge, WarnedOnce
<1>. QED
  BY <1>2, <1>3

LEMMA GrantingKeeps ==
  ASSUME IInv, NEW c \in Calls, LockGranted(c)
  PROVE  IInv'
<1>1. TypeOK /\ lockQueue \in Seq(Calls) /\ c \in Members(lockQueue) /\ call[c] = "locking" /\ Head(lockQueue) = c
  BY StandsInLine DEF IInv, TypeOK, LockGranted
<1>2. lockQueue # <<>>
  BY <1>1, LineIsNotEmpty
<1>3. /\ Tail(lockQueue) \in Seq(Calls) /\ <<c>> \o Tail(lockQueue) = lockQueue
      /\ IsDuplicateFree(Tail(lockQueue)) /\ Members(Tail(lockQueue)) = Members(lockQueue) \ {c}
  BY <1>1, <1>2, LeavingFirst DEF IInv
<1>4. \A d \in Calls : call[d] # "fetching"
  BY <1>1 DEF IInv, LockIsHeld
<1>5. EntersLock(c, Tail(lockQueue)) /\ UNCHANGED <<layers, notes>>
  BY DEF LockGranted
<1>6. FetchHasReason'
  BY <1>3, <1>4, <1>5, EnteringKeepsReasons
<1>7. /\ lockQueue' \in Seq(Calls) /\ IsDuplicateFree(lockQueue') /\ LockIsHeld'
      /\ call' \in [Calls -> {"idle", "locking", "fetching"}] /\ fetchAge' \in Ages /\ wasStale' \in BOOLEAN
  <2>1. CASE Warm(KeyOf[c])
    <3>1. /\ call' = [call EXCEPT ![c] = "idle"] /\ lockQueue' = Tail(lockQueue) /\ fetchAge' = fetchAge
          /\ wasStale' = wasStale
      BY <1>5, <2>1 DEF EntersLock
    <3>2. call' \in [Calls -> {"idle", "locking", "fetching"}]
      BY <3>1, <1>1 DEF TypeOK
    <3>3. \A d \in Calls : call'[d] \in {"locking", "fetching"} <=> d \in Members(lockQueue')
      BY <1>1, <1>3, <3>1, StandsInLine DEF IInv, TypeOK
    <3>4. \A d \in Calls : call'[d] # "fetching"
      BY <3>1, <1>1, <1>4 DEF TypeOK
    <3>5. Members(lockQueue') \subseteq Calls
      BY <1>3, <3>1 DEF Members
    <3>6. wasStale' \in BOOLEAN
      BY <3>1, <1>1, Zenon DEF TypeOK
    <3>7. LockIsHeld'
      BY <3>3, <3>4, <3>5 DEF LockIsHeld, Members
    <3>. QED
      BY <3>1, <3>2, <3>6, <3>7, <1>1, <1>3 DEF TypeOK
  <2>2. CASE ~Warm(KeyOf[c])
    <3>1. /\ call' = [call EXCEPT ![c] = "fetching"] /\ lockQueue' = lockQueue /\ fetchAge' = 0
      BY <1>3, <1>5, <2>2 DEF EntersLock
    <3>2. wasStale' \in BOOLEAN
      BY <1>5, <2>2, Zenon DEF EntersLock, Stale
    <3>3. call' \in [Calls -> {"idle", "locking", "fetching"}]
      BY <3>1, <1>1 DEF TypeOK
    <3>4. \A d \in Calls : call'[d] \in {"locking", "fetching"} <=> call[d] \in {"locking", "fetching"}
      BY <3>1, <1>1 DEF TypeOK
    <3>5. \A d \in Calls : call'[d] = "fetching" => Head(lockQueue') = d
      BY <3>1, <1>1, <1>4 DEF TypeOK
    <3>6. LockIsHeld'
      BY <3>1, <3>4, <3>5 DEF LockIsHeld, IInv
    <3>7. fetchAge' \in Ages
      BY <3>1, TtlAssumption DEF Ages
    <3>. QED
      BY <3>1, <3>2, <3>3, <3>6, <3>7, <1>1 DEF IInv
  <2>. QED
    BY <2>1, <2>2
<1>8. TypeOK'
  BY <1>1, <1>5, <1>7 DEF TypeOK, layers, notes
<1>. QED
  BY <1>5, <1>6, <1>7, <1>8
  DEF IInv, layers, notes, OwnAvailability, SoleKeyHasOneAge, WarnedOnce

LEMMA GivingUpKeeps ==
  ASSUME IInv, NEW c \in Calls, WaitAborts(c)
  PROVE  IInv'
<1>1. TypeOK /\ lockQueue \in Seq(Calls) /\ IsDuplicateFree(lockQueue) /\ call[c] = "locking"
  BY DEF IInv, TypeOK, WaitAborts
<1>2. PICK i \in 1 .. Len(lockQueue) : lockQueue[i] = c /\ lockQueue' = RemoveAt(lockQueue, i)
  BY <1>1 DEF WaitAborts
<1>3. /\ lockQueue' \in Seq(Calls) /\ Members(lockQueue') = Members(lockQueue) \ {c}
      /\ i # 1 => Head(lockQueue') = Head(lockQueue)
      /\ IsDuplicateFree(lockQueue')
  BY <1>1, <1>2, LeavingInBetween
<1>4. call' = [call EXCEPT ![c] = "idle"] /\ UNCHANGED <<layers, notes, fetchAge, wasStale>>
  BY DEF WaitAborts
<1>5. \A d \in Calls : call'[d] \in {"locking", "fetching"} <=> d \in Members(lockQueue')
  BY <1>1, <1>3, <1>4, StandsInLine DEF IInv, TypeOK
<1>6. \A d \in Calls : call'[d] = "fetching" => call[d] = "fetching"
  BY <1>1, <1>4 DEF TypeOK
<1>7. ASSUME NEW d \in Calls, call'[d] = "fetching" PROVE Head(lockQueue') = d
  <2>1. call[d] = "fetching" /\ Head(lockQueue) = d /\ d # c
    BY <1>1, <1>6, <1>7 DEF IInv, LockIsHeld
  <2>2. i # 1
    BY <1>1, <1>2, <2>1
  <2>. QED
    BY <1>3, <2>1, <2>2
<1>8. LockIsHeld'
  <2>1. Members(lockQueue') \subseteq Calls
    BY <1>3 DEF Members
  <2>. QED
    BY <2>1, <1>5, <1>7 DEF LockIsHeld, Members
<1>9. TypeOK'
  BY <1>1, <1>3, <1>4 DEF TypeOK, layers, notes
<1>10. FetchHasReason'
  BY <1>4, <1>6 DEF IInv, FetchHasReason, layers
<1>. QED
  BY <1>3, <1>4, <1>8, <1>9, <1>10
  DEF IInv, layers, notes, OwnAvailability, SoleKeyHasOneAge, WarnedOnce

LEMMA AbortingKeeps ==
  ASSUME IInv, NEW c \in Calls, FetchAborts(c)
  PROVE  IInv'
<1>1. /\ call' \in [Calls -> {"idle", "locking", "fetching"}] /\ lockQueue' \in Seq(Calls)
      /\ fetchAge' \in Ages /\ wasStale' \in BOOLEAN
      /\ IsDuplicateFree(lockQueue') /\ LockIsHeld'
      /\ \A d \in Calls : call'[d] # "fetching"
  BY Releases DEF FetchAborts
<1>2. UNCHANGED <<layers, notes>>
  BY DEF FetchAborts
<1>3. TypeOK'
  BY <1>1, <1>2 DEF IInv, TypeOK, layers, notes
<1>. QED
  BY <1>1, <1>2, <1>3
  DEF IInv, layers, notes, OwnAvailability, SoleKeyHasOneAge, WarnedOnce, FetchHasReason

\* What a response says is an entry's content.
LEMMA RefreshedIsInfo ==
  ASSUME TypeOK, NEW c \in Calls, NEW results \in [Models -> Results], NEW m \in Models
  PROVE  /\ Refreshed(m, results[m], KeyOf[c]) \in Infos
         /\ Refreshed(m, results[m], KeyOf[c]) = NoInfo => results[m].status = "gone" \/ entries[m] = NoInfo
<1>1. results[m] \in Results /\ KeyOf[c] \in Keys /\ KeyOf[c] # NoKey /\ entries[m] \in Infos
  BY KeysAssumption DEF TypeOK
<1>2. results[m].status \in {"ok", "gone", "failed"} /\ results[m].costed \in BOOLEAN /\ results[m].stated \in BOOLEAN
  BY <1>1 DEF Results
<1>3. NoInfo \in Infos
  BY DEF NoInfo, Infos
<1>4. InfoFrom(KeyOf[c], results[m]) \in Infos
  BY <1>1, <1>2 DEF InfoFrom, Infos
<1>5. InfoFrom(KeyOf[c], results[m]) # NoInfo
  BY <1>1 DEF InfoFrom, NoInfo
<1>. QED
  BY <1>1, <1>2, <1>3, <1>4, <1>5 DEF Refreshed

\* A warning is counted once, and one that is remembered not again.
LEMMA WarningCounts ==
  ASSUME TypeOK, NEW m \in Models
  PROVE  /\ NoticesAfterWarning(m) \in 0 .. NoticeBound
         /\ m \in warned => NoticesAfterWarning(m) = notices[m]
         /\ notices[m] = 0 => NoticesAfterWarning(m) <= 1
  BY DEF TypeOK, NoticesAfterWarning, NoticeBound

LEMMA FetchingKeeps ==
  ASSUME IInv, NEW c \in Calls, NEW results \in [Models -> Results], FetchEnds(c, results)
  PROVE  IInv'
<1>. DEFINE k == KeyOf[c]
<1>0. TypeOK /\ k \in Keys
  BY KeysAssumption DEF IInv
<1>1. /\ call' \in [Calls -> {"idle", "locking", "fetching"}] /\ lockQueue' \in Seq(Calls)
      /\ fetchAge' \in Ages /\ wasStale' \in BOOLEAN
      /\ IsDuplicateFree(lockQueue') /\ LockIsHeld'
      /\ \A d \in Calls : call'[d] # "fetching"
  BY Releases DEF FetchEnds
<1>2. FetchHasReason'
  BY <1>1 DEF FetchHasReason
<1>3. /\ known' = known \cup {k} /\ fetchedAge' = fetchAge
      /\ planAge' = [planAge EXCEPT ![k] = fetchAge]
      /\ availability' = [availability EXCEPT ![k] = [m \in Models |-> IF InfoFrom(k, results[m]).stated THEN k ELSE NoKey]]
  BY DEF FetchEnds, ApplyAvailability
<1>4. OwnAvailability'
  BY <1>0, <1>3 DEF IInv, OwnAvailability, TypeOK
<1>5. /\ known' \subseteq Keys /\ fetchedAge' \in Ages /\ planAge' \in [Keys -> Ages]
      /\ availability' \in [Keys -> [Models -> Keys \cup {NoKey}]]
  BY <1>0, <1>3 DEF TypeOK
<1>6. SoleKeyHasOneAge'
  <2>1. ASSUME NEW j \in Keys, known' = {j} PROVE wasStale /\ j = k
    BY <1>0, <1>3, <2>1 DEF IInv, FetchHasReason, FetchEnds
  <2>2. ASSUME NEW j \in Keys, known' = {j} PROVE commonAge' = fetchedAge' /\ planAge'[j] = fetchedAge'
    BY <1>0, <1>3, <2>1, <2>2 DEF FetchEnds, ApplyCommon, TypeOK
  <2>3. known' # {}
    BY <1>3
  <2>. QED
    BY <2>2, <2>3 DEF SoleKeyHasOneAge
<1>7. /\ entries' \in [Models -> Infos] /\ missing' \subseteq Models /\ warned' \subseteq Models
      /\ commonAge' \in Ages /\ notices' \in [Models -> 0 .. NoticeBound]
      /\ costless' \subseteq Models /\ WarnedOnce'
  <2>1. CASE ~wasStale
    BY <1>0, <2>1 DEF FetchEnds, notes, TypeOK, IInv, WarnedOnce
  <2>2. CASE wasStale
    <3>. DEFINE bad == {m \in Models : results[m].status # "ok"}
                good == {m \in Models : results[m].costed}
    <3>1. /\ entries' = [m \in Models |-> Refreshed(m, results[m], k)]
          /\ missing' = {m \in Models : results[m].status = "gone"}
          /\ warned' = bad /\ commonAge' = fetchAge
          /\ notices' = [m \in Models |->
                           CASE m \in bad -> NoticesAfterWarning(m)
                             [] m \in good -> 0
                             [] OTHER -> notices[m]]
          /\ costless' = (costless \cup (Models \ bad)) \ good
      BY <2>2 DEF FetchEnds, ApplyCommon
    <3>2. entries' \in [Models -> Infos]
      BY <1>0, <3>1, RefreshedIsInfo
    <3>3. /\ missing' \subseteq Models /\ warned' \subseteq Models /\ commonAge' \in Ages
          /\ costless' \subseteq Models
      BY <1>0, <3>1 DEF TypeOK
    <3>4. ASSUME NEW m \in Models
          PROVE  /\ m \in bad => m \notin good /\ notices'[m] = NoticesAfterWarning(m)
                 /\ m \notin bad => notices'[m] = IF m \in good THEN 0 ELSE notices[m]
      <4>1. m \notin bad \/ m \notin good
        <5>1. results[m] \in Results
          OBVIOUS
        <5>. QED
          BY <5>1 DEF Results
      <4>. HIDE DEF bad, good
      <4>. QED
        BY <3>1, <4>1
    <3>5. notices' \in [Models -> 0 .. NoticeBound]
      <4>1. \A m \in Models : notices[m] \in 0 .. NoticeBound /\ 0 \in 0 .. NoticeBound
        BY <1>0 DEF TypeOK, NoticeBound
      <4>2. \A m \in Models : notices'[m] \in 0 .. NoticeBound
        BY <1>0, <4>1, <3>4, WarningCounts
      <4>3. notices' = [m \in Models |-> notices'[m]]
        BY <3>1
      <4>. HIDE DEF bad
      <4>. QED
        BY <4>2, <4>3
    <3>6. WarnedOnce'
      <4>. SUFFICES ASSUME NEW m \in Models, m \notin costless'
                    PROVE  notices'[m] <= 1 /\ (m \notin warned' => notices'[m] = 0)
        BY DEF WarnedOnce
      <4>1. CASE m \in bad
        <5>1. m \notin costless
          BY <3>1, <3>4, <4>1
        <5>2. notices[m] <= 1 /\ (m \notin warned => notices[m] = 0) /\ notices[m] \in 0 .. NoticeBound
          BY <1>0, <5>1 DEF IInv, WarnedOnce, TypeOK
        <5>. QED
          BY <1>0, <3>1, <3>4, <4>1, <5>2, WarningCounts
      <4>2. CASE m \notin bad
        <5>1. m \in good
          BY <3>1, <4>2
        <5>. QED
          BY <3>4, <4>2, <5>1
      <4>. QED
        BY <4>1, <4>2
    <3>. QED
      BY <3>2, <3>3, <3>5, <3>6
  <2>. QED
    BY <2>1, <2>2
<1>8. TypeOK'
  BY <1>1, <1>5, <1>7 DEF TypeOK
<1>. QED
  BY <1>1, <1>2, <1>4, <1>6, <1>7, <1>8 DEF IInv

LEMMA LookingUpKeeps ==
  ASSUME IInv, NEW m \in Models, LooksUpCost(m)
  PROVE  IInv'
<1>1. /\ TypeOK /\ UNCHANGED <<layers, locking>> /\ warned' = warned \cup {m}
      /\ notices' = [notices EXCEPT ![m] = NoticesAfterWarning(m)]
      /\ costless' = costless
  BY DEF LooksUpCost, IInv
<1>2. notices' \in [Models -> 0 .. NoticeBound] /\ warned' \subseteq Models
  BY <1>1, WarningCounts DEF TypeOK
<1>3. TypeOK'
  BY <1>1, <1>2 DEF TypeOK, layers, locking
<1>4. WarnedOnce'
  <2>. SUFFICES ASSUME NEW n \in Models \ costless
                PROVE  notices'[n] <= 1 /\ (n \notin warned' => notices'[n] = 0)
    BY <1>1 DEF WarnedOnce
  <2>1. notices[n] <= 1 /\ (n \notin warned => notices[n] = 0) /\ notices[n] \in 0 .. NoticeBound
    BY <1>1 DEF IInv, WarnedOnce, TypeOK
  <2>. QED
    BY <1>1, <2>1, WarningCounts DEF TypeOK
<1>. QED
  BY <1>1, <1>3, <1>4
  DEF IInv, layers, locking, OwnAvailability, SoleKeyHasOneAge, LockIsHeld, IsDuplicateFree, FetchHasReason

LEMMA TickingKeeps ==
  ASSUME IInv, Tick
  PROVE  IInv'
<1>1. TypeOK
  BY DEF IInv
<1>2. /\ fetchedAge' \in Ages /\ fetchAge' \in Ages /\ commonAge' \in Ages /\ planAge' \in [Keys -> Ages]
      /\ Stale(fetchedAge) => fetchedAge' = fetchedAge
  BY <1>1, OlderIsAnAge DEF Tick, TypeOK
<1>3. UNCHANGED <<entries, missing, known, availability, notes, call, lockQueue, wasStale>>
  BY DEF Tick
<1>4. TypeOK'
  BY <1>1, <1>2, <1>3 DEF TypeOK, notes
<1>5. SoleKeyHasOneAge'
  BY <1>1, <1>2, <1>3 DEF Tick, IInv, SoleKeyHasOneAge, Stale, TypeOK
<1>6. OwnAvailability' /\ FetchHasReason'
  BY <1>3 DEF IInv, OwnAvailability, FetchHasReason
<1>7. LockIsHeld' /\ IsDuplicateFree(lockQueue')
  BY <1>3 DEF IInv, LockIsHeld, IsDuplicateFree
<1>8. WarnedOnce'
  BY <1>3 DEF IInv, notes, WarnedOnce
<1>. QED
  BY <1>4, <1>5, <1>6, <1>7, <1>8 DEF IInv

LEMMA Inductive == IInv /\ [Next]_vars => IInv'
<1>. SUFFICES ASSUME IInv, [Next]_vars PROVE IInv'
  OBVIOUS
<1>1. CASE UNCHANGED vars
  <2>1. UNCHANGED <<layers, notes, locking>>
    BY <1>1 DEF vars
  <2>2. TypeOK' /\ OwnAvailability' /\ SoleKeyHasOneAge' /\ WarnedOnce'
    BY <2>1 DEF IInv, TypeOK, OwnAvailability, SoleKeyHasOneAge, WarnedOnce, layers, notes, locking
  <2>3. LockIsHeld' /\ IsDuplicateFree(lockQueue')
    BY <2>1 DEF IInv, LockIsHeld, IsDuplicateFree, locking
  <2>4. FetchHasReason'
    BY <2>1 DEF IInv, FetchHasReason, layers, locking
  <2>. QED
    BY <2>2, <2>3, <2>4 DEF IInv
<1>. QED
  BY <1>1, BeginningKeeps, GrantingKeeps, FetchingKeeps, AbortingKeeps, GivingUpKeeps, LookingUpKeeps, TickingKeeps
  DEF Next

THEOREM Invariance == Spec => []IInv
  BY Initially, Inductive, PTL DEF Spec

-----------------------------------------------------------------------------
(* What follows.                                                            *)

\* Every variable keeps its type, the line for the lock and the ages among them
\* (the fields of ModelInfoCache).
THEOREM TypeCorrectness == Spec => []TypeOK
<1>1. IInv => TypeOK
  BY DEF IInv
<1>. QED
  BY <1>1, Invariance, PTL

\* A credential is shown the availability of a model from no response but its own
\* (_apply_availability, _with_availability).
THEOREM AvailabilityStaysWithItsCredential == Spec => []NoForeignAvailability
<1>1. IInv => NoForeignAvailability
  BY KeysAssumption DEF IInv, TypeOK, OwnAvailability, NoForeignAvailability, AvailabilityShown
<1>. QED
  BY <1>1, Invariance, PTL

\* As long as one credential uses the cache, what it is shown without a fetch was
\* filled by refreshes begun within the time to live, however long they last
\* (ensure_warm).
THEOREM SoleCredentialSeesFreshData == Spec => []SoleKeyIsFresh
<1>1. IInv => SoleKeyIsFresh
  <2>. SUFFICES ASSUME IInv, NEW k \in Keys, known = {k}, Warm(k)
                PROVE  commonAge < Ttl /\ planAge[k] < Ttl
    BY DEF SoleKeyIsFresh
  <2>1. fetchedAge \in 0 .. Ttl /\ fetchedAge # Ttl
    BY DEF IInv, TypeOK, Ages, Warm, Stale
  <2>2. commonAge = fetchedAge /\ planAge[k] = fetchedAge
    BY DEF IInv, SoleKeyHasOneAge
  <2>. QED
    BY <2>1, <2>2, TtlAssumption
<1>. QED
  BY <1>1, Invariance, PTL

\* A model is warned about once at most until it is in order again, unless details
\* without a usable cost came in between (_warn_degraded, _apply_common).
THEOREM EpisodesWarnOnce == Spec => []WarnsOnce
<1>1. IInv => WarnsOnce
  BY DEF IInv, WarnedOnce, WarnsOnce
<1>. QED
  BY <1>1, Invariance, PTL

\* The line for the lock holds the calls that wait or fetch, and the first of them
\* is the only one that may fetch (async with _warm_lock).
THEOREM LockIsNeverOrphaned == Spec => []LockIsHeld
<1>1. IInv => LockIsHeld
  BY DEF IInv
<1>. QED
  BY <1>1, Invariance, PTL

\* Only a 404 removes a model from the listing; a refresh that fails does not
\* (_apply_common).
THEOREM FailuresKeepEntries == Spec => KeptThroughFailure
<1>1. IInv /\ [Next]_vars => [\A m \in Models : Listed(m) /\ ~Listed(m)' => m \in missing']_vars
  <2>. SUFFICES ASSUME IInv, [Next]_vars, NEW m \in Models, Listed(m), ~Listed(m)'
                PROVE  m \in missing'
    OBVIOUS
  <2>1. entries' # entries
    BY DEF Listed
  <2>2. PICK c \in Calls, results \in [Models -> Results] : FetchEnds(c, results)
    BY <2>1 DEF Next, vars, layers, notes, locking, Begins, LockGranted, FetchAborts, WaitAborts, LooksUpCost, Tick
  <2>3. ApplyCommon(results, KeyOf[c])
    BY <2>1, <2>2 DEF FetchEnds
  <2>4. entries'[m] = Refreshed(m, results[m], KeyOf[c]) /\ missing' = {n \in Models : results[n].status = "gone"}
    BY <2>3 DEF ApplyCommon
  <2>. QED
    BY <2>4, RefreshedIsInfo DEF IInv, Listed
<1>. QED
  BY <1>1, Invariance, PTL DEF Spec, KeptThroughFailure

=============================================================================
