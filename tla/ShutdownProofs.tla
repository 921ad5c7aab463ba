--------------------------- MODULE ShutdownProofs ---------------------------
(***************************************************************************)
(* The safety of Shutdown for any number of servers, exchanges and signals.*)
(***************************************************************************)
EXTENDS Shutdown, TLAPS

\* What excuses a lost record of an exchange on server s.
Excuse(s) == Forced \/ HasFailed \/ server[s] = "abandoned"

\* Flags are only set by signals, and a forced exit by a second one.
FlagsFollowSignals ==
  \A s \in Servers :
    /\ shouldExit[s] => signals # <<>>
    /\ forceExit[s] => Forced

LogEndsWithLifespan == \A s \in Servers : lifespan[s] = "ended" <=> log[s] = "closed"

\* A lifespan begins with its server, and a server that serves has it open.
ServesWithinLifespan ==
  \A s \in Servers :
    /\ server[s] = "new" => lifespan[s] = "none"
    /\ process = "running" /\ server[s] \in {"binding", "serving", "draining", "abandoned"} => lifespan[s] = "open"

\* Where an exchange may still be open while the loop runs.
OpenWhileServing ==
  \A x \in Exchanges :
    process = "running" /\ exchange[x] = "open" =>
      \/ server[ServerOf[x]] \in {"serving", "draining", "abandoned"}
      \/ server[ServerOf[x]] = "ended" /\ forceExit[ServerOf[x]]

\* What is open when the tasks are cancelled has an excuse to lose its record.
OpenWhileUnwinding ==
  \A x \in Exchanges : process # "running" /\ exchange[x] = "open" => Excuse(ServerOf[x])

LifespansEnd == process = "exited" => \A s \in Servers : lifespan[s] \in {"none", "ended"}

IInv ==
  /\ TypeOK
  /\ FlagsFollowSignals
  /\ LogEndsWithLifespan
  /\ ServesWithinLifespan
  /\ OpenWhileServing
  /\ OpenWhileUnwinding
  /\ LifespansEnd
  /\ NoRecordLost

-----------------------------------------------------------------------------

\* A signal that comes takes no earlier one back, and a SIGINT that is not the
\* first signal forces.
LEMMA SignalsAccumulate ==
  ASSUME signals \in Seq(Signals), NEW sig \in Signals, signals' = Append(signals, sig)
  PROVE  /\ signals' \in Seq(Signals)
         /\ signals' # <<>>
         /\ Forced => Forced'
         /\ signals # <<>> /\ sig = "SIGINT" => Forced'
<1>1. signals' \in Seq(Signals) /\ signals' # <<>>
  OBVIOUS
<1>2. Len(signals') = Len(signals) + 1 /\ \A i \in 1 .. Len(signals) : signals'[i] = signals[i]
  OBVIOUS
<1>3. ASSUME Forced PROVE Forced'
  <2>1. PICK i \in DOMAIN signals : i > 1 /\ signals[i] = "SIGINT"
    BY <1>3 DEF Forced
  <2>2. i \in DOMAIN signals' /\ signals'[i] = "SIGINT"
    BY <2>1, <1>2, <1>1
  <2>. QED
    BY <2>1, <2>2 DEF Forced
<1>4. ASSUME signals # <<>>, sig = "SIGINT" PROVE Forced'
  <2>1. Len(signals) > 0
    BY <1>4
  <2>2. Len(signals) + 1 \in DOMAIN signals' /\ signals'[Len(signals) + 1] = sig
    BY <1>1, <1>2
  <2>. QED
    BY <2>1, <2>2, <1>4 DEF Forced
<1>. QED
  BY <1>1, <1>3, <1>4

\* A record that finds its log closed is that of a server that left exchanges behind.
LEMMA LossIsExcused ==
  ASSUME IInv, NEW x \in Exchanges, exchange[x] = "open", log[ServerOf[x]] # "open"
  PROVE  Excuse(ServerOf[x])
<1>. DEFINE s == ServerOf[x]
<1>1. s \in Servers /\ lifespan[s] = "ended"
  BY ServerOfAssumption DEF IInv, TypeOK, LogEndsWithLifespan
<1>2. CASE process # "running"
  BY <1>2 DEF IInv, OpenWhileUnwinding
<1>3. CASE process = "running"
  <2>1. forceExit[s]
    BY <1>1, <1>3 DEF IInv, OpenWhileServing, ServesWithinLifespan
  <2>. QED
    BY <1>1, <2>1 DEF IInv, FlagsFollowSignals, Excuse
<1>. QED
  BY <1>2, <1>3

\* In the beginning.
LEMMA Initially == Init => IInv
  BY ServerOfAssumption
  DEF Init, IInv, TypeOK, Signals, ServerStates, FlagsFollowSignals, LogEndsWithLifespan, ServesWithinLifespan,
      OpenWhileServing, OpenWhileUnwinding, LifespansEnd, NoRecordLost

\* Every step keeps the invariant.
LEMMA Inductive == IInv /\ [Next]_vars => IInv'
<1>. SUFFICES ASSUME IInv, [Next]_vars PROVE IInv'
  OBVIOUS
<1>. USE DEF IInv
<1>1. ASSUME NEW sig \in Signals, Signalled(sig) PROVE IInv'
  <2>1. TypeOK'
    BY <1>1 DEF Signalled, HandleSignal, TypeOK
  <2>2. FlagsFollowSignals'
    BY <1>1, SignalsAccumulate DEF Signalled, HandleSignal, FlagsFollowSignals, TypeOK
  <2>3. OpenWhileServing'
    BY <1>1, ServerOfAssumption DEF Signalled, HandleSignal, OpenWhileServing
  <2>4. OpenWhileUnwinding'
    BY <1>1 DEF Signalled, HandleSignal, OpenWhileUnwinding
  <2>5. NoRecordLost'
    BY <1>1, SignalsAccumulate DEF Signalled, HandleSignal, NoRecordLost, TypeOK, HasFailed
  <2>6. LogEndsWithLifespan' /\ ServesWithinLifespan' /\ LifespansEnd'
    BY <1>1 DEF Signalled, HandleSignal, LogEndsWithLifespan, ServesWithinLifespan, LifespansEnd
  <2>. QED
    BY <2>1, <2>2, <2>3, <2>4, <2>5, <2>6
<1>2. ASSUME NEW s \in Servers, Opens(s) PROVE IInv'
  <2>1. TypeOK'
    BY <1>2 DEF Opens, TypeOK, ServerStates
  <2>2. LogEndsWithLifespan'
    BY <1>2 DEF Opens, LogEndsWithLifespan, ServesWithinLifespan
  <2>3. ServesWithinLifespan'
    BY <1>2 DEF Opens, ServesWithinLifespan, TypeOK
  <2>4. OpenWhileServing'
    BY <1>2 DEF Opens, OpenWhileServing
  <2>5. OpenWhileUnwinding'
    BY <1>2 DEF Opens, OpenWhileUnwinding
  <2>6. LifespansEnd'
    BY <1>2 DEF Opens, LifespansEnd
  <2>7. NoRecordLost'
    BY <1>2 DEF Opens, NoRecordLost, HasFailed, Forced
  <2>8. FlagsFollowSignals'
    BY <1>2 DEF Opens, FlagsFollowSignals, Forced
  <2>. QED
    BY <2>1, <2>2, <2>3, <2>4, <2>5, <2>6, <2>7, <2>8
<1>3. ASSUME NEW s \in Servers, Binds(s) PROVE IInv'
  <2>1. TypeOK'
    BY <1>3 DEF Binds, TypeOK, ServerStates
  <2>2. ServesWithinLifespan'
    BY <1>3 DEF Binds, ServesWithinLifespan
  <2>3. OpenWhileServing'
    BY <1>3 DEF Binds, OpenWhileServing
  <2>4. OpenWhileUnwinding'
    BY <1>3 DEF Binds, OpenWhileUnwinding
  <2>5. NoRecordLost'
    BY <1>3 DEF Binds, NoRecordLost, HasFailed, Forced
  <2>6. FlagsFollowSignals' /\ LogEndsWithLifespan' /\ LifespansEnd'
    BY <1>3 DEF Binds, FlagsFollowSignals, LogEndsWithLifespan, LifespansEnd, Forced
  <2>. QED
    BY <2>1, <2>2, <2>3, <2>4, <2>5, <2>6
<1>4. ASSUME NEW s \in Servers, BindFails(s) PROVE IInv'
  <2>1. TypeOK'
    BY <1>4 DEF BindFails, TypeOK, LogEndsWithLifespan, LeavesLifespan, ServerStates
  <2>2. LogEndsWithLifespan'
    BY <1>4 DEF BindFails, LogEndsWithLifespan, TypeOK, ServesWithinLifespan, LeavesLifespan
  <2>3. ServesWithinLifespan'
    BY <1>4 DEF BindFails, ServesWithinLifespan, TypeOK, LeavesLifespan
  <2>4. OpenWhileServing'
    BY <1>4 DEF BindFails, OpenWhileServing
  <2>5. OpenWhileUnwinding'
    BY <1>4 DEF BindFails, OpenWhileUnwinding
  <2>6. LifespansEnd'
    BY <1>4 DEF BindFails, LifespansEnd
  <2>7. NoRecordLost'
    BY <1>4 DEF BindFails, NoRecordLost, HasFailed, Forced
  <2>8. FlagsFollowSignals'
    BY <1>4 DEF BindFails, FlagsFollowSignals, Forced
  <2>. QED
    BY <2>1, <2>2, <2>3, <2>4, <2>5, <2>6, <2>7, <2>8
<1>5. ASSUME NEW s \in Servers, Fails(s) PROVE IInv'
  <2>1. TypeOK'
    BY <1>5 DEF Fails, TypeOK, ServerStates
  <2>2. ServesWithinLifespan'
    BY <1>5 DEF Fails, ServesWithinLifespan
  <2>3. OpenWhileServing'
    BY <1>5 DEF Fails, OpenWhileServing
  <2>4. OpenWhileUnwinding'
    BY <1>5 DEF Fails, OpenWhileUnwinding, TypeOK, Excuse, HasFailed
  <2>5. LifespansEnd'
    BY <1>5 DEF Fails, LifespansEnd
  <2>6. NoRecordLost'
    BY <1>5 DEF Fails, NoRecordLost, HasFailed, Forced
  <2>7. FlagsFollowSignals' /\ LogEndsWithLifespan'
    BY <1>5 DEF Fails, FlagsFollowSignals, LogEndsWithLifespan, Forced
  <2>. QED
    BY <2>1, <2>2, <2>3, <2>4, <2>5, <2>6, <2>7
<1>6. ASSUME NEW s \in Servers, Drains(s) PROVE IInv'
  <2>1. TypeOK'
    BY <1>6 DEF Drains, TypeOK, ServerStates
  <2>2. ServesWithinLifespan'
    BY <1>6 DEF Drains, ServesWithinLifespan
  <2>3. OpenWhileServing'
    BY <1>6 DEF Drains, OpenWhileServing
  <2>4. OpenWhileUnwinding'
    BY <1>6 DEF Drains, OpenWhileUnwinding
  <2>5. NoRecordLost'
    BY <1>6 DEF Drains, NoRecordLost, HasFailed, Forced
  <2>6. FlagsFollowSignals' /\ LogEndsWithLifespan' /\ LifespansEnd'
    BY <1>6 DEF Drains, FlagsFollowSignals, LogEndsWithLifespan, LifespansEnd, Forced
  <2>. QED
    BY <2>1, <2>2, <2>3, <2>4, <2>5, <2>6
<1>7. ASSUME NEW s \in Servers, Leaves(s) PROVE IInv'
  <2>1. TypeOK'
    BY <1>7 DEF Leaves, TypeOK, LeavesLifespan, ServerStates
  <2>2. LogEndsWithLifespan'
    BY <1>7 DEF Leaves, LogEndsWithLifespan, TypeOK, ServesWithinLifespan, LeavesLifespan
  <2>3. ServesWithinLifespan'
    BY <1>7 DEF Leaves, ServesWithinLifespan, TypeOK, LeavesLifespan
  <2>4. OpenWhileServing'
    BY <1>7 DEF Leaves, OpenWhileServing, OpenOn
  <2>5. OpenWhileUnwinding'
    BY <1>7 DEF Leaves, OpenWhileUnwinding
  <2>6. LifespansEnd'
    BY <1>7 DEF Leaves, LifespansEnd
  <2>7. NoRecordLost'
    BY <1>7 DEF Leaves, NoRecordLost, HasFailed, Forced
  <2>8. FlagsFollowSignals'
    BY <1>7 DEF Leaves, FlagsFollowSignals, Forced
  <2>. QED
    BY <2>1, <2>2, <2>3, <2>4, <2>5, <2>6, <2>7, <2>8
<1>8. ASSUME NEW s \in Servers, Ends(s) PROVE IInv'
  <2>1. TypeOK'
    BY <1>8 DEF Ends, TypeOK, ServerStates
  <2>2. ServesWithinLifespan'
    BY <1>8 DEF Ends, ServesWithinLifespan
  <2>3. OpenWhileServing'
    BY <1>8 DEF Ends, OpenWhileServing
  <2>4. OpenWhileUnwinding'
    BY <1>8 DEF Ends, OpenWhileUnwinding
  <2>5. NoRecordLost'
    BY <1>8 DEF Ends, NoRecordLost, HasFailed, Forced
  <2>6. FlagsFollowSignals' /\ LogEndsWithLifespan' /\ LifespansEnd'
    BY <1>8 DEF Ends, FlagsFollowSignals, LogEndsWithLifespan, LifespansEnd, Forced
  <2>. QED
    BY <2>1, <2>2, <2>3, <2>4, <2>5, <2>6
<1>9. ASSUME NEW s \in Servers, EndsLifespan(s) PROVE IInv'
  <2>1. TypeOK'
    BY <1>9 DEF EndsLifespan, TypeOK
  <2>2. LogEndsWithLifespan'
    BY <1>9 DEF EndsLifespan, LogEndsWithLifespan, TypeOK
  <2>3. ServesWithinLifespan'
    BY <1>9 DEF EndsLifespan, ServesWithinLifespan
  <2>4. LifespansEnd'
    BY <1>9 DEF EndsLifespan, LifespansEnd
  <2>5. FlagsFollowSignals' /\ OpenWhileServing' /\ OpenWhileUnwinding' /\ NoRecordLost'
    BY <1>9
    DEF EndsLifespan, FlagsFollowSignals, OpenWhileServing, OpenWhileUnwinding, NoRecordLost, Excuse, HasFailed,
        Forced
  <2>. QED
    BY <2>1, <2>2, <2>3, <2>4, <2>5
<1>10. ASSUME NEW s \in Servers, UnwindsLifespan(s) PROVE IInv'
  <2>1. TypeOK'
    BY <1>10 DEF UnwindsLifespan, TypeOK, LeavesLifespan
  <2>2. LogEndsWithLifespan'
    BY <1>10 DEF UnwindsLifespan, LogEndsWithLifespan, TypeOK, LeavesLifespan
  <2>3. ServesWithinLifespan'
    BY <1>10 DEF UnwindsLifespan, ServesWithinLifespan, TypeOK, LeavesLifespan
  <2>4. LifespansEnd'
    BY <1>10 DEF UnwindsLifespan, LifespansEnd
  <2>5. FlagsFollowSignals' /\ OpenWhileServing' /\ OpenWhileUnwinding' /\ NoRecordLost'
    BY <1>10
    DEF UnwindsLifespan, FlagsFollowSignals, OpenWhileServing, OpenWhileUnwinding, NoRecordLost, Excuse, HasFailed,
        Forced
  <2>. QED
    BY <2>1, <2>2, <2>3, <2>4, <2>5
<1>11. ASSUME NEW x \in Exchanges, Begins(x) PROVE IInv'
  <2>1. TypeOK'
    BY <1>11 DEF Begins, TypeOK
  <2>2. OpenWhileServing'
    BY <1>11 DEF Begins, OpenWhileServing
  <2>3. OpenWhileUnwinding'
    BY <1>11 DEF Begins, OpenWhileUnwinding
  <2>4. NoRecordLost'
    BY <1>11 DEF Begins, NoRecordLost, HasFailed, Forced
  <2>5. FlagsFollowSignals' /\ LogEndsWithLifespan' /\ ServesWithinLifespan' /\ LifespansEnd'
    BY <1>11 DEF Begins, FlagsFollowSignals, LogEndsWithLifespan, ServesWithinLifespan, LifespansEnd, Forced
  <2>. QED
    BY <2>1, <2>2, <2>3, <2>4, <2>5
<1>12. ASSUME NEW x \in Exchanges, Finishes(x) PROVE IInv'
  <2>1. TypeOK'
    BY <1>12 DEF Finishes, TypeOK
  <2>2. OpenWhileServing'
    BY <1>12 DEF Finishes, OpenWhileServing
  <2>3. OpenWhileUnwinding'
    BY <1>12 DEF Finishes, OpenWhileUnwinding, Excuse, HasFailed, Forced
  <2>4. NoRecordLost'
    BY <1>12, LossIsExcused DEF Finishes, NoRecordLost, Excuse, HasFailed, Forced
  <2>5. FlagsFollowSignals' /\ LogEndsWithLifespan' /\ ServesWithinLifespan' /\ LifespansEnd'
    BY <1>12 DEF Finishes, FlagsFollowSignals, LogEndsWithLifespan, ServesWithinLifespan, LifespansEnd, Forced
  <2>. QED
    BY <2>1, <2>2, <2>3, <2>4, <2>5
<1>13. ASSUME Returns PROVE IInv'
  <2>1. TypeOK'
    BY <1>13 DEF Returns, TypeOK
  <2>2. ServesWithinLifespan'
    BY <1>13 DEF Returns, ServesWithinLifespan
  <2>3. OpenWhileServing'
    BY <1>13 DEF Returns, OpenWhileServing
  <2>4. OpenWhileUnwinding'
    BY <1>13, ServerOfAssumption DEF Returns, OpenWhileUnwinding, FlagsFollowSignals, OpenWhileServing, Excuse, Forced
  <2>5. LifespansEnd'
    BY <1>13 DEF Returns, LifespansEnd
  <2>6. FlagsFollowSignals' /\ LogEndsWithLifespan' /\ NoRecordLost'
    BY <1>13 DEF Returns, FlagsFollowSignals, LogEndsWithLifespan, NoRecordLost, HasFailed, Forced
  <2>. QED
    BY <2>1, <2>2, <2>3, <2>4, <2>5, <2>6
<1>14. ASSUME Exits PROVE IInv'
  <2>1. TypeOK'
    BY <1>14 DEF Exits, TypeOK
  <2>2. ServesWithinLifespan'
    BY <1>14 DEF Exits, ServesWithinLifespan
  <2>3. OpenWhileServing'
    BY <1>14 DEF Exits, OpenWhileServing
  <2>4. OpenWhileUnwinding'
    BY <1>14 DEF Exits, OpenWhileUnwinding, Excuse, HasFailed, Forced
  <2>5. LifespansEnd'
    BY <1>14 DEF Exits, LifespansEnd
  <2>6. FlagsFollowSignals' /\ LogEndsWithLifespan' /\ NoRecordLost'
    BY <1>14 DEF Exits, FlagsFollowSignals, LogEndsWithLifespan, NoRecordLost, HasFailed, Forced
  <2>. QED
    BY <2>1, <2>2, <2>3, <2>4, <2>5, <2>6
<1>15. CASE UNCHANGED vars
  BY <1>15 DEF vars, TypeOK, FlagsFollowSignals, LogEndsWithLifespan, ServesWithinLifespan, OpenWhileServing, OpenWhileUnwinding, LifespansEnd, NoRecordLost,
     Excuse, HasFailed, Forced
<1>. QED
  BY <1>1, <1>2, <1>3, <1>4, <1>5, <1>6, <1>7, <1>8, <1>9, <1>10, <1>11, <1>12, <1>13, <1>14, <1>15 DEF Next, ServerStep

-----------------------------------------------------------------------------

\* The invariant holds in every reachable state.
THEOREM Invariance == Spec => []IInv
<1>1. Init => IInv
  BY Initially
<1>2. IInv /\ [Next]_vars => IInv'
  BY Inductive
<1>. QED
  BY <1>1, <1>2, PTL DEF Spec

\* Every variable keeps its type.
THEOREM TypeCorrectness == Spec => []TypeOK
<1>1. IInv => TypeOK
  BY DEF IInv
<1>. QED
  BY <1>1, Invariance, PTL

\* Final records are lost only after an escalation, in a start that fails, or on
\* a server that was asked to exit before it had started (main.py,
\* LoggingRuntime.emit).
THEOREM RecordsSurvive == Spec => []NoRecordLost
<1>1. IInv => NoRecordLost
  BY DEF IInv
<1>. QED
  BY <1>1, Invariance, PTL

\* However a lifespan ends it has closed its log, and all have ended when the
\* process exits (the lifespan of create_app, GateRegistry.close).
THEOREM LogsClose == Spec => []LogsAreClosed
<1>1. IInv => LogsAreClosed
  BY DEF IInv, TypeOK, LogEndsWithLifespan, LifespansEnd, LogsAreClosed
<1>. QED
  BY <1>1, Invariance, PTL

=============================================================================
