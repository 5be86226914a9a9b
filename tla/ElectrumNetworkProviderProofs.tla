-------------------- MODULE ElectrumNetworkProviderProofs --------------------
(***************************************************************************)
(* Proofs about ElectrumNetworkProvider for any number of callers and any  *)
(* value of the configuration: type correctness, the accounting of slots   *)
(* with what follows from it about the connection, the rate window, and    *)
(* the circuit breaker.                                                    *)
(***************************************************************************)
EXTENDS ElectrumNetworkProvider, FiniteSetTheorems, SequenceTheorems, TLAPS

\* A call that sleeps between attempts has another attempt left.
BackoffHasNext == \A r \in Requests : pc[r] = "backoff" => attempt[r] < MAX_RETRIES - 1

\* The decrement in the finally block needs the accounting of slots to stay in
\* Nat, and Resend needs BackoffHasNext, so type correctness is proved with them.
IInv ==
    /\ TypeOK
    /\ BackoffHasNext
    /\ SlotAccounting
    /\ NoOrphanConnection

-----------------------------------------------------------------------------
(* Slots.                                                                  *)

\* The callers inside performRequest are finitely many.
LEMMA HoldersFinite == IsFiniteSet(Holders) /\ Cardinality(Holders) \in Nat
  BY FS_Subset, FS_CardinalityType, ConfigAssumption DEF Holders

\* A call inside performRequest holds a slot: no decrement goes below zero.
LEMMA HolderHasSlot ==
  ASSUME TypeOK, SlotAccounting, NEW r \in Requests, pc[r] # "idle"
  PROVE  concurrentRequests \in Nat \ {0}
  <1>1. Holders # {}
    BY DEF Holders
  <1>2. Cardinality(Holders) # 0
    BY <1>1, HoldersFinite, FS_EmptySet
  <1> QED
    BY <1>2, HoldersFinite DEF TypeOK, SlotAccounting

\* A call that enters adds one holder.
LEMMA HoldersEnter ==
  ASSUME TypeOK, NEW r \in Requests, NEW s \in PcStates \ {"idle"},
         pc[r] = "idle", pc' = [pc EXCEPT ![r] = s]
  PROVE  Cardinality(Holders') = Cardinality(Holders) + 1
  <1>1. Holders' = Holders \cup {r}
    BY DEF Holders, TypeOK, PcStates
  <1>2. r \notin Holders
    BY DEF Holders
  <1> QED
    BY <1>1, <1>2, HoldersFinite, FS_AddElement

\* A call that leaves removes one.
LEMMA HoldersLeave ==
  ASSUME TypeOK, NEW r \in Requests, pc[r] # "idle", pc' = [pc EXCEPT ![r] = "idle"]
  PROVE  Cardinality(Holders') = Cardinality(Holders) - 1
  <1>1. Holders' = Holders \ {r}
    BY DEF Holders, TypeOK
  <1>2. r \in Holders
    BY DEF Holders
  <1> QED
    BY <1>1, <1>2, HoldersFinite, FS_RemoveElement

\* A call that only changes the await it is in stays a holder.
LEMMA HoldersStay ==
  ASSUME TypeOK, NEW r \in Requests, NEW s \in PcStates \ {"idle"},
         pc[r] # "idle", pc' = [pc EXCEPT ![r] = s]
  PROVE  Holders' = Holders
  BY DEF Holders, TypeOK, PcStates

\* The finally block keeps the accounting, whichever branch it takes.
LEMMA FinallySlots ==
  ASSUME TypeOK, SlotAccounting, NEW r \in Requests, pc[r] # "idle",
         NEW result, Finally(r, result), leaked' = leaked
  PROVE  SlotAccounting'
  <1>1. concurrentRequests \in Nat \ {0}
    BY HolderHasSlot
  <1>2. CASE pc' = [pc EXCEPT ![r] = "stopping"] /\ UNCHANGED concurrentRequests
    <2>1. Holders' = Holders
      BY <1>2, HoldersStay DEF PcStates
    <2> QED
      BY <1>2, <2>1 DEF SlotAccounting
  <1>3. CASE /\ pc' = [pc EXCEPT ![r] = "idle"]
             /\ concurrentRequests' = concurrentRequests - 1
    <2>1. Cardinality(Holders') = Cardinality(Holders) - 1
      BY <1>3, HoldersLeave
    <2> QED
      BY <1>1, <1>3, <2>1, HoldersFinite, ConfigAssumption DEF SlotAccounting, TypeOK
  <1> QED
    BY <1>2, <1>3 DEF Finally

\* The finally block leaves the cluster up only if another slot stays taken.
LEMMA FinallyOrphan ==
  ASSUME TypeOK, SlotAccounting, NoOrphanConnection, NEW r \in Requests,
         pc[r] # "idle", NEW result, Finally(r, result), SameManagement
  PROVE  NoOrphanConnection'
  BY HolderHasSlot DEF Finally, SameManagement, NoOrphanConnection, ShouldDisconnect

-----------------------------------------------------------------------------
(* Types of what the operators called by the actions leave behind.         *)

\* Appending the current time and recording its position keeps the window a set
\* of positions of stamps.
LEMMA EnforceRateLimitType ==
  ASSUME TypeOK, EnforceRateLimit
  PROVE  stamps' \in Seq(Nat) /\ requestTimestamps' \subseteq DOMAIN stamps'
  <1>1. stamps \in Seq(Nat) /\ now \in Nat /\ stamps' = Append(stamps, now)
    BY DEF TypeOK, EnforceRateLimit
  <1>2. stamps' \in Seq(Nat) /\ Len(stamps') = Len(stamps) + 1 /\ Len(stamps) \in Nat
    BY <1>1, AppendProperties, LenProperties
  <1>3. DOMAIN stamps = 1 .. Len(stamps) /\ DOMAIN stamps' = 1 .. (Len(stamps) + 1)
    BY <1>1, <1>2, LenProperties
  <1>4. InWindow \subseteq 1 .. Len(stamps)
    BY <1>3 DEF InWindow, TypeOK
  <1>5. requestTimestamps' = InWindow \cup {Len(stamps) + 1}
    BY DEF EnforceRateLimit
  <1>6. 1 .. Len(stamps) \subseteq 1 .. (Len(stamps) + 1)
    BY <1>2
  <1>7. Len(stamps) + 1 \in 1 .. (Len(stamps) + 1)
    BY <1>2
  <1>8. requestTimestamps' \subseteq 1 .. (Len(stamps) + 1)
    BY <1>4, <1>5, <1>6, <1>7
  <1> QED
    BY <1>2, <1>3, <1>8

\* checkCircuitBreaker leaves numbers behind.
LEMMA CheckCircuitBreakerType ==
  ASSUME TypeOK, CheckCircuitBreaker
  PROVE  circuitBreakerFailures' \in Nat /\ circuitBreakerLastFailure' \in Nat
  BY DEF TypeOK, CheckCircuitBreaker, FailuresAfterCooldown

\* So does the finally block, and it puts no call to sleep.
LEMMA FinallyType ==
  ASSUME TypeOK, SlotAccounting, NEW r \in Requests, pc[r] # "idle",
         NEW result \in {"value", "error"}, Finally(r, result)
  PROVE  /\ outcome' \in [Requests -> {"none", "value", "error"}]
         /\ pc' \in [Requests -> PcStates]
         /\ \A s \in Requests : pc'[s] = "backoff" => pc[s] = "backoff"
         /\ concurrentRequests' \in Nat
         /\ cluster' \in {"off", "starting", "on", "stopping"}
  <1>1. concurrentRequests \in Nat \ {0}
    BY HolderHasSlot
  <1>2. outcome' \in [Requests -> {"none", "value", "error"}]
    BY DEF TypeOK, Finally
  <1>3. concurrentRequests' \in Nat /\ cluster' \in {"off", "starting", "on", "stopping"}
    BY <1>1 DEF TypeOK, Finally
  <1>4. \E s \in {"stopping", "idle"} : pc' = [pc EXCEPT ![r] = s]
    BY DEF Finally
  <1>5. /\ pc' \in [Requests -> PcStates]
        /\ \A s \in Requests : pc'[s] = "backoff" => pc[s] = "backoff"
    BY <1>4 DEF TypeOK, PcStates
  <1> QED
    BY <1>2, <1>3, <1>5

-----------------------------------------------------------------------------
(* The inductive invariant, one lemma per group of actions.                *)

\* A new provider has counted no failures, holds no slots and has no connection.
LEMMA InitIInv == Init => IInv
  <1> SUFFICES ASSUME Init PROVE IInv
    OBVIOUS
  <1>1. <<>> \in Seq(Nat)
    BY EmptySeq
  <1>2. TypeOK /\ BackoffHasNext
    BY <1>1, ConfigAssumption DEF Init, StartOfTime, TypeOK, BackoffHasNext, PcStates
  <1>3. Holders = {}
    BY DEF Init, Holders
  <1>4. SlotAccounting
    BY <1>3, FS_EmptySet, ConfigAssumption DEF Init, SlotAccounting
  <1>5. NoOrphanConnection
    BY DEF Init, NoOrphanConnection
  <1> QED
    BY <1>2, <1>4, <1>5 DEF IInv

\* A refused call changes at most the window, the failure count and its outcome.
LEMMA RefuseIInv ==
  ASSUME IInv, SameManagement, NEW r \in Requests,
         RefusedByBreaker(r) \/ RefusedByRateLimit(r) \/ RefusedByConcurrency(r)
  PROVE  IInv'
  <1>1. Refuse(r)
    BY DEF RefusedByBreaker, RefusedByRateLimit, RefusedByConcurrency
  <1>2. stamps' \in Seq(Nat) /\ requestTimestamps' \subseteq DOMAIN stamps'
    <2>1. CASE RefusedByBreaker(r)
      BY <2>1 DEF IInv, TypeOK, RefusedByBreaker, limits
    <2>2. CASE RefusedByRateLimit(r)
      BY <2>2 DEF IInv, TypeOK, RefusedByRateLimit, InWindow
    <2>3. CASE RefusedByConcurrency(r)
      BY <2>3, EnforceRateLimitType DEF IInv, RefusedByConcurrency
    <2> QED
      BY <2>1, <2>2, <2>3
  <1>3. circuitBreakerFailures' \in Nat /\ circuitBreakerLastFailure' \in Nat
    <2>1. CASE RefusedByBreaker(r)
      BY <2>1 DEF IInv, TypeOK, RefusedByBreaker, breaker
    <2>2. CASE CheckCircuitBreaker
      BY <2>2, CheckCircuitBreakerType DEF IInv
    <2> QED
      BY <2>1, <2>2 DEF RefusedByRateLimit, RefusedByConcurrency
  <1>4. TypeOK' /\ BackoffHasNext'
    BY <1>1, <1>2, <1>3 DEF IInv, SameManagement, TypeOK, BackoffHasNext, Refuse,
                            slots, network
  <1>5. SlotAccounting' /\ NoOrphanConnection'
    BY <1>1 DEF IInv, SameManagement, SlotAccounting, NoOrphanConnection,
                Holders, Refuse, slots, network
  <1> QED
    BY <1>4, <1>5 DEF IInv

\* Entering performRequest takes a slot and starts the cluster if it is off.
LEMMA EnterIInv ==
  ASSUME IInv, SameManagement, NEW r \in Requests, Enter(r)
  PROVE  IInv'
  <1>1. stamps' \in Seq(Nat) /\ requestTimestamps' \subseteq DOMAIN stamps'
    BY EnforceRateLimitType DEF IInv, Enter
  <1>2. circuitBreakerFailures' \in Nat /\ circuitBreakerLastFailure' \in Nat
    BY CheckCircuitBreakerType DEF IInv, Enter
  <1>3. TypeOK' /\ BackoffHasNext'
    BY <1>1, <1>2, ConfigAssumption
    DEF IInv, SameManagement, TypeOK, BackoffHasNext, Enter, Startup, PcStates
  <1>4. Cardinality(Holders') = Cardinality(Holders) + 1
    BY HoldersEnter DEF IInv, Enter, PcStates
  <1>5. SlotAccounting'
    BY <1>4, HoldersFinite, ConfigAssumption DEF IInv, TypeOK, SlotAccounting, Enter
  <1>6. NoOrphanConnection'
    BY DEF IInv, SameManagement, TypeOK, NoOrphanConnection, Enter
  <1> QED
    BY <1>3, <1>5, <1>6 DEF IInv

\* Steps that keep the call inside performRequest and its slot.
LEMMA StayIInv ==
  ASSUME IInv, SameManagement, NEW r \in Requests,
         Ready(r) \/ FailAndRetry(r) \/ Resend(r)
  PROVE  IInv'
  <1>1. \E s \in PcStates \ {"idle"} : pc[r] # "idle" /\ pc' = [pc EXCEPT ![r] = s]
    BY DEF Ready, FailAndRetry, Resend, PcStates
  <1>2. Holders' = Holders
    BY <1>1, HoldersStay DEF IInv
  <1>3. SlotAccounting' /\ NoOrphanConnection'
    BY <1>2 DEF IInv, SameManagement, SlotAccounting, NoOrphanConnection, Ready,
                FailAndRetry, Resend,
                slots, network
  <1>4. TypeOK' /\ BackoffHasNext'
    <2>1. CASE Ready(r)
      BY <2>1 DEF IInv, SameManagement, TypeOK, BackoffHasNext,
                  Ready, PcStates,
                  slots, limits, breaker, network
    <2>2. CASE FailAndRetry(r)
      BY <2>2 DEF IInv, SameManagement, TypeOK, BackoffHasNext,
                  FailAndRetry,
                  RecordFailure, PcStates, slots, limits, network
    <2>3. CASE Resend(r)
      BY <2>3, ConfigAssumption
      DEF IInv, SameManagement, TypeOK, BackoffHasNext, Resend,
          PcStates,
          slots, limits, breaker, network
    <2> QED
      BY <2>1, <2>2, <2>3
  <1> QED
    BY <1>3, <1>4 DEF IInv

\* Steps that reach the finally block.
LEMMA FinishIInv ==
  ASSUME IInv, SameManagement, NEW r \in Requests,
         Answer(r) \/ FailLastAttempt(r) \/ FailForGood(r)
  PROVE  IInv'
  <1>1. PICK result \in {"value", "error"} : Finally(r, result)
    BY DEF Answer, FailLastAttempt, FailForGood
  <1>2. /\ pc[r] # "idle"
        /\ UNCHANGED <<attempt, executed, leaked, limits, now>>
        /\ RecordSuccess \/ RecordFailure
    BY DEF Answer, FailLastAttempt, FailForGood
  <1>3. SlotAccounting'
    BY <1>1, <1>2, FinallySlots DEF IInv
  <1>4. NoOrphanConnection'
    BY <1>1, <1>2, FinallyOrphan DEF IInv
  <1>5. circuitBreakerFailures' \in Nat /\ circuitBreakerLastFailure' \in Nat
    BY <1>2 DEF IInv, TypeOK, RecordSuccess, RecordFailure
  <1>6. /\ outcome' \in [Requests -> {"none", "value", "error"}]
        /\ pc' \in [Requests -> PcStates]
        /\ \A s \in Requests : pc'[s] = "backoff" => pc[s] = "backoff"
        /\ concurrentRequests' \in Nat
        /\ cluster' \in {"off", "starting", "on", "stopping"}
    BY <1>1, <1>2, FinallyType DEF IInv
  <1>7. TypeOK' /\ BackoffHasNext'
    BY <1>2, <1>5, <1>6 DEF IInv, SameManagement, TypeOK, BackoffHasNext, limits
  <1> QED
    BY <1>3, <1>4, <1>5, <1>7 DEF IInv

\* Steps that leave performRequest without passing the decrement: the slot goes
\* from the holders to the leaked ones.
LEMMA LeakIInv ==
  ASSUME IInv, SameManagement, NEW r \in Requests, ReadyTimeout(r) \/ ShutdownFails(r)
  PROVE  IInv'
  <1>1. pc[r] # "idle" /\ pc' = [pc EXCEPT ![r] = "idle"]
    BY DEF ReadyTimeout, ShutdownFails
  <1>2. Cardinality(Holders') = Cardinality(Holders) - 1
    BY <1>1, HoldersLeave DEF IInv
  <1>3. SlotAccounting'
    BY <1>2, HoldersFinite DEF IInv, TypeOK, SlotAccounting, ReadyTimeout, ShutdownFails
  <1>4. NoOrphanConnection'
    BY <1>1, HolderHasSlot DEF IInv, SameManagement, NoOrphanConnection,
                               ReadyTimeout, ShutdownFails
  <1>5. TypeOK' /\ BackoffHasNext'
    <2>1. CASE ReadyTimeout(r)
      BY <2>1 DEF IInv, SameManagement, TypeOK, BackoffHasNext,
                  ReadyTimeout,
                  PcStates, limits, breaker, network
    <2>2. CASE ShutdownFails(r)
      BY <2>2 DEF IInv, SameManagement, TypeOK, BackoffHasNext,
                  ShutdownFails,
                  PcStates, limits, breaker
    <2> QED
      BY <2>1, <2>2
  <1> QED
    BY <1>3, <1>4, <1>5 DEF IInv

\* The end of a shutdown gives the slot back to a cluster that is off.
LEMMA ShutdownDoneIInv ==
  ASSUME IInv, SameManagement, NEW r \in Requests, ShutdownDone(r)
  PROVE  IInv'
  <1>1. pc[r] # "idle" /\ pc' = [pc EXCEPT ![r] = "idle"]
    BY DEF ShutdownDone
  <1>2. concurrentRequests \in Nat \ {0}
    BY <1>1, HolderHasSlot DEF IInv
  <1>3. Cardinality(Holders') = Cardinality(Holders) - 1
    BY <1>1, HoldersLeave DEF IInv
  <1>4. SlotAccounting'
    BY <1>2, <1>3, HoldersFinite, ConfigAssumption
    DEF IInv, TypeOK, SlotAccounting, ShutdownDone
  <1>5. NoOrphanConnection'
    BY DEF IInv, SameManagement, NoOrphanConnection, ShutdownDone
  <1>6. TypeOK' /\ BackoffHasNext'
    BY <1>2 DEF IInv, SameManagement, TypeOK, BackoffHasNext, ShutdownDone,
                PcStates, limits, breaker
  <1> QED
    BY <1>4, <1>5, <1>6 DEF IInv

\* Steps of the server, the cluster, the application and the clock.
LEMMA EnvironmentIInv ==
  ASSUME IInv, SameManagement,
         \/ \E r \in Requests : Execute(r)
         \/ ClusterMoves \/ UserConnects \/ UserDisconnects \/ Tick
  PROVE  IInv'
  <1>1. Holders' = Holders
    BY DEF Holders, Execute, ClusterMoves, UserConnects, UserDisconnects, Tick, calls
  <1>2. SlotAccounting'
    BY <1>1 DEF IInv, SlotAccounting, Execute, ClusterMoves, UserConnects,
                UserDisconnects, Tick, slots
  <1>3. NoOrphanConnection'
    BY DEF IInv, SameManagement, NoOrphanConnection, Execute, ClusterMoves,
           UserConnects,
           UserDisconnects, Tick, slots, network
  <1>4. TypeOK' /\ BackoffHasNext'
    <2>1. CASE \E r \in Requests : Execute(r)
      BY <2>1 DEF IInv, SameManagement, TypeOK, BackoffHasNext, Execute, slots,
                  limits, breaker, network
    <2>2. CASE ClusterMoves \/ UserConnects \/ UserDisconnects
      BY <2>2 DEF IInv, SameManagement, TypeOK, BackoffHasNext, ClusterMoves,
                  UserConnects,
                  UserDisconnects, Startup, slots, limits, breaker, calls
    <2>3. CASE Tick
      BY <2>3 DEF IInv, SameManagement, TypeOK, BackoffHasNext, Tick, slots,
                  limits, breaker, calls
    <2> QED
      BY <2>1, <2>2, <2>3
  <1> QED
    BY <1>2, <1>3, <1>4 DEF IInv

\* Every step keeps the invariant.
LEMMA NextIInv == IInv /\ [Next]_vars => IInv'
  <1> SUFFICES ASSUME IInv, [Next]_vars PROVE IInv'
    OBVIOUS
  <1>1. ASSUME SameManagement, NEW r \in Requests, PerformRequest(r)
        PROVE  IInv'
    BY <1>1, RefuseIInv, EnterIInv DEF PerformRequest
  <1>2. ASSUME SameManagement, NEW r \in Requests, Resume(r)
        PROVE  IInv'
    BY <1>2, LeakIInv, StayIInv, FinishIInv, ShutdownDoneIInv DEF Resume
  <1>3. ASSUME SameManagement, NEW r \in Requests,
               Ready(r) \/ Answer(r) \/ FailForGood(r) \/ Execute(r)
        PROVE  IInv'
    BY <1>3, StayIInv, FinishIInv, EnvironmentIInv
  <1>4. CASE /\ SameManagement
             /\ ClusterMoves \/ UserConnects \/ UserDisconnects \/ Tick
    BY <1>4, EnvironmentIInv
  <1>5. CASE UNCHANGED vars
    BY <1>5 DEF IInv, TypeOK, BackoffHasNext, SlotAccounting, NoOrphanConnection,
                Holders, vars, slots, limits, breaker, calls, network
  <1> QED
    BY <1>1, <1>2, <1>3, <1>4, <1>5 DEF Next, Step

\* So it always holds.
LEMMA Invariant == Spec => []IInv
  BY InitIInv, NextIInv, PTL DEF Spec

-----------------------------------------------------------------------------
(* What follows.                                                           *)

\* The types, for any number of callers: in particular no counter of
\* performRequest ever goes below zero.
THEOREM TypeCorrect == Spec => []TypeOK
  <1>1. IInv => TypeOK
    BY DEF IInv
  <1> QED
    BY <1>1, Invariant, PTL

\* No interleaving of calls loses or duplicates a slot.
THEOREM SlotsAccountedFor == Spec => []SlotAccounting
  <1>1. IInv => SlotAccounting
    BY DEF IInv
  <1> QED
    BY <1>1, Invariant, PTL

\* The cluster is up only while a slot is taken.
THEOREM ConnectionHasHolder == Spec => []NoOrphanConnection
  <1>1. IInv => NoOrphanConnection
    BY DEF IInv
  <1> QED
    BY <1>1, Invariant, PTL

\* The finally block's test of the counter is a test that no other call is in
\* performRequest: with one slot taken and one call inside, none is leaked and
\* none belongs to anybody else.
LEMMA OneSlotOneHolder ==
  ASSUME IInv, NEW r \in Requests, pc[r] # "idle", concurrentRequests = 1
  PROVE  Holders = {r}
  <1>1. Cardinality(Holders) # 0
    BY HoldersFinite, FS_EmptySet DEF Holders
  <1>2. Cardinality(Holders) = 1
    BY <1>1, HoldersFinite DEF IInv, SlotAccounting, TypeOK
  <1>3. \E x : Holders = {x}
    BY <1>2, HoldersFinite, FS_Singleton
  <1> QED
    BY <1>3 DEF Holders

\* A call shuts the cluster down under no other call.
THEOREM LastShutsDown == Spec => ShutdownOnlyByLast
  <1> DEFINE Alone == \A r \in Requests :
                        pc[r] # "stopping" /\ pc'[r] = "stopping" => Holders = {r}
  <1>1. IInv /\ [Next]_vars => [Alone]_vars
    <2> SUFFICES ASSUME IInv, Next, NEW r \in Requests,
                        pc[r] # "stopping", pc'[r] = "stopping"
                 PROVE  Holders = {r}
      OBVIOUS
    <2>1. PICK q \in Requests : \E result : pc[q] # "idle" /\ Finally(q, result)
                                            /\ pc'[q] = "stopping"
      BY DEF IInv, TypeOK, Next, Step, PerformRequest, Resume, RefusedByBreaker,
             RefusedByRateLimit, RefusedByConcurrency, Refuse, Enter, Ready, ReadyTimeout,
             Answer, FailAndRetry, FailLastAttempt, FailForGood, Resend, ShutdownDone,
             ShutdownFails, Execute, ClusterMoves, UserConnects, UserDisconnects, Tick,
             Finally, calls
    <2>2. q = r /\ concurrentRequests = 1
      BY <2>1 DEF IInv, TypeOK, Finally, ShouldDisconnect
    <2> QED
      BY <2>1, <2>2, OneSlotOneHolder
  <1> QED
    BY <1>1, Invariant, PTL DEF Spec, ShutdownOnlyByLast

\* Only an automatically managed connection is ever shut down by a call.
StoppingIsAutomatic ==
    \A r \in Requests : pc[r] = "stopping" => ~manualConnectionManagement

\* No step of a provider with manual management starts a shutdown.
LEMMA NextStopping == IInv /\ StoppingIsAutomatic /\ [Next]_vars => StoppingIsAutomatic'
  <1> SUFFICES ASSUME IInv, StoppingIsAutomatic, [Next]_vars,
                      NEW s \in Requests, pc'[s] = "stopping", pc[s] # "stopping"
               PROVE  ~manualConnectionManagement
    BY DEF StoppingIsAutomatic, Next, SameManagement, vars
  <1>1. PICK r \in Requests : \E result : Finally(r, result) /\ pc'[r] = "stopping"
    BY DEF IInv, TypeOK, Next, Step, PerformRequest, Resume, RefusedByBreaker,
           RefusedByRateLimit, RefusedByConcurrency, Refuse, Enter, Ready, ReadyTimeout,
           Answer, FailAndRetry, FailLastAttempt, FailForGood, Resend, ShutdownDone,
           ShutdownFails, Execute, ClusterMoves, UserConnects, UserDisconnects, Tick,
           Finally, calls, vars
  <1> QED
    BY <1>1 DEF IInv, TypeOK, Finally, ShouldDisconnect

\* performRequest never touches a manually managed connection.
THEOREM ManualLeftAlone == Spec => ManualIsManual
  <1> DEFINE LeftAlone == manualConnectionManagement /\ pc' # pc => cluster' = cluster
  <1>1. IInv /\ StoppingIsAutomatic /\ [Next]_vars => [LeftAlone]_vars
    <2> SUFFICES ASSUME IInv, StoppingIsAutomatic, Next, manualConnectionManagement, pc' # pc
                 PROVE  cluster' = cluster
      OBVIOUS
    <2>1. ~ShouldConnect /\ ~ShouldDisconnect
      BY DEF ShouldConnect, ShouldDisconnect
    <2>2. PICK r \in Requests : Step(r)
      BY DEF Next, ClusterMoves, UserConnects, UserDisconnects, Tick, calls
    <2>3. pc[r] # "stopping"
      BY DEF StoppingIsAutomatic
    <2>4. CASE Enter(r)
      BY <2>1, <2>4 DEF Enter
    <2>5. CASE \E result : Finally(r, result)
      BY <2>1, <2>5 DEF Finally
    <2>6. CASE UNCHANGED network
      BY <2>6 DEF network
    <2> QED
      BY <2>2, <2>3, <2>4, <2>5, <2>6
      DEF Step, PerformRequest, Resume, RefusedByBreaker, RefusedByRateLimit,
          RefusedByConcurrency, Refuse, Ready, ReadyTimeout, Answer, FailAndRetry,
          FailLastAttempt, FailForGood, Resend, ShutdownDone, ShutdownFails, Execute
  <1>2. Init => StoppingIsAutomatic
    BY DEF Init, StoppingIsAutomatic
  <1> QED
    BY <1>1, <1>2, NextStopping, Invariant, PTL DEF Spec, ManualIsManual

-----------------------------------------------------------------------------
(* The shared connection.  With the accounting of slots, the counter is      *)
(* large enough for another caller exactly when the set of users is, is zero *)
(* exactly when nobody uses the connection, and is one exactly when the call *)
(* in the finally block is alone.                                            *)

Closers == {r \in Requests : pc[r] = "stopping"}

\* A shutdown is started by a call that is alone, ends before the slot is given
\* back, and so is never overtaken by another.
OneShutdown ==
    /\ \A r, s \in Closers : r = s
    /\ Closers # {} => ~manualConnectionManagement

ConnectionInv == IInv /\ OneShutdown

\* The counter says whether the connection is unused.
LEMMA NoSlotNoUser ==
  ASSUME IInv
  PROVE  concurrentRequests = 0 <=> Holders = {} /\ leaked = 0
  <1>1. Cardinality(Holders) = 0 <=> Holders = {}
    BY HoldersFinite, FS_EmptySet
  <1> QED
    BY <1>1, HoldersFinite DEF IInv, SlotAccounting, TypeOK

\* The counter says whether a call is alone.
LEMMA OneSlotAlone ==
  ASSUME IInv, NEW r \in Requests, pc[r] # "idle"
  PROVE  concurrentRequests = 1 <=> Holders = {r} /\ leaked = 0
  <1>1. r \in Holders
    BY DEF Holders
  <1>2. Holders = {r} => Cardinality(Holders) = 1
    BY FS_Singleton
  <1>3. Cardinality(Holders) # 0
    BY <1>1, HoldersFinite, FS_EmptySet
  <1>4. concurrentRequests = 1 => Holders = {r} /\ leaked = 0
    BY <1>3, OneSlotOneHolder, HoldersFinite DEF IInv, SlotAccounting, TypeOK
  <1> QED
    BY <1>2, <1>4, HoldersFinite DEF IInv, SlotAccounting, TypeOK

\* A call that changes the await it is in, without a shutdown, is a step nobody sees.
LEMMA StayMaps ==
  ASSUME ConnectionInv, SameManagement, NEW r \in Requests,
         Ready(r) \/ FailAndRetry(r) \/ Resend(r)
  PROVE  UNCHANGED Connection!vars
  <1>1. \E s \in PcStates \ {"idle", "stopping"} :
          pc[r] \notin {"idle", "stopping"} /\ pc' = [pc EXCEPT ![r] = s]
    BY DEF Ready, FailAndRetry, Resend, PcStates
  <1>2. Holders' = Holders /\ Closers' = Closers
    BY <1>1 DEF ConnectionInv, IInv, TypeOK, Holders, Closers, PcStates
  <1>3. cluster' = cluster /\ leaked' = leaked
    BY DEF Ready, FailAndRetry, Resend, slots, network
  <1> QED
    BY <1>2, <1>3 DEF Connection!vars, SameManagement, Closers

\* Entering performRequest is joining: the first caller finds the connection off.
LEMMA EnterMaps ==
  ASSUME ConnectionInv, SameManagement, NEW r \in Requests, Enter(r)
  PROVE  Connection!Join(r)
  <1>1. Holders' = Holders \cup {r} /\ r \notin Holders /\ Closers' = Closers
    BY DEF ConnectionInv, IInv, TypeOK, Enter, Holders, Closers, PcStates
  <1>2. Cardinality(Holders) + leaked < MAX_CONCURRENT_REQUESTS
    BY DEF ConnectionInv, IInv, SlotAccounting, Enter
  <1>3. ShouldConnect <=> ~manualConnectionManagement /\ Holders = {} /\ leaked = 0
    BY NoSlotNoUser DEF ConnectionInv, ShouldConnect
  <1>4. ShouldConnect => cluster = "off"
    BY DEF ConnectionInv, IInv, NoOrphanConnection, ShouldConnect
  <1>5. IF ~manualConnectionManagement /\ Holders = {} /\ leaked = 0
          THEN cluster = "off" /\ cluster' = "starting" ELSE cluster' = cluster
    BY <1>3, <1>4 DEF Enter, Startup
  <1>6. Connection!Cardinality(Holders) = Cardinality(Holders)
    BY DEF Connection!Cardinality, Cardinality
  <1> QED
    BY <1>1, <1>2, <1>5, <1>6 DEF Connection!Join, Connection!Unused, Enter, Closers

\* The finally block is leaving or closing.
LEMMA FinallyMaps ==
  ASSUME ConnectionInv, SameManagement, NEW r \in Requests, pc[r] = "exec",
         NEW result, Finally(r, result), leaked' = leaked
  PROVE  Connection!Leave(r) \/ Connection!Close(r)
  <1>1. r \in Holders /\ r \notin Closers
    BY DEF Holders, Closers
  <1>2. concurrentRequests = 1 <=> Holders = {r} /\ leaked = 0
    BY OneSlotAlone DEF ConnectionInv
  <1>3. CASE ShouldDisconnect
    <2>1. pc' = [pc EXCEPT ![r] = "stopping"] /\ cluster' = "stopping"
      BY <1>3 DEF Finally
    <2>2. Holders = {r} /\ leaked = 0 /\ ~manualConnectionManagement
      BY <1>2, <1>3 DEF ShouldDisconnect
    <2>3. Closers = {}
      BY <1>1, <2>2 DEF Closers, Holders
    <2>4. Holders' = Holders /\ Closers' = {r}
      BY <2>1, <2>3 DEF ConnectionInv, IInv, TypeOK, Holders, Closers
    <2> QED
      BY <2>1, <2>2, <2>3, <2>4 DEF Connection!Close, Connection!Alone, Closers
  <1>4. CASE ~ShouldDisconnect
    <2>1. pc' = [pc EXCEPT ![r] = "idle"] /\ cluster' = cluster
      BY <1>4 DEF Finally
    <2>2. Holders' = Holders \ {r} /\ Closers' = Closers
      BY <1>1, <2>1 DEF ConnectionInv, IInv, TypeOK, Holders, Closers
    <2>3. ~manualConnectionManagement => ~(Holders = {r} /\ leaked = 0)
      BY <1>2, <1>4 DEF ShouldDisconnect
    <2> QED
      BY <1>1, <2>1, <2>2, <2>3 DEF Connection!Leave, Connection!Alone, Closers
  <1> QED
    BY <1>3, <1>4

\* The end of the shutdown is the end of the closing.
LEMMA ShutdownDoneMaps ==
  ASSUME ConnectionInv, SameManagement, NEW r \in Requests, ShutdownDone(r)
  PROVE  Connection!Closed(r)
  <1>1. r \in Closers /\ pc' = [pc EXCEPT ![r] = "idle"] /\ cluster' = "off" /\ leaked' = leaked
    BY DEF ShutdownDone, Closers
  <1>2. Holders' = Holders \ {r} /\ Closers' = Closers \ {r}
    BY <1>1 DEF ConnectionInv, IInv, TypeOK, Holders, Closers
  <1>3. Closers' = {}
    BY <1>1, <1>2 DEF ConnectionInv, OneShutdown
  <1> QED
    BY <1>1, <1>2, <1>3 DEF Connection!Closed, Closers

\* Leaving past the decrement loses a slot.
LEMMA LeakMaps ==
  ASSUME ConnectionInv, SameManagement, NEW r \in Requests, ReadyTimeout(r) \/ ShutdownFails(r)
  PROVE  Connection!Lose(r)
  <1>1. r \in Holders /\ pc' = [pc EXCEPT ![r] = "idle"] /\ leaked' = leaked + 1
    BY DEF ReadyTimeout, ShutdownFails, Holders
  <1>2. Holders' = Holders \ {r} /\ Closers' = Closers \ {r}
    BY <1>1 DEF ConnectionInv, IInv, TypeOK, Holders, Closers
  <1>3. IF r \in Closers THEN cluster' \in {"off", "on"} ELSE cluster' = cluster
    BY DEF ReadyTimeout, ShutdownFails, Closers, network
  <1> QED
    BY <1>1, <1>2, <1>3 DEF Connection!Lose, Closers

\* Every step of the provider is a step of the shared connection or invisible.
LEMMA NextMaps == ConnectionInv /\ [Next]_vars => [Connection!Next]_Connection!vars
  <1> SUFFICES ASSUME ConnectionInv, [Next]_vars PROVE [Connection!Next]_Connection!vars
    OBVIOUS
  <1>1. CASE UNCHANGED vars
    BY <1>1 DEF vars, slots, calls, network, Connection!vars, Holders
  <1>2. CASE SameManagement /\ \E r \in Requests : Step(r)
    <2> PICK r \in Requests : Step(r)
      BY <1>2
    <2>1. CASE Enter(r)
      BY <1>2, <2>1, EnterMaps DEF Connection!Next, SameManagement
    <2>2. CASE Ready(r) \/ FailAndRetry(r) \/ Resend(r)
      BY <1>2, <2>2, StayMaps
    <2>3. CASE Answer(r) \/ FailLastAttempt(r) \/ FailForGood(r)
      <3>1. PICK result : Finally(r, result)
        BY <2>3 DEF Answer, FailLastAttempt, FailForGood
      <3>2. pc[r] = "exec" /\ leaked' = leaked
        BY <2>3 DEF Answer, FailLastAttempt, FailForGood
      <3> QED
        BY <1>2, <3>1, <3>2, FinallyMaps DEF Connection!Next, SameManagement
    <2>4. CASE ReadyTimeout(r) \/ ShutdownFails(r)
      BY <1>2, <2>4, LeakMaps DEF Connection!Next, SameManagement
    <2>5. CASE ShutdownDone(r)
      BY <1>2, <2>5, ShutdownDoneMaps DEF Connection!Next, SameManagement
    <2>6. CASE \/ RefusedByBreaker(r) \/ RefusedByRateLimit(r) \/ RefusedByConcurrency(r)
               \/ Execute(r)
      BY <1>2, <2>6 DEF RefusedByBreaker, RefusedByRateLimit, RefusedByConcurrency, Refuse,
                 Execute, SameManagement, slots, network, Connection!vars, Holders
    <2> QED
      BY <2>1, <2>2, <2>3, <2>4, <2>5, <2>6 DEF Step, PerformRequest, Resume
  <1>3. CASE SameManagement /\ (ClusterMoves \/ UserConnects \/ UserDisconnects)
    <2>1. UNCHANGED <<Holders, Closers, leaked>>
      BY <1>3 DEF ClusterMoves, UserConnects, UserDisconnects, calls, slots, Holders, Closers
    <2> QED
      BY <1>3, <2>1 DEF ClusterMoves, UserConnects, UserDisconnects, Startup, SameManagement,
                  Connection!Next, Connection!LinkMoves, Closers
  <1>4. CASE SameManagement /\ Tick
    BY <1>4 DEF Tick, SameManagement, calls, slots, Connection!vars, Holders
  <1> QED
    BY <1>1, <1>2, <1>3, <1>4 DEF Next

\* One shutdown at a time, whatever joins while it is awaited.
LEMMA NextOneShutdown == ConnectionInv /\ [Next]_vars => OneShutdown'
  <1> SUFFICES ASSUME ConnectionInv, [Next]_vars PROVE OneShutdown'
    OBVIOUS
  <1>1. manualConnectionManagement' = manualConnectionManagement
    BY DEF Next, SameManagement, vars
  <1>2. CASE Connection!Next
    <2>1. ASSUME NEW r \in Requests, Connection!Close(r)
          PROVE  OneShutdown'
      BY <1>1, <2>1 DEF Connection!Close, OneShutdown, Closers
    <2>2. CASE Closers' \subseteq Closers
      BY <1>1, <2>2 DEF ConnectionInv, OneShutdown
    <2> QED
      BY <1>2, <2>1, <2>2 DEF Connection!Next, Connection!Join, Connection!Leave, Connection!Closed,
                  Connection!Lose, Connection!LinkMoves, Closers
  <1>3. CASE UNCHANGED Connection!vars
    BY <1>1, <1>3 DEF Connection!vars, ConnectionInv, OneShutdown, Closers
  <1> QED
    BY <1>2, <1>3, NextMaps

\* The interleavings of performRequest, its counter, its retries, its timeouts and
\* its shutdowns implement the connection its callers share.
THEOREM ConnectionShared == Spec => ImplementsSharedConnection
  <1>1. Init => OneShutdown
    BY DEF Init, OneShutdown, Closers
  <1>2. Init => Connection!Init
    BY DEF Init, Connection!Init, Holders
  <1>3. IInv /\ OneShutdown /\ [Next]_vars => OneShutdown'
    BY NextOneShutdown DEF ConnectionInv
  <1>4. IInv /\ OneShutdown /\ [Next]_vars => [Connection!Next]_Connection!vars
    BY NextMaps DEF ConnectionInv
  <1> QED
    BY <1>1, <1>2, <1>3, <1>4, Invariant, PTL DEF Spec, ImplementsSharedConnection, Connection!Spec

-----------------------------------------------------------------------------
(* The rate window.  enforceRateLimit forgets stamps, so the invariant says  *)
(* what it still knows: every stamp inside the window that ends now.         *)

Monotone ==
    /\ \A i, j \in DOMAIN stamps : i <= j => stamps[i] <= stamps[j]
    /\ \A i \in DOMAIN stamps : stamps[i] <= now

WindowKept ==
    \A i \in DOMAIN stamps : stamps[i] > now - RATE_LIMIT_WINDOW => i \in requestTimestamps

RateInv == Monotone /\ WindowKept /\ RateWindow

\* A stamp MAX_REQUESTS_PER_WINDOW places back is out of the window when
\* enforceRateLimit lets a call through: if it were not, it and every stamp after
\* it would be in the array, which would be full.
LEMMA OldStampsExpire ==
  ASSUME TypeOK, RateInv, ~RateLimited,
         NEW i \in DOMAIN stamps, i + MAX_REQUESTS_PER_WINDOW = Len(stamps) + 1
  PROVE  now - stamps[i] >= RATE_LIMIT_WINDOW
  <1> DEFINE n == Len(stamps)
  <1>1. n \in Nat /\ DOMAIN stamps = 1 .. n /\ \A k \in 1 .. n : stamps[k] \in Nat
    BY LenProperties, ElementOfSeq DEF TypeOK
  <1>2. i \in 1 .. n /\ n - i + 1 = MAX_REQUESTS_PER_WINDOW
    BY <1>1, ConfigAssumption
  <1>3. now \in Nat /\ RATE_LIMIT_WINDOW \in Nat
    BY ConfigAssumption DEF TypeOK
  <1> SUFFICES ASSUME stamps[i] > now - RATE_LIMIT_WINDOW PROVE FALSE
    BY <1>1, <1>2, <1>3
  <1>4. i .. n \subseteq InWindow
    <2> SUFFICES ASSUME NEW k \in i .. n PROVE k \in InWindow
      OBVIOUS
    <2>1. k \in 1 .. n /\ i <= k
      BY <1>1, <1>2
    <2>2. stamps[i] <= stamps[k]
      BY <1>1, <1>2, <2>1 DEF RateInv, Monotone
    <2>3. stamps[i] \in Nat /\ stamps[k] \in Nat
      BY <1>1, <1>2, <2>1
    <2>4. stamps[k] > now - RATE_LIMIT_WINDOW
      BY <1>3, <2>2, <2>3
    <2> QED
      BY <1>1, <2>1, <2>4 DEF RateInv, WindowKept, InWindow
  <1>5. InWindow \subseteq 1 .. n
    BY <1>1 DEF InWindow, TypeOK
  <1>6. IsFiniteSet(1 .. n)
    BY <1>1, FS_Interval
  <1>7. IsFiniteSet(InWindow)
    BY <1>5, <1>6, FS_Subset
  <1>8. Cardinality(i .. n) <= Cardinality(InWindow) /\ Cardinality(InWindow) \in Nat
    BY <1>4, <1>7, FS_Subset, FS_CardinalityType
  <1>9. Cardinality(i .. n) = MAX_REQUESTS_PER_WINDOW
    BY <1>1, <1>2, FS_Interval
  <1> QED
    BY <1>8, <1>9, ConfigAssumption DEF RateLimited

\* enforceRateLimit keeps the rate invariant.
LEMMA EnforceRateLimitRate ==
  ASSUME TypeOK, RateInv, EnforceRateLimit, now' = now
  PROVE  RateInv'
  <1> DEFINE n == Len(stamps)
  <1>1. n \in Nat /\ DOMAIN stamps = 1 .. n /\ \A k \in 1 .. n : stamps[k] \in Nat
    BY LenProperties, ElementOfSeq DEF TypeOK
  <1>2. now \in Nat /\ RATE_LIMIT_WINDOW \in Nat \ {0} /\ MAX_REQUESTS_PER_WINDOW \in Nat \ {0}
    BY ConfigAssumption DEF TypeOK
  <1>3. /\ stamps' \in Seq(Nat)
        /\ Len(stamps') = n + 1
        /\ \A k \in 1 .. n : stamps'[k] = stamps[k]
        /\ stamps'[n + 1] = now
    BY AppendProperties DEF TypeOK, EnforceRateLimit
  <1>4. DOMAIN stamps' = 1 .. (n + 1)
    BY <1>3, LenProperties
  <1>5. \A k \in 1 .. (n + 1) : k \in 1 .. n \/ k = n + 1
    BY <1>1
  <1>6. Monotone'
    BY <1>1, <1>2, <1>3, <1>4, <1>5 DEF RateInv, Monotone
  <1>7. WindowKept'
    <2> SUFFICES ASSUME NEW k \in 1 .. (n + 1), stamps'[k] > now - RATE_LIMIT_WINDOW
                 PROVE  k \in InWindow \cup {n + 1}
      BY <1>4 DEF WindowKept, EnforceRateLimit
    <2> QED
      BY <1>1, <1>3, <1>5 DEF RateInv, WindowKept, InWindow
  <1>8. RateWindow'
    <2> DEFINE M == MAX_REQUESTS_PER_WINDOW
    <2> SUFFICES ASSUME NEW k \in 1 .. (n + 1), k + M \in 1 .. (n + 1)
                 PROVE  stamps'[k + M] - stamps'[k] >= RATE_LIMIT_WINDOW
      BY <1>4 DEF RateWindow
    <2>1. k \in 1 .. n
      BY <1>1, <1>2
    <2>2. CASE k + M = n + 1
      <3>1. now - stamps[k] >= RATE_LIMIT_WINDOW
        BY <1>1, <2>1, <2>2, OldStampsExpire DEF EnforceRateLimit
      <3> QED
        BY <1>3, <2>1, <2>2, <3>1
    <2>3. CASE k + M \in 1 .. n
      BY <1>1, <1>3, <2>1, <2>3 DEF RateInv, RateWindow
    <2> QED
      BY <1>5, <2>2, <2>3
  <1> QED
    BY <1>6, <1>7, <1>8 DEF RateInv

\* So does every other step: it leaves the stamps alone, forgets only stamps
\* outside the window, or lets time pass.
LEMMA OtherRate ==
  ASSUME TypeOK, RateInv, stamps' = stamps,
         \/ now' = now /\ requestTimestamps' \in {requestTimestamps, InWindow}
         \/ now' = now + 1 /\ requestTimestamps' = requestTimestamps
  PROVE  RateInv'
  <1>1. now \in Nat /\ RATE_LIMIT_WINDOW \in Nat
    BY ConfigAssumption DEF TypeOK
  <1>2. \A k \in DOMAIN stamps : stamps[k] \in Nat
    BY LenProperties, ElementOfSeq DEF TypeOK
  <1>3. Monotone'
    BY <1>1, <1>2 DEF RateInv, Monotone
  <1>4. WindowKept'
    BY <1>1, <1>2 DEF RateInv, WindowKept, InWindow
  <1>5. RateWindow'
    BY DEF RateInv, RateWindow
  <1> QED
    BY <1>3, <1>4, <1>5 DEF RateInv

\* Every step keeps the stamps in order and the window their tail.
LEMMA NextRate == IInv /\ RateInv /\ [Next]_vars => RateInv'
  <1> SUFFICES ASSUME IInv, RateInv, [Next]_vars PROVE RateInv'
    OBVIOUS
  <1> USE DEF IInv
  <1>1. ASSUME NEW r \in Requests, Enter(r) \/ RefusedByConcurrency(r)
        PROVE  RateInv'
    BY <1>1, EnforceRateLimitRate DEF Enter, RefusedByConcurrency, Refuse, network
  <1>2. ASSUME NEW r \in Requests, RefusedByRateLimit(r)
        PROVE  RateInv'
    BY <1>2, OtherRate DEF RefusedByRateLimit, Refuse, network
  <1>3. ASSUME NEW r \in Requests,
               \/ RefusedByBreaker(r) \/ Resume(r) \/ Ready(r)
               \/ Answer(r) \/ FailForGood(r) \/ Execute(r)
        PROVE  RateInv'
    <2>1. UNCHANGED <<limits, now>>
      BY <1>3 DEF RefusedByBreaker, Refuse, Resume, ReadyTimeout, FailAndRetry,
                  FailLastAttempt, Resend, ShutdownDone, ShutdownFails, Ready, Answer,
                  FailForGood, Execute, limits, network
    <2> QED
      BY <2>1, OtherRate DEF limits
  <1>4. CASE ClusterMoves \/ UserConnects \/ UserDisconnects \/ UNCHANGED vars
    BY <1>4, OtherRate DEF ClusterMoves, UserConnects, UserDisconnects, limits, network, vars
  <1>5. CASE Tick
    BY <1>5, OtherRate DEF Tick, limits
  <1> QED
    BY <1>1, <1>2, <1>3, <1>4, <1>5 DEF Next, Step, PerformRequest

\* In no window of RATE_LIMIT_WINDOW, wherever it begins, do more than
\* MAX_REQUESTS_PER_WINDOW calls pass enforceRateLimit.
THEOREM RateLimitHolds == Spec => []RateWindow
  <1>1. Init => RateInv
    BY EmptySeq DEF Init, RateInv, Monotone, WindowKept, RateWindow
  <1>2. RateInv => RateWindow
    BY DEF RateInv
  <1> QED
    BY <1>1, <1>2, NextRate, Invariant, PTL DEF Spec


-----------------------------------------------------------------------------
(* Failures recorded after the breaker has opened.                         *)

\* Call r may still make its attempt number n, counting from 0.
Left(r, n) ==
    \/ pc[r] \in {"ready", "exec"} /\ n >= attempt[r]
    \/ pc[r] = "backoff" /\ n > attempt[r]

Attempts == 0 .. MAX_RETRIES - 1

\* The attempts the calls inside performRequest may still make.
Pending == {p \in Requests \X Attempts : Left(p[1], p[2])}

\* as many as all slots have together
AllAttempts == MAX_CONCURRENT_REQUESTS * MAX_RETRIES

\* A failure is counted for an attempt that is then no longer pending.  So a count
\* below the threshold leaves room for every pending attempt, and it is below the
\* threshold whenever a call enters and brings new ones.
Covered ==
    circuitBreakerFailures + Cardinality(Pending)
      <= CIRCUIT_BREAKER_THRESHOLD - 1 + AllAttempts

\* The pending attempts are finitely many.
LEMMA PendingFinite == IsFiniteSet(Pending) /\ Cardinality(Pending) \in Nat
  <1>1. IsFiniteSet(Attempts)
    BY FS_Interval, ConfigAssumption DEF Attempts
  <1>2. IsFiniteSet(Requests \X Attempts)
    BY <1>1, FS_Product, ConfigAssumption
  <1> QED
    BY <1>2, FS_Subset, FS_CardinalityType DEF Pending

\* They belong to calls that hold slots.
LEMMA PendingFits ==
  TypeOK /\ SlotAccounting =>
    Cardinality(Pending) \in Nat /\ Cardinality(Pending) <= AllAttempts
  <1> SUFFICES ASSUME TypeOK, SlotAccounting
               PROVE  Cardinality(Pending) <= AllAttempts
    BY PendingFinite
  <1> DEFINE n == Cardinality(Holders)
  <1>1. IsFiniteSet(Attempts) /\ Cardinality(Attempts) = MAX_RETRIES
    BY FS_Interval, ConfigAssumption DEF Attempts
  <1>2. IsFiniteSet(Holders \X Attempts) /\ Cardinality(Holders \X Attempts) = n * MAX_RETRIES
    BY <1>1, HoldersFinite, FS_Product
  <1>3. Pending \subseteq Holders \X Attempts
    BY DEF Pending, Left, Holders
  <1>4. Cardinality(Pending) <= n * MAX_RETRIES
    BY <1>2, <1>3, FS_Subset
  <1>5. n \in Nat /\ n <= MAX_CONCURRENT_REQUESTS
    BY HoldersFinite, ConfigAssumption DEF TypeOK, SlotAccounting
  <1>6. n * MAX_RETRIES <= AllAttempts
    <2> HIDE DEF n
    <2>1. \A a, b, c \in Nat : a <= b => a * c <= b * c
      OBVIOUS
    <2> QED
      BY <1>5, <2>1, ConfigAssumption DEF AllAttempts
  <1>7. n * MAX_RETRIES \in Int /\ AllAttempts \in Int
    <2> HIDE DEF n
    <2> QED
      BY <1>5, ConfigAssumption DEF AllAttempts
  <1> QED
    BY <1>4, <1>6, <1>7, PendingFinite

\* In the next state too.
LEMMA PendingFitsNext ==
  (TypeOK /\ SlotAccounting =>
    Cardinality(Pending) \in Nat /\ Cardinality(Pending) <= AllAttempts)'
  BY PendingFits, PTL

\* With a count below the threshold there is room for them all.
LEMMA RoomBelowThreshold ==
  ASSUME TypeOK', SlotAccounting', circuitBreakerFailures' < CIRCUIT_BREAKER_THRESHOLD
  PROVE  Covered'
  <1>1. Cardinality(Pending') \in Nat /\ Cardinality(Pending') <= AllAttempts
    BY PendingFitsNext DEF AllAttempts
  <1>2. circuitBreakerFailures' \in Nat /\ AllAttempts \in Nat
    BY ConfigAssumption DEF TypeOK, AllAttempts
  <1> QED
    BY <1>1, <1>2, ConfigAssumption DEF Covered, AllAttempts

\* A step that adds no failure and no attempt keeps the room.
LEMMA RoomStays ==
  ASSUME TypeOK, TypeOK', Covered, Pending' \subseteq Pending,
         circuitBreakerFailures' <= circuitBreakerFailures
  PROVE  Covered'
  <1>1. Cardinality(Pending') \in Nat /\ Cardinality(Pending') <= Cardinality(Pending)
    BY PendingFinite, FS_Subset, FS_CardinalityType
  <1>2. circuitBreakerFailures \in Nat /\ circuitBreakerFailures' \in Nat /\ AllAttempts \in Nat
    BY ConfigAssumption DEF TypeOK, AllAttempts
  <1> QED
    BY <1>1, <1>2, PendingFinite, ConfigAssumption DEF Covered, AllAttempts

\* A failure is counted in place of the attempt that failed.
LEMMA RoomSpent ==
  ASSUME TypeOK, TypeOK', Covered, RecordFailure, NEW r \in Requests, pc[r] = "exec",
         Pending' \subseteq Pending \ {<<r, attempt[r]>>}
  PROVE  Covered'
  <1> DEFINE spent == <<r, attempt[r]>>
  <1>1. spent \in Pending
    BY ConfigAssumption DEF TypeOK, Pending, Left, Attempts
  <1>2. /\ IsFiniteSet(Pending \ {spent})
        /\ Cardinality(Pending \ {spent}) = Cardinality(Pending) - 1
    BY <1>1, PendingFinite, FS_RemoveElement
  <1>3. Cardinality(Pending') \in Nat /\ Cardinality(Pending') <= Cardinality(Pending) - 1
    BY <1>2, FS_Subset, FS_CardinalityType
  <1>4. circuitBreakerFailures' = circuitBreakerFailures + 1
    BY DEF RecordFailure
  <1>5. circuitBreakerFailures \in Nat /\ AllAttempts \in Nat
    BY ConfigAssumption DEF TypeOK, AllAttempts
  <1> QED
    BY <1>3, <1>4, <1>5, PendingFinite, ConfigAssumption DEF Covered, AllAttempts

\* No attempt is pending in a new provider.
LEMMA InitCovered == Init => Covered
  <1> SUFFICES ASSUME Init PROVE Covered
    OBVIOUS
  <1>1. Pending = {}
    BY DEF Init, Pending, Left
  <1>2. AllAttempts \in Nat
    BY ConfigAssumption DEF AllAttempts
  <1> QED
    BY <1>1, <1>2, FS_EmptySet, ConfigAssumption DEF Init, Covered

\* An attempt that ends leaves, at most, the later ones pending.
LEMMA AttemptSpent ==
  ASSUME TypeOK, NEW r \in Requests, NEW s \in {"backoff", "stopping", "idle"},
         pc[r] = "exec", pc' = [pc EXCEPT ![r] = s], UNCHANGED attempt
  PROVE  Pending' \subseteq Pending \ {<<r, attempt[r]>>}
  <1> SUFFICES ASSUME NEW q \in Requests, NEW n \in Attempts, Left(q, n)'
               PROVE  Left(q, n) /\ ~(q = r /\ n = attempt[r])
    BY DEF Pending
  <1> QED
    BY DEF TypeOK, Left, Attempts

\* Every step keeps the room.
LEMMA NextCovered == IInv /\ IInv' /\ Covered /\ [Next]_vars => Covered'
  <1> SUFFICES ASSUME IInv, IInv', Covered, [Next]_vars PROVE Covered'
    OBVIOUS
  <1> USE DEF IInv
  <1>1. CASE circuitBreakerFailures' < CIRCUIT_BREAKER_THRESHOLD
    BY <1>1, RoomBelowThreshold
  <1>2. ASSUME NEW r \in Requests,
               RefusedByBreaker(r) \/ RefusedByRateLimit(r) \/ RefusedByConcurrency(r)
        PROVE  Covered'
    <2>1. Pending' = Pending
      BY <1>2 DEF RefusedByBreaker, RefusedByRateLimit, RefusedByConcurrency, Refuse,
                  Pending, Left
    <2>2. circuitBreakerFailures' <= circuitBreakerFailures
      BY <1>2 DEF RefusedByBreaker, RefusedByRateLimit, RefusedByConcurrency, TypeOK,
                  CheckCircuitBreaker, FailuresAfterCooldown, breaker
    <2> QED
      BY <2>1, <2>2, RoomStays
  <1>3. ASSUME NEW r \in Requests, Enter(r) \/ Answer(r)
        PROVE  circuitBreakerFailures' < CIRCUIT_BREAKER_THRESHOLD
    BY <1>3, ConfigAssumption
    DEF Enter, Answer, CheckCircuitBreaker, BreakerOpen, RecordSuccess, TypeOK,
        FailuresAfterCooldown
  <1>4. ASSUME NEW r \in Requests, FailAndRetry(r) \/ FailLastAttempt(r) \/ FailForGood(r)
        PROVE  Covered'
    <2>1. /\ pc[r] = "exec" /\ RecordFailure /\ UNCHANGED attempt
          /\ \E s \in {"backoff", "stopping", "idle"} : pc' = [pc EXCEPT ![r] = s]
      BY <1>4 DEF FailAndRetry, FailLastAttempt, FailForGood, Finally
    <2> QED
      BY <2>1, AttemptSpent, RoomSpent
  <1>5. ASSUME NEW r \in Requests,
               \/ ReadyTimeout(r) \/ ShutdownFails(r) \/ ShutdownDone(r)
               \/ Ready(r) \/ Resend(r) \/ Execute(r)
        PROVE  Covered'
    <2>1. Pending' \subseteq Pending
      <3> SUFFICES ASSUME NEW q \in Requests, NEW n \in Attempts, Left(q, n)'
                   PROVE  Left(q, n)
        BY DEF Pending
      <3>1. CASE Resend(r)
        BY <3>1 DEF TypeOK, Left, Attempts, Resend
      <3>2. CASE ~Resend(r)
        BY <1>5, <3>2 DEF TypeOK, Left, ReadyTimeout, ShutdownFails, ShutdownDone, Ready,
                          Execute
      <3> QED
        BY <3>1, <3>2
    <2>2. circuitBreakerFailures' = circuitBreakerFailures
      BY <1>5 DEF ReadyTimeout, ShutdownFails, ShutdownDone, Ready, Resend, Execute, breaker
    <2> QED
      BY <2>1, <2>2, RoomStays DEF TypeOK
  <1>6. CASE ClusterMoves \/ UserConnects \/ UserDisconnects \/ Tick \/ UNCHANGED vars
    <2>1. Pending' = Pending /\ circuitBreakerFailures' = circuitBreakerFailures
      BY <1>6 DEF ClusterMoves, UserConnects, UserDisconnects, Tick, vars, calls, breaker,
                  Pending, Left
    <2> QED
      BY <2>1, RoomStays DEF TypeOK
  <1> QED
    BY <1>1, <1>2, <1>3, <1>4, <1>5, <1>6 DEF Next, Step, PerformRequest, Resume

\* Once the breaker is open, the calls in flight add to its count at most every
\* attempt of every slot, whatever interleaves.
THEOREM LateFailuresAreBounded == Spec => []LateFailuresBounded
  <1>1. IInv /\ Covered => LateFailuresBounded
    <2> SUFFICES ASSUME IInv, Covered PROVE LateFailuresBounded
      OBVIOUS
    <2>1. circuitBreakerFailures \in Nat /\ AllAttempts \in Nat
      BY ConfigAssumption DEF IInv, TypeOK, AllAttempts
    <2> QED
      BY <2>1, PendingFinite, ConfigAssumption DEF Covered, LateFailuresBounded, AllAttempts
  <1>2. Spec => []Covered
    BY InitCovered, NextCovered, Invariant, PTL DEF Spec
  <1> QED
    BY <1>1, <1>2, Invariant, PTL
=============================================================================
