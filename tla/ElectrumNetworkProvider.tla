----------------------- MODULE ElectrumNetworkProvider -----------------------
(***************************************************************************)
(* packages/cashscript/src/network/ElectrumNetworkProvider.ts: one         *)
(* provider object shared by any number of asynchronous callers.           *)
(*                                                                         *)
(* An action is the synchronous run of performRequest() between two        *)
(* awaits: JavaScript interleaves callers only at an await.  pc[r] names   *)
(* the await call r is suspended in:                                       *)
(*   "idle"      not inside performRequest                                 *)
(*   "ready"     racing electrum.ready() against the request timeout       *)
(*   "exec"      racing electrum.request() against the request timeout     *)
(*   "backoff"   sleeping between two attempts                             *)
(*   "stopping"  awaiting disconnectCluster() in the finally block         *)
(* The cluster (the electrum-cash library) is external: its states are     *)
(* those its use here relies on.                                           *)
(***************************************************************************)
EXTENDS Integers, Sequences, FiniteSets

CONSTANTS
    Requests,                \* the concurrent callers of performRequest
    MAX_RETRIES,             \* attempts of one call
    MAX_CONCURRENT_REQUESTS, \* slots
    RATE_LIMIT_WINDOW,       \* length of the rate window, in ticks
    MAX_REQUESTS_PER_WINDOW, \* calls admitted in one window
    CIRCUIT_BREAKER_THRESHOLD, \* failures that open the breaker
    CIRCUIT_BREAKER_RESET    \* cool-down of the breaker, in ticks

ASSUME ConfigAssumption ==
    /\ IsFiniteSet(Requests)
    /\ MAX_RETRIES \in Nat \ {0}
    /\ MAX_CONCURRENT_REQUESTS \in Nat \ {0}
    /\ RATE_LIMIT_WINDOW \in Nat \ {0}
    /\ MAX_REQUESTS_PER_WINDOW \in Nat \ {0}
    /\ CIRCUIT_BREAKER_THRESHOLD \in Nat \ {0}
    /\ CIRCUIT_BREAKER_RESET \in Nat \ {0}

VARIABLES
    manualConnectionManagement, \* third argument of the constructor: never changes
    concurrentRequests,
    stamps,            \* every Date.now() enforceRateLimit ever pushed, in order
    requestTimestamps, \* the positions in stamps the array still holds
    circuitBreakerFailures,
    circuitBreakerLastFailure,
    pc,
    attempt,           \* the loop variable of each call
    outcome,           \* how the last call of each caller ends: its value or an error
    cluster,           \* "off", "starting", "on" or "stopping"
    now,               \* Date.now()
    leaked,            \* history: calls that left without giving their slot back
    executed           \* history: the server carried out the call's request

network == <<cluster, now>>
limits  == <<stamps, requestTimestamps>>
breaker == <<circuitBreakerFailures, circuitBreakerLastFailure>>
calls   == <<pc, attempt, outcome, executed>>
slots   == <<concurrentRequests, leaked>>
vars    == <<manualConnectionManagement, slots, limits, breaker, calls, network>>

PcStates == {"idle", "ready", "exec", "backoff", "stopping"}

TypeOK ==
    /\ manualConnectionManagement \in BOOLEAN
    /\ concurrentRequests \in Nat
    /\ stamps \in Seq(Nat)
    /\ requestTimestamps \subseteq DOMAIN stamps
    /\ circuitBreakerFailures \in Nat
    /\ circuitBreakerLastFailure \in Nat
    /\ pc \in [Requests -> PcStates]
    /\ attempt \in [Requests -> 0 .. MAX_RETRIES - 1]
    /\ outcome \in [Requests -> {"none", "value", "error"}]
    /\ cluster \in {"off", "starting", "on", "stopping"}
    /\ now \in Nat
    /\ leaked \in Nat
    /\ executed \in [Requests -> BOOLEAN]

\* Date.now() is far past the breaker's initial last failure, 0.
StartOfTime == CIRCUIT_BREAKER_RESET + 1

Init ==
    /\ manualConnectionManagement \in BOOLEAN
    /\ concurrentRequests = 0
    /\ stamps = <<>>
    /\ requestTimestamps = {}
    /\ circuitBreakerFailures = 0
    /\ circuitBreakerLastFailure = 0
    /\ pc = [r \in Requests |-> "idle"]
    /\ attempt = [r \in Requests |-> 0]
    /\ outcome = [r \in Requests |-> "none"]
    /\ cluster = "off"
    /\ now = StartOfTime
    /\ leaked = 0
    /\ executed = [r \in Requests |-> FALSE]

-----------------------------------------------------------------------------
(* The checks performRequest makes before its first await.                 *)

\* circuitBreakerFailures after the reset in checkCircuitBreaker
FailuresAfterCooldown ==
    IF now - circuitBreakerLastFailure > CIRCUIT_BREAKER_RESET
      THEN 0 ELSE circuitBreakerFailures

\* one failure more than the threshold
MutBreakerOpen == FailuresAfterCooldown > CIRCUIT_BREAKER_THRESHOLD

BreakerOpen == FailuresAfterCooldown >= CIRCUIT_BREAKER_THRESHOLD

\* checkCircuitBreaker, when it does not throw
CheckCircuitBreaker ==
    /\ ~BreakerOpen
    /\ circuitBreakerFailures' = FailuresAfterCooldown
    /\ UNCHANGED circuitBreakerLastFailure

\* a filter one tick short
MutInWindowShort == {i \in requestTimestamps : stamps[i] > now - RATE_LIMIT_WINDOW + 1}

\* the filter in enforceRateLimit
InWindow == {i \in requestTimestamps : stamps[i] > now - RATE_LIMIT_WINDOW}

RateLimited == Cardinality(InWindow) >= MAX_REQUESTS_PER_WINDOW

\* enforceRateLimit, when it does not throw
EnforceRateLimit ==
    /\ ~RateLimited
    /\ stamps' = Append(stamps, now)
    /\ requestTimestamps' = InWindow \cup {Len(stamps) + 1}

ShouldConnect == ~manualConnectionManagement /\ concurrentRequests = 0

\* the check for other requests is missing
MutDisconnectAlways == ~manualConnectionManagement

ShouldDisconnect == ~manualConnectionManagement /\ concurrentRequests = 1

\* electrum.startup(): a cluster that is up stays up
Startup == cluster' = IF cluster = "on" THEN "on" ELSE "starting"

\* The call leaves performRequest with an exception before it has a slot.
Refuse(r) ==
    /\ outcome' = [outcome EXCEPT ![r] = "error"]
    /\ executed' = [executed EXCEPT ![r] = FALSE]
    /\ UNCHANGED <<pc, attempt, slots, network>>

RefusedByBreaker(r) ==
    /\ pc[r] = "idle"
    /\ BreakerOpen
    /\ Refuse(r)
    /\ UNCHANGED <<limits, breaker>>

RefusedByRateLimit(r) ==
    /\ pc[r] = "idle"
    /\ CheckCircuitBreaker
    /\ RateLimited
    /\ requestTimestamps' = InWindow
    /\ Refuse(r)
    /\ UNCHANGED stamps

\* The refused call has already used up one place in the rate window.
RefusedByConcurrency(r) ==
    /\ pc[r] = "idle"
    /\ CheckCircuitBreaker
    /\ EnforceRateLimit
    /\ concurrentRequests >= MAX_CONCURRENT_REQUESTS
    /\ Refuse(r)

\* performRequest up to the await of electrum.ready(); connectCluster() is
\* called but not awaited.
Enter(r) ==
    /\ pc[r] = "idle"
    /\ CheckCircuitBreaker
    /\ EnforceRateLimit
    /\ concurrentRequests < MAX_CONCURRENT_REQUESTS
    /\ IF ShouldConnect THEN Startup ELSE UNCHANGED cluster
    /\ concurrentRequests' = concurrentRequests + 1
    /\ pc' = [pc EXCEPT ![r] = "ready"]
    /\ attempt' = [attempt EXCEPT ![r] = 0]
    /\ outcome' = [outcome EXCEPT ![r] = "none"]
    /\ executed' = [executed EXCEPT ![r] = FALSE]
    /\ UNCHANGED <<leaked, now>>

-----------------------------------------------------------------------------
(* The rest of performRequest.                                             *)

\* electrum.ready() resolves; the library may still report ready while a
\* shutdown is under way.
Ready(r) ==
    /\ pc[r] = "ready"
    /\ cluster \in {"on", "stopping"}
    /\ pc' = [pc EXCEPT ![r] = "exec"]
    /\ UNCHANGED <<attempt, outcome, executed, slots, limits, breaker, network>>

\* the slot is given back, but the cluster it started is left alone
MutReadyTimeout(r) ==
    /\ pc[r] = "ready"
    /\ pc' = [pc EXCEPT ![r] = "idle"]
    /\ outcome' = [outcome EXCEPT ![r] = "error"]
    /\ concurrentRequests' = concurrentRequests - 1
    /\ UNCHANGED <<attempt, executed, leaked, limits, breaker, network>>

\* electrum.ready() is awaited without a timeout
MutNoReadyTimeout(r) == FALSE

\* The race around electrum.ready() is lost.  It stands before the try: the
\* exception skips the finally block, so the slot is never given back.
ReadyTimeout(r) ==
    /\ pc[r] = "ready"
    /\ pc' = [pc EXCEPT ![r] = "idle"]
    /\ outcome' = [outcome EXCEPT ![r] = "error"]
    /\ leaked' = leaked + 1
    /\ UNCHANGED <<attempt, executed, concurrentRequests, limits, breaker, network>>

\* The finally block, entered with the outcome performRequest is to report.
\* The slot is given back after the shutdown, not before it.
Finally(r, result) ==
    /\ outcome' = [outcome EXCEPT ![r] = result]
    /\ \/ /\ ShouldDisconnect
          /\ cluster' = "stopping"
          /\ pc' = [pc EXCEPT ![r] = "stopping"]
          /\ UNCHANGED concurrentRequests
       \/ /\ ~ShouldDisconnect
          /\ concurrentRequests' = concurrentRequests - 1
          /\ pc' = [pc EXCEPT ![r] = "idle"]
          /\ UNCHANGED cluster

RecordSuccess ==
    /\ circuitBreakerFailures' = 0
    /\ UNCHANGED circuitBreakerLastFailure

RecordFailure ==
    /\ circuitBreakerFailures' = circuitBreakerFailures + 1
    /\ circuitBreakerLastFailure' = now

\* electrum.request() resolves.  An Error it resolves with counts as a success
\* of the connection and is thrown after the finally block.  A first attempt the
\* server carried out is not answered with an Error; a repeated one may be.
Answer(r) ==
    /\ pc[r] = "exec"
    /\ RecordSuccess
    /\ \E result \in {"value", "error"} :
         /\ result = "value" => executed[r]
         /\ result = "error" => ~executed[r] \/ attempt[r] > 0
         /\ Finally(r, result)
    /\ UNCHANGED <<attempt, executed, leaked, limits, now>>

\* one attempt too many
MutFailAndRetry(r) ==
    /\ pc[r] = "exec"
    /\ attempt[r] < MAX_RETRIES
    /\ RecordFailure
    /\ pc' = [pc EXCEPT ![r] = "backoff"]
    /\ UNCHANGED <<attempt, outcome, executed, slots, limits, network>>

\* The attempt is rejected or times out, and another one is allowed.
FailAndRetry(r) ==
    /\ pc[r] = "exec"
    /\ attempt[r] < MAX_RETRIES - 1
    /\ RecordFailure
    /\ pc' = [pc EXCEPT ![r] = "backoff"]
    /\ UNCHANGED <<attempt, outcome, executed, slots, limits, network>>

\* The last attempt is rejected or times out: the error is thrown through the
\* finally block.
FailLastAttempt(r) ==
    /\ pc[r] = "exec"
    /\ attempt[r] = MAX_RETRIES - 1
    /\ RecordFailure
    /\ Finally(r, "error")
    /\ UNCHANGED <<attempt, executed, leaked, limits, now>>

\* An attempt is rejected with an error isNonRetryableError knows: a server that
\* has carried out a first attempt does not call it malformed.
FailForGood(r) ==
    /\ pc[r] = "exec"
    /\ ~executed[r] \/ attempt[r] > 0
    /\ RecordFailure
    /\ Finally(r, "error")
    /\ UNCHANGED <<attempt, executed, leaked, limits, now>>

\* sleep() is over: the loop goes round and sends the same request again.
Resend(r) ==
    /\ pc[r] = "backoff"
    /\ pc' = [pc EXCEPT ![r] = "exec"]
    /\ attempt' = [attempt EXCEPT ![r] = @ + 1]
    /\ UNCHANGED <<outcome, executed, slots, limits, breaker, network>>

\* the decrement was made before the shutdown was awaited
MutShutdownDone(r) ==
    /\ pc[r] = "stopping"
    /\ cluster' = "off"
    /\ pc' = [pc EXCEPT ![r] = "idle"]
    /\ UNCHANGED <<attempt, outcome, executed, slots, limits, breaker, now>>

\* shutdown() resolves and the finally block ends.
ShutdownDone(r) ==
    /\ pc[r] = "stopping"
    /\ cluster' = "off"
    /\ concurrentRequests' = concurrentRequests - 1
    /\ pc' = [pc EXCEPT ![r] = "idle"]
    /\ UNCHANGED <<attempt, outcome, executed, leaked, limits, breaker, now>>

\* shutdown() rejects: the finally block is left before the decrement, and its
\* exception replaces whatever the call was about to return.
ShutdownFails(r) ==
    /\ pc[r] = "stopping"
    /\ cluster' \in {"off", "on"}
    /\ pc' = [pc EXCEPT ![r] = "idle"]
    /\ outcome' = [outcome EXCEPT ![r] = "error"]
    /\ leaked' = leaked + 1
    /\ UNCHANGED <<attempt, executed, concurrentRequests, limits, breaker, now>>

-----------------------------------------------------------------------------
(* The cluster and the clock.                                              *)

\* The server carries out the request of an attempt; its answer may still be
\* lost or late.
Execute(r) ==
    /\ pc[r] = "exec"
    /\ cluster = "on"
    /\ ~executed[r]
    /\ executed' = [executed EXCEPT ![r] = TRUE]
    /\ UNCHANGED <<pc, attempt, outcome, slots, limits, breaker, network>>

\* startup() succeeds or fails (connectCluster swallows the exception); a
\* connected cluster may lose its server and try to reconnect.
ClusterMoves ==
    /\ \/ cluster = "starting" /\ cluster' \in {"on", "off"}
       \/ cluster = "on" /\ cluster' = "starting"
    /\ UNCHANGED <<slots, limits, breaker, calls, now>>

\* With manual connection management the application calls the public
\* connectCluster() and disconnectCluster().
UserConnects ==
    /\ manualConnectionManagement
    /\ cluster = "off"
    /\ Startup
    /\ UNCHANGED <<slots, limits, breaker, calls, now>>

UserDisconnects ==
    /\ manualConnectionManagement
    /\ cluster \in {"starting", "on"}
    /\ cluster' = "off"
    /\ UNCHANGED <<slots, limits, breaker, calls, now>>

Tick ==
    /\ now' = now + 1
    /\ UNCHANGED <<slots, limits, breaker, calls, cluster>>

-----------------------------------------------------------------------------
PerformRequest(r) ==
    \/ RefusedByBreaker(r)
    \/ RefusedByRateLimit(r)
    \/ RefusedByConcurrency(r)
    \/ Enter(r)

\* What resumes a suspended call, whatever the network does: its timers, and
\* the end of the shutdown it awaits.
Resume(r) ==
    \/ ReadyTimeout(r)
    \/ FailAndRetry(r)
    \/ FailLastAttempt(r)
    \/ Resend(r)
    \/ ShutdownDone(r)
    \/ ShutdownFails(r)

Step(r) ==
    \/ PerformRequest(r)
    \/ Resume(r)
    \/ Ready(r)
    \/ Answer(r)
    \/ FailForGood(r)
    \/ Execute(r)

SameManagement == UNCHANGED manualConnectionManagement

Next ==
    /\ SameManagement
    /\ \/ \E r \in Requests : Step(r)
       \/ ClusterMoves
       \/ UserConnects
       \/ UserDisconnects
       \/ Tick

Spec == Init /\ [][Next]_vars

(* setTimeout fires, so every race and every sleep ends.  shutdown() has no *)
(* timeout in the code: that it settles is assumed of the library.          *)
Fairness == \A r \in Requests : WF_vars(Resume(r) /\ SameManagement)

FairSpec == Spec /\ Fairness

-----------------------------------------------------------------------------
(* What the provider promises.                                             *)

Holders == {r \in Requests : pc[r] # "idle"}

\* The connection as its callers see it: a counter that is read before the awaits
\* and written after them stands for the set of its users.
Connection == INSTANCE SharedConnection
    WITH Callers <- Requests, Slots <- MAX_CONCURRENT_REQUESTS,
         managed <- ~manualConnectionManagement,
         users   <- Holders,
         closing <- {r \in Requests : pc[r] = "stopping"},
         lost    <- leaked,
         link    <- cluster

\* Every interleaving of performRequest behaves as the shared connection does: one
\* caller starts it, from "off"; only a caller with no other inside shuts it down,
\* at most one shutdown is under way, and a manually managed one is left alone.
ImplementsSharedConnection == Connection!Spec

\* Every slot is held by a call inside performRequest or was leaked by one, and
\* the limit on concurrent requests is never exceeded: no interleaving of the
\* check, the increment and the decrement loses or duplicates a slot.
SlotAccounting ==
    /\ concurrentRequests = Cardinality(Holders) + leaked
    /\ concurrentRequests <= MAX_CONCURRENT_REQUESTS

\* Without manual management the cluster is up only while a slot is taken.  So a
\* call that finds no slot taken starts a cluster that is off, and never one
\* whose shutdown is still awaited.
NoOrphanConnection ==
    ~manualConnectionManagement /\ concurrentRequests = 0 => cluster = "off"

\* performRequest starts to shut the cluster down only when no other call is
\* inside performRequest, whatever await that call is suspended in.
ShutdownOnlyByLast ==
    [][ \A r \in Requests :
          pc[r] # "stopping" /\ pc'[r] = "stopping" => Holders = {r} ]_vars

\* With manual management performRequest leaves the cluster alone.
ManualIsManual ==
    [][ manualConnectionManagement /\ pc' # pc => cluster' = cluster ]_vars

\* In any RATE_LIMIT_WINDOW, wherever it begins, at most MAX_REQUESTS_PER_WINDOW
\* calls pass enforceRateLimit, although it forgets the stamps it filters out.
RateWindow ==
    \A i \in DOMAIN stamps :
      i + MAX_REQUESTS_PER_WINDOW \in DOMAIN stamps =>
        stamps[i + MAX_REQUESTS_PER_WINDOW] - stamps[i] >= RATE_LIMIT_WINDOW

\* Calls in flight when the breaker opens go on: each of their retries may record
\* one more failure and put the cool-down off.  No call joins them until a cool-down
\* has reset the count, so together they add at most every attempt of every slot.
LateFailuresBounded ==
    circuitBreakerFailures
      < CIRCUIT_BREAKER_THRESHOLD + MAX_CONCURRENT_REQUESTS * MAX_RETRIES

\* Every call leaves performRequest: no combination of lost connections, retries
\* and shutdowns suspends it for ever.
CallsSettle == \A r \in Requests : pc[r] # "idle" ~> pc[r] = "idle"

\* The comment in the finally block: "Always disconnect the cluster, also if the
\* request fails as long as no other concurrent requests are running".
AlwaysDisconnects ==
    ~manualConnectionManagement /\ Holders = {} => cluster = "off"

\* NetworkProvider.ts on sendRawTransaction: "@throws {Error} If the transaction
\* was not accepted by the network."  (leaked = 0 leaves aside the call whose
\* result a failing shutdown replaces.)
ErrorMeansNotAccepted ==
    \A r \in Requests :
      leaked = 0 /\ pc[r] = "idle" /\ outcome[r] = "error" => ~executed[r]
=============================================================================
