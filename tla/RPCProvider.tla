---------------------------- MODULE RPCProvider ----------------------------
(***************************************************************************)
(* The provider's endpoint bootstrap: RPCProvider.Start,                   *)
(* SetupProviderEndpoints, SetupEndpoint and RetryDisabledEndpoints of     *)
(* src/protocol/rpcprovider/rpcprovider.go.                                *)
(*                                                                         *)
(* Every configured endpoint is set up by its own goroutine.  Setup steps  *)
(* that touch only the endpoint's own objects are one action; the steps    *)
(* that touch shared state are separate actions, so that the goroutines    *)
(* interleave where the code lets them:                                    *)
(*   - the per-chain critical section (chainCommonSetup) that looks up or  *)
(*     creates the chain tracker under rpcp.chainMutexes[chainID];         *)
(*   - the listener registry rpcp.rpcProviderListeners under rpcp.lock;    *)
(*   - the reward server's databases;                                      *)
(*   - the shutdown loop of Start, which runs while the retry goroutine    *)
(*     may still be setting endpoints up.                                  *)
(* A step that can fail (node unreachable, spec registration refused, ...) *)
(* fails at most MaxFailures times per endpoint; an endpoint whose         *)
(* descriptor is invalid fails its Validate() on every attempt.            *)
(***************************************************************************)
EXTENDS Naturals, FiniteSets, Functions

CONSTANTS
    Config,       \* the endpoint descriptors, in configuration order:
                  \*   [chain, iface, addr, valid]; addr = NoAddress is "" in the file
    NoAddress,    \* the empty network address
    MaxFailures,  \* transient setup failures an endpoint may suffer
    MaxRetry,     \* bound on retryCount of RetryDisabledEndpoints
    None          \* "no value": an unlocked mutex, an absent map entry

ASSUME /\ Config # <<>>
       /\ MaxFailures \in Nat
       /\ MaxRetry \in Nat \ {0}

Endpoints == DOMAIN Config
Chains    == {Config[e].chain : e \in Endpoints}
Chain(e)  == Config[e].chain

(* The metrics manager keys its enabled-chain gauge by chain and API      *)
(* interface, not by endpoint.                                             *)
Key(e) == <<Config[e].chain, Config[e].iface>>
Keys   == {Key(e) : e \in Endpoints}

(* Start, before setting endpoints up: an endpoint with an empty address    *)
(* takes the (already resolved) address of the endpoint before it, so that *)
(* consecutive endpoints share a listener.                                 *)
RECURSIVE ResolvedAddress(_)
ResolvedAddress(e) ==
    IF e > 1 /\ Config[e].addr = NoAddress
    THEN ResolvedAddress(e - 1)
    ELSE Config[e].addr

Addr(e) == ResolvedAddress(e)
Addrs   == {Addr(e) : e \in Endpoints}

(* Trackers and listeners are objects: the k-th one created for a chain or *)
(* an address is <<chain, k>> / <<addr, k>>, so identity is observable.    *)
Trackers  == Chains \X (1..(Cardinality(Endpoints) * (MaxFailures + 1)))
Listeners == Addrs \X (1..Cardinality(Endpoints))

(* Program counter of the goroutine that sets endpoint e up.               *)
(*   idle      Start has not called SetupProviderEndpoints yet             *)
(*   queued    waiting for its turn in a serial call                       *)
(*   start     SetupEndpoint entered                                       *)
(*   lock      waiting for the chain mutex                                 *)
(*   lookup    holds the chain mutex, GetTrackerPerChain                   *)
(*   create    NewChainTracker                                             *)
(*   verify    RegisterForSpecVerifications and SetTrackerForChain         *)
(*   fetcher   AddChainFetcher ... ServeRPCRequests                        *)
(*   llock     waiting for rpcp.lock                                       *)
(*   llookup   holds rpcp.lock, looks the listener up                      *)
(*   lcreate   holds rpcp.lock, NewProviderListener                        *)
(*   register  RegisterReceiver, Activate, SetEnabledChain                 *)
(*   done / failed   SetupEndpoint returned nil / an error                 *)
Busy     == {"start", "lock", "lookup", "create", "verify", "fetcher",
             "llock", "llookup", "lcreate", "register"}
Finished == {"done", "failed"}
PCs      == {"idle", "queued"} \cup Busy \cup Finished

VARIABLES
    phase,             \* Start: "boot", "setup", "serving", "draining", "stopped", "fatal"
    pc,                \* [Endpoints -> PCs]
    failures,          \* transient failures suffered so far, per endpoint
    chainLock,         \* rpcp.chainMutexes: holder per chain, or None
    chainTrackers,     \* rpcp.chainTrackers: tracker per chain, or None
    trackersMade,      \* trackers NewChainTracker created, per chain
    specVerifications, \* successful RegisterForSpecVerifications, per chain
    tracker,           \* SetupEndpoint's local chainTracker, per endpoint
    listenerLock,      \* rpcp.lock: holder, or None
    listeners,         \* rpcp.rpcProviderListeners: listener per address, or None
    listenersMade,     \* listeners NewProviderListener created, per address
    listener,          \* SetupEndpoint's local listener, per endpoint
    receivers,         \* <<listener, endpoint>> pairs of RegisterReceiver
    enabled,           \* endpoints whose SetupEndpoint returned nil
    batch,             \* endpoints of the running SetupProviderEndpoints call
    parallel,          \* its parallel flag
    disabled,          \* its disabledEndpoints channel
    retry,             \* retry goroutine: "off", "sleeping", "running", "exhausted"
    retryCount,        \* its retryCount argument
    rewardDBs,         \* chains the reward server holds a database for
    dbsClosed,         \* CloseAllDataBases has run
    drainSet,          \* listeners in the map when the shutdown loop began
    drained,           \* listeners Shutdown was called on
    metric             \* the enabled-chain gauge per chain and interface

chainVars    == <<chainLock, chainTrackers, trackersMade, specVerifications, tracker>>
listenerVars == <<listenerLock, listeners, listenersMade, listener, receivers>>
batchVars    == <<batch, parallel, disabled>>
retryVars    == <<retry, retryCount>>
stopVars     == <<rewardDBs, dbsClosed, drainSet, drained>>
vars == <<phase, pc, failures, enabled, chainVars, listenerVars, batchVars,
          retryVars, stopVars, metric>>

TypeOK ==
    /\ phase \in {"boot", "setup", "serving", "draining", "stopped", "fatal"}
    /\ pc \in [Endpoints -> PCs]
    /\ failures \in [Endpoints -> 0..MaxFailures]
    /\ chainLock \in [Chains -> Endpoints \cup {None}]
    /\ chainTrackers \in [Chains -> Trackers \cup {None}]
    /\ trackersMade \in [Chains -> Nat]
    /\ specVerifications \in [Chains -> Nat]
    /\ tracker \in [Endpoints -> Trackers \cup {None}]
    /\ listenerLock \in Endpoints \cup {None}
    /\ listeners \in [Addrs -> Listeners \cup {None}]
    /\ listenersMade \in [Addrs -> Nat]
    /\ listener \in [Endpoints -> Listeners \cup {None}]
    /\ receivers \subseteq Listeners \X Endpoints
    /\ enabled \subseteq Endpoints
    /\ batch \subseteq Endpoints /\ disabled \subseteq batch
    /\ parallel \in BOOLEAN
    /\ retry \in {"off", "sleeping", "running", "exhausted"}
    /\ retryCount \in 0..MaxRetry
    /\ rewardDBs \subseteq Chains /\ dbsClosed \in BOOLEAN
    /\ drainSet \subseteq Listeners /\ drained \subseteq Listeners
    /\ metric \in [Keys -> {"unset", "enabled", "disabled"}]

Alive == phase \in {"setup", "serving", "draining"}

(* Start is entered: nothing is set up yet.                                *)
Init ==
    /\ phase = "boot"
    /\ pc = [e \in Endpoints |-> "idle"]
    /\ failures = [e \in Endpoints |-> 0]
    /\ chainLock = [c \in Chains |-> None]
    /\ chainTrackers = [c \in Chains |-> None]
    /\ trackersMade = [c \in Chains |-> 0]
    /\ specVerifications = [c \in Chains |-> 0]
    /\ tracker = [e \in Endpoints |-> None]
    /\ listenerLock = None
    /\ listeners = [a \in Addrs |-> None]
    /\ listenersMade = [a \in Addrs |-> 0]
    /\ listener = [e \in Endpoints |-> None]
    /\ receivers = {}
    /\ enabled = {}
    /\ batch = {} /\ parallel = TRUE /\ disabled = {}
    /\ retry = "off" /\ retryCount = 0
    /\ rewardDBs = {} /\ dbsClosed = FALSE
    /\ drainSet = {} /\ drained = {}
    /\ metric = [k \in Keys |-> "unset"]

-----------------------------------------------------------------------------
(* The setup goroutine of one endpoint.                                    *)

CanFail(e) == failures[e] < MaxFailures

(* SetupEndpoint returned an error: the goroutine sends the endpoint on    *)
(* the disabledEndpoints channel and calls wg.Done, after SetDisabledChain *)
(* marked its chain and interface disabled.  A transient failure counts   *)
(* against the endpoint's MaxFailures.                                     *)
FailSetup(e, transient) ==
    /\ pc' = [pc EXCEPT ![e] = "failed"]
    /\ metric' = [metric EXCEPT ![Key(e)] = "disabled"]
    /\ disabled' = disabled \cup {e}
    /\ failures' = IF transient THEN [failures EXCEPT ![e] = @ + 1] ELSE failures

(* Serial SetupProviderEndpoints: the next endpoint starts only once the   *)
(* previous SetupEndpoint call has returned.                               *)
Begin(e) ==
    /\ Alive
    /\ pc[e] = "queued"
    /\ \A o \in batch : pc[o] \notin Busy
    /\ pc' = [pc EXCEPT ![e] = "start"]
    /\ UNCHANGED <<phase, failures, enabled, chainVars, listenerVars,
                   batchVars, retryVars, stopVars, metric>>

(* Validate, NewProviderSessionManager, NewChainParser,                    *)
(* RegisterForSpecUpdates, SetPolicy, GetChainRouter and the chain         *)
(* fetcher's Validate: only the endpoint's own objects.  An invalid        *)
(* descriptor fails Validate; the later calls may fail transiently.        *)
SetupPrelude(e) ==
    /\ Alive
    /\ pc[e] = "start"
    /\ \/ /\ ~Config[e].valid
          /\ FailSetup(e, FALSE)
       \/ /\ Config[e].valid
          /\ CanFail(e)
          /\ FailSetup(e, TRUE)
       \/ /\ Config[e].valid
          /\ pc' = [pc EXCEPT ![e] = "lock"]
          /\ UNCHANGED <<failures, disabled, metric>>
    /\ UNCHANGED <<phase, enabled, chainVars, listenerVars, batch, parallel,
                   retryVars, stopVars>>

(* Faulty variant: the chain mutex is taken without waiting for it.       *)
ChainLockNoWait(e) ==
    /\ Alive
    /\ pc[e] = "lock"
    /\ chainLock' = [chainLock EXCEPT ![Chain(e)] = e]
    /\ pc' = [pc EXCEPT ![e] = "lookup"]
    /\ UNCHANGED <<phase, failures, enabled, chainTrackers, trackersMade,
                   specVerifications, tracker, listenerVars, batchVars,
                   retryVars, stopVars, metric>>

(* chainCommonSetup: rpcp.chainMutexes[chainID].Lock().                    *)
ChainLock(e) ==
    /\ Alive
    /\ pc[e] = "lock"
    /\ chainLock[Chain(e)] = None
    /\ chainLock' = [chainLock EXCEPT ![Chain(e)] = e]
    /\ pc' = [pc EXCEPT ![e] = "lookup"]
    /\ UNCHANGED <<phase, failures, enabled, chainTrackers, trackersMade,
                   specVerifications, tracker, listenerVars, batchVars,
                   retryVars, stopVars, metric>>

(* GetTrackerPerChain: a tracker found is reused and the mutex released    *)
(* (deferred Unlock); otherwise a new one is made.                         *)
ChainLookup(e) ==
    /\ Alive
    /\ pc[e] = "lookup"
    /\ \/ /\ chainTrackers[Chain(e)] # None
          /\ tracker' = [tracker EXCEPT ![e] = chainTrackers[Chain(e)]]
          /\ chainLock' = [chainLock EXCEPT ![Chain(e)] = None]
          /\ pc' = [pc EXCEPT ![e] = "fetcher"]
       \/ /\ chainTrackers[Chain(e)] = None
          /\ pc' = [pc EXCEPT ![e] = "create"]
          /\ UNCHANGED <<tracker, chainLock>>
    /\ UNCHANGED <<phase, failures, enabled, chainTrackers, trackersMade,
                   specVerifications, listenerVars, batchVars, retryVars,
                   stopVars, metric>>

(* Faulty variant: the error path returns without releasing the mutex.    *)
CreateTrackerKeepsLock(e) ==
    /\ Alive
    /\ pc[e] = "create"
    /\ \/ /\ CanFail(e)
          /\ FailSetup(e, TRUE)
          /\ UNCHANGED <<trackersMade, tracker, chainLock>>
       \/ /\ trackersMade' = [trackersMade EXCEPT ![Chain(e)] = @ + 1]
          /\ tracker' = [tracker EXCEPT ![e] = <<Chain(e), trackersMade'[Chain(e)]>>]
          /\ pc' = [pc EXCEPT ![e] = "verify"]
          /\ UNCHANGED <<chainLock, failures, disabled, metric>>
    /\ UNCHANGED <<phase, enabled, chainTrackers, specVerifications,
                   listenerVars, batch, parallel, retryVars, stopVars>>

(* NewChainTracker.  On error chainCommonSetup returns, the deferred       *)
(* Unlock runs, and SetupEndpoint fails.                                   *)
CreateTracker(e) ==
    /\ Alive
    /\ pc[e] = "create"
    /\ \/ /\ CanFail(e)
          /\ chainLock' = [chainLock EXCEPT ![Chain(e)] = None]
          /\ FailSetup(e, TRUE)
          /\ UNCHANGED <<trackersMade, tracker>>
       \/ /\ trackersMade' = [trackersMade EXCEPT ![Chain(e)] = @ + 1]
          /\ tracker' = [tracker EXCEPT ![e] = <<Chain(e), trackersMade'[Chain(e)]>>]
          /\ pc' = [pc EXCEPT ![e] = "verify"]
          /\ UNCHANGED <<chainLock, failures, disabled, metric>>
    /\ UNCHANGED <<phase, enabled, chainTrackers, specVerifications,
                   listenerVars, batch, parallel, retryVars, stopVars>>

(* RegisterForSpecVerifications, then SetTrackerForChain: the tracker is   *)
(* stored only once every validation passed.  The mutex is released on     *)
(* both paths.                                                             *)
RegisterSpecVerification(e) ==
    /\ Alive
    /\ pc[e] = "verify"
    /\ chainLock' = [chainLock EXCEPT ![Chain(e)] = None]
    /\ \/ /\ CanFail(e)
          /\ FailSetup(e, TRUE)
          /\ UNCHANGED <<specVerifications, chainTrackers>>
       \/ /\ specVerifications' = [specVerifications EXCEPT ![Chain(e)] = @ + 1]
          /\ chainTrackers' = [chainTrackers EXCEPT ![Chain(e)] = tracker[e]]
          /\ pc' = [pc EXCEPT ![e] = "fetcher"]
          /\ UNCHANGED <<failures, disabled, metric>>
    /\ UNCHANGED <<phase, enabled, trackersMade, tracker, listenerVars,
                   batch, parallel, retryVars, stopVars>>

(* AddChainFetcher (the spec validator validates the chain and may         *)
(* refuse), then AddProviderMetrics, NewReliabilityManager and its vote    *)
(* registration, rewardServer.AddDataBase, the relays monitor and          *)
(* ServeRPCRequests.                                                       *)
AddChainFetcher(e) ==
    /\ Alive
    /\ pc[e] = "fetcher"
    /\ \/ /\ CanFail(e)
          /\ FailSetup(e, TRUE)
          /\ UNCHANGED rewardDBs
       \/ /\ rewardDBs' = rewardDBs \cup {Chain(e)}
          /\ pc' = [pc EXCEPT ![e] = "llock"]
          /\ UNCHANGED <<failures, disabled, metric>>
    /\ UNCHANGED <<phase, enabled, chainVars, listenerVars, batch, parallel,
                   retryVars, dbsClosed, drainSet, drained>>

(* Faulty variant: rpcp.lock is taken without waiting for it.             *)
ListenerLockNoWait(e) ==
    /\ Alive
    /\ pc[e] = "llock"
    /\ listenerLock' = e
    /\ pc' = [pc EXCEPT ![e] = "llookup"]
    /\ UNCHANGED <<phase, failures, enabled, chainVars, listeners,
                   listenersMade, listener, receivers, batchVars, retryVars,
                   stopVars, metric>>

(* rpcp.lock.Lock() around the listener look-up-or-create.                 *)
ListenerLock(e) ==
    /\ Alive
    /\ pc[e] = "llock"
    /\ listenerLock = None
    /\ listenerLock' = e
    /\ pc' = [pc EXCEPT ![e] = "llookup"]
    /\ UNCHANGED <<phase, failures, enabled, chainVars, listeners,
                   listenersMade, listener, receivers, batchVars, retryVars,
                   stopVars, metric>>

(* rpcProviderListeners[address]: a listener found is taken and the lock   *)
(* released.                                                               *)
ListenerLookup(e) ==
    /\ Alive
    /\ pc[e] = "llookup"
    /\ \/ /\ listeners[Addr(e)] # None
          /\ listener' = [listener EXCEPT ![e] = listeners[Addr(e)]]
          /\ listenerLock' = None
          /\ pc' = [pc EXCEPT ![e] = "register"]
       \/ /\ listeners[Addr(e)] = None
          /\ pc' = [pc EXCEPT ![e] = "lcreate"]
          /\ UNCHANGED <<listener, listenerLock>>
    /\ UNCHANGED <<phase, failures, enabled, chainVars, listeners,
                   listenersMade, receivers, batchVars, retryVars, stopVars, metric>>

(* NewProviderListener, AddRPCProviderListener, store in the map, and the  *)
(* deferred Unlock.                                                        *)
ListenerCreate(e) ==
    /\ Alive
    /\ pc[e] = "lcreate"
    /\ LET l == <<Addr(e), listenersMade[Addr(e)] + 1>>
       IN /\ listenersMade' = [listenersMade EXCEPT ![Addr(e)] = @ + 1]
          /\ listeners' = [listeners EXCEPT ![Addr(e)] = l]
          /\ listener' = [listener EXCEPT ![e] = l]
    /\ listenerLock' = None
    /\ pc' = [pc EXCEPT ![e] = "register"]
    /\ UNCHANGED <<phase, failures, enabled, chainVars, receivers, batchVars,
                   retryVars, stopVars, metric>>

(* RegisterReceiver (an error is only logged), Activate,                   *)
(* RegisterForBlockTimeUpdates, SetEnabledChain: SetupEndpoint returns nil.*)
Register(e) ==
    /\ Alive
    /\ pc[e] = "register"
    /\ receivers' = receivers \cup {<<listener[e], e>>}
    /\ enabled' = enabled \cup {e}
    /\ metric' = [metric EXCEPT ![Key(e)] = "enabled"]
    /\ pc' = [pc EXCEPT ![e] = "done"]
    /\ UNCHANGED <<phase, failures, chainVars, listenerLock, listeners,
                   listenersMade, listener, batchVars, retryVars, stopVars>>

-----------------------------------------------------------------------------
(* Start and the retry goroutine.                                          *)

BatchDone == \A e \in batch : pc[e] \in Finished

(* A SetupProviderEndpoints call over the endpoints in `list`.             *)
StartBatch(list, par) ==
    /\ batch' = list
    /\ parallel' = par
    /\ disabled' = {}
    /\ pc' = [e \in Endpoints |-> IF e \in list
                                  THEN IF par THEN "start" ELSE "queued"
                                  ELSE pc[e]]

(* Start, lines 140-216, before any endpoint is set up: the state tracker  *)
(* (NewProviderStateTracker), the protocol version, the reward server,    *)
(* the key name, private key and address, and the epoch size.  An error   *)
(* of NewProviderStateTracker or GetPubKey is returned, the other         *)
(* failures are LavaFormatFatal: either way the process ends with no      *)
(* endpoint set up.  Otherwise the chain mutexes are made and the empty   *)
(* addresses resolved (Chains and Addr), and the first, parallel          *)
(* SetupProviderEndpoints call starts over every configured endpoint.     *)
Boot ==
    /\ phase = "boot"
    /\ \/ /\ phase' = "fatal"
          /\ UNCHANGED <<pc, batchVars>>
       \/ /\ phase' = "setup"
          /\ StartBatch(Endpoints, TRUE)
    /\ UNCHANGED <<failures, enabled, chainVars, listenerVars, retryVars, stopVars, metric>>

(* Faulty variant: no fatal check; Start serves whatever came up.          *)
FinishFirstPassNoFatal ==
    /\ phase = "setup"
    /\ BatchDone
    /\ phase' = "serving"
    /\ IF disabled # {}
       THEN retry' = "sleeping" /\ retryCount' = 1
       ELSE UNCHANGED retryVars
    /\ UNCHANGED <<pc, failures, enabled, chainVars, listenerVars, batchVars,
                   stopVars, metric>>

(* Faulty variant: the retry goroutine is never started.                   *)
FinishFirstPassNoRetry ==
    /\ phase = "setup"
    /\ BatchDone
    /\ phase' = IF disabled = Endpoints THEN "fatal" ELSE "serving"
    /\ UNCHANGED <<pc, failures, enabled, chainVars, listenerVars, batchVars,
                   retryVars, stopVars, metric>>

(* Start, after the first SetupProviderEndpoints: fatal if every endpoint  *)
(* is disabled; otherwise serve, retrying the disabled ones in a goroutine *)
(* (RetryDisabledEndpoints with retryCount 1).                             *)
FinishFirstPass ==
    /\ phase = "setup"
    /\ BatchDone
    /\ IF disabled = Endpoints
       THEN /\ phase' = "fatal"
            /\ UNCHANGED retryVars
       ELSE /\ phase' = "serving"
            /\ IF disabled # {}
               THEN retry' = "sleeping" /\ retryCount' = 1
               ELSE UNCHANGED retryVars
    /\ UNCHANGED <<pc, failures, enabled, chainVars, listenerVars, batchVars,
                   stopVars, metric>>

(* Faulty variant: the retry round sets up the whole previous batch,     *)
(* enabled endpoints included.                                           *)
RetryWakeWholeBatch ==
    /\ Alive
    /\ retry = "sleeping"
    /\ retry' = "running"
    /\ StartBatch(batch, retryCount > 2)
    /\ UNCHANGED <<phase, failures, enabled, chainVars, listenerVars,
                   retryCount, stopVars, metric>>

(* RetryDisabledEndpoints: sleep retryCount seconds, then                  *)
(* SetupProviderEndpoints over the disabled list, parallel only after the  *)
(* second retry.                                                           *)
RetryWake ==
    /\ Alive
    /\ retry = "sleeping"
    /\ retry' = "running"
    /\ StartBatch(disabled, retryCount > 2)
    /\ UNCHANGED <<phase, failures, enabled, chainVars, listenerVars,
                   retryCount, stopVars, metric>>

(* Faulty variant: the next round retries the whole list it was given     *)
(* (disabledEndpoints) instead of disabledEndpointsAfterRetry.             *)
RetryFinishWholeList ==
    /\ Alive
    /\ retry = "running"
    /\ BatchDone
    /\ retry' = IF disabled = {} THEN "off"
                ELSE IF retryCount < MaxRetry THEN "sleeping" ELSE "exhausted"
    /\ retryCount' = IF disabled # {} /\ retryCount < MaxRetry
                     THEN retryCount + 1 ELSE retryCount
    /\ disabled' = batch
    /\ UNCHANGED <<phase, pc, failures, enabled, chainVars, listenerVars,
                   batch, parallel, stopVars, metric>>

(* The retried setup returned: recurse with retryCount + 1 over what is    *)
(* still disabled (the recursion is cut at MaxRetry, a bound of the model).*)
RetryFinish ==
    /\ Alive
    /\ retry = "running"
    /\ BatchDone
    /\ retry' = IF disabled = {} THEN "off"
                ELSE IF retryCount < MaxRetry THEN "sleeping" ELSE "exhausted"
    /\ retryCount' = IF disabled # {} /\ retryCount < MaxRetry
                     THEN retryCount + 1 ELSE retryCount
    /\ UNCHANGED <<phase, pc, failures, enabled, chainVars, listenerVars,
                   batchVars, stopVars, metric>>

(* ctx.Done() or the interrupt signal: the shutdown loop begins ranging    *)
(* over rpcp.rpcProviderListeners.                                         *)
Interrupt ==
    /\ phase = "serving"
    /\ phase' = "draining"
    /\ drainSet' = Range(listeners) \ {None}
    /\ UNCHANGED <<pc, failures, enabled, chainVars, listenerVars, batchVars,
                   retryVars, rewardDBs, dbsClosed, drained, metric>>

(* listener.Shutdown for one listener of the map.  The range loop may or   *)
(* may not visit an entry added while it runs.                             *)
DrainListener(l) ==
    /\ phase = "draining"
    /\ l \in Range(listeners) \ drained
    /\ drained' = drained \cup {l}
    /\ UNCHANGED <<phase, pc, failures, enabled, chainVars, listenerVars,
                   batchVars, retryVars, rewardDBs, dbsClosed, drainSet, metric>>

(* The loop has visited every listener it started with; then               *)
(* CloseAllDataBases and Start returns, ending the process.                *)
CloseDatabases ==
    /\ phase = "draining"
    /\ drainSet \subseteq drained
    /\ dbsClosed' = TRUE
    /\ phase' = "stopped"
    /\ UNCHANGED <<pc, failures, enabled, chainVars, listenerVars, batchVars,
                   retryVars, rewardDBs, drainSet, drained, metric>>

(* The process has exited (Start returned, or LavaFormatFatal).            *)
Terminated ==
    /\ phase \in {"stopped", "fatal"}
    /\ UNCHANGED vars

EndpointStep(e) ==
    \/ Begin(e) \/ SetupPrelude(e) \/ ChainLock(e) \/ ChainLookup(e)
    \/ CreateTracker(e) \/ RegisterSpecVerification(e) \/ AddChainFetcher(e)
    \/ ListenerLock(e) \/ ListenerLookup(e) \/ ListenerCreate(e) \/ Register(e)

Next ==
    \/ \E e \in Endpoints : EndpointStep(e)
    \/ Boot \/ FinishFirstPass \/ RetryWake \/ RetryFinish
    \/ Interrupt \/ CloseDatabases
    \/ \E l \in Listeners : DrainListener(l)
    \/ Terminated

(* Goroutines are scheduled fairly by the Go runtime; a sync.Mutex hands   *)
(* itself to a waiter that has starved for 1ms, so acquiring a mutex that  *)
(* is free infinitely often is strongly fair.  The interrupt is not fair:  *)
(* the provider may serve forever.                                         *)
Fairness ==
    /\ \A e \in Endpoints :
          /\ WF_vars(Begin(e)) /\ WF_vars(SetupPrelude(e))
          /\ SF_vars(ChainLock(e)) /\ WF_vars(ChainLookup(e))
          /\ WF_vars(CreateTracker(e)) /\ WF_vars(RegisterSpecVerification(e))
          /\ WF_vars(AddChainFetcher(e)) /\ SF_vars(ListenerLock(e))
          /\ WF_vars(ListenerLookup(e)) /\ WF_vars(ListenerCreate(e))
          /\ WF_vars(Register(e))
    /\ WF_vars(Boot) /\ WF_vars(FinishFirstPass) /\ WF_vars(RetryWake) /\ WF_vars(RetryFinish)
    /\ \A l \in Listeners : WF_vars(DrainListener(l))
    /\ WF_vars(CloseDatabases)

Spec == Init /\ [][Next]_vars /\ Fairness

-----------------------------------------------------------------------------
(* Properties.                                                             *)

(* One tracker per chain, shared by identity: whichever endpoints of a     *)
(* chain get past chainCommonSetup hold the very tracker of the registry,  *)
(* and the chain is registered for spec verifications at most once.        *)
(* Broken if the look-up-or-create is not atomic under the chain mutex.    *)
OneTrackerPerChain ==
    /\ \A c \in Chains : specVerifications[c] <= 1
    /\ \A e \in Endpoints :
          pc[e] \in {"fetcher", "llock", "llookup", "lcreate", "register", "done"}
             => tracker[e] = chainTrackers[Chain(e)]

(* One listener per network address: every receiver an endpoint registered *)
(* is on the listener the registry holds for the endpoint's (resolved)     *)
(* address, so endpoints sharing an address share one listener.            *)
OneListenerPerAddress ==
    \A r \in receivers : r[1] = listeners[Addr(r[2])]

(* Start goes fatal exactly when the first pass disabled every endpoint,   *)
(* and serves only with at least one endpoint set up.                      *)
UsableEndpointOnBoot ==
    /\ phase = "fatal" => enabled = {}
    /\ phase \in {"serving", "draining", "stopped"} => enabled # {}

(* An endpoint that was set up stays set up: no retry round sets it up a   *)
(* second time (RetryDisabledEndpoints only takes what is still disabled). *)
EnabledStaysServing ==
    [][enabled \subseteq enabled' /\ \A e \in enabled : pc'[e] = "done"]_vars

(* Isolation: every SetupEndpoint call returns (no endpoint waits forever  *)
(* on a chain mutex or rpcp.lock left held by another), unless the process *)
(* exits first.                                                            *)
SetupReturns ==
    \A e \in Endpoints : pc[e] \in Busy ~> (pc[e] \in Finished \/ phase = "stopped")

(* Every endpoint with a valid descriptor, whose failures are transient,   *)
(* is eventually serving, through the retries, unless the process exits.  *)
UsableEndpointsEventuallyServe ==
    \A e \in Endpoints :
        Config[e].valid => <>(e \in enabled \/ phase \in {"stopped", "fatal"})

(* The enabled-chain gauge agrees with the endpoints once they are all up: *)
(* a chain and interface whose every endpoint is set up reads "enabled",   *)
(* whatever order the setup goroutines and retry rounds wrote the gauge in *)
(* (SetDisabledChain at line 297, SetEnabledChain at line 484): a failure *)
(* of one of its endpoints is always followed by that endpoint's success. *)
MetricsShowEnabledKeys ==
    \A k \in Keys :
        (\A e \in Endpoints : Key(e) = k => e \in enabled) => metric[k] = "enabled"

(* Spec 8: two endpoints of one chain create exactly one tracker.          *)
TrackerCreatedOnce ==
    \A c \in Chains : trackersMade[c] <= 1

(* Spec 4.2 and 5: shutdown drains every listener before Start returns.    *)
ShutdownDrainsAllListeners ==
    phase = "stopped" => Range(listeners) \ {None} \subseteq drained

-----------------------------------------------------------------------------
(* Refinement: the process phase and each endpoint's status as the       *)
(* abstract lifecycle sees them.  An endpoint is enabled while its last  *)
(* SetupEndpoint call returned nil, disabled while it returned an error  *)
(* stands, and being set up otherwise (queued or in any step).  Draining *)
(* is ShuttingDown; the retry bookkeeping and the look-up-or-create      *)
(* steps are stutters of the abstract specification.                     *)
AbstractPhase ==
    CASE phase \in {"boot", "setup"} -> "SettingUpEndpoints"
      [] phase = "serving"  -> "Serving"
      [] phase = "draining" -> "ShuttingDown"
      [] phase = "stopped"  -> "Stopped"
      [] phase = "fatal"    -> "Fatal"

AbstractStatus ==
    [e \in Endpoints |-> CASE pc[e] = "done"   -> "enabled"
                            [] pc[e] = "failed" -> "disabled"
                            [] OTHER            -> "settingUp"]

LC == INSTANCE EndpointLifecycle WITH aphase <- AbstractPhase, status <- AbstractStatus

(* RPCProvider implements the lifecycle of spec section 4.2: every       *)
(* behaviour of Start, SetupEndpoint and RetryDisabledEndpoints is one of *)
(* the abstract specification, its liveness included.                   *)
LifecycleRefinement == LC!Spec

=============================================================================
