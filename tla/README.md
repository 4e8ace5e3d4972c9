# TLA+ models of the lava provider, parser and keepers

This directory holds TLA+ models of the Go sources under `src/`. TLC checks them against the
behaviour `spec.md` describes. `PROJECT.json` lists the following:

- the components;
- the runs (module, cfg, expected result and properties);
- the mutants that show each checked property can fail;
- the map from every modelling definition to the source lines it translates;
- the findings;
- the hazards.

## The system and its parts

| Part | Source | Status |
|---|---|---|
| Block parser | `src/protocol/parser/parser.go` | modelled: `Parser`, `ParserSpec`, `JsonValue`, `MCParser` |
| Endpoint orchestrator | `src/protocol/rpcprovider/rpcprovider.go` | partly: `RPCProvider`, `MCRPCProvider`, `EndpointLifecycle` (abstract) |
| Dualstaking hooks | `src/x/dualstaking/keeper/hooks.go` | modelled: `SlashHook`, `MCSlashHook` (`BeforeValidatorSlashed`); `DualstakingHooks`, `MCDualstakingHooks` (the delegation hooks and the disable flag) |
| Projects keeper | `src/x/projects/keeper/creation.go` | modelled: `Projects`, `MCProjects` |
| Spec / param-change proposal handlers | `src/x/spec/proposal_handler.go` | modelled: `SpecProposals`, `MCSpecProposals` |
| Downtime keeper state | `src/x/downtime/keeper/keeper.go` | not modelled: getters and setters with no caller here (see Not modelled) |
| Rewards genesis types | `src/x/rewards/types/genesis.pb.go` | not modelled: generated protobuf code |
| Common errors | `src/protocol/common/errors.go` | not modelled: constants only |

### Block parser

The parser turns a chain's `BlockParser` configuration into a value pulled from a relay's params
or reply. A `BlockParser` has three parts:

- a strategy: EMPTY, BY_ARG, CANONICAL, DICTIONARY, DICTIONARY_OR_ORDERED or DEFAULT;
- string args;
- a default value.

`ParseBlockFromParams` and `ParseBlockFromReply` turn that value into a block height, and
`ParseDefaultBlockParameter` reads the tags and integers.

The parser has no state. What makes it hard is the data:

- payloads are untyped JSON of any shape;
- each strategy has its own error and ValueNotSet paths;
- ValueNotSet, and only ValueNotSet, is replaced by the default value;
- indices are checked against lengths;
- strings are split on the first occurrence of a separator;
- strconv reads integers with bases and signs.

### Endpoint orchestrator

`Start` resolves empty endpoint addresses to the previous endpoint's address (lines 210-215). It
then calls `SetupProviderEndpoints` over all endpoints in parallel. Each endpoint runs
`SetupEndpoint` in this order:

1. validation, parser and router creation, and chain-fetcher validation (each can fail);
2. a critical section under the per-chain mutex that looks up or creates the chain tracker and
   registers it for spec verification;
3. the spec-validator registration and the reward DB;
4. a look-up-or-create of the listener for the endpoint's address under the global `rpcp.lock`;
5. registration of the endpoint's receiver on that listener.

Before the first pass, `Start` boots (lines 140-207). It creates the state tracker, fetches the
protocol version, builds the reward server and loads the key material. A failure in any of these
ends the process before any endpoint is set up. Two of them return an error, and the others are
`LavaFormatFatal`.

After the first pass:

- If every endpoint failed, Start is fatal.
- Otherwise a goroutine retries the failed ones with `RetryDisabledEndpoints`. Attempts 1 and 2
  run serially, later attempts in parallel, and the goroutine recurses while any endpoint still
  fails.

On an interrupt, Start shuts down every listener in the map and closes the reward databases. The
retry goroutine may still be running at that point.

### Governance proposal handlers

`handleSpecProposal` (proposal_handler.go:87-133) works in two loops:

1. It validates and stores the specs of a proposal one by one, each against the store as the
   earlier specs left it.
2. It re-validates every stored spec, because a new version of an imported spec can break a spec
   that imports it.

`HandleParameterChangeProposal` (lines 32-71) applies each change through its subspace. It refuses
unknown subspaces, the `LatestParamChange` key, and values the subspace refuses. Then it records
the block in epochstorage's `LatestParamChange`.

The governance module runs both handlers on a cache context and discards every write of a handler
that fails.

### Dualstaking slash hook

Before the staking module slashes a validator by a fraction f, `BeforeValidatorSlashed`
(hooks.go:105-147) unbonds the same share from each delegator's provider delegations. This keeps
the provider side equal to the validator side. The hook works in three steps:

1. It sorts the validator's delegations from the smallest to the largest.
2. It charges each delegation trunc(f * tokens), except the last.
3. It charges the last one what is left of trunc(f * validator tokens).

A failing `UnbondUniformProviders` is only logged.

### Dualstaking delegation hooks

The staking module calls `AfterDelegationModified` after a delegation changes (hooks.go:52-103).
If the delegator's validator stake exceeds its provider stake, the hook delegates the difference
to the empty provider. If it falls short, the hook unbonds the difference from the providers.
When a whole delegation is removed, `BeforeDelegationRemoved` (lines 162-189) unbonds its tokens,
rounded up, from the providers. A hook error fails the staking transaction.

A redelegation is an unbond followed by a delegation, and the delegator's total stake does not
change. The ante handler therefore sets a stored flag, `DisableDualstakingHook` (lines 195-222),
before each transaction: true for a redelegation, false otherwise. While the flag is set, both
hooks do nothing. The ante handler's write survives a failing message.

### Projects keeper

A subscription owns projects, indexed by subscription and name
(`src/x/projects/keeper/creation.go`).

- Buying a subscription calls `CreateAdminProject`.
- The owner adds more projects with `CreateProject`.
- Every project key can be ADMIN, DEVELOPER or both. A DEVELOPER key is also entered in a global
  registry that maps the key to its one project (`RegisterKey`, `AddDeveloperKey`).
- `SnapshotSubscriptionProjects` resets each project's used CU at the end of a month.
- `DeleteProject` disables a project.

Both stores are fixation (versioned) stores, and every operation reads and writes at the current
block.

## Modules

### `JsonValue.tla`

The values the parser inspects: string, float64, other (nil, bool), raw bytes, map and array, as
tagged records.

Text is a sequence of tokens, one token per character. The block tags are each a single token.
This lets splitting, quoting and digit parsing be modelled by what they do.

### `Parser.tla`

Each function of `parser.go` is an operator with the Go name:

- `Parse`, `Dispatch`;
- `ParseByArg`, `ParseCanonical` (split into `WalkArrayPath` and `WalkMapPath`),
  `ParseDictionary`, `ParseDictionaryOrOrdered`, `ParseDefault`;
- `GetDataToParse`, `BlockInterfaceToString`, `ParseArrayOfInterfaces` (with `SplitN2`, that is
  `strings.SplitN(s, sep, 2)`);
- `ParseDefaultBlockParameter` (with `ParseInt`, that is `strconv.ParseInt(s, 0, 64)`);
- `ParseBlockFromParams`, `ParseBlockFromReply` (with `Unquote`), `ParseMessageResponse`.

The outcome of a call is one of:

- `ok` with the returned strings;
- `notset` (ValueNotSetError);
- `error`;
- `panic`, for an index out of range that Go would panic on.

The state machine has one variable, `last`. It makes one call of one public function (one action
each) and records the call and its outcome.

### `ParserSpec.tla`

A reference written from the text of spec.md section 4.1. It deliberately does not follow the
code's structure:

- key chains are followed by a path lookup (`Follow`);
- a dictionary entry is the least matching position;
- an integer literal is the longest-prefix reading of sign, base prefix and digits (`Readings`);
- nothing ever crashes.

### `MCParser.tla`

Gives the inputs and compares every call's outcome with the reference.

### `RPCProvider.tla`

**State.** One program counter `pc[e]` per endpoint, walking the steps of `SetupEndpoint`:

`idle → start → lock → lookup → create → verify → fetcher → llock → llookup → lcreate → register → done | failed`

The other variables are:

- the per-chain lock `chainLock`, the tracker registry `chainTrackers` and `trackersMade`;
- the listener lock `listenerLock`, the listener map `listeners` and `receivers`;
- the current `SetupProviderEndpoints` batch: its endpoints, whether it is parallel, and its
  `disabled` channel;
- the retry goroutine's state and `retryCount`;
- `metric`: the metrics manager's enabled-chain gauge per chain and API interface, set to
  disabled by a failing setup goroutine (line 297) and to enabled by `Register` (line 484);
- the process phase: boot, setup, serving, draining, stopped or fatal;
- the shutdown bookkeeping.

**Bootstrap.** `Boot` is the part of `Start` before the first `SetupProviderEndpoints`. It either
fails, which is fatal, or starts the first, parallel batch over every endpoint.

**Objects.** Trackers and listeners are numbered objects `<<chain, k>>` and `<<addr, k>>`, so that
sharing is identity, not equality.

**Failures.** Every step whose Go code has an error return may fail:

- Validation failure and an invalid descriptor are permanent.
- Node access failures are transient, up to `MaxFailures` per endpoint.

### `MCRPCProvider.tla`

Four endpoints:

- e1 and e2 on chain c1 and interface rest, at a1 and a2. They race for the c1 tracker, and
  both write the c1/rest gauge, in either order;
- e3 on chain c2 and rest, with an empty address that resolves to a2, so e2 and e3 race for one
  listener;
- e4 on c2 and grpc, also resolving to a2, with an invalid descriptor. It fails on every
  attempt, so the retry goroutine runs up to `MaxRetry` and reaches its parallel rounds.

### `SlashHook.tla`

**State.** The variables are:

- the delegations' tokens and the delegators' provider stake;
- the sorted order and the loop index;
- `remainingTokensToSlash`;
- what each delegator was charged;
- a phase.

**Actions.**

- `BeginSlash` takes the total and the sort. The sort is `slices.SortFunc`, which is not stable,
  so every order of equal delegations is possible.
- `SlashDelegation` is one loop iteration. `Charge` is the unbond with its logged-only error.
  `UnbondUniformProviders` lives outside this repository, so it is modelled as failing exactly
  when asked for more than the delegator has with providers.
- `EndSlash` returns.

### `MCSlashHook.tla`

Four delegators (symmetric model values) with 1-3 tokens each, and f = 1/2.

### `DualstakingHooks.tla`

**State.** One delegator, with its stake per validator (`val`) and per provider (`prov`, the empty
provider included). The other variable is the disable flag.

**Actions.** Each action is one staking transaction, with the ante handler's flag write and the
hook the staking module calls:

- `Delegate` calls `AfterDelegationModified`.
- `Undelegate` calls `AfterDelegationModified` for a partial unbond and `BeforeDelegationRemoved`
  for a full one.
- `Redelegate` runs both halves with the flag set.

A hook's result is a set of outcomes. `UnbondUniformProviders` lives outside this repository, so
it may take any split of the amount from the providers and fails only when they hold less. A
transaction with an error outcome keeps every message write back (`Transaction`).

### `MCDualstakingHooks.tla`

Two validators, two providers plus the empty one, and up to 3 tokens per validator. Every balanced
starting state is initial, with the flag either way.

### `Projects.tla`

**State.**

- `projects`: the latest entry per project index, or `NoProject`.
- `devKeys`: the developer-key registry.
- `deleted` and `adminRefused`: history flags for the properties.

**Actions.**

- `CreateAdminProject(s)` and `AddProject(s)` both run `CreateProject`. It checks the name and an
  existing project, registers the keys in order with `RegisterKeys` (recursive, stopping at the
  first error), and appends the project. An error discards every write, as the message's
  transaction does.
- `SnapshotSubscriptionProjects`.
- `DeleteProject`.
- `ChargeCu` stands for the relays that use CU. It is modelled from the spec.

### `MCProjects.tla`

Two subscriptions, whose addresses are also the only keys, under symmetry. Names are one valid
name and one invalid one. Key lists hold up to two entries, each ADMIN or DEVELOPER.

### `EndpointLifecycle.tla`

The abstract lifecycle of spec §4.2. Each endpoint is setting up, enabled or disabled, and the
process is in one of these phases:

- SettingUpEndpoints;
- Serving;
- ShuttingDown;
- Stopped;
- Fatal.

The actions are:

- an endpoint comes up or is disabled;
- the first pass ends, Fatal if every endpoint is disabled and Serving otherwise;
- a retry sets up a set of disabled endpoints again;
- shutdown;
- stop.

An enabled endpoint never goes back. The specification requires that every endpoint being set up
eventually settles and that the first pass and the stop eventually happen.

`RPCProvider` implements it. `AbstractPhase` maps the process phase. `AbstractStatus` maps an
endpoint whose program counter is at `done` to enabled, one at `failed` to disabled, and any other
to setting up. `LifecycleRefinement == LC!Spec` is a property of the `rpc_core` run.

### `SpecProposals.tla`

**State.**

- `specs`: the spec store. Each spec holds its imports, the APIs it provides, the APIs it
  inherits, and `BlockLastUpdated`.
- `params`: the param store.
- `latestParamChange`.
- `block`.

**Actions.**

- `HandleSpecProposal(list)`: `StoreSpecs` is the first loop, folded recursively over the list.
  `AllSpecsValid` is the re-validation loop.
- `HandleParameterChangeProposal(changes)`: `ApplyChanges` is the change loop.
- `NextBlock`.

A failing handler changes nothing. `Keeper.ValidateSpec` lives outside this repository and is
modelled by its contract (`ValidateSpec`):

- the imports are followed through the store to a fixed point (`ImportClosure`);
- a missing import or a path back to the spec is an error;
- every inherited API must be provided by some imported spec.

### `MCSpecProposals.tla`

- Three spec indices and one API.
- Proposals of one or two specs. A proposed spec imports at most one index and either provides
  or inherits the API (or neither).
- Two registered subspaces, plus an unknown subspace.
- One key besides `LatestParamChange`.
- One value, plus a refused one: no property reads the param values, so one is enough.
- Change lists of one or two entries, over two blocks.

## Runs

| Run | Expect | What it shows |
|---|---|---|
| `rpc_core` | pass | See below. |
| `rpc_tracker_once` | violation | `TrackerCreatedOnce`: a tracker whose spec-verification registration fails is dropped, and a later endpoint of that chain creates a second one (rpcprovider.go:412-425). Spec §4.2/§5 promise exactly one. |
| `rpc_shutdown_drain` | violation | `ShutdownDrainsAllListeners`: see below. |
| `slash_core` | pass | `SlashSplitsExactly`: the charges add up to trunc(f*T). `RemainderOnLargest`: every delegation pays at least its own share, and only a largest one pays more. Both hold while the remainder exceeds what the last delegation holds; `slash_balance` shows that case. The run has no type invariant. |
| `slash_balance` | violation | `ProvidersStayBalanced`: see below. |
| `hooks_core` | pass | See below. |
| `projects_core` | pass | See below. |
| `spec_proposals` | pass | See below. |
| `projects_deleted_keys` | violation | `DeletedProjectReleasesKeys`: see below. |
| `parser_core` | pass | See below. |
| `parser_canonical_map` | violation | `CanonicalMapPathMatchesSpec`: see below. |
| `parser_no_panic` | violation | `ParseNeverPanics`: a parser with no args (CANONICAL, DEFAULT) or an empty DICTIONARY separator on an empty string element panics (`strings.SplitN("", "", 2)` is empty, line 391). Spec §7 says parsing errors never crash. |

**`rpc_core`** checks these properties:

- `OneTrackerPerChain`: at most one tracker is registered per chain, and every endpoint past the
  critical section uses the registered one;
- `OneListenerPerAddress`: every receiver sits on the single listener of its address;
- `UsableEndpointOnBoot`: the process is fatal only if nothing came up, and serves only if
  something did;
- `EnabledStaysServing`: an enabled endpoint is never set up again or disabled;
- `SetupReturns`: every setup finishes;
- `MetricsShowEnabledKeys`: a chain and interface whose endpoints are all up reads enabled on the
  gauge, whatever order the goroutines and retry rounds wrote it in. For c1/rest, e1 and e2 can
  fail and succeed in any interleaving, so a disabled write can follow an enabled one; the
  property says the last write is still an enable once both are up;
- `UsableEndpointsEventuallyServe`: every valid endpoint is eventually enabled, unless the process
  stops first;
- `LifecycleRefinement`: the orchestrator implements `EndpointLifecycle`, liveness included.

The run has no type invariant: the only mutants that could break one change the model's own
failure budget, not the code. It reaches 19,264 states.

**`hooks_core`** checks these properties, over every sequence of delegations, partial and full
undelegations and redelegations:

- `TypeOK`;
- `ProvidersMirrorValidators`: the provider stake equals the validator stake after every
  transaction.

Two earlier properties were dropped. That a redelegation leaves the providers untouched only
restated the flag checks at hooks.go:62 and 163, since the model sets the flag for exactly the
redelegation. That no hook refuses a transaction followed from `ProvidersMirrorValidators`
with whole tokens. It reaches 360 states. Every one of them is a balanced state, so every one is also initial.

**`projects_core`** checks these properties:

- `TypeOK`;
- `DeveloperKeyOwnership`: the registry and the projects' key sets agree in both directions,
  across creations that fail part-way through their key list;
- `AdminProjectOwnsOwnerKey`: buying a subscription either creates an admin project that owns the
  owner's address as its developer key, or fails. It fails only because a project of another
  subscription already registered that address (`RegisterKey`, creation.go:71).

Such a refusal is reachable in four steps: subscription a1 lists a2's address as a developer key
before a2 buys its subscription. Nothing in creation.go or the spec reserves a subscription's
own address, which is recorded as a spec gap in `PROJECT.json`.

**`spec_proposals`** checks these properties:

- `TypeOK`: every stored spec carries a block of the chain, which `StoreSpecs` stamps (line 104).
- `ImportsFirstAccepted`: the first loop validates each spec against a store that the later
  specs of the same proposal have not reached yet (line 93). Take a proposal that lists every
  imported spec before its importers, whose specs are all valid in the store it leaves, with
  that store valid as a whole. The first loop never refuses it. The import may run through a
  chain of two specs in the store. The property is checked in every reachable state, for every
  list of up to two specs.

The run reaches 5,607 states in under a minute. An invariant that every stored spec is
valid would only restate the re-validation loop's guard under an all-or-nothing handler. The same
holds for a property that a param change records `LatestParamChange` (line 68). So neither is
stated.

**`projects_deleted_keys`**: `DeleteProject` only disables the project. Its developer keys stay in
the registry, bound to the deleted project, and cannot be registered again. The TODO at
creation.go:147 asks for them to be removed.

**`rpc_shutdown_drain`**: a retry that is still running creates a listener after the shutdown loop
has read the listener map, so that listener is never drained.

**`parser_core`** checks that, over every strategy, data source and payload of the MC sets, three
things match spec §4.1:

- `Parse` and `ParseMessageResponse`;
- the block-height helpers;
- `ParseDefaultBlockParameter`.

It leaves out only the map-rooted CANONICAL path, which has its own run. It reaches 19,482 states.
There is no type invariant. A nil-check bug in `ParseDictionary` returns an ok result with no values,
which is well-typed. The reference comparison catches it.

**`parser_canonical_map`**: on a map payload, the loop's `idx == len(input)-1` test
(parser.go:254) can never hold, so no value is ever returned. The code also insists that args[0]
is a number.

Each property of a passing run has a mutant in `PROJECT.json`: a plausible bug in the mapped code
that TLC shows the property catches. The mutants include:

- a dropped lock wait;
- a lock kept on an error path;
- a retry that re-runs the whole batch;
- a missing fatal check;
- the default applied to any error;
- a missing negative-height check.

**`slash_balance`**: with four delegations of 1 token and f = 1/2, every share truncates to 0.
The last delegation is then charged the whole 2 tokens while it holds 1. The unbond fails and is
only logged (hooks.go:130), so the providers keep 4 tokens while the validator keeps 2. The
comment at hooks.go:105 says the hook preserves that balance.

## Bounds and why they are enough

**Slash hook.** Four delegations are the fewest in which, at f = 1/2, the truncated shares of the
others leave the last one a remainder larger than its tokens. Tokens of 1-3 give ties (which the
unstable sort may order either way), odd amounts that truncate, and a strict largest. The run
reaches 105 distinct states up to symmetry.


**Orchestrator.**

- With `MaxFailures = 1` every valid endpoint can fail once in total, at any of its failing steps,
  and then succeed.
  This produces:
  - first passes with zero, some or all endpoints failing;
  - retries that run serially (attempts 1-2) and in parallel (attempt 3, since `MaxRetry = 3`).
- Two endpoints share chain c1 and two share address a2, which is the smallest case in which
  trackers and listeners are shared. Two valid endpoints share the c1/rest gauge.
- The interrupt can come at any point after the first pass.

**Parser.**

- Payloads are arrays of up to two elements, maps of one key, and one level of nesting.
- String leaves include the empty string, which reaches the empty-separator panic.
- Args cover these cases:
  - valid and invalid indices;
  - in-range and out-of-range indices;
  - present and missing keys;
  - wrong arg counts;
  - with and without a default value.
- Block texts are every string of up to 3 tokens over `0 7 a b x - h`, plus two tags. This covers
  signs, every base prefix, invalid digits for a base, `-0` and the empty prefix.

**Dualstaking delegation hooks.** One delegator is enough, because the hooks read and write only
that delegator's stake. Two validators allow a redelegation. Two providers and the empty one
allow uneven splits for `UnbondUniformProviders`. Three tokens allow partial unbonds of both
sizes.

**Projects.** Two subscriptions are the fewest in which one can take the other's address. Key
lists of two entries are enough for a creation to fail after registering one key. With
`MaxCu = MaxSnapshots = 1`, a snapshot can reset a charged project. The run reaches 44,685 states
up to symmetry.

**Proposal handlers.** Three indices allow a chain of two imports, so a new version of the last
spec of the chain can break the first one, which inherits through the middle one; TLC reaches
such a chain. One API is enough for an inherited API to disappear. Proposed specs import at most
one index, which still builds chains and cycles over several specs, and keeps the run at 5,607
states. Proposals of
two specs reach the order in which a spec is validated against an earlier one of the same
proposal, which `ImportsFirstAccepted` needs. Change lists of two entries reach a refused change after an accepted one. Two blocks
let the stamps differ.

## Fairness

**Orchestrator.** The Go runtime runs every runnable goroutine, so each endpoint step, the retry
goroutine, the bootstrap and the shutdown steps are weakly fair. Lock acquisition is strongly fair:

- `sync.Mutex` switches to starvation mode after 1 ms.
- A waiter is then handed the lock when it is released.

Interrupts come from outside and have no fairness.

**Slash hook.** The hook is a synchronous loop that runs once and returns. No liveness is claimed, and deadlock checking is off because the returned state is final.

**Parser.** Each parser behaviour is a single call. It ends when the call returns, so its run
disables deadlock checking.

**Dualstaking delegation hooks, projects and proposals.** These are transactions submitted from outside, so
no fairness is assumed and no liveness is claimed. All three runs keep deadlock checking on. A
transaction, a failing project creation or a refused proposal is always possible.

## Not modelled

**Orchestrator.** The following are left out:

- the metrics other than the enabled-chain gauge;
- what the bootstrap loads (it is one `Boot` step that fails or succeeds);
- the session manager and reliability manager registrations (external packages with no failure
  path here);
- the cobra command and flag parsing (lines 488-729);
- the background loops that never see the root cancellation (a hazard in `PROJECT.json`);
- the error `RegisterReceiver` returns for a second endpoint with the same chain and API interface
  on one listener. Only a misconfiguration triggers it, and the first endpoint serves that key.
  The listener lives outside `src/`, so the model's c1/rest endpoints use different addresses.

Retries are capped by `MaxRetry`. In the code the recursion is unbounded.

**Parser.** The following are left out:

- strconv's 32- and 64-bit range checks (the texts are too short to reach them);
- underscores in integer literals;
- a JSON `null` reply, which decodes to a nil map and which the spec does not settle.

**Proposal handlers.** The following are left out:

- the content-type switch, which only routes;
- event details;
- that the reverse order is refused: a spec that imports a spec listed after it fails. Nothing
  says which order is intended; `ImportsFirstAccepted` states only that imports-first is enough;
- partial writes of a failing handler. The governance module's cache context drops them, and
  the model's handlers are all-or-nothing on that basis.

**Downtime keeper and errors.** The downtime keeper is a store of two values: the params and the
last block time. Each has a getter and a setter, `BeginBlock` is empty, and no branch depends on
the state. Nothing under `src/` calls `SetLastBlockTime` or `GetLastBlockTime`, so in this
repository the last block time is never written, and a model would only restate the store. `ExportGenesis` exports an empty state and `ImportGenesis` ignores its argument, so an
export and import drops the last block time. Nothing in the repository or the spec says what the
module should keep, so there is no property to check.
`errors.go` and the rewards genesis types are constants and generated code.

**Dualstaking.** The gas refund and the log attributes are left out. `DualstakingHooks`
converts shares to tokens one to one, which is exact until a validator is slashed. So the
round-up at hooks.go:178 is the identity there, and no property reaches it. The flag's setter
is called by the ante handler, outside `src/`. The model sets the flag before every transaction,
so a stale flag is never read (hazard at hooks.go:62).

## Plan for later work

1. Compose `SlashHook` with `DualstakingHooks`: a failed slash unbond leaves the two sides apart
   until the next delegation change rebalances them, and after a slash the round-up at
   hooks.go:178 can exceed the provider side and refuse a full undelegation.
2. `RPCProvider`: the background loops that ignore the root cancellation, against spec §5.
3. `RPCProvider`: the gauge of a chain and interface with one serving and one failing endpoint.
   TLC reaches a serving state where it reads disabled; a property needs a statement of what the
   gauge should read then.
