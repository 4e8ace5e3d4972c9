---------------------------- MODULE SpecProposals ----------------------------
(***************************************************************************)
(* The governance handlers of src/x/spec/proposal_handler.go:              *)
(* handleSpecProposal, which stores the specs of a SpecAddProposal and     *)
(* then re-validates every stored spec, and HandleParameterChangeProposal, *)
(* which applies a ParameterChangeProposal's changes and records the block *)
(* in epochstorage's LatestParamChange.                                    *)
(*                                                                         *)
(* The governance module runs a handler on a cache context and writes it  *)
(* back only when the handler returns nil, so a proposal whose handler    *)
(* fails changes nothing.  The callees outside this repository are        *)
(* modelled by their contracts:                                            *)
(*   - Keeper.ValidateSpec expands the spec through its imports, looked up *)
(*     in the store by index; a missing import or an import cycle is an   *)
(*     error, and so is an API the spec inherits that no imported spec    *)
(*     provides (a conflict with a new version of an imported spec);      *)
(*   - Subspace.Update fails on a value the key's validator refuses;       *)
(*   - GetSubspace finds exactly the registered subspaces.                 *)
(* A spec is its imports, the APIs it provides and the APIs it inherits;  *)
(* names, fields and event details are left out.                           *)
(***************************************************************************)
EXTENDS Naturals, Sequences, FiniteSets

CONSTANTS
    Indices,             \* spec indices
    Apis,                \* API names
    ProposalSpecs,       \* the specs a SpecAddProposal may carry
    MaxProposalSpecs,    \* bound on the length of its spec list
    Subspaces,           \* the registered param subspaces
    EPOCHSTORAGE,        \* epochstoragetypes.ModuleName, one of them
    ParamKeys,           \* param keys, LATEST_PARAM_CHANGE included
    LATEST_PARAM_CHANGE, \* epochstoragetypes.KeyLatestParamChange
    Values,              \* values a param may hold
    Malformed,           \* a value the key's validator refuses
    UnknownSubspace,     \* a subspace name that is not registered
    MaxChanges,          \* bound on the length of a proposal's change list
    MaxBlock,            \* bound on the block height
    NoSpec               \* an absent store entry

ASSUME /\ EPOCHSTORAGE \in Subspaces
       /\ UnknownSubspace \notin Subspaces
       /\ LATEST_PARAM_CHANGE \in ParamKeys

Spec   == [imports : SUBSET Indices, apis : SUBSET Apis, inherits : SUBSET Apis]
Stored == [imports : SUBSET Indices, apis : SUBSET Apis, inherits : SUBSET Apis,
           blockLastUpdated : 1..MaxBlock]
Blocks == 1..MaxBlock

(* The params the proposals may change; LatestParamChange is kept apart.  *)
Params == Subspaces \X (ParamKeys \ {LATEST_PARAM_CHANGE})

Change == [subspace : Subspaces \cup {UnknownSubspace}, key : ParamKeys,
           value : Values \cup {Malformed}]

VARIABLES
    specs,              \* the spec store: index -> stored spec, or NoSpec
    params,             \* the params store: <<subspace, key>> -> value
    latestParamChange,  \* epochstorage's LatestParamChange (0: never set)
    block               \* ctx.BlockHeight()

vars == <<specs, params, latestParamChange, block>>

TypeOK ==
    /\ specs \in [Indices -> Stored \cup {NoSpec}]
    /\ params \in [Params -> Values]
    /\ latestParamChange \in 0..MaxBlock
    /\ block \in Blocks

Init ==
    /\ specs = [i \in Indices |-> NoSpec]
    /\ params \in [Params -> Values]
    /\ latestParamChange = 0
    /\ block = 1

-----------------------------------------------------------------------------
(* The indices reached from S by following imports through the store      *)
(* view: the import expansion of ValidateSpec, to a fixed point.  Missing *)
(* entries are reached but lead nowhere.                                   *)
RECURSIVE ImportClosure(_, _)
ImportClosure(S, view) ==
    LET more == S \cup UNION {view[d].imports : d \in {d2 \in S : view[d2] # NoSpec}}
    IN IF more = S THEN S ELSE ImportClosure(more, view)

(* Keeper.ValidateSpec for spec sp under index ix against the store st:   *)
(* the imports are followed through the store (ix itself resolving to sp) *)
(* and must all be present and never lead back to ix; every inherited API *)
(* must be provided by a spec ix imports, directly or not.                *)
ValidateSpec(ix, sp, st) ==
    LET view    == [st EXCEPT ![ix] = sp]
        reached == ImportClosure(sp.imports, view)
    IN /\ ix \notin reached
       /\ \A d \in reached : view[d] # NoSpec
       /\ sp.inherits \subseteq UNION {view[d].apis : d \in reached}

(* Faulty variant: every spec is validated against the store as it was  *)
(* before the proposal, not as the earlier specs of the list left it.    *)
RECURSIVE StoreSpecsAgainstOld(_, _)
StoreSpecsAgainstOld(list, st) ==
    IF list = <<>> THEN [err |-> FALSE, store |-> st]
    ELSE LET sp == Head(list)
         IN IF ~ValidateSpec(sp.index, sp.spec, specs)
            THEN [err |-> TRUE, store |-> st]
            ELSE StoreSpecsAgainstOld(Tail(list),
                   [st EXCEPT ![sp.index] = [imports |-> sp.spec.imports,
                                             apis |-> sp.spec.apis,
                                             inherits |-> sp.spec.inherits,
                                             blockLastUpdated |-> block]])

(* Faulty variant: the spec is stored without BlockLastUpdated set       *)
(* (line 104 dropped): it keeps the proposal's zero value.               *)
RECURSIVE StoreSpecsNoStamp(_, _)
StoreSpecsNoStamp(list, st) ==
    IF list = <<>> THEN [err |-> FALSE, store |-> st]
    ELSE LET sp == Head(list)
         IN IF ~ValidateSpec(sp.index, sp.spec, st)
            THEN [err |-> TRUE, store |-> st]
            ELSE StoreSpecsNoStamp(Tail(list),
                   [st EXCEPT ![sp.index] = [imports |-> sp.spec.imports,
                                             apis |-> sp.spec.apis,
                                             inherits |-> sp.spec.inherits,
                                             blockLastUpdated |-> 0]])

(* The first loop of handleSpecProposal (lines 90-115), spec by spec:     *)
(* each is validated against the store as the specs before it left it,   *)
(* stamped with the block and stored; the first invalid one is an error.  *)
RECURSIVE StoreSpecs(_, _)
StoreSpecs(list, st) ==
    IF list = <<>> THEN [err |-> FALSE, store |-> st]
    ELSE LET sp == Head(list)
         IN IF ~ValidateSpec(sp.index, sp.spec, st)
            THEN [err |-> TRUE, store |-> st]
            ELSE StoreSpecs(Tail(list),
                   [st EXCEPT ![sp.index] = [imports |-> sp.spec.imports,
                                             apis |-> sp.spec.apis,
                                             inherits |-> sp.spec.inherits,
                                             blockLastUpdated |-> block]])

(* The second loop (lines 117-130): every stored spec must still be valid *)
(* against the new store.                                                  *)
AllSpecsValid(st) ==
    \A i \in Indices : st[i] # NoSpec => ValidateSpec(i, st[i], st)

(* handleSpecProposal (lines 87-133) under the governance module: its     *)
(* writes stand only when it returns nil.                                 *)
HandleSpecProposal(list) ==
    LET r == StoreSpecs(list, specs)
    IN /\ specs' = IF r.err \/ ~AllSpecsValid(r.store) THEN specs ELSE r.store
       /\ UNCHANGED <<params, latestParamChange, block>>

(* The loop of HandleParameterChangeProposal (lines 33-62): an unknown    *)
(* subspace, the LatestParamChange key and a value Update refuses are     *)
(* errors; otherwise the param is updated.                                *)
RECURSIVE ApplyChanges(_, _)
ApplyChanges(cs, ps) ==
    IF cs = <<>> THEN [err |-> FALSE, params |-> ps]
    ELSE LET c == Head(cs)
         IN IF \/ c.subspace \notin Subspaces
               \/ c.key = LATEST_PARAM_CHANGE
               \/ c.value = Malformed
            THEN [err |-> TRUE, params |-> ps]
            ELSE ApplyChanges(Tail(cs), [ps EXCEPT ![<<c.subspace, c.key>>] = c.value])

(* HandleParameterChangeProposal (lines 32-71): the changes, then         *)
(* LatestParamChange set to the block (the epochstorage subspace is       *)
(* registered, so the look-up of lines 64-67 succeeds).  An error         *)
(* discards every write.                                                   *)
HandleParameterChangeProposal(cs) ==
    LET r == ApplyChanges(cs, params)
    IN /\ params' = IF r.err THEN params ELSE r.params
       /\ latestParamChange' = IF r.err THEN latestParamChange ELSE block
       /\ UNCHANGED <<specs, block>>

(* The chain moves to the next block.                                      *)
NextBlock ==
    /\ block < MaxBlock
    /\ block' = block + 1
    /\ UNCHANGED <<specs, params, latestParamChange>>

(* The lists a proposal may carry: one to a bound of entries.             *)
Lists(S, n) == UNION {[1..k -> S] : k \in 1..n}

Next ==
    \/ \E list \in Lists([index : Indices, spec : ProposalSpecs], MaxProposalSpecs) :
          HandleSpecProposal(list)
    \/ \E cs \in Lists(Change, MaxChanges) : HandleParameterChangeProposal(cs)
    \/ NextBlock

Specification == Init /\ [][Next]_vars

-----------------------------------------------------------------------------
(* The store a spec list leaves when every spec of it is written, in     *)
(* order, with no validation: the store the re-validation loop judges.    *)
RECURSIVE WriteSpecs(_, _)
WriteSpecs(list, st) ==
    IF list = <<>> THEN st
    ELSE WriteSpecs(Tail(list), [st EXCEPT ![Head(list).index] = Head(list).spec])

(* No spec of the list is preceded by one that imports it, directly or   *)
(* through the store st.                                                  *)
ImportsFirst(list, st) ==
    \A i, j \in DOMAIN list :
        i < j => list[j].index \notin
                    ImportClosure(list[i].spec.imports, [st EXCEPT ![list[i].index] = list[i].spec])

(* handleSpecProposal returns nil for the list, from the current store.  *)
Accepts(list) ==
    LET r == StoreSpecs(list, specs) IN ~r.err /\ AllSpecsValid(r.store)

(* The first loop of handleSpecProposal validates each spec against a    *)
(* store the later specs of the proposal have not reached yet (line 93). *)
(* That never refuses a proposal that lists imported specs before their *)
(* importers, when every spec it lists is valid against the store it    *)
(* leaves and that store is valid: for such a list the spec-by-spec     *)
(* validation agrees with validating the resulting store as a whole.    *)
ImportsFirstAccepted ==
    \A list \in Lists([index : Indices, spec : ProposalSpecs], MaxProposalSpecs) :
        LET final == WriteSpecs(list, specs)
        IN /\ ImportsFirst(list, final)
           /\ \A i \in DOMAIN list : ValidateSpec(list[i].index, list[i].spec, final)
           /\ AllSpecsValid(final)
           => Accepts(list)
=============================================================================
