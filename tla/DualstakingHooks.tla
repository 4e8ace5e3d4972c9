-------------------------- MODULE DualstakingHooks --------------------------
(***************************************************************************)
(* The delegation hooks of src/x/dualstaking/keeper/hooks.go, which keep  *)
(* a delegator's provider delegations equal in total to its validator    *)
(* delegations: AfterDelegationModified, BeforeDelegationRemoved and the *)
(* DisableDualstakingHook flag, driven by the staking transactions that   *)
(* call them.  The slash hook is the module SlashHook.                   *)
(*                                                                         *)
(* The hooks act per delegator and read only that delegator's stake, so  *)
(* one delegator is modelled; tokens are integers (shares convert one to *)
(* one).  The callees outside this repository are modelled by their     *)
(* contracts:                                                             *)
(*   - VerifyDelegatorBalance: validator minus provider delegations;      *)
(*   - delegate to EMPTY_PROVIDER: adds to that provider;                *)
(*   - UnbondUniformProviders: takes the amount from the provider         *)
(*     delegations (any split; the uniform one is one of them), failing  *)
(*     when they hold less;                                               *)
(*   - the staking module: Delegate calls AfterDelegationModified; Unbond *)
(*     calls AfterDelegationModified when shares remain and otherwise     *)
(*     BeforeDelegationRemoved, which still sees the delegation;          *)
(*     BeginRedelegation is Unbond then Delegate;                        *)
(*   - the ante handler sets the flag, before the messages of every       *)
(*     transaction, to whether the transaction redelegates; a hook error *)
(*     fails the transaction and discards its message writes, not the     *)
(*     flag.                                                              *)
(***************************************************************************)
EXTENDS Naturals, FiniteSets, Functions

CONSTANTS
    Validators,
    Providers,       \* the delegator's providers, EMPTY_PROVIDER included
    EMPTY_PROVIDER,
    MaxTokens        \* bound on one validator delegation

ASSUME EMPTY_PROVIDER \in Providers

VARIABLES
    val,       \* validator -> tokens the delegator has delegated to it
    prov,      \* provider -> tokens the delegator has delegated to it
    disable    \* the DisableDualstakingHook flag in the store

vars == <<val, prov, disable>>

MaxStake == MaxTokens * Cardinality(Validators)

TypeOK ==
    /\ val \in [Validators -> 0..MaxTokens]
    /\ prov \in [Providers -> 0..MaxStake]
    /\ disable \in BOOLEAN

(* Before any of these transactions the two sides agree, as the hooks   *)
(* and the dualstaking messages leave them; the flag is whatever the    *)
(* last transaction set.                                                *)
Init ==
    /\ val \in [Validators -> 0..MaxTokens]
    /\ prov \in {p \in [Providers -> 0..MaxStake] : SumFunction(p) = SumFunction(val)}
    /\ disable \in BOOLEAN

(* UnbondUniformProviders(amount): every way to take amount from the    *)
(* provider delegations; empty when they hold less.                     *)
UnbondUniformProviders(p, amount) ==
    {q \in [Providers -> 0..MaxStake] :
        /\ \A x \in Providers : q[x] <= p[x]
        /\ SumFunction(p) - SumFunction(q) = amount}

(* The outcomes of a hook: an error, or the provider delegations after. *)
Err == [err |-> TRUE]
Ok(p) == [err |-> FALSE, prov |-> p]

(* Faulty variant: a smaller validator stake is not mirrored.           *)
AfterDelegationModifiedNoUnbond(v, p, flag) ==
    LET diff == SumFunction(v) - SumFunction(p)
    IN CASE flag      -> {Ok(p)}
         [] diff > 0 -> {Ok([p EXCEPT ![EMPTY_PROVIDER] = @ + diff])}
         [] OTHER    -> {Ok(p)}

(* Faulty variant: the whole validator stake, not the difference, is    *)
(* delegated to the empty provider.                                      *)
AfterDelegationModifiedFullStake(v, p, flag) ==
    LET diff == SumFunction(v) - SumFunction(p)
    IN CASE flag \/ diff = 0 -> {Ok(p)}
         [] diff > 0 -> {Ok([p EXCEPT ![EMPTY_PROVIDER] = @ + SumFunction(v)])}
         [] OTHER    -> IF UnbondUniformProviders(p, -diff) = {} THEN {Err}
                        ELSE {Ok(q) : q \in UnbondUniformProviders(p, -diff)}

(* AfterDelegationModified (lines 52-103), given the delegator's         *)
(* validator delegations v after the change and its provider            *)
(* delegations p: nothing when the flag is set or the balance is even;  *)
(* a surplus is delegated to the empty provider, a deficit unbonded     *)
(* from the providers.  The final VerifyDelegatorBalance (lines 91-101) *)
(* cannot fail after either branch.  The gas refund is left out.        *)
AfterDelegationModified(v, p, flag) ==
    LET diff == SumFunction(v) - SumFunction(p)
    IN CASE flag \/ diff = 0 -> {Ok(p)}
         [] diff > 0 -> {Ok([p EXCEPT ![EMPTY_PROVIDER] = @ + diff])}
         [] OTHER    -> IF UnbondUniformProviders(p, -diff) = {} THEN {Err}
                        ELSE {Ok(q) : q \in UnbondUniformProviders(p, -diff)}

(* BeforeDelegationRemoved (lines 162-189) for a delegation of `tokens`:*)
(* nothing when the flag is set; otherwise the delegation's tokens are  *)
(* unbonded from the providers.  The delegation and its validator exist *)
(* (the staking module is removing it), so the look-ups succeed.        *)
BeforeDelegationRemoved(tokens, p, flag) ==
    IF flag THEN {Ok(p)}
    ELSE IF UnbondUniformProviders(p, tokens) = {} THEN {Err}
    ELSE {Ok(q) : q \in UnbondUniformProviders(p, tokens)}

(* Staking's Unbond of amt from validator x, with the hook it calls.    *)
UnbondHook(x, amt, p, flag) ==
    IF amt < val[x] THEN AfterDelegationModified([val EXCEPT ![x] = @ - amt], p, flag)
    ELSE BeforeDelegationRemoved(val[x], p, flag)

(* One transaction: the ante handler's SetDisableDualstakingHook (lines *)
(* 200-207) with `redelegates`, then the messages, whose writes stand   *)
(* only if no hook failed.                                              *)
Transaction(redelegates, v2, outcomes) ==
    /\ disable' = redelegates
    /\ IF Err \in outcomes
       THEN UNCHANGED <<val, prov>>
       ELSE \E o \in outcomes : val' = v2 /\ prov' = o.prov

(* MsgDelegate to validator x.                                          *)
Delegate(x, amt) ==
    /\ val[x] + amt <= MaxTokens
    /\ Transaction(FALSE, [val EXCEPT ![x] = @ + amt],
                   AfterDelegationModified([val EXCEPT ![x] = @ + amt], prov, FALSE))

(* MsgUndelegate from validator x, partly or entirely.                  *)
Undelegate(x, amt) ==
    /\ amt <= val[x]
    /\ Transaction(FALSE, [val EXCEPT ![x] = @ - amt], UnbondHook(x, amt, prov, FALSE))

(* MsgBeginRedelegate from x to y: Unbond from x, then Delegate to y,    *)
(* each with its hook, under the flag the ante handler set.              *)
Redelegate(x, y, amt) ==
    /\ x # y
    /\ amt <= val[x]
    /\ val[y] + amt <= MaxTokens
    /\ LET v1 == [val EXCEPT ![x] = @ - amt]
           v2 == [v1 EXCEPT ![y] = @ + amt]
           first == UnbondHook(x, amt, prov, TRUE)
       IN Transaction(TRUE, v2,
              UNION {IF o1.err THEN {Err} ELSE AfterDelegationModified(v2, o1.prov, TRUE)
                     : o1 \in first})

Next ==
    \E x \in Validators, amt \in 1..MaxTokens :
        \/ Delegate(x, amt)
        \/ Undelegate(x, amt)
        \/ \E y \in Validators : Redelegate(x, y, amt)

Spec == Init /\ [][Next]_vars

-----------------------------------------------------------------------------
(* The hooks keep the balance they exist for: after every transaction   *)
(* the delegator's provider delegations add up to its validator         *)
(* delegations, whatever mix of delegations, partial and full           *)
(* undelegations and redelegations came before.                         *)
ProvidersMirrorValidators ==
    SumFunction(prov) = SumFunction(val)

=============================================================================
