------------------------------ MODULE SlashHook ------------------------------
(***************************************************************************)
(* The dualstaking slash hook, BeforeValidatorSlashed in                  *)
(* src/x/dualstaking/keeper/hooks.go.  Before the staking module slashes *)
(* a validator by `fraction`, the hook unbonds the same share of each     *)
(* delegator's provider stake, so that a delegator's provider delegations *)
(* keep mirroring its validator delegations.                              *)
(*                                                                         *)
(* The slash is split over the validator's delegations, sorted from the  *)
(* lowest to the highest: each is charged trunc(fraction * its tokens),  *)
(* except the last, which is charged what is left of                     *)
(* trunc(fraction * validator tokens).                                    *)
(*                                                                         *)
(* fraction is FracNum / FracDen (an sdk.Dec holding it exactly).  Shares *)
(* convert to tokens one to one, so a delegation's tokens are integers   *)
(* and the validator's tokens are their sum.                             *)
(* UnbondUniformProviders is outside this repository: it is modelled as  *)
(* failing exactly when asked to unbond more than the delegator has with *)
(* providers, and unbonding the amount otherwise.                        *)
(***************************************************************************)
EXTENDS Naturals, Sequences, FiniteSets, Functions

LOCAL SX == INSTANCE SequencesExt

CONSTANTS
    Delegators,      \* the validator's delegators, one delegation each
    MaxTokens,       \* largest delegation considered
    FracNum, FracDen \* the slash fraction

ASSUME FracDen > 0 /\ FracNum \in 1..FracDen

VARIABLES
    tokens,     \* delegator -> tokens of its delegation to the validator
    provider,   \* delegator -> its total provider delegations
    order,      \* the delegations after slices.SortFunc
    i,          \* loop index into order
    remaining,  \* remainingTokensToSlash
    charged,    \* delegator -> tokensToSlash the hook asked to unbond
    phase       \* "idle", "loop", "done"

vars == <<tokens, provider, order, i, remaining, charged, phase>>

(* fraction.Mul(x).TruncateInt()                                          *)
Trunc(x) == (FracNum * x) \div FracDen

ValidatorTokens == SumFunction(tokens)

TypeOK ==
    /\ tokens \in [Delegators -> 1..MaxTokens]
    /\ provider \in [Delegators -> Nat]
    /\ charged \in [Delegators -> Nat]
    /\ remaining \in Int
    /\ phase \in {"idle", "loop", "done"}

(* Before the hook the provider side mirrors the validator side, as      *)
(* AfterDelegationModified keeps it.                                     *)
Init ==
    /\ tokens \in [Delegators -> 1..MaxTokens]
    /\ provider = tokens
    /\ order = <<>>
    /\ i = 0
    /\ remaining = 0
    /\ charged = [d \in Delegators |-> 0]
    /\ phase = "idle"

(* SortFunc with the comparison "tokens of i < tokens of j" (it is not   *)
(* stable: equal delegations come in any order).                          *)
SortedAscending ==
    {o \in SX!SetToSeqs(Delegators) : \A k \in 1..(Len(o) - 1) : tokens[o[k]] <= tokens[o[k + 1]]}

(* Faulty variant: delegations sorted from the highest to the lowest.     *)
BeginSlashDescending ==
    /\ phase = "idle"
    /\ remaining' = Trunc(ValidatorTokens)
    /\ order' \in {o \in SX!SetToSeqs(Delegators) :
                     \A k \in 1..(Len(o) - 1) : tokens[o[k]] >= tokens[o[k + 1]]}
    /\ i' = 1
    /\ phase' = "loop"
    /\ UNCHANGED <<tokens, provider, charged>>

(* Lines 106-119: the validator is found (the staking module calls the   *)
(* hook for the validator it slashes), the total to slash is computed   *)
(* and the delegations are sorted.                                        *)
BeginSlash ==
    /\ phase = "idle"
    /\ remaining' = Trunc(ValidatorTokens)
    /\ order' \in SortedAscending
    /\ i' = 1
    /\ phase' = "loop"
    /\ UNCHANGED <<tokens, provider, charged>>

(* Unbonding amt from d's providers: an error, only logged, leaves them  *)
(* as they were; remainingTokensToSlash is reduced either way.           *)
Charge(d, amt) ==
    /\ charged' = [charged EXCEPT ![d] = @ + amt]
    /\ provider' = IF amt <= provider[d]
                   THEN [provider EXCEPT ![d] = @ - amt]
                   ELSE provider
    /\ remaining' = remaining - amt

(* Faulty variant: the remainder goes to the last but one delegation.     *)
SlashDelegationLastOffByOne ==
    /\ phase = "loop"
    /\ i <= Len(order)
    /\ LET d       == order[i]
           toSlash == IF i = Len(order) - 1 THEN remaining ELSE Trunc(tokens[d])
       IN IF toSlash > 0 THEN Charge(d, toSlash)
          ELSE UNCHANGED <<charged, provider, remaining>>
    /\ i' = i + 1
    /\ UNCHANGED <<tokens, order, phase>>

(* Lines 120-139: one iteration of the loop over the sorted delegations. *)
SlashDelegation ==
    /\ phase = "loop"
    /\ i <= Len(order)
    /\ LET d       == order[i]
           toSlash == IF i = Len(order) THEN remaining ELSE Trunc(tokens[d])
       IN IF toSlash > 0 THEN Charge(d, toSlash)
          ELSE UNCHANGED <<charged, provider, remaining>>
    /\ i' = i + 1
    /\ UNCHANGED <<tokens, order, phase>>

(* Lines 141-147: the loop is over; the event is emitted and the hook    *)
(* returns nil.                                                           *)
EndSlash ==
    /\ phase = "loop"
    /\ i > Len(order)
    /\ phase' = "done"
    /\ UNCHANGED <<tokens, provider, order, i, remaining, charged>>

Next == BeginSlash \/ SlashDelegation \/ EndSlash

Spec == Init /\ [][Next]_vars

-----------------------------------------------------------------------------
(* The hook asks the providers for exactly what the validator loses:     *)
(* the charges of all delegations add up to trunc(fraction * validator   *)
(* tokens), the remainder of the truncations included.                   *)
SlashSplitsExactly ==
    phase = "done" => SumFunction(charged) = Trunc(ValidatorTokens)

(* Every delegator is charged its own truncated share, and only a        *)
(* largest delegation takes the rounding remainder on top of it (the     *)
(* comment at lines 115-116).                                            *)
RemainderOnLargest ==
    phase = "done" =>
        \A d \in Delegators :
            /\ charged[d] >= Trunc(tokens[d])
            /\ charged[d] > Trunc(tokens[d]) => \A e \in Delegators : tokens[e] <= tokens[d]

(* The hook keeps the balance it exists for (the comment at line 104):  *)
(* once it returns, the delegators' provider stake has gone down by the *)
(* amount the validator is slashed.                                      *)
ProvidersStayBalanced ==
    phase = "done" => SumFunction(provider) = ValidatorTokens - Trunc(ValidatorTokens)
=============================================================================
