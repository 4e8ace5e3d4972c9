----------------------------- MODULE MCSlashHook -----------------------------
(***************************************************************************)
(* Four delegators of up to three tokens each, slashed by one half: the  *)
(* smallest setting in which the truncated shares leave a remainder     *)
(* larger than a delegation.                                             *)
(***************************************************************************)
EXTENDS SlashHook, TLC

CONSTANTS d1, d2, d3, d4

MCDelegators == {d1, d2, d3, d4}

(* Delegators are interchangeable: nothing orders them but their tokens. *)
MCSymmetry == Permutations(MCDelegators)
=============================================================================
