------------------------- MODULE MCDualstakingHooks -------------------------
(***************************************************************************)
(* Two validators, two providers besides the empty one, delegations of   *)
(* up to three tokens: partial and full undelegations, and redelegations *)
(* to a validator the delegator already has stake with.                  *)
(***************************************************************************)
EXTENDS DualstakingHooks

CONSTANTS v1, v2, p1, p2, empty

MCValidators == {v1, v2}
MCProviders  == {p1, p2, empty}
=============================================================================
