----------------------------- MODULE MCProjects -----------------------------
(***************************************************************************)
(* Two subscriptions, whose addresses are the keys; one valid and one    *)
(* invalid project name; every key list of up to two keys, each an admin *)
(* or a developer key.                                                    *)
(***************************************************************************)
EXTENDS Projects, TLC

CONSTANTS a1, a2, n1, nbad, admin

MCSubs  == {a1, a2}
MCKeys  == {a1, a2}
MCNames == {n1, nbad}
MCValidNames == {n1, admin}

KeyEntries == [key : MCKeys, types : {{ADMIN}, {DEVELOPER}}]
MCKeyLists == {<<>>} \cup {<<e>> : e \in KeyEntries} \cup {<<e, f>> : e, f \in KeyEntries}
(* The two subscriptions are interchangeable, their addresses with them. *)
MCSymmetry == Permutations(MCSubs)
=============================================================================
