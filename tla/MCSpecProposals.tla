--------------------------- MODULE MCSpecProposals ---------------------------
(* Three spec indices and one API: a spec can inherit an API through a    *)
(* chain of two imports, so a new version of the last spec of the chain  *)
(* breaks the first, and a proposal can carry an importer before or after *)
(* the spec it imports.  Proposals carry up to two specs; a proposed spec *)
(* imports at most one other (chains and cycles are built over several   *)
(* proposals, or within one) and either provides or inherits the API.     *)
(* Two registered subspaces (epochstorage and one more) with one key      *)
(* besides LatestParamChange, one value and a refused one.              *)
EXTENDS SpecProposals

CONSTANTS s1, s2, s3, x, epochstorage, ss2, k1, latest, v1

MCIndices       == {s1, s2, s3}
MCApis          == {x}
MCProposalSpecs == {sp \in Spec : Cardinality(sp.imports) <= 1 /\ sp.apis \cap sp.inherits = {}}
MCSubspaces     == {epochstorage, ss2}
MCParamKeys     == {k1, latest}
MCValues        == {v1}
=============================================================================
