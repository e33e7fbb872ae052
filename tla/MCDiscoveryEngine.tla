------------------------- MODULE MCDiscoveryEngine --------------------------
(* A field and a result target; the caller requires the result or a target    *)
(* that the profile does not have.                                            *)
EXTENDS DiscoveryEngine

CONSTANTS field, result

MCRequiredSets == {{result}, {Stranger}}
=============================================================================
