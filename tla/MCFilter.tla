------------------------------ MODULE MCFilter ------------------------------
(***************************************************************************)
(* Filter with every blocklist and every allowlist of at most two entries  *)
(* over a name and its subdomain, exact or wildcard.                       *)
(***************************************************************************)
EXTENDS Filter, TLC

CONSTANTS ads, ADS, com

MCLabel == {ads, ADS, com, Star, NoLabel}

MCToLower == [l \in MCLabel |-> IF l = ADS THEN ads ELSE l]

MCQueryName == {<<ADS, com>>, <<com>>}

MCLists ==
    {l \in [exact : SUBSET {<<ads, com>>, <<com>>}, wildcards : SUBSET {<<com>>}] :
        Cardinality(l.exact) + Cardinality(l.wildcards) <= 1}

Symmetry == Permutations(Caller)
=============================================================================
