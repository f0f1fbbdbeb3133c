----------------------------- MODULE DomainSet -----------------------------
(***************************************************************************)
(* pkg/filtering/domainset.go: a set of exact names and of wildcard        *)
(* suffixes, with the lookup blocklist and allowlist share.  Entries are   *)
(* normalised (lower case, no final dot) when they are added.              *)
(***************************************************************************)
EXTENDS Names

DomainSets == [exact : SUBSET Name, wildcards : SUBSET Name]

NewDomainSet == [exact |-> {}, wildcards |-> {}]

\* Some proper, non-empty suffix of n is an entry of the map.
MatchesSuffix(n, map) == \E i \in 1..(Len(n) - 1) : Suffix(n, i) \in map

\* The root normalises to the empty string, which matches nothing.
Matches(set, name, includeSubdomains) ==
    LET n == Lower(name)
    IN  /\ n # <<>>
        /\ \/ n \in set.exact
           \/ MatchesSuffix(n, set.wildcards)
           \/ includeSubdomains /\ MatchesSuffix(n, set.exact)
=============================================================================
