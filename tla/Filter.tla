------------------------------- MODULE Filter -------------------------------
(***************************************************************************)
(* pkg/filtering/filter.go: the blocklist and the allowlist, each behind   *)
(* an atomic.Value of its own, the refresh goroutine that replaces them    *)
(* one after the other, and the handler goroutines that read them one      *)
(* after the other in ShouldBlock.                                         *)
(*                                                                         *)
(* What LoadSources and LoadAllowlist return is a choice: the blocklists   *)
(* that the enabled sources may yield, and the allowlists that the file    *)
(* may hold, or the empty set if it cannot be read.                        *)
(***************************************************************************)
EXTENDS DomainSet

CONSTANTS Caller,            \* the goroutines that call ShouldBlock, once each
          QueryName,         \* the names they ask about
          BlockSubdomains,   \* filtering.block_subdomains
          Blocklists,        \* what LoadSources may return
          Allowlists,        \* what LoadAllowlist may return
          MaxLoads           \* bound on the refreshes after the one in Start

ASSUME FilterAssumption ==
    /\ QueryName \subseteq Name
    /\ BlockSubdomains \in BOOLEAN
    /\ Blocklists \subseteq DomainSets /\ Blocklists # {}
    /\ Allowlists \subseteq DomainSets
    /\ MaxLoads \in Nat

VARIABLES
    blocklist,   \* f.blocklist
    allowlist,   \* f.allowlist
    load,        \* the refresh in progress: what it does next and what it loaded
    loads,       \* history: the pairs of lists loaded so far, oldest first
    check        \* the calls of ShouldBlock, and the load each one began under

filterVars == <<blocklist, allowlist, load, loads, check>>

Pair == [block : DomainSets, allow : DomainSets]

Check == [st : {"none", "reading", "allowed", "blocked"}, name : Name, since : Nat]

FilterTypeOK ==
    /\ blocklist \in DomainSets
    /\ allowlist \in DomainSets
    /\ load \in [next : {"load", "block", "allow"}, lists : Pair]
    /\ loads \in Seq(Pair)
    /\ check \in [Caller -> Check]

\* A failed LoadAllowlist is replaced by the empty set; LoadSources never fails.
LoadResult == [block : Blocklists, allow : Allowlists \cup {NewDomainSet}]

\* NewFilter, then Start with its first LoadOnce: both return before the
\* server is created.
FilterInit ==
    /\ \E p \in LoadResult :
          /\ blocklist = p.block
          /\ allowlist = p.allow
          /\ load = [next |-> "load", lists |-> p]
          /\ loads = <<p>>
    /\ check = [c \in Caller |-> [st |-> "none", name |-> <<>>, since |-> 0]]

-----------------------------------------------------------------------------
(* LoadOnce, on a tick of the refresh goroutine. *)

\* Mutant of LoadLists: the blocklist is emptied before it is rebuilt.
LoadListsAfresh ==
    /\ load.next = "load"
    /\ Len(loads) <= MaxLoads
    /\ \E p \in LoadResult : load' = [next |-> "block", lists |-> p]
    /\ blocklist' = NewDomainSet
    /\ UNCHANGED <<allowlist, loads, check>>

LoadLists ==
    /\ load.next = "load"
    /\ Len(loads) <= MaxLoads
    /\ \E p \in LoadResult : load' = [next |-> "block", lists |-> p]
    /\ UNCHANGED <<blocklist, allowlist, loads, check>>

StoreBlocklist ==
    /\ load.next = "block"
    /\ blocklist' = load.lists.block
    /\ load' = [load EXCEPT !.next = "allow"]
    /\ loads' = Append(loads, load.lists)
    /\ UNCHANGED <<allowlist, check>>

StoreAllowlist ==
    /\ load.next = "allow"
    /\ allowlist' = load.lists.allow
    /\ load' = [load EXCEPT !.next = "load"]
    /\ UNCHANGED <<blocklist, loads, check>>

LoadOnce == LoadLists \/ StoreBlocklist \/ StoreAllowlist

-----------------------------------------------------------------------------
(* ShouldBlock(name): the allowlist first, the blocklist second. *)

\* The last load both of whose lists are in force.
Complete == IF load.next = "allow" THEN Len(loads) - 1 ELSE Len(loads)

ReadAllowlist(c, name) ==
    /\ check[c].st = "none"
    /\ check' = [check EXCEPT ![c] =
          [st    |-> IF Matches(allowlist, name, BlockSubdomains)
                     THEN "allowed" ELSE "reading",
           name  |-> name,
           since |-> Complete]]
    /\ UNCHANGED <<blocklist, allowlist, load, loads>>

ReadBlocklist(c) ==
    /\ check[c].st = "reading"
    /\ check' = [check EXCEPT ![c].st =
          IF Matches(blocklist, check[c].name, BlockSubdomains)
          THEN "blocked" ELSE "allowed"]
    /\ UNCHANGED <<blocklist, allowlist, load, loads>>

FilterNext ==
    \/ LoadOnce
    \/ \E c \in Caller, n \in QueryName : ReadAllowlist(c, n)
    \/ \E c \in Caller : ReadBlocklist(c)

FilterSpec == FilterInit /\ [][FilterNext]_filterVars

-----------------------------------------------------------------------------
(* Properties *)

\* The verdict a single, complete load gives.
Blocks(p, name) ==
    /\ ~Matches(p.allow, name, BlockSubdomains)
    /\ Matches(p.block, name, BlockSubdomains)

\* The loads that were in force, or being put in force, during the call so far.
During(c) == check[c].since..Len(loads)

\* A refresh never opens a hole: ShouldBlock lets a name pass only if some
\* load in force during the call, taken as a whole, lets it pass, however the
\* two reads of ShouldBlock and the two stores of LoadOnce interleave.
NeverFailsOpen ==
    \A c \in Caller : check[c].st = "allowed" =>
        \E g \in During(c) : ~Blocks(loads[g], check[c].name)

\* The converse, which resolvit.conf.example promises for allowlisted names
\* ("will always be resolved even if included in a block list"): a name is
\* blocked only if some load in force during the call, taken as a whole,
\* blocks it.
NeverBlocksTheAllowed ==
    \A c \in Caller : check[c].st = "blocked" =>
        \E g \in During(c) : Blocks(loads[g], check[c].name)
=============================================================================
