---------------------------- MODULE FilterProofs ----------------------------
(***************************************************************************)
(* A refresh of the lists never opens a hole, for any lists, any names and *)
(* any number of handlers and of refreshes.                                *)
(***************************************************************************)
EXTENDS Filter, TLAPS

-----------------------------------------------------------------------------
(***************************************************************************)
(* NeverFailsOpen is not inductive: what ShouldBlock reads has to be known *)
(* to come from the history.  The blocklist in force is always the one of  *)
(* the last load, the allowlist in force is the one of the last complete   *)
(* load, and no call began under a load that is still to come.             *)
(***************************************************************************)
ListsInForce ==
    /\ Len(loads) >= 1
    /\ load.next = "allow" => Len(loads) >= 2 /\ load.lists = loads[Len(loads)]
    /\ blocklist = loads[Len(loads)].block
    /\ allowlist = loads[Complete].allow

CallsBegan ==
    \A c \in Caller : check[c].st # "none" => check[c].since \in 1..Len(loads)

FilterInv == FilterTypeOK /\ ListsInForce /\ CallsBegan /\ NeverFailsOpen

\* The lists a load yields are domain sets: what FilterAssumption and
\* NewDomainSet say of LoadSources and LoadAllowlist.
LEMMA LoadResultType == LoadResult \subseteq Pair
<1>1. NewDomainSet \in DomainSets
  BY DEF NewDomainSet, DomainSets
<1> QED
  BY <1>1, FilterAssumption DEF LoadResult, Pair

\* The invariant holds when Start returns, after its first LoadOnce.
LEMMA FilterInitInv == FilterInit => FilterInv
<1> SUFFICES ASSUME FilterInit PROVE FilterInv
  OBVIOUS
<1> PICK p \in LoadResult :
      /\ blocklist = p.block
      /\ allowlist = p.allow
      /\ load = [next |-> "load", lists |-> p]
      /\ loads = <<p>>
  BY DEF FilterInit
<1>1. p \in Pair
  BY LoadResultType
<1>2. check = [c \in Caller |-> [st |-> "none", name |-> <<>>, since |-> 0]]
  BY DEF FilterInit
<1>3. <<>> \in Name
  BY DEF Name
<1>4. FilterTypeOK
  BY <1>1, <1>2, <1>3 DEF FilterTypeOK, Pair, Check
<1>5. ListsInForce
  BY <1>1 DEF ListsInForce, Complete
<1>6. CallsBegan /\ NeverFailsOpen
  BY <1>2 DEF CallsBegan, NeverFailsOpen
<1> QED
  BY <1>4, <1>5, <1>6 DEF FilterInv

-----------------------------------------------------------------------------
(* One lemma per step: of LoadOnce, then of ShouldBlock. *)

\* The slow part of LoadOnce, the downloads, leaves the lists in force alone.
LEMMA LoadListsInv == FilterInv /\ LoadLists => FilterInv'
<1> SUFFICES ASSUME FilterInv, LoadLists PROVE FilterInv'
  OBVIOUS
<1> USE DEF FilterInv
<1>1. PICK p \in LoadResult : load' = [next |-> "block", lists |-> p]
  BY DEF LoadLists
<1>2. UNCHANGED <<blocklist, allowlist, loads, check>> /\ load.next = "load"
  BY DEF LoadLists
<1>3. FilterTypeOK'
  BY <1>1, <1>2, LoadResultType DEF FilterTypeOK
<1>4. ListsInForce'
  BY <1>1, <1>2 DEF ListsInForce, Complete
<1>5. CallsBegan' /\ NeverFailsOpen'
  BY <1>2 DEF CallsBegan, NeverFailsOpen, During, Blocks
<1> QED
  BY <1>3, <1>4, <1>5

\* f.blocklist.Store: the history grows, and the allowlist is now that of the
\* load before the last.
LEMMA StoreBlocklistInv == FilterInv /\ StoreBlocklist => FilterInv'
<1> SUFFICES ASSUME FilterInv, StoreBlocklist PROVE FilterInv'
  OBVIOUS
<1> USE DEF FilterInv
<1> DEFINE n == Len(loads)
<1>1. /\ load.next = "block" /\ load \in [next : {"load", "block", "allow"}, lists : Pair]
      /\ loads \in Seq(Pair) /\ n \in Nat
      /\ loads' = Append(loads, load.lists)
  BY DEF StoreBlocklist, FilterTypeOK
<1>2. /\ loads' \in Seq(Pair) /\ Len(loads') = n + 1
      /\ loads'[n + 1] = load.lists
      /\ \A g \in 1..n : loads'[g] = loads[g]
  BY <1>1
<1>3. /\ load' = [load EXCEPT !.next = "allow"]
      /\ blocklist' = load.lists.block
      /\ UNCHANGED <<allowlist, check>>
  BY DEF StoreBlocklist
<1>4. FilterTypeOK'
  BY <1>1, <1>2, <1>3 DEF FilterTypeOK, Pair
<1>5. ListsInForce'
  BY <1>1, <1>2, <1>3 DEF ListsInForce, Complete
<1>6. CallsBegan'
  BY <1>1, <1>2, <1>3 DEF CallsBegan
<1>7. NeverFailsOpen'
  <2> SUFFICES ASSUME NEW c \in Caller, check[c].st = "allowed"
               PROVE  \E g \in check[c].since..Len(loads') :
                         ~Blocks(loads'[g], check[c].name)
    BY <1>3 DEF NeverFailsOpen, During
  <2>1. PICK g \in check[c].since..n : ~Blocks(loads[g], check[c].name)
    BY DEF NeverFailsOpen, During
  <2>2. check[c].since \in 1..n
    BY DEF CallsBegan
  <2>3. g \in 1..n /\ g \in check[c].since..(n + 1)
    BY <2>1, <2>2, <1>1
  <2> QED
    BY <2>1, <2>3, <1>2
<1> QED
  BY <1>4, <1>5, <1>6, <1>7

\* f.allowlist.Store completes the load.
LEMMA StoreAllowlistInv == FilterInv /\ StoreAllowlist => FilterInv'
<1> SUFFICES ASSUME FilterInv, StoreAllowlist PROVE FilterInv'
  OBVIOUS
<1> USE DEF FilterInv
<1>1. /\ load.next = "allow"
      /\ allowlist' = load.lists.allow
      /\ load' = [load EXCEPT !.next = "load"]
      /\ UNCHANGED <<blocklist, loads, check>>
  BY DEF StoreAllowlist
<1>2. FilterTypeOK'
  BY <1>1 DEF FilterTypeOK, Pair
<1>3. ListsInForce'
  BY <1>1 DEF ListsInForce, Complete, FilterTypeOK
<1>4. CallsBegan' /\ NeverFailsOpen'
  BY <1>1 DEF CallsBegan, NeverFailsOpen, During, Blocks
<1> QED
  BY <1>2, <1>3, <1>4

\* A match in the allowlist is a verdict the last complete load shares.
LEMMA ReadAllowlistInv ==
    ASSUME NEW c \in Caller, NEW name \in Name
    PROVE  FilterInv /\ ReadAllowlist(c, name) => FilterInv'
<1> SUFFICES ASSUME FilterInv, ReadAllowlist(c, name) PROVE FilterInv'
  OBVIOUS
<1> USE DEF FilterInv
<1> DEFINE st == IF Matches(allowlist, name, BlockSubdomains)
                 THEN "allowed" ELSE "reading"
<1>1. /\ check' = [check EXCEPT ![c] = [st |-> st, name |-> name, since |-> Complete]]
      /\ UNCHANGED <<blocklist, allowlist, load, loads>>
  BY DEF ReadAllowlist
<1>2. Complete \in 1..Len(loads) /\ Complete \in Nat
  BY DEF ListsInForce, Complete, FilterTypeOK
<1>3. FilterTypeOK'
  BY <1>1, <1>2 DEF FilterTypeOK, Check
<1>4. ListsInForce'
  BY <1>1 DEF ListsInForce, Complete
<1>5. CallsBegan'
  BY <1>1, <1>2 DEF CallsBegan, FilterTypeOK
<1>6. NeverFailsOpen'
  <2> SUFFICES ASSUME NEW d \in Caller, check'[d].st = "allowed"
               PROVE  \E g \in check'[d].since..Len(loads) :
                         ~Blocks(loads[g], check'[d].name)
    BY <1>1 DEF NeverFailsOpen, During, Blocks
  <2>1. CASE d = c
    <3>1. check'[c] = [st |-> st, name |-> name, since |-> Complete]
      BY <1>1 DEF FilterTypeOK
    <3>2. Matches(loads[Complete].allow, name, BlockSubdomains)
      BY <2>1, <3>1 DEF ListsInForce
    <3>3. ~Blocks(loads[Complete], name)
      BY <3>2 DEF Blocks
    <3>4. Complete \in Complete..Len(loads)
      BY <1>2
    <3> QED
      BY <2>1, <3>1, <3>3, <3>4
  <2>2. CASE d # c
    <3>1. check'[d] = check[d]
      BY <1>1, <2>2 DEF FilterTypeOK
    <3> QED
      BY <3>1 DEF NeverFailsOpen, During
  <2> QED
    BY <2>1, <2>2
<1> QED
  BY <1>3, <1>4, <1>5, <1>6

\* A miss in the blocklist is a verdict the last load shares.
LEMMA ReadBlocklistInv ==
    ASSUME NEW c \in Caller
    PROVE  FilterInv /\ ReadBlocklist(c) => FilterInv'
<1> SUFFICES ASSUME FilterInv, ReadBlocklist(c) PROVE FilterInv'
  OBVIOUS
<1> USE DEF FilterInv
<1> DEFINE st == IF Matches(blocklist, check[c].name, BlockSubdomains)
                 THEN "blocked" ELSE "allowed"
<1>1. /\ check[c].st = "reading"
      /\ check' = [check EXCEPT ![c].st = st]
      /\ UNCHANGED <<blocklist, allowlist, load, loads>>
  BY DEF ReadBlocklist
<1>2. /\ check'[c].st = st
      /\ check'[c].name = check[c].name
      /\ check'[c].since = check[c].since
      /\ \A d \in Caller \ {c} : check'[d] = check[d]
  BY <1>1 DEF FilterTypeOK, Check
<1>3. check[c].since \in 1..Len(loads)
  BY <1>1 DEF CallsBegan
<1>4. FilterTypeOK'
  BY <1>1 DEF FilterTypeOK, Check
<1>5. ListsInForce'
  BY <1>1 DEF ListsInForce, Complete
<1>6. CallsBegan'
  BY <1>1, <1>2, <1>3 DEF CallsBegan
<1>7. NeverFailsOpen'
  <2> SUFFICES ASSUME NEW d \in Caller, check'[d].st = "allowed"
               PROVE  \E g \in check'[d].since..Len(loads) :
                         ~Blocks(loads[g], check'[d].name)
    BY <1>1 DEF NeverFailsOpen, During, Blocks
  <2>1. CASE d = c
    <3>1. ~Blocks(loads[Len(loads)], check[c].name)
      BY <2>1, <1>2 DEF ListsInForce, Blocks
    <3>2. Len(loads) \in check[c].since..Len(loads)
      BY <1>3 DEF FilterTypeOK
    <3> QED
      BY <2>1, <1>2, <3>1, <3>2
  <2>2. CASE d # c
    BY <2>2, <1>2 DEF NeverFailsOpen, During
  <2> QED
    BY <2>1, <2>2
<1> QED
  BY <1>4, <1>5, <1>6, <1>7

-----------------------------------------------------------------------------
\* The invariant is inductive.
LEMMA FilterNextInv == FilterInv /\ [FilterNext]_filterVars => FilterInv'
<1> SUFFICES ASSUME FilterInv, [FilterNext]_filterVars PROVE FilterInv'
  OBVIOUS
<1>1. CASE LoadOnce
  BY <1>1, LoadListsInv, StoreBlocklistInv, StoreAllowlistInv DEF LoadOnce
<1>2. ASSUME NEW c \in Caller, NEW n \in QueryName, ReadAllowlist(c, n)
      PROVE  FilterInv'
  BY <1>2, ReadAllowlistInv, FilterAssumption
<1>3. ASSUME NEW c \in Caller, ReadBlocklist(c)
      PROVE  FilterInv'
  BY <1>3, ReadBlocklistInv
<1>4. CASE UNCHANGED filterVars
  BY <1>4 DEF filterVars, FilterInv, FilterTypeOK, ListsInForce, Complete,
              CallsBegan, NeverFailsOpen, During, Blocks
<1> QED
  BY <1>1, <1>2, <1>3, <1>4 DEF FilterNext

\* ShouldBlock lets a name pass only if some load in force during the call,
\* taken as a whole, lets it pass, whatever LoadOnce does meanwhile.
THEOREM FilterSafe == FilterSpec => []NeverFailsOpen
<1>1. FilterInv => NeverFailsOpen
  BY DEF FilterInv
<1> QED
  BY FilterInitInv, FilterNextInv, <1>1, PTL DEF FilterSpec
=============================================================================
