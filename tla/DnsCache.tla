------------------------------ MODULE DnsCache ------------------------------
(***************************************************************************)
(* pkg/dnscache.  The cache maps a key to a pointer: the entry refers to   *)
(* the message object of the request that stored it, and that object is    *)
(* still being used by its handler.  Objects live in `heap', one per       *)
(* request.  The RWMutex makes Get, Set and Clear one step each, but what  *)
(* is done with the pointer Get returns is outside the lock.               *)
(***************************************************************************)
EXTENDS Messages

CONSTANTS EmptyTTL,    \* lifetime of a message without answers: 60 seconds
          MaxTime      \* bound on the clock

ASSUME CacheAssumption == EmptyTTL \in Nat /\ MaxTime \in Nat

VARIABLES heap,      \* the message object of each request
          cache,     \* the entries, expired ones included: none is ever evicted
          now,       \* the clock
          reloads    \* history: the version of the records at the last ClearCache

Key == [name : Name, qtype : QType, proto : Proto]

\* `set' and `era' are history: when the entry was stored.
Entry == [msg : Request, exp : Nat, set : Nat, era : Nat]

CacheTypeOK ==
    /\ heap \in [Request -> Msg \cup {None}]
    /\ DOMAIN cache \subseteq Key
    /\ \A k \in DOMAIN cache : cache[k] \in Entry
    /\ now \in Nat
    /\ reloads \in Nat

CacheInit ==
    /\ heap = [r \in Request |-> None]
    /\ cache = <<>>
    /\ now = 0
    /\ reloads = 0

\* Get(key): found, and time.Now() is not after ExpiresAt.
Found(k) == k \in DOMAIN cache /\ ~(now > cache[k].exp)

\* Mutant of TTL: the last answer decides.
LastTTL(m) == IF Len(m.ans) > 0 THEN m.ans[Len(m.ans)].ttl ELSE EmptyTTL

TTL(m) == IF Len(m.ans) > 0 THEN m.ans[1].ttl ELSE EmptyTTL

Set(k, r) ==
    LET e == [msg |-> r, exp |-> now + TTL(heap[r]), set |-> now, era |-> reloads]
    IN  cache' = [x \in DOMAIN cache \cup {k} |-> IF x = k THEN e ELSE cache[x]]

\* Mutant of Clear: only what has expired is dropped.
ClearExpired ==
    LET live == {k \in DOMAIN cache : Found(k)}
    IN  cache' = [k \in live |-> cache[k]]

Clear == cache' = <<>>

Tick == now < MaxTime /\ now' = now + 1
=============================================================================
