----------------------------- MODULE ValueCache -----------------------------
(***************************************************************************)
(* What clients may rely on, without the machinery: questions are asked,   *)
(* messages become known as values that never change, and a reply is a     *)
(* refusal or repeats one known message.  Nothing here is shared, nothing  *)
(* is changed in place and a message is known in one step, which is what   *)
(* "safe for concurrent use" promises of a cache.                          *)
(***************************************************************************)
EXTENDS Messages

VARIABLES asked,   \* the question of each request, or None
          known,   \* the messages known so far, and the question of each
          reply    \* what was sent to each client, or None

cacheVars == <<asked, known, reply>>

KnownInit ==
    /\ asked = [r \in Request |-> None]
    /\ known = {}
    /\ reply = [r \in Request |-> None]

Ask(r) ==
    /\ asked[r] = None
    /\ asked'[r] \in Query
    /\ asked' = [asked EXCEPT ![r] = asked'[r]]
    /\ UNCHANGED <<known, reply>>

\* A message becomes known while the request it was made for is in progress.
Learn ==
    /\ \E k \in known' :
          /\ known' = known \cup {k}
          /\ k.msg.src \in {"local", "upstream"}
          /\ k.question = asked[k.msg.id]
          /\ reply[k.msg.id] = None
    /\ UNCHANGED <<asked, reply>>

SameQuestion(p, q) ==
    /\ p # None /\ q # None
    /\ Lower(p.name) = Lower(q.name) /\ p.qtype = q.qtype /\ p.proto = q.proto

Refusal(m) == m.ans = <<>> /\ m.src \in {"filter", "servfail", "formerr"}

\* m repeats v: all of it over TCP, else maybe without the last answers.  A
\* truncated flag may be added and is never dropped.
Repeats(m, v, proto) ==
    \E n \in 0..Len(v.ans) :
        /\ m = [v EXCEPT !.id = m.id, !.tc = m.tc, !.ans = SubSeq(v.ans, 1, n)]
        /\ v.tc => m.tc
        /\ proto = "tcp" => n = Len(v.ans)

Answer(r) ==
    /\ reply[r] = None
    /\ LET m == reply'[r]
       IN  /\ m # None /\ m.id = r
           /\ \/ Refusal(m)
              \/ \E k \in known : /\ SameQuestion(k.question, asked[r])
                                  /\ Repeats(m, k.msg, asked[r].proto)
    /\ reply' = [reply EXCEPT ![r] = reply'[r]]
    /\ UNCHANGED <<asked, known>>

KnownNext == Learn \/ \E r \in Request : Ask(r) \/ Answer(r)

KnownSpec == KnownInit /\ [][KnownNext]_cacheVars
=============================================================================
