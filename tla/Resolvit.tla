------------------------------ MODULE Resolvit ------------------------------
(***************************************************************************)
(* The running server: the handlers of all requests, the refresh goroutine *)
(* of the filter, main's SIGHUP loop, the upstreams and the clock.         *)
(***************************************************************************)
EXTENDS Handler

CONSTANTS RecordFiles,   \* what the records file may hold when it is read
          MaxReloads     \* bound on the loads after the one at startup

ASSUME ResolvitAssumption ==
    /\ RecordFiles \subseteq Seq(Line)
    /\ MaxReloads \in Nat

VARIABLE main   \* "signal": main waits for a signal; "clear": it calls ClearCache

vars == <<records, gen, heap, cache, now, reloads, fwd, filterVars,
          handlerVars, main>>

TypeOK ==
    /\ RecordsTypeOK
    /\ CacheTypeOK
    /\ ForwarderTypeOK
    /\ FilterTypeOK
    /\ HandlerTypeOK
    /\ main \in {"signal", "clear"}

Init ==
    /\ RecordsInit(RecordFiles)
    /\ CacheInit
    /\ ForwarderInit
    /\ FilterInit
    /\ HandlerInit
    /\ main = "signal"

-----------------------------------------------------------------------------
(***************************************************************************)
(* SIGHUP.  LoadFromFile returns before ClearCache is called, so handlers  *)
(* run between the two.  A load that cannot open the file changes nothing  *)
(* (a stuttering step); one whose scan fails has replaced the records but  *)
(* is not followed by ClearCache.                                          *)
(***************************************************************************)
LoadRecords ==
    /\ main = "signal"
    /\ gen < MaxReloads
    /\ \E file \in RecordFiles :
          /\ LoadFromFile(file)
          /\ main' = IF ScanError(file) THEN "signal" ELSE "clear"
    /\ UNCHANGED <<heap, cache, now, reloads, fwd, filterVars, handlerVars>>

ClearCache ==
    /\ main = "clear"
    /\ Clear
    /\ reloads' = gen
    /\ main' = "signal"
    /\ UNCHANGED <<records, gen, heap, now, fwd, filterVars, handlerVars>>

Refresh ==
    /\ FilterEnabled
    /\ LoadOnce
    /\ UNCHANGED <<records, gen, heap, cache, now, reloads, fwd, handlerVars, main>>

Arrive(r) ==
    /\ Receive(r) \/ FormatError(r)
    /\ UNCHANGED <<records, gen, now, reloads, main>>

Serve(r) ==
    /\ HandleDNSRequest(r)
    /\ UNCHANGED <<records, gen, now, reloads, main>>

PassTime ==
    /\ Tick
    /\ UNCHANGED <<records, gen, heap, cache, reloads, fwd, filterVars,
                   handlerVars, main>>

Next ==
    \/ \E r \in Request : Arrive(r) \/ Serve(r)
    \/ LoadRecords \/ ClearCache
    \/ Refresh
    \/ PassTime

Spec == Init /\ [][Next]_vars

\* Goroutines that can run do run, and every exchange ends, by its timeout if
\* by nothing else.
Fairness == \A r \in Request : WF_vars(Serve(r))

FairSpec == Spec /\ Fairness

-----------------------------------------------------------------------------
(* Properties of what clients get *)

Sent(r) == out[r] # None

Answered(r) == Sent(r) /\ out[r].src # "formerr"

\* Every reply carries the transaction id of the request it is sent for, also
\* when it is a copy of a message made for another request, and answers that
\* request's question but for the spelling of the name, its class excepted:
\* cacheKeyFor leaves the class out.
RepliesMatchRequests ==
    \A r \in Request : Answered(r) =>
        /\ out[r].id = r
        /\ Lower(out[r].question.name) = Lower(query[r].name)
        /\ out[r].question.qtype = query[r].qtype

\* writeResponse keeps UDP replies within MaxMsgSize as far as taking answers
\* away can do it, also when the message was copied from the cache while its
\* owner was cutting it down.
UdpRepliesFit ==
    \A r \in Request : Answered(r) /\ query[r].proto = "udp" => ~TooLarge(out[r])

\* A client that retries over TCP gets every answer the handler has: nothing
\* that writeResponse cuts for a UDP client reaches a TCP client through the
\* cache, whose keys hold the protocol.
TcpRepliesUncut ==
    \A r \in Request : Answered(r) /\ query[r].proto = "tcp" =>
        Len(out[r].ans) = out[r].made

\* A reply that was not served from the cache says so when answers were cut
\* to make it fit.
CutRepliesFlagged ==
    \A r \in Request : Answered(r) /\ hit[r] = None /\ Len(out[r].ans) < out[r].made =>
        out[r].tc

\* Answers that an upstream left out are missing without a word in one kind of
\* reply only.  When the UDP answer was truncated and the TCP retry failed or
\* was truncated too (forward.go:57-61), every client that is sent what came,
\* directly or from the cache, over either transport, is told, so that what
\* handler.go:73 calls complete is at least marked when it is not; but the reply
\* for a local alias takes over the answers and not the flag (handler.go:206).
LostAnswersFlagged ==
    \A r \in Request : Answered(r) /\ out[r].lost > 0 =>
        \/ out[r].tc
        \/ /\ out[r].src = "local"
           /\ Len(out[r].ans) > 0 => out[r].ans[1].type = "CNAME"

\* A cached message is handed out no longer than the TTL of its first answer
\* allows, whatever writeResponse has since taken from the shared object.  (Of
\* the TTLs of its other answers nothing is said: dnscache.go:55 reads the first.)
HitsWithinTtl ==
    \A r \in Request : Answered(r) /\ hit[r] # None /\ Len(out[r].ans) > 0 =>
        hit[r].at <= hit[r].entry.set + out[r].ans[1].ttl

\* An answer from records that a completed reload had already replaced when
\* the request arrived can only come from the cache, and there only from a
\* request that was being handled while that reload completed: ClearCache
\* leaves nothing older behind, neither of the version it replaced nor of one
\* that a load with a scan error had put in place before.  (Between such a load
\* and the next reload that completes, nothing is called outdated.)
StaleOnlyIfInFlight ==
    \A r \in Request :
        Answered(r) /\ out[r].src = "local" /\ out[r].gen < born[r] =>
            /\ hit[r] # None
            /\ born[hit[r].entry.msg] < hit[r].entry.era

\* Only what local records or an upstream said is cached: no NXDOMAIN of the
\* filter and no SERVFAIL of the handler reaches a client through the cache.
OnlyAnswersCached ==
    \A k \in DOMAIN cache : heap[cache[k].msg].src \in {"local", "upstream"}

\* The handler gives up on a question only after every upstream failed, and a
\* later upstream is asked only after all earlier ones failed.
GivesUpLast ==
    \A r \in Request :
        /\ Sent(r) /\ out[r].src = "servfail" => fwd[r].failed = 1..Upstreams
        /\ fwd[r] # None /\ fwd[r].st # "err" => fwd[r].failed = 1..(fwd[r].srv - 1)

\* Whatever is not answered from the local records is filtered first, and a
\* reply given in spite of the blocklist is none: cached messages, forwarded
\* ones and SERVFAIL need the verdict "allowed".
NothingBypassesFilter ==
    FilterEnabled => \A r \in Request :
        /\ Sent(r) /\ out[r].src = "filter" <=> Sent(r) /\ check[r].st = "blocked"
        /\ hit[r] # None \/ pc[r] = "forward" => check[r].st = "allowed"

\* Local records win: a name that has one is neither filtered nor forwarded,
\* nor answered from the cache (stated while the store is as it was loaded).
LocalRecordsWin ==
    \A r \in Request : gen = 0 /\ Answered(r) =>
        (Get(query[r].name) # None <=> out[r].src = "local" /\ hit[r] = None)

\* The CNAME records of a local answer form a chain that starts at the name
\* asked for, even if the records were reloaded halfway along it.
ChainsLinked ==
    \A r \in Request : Sent(r) /\ out[r].src = "local" /\ Len(out[r].ans) > 0 =>
        LET ans == out[r].ans
        IN  /\ Lower(ans[1].name) = Lower(query[r].name)
            /\ \A i \in 2..Len(ans) :
                  ans[i-1].type = "CNAME" => ans[i].name = ans[i-1].data

\* w.WriteMsg cannot pack the message because of what the records file says:
\* the name an alias leads to has a final dot, which handleCNAME doubles, or two
\* dots in a row, a label over 63 bytes or more than 255 bytes in all.
BadTarget(m) ==
    /\ m.src = "local"
    /\ \E i \in DOMAIN m.ans : m.ans[i].type = "CNAME" /\ ~Packable(m.ans[i].data)

\* A handler ends without a reply (a failure of the network aside) for two
\* reasons only: an alias of the records file that leads to a name without a
\* wire form, or a message that is too large for the wire even after UDP
\* truncation.  Neither a name that was asked for nor what an upstream says, in
\* whatever order it is cut, copied and cached, leaves a client waiting.
SilentOnlyIfUnsendable ==
    \A r \in Request : pc[r] = "done" /\ ~Sent(r) =>
        heap[r] # None /\ (BadTarget(heap[r]) \/ Size(heap[r]) > MaxWireSize)

-----------------------------------------------------------------------------
(***************************************************************************)
(* What comments and documentation say of the program and the program does *)
(* not do.  Each is the property of a run that ends in a counterexample.   *)
(***************************************************************************)

\* handler.go:236 "UDP: set truncated flag, client should retry via TCP": a
\* UDP reply with fewer answers than were made for it has the flag.  Copy
\* reads the header of the cached message before its answers, and the handler
\* that owns the message sets the flag and cuts the answers in between.
CutHitsFlagged ==
    \A r \in Request : Answered(r) /\ Len(out[r].ans) < out[r].made => out[r].tc

\* main.go:96 "records reloaded successfully": requests that arrive after a
\* reload get no answer made from older records.  A handler that had read the
\* old records stores its answer after ClearCache.
FreshAfterReload ==
    \A r \in Request : Answered(r) /\ out[r].src = "local" => out[r].gen >= born[r]

-----------------------------------------------------------------------------
(* Liveness *)

\* The aliases lead round in a circle from name on: more of them in a row than
\* there are records.
InCircle(name) ==
    LET limit == Cardinality(DOMAIN records)
        hop[k \in 0..limit] ==
            LET rec == Get(IF k = 0 THEN name ELSE hop[k - 1])
            IN  IF rec # None /\ rec.typ = "cname" THEN WithDot(rec.content) ELSE <<>>
    IN  \A k \in 0..limit : hop[k] # <<>>

\* Every request is answered, whatever upstreams, the cache and a number of
\* reloads do, or ends for one of the reasons of SilentOnlyIfUnsendable; unless
\* the records of the moment have its handler follow aliases in a circle.
\* (Along a circle the message grows without end, so no instance of this module
\* has one; CnameChain, which leaves the message out, has all small ones.)
EveryRequestAnswered ==
    \A r \in Request : pc[r] # "idle" ~>
        \/ Sent(r)
        \/ pc[r] = "done" /\ heap[r] # None /\ ~CanPack(heap[r])
        \/ pc[r] = "chain" /\ InCircle(target[r])
=============================================================================
