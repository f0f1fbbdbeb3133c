------------------------------ MODULE Handler ------------------------------
(***************************************************************************)
(* pkg/handler.  The DNS library runs HandleDNSRequest in a goroutine per  *)
(* request.  pc[r] says what the handler of request r does next; between   *)
(* two steps any other goroutine may run.  A step touches shared state at  *)
(* most once: a lookup in the record store, a load of one list, a locked   *)
(* call of the cache, or an access to a message object that the cache may  *)
(* already share.                                                          *)
(***************************************************************************)
EXTENDS DnsCache, Forwarder, Filter

CONSTANTS Queries,         \* the questions clients ask
          FilterEnabled,   \* h.filter # nil
          DefaultTTL       \* lifetime of locally generated answers

ASSUME HandlerAssumption ==
    /\ Queries \subseteq Query
    /\ FilterEnabled \in BOOLEAN
    /\ DefaultTTL \in Nat
    /\ Caller = Request
    /\ \A q \in Queries : Packable(q.name)   \* it came off the wire
    /\ None \notin Msg \cup [entry : Entry, at : Nat] \cup Query

VARIABLES
    pc,       \* where the handler of each request is
    query,    \* its question and transport
    target,   \* the name handleCNAME looks up next
    hit,      \* history: the cache entry it was served from, and when
    born,     \* history: the version whose reload had completed when it was received
    out       \* what was sent to the client

handlerVars == <<pc, query, target, hit, born, out>>

Place == {"idle", "local", "chain", "tail", "allow", "block", "cache", "header",
          "answers", "forward", "set", "write", "trim", "send", "done"}

HandlerTypeOK ==
    /\ pc \in [Request -> Place]
    /\ query \in [Request -> Query \cup {None}]
    /\ target \in [Request -> Name]
    /\ hit \in [Request -> [entry : Entry, at : Nat] \cup {None}]
    /\ born \in [Request -> Nat]
    /\ out \in [Request -> Msg \cup {None}]

HandlerInit ==
    /\ pc = [r \in Request |-> "idle"]
    /\ query = [r \in Request |-> None]
    /\ target = [r \in Request |-> <<>>]
    /\ hit = [r \in Request |-> None]
    /\ born = [r \in Request |-> 0]
    /\ out = [r \in Request |-> None]

At(r, place) == pc[r] = place

Goto(r, place) == pc' = [pc EXCEPT ![r] = place]

\* msg.SetReply(r), msg.SetRcode(r, rcode)
SetRcode(r, rcode, src) ==
    [id |-> r, question |-> QuestionOf(query[r]), rcode |-> rcode, tc |-> FALSE,
     ans |-> <<>>, rest |-> 0, src |-> src, made |-> 0, lost |-> 0, gen |-> gen]

\* msg.Answer = append(msg.Answer, rrs...)
AddAnswers(m, rrs) ==
    [m EXCEPT !.ans = @ \o rrs, !.made = @ + Len(rrs)]

LocalRR(name, rec) ==
    IF rec.typ = "cname"
    THEN [name |-> name, type |-> "CNAME", data |-> WithDot(rec.content), ttl |-> DefaultTTL]
    ELSE [name |-> name, type |-> "A", data |-> rec.content, ttl |-> DefaultTTL]

\* Mutant of cacheKeyFor: one entry for both transports.
KeyWithoutProtocol(q) == [name |-> Lower(q.name), qtype |-> q.qtype, proto |-> "udp"]

cacheKeyFor(q) == [name |-> Lower(q.name), qtype |-> q.qtype, proto |-> q.proto]

-----------------------------------------------------------------------------
(* HandleDNSRequest, up to and including handleLocalRecord *)

\* Mutant of Receive: the cache is consulted before the local records.
ReceiveCacheFirst(r) ==
    /\ At(r, "idle")
    /\ \E q \in Queries :
          /\ query' = [query EXCEPT ![r] = q]
          /\ Goto(r, IF Found(cacheKeyFor(q)) THEN "cache" ELSE "local")
    /\ born' = [born EXCEPT ![r] = reloads]
    /\ UNCHANGED <<target, hit, out, heap, cache, fwd, filterVars>>

Receive(r) ==
    /\ At(r, "idle")
    /\ \E q \in Queries : query' = [query EXCEPT ![r] = q]
    /\ born' = [born EXCEPT ![r] = reloads]
    /\ Goto(r, "local")
    /\ UNCHANGED <<target, hit, out, heap, cache, fwd, filterVars>>

\* A message without a question: FORMERR, and no writeResponse.
FormatError(r) ==
    /\ At(r, "idle")
    /\ out' = [out EXCEPT ![r] =
          [id |-> r, question |-> None, rcode |-> "FORMERR", tc |-> FALSE,
           ans |-> <<>>, rest |-> 0, src |-> "formerr", made |-> 0, lost |-> 0,
           gen |-> gen]]
    /\ Goto(r, "done")
    /\ UNCHANGED <<query, target, hit, born, heap, cache, fwd, filterVars>>

HandleLocalRecord(r) ==
    /\ At(r, "local")
    /\ LET q     == query[r]
           rec   == Get(q.name)
           reply == SetRcode(r, "NOERROR", "local")
       IN  \/ /\ rec = None
              /\ Goto(r, IF FilterEnabled THEN "allow" ELSE "cache")
              /\ UNCHANGED <<heap, target>>
           \/ /\ rec # None /\ rec.typ = "a"     \* handleA
              /\ heap' = [heap EXCEPT ![r] =
                    IF q.qtype = "A" THEN AddAnswers(reply, <<LocalRR(q.name, rec)>>)
                                     ELSE reply]
              /\ Goto(r, "set")
              /\ UNCHANGED target
           \/ /\ rec # None /\ rec.typ = "cname" \* handleCNAME, up to its loop
              /\ heap' = [heap EXCEPT ![r] = AddAnswers(reply, <<LocalRR(q.name, rec)>>)]
              /\ target' = [target EXCEPT ![r] = WithDot(rec.content)]
              /\ Goto(r, "chain")
    /\ UNCHANGED <<query, hit, born, out, cache, fwd, filterVars>>

-----------------------------------------------------------------------------
(* handleCNAME: one turn of its loop, and what follows the loop *)

\* Mutant of FollowCNAME: every record is given the name that was asked for.
FollowCNAMEUnderQueryName(r) ==
    /\ At(r, "chain")
    /\ LET rec == Get(target[r])
       IN  \/ /\ rec = None
              /\ Forward(r, [name |-> target[r], qtype |-> "A", class |-> "IN",
                             proto |-> "udp"])
              /\ Goto(r, "tail")
              /\ UNCHANGED <<heap, target>>
           \/ /\ rec # None
              /\ heap' = [heap EXCEPT ![r] = AddAnswers(@, <<LocalRR(query[r].name, rec)>>)]
              /\ IF rec.typ = "cname"
                 THEN /\ target' = [target EXCEPT ![r] = WithDot(rec.content)]
                      /\ UNCHANGED pc
                 ELSE /\ Goto(r, "set")
                      /\ UNCHANGED target
              /\ UNCHANGED fwd
    /\ UNCHANGED <<query, hit, born, out, cache, filterVars>>

FollowCNAME(r) ==
    /\ At(r, "chain")
    /\ LET rec == Get(target[r])
       IN  \/ /\ rec = None
              /\ Forward(r, [name |-> target[r], qtype |-> "A", class |-> "IN",
                             proto |-> "udp"])
              /\ Goto(r, "tail")
              /\ UNCHANGED <<heap, target>>
           \/ /\ rec # None
              /\ heap' = [heap EXCEPT ![r] = AddAnswers(@, <<LocalRR(target[r], rec)>>)]
              /\ IF rec.typ = "cname"
                 THEN /\ target' = [target EXCEPT ![r] = WithDot(rec.content)]
                      /\ UNCHANGED pc
                 ELSE /\ Goto(r, "set")
                      /\ UNCHANGED target
              /\ UNCHANGED fwd
    /\ UNCHANGED <<query, hit, born, out, cache, filterVars>>

\* Only the answers of the upstream's message are taken over.
FinishCNAME(r) ==
    /\ At(r, "tail")
    /\ Returned(r)
    /\ IF fwd[r].st = "ok"
       THEN heap' = [heap EXCEPT ![r] =
                [AddAnswers(@, fwd[r].msg.ans) EXCEPT !.lost = fwd[r].msg.lost]]
       ELSE UNCHANGED heap
    /\ Goto(r, "set")
    /\ UNCHANGED <<query, target, hit, born, out, cache, fwd, filterVars>>

-----------------------------------------------------------------------------
(* h.filter.ShouldBlock: Filter's two reads *)

\* Mutant of Allowlisted: what is cached needs no second look at the blocklist.
AllowlistedOrCached(r) ==
    /\ At(r, "allow")
    /\ ReadAllowlist(r, query[r].name)
    /\ Goto(r, IF check'[r].st = "allowed" \/ Found(cacheKeyFor(query[r]))
               THEN "cache" ELSE "block")
    /\ UNCHANGED <<query, target, hit, born, out, heap, cache, fwd>>

Allowlisted(r) ==
    /\ At(r, "allow")
    /\ ReadAllowlist(r, query[r].name)
    /\ Goto(r, IF check'[r].st = "allowed" THEN "cache" ELSE "block")
    /\ UNCHANGED <<query, target, hit, born, out, heap, cache, fwd>>

\* Mutant of Blocklisted: the NXDOMAIN of the filter goes through the cache.
BlocklistedAndCached(r) ==
    /\ At(r, "block")
    /\ ReadBlocklist(r)
    /\ IF check'[r].st = "blocked"
       THEN /\ heap' = [heap EXCEPT ![r] = SetRcode(r, "NXDOMAIN", "filter")]
            /\ Goto(r, "set")
       ELSE /\ UNCHANGED heap
            /\ Goto(r, "cache")
    /\ UNCHANGED <<query, target, hit, born, out, cache, fwd>>

Blocklisted(r) ==
    /\ At(r, "block")
    /\ ReadBlocklist(r)
    /\ IF check'[r].st = "blocked"
       THEN /\ heap' = [heap EXCEPT ![r] = SetRcode(r, "NXDOMAIN", "filter")]
            /\ Goto(r, "write")
       ELSE /\ UNCHANGED heap
            /\ Goto(r, "cache")
    /\ UNCHANGED <<query, target, hit, born, out, cache, fwd>>

-----------------------------------------------------------------------------
(* checkCache: Get under the lock, Copy outside it *)

CacheHit(r) ==
    /\ At(r, "cache")
    /\ LET k == cacheKeyFor(query[r])
       IN  /\ Found(k)
           /\ hit' = [hit EXCEPT ![r] = [entry |-> cache[k], at |-> now]]
    /\ Goto(r, "header")
    /\ UNCHANGED <<query, target, born, out, heap, cache, fwd, filterVars>>

\* Mutant of CopyHeader: the reply keeps the id of the cached message.
CopyHeaderWithId(r) ==
    /\ At(r, "header")
    /\ heap' = [heap EXCEPT ![r] = [heap[hit[r].entry.msg] EXCEPT !.ans = <<>>]]
    /\ Goto(r, "answers")
    /\ UNCHANGED <<query, target, hit, born, out, cache, fwd, filterVars>>

\* Copy copies the header before the answers; checkCache sets the id after it.
CopyHeader(r) ==
    /\ At(r, "header")
    /\ heap' = [heap EXCEPT ![r] =
          [heap[hit[r].entry.msg] EXCEPT !.ans = <<>>, !.id = r]]
    /\ Goto(r, "answers")
    /\ UNCHANGED <<query, target, hit, born, out, cache, fwd, filterVars>>

CopyAnswers(r) ==
    /\ At(r, "answers")
    /\ heap' = [heap EXCEPT ![r].ans = heap[hit[r].entry.msg].ans]
    /\ Goto(r, "write")
    /\ UNCHANGED <<query, target, hit, born, out, cache, fwd, filterVars>>

CacheMiss(r) ==
    /\ At(r, "cache")
    /\ ~Found(cacheKeyFor(query[r]))
    /\ Forward(r, query[r])
    /\ Goto(r, "forward")
    /\ UNCHANGED <<query, target, hit, born, out, heap, cache, filterVars>>

-----------------------------------------------------------------------------
(* What follows forwarder.Forward, cache.Set and writeResponse *)

\* Mutant of ForwardReturns: an error is logged and nothing is written.
ForwardReturnsSilently(r) ==
    /\ At(r, "forward")
    /\ Returned(r)
    /\ IF fwd[r].st = "ok"
       THEN /\ heap' = [heap EXCEPT ![r] = fwd[r].msg]
            /\ Goto(r, "set")
       ELSE /\ UNCHANGED heap
            /\ Goto(r, "done")
    /\ UNCHANGED <<query, target, hit, born, out, cache, fwd, filterVars>>

ForwardReturns(r) ==
    /\ At(r, "forward")
    /\ Returned(r)
    /\ IF fwd[r].st = "ok"
       THEN /\ heap' = [heap EXCEPT ![r] = fwd[r].msg]
            /\ Goto(r, "set")
       ELSE /\ heap' = [heap EXCEPT ![r] = SetRcode(r, "SERVFAIL", "servfail")]
            /\ Goto(r, "write")
    /\ UNCHANGED <<query, target, hit, born, out, cache, fwd, filterVars>>

CacheSet(r) ==
    /\ At(r, "set")
    /\ Set(cacheKeyFor(query[r]), r)
    /\ Goto(r, "write")
    /\ UNCHANGED <<query, target, hit, born, out, heap, fwd, filterVars>>

\* Mutant of WriteResponse: answers are cut and the flag is forgotten.
WriteResponseUnflagged(r) ==
    /\ At(r, "write")
    /\ Goto(r, IF query[r].proto = "udp" /\ TooLarge(heap[r]) THEN "trim" ELSE "send")
    /\ UNCHANGED <<query, target, hit, born, out, heap, cache, fwd, filterVars>>

\* The size check of writeResponse: from here on the cached object changes.
WriteResponse(r) ==
    /\ At(r, "write")
    /\ IF query[r].proto = "udp" /\ TooLarge(heap[r])
       THEN /\ heap' = [heap EXCEPT ![r].tc = TRUE]
            /\ Goto(r, "trim")
       ELSE /\ UNCHANGED heap
            /\ Goto(r, "send")
    /\ UNCHANGED <<query, target, hit, born, out, cache, fwd, filterVars>>

\* Mutant of TrimAnswer: `if' instead of `for'.
TrimOneAnswer(r) ==
    /\ At(r, "trim")
    /\ heap' = [heap EXCEPT ![r].ans = SubSeq(@, 1, Len(@) - 1)]
    /\ Goto(r, "send")
    /\ UNCHANGED <<query, target, hit, born, out, cache, fwd, filterVars>>

\* Mutant of TrimAnswer: the first answer goes, not the last.
TrimFirstAnswer(r) ==
    /\ At(r, "trim")
    /\ IF TooLarge(heap[r])
       THEN /\ heap' = [heap EXCEPT ![r].ans = Tail(@)]
            /\ UNCHANGED pc
       ELSE /\ UNCHANGED heap
            /\ Goto(r, "send")
    /\ UNCHANGED <<query, target, hit, born, out, cache, fwd, filterVars>>

\* One turn of the truncation loop.
TrimAnswer(r) ==
    /\ At(r, "trim")
    /\ IF TooLarge(heap[r])
       THEN /\ heap' = [heap EXCEPT ![r].ans = SubSeq(@, 1, Len(@) - 1)]
            /\ UNCHANGED pc
       ELSE /\ UNCHANGED heap
            /\ Goto(r, "send")
    /\ UNCHANGED <<query, target, hit, born, out, cache, fwd, filterVars>>

\* w.WriteMsg: nothing is sent if the message cannot be packed.
WriteMsg(r) ==
    /\ At(r, "send")
    /\ out' = [out EXCEPT ![r] = IF CanPack(heap[r]) THEN heap[r] ELSE None]
    /\ Goto(r, "done")
    /\ UNCHANGED <<query, target, hit, born, heap, cache, fwd, filterVars>>

AwaitUpstream(r) ==
    /\ Exchange(r)
    /\ UNCHANGED <<handlerVars, heap, cache, filterVars>>

HandleDNSRequest(r) ==
    \/ HandleLocalRecord(r) \/ FollowCNAME(r)   \/ FinishCNAME(r)
    \/ Allowlisted(r)       \/ Blocklisted(r)
    \/ CacheHit(r)          \/ CopyHeader(r)    \/ CopyAnswers(r) \/ CacheMiss(r)
    \/ ForwardReturns(r)    \/ CacheSet(r)
    \/ WriteResponse(r)     \/ TrimAnswer(r)    \/ WriteMsg(r)
    \/ AwaitUpstream(r)
=============================================================================
