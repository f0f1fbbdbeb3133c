---------------------------- MODULE ReplyProofs ----------------------------
(***************************************************************************)
(* What clients get, for any number of requests, any questions, records    *)
(* files, lists and upstream replies, and however long the server runs.    *)
(***************************************************************************)
EXTENDS ResolvitProofs

-----------------------------------------------------------------------------
(***************************************************************************)
(* The invariant.  A reply is the handler's message at the moment it is    *)
(* sent, and after that the handler leaves its message alone (Delivered),  *)
(* so that what is said of replies is said of the messages of handlers.    *)
(***************************************************************************)

\* Which of a handler's variables are set depends on where it is.
InPlace(r) ==
    /\ pc[r] # "done" => out[r] = None
    /\ pc[r] \in {"idle", "local", "allow", "block", "cache", "header", "forward"} =>
          heap[r] = None
    /\ pc[r] \in {"idle", "local", "chain", "tail", "allow", "block", "cache",
                  "forward", "set"} => hit[r] = None
    /\ pc[r] \in {"idle", "local", "chain", "allow", "block", "cache", "header",
                  "answers"} => fwd[r] = None
    /\ heap[r] # None => heap[r] \in Msg /\ query[r] \in Query

Delivered(r) ==
    out[r] # None =>
        /\ pc[r] = "done"
        /\ out[r] = heap[r] \/ (out[r].src = "formerr" /\ heap[r] = None)

\* A message answers the question q of request r.
Answers(m, r, q) ==
    /\ m.id = r
    /\ Lower(m.question.name) = Lower(q.name)
    /\ m.question.qtype = q.qtype

\* m is what upstreams answer to the question q that request r asks: all of
\* it, or a part that says so.
FromUpstream(m, r, q) ==
    /\ m.id = r
    /\ m.question = QuestionOf(q)
    /\ m.src = "upstream"
    /\ Len(m.ans) = m.made
    /\ m.lost > 0 => m.tc
    /\ \A i \in DOMAIN m.ans : /\ m.ans[i].name = q.name /\ m.ans[i].type = q.qtype
                               /\ m.ans[i].data \in Address

\* The calls of Forward: what was asked, and what came back.
Asked(r) ==
    fwd[r] # None =>
        /\ pc[r] = "forward" => fwd[r].q = query[r]
        /\ pc[r] = "tail" => fwd[r].q.name = target[r] /\ fwd[r].q.qtype = "A"
        /\ pc[r] \notin {"forward", "tail"} => fwd[r].st \in {"ok", "err"}
        /\ fwd[r].st \in {"tcp", "ok"} =>
              FromUpstream(fwd[r].msg, r, fwd[r].q)

\* The messages of handlers.
Built(r) ==
    heap[r] # None =>
        /\ Answers(heap[r], r, query[r])
        /\ heap[r].src = "upstream" /\ heap[r].lost > 0 => heap[r].tc
        /\ hit[r] = None => Len(heap[r].ans) = heap[r].made \/ heap[r].tc
        /\ query[r].proto = "tcp" /\ pc[r] # "answers" => Len(heap[r].ans) = heap[r].made
        /\ pc[r] = "trim" => heap[r].tc /\ query[r].proto = "udp"
        /\ pc[r] \in {"send", "done"} /\ query[r].proto = "udp" => ~TooLarge(heap[r])
        /\ pc[r] = "answers" => heap[r].ans = <<>>

\* What an entry of the cache under key k refers to: the message of a handler
\* that is past its last point of replacing it, that has not itself copied it
\* from the cache, and whose question has the key k.
Backed(e, k) ==
    /\ pc[e.msg] \in Responding
    /\ hit[e.msg] = None
    /\ heap[e.msg] \in Msg
    /\ heap[e.msg].src \in Kept
    /\ cacheKeyFor(query[e.msg]) = k
    /\ Len(heap[e.msg].ans) > 0 => e.exp =< e.set + heap[e.msg].ans[1].ttl

CachedBacked == \A k \in DOMAIN cache : Backed(cache[k], k) /\ cache[k].era = reloads

HitBacked(r) ==
    hit[r] # None =>
        /\ Backed(hit[r].entry, cacheKeyFor(query[r]))
        /\ hit[r].at =< hit[r].entry.exp
        /\ hit[r].entry.era >= born[r]

\* A copy agrees with the original in what writeResponse does not change.
Copied(r) ==
    hit[r] # None /\ heap[r] # None =>
        LET m == heap[hit[r].entry.msg]
        IN  /\ heap[r].src = m.src
            /\ heap[r].made = m.made
            /\ heap[r].lost = m.lost
            /\ heap[r].gen = m.gen
            /\ Len(heap[r].ans) > 0 => hit[r].at =< hit[r].entry.set + heap[r].ans[1].ttl

\* The generations of the record store: a request that arrives after a reload
\* finds the records of that reload, or later ones.
Fresh(r) ==
    /\ born[r] =< reloads
    /\ heap[r] # None /\ hit[r] = None /\ heap[r].src = "local" => heap[r].gen >= born[r]

ReloadsCounted == gen >= reloads /\ (main = "clear" => gen > reloads)

\* The verdict of the filter.
Filtered(r) ==
    FilterEnabled =>
        /\ pc[r] \in {"idle", "local", "chain", "tail", "allow"} => check[r].st = "none"
        /\ pc[r] = "done" /\ heap[r] = None => check[r].st = "none"
        /\ pc[r] = "block" => check[r].st = "reading"
        /\ pc[r] \in {"cache", "header", "answers", "forward"} \/ hit[r] # None =>
              check[r].st = "allowed"
        /\ heap[r] # None => (heap[r].src = "filter" <=> check[r].st = "blocked")

\* Local records come first, as long as the store is as it was loaded.
LocalFirst(r) ==
    gen = 0 =>
        /\ pc[r] \in {"allow", "block", "cache", "header", "answers", "forward"} =>
              Get(query[r].name) = None
        /\ hit[r] # None => Get(query[r].name) = None
        /\ heap[r] # None =>
              (Get(query[r].name) # None <=> heap[r].src = "local" /\ hit[r] = None)

\* The upstreams are asked in order, and SERVFAIL is the answer after the last.
Tried(r) ==
    /\ fwd[r] # None =>
          fwd[r].failed = IF fwd[r].st = "err" THEN 1..Upstreams ELSE 1..(fwd[r].srv - 1)
    /\ heap[r] # None /\ heap[r].src = "servfail" => fwd[r].failed = 1..Upstreams

\* The records in the answer section form a chain, and as long as handleCNAME
\* is at work it ends at the target.
Chain(ans) ==
    \A i \in 2..Len(ans) : ans[i-1].type = "CNAME" => ans[i].name = ans[i-1].data

Linked(r) ==
    /\ heap[r] # None /\ heap[r].src = "local" =>
          /\ Len(heap[r].ans) > 0 => Lower(heap[r].ans[1].name) = Lower(query[r].name)
          /\ Chain(heap[r].ans)
    /\ pc[r] \in {"chain", "tail"} =>
          /\ heap[r].src = "local"
          /\ Len(heap[r].ans) > 0
          /\ heap[r].ans[Len(heap[r].ans)].data = target[r]

Replies(r) ==
    /\ InPlace(r) /\ Delivered(r) /\ Asked(r) /\ Built(r)
    /\ HitBacked(r) /\ Copied(r) /\ Fresh(r) /\ Filtered(r)
    /\ LocalFirst(r) /\ Tried(r) /\ Linked(r)

RepliesInv == (\A r \in Request : Replies(r)) /\ CachedBacked /\ ReloadsCounted

\* Everything that is known of the server in a state it reaches.
ServerState == ResolvitInv /\ AnswersInv /\ RepliesInv

-----------------------------------------------------------------------------
(***************************************************************************)
(* What the steps of a handler do to its own variables, one lemma per      *)
(* action, and that they leave those of other handlers alone.              *)
(***************************************************************************)

\* The variables of other requests than r stay as they are.
Elsewhere(r) ==
    \A o \in Request : o # r =>
        /\ pc'[o] = pc[o] /\ query'[o] = query[o] /\ target'[o] = target[o]
        /\ hit'[o] = hit[o] /\ born'[o] = born[o] /\ out'[o] = out[o]
        /\ heap'[o] = heap[o] /\ fwd'[o] = fwd[o] /\ check'[o] = check[o]

\* m is a reply of the handler's own to request r, with the answers rrs.
OwnReply(m, r, src, rrs) ==
    /\ m.id = r
    /\ m.question = QuestionOf(query[r])
    /\ m.tc = FALSE
    /\ m.ans = rrs
    /\ m.made = Len(rrs)
    /\ m.lost = 0
    /\ m.src = src
    /\ m.gen = gen

\* n is m, but for the answers, their number and the truncation flag.
Reanswered(n, m) ==
    /\ n.id = m.id
    /\ n.question = m.question
    /\ n.rcode = m.rcode
    /\ n.rest = m.rest
    /\ n.src = m.src
    /\ n.gen = m.gen

\* n is m with more answers.
Extended(n, m, rrs) ==
    /\ Reanswered(n, m)
    /\ n.tc = m.tc
    /\ n.ans = m.ans \o rrs
    /\ n.made = m.made + Len(rrs)

\* The per-request variables are functions on the requests.
LEMMA Functions ==
    ASSUME ResolvitInv
    PROVE  /\ pc \in [Request -> Place]
           /\ query \in [Request -> Query \cup {None}]
           /\ target \in [Request -> Name]
           /\ hit \in [Request -> [entry : Entry, at : Nat] \cup {None}]
           /\ born \in [Request -> Nat]
           /\ out \in [Request -> Msg \cup {None}]
           /\ heap \in [Request -> Msg \cup {None}]
           /\ fwd \in [Request -> Call \cup {None}]
           /\ check \in [Request -> Check]
  BY HandlerAssumption DEF ResolvitInv, ServerInv, CacheInv, CacheTypeOK, ForwarderInv,
     ForwarderTypeOK, HandlerInv, HandlerTypeOK, FilterInv, FilterTypeOK

\* No handler touches what belongs to another one.
LEMMA OthersUntouched ==
    ASSUME ResolvitInv, NEW r \in Request, Arrive(r) \/ Serve(r)
    PROVE  Elsewhere(r)
<1> USE Functions DEF Elsewhere
<1>1. CASE Receive(r) \/ FormatError(r)
  BY <1>1 DEF Receive, FormatError, Goto, filterVars
<1>2. CASE HandleLocalRecord(r)
  BY <1>2 DEF HandleLocalRecord, Goto, filterVars
<1>3. CASE FollowCNAME(r)
  BY <1>3 DEF FollowCNAME, Forward, Goto, filterVars
<1>4. CASE FinishCNAME(r) \/ ForwardReturns(r)
  BY <1>4 DEF FinishCNAME, ForwardReturns, Goto, filterVars
<1>5. CASE Allowlisted(r)
  BY <1>5 DEF Allowlisted, ReadAllowlist, Goto
<1>6. CASE Blocklisted(r)
  BY <1>6 DEF Blocklisted, ReadBlocklist, Goto
<1>7. CASE CacheHit(r) \/ CopyHeader(r) \/ CopyAnswers(r)
  BY <1>7 DEF CacheHit, CopyHeader, CopyAnswers, Goto, filterVars
<1>8. CASE CacheMiss(r) \/ CacheSet(r)
  BY <1>8 DEF CacheMiss, CacheSet, Forward, Goto, filterVars
<1>9. CASE WriteResponse(r) \/ TrimAnswer(r) \/ WriteMsg(r)
  BY <1>9 DEF WriteResponse, TrimAnswer, WriteMsg, Goto, filterVars
<1>10. CASE AwaitUpstream(r)
  BY <1>10 DEF AwaitUpstream, Exchange, UdpReply, UdpTruncated, UdpFails, TcpReply,
               TcpFails, handlerVars, filterVars
<1> QED
  BY <1>1, <1>2, <1>3, <1>4, <1>5, <1>6, <1>7, <1>8, <1>9, <1>10
     DEF Arrive, Serve, HandleDNSRequest

\* handleLocalRecord: on to the filter or the cache, or a reply of its own.
LEMMA LocalEffect ==
    ASSUME ResolvitInv, NEW r \in Request, HandleLocalRecord(r)
    PROVE  LET rec == Get(query[r].name)
               rrs == <<LocalRR(query[r].name, rec)>>
           IN  /\ pc[r] = "local"
               /\ UNCHANGED <<query, hit, born, out, cache, fwd, check>>
               /\ \/ /\ rec = None
                     /\ UNCHANGED heap
                     /\ pc'[r] \in {"allow", "cache"}
                     /\ pc'[r] = "cache" <=> ~FilterEnabled
                  \/ /\ rec # None
                     /\ pc'[r] = "set"
                     /\ OwnReply(heap'[r], r, "local", rrs) \/ OwnReply(heap'[r], r, "local", <<>>)
                  \/ /\ rec # None /\ rec.typ = "cname"
                     /\ pc'[r] = "chain"
                     /\ target'[r] = WithDot(rec.content)
                     /\ OwnReply(heap'[r], r, "local", rrs)
<1> DEFINE rec   == Get(query[r].name)
           reply == SetRcode(r, "NOERROR", "local")
           rrs   == <<LocalRR(query[r].name, rec)>>
<1>1. OwnReply(reply, r, "local", <<>>)
  BY DEF SetRcode, OwnReply
<1>2. OwnReply(AddAnswers(reply, rrs), r, "local", rrs)
  <2>1. <<>> \o rrs = rrs /\ 0 + Len(rrs) = Len(rrs)
    OBVIOUS
  <2> HIDE DEF rrs
  <2> QED
    BY <2>1 DEF SetRcode, AddAnswers, OwnReply
<1>3. /\ At(r, "local") /\ UNCHANGED <<query, hit, born, out, cache, fwd, filterVars>>
      /\ \/ /\ rec = None
            /\ Goto(r, IF FilterEnabled THEN "allow" ELSE "cache")
            /\ UNCHANGED <<heap, target>>
         \/ /\ rec # None
            /\ heap' = [heap EXCEPT ![r] =
                  IF query[r].qtype = "A" THEN AddAnswers(reply, rrs) ELSE reply]
            /\ Goto(r, "set")
         \/ /\ rec # None /\ rec.typ = "cname"
            /\ heap' = [heap EXCEPT ![r] = AddAnswers(reply, rrs)]
            /\ target' = [target EXCEPT ![r] = WithDot(rec.content)]
            /\ Goto(r, "chain")
  BY DEF HandleLocalRecord
<1> HIDE DEF rec, reply, rrs
<1>4. /\ pc[r] = "local"
      /\ UNCHANGED <<query, hit, born, out, cache, fwd, check>>
      /\ \/ /\ rec = None
            /\ UNCHANGED heap
            /\ pc'[r] \in {"allow", "cache"}
            /\ pc'[r] = "cache" <=> ~FilterEnabled
         \/ /\ rec # None
            /\ pc'[r] = "set"
            /\ OwnReply(heap'[r], r, "local", rrs) \/ OwnReply(heap'[r], r, "local", <<>>)
         \/ /\ rec # None /\ rec.typ = "cname"
            /\ pc'[r] = "chain"
            /\ target'[r] = WithDot(rec.content)
            /\ OwnReply(heap'[r], r, "local", rrs)
  BY <1>1, <1>2, <1>3, Functions, HandlerAssumption DEF At, Goto, filterVars
<1> QED
  BY <1>4 DEF rec, rrs

\* handleCNAME: a call of Forward for the target, or one more record.
LEMMA FollowEffect ==
    ASSUME ResolvitInv, NEW r \in Request, FollowCNAME(r)
    PROVE  LET rec == Get(target[r])
               q   == [name |-> target[r], qtype |-> "A", class |-> "IN", proto |-> "udp"]
           IN  /\ pc[r] = "chain"
               /\ UNCHANGED <<query, hit, born, out, cache, check>>
               /\ \/ /\ UNCHANGED <<heap, target>>
                     /\ pc'[r] = "tail"
                     /\ fwd'[r] = [st |-> "udp", q |-> q, srv |-> 1, msg |-> None, failed |-> {}]
                  \/ /\ rec # None
                     /\ UNCHANGED fwd
                     /\ Extended(heap'[r], heap[r], <<LocalRR(target[r], rec)>>)
                     /\ heap'[r].lost = heap[r].lost
                     /\ \/ pc'[r] = "set"
                        \/ /\ pc'[r] = "chain"
                           /\ rec.typ = "cname"
                           /\ target'[r] = WithDot(rec.content)
<1> DEFINE rec == Get(target[r])
           q   == [name |-> target[r], qtype |-> "A", class |-> "IN", proto |-> "udp"]
           rr  == LocalRR(target[r], rec)
           m   == AddAnswers(heap[r], <<rr>>)
<1>1. pc[r] = "chain" /\ UNCHANGED <<query, hit, born, out, cache, check>>
  BY DEF FollowCNAME, At, filterVars
<1>2. heap[r] \in Msg
  BY <1>1 DEF ResolvitInv, ServerInv, HandlerInv, MessagesBuilt
<1>3. Extended(m, heap[r], <<rr>>) /\ m.lost = heap[r].lost
  BY <1>2 DEF Msg, AddAnswers, Extended, Reanswered
<1>4. \/ /\ Forward(r, q) /\ Goto(r, "tail") /\ UNCHANGED <<heap, target>>
      \/ /\ rec # None /\ UNCHANGED fwd
         /\ heap' = [heap EXCEPT ![r] = m]
         /\ \/ rec.typ = "cname" /\ target' = [target EXCEPT ![r] = WithDot(rec.content)] /\ UNCHANGED pc
            \/ Goto(r, "set")
  BY DEF FollowCNAME
<1> HIDE DEF rec, q, m, rr
<1>5. \/ /\ UNCHANGED <<heap, target>>
         /\ pc'[r] = "tail"
         /\ fwd'[r] = [st |-> "udp", q |-> q, srv |-> 1, msg |-> None, failed |-> {}]
      \/ /\ rec # None
         /\ UNCHANGED fwd
         /\ Extended(heap'[r], heap[r], <<rr>>)
         /\ heap'[r].lost = heap[r].lost
         /\ \/ pc'[r] = "set"
            \/ /\ pc'[r] = "chain"
               /\ rec.typ = "cname"
               /\ target'[r] = WithDot(rec.content)
  BY <1>1, <1>3, <1>4, Functions DEF Goto, Forward
<1> QED
  BY <1>1, <1>5 DEF rec, q, rr

\* handleCNAME, after its loop: the answers of the upstream, if there are any.
LEMMA FinishEffect ==
    ASSUME ResolvitInv, NEW r \in Request, FinishCNAME(r)
    PROVE  /\ pc[r] = "tail" /\ pc'[r] = "set" /\ fwd[r] # None
           /\ UNCHANGED <<query, target, hit, born, out, cache, fwd, check>>
           /\ \/ fwd[r].st = "ok" /\ Extended(heap'[r], heap[r], fwd[r].msg.ans)
              \/ UNCHANGED heap
<1> DEFINE a == AddAnswers(heap[r], fwd[r].msg.ans)
           m == [a EXCEPT !.lost = fwd[r].msg.lost]
<1>1. /\ pc[r] = "tail" /\ fwd[r] # None
      /\ UNCHANGED <<query, target, hit, born, out, cache, fwd, check>>
  BY DEF FinishCNAME, At, Returned, filterVars
<1>2. heap[r] \in Msg
  BY <1>1 DEF ResolvitInv, ServerInv, HandlerInv, MessagesBuilt
<1>3. Extended(m, heap[r], fwd[r].msg.ans)
  BY <1>2 DEF Msg, AddAnswers, Extended, Reanswered
<1>4. /\ Goto(r, "set")
      /\ \/ fwd[r].st = "ok" /\ heap' = [heap EXCEPT ![r] = m]
         \/ UNCHANGED heap
  BY DEF FinishCNAME
<1> HIDE DEF a, m
<1> QED
  BY <1>1, <1>3, <1>4, Functions DEF Goto

\* ShouldBlock: what its two reads decide.
LEMMA FilterEffect ==
    ASSUME ResolvitInv, NEW r \in Request, Allowlisted(r) \/ Blocklisted(r)
    PROVE  /\ UNCHANGED <<query, target, hit, born, out, cache, fwd>>
           /\ \/ /\ pc[r] = "allow" /\ UNCHANGED heap
                 /\ \/ pc'[r] = "cache" /\ check'[r].st = "allowed"
                    \/ pc'[r] = "block" /\ check'[r].st = "reading"
              \/ /\ pc[r] = "block"
                 /\ \/ pc'[r] = "cache" /\ check'[r].st = "allowed" /\ UNCHANGED heap
                    \/ /\ pc'[r] = "write" /\ check'[r].st = "blocked"
                       /\ OwnReply(heap'[r], r, "filter", <<>>)
<1>1. UNCHANGED <<query, target, hit, born, out, cache, fwd>>
  BY DEF Allowlisted, Blocklisted
<1>2. CASE Allowlisted(r)
  <2>1. check'[r].st \in {"allowed", "reading"}
    BY <1>2, Functions DEF Allowlisted, ReadAllowlist
  <2>2. pc'[r] = IF check'[r].st = "allowed" THEN "cache" ELSE "block"
    BY <1>2, Functions DEF Allowlisted, Goto
  <2>3. pc[r] = "allow" /\ UNCHANGED heap
    BY <1>2 DEF Allowlisted, At
  <2> QED
    BY <1>1, <2>1, <2>2, <2>3
<1>3. CASE Blocklisted(r)
  <2> DEFINE m == SetRcode(r, "NXDOMAIN", "filter")
  <2>1. check'[r].st \in {"allowed", "blocked"}
    BY <1>3, Functions DEF Blocklisted, ReadBlocklist, Check
  <2>2. OwnReply(m, r, "filter", <<>>)
    BY DEF SetRcode, OwnReply
  <2>3. IF check'[r].st = "blocked"
        THEN heap' = [heap EXCEPT ![r] = m] /\ pc' = [pc EXCEPT ![r] = "write"]
        ELSE UNCHANGED heap /\ pc' = [pc EXCEPT ![r] = "cache"]
    BY <1>3 DEF Blocklisted, Goto
  <2>4. pc[r] = "block"
    BY <1>3 DEF Blocklisted, At
  <2> HIDE DEF m
  <2> QED
    BY <1>1, <2>1, <2>2, <2>3, <2>4, Functions
<1> QED
  BY <1>2, <1>3

\* checkCache finds an entry that has not expired.
LEMMA HitEffect ==
    ASSUME ResolvitInv, NEW r \in Request, CacheHit(r)
    PROVE  LET k == cacheKeyFor(query[r])
           IN  /\ pc[r] = "cache" /\ pc'[r] = "header"
               /\ k \in DOMAIN cache /\ now =< cache[k].exp
               /\ hit'[r] = [entry |-> cache[k], at |-> now]
               /\ UNCHANGED <<query, target, born, out, heap, cache, fwd, check>>
<1> DEFINE k == cacheKeyFor(query[r])
<1>1. /\ pc[r] = "cache" /\ Found(k) /\ pc' = [pc EXCEPT ![r] = "header"]
      /\ hit' = [hit EXCEPT ![r] = [entry |-> cache[k], at |-> now]]
      /\ UNCHANGED <<query, target, born, out, heap, cache, fwd, check>>
  BY DEF CacheHit, At, Goto, filterVars
<1> HIDE DEF k
<1>2. k \in DOMAIN cache /\ now =< cache[k].exp
  BY <1>1 DEF Found, ResolvitInv, ServerInv, CacheInv, CacheTypeOK, Entry
<1>3. /\ pc[r] = "cache" /\ pc'[r] = "header"
      /\ k \in DOMAIN cache /\ now =< cache[k].exp
      /\ hit'[r] = [entry |-> cache[k], at |-> now]
      /\ UNCHANGED <<query, target, born, out, heap, cache, fwd, check>>
  BY <1>1, <1>2, Functions
<1> QED
  BY <1>3 DEF k

\* Copy: the header, then the answers, of whatever the owner has made of it.
LEMMA CopyEffect ==
    ASSUME ResolvitInv, NEW r \in Request, CopyHeader(r) \/ CopyAnswers(r)
    PROVE  LET m == heap[hit[r].entry.msg]
           IN  /\ UNCHANGED <<query, target, hit, born, out, cache, fwd, check>>
               /\ hit[r] \in [entry : Entry, at : Nat] /\ m \in Msg
               /\ \/ /\ pc[r] = "header" /\ pc'[r] = "answers"
                     /\ heap'[r].id = r /\ heap'[r].ans = <<>>
                     /\ heap'[r].question = m.question /\ heap'[r].tc = m.tc
                     /\ heap'[r].rcode = m.rcode /\ heap'[r].rest = m.rest
                     /\ heap'[r].src = m.src /\ heap'[r].made = m.made
                     /\ heap'[r].lost = m.lost /\ heap'[r].gen = m.gen
                  \/ /\ pc[r] = "answers" /\ pc'[r] = "write"
                     /\ Reanswered(heap'[r], heap[r]) /\ heap'[r].ans = m.ans /\ heap'[r].tc = heap[r].tc
                     /\ heap'[r].made = heap[r].made /\ heap'[r].lost = heap[r].lost
<1> DEFINE m == heap[hit[r].entry.msg]
           h == [m EXCEPT !.ans = <<>>, !.id = r]
           a == [heap[r] EXCEPT !.ans = m.ans]
<1>1. /\ UNCHANGED <<query, target, hit, born, out, cache, fwd, check>>
      /\ \/ /\ pc[r] = "header" /\ pc' = [pc EXCEPT ![r] = "answers"]
            /\ heap' = [heap EXCEPT ![r] = h]
         \/ /\ pc[r] = "answers" /\ pc' = [pc EXCEPT ![r] = "write"]
            /\ heap' = [heap EXCEPT ![r] = a]
  BY DEF CopyHeader, CopyAnswers, At, Goto, filterVars
<1>2. hit[r] \in [entry : Entry, at : Nat] /\ m \in Msg
  BY <1>1 DEF ResolvitInv, ServerInv, HandlerInv, HitsBuilt
<1>3. /\ h.id = r /\ h.ans = <<>> /\ h.question = m.question /\ h.tc = m.tc
      /\ h.rcode = m.rcode /\ h.rest = m.rest
      /\ h.src = m.src /\ h.made = m.made /\ h.lost = m.lost /\ h.gen = m.gen
  BY <1>2 DEF Msg
<1>4. pc[r] = "answers" =>
        /\ Reanswered(a, heap[r]) /\ a.ans = m.ans /\ a.tc = heap[r].tc
        /\ a.made = heap[r].made /\ a.lost = heap[r].lost
  <2> SUFFICES ASSUME heap[r] \in Msg
               PROVE  /\ Reanswered(a, heap[r]) /\ a.ans = m.ans /\ a.tc = heap[r].tc
                      /\ a.made = heap[r].made /\ a.lost = heap[r].lost
    BY DEF ResolvitInv, ServerInv, HandlerInv, MessagesBuilt
  <2> QED
    BY DEF Msg, Reanswered
<1> HIDE DEF m, h, a
<1>5. \/ /\ pc[r] = "header" /\ pc'[r] = "answers" /\ heap'[r] = h
      \/ /\ pc[r] = "answers" /\ pc'[r] = "write" /\ heap'[r] = a
  BY <1>1, Functions
<1>6. /\ UNCHANGED <<query, target, hit, born, out, cache, fwd, check>>
      /\ hit[r] \in [entry : Entry, at : Nat] /\ m \in Msg
      /\ \/ /\ pc[r] = "header" /\ pc'[r] = "answers"
            /\ heap'[r].id = r /\ heap'[r].ans = <<>>
            /\ heap'[r].question = m.question /\ heap'[r].tc = m.tc
            /\ heap'[r].rcode = m.rcode /\ heap'[r].rest = m.rest
            /\ heap'[r].src = m.src /\ heap'[r].made = m.made
            /\ heap'[r].lost = m.lost /\ heap'[r].gen = m.gen
         \/ /\ pc[r] = "answers" /\ pc'[r] = "write"
            /\ Reanswered(heap'[r], heap[r]) /\ heap'[r].ans = m.ans /\ heap'[r].tc = heap[r].tc
            /\ heap'[r].made = heap[r].made /\ heap'[r].lost = heap[r].lost
  BY <1>1, <1>2, <1>3, <1>4, <1>5
<1> QED
  BY <1>6 DEF m

\* Nothing in the cache: the question is forwarded.
LEMMA MissEffect ==
    ASSUME ResolvitInv, NEW r \in Request, CacheMiss(r)
    PROVE  /\ pc[r] = "cache" /\ pc'[r] = "forward"
           /\ fwd'[r] = [st |-> "udp", q |-> query[r], srv |-> 1, msg |-> None, failed |-> {}]
           /\ UNCHANGED <<query, target, hit, born, out, heap, cache, check>>
  BY Functions DEF CacheMiss, Forward, At, Goto, filterVars

\* What Forward returned becomes the reply, or SERVFAIL does.
LEMMA ReturnEffect ==
    ASSUME ResolvitInv, NEW r \in Request, ForwardReturns(r)
    PROVE  /\ pc[r] = "forward" /\ fwd[r] # None
           /\ UNCHANGED <<query, target, hit, born, out, cache, fwd, check>>
           /\ \/ fwd[r].st = "ok" /\ heap'[r] = fwd[r].msg /\ pc'[r] = "set"
              \/ /\ fwd[r].st = "err" /\ pc'[r] = "write"
                 /\ OwnReply(heap'[r], r, "servfail", <<>>)
<1> DEFINE m == SetRcode(r, "SERVFAIL", "servfail")
<1>1. OwnReply(m, r, "servfail", <<>>)
  BY DEF SetRcode, OwnReply
<1>2. /\ pc[r] = "forward" /\ fwd[r] # None
      /\ UNCHANGED <<query, target, hit, born, out, cache, fwd, check>>
  BY DEF ForwardReturns, At, Returned, filterVars
<1>3. \/ /\ fwd[r].st = "ok" /\ heap' = [heap EXCEPT ![r] = fwd[r].msg]
         /\ pc' = [pc EXCEPT ![r] = "set"]
      \/ /\ fwd[r].st = "err" /\ heap' = [heap EXCEPT ![r] = m]
         /\ pc' = [pc EXCEPT ![r] = "write"]
  BY DEF ForwardReturns, Returned, Goto
<1> HIDE DEF m
<1> QED
  BY <1>1, <1>2, <1>3, Functions

\* cache.Set: the handler's message goes under the key of its question.
LEMMA SetEffect ==
    ASSUME ResolvitInv, NEW r \in Request, CacheSet(r)
    PROVE  LET k == cacheKeyFor(query[r])
               e == [msg |-> r, exp |-> now + TTL(heap[r]), set |-> now, era |-> reloads]
           IN  /\ pc[r] = "set" /\ pc'[r] = "write"
               /\ UNCHANGED <<query, target, hit, born, out, heap, fwd, check>>
               /\ \A x \in DOMAIN cache' :
                     \/ x = k /\ cache'[x] = e
                     \/ x \in DOMAIN cache /\ cache'[x] = cache[x]
<1> DEFINE k == cacheKeyFor(query[r])
           e == [msg |-> r, exp |-> now + TTL(heap[r]), set |-> now, era |-> reloads]
<1>1. /\ pc[r] = "set" /\ pc' = [pc EXCEPT ![r] = "write"]
      /\ UNCHANGED <<query, target, hit, born, out, heap, fwd, check>>
      /\ cache' = [x \in DOMAIN cache \cup {k} |-> IF x = k THEN e ELSE cache[x]]
  BY DEF CacheSet, Set, At, Goto, filterVars
<1> HIDE DEF k, e
<1>2. /\ pc[r] = "set" /\ pc'[r] = "write"
      /\ UNCHANGED <<query, target, hit, born, out, heap, fwd, check>>
      /\ \A x \in DOMAIN cache' :
            \/ x = k /\ cache'[x] = e
            \/ x \in DOMAIN cache /\ cache'[x] = cache[x]
  BY <1>1, Functions
<1> QED
  BY <1>2 DEF k, e

\* writeResponse: the flag, then answers from the end, then what is left is sent.
LEMMA WriteEffect ==
    ASSUME ResolvitInv, NEW r \in Request, WriteResponse(r) \/ TrimAnswer(r) \/ WriteMsg(r)
    PROVE  /\ UNCHANGED <<query, target, hit, born, cache, fwd, check>>
           /\ heap[r] \in Msg
           /\ \/ /\ pc[r] = "write" /\ pc'[r] = "trim" /\ query[r].proto = "udp"
                 /\ UNCHANGED out
                 /\ Reanswered(heap'[r], heap[r])
                 /\ heap'[r].tc = TRUE /\ heap'[r].ans = heap[r].ans
                 /\ heap'[r].made = heap[r].made /\ heap'[r].lost = heap[r].lost
              \/ /\ pc[r] = "write" /\ pc'[r] = "send"
                 /\ UNCHANGED <<heap, out>>
                 /\ query[r].proto = "udp" => ~TooLarge(heap[r])
              \/ /\ pc[r] = "trim" /\ pc'[r] = "trim" /\ UNCHANGED out
                 /\ Reanswered(heap'[r], heap[r]) /\ heap'[r].tc = heap[r].tc
                 /\ Len(heap[r].ans) > 0
                 /\ heap'[r].ans = SubSeq(heap[r].ans, 1, Len(heap[r].ans) - 1)
                 /\ heap'[r].made = heap[r].made /\ heap'[r].lost = heap[r].lost
              \/ /\ pc[r] = "trim" /\ pc'[r] = "send" /\ ~TooLarge(heap[r])
                 /\ UNCHANGED <<heap, out>>
              \/ /\ pc[r] = "send" /\ pc'[r] = "done" /\ UNCHANGED heap
                 /\ out'[r] = heap[r] \/ (out'[r] = None /\ ~CanPack(heap[r]))
<1> DEFINE f == [heap[r] EXCEPT !.tc = TRUE]
           t == [heap[r] EXCEPT !.ans = SubSeq(@, 1, Len(@) - 1)]
<1>1. UNCHANGED <<query, target, hit, born, cache, fwd, check>>
  BY DEF WriteResponse, TrimAnswer, WriteMsg, filterVars
<1>2. heap[r] \in Msg
  BY DEF WriteResponse, TrimAnswer, WriteMsg, At, ResolvitInv, ServerInv, HandlerInv,
         MessagesBuilt
<1>3. /\ Reanswered(f, heap[r])
      /\ f.tc = TRUE /\ f.ans = heap[r].ans
      /\ f.made = heap[r].made /\ f.lost = heap[r].lost
  BY <1>2 DEF Msg, Reanswered
<1>4. /\ Reanswered(t, heap[r]) /\ t.tc = heap[r].tc
      /\ t.ans = SubSeq(heap[r].ans, 1, Len(heap[r].ans) - 1)
      /\ t.made = heap[r].made /\ t.lost = heap[r].lost
  BY <1>2 DEF Msg, Reanswered
<1>5. TooLarge(heap[r]) => Len(heap[r].ans) > 0
  BY DEF TooLarge
<1>6. CASE WriteResponse(r)
  <2>1. /\ pc[r] = "write" /\ UNCHANGED out
        /\ \/ /\ heap' = [heap EXCEPT ![r] = f] /\ pc' = [pc EXCEPT ![r] = "trim"]
              /\ query[r].proto = "udp"
           \/ /\ UNCHANGED heap /\ pc' = [pc EXCEPT ![r] = "send"]
              /\ query[r].proto = "udp" => ~TooLarge(heap[r])
    BY <1>6 DEF WriteResponse, At, Goto
  <2> HIDE DEF f, t
  <2> QED
    BY <1>1, <1>2, <1>3, <2>1, Functions
<1>7. CASE TrimAnswer(r)
  <2>1. /\ pc[r] = "trim" /\ UNCHANGED out
        /\ \/ heap' = [heap EXCEPT ![r] = t] /\ UNCHANGED pc /\ TooLarge(heap[r])
           \/ UNCHANGED heap /\ pc' = [pc EXCEPT ![r] = "send"] /\ ~TooLarge(heap[r])
    BY <1>7 DEF TrimAnswer, At, Goto
  <2> HIDE DEF f, t
  <2> QED
    BY <1>1, <1>2, <1>4, <1>5, <2>1, Functions
<1>8. CASE WriteMsg(r)
  <2>1. /\ pc[r] = "send" /\ pc' = [pc EXCEPT ![r] = "done"] /\ UNCHANGED heap
        /\ out' = [out EXCEPT ![r] = IF CanPack(heap[r]) THEN heap[r] ELSE None]
    BY <1>8 DEF WriteMsg, At, Goto
  <2>2. out'[r] = heap[r] \/ (out'[r] = None /\ ~CanPack(heap[r]))
    BY <2>1, Functions
  <2> QED
    BY <1>1, <1>2, <2>1, <2>2, Functions
<1> QED
  BY <1>6, <1>7, <1>8

\* Both complete and truncated replies are such messages.
LEMMA RepliesFromUpstream ==
    ASSUME NEW r \in Request, NEW w \in Reply, fwd[r].q \in Query
    PROVE  /\ FromUpstream(UpstreamMsg(r, w), r, fwd[r].q)
           /\ \A n \in 0..(Len(w.ttls) - 1) :
                FromUpstream(CutTo(UpstreamMsg(r, w), n), r, fwd[r].q)
<1> DEFINE m == UpstreamMsg(r, w)
<1>1. w.ttls \in Seq(Nat)
  BY ForwarderAssumption
<1>2. /\ m \in Msg /\ m.id = r /\ m.question = QuestionOf(fwd[r].q) /\ m.src = "upstream"
      /\ m.made = Len(w.ttls) /\ m.lost = 0 /\ DOMAIN m.ans = 1..Len(w.ttls)
      /\ \A i \in 1..Len(w.ttls) :
            /\ m.ans[i].name = fwd[r].q.name /\ m.ans[i].type = fwd[r].q.qtype
            /\ m.ans[i].data \in Address
  BY <1>1, UpstreamMsgType, ForwarderAssumption DEF UpstreamMsg
<1>3. m.ans \in Seq(RR)
  BY <1>2 DEF Msg
<1> HIDE DEF m
<1>4. Len(m.ans) = Len(w.ttls)
  BY <1>1, <1>2, <1>3
<1>5. FromUpstream(m, r, fwd[r].q)
  BY <1>2, <1>4 DEF FromUpstream
<1>6. ASSUME NEW n \in 0..(Len(w.ttls) - 1) PROVE FromUpstream(CutTo(m, n), r, fwd[r].q)
  <2> DEFINE c == CutTo(m, n)
             s == SubSeq(m.ans, 1, n)
  <2>1. /\ c.id = r /\ c.question = QuestionOf(fwd[r].q) /\ c.src = "upstream"
        /\ c.ans = s /\ c.made = n /\ c.tc = TRUE
    BY <1>2 DEF CutTo, Msg
  <2>2. Len(s) = n /\ DOMAIN s = 1..n /\ \A i \in 1..n : s[i] = m.ans[i] /\ i \in 1..Len(w.ttls)
    BY <1>1, <1>3, <1>4
  <2> HIDE DEF c, s
  <2>3. FromUpstream(c, r, fwd[r].q)
    BY <1>2, <2>1, <2>2 DEF FromUpstream
  <2> QED
    BY <2>3 DEF c
<1> QED
  BY <1>5, <1>6 DEF m

\* An exchange: a message, the next upstream, an error, or, if the retry over
\* TCP fails, the message that was truncated.
LEMMA ExchangeEffect ==
    ASSUME ResolvitInv, NEW r \in Request, Exchange(r)
    PROVE  /\ fwd[r] \in Call /\ fwd[r] # None
           /\ fwd'[r].q = fwd[r].q
           /\ \/ /\ fwd[r].st \in {"udp", "tcp"} /\ fwd'[r].st \in {"tcp", "ok"}
                 /\ FromUpstream(fwd'[r].msg, r, fwd[r].q)
                 /\ fwd'[r].srv = fwd[r].srv /\ fwd'[r].failed = fwd[r].failed
              \/ /\ fwd[r].st = "udp" /\ fwd'[r].failed = fwd[r].failed \cup {fwd[r].srv}
                 /\ \/ fwd[r].srv = Upstreams /\ fwd'[r].st = "err"
                    \/ fwd'[r].srv = fwd[r].srv + 1 /\ fwd'[r].st = "udp"
              \/ /\ fwd[r].st = "tcp" /\ fwd'[r].st = "ok" /\ fwd'[r].msg = fwd[r].msg
                 /\ fwd'[r].srv = fwd[r].srv /\ fwd'[r].failed = fwd[r].failed
<1>1. fwd[r] \in Call /\ fwd[r] # None
  BY Functions DEF Exchange, UdpReply, UdpTruncated, UdpFails, TcpReply, TcpFails, InExchange
<1>2. fwd[r].q \in Query
  BY <1>1 DEF Call
<1>3. CASE UdpReply(r) \/ UdpTruncated(r) \/ TcpReply(r)
  <2>1. ASSUME NEW s \in {"tcp", "ok"}, NEW m, FromUpstream(m, r, fwd[r].q),
               fwd' = [fwd EXCEPT ![r].st = s, ![r].msg = m]
        PROVE  /\ fwd'[r].q = fwd[r].q /\ fwd'[r].st \in {"tcp", "ok"}
               /\ FromUpstream(fwd'[r].msg, r, fwd[r].q)
               /\ fwd'[r].srv = fwd[r].srv /\ fwd'[r].failed = fwd[r].failed
    <3>1. /\ fwd'[r].q = fwd[r].q /\ fwd'[r].st = s /\ fwd'[r].msg = m
          /\ fwd'[r].srv = fwd[r].srv /\ fwd'[r].failed = fwd[r].failed
      BY <1>1, <2>1, Functions DEF Call
    <3> QED
      BY <2>1, <3>1
  <2>2. fwd[r].st \in {"udp", "tcp"}
    BY <1>3 DEF UdpReply, UdpTruncated, TcpReply, InExchange
  <2>3. CASE UdpReply(r)
    <3>1. PICK w \in Reply :
            fwd' = [fwd EXCEPT ![r].st = "ok", ![r].msg = UpstreamMsg(r, w)]
      BY <2>3 DEF UdpReply
    <3>2. FromUpstream(UpstreamMsg(r, w), r, fwd[r].q)
      BY <1>2, RepliesFromUpstream
    <3> QED
      BY <1>1, <2>1, <2>2, <3>1, <3>2
  <2>4. CASE UdpTruncated(r)
    <3>1. PICK w \in Reply : \E n \in 0..(Len(w.ttls) - 1) :
            fwd' = [fwd EXCEPT ![r].st = "tcp", ![r].msg = CutTo(UpstreamMsg(r, w), n)]
      BY <2>4 DEF UdpTruncated
    <3>2. PICK n \in 0..(Len(w.ttls) - 1) :
            fwd' = [fwd EXCEPT ![r].st = "tcp", ![r].msg = CutTo(UpstreamMsg(r, w), n)]
      BY <3>1
    <3>3. FromUpstream(CutTo(UpstreamMsg(r, w), n), r, fwd[r].q)
      BY <1>2, RepliesFromUpstream
    <3> QED
      BY <1>1, <2>1, <2>2, <3>2, <3>3
  <2>5. CASE TcpReply(r)
    <3>1. PICK w \in Reply : \E n \in 0..Len(w.ttls) :
            fwd' = [fwd EXCEPT ![r].st = "ok",
                               ![r].msg = IF n = Len(w.ttls) THEN UpstreamMsg(r, w)
                                          ELSE CutTo(UpstreamMsg(r, w), n)]
      BY <2>5 DEF TcpReply
    <3>2. Len(w.ttls) \in Nat
      BY ForwarderAssumption
    <3>3. PICK n \in 0..Len(w.ttls) :
            fwd' = [fwd EXCEPT ![r].st = "ok",
                               ![r].msg = IF n = Len(w.ttls) THEN UpstreamMsg(r, w)
                                          ELSE CutTo(UpstreamMsg(r, w), n)]
      BY <3>1
    <3>4. n = Len(w.ttls) \/ n \in 0..(Len(w.ttls) - 1)
      BY <3>2
    <3>5. FromUpstream(IF n = Len(w.ttls) THEN UpstreamMsg(r, w)
                       ELSE CutTo(UpstreamMsg(r, w), n), r, fwd[r].q)
      BY <1>2, <3>4, RepliesFromUpstream
    <3> QED
      BY <1>1, <2>1, <2>2, <3>3, <3>5
  <2> QED
    BY <1>3, <2>3, <2>4, <2>5
<1>4. CASE UdpFails(r)
  <2> DEFINE c == [fwd[r] EXCEPT !.failed = @ \cup {fwd[r].srv}]
             e == [c EXCEPT !.st = "err"]
             n == [c EXCEPT !.srv = @ + 1]
  <2>1. fwd[r].st = "udp" /\ fwd' = [fwd EXCEPT ![r] = IF c.srv = Upstreams THEN e ELSE n]
    BY <1>4 DEF UdpFails, InExchange
  <2>2. /\ c.srv = fwd[r].srv
        /\ e.q = fwd[r].q /\ e.failed = fwd[r].failed \cup {fwd[r].srv} /\ e.st = "err"
        /\ n.q = fwd[r].q /\ n.failed = fwd[r].failed \cup {fwd[r].srv} /\ n.st = fwd[r].st
        /\ n.srv = fwd[r].srv + 1
    BY <1>1 DEF Call
  <2> HIDE DEF c, e, n
  <2>3. fwd'[r] = IF c.srv = Upstreams THEN e ELSE n
    BY <2>1, Functions
  <2> QED
    BY <1>1, <2>1, <2>2, <2>3
<1>5. CASE TcpFails(r)
  <2>1. fwd[r].st = "tcp" /\ fwd' = [fwd EXCEPT ![r].st = "ok"]
    BY <1>5 DEF TcpFails, InExchange
  <2>2. /\ fwd'[r].q = fwd[r].q /\ fwd'[r].st = "ok" /\ fwd'[r].msg = fwd[r].msg
        /\ fwd'[r].srv = fwd[r].srv /\ fwd'[r].failed = fwd[r].failed
    BY <1>1, <2>1, Functions DEF Call
  <2> QED
    BY <1>1, <2>1, <2>2
<1> QED
  BY <1>3, <1>4, <1>5 DEF Exchange

\* A request arrives, with a question or without one.
LEMMA ArriveEffect ==
    ASSUME ResolvitInv, NEW r \in Request, Arrive(r)
    PROVE  /\ pc[r] = "idle"
           /\ UNCHANGED <<target, hit, heap, cache, fwd, check>>
           /\ \/ /\ pc'[r] = "local" /\ query'[r] \in Query /\ born'[r] = reloads
                 /\ UNCHANGED out
              \/ /\ pc'[r] = "done" /\ UNCHANGED <<query, born>>
                 /\ out'[r].src = "formerr"
<1>1. CASE Receive(r)
  BY <1>1, Functions, HandlerAssumption DEF Receive, At, Goto, filterVars
<1>2. CASE FormatError(r)
  BY <1>2, Functions DEF FormatError, At, Goto, filterVars
<1> QED
  BY <1>1, <1>2 DEF Arrive

-----------------------------------------------------------------------------
(* The parts of the invariant that speak of one handler, in its own steps *)

\* Where each variable of a handler is set.
LEMMA InPlaceStep ==
    ASSUME ServerState, ResolvitInv', NEW r \in Request, Arrive(r) \/ Serve(r)
    PROVE  InPlace(r)'
<1> USE DEF ServerState
<1>1. InPlace(r)
  BY DEF RepliesInv, Replies
<1>2. /\ heap'[r] \in Msg \cup {None}
      /\ pc[r] \notin {"idle", "done"} => query[r] \in Query
      /\ pc'[r] \notin {"idle", "done"} => query'[r] \in Query
  BY DEF ResolvitInv, ServerInv, CacheInv, CacheTypeOK, HandlerInv, QueriesKnown
<1>3. CASE Arrive(r)
  BY <1>1, <1>2, <1>3, ArriveEffect DEF InPlace
<1>4. CASE HandleLocalRecord(r) \/ FollowCNAME(r) \/ FinishCNAME(r)
  BY <1>1, <1>2, <1>4, LocalEffect, FollowEffect, FinishEffect DEF InPlace
<1>5. CASE Allowlisted(r) \/ Blocklisted(r)
  BY <1>1, <1>2, <1>5, FilterEffect DEF InPlace
<1>6. CASE CacheHit(r) \/ CopyHeader(r) \/ CopyAnswers(r) \/ CacheMiss(r)
  BY <1>1, <1>2, <1>6, HitEffect, CopyEffect, MissEffect DEF InPlace
<1>7. CASE ForwardReturns(r) \/ CacheSet(r)
  BY <1>1, <1>2, <1>7, ReturnEffect, SetEffect DEF InPlace
<1>8. CASE WriteResponse(r) \/ TrimAnswer(r) \/ WriteMsg(r)
  BY <1>1, <1>2, <1>8, WriteEffect DEF InPlace
<1>9. CASE AwaitUpstream(r)
  BY <1>1, <1>2, <1>9, ExchangeEffect DEF AwaitUpstream, handlerVars, InPlace
<1> QED
  BY <1>3, <1>4, <1>5, <1>6, <1>7, <1>8, <1>9 DEF Serve, HandleDNSRequest

\* What is sent is the handler's message, and remains it.
LEMMA DeliveredStep ==
    ASSUME ServerState, NEW r \in Request, Arrive(r) \/ Serve(r)
    PROVE  Delivered(r)'
<1> USE DEF ServerState
<1>1. InPlace(r) /\ Delivered(r)
  BY DEF RepliesInv, Replies
<1>2. CASE Arrive(r)
  BY <1>1, <1>2, ArriveEffect DEF InPlace, Delivered
<1>3. CASE HandleLocalRecord(r) \/ FollowCNAME(r) \/ FinishCNAME(r)
  BY <1>1, <1>3, LocalEffect, FollowEffect, FinishEffect DEF InPlace, Delivered
<1>4. CASE Allowlisted(r) \/ Blocklisted(r)
  BY <1>1, <1>4, FilterEffect DEF InPlace, Delivered
<1>5. CASE CacheHit(r) \/ CopyHeader(r) \/ CopyAnswers(r) \/ CacheMiss(r)
  BY <1>1, <1>5, HitEffect, CopyEffect, MissEffect DEF InPlace, Delivered
<1>6. CASE ForwardReturns(r) \/ CacheSet(r)
  BY <1>1, <1>6, ReturnEffect, SetEffect DEF InPlace, Delivered
<1>7. CASE WriteResponse(r) \/ TrimAnswer(r) \/ WriteMsg(r)
  BY <1>1, <1>7, WriteEffect DEF InPlace, Delivered
<1>8. CASE AwaitUpstream(r)
  BY <1>1, <1>8 DEF AwaitUpstream, handlerVars, Delivered
<1> QED
  BY <1>2, <1>3, <1>4, <1>5, <1>6, <1>7, <1>8 DEF Serve, HandleDNSRequest

\* What a step does to the handler's call of Forward: nothing, or a new call,
\* or an exchange, during which the handler waits.
LEMMA CallEffect ==
    ASSUME ServerState, NEW r \in Request, Arrive(r) \/ Serve(r)
    PROVE  \/ /\ fwd'[r] = fwd[r]
              /\ pc'[r] \notin {"forward", "tail"}
              /\ fwd[r] # None => pc[r] \notin {"forward", "tail"} \/ fwd[r].st \in {"ok", "err"}
           \/ /\ \/ pc'[r] = "forward" /\ fwd'[r].q = query'[r]
                 \/ /\ pc'[r] = "tail"
                    /\ fwd'[r].q.name = target'[r] /\ fwd'[r].q.qtype = "A"
              /\ fwd'[r].st = "udp" /\ fwd'[r].srv = 1 /\ fwd'[r].failed = {}
              /\ heap'[r] = heap[r] /\ pc[r] \in {"chain", "cache"}
           \/ /\ Exchange(r)
              /\ pc[r] \in {"forward", "tail"}
              /\ UNCHANGED <<pc, query, target, heap>>
<1> USE DEF ServerState
<1>1. InPlace(r) /\ Asked(r)
  BY DEF RepliesInv, Replies
<1>2. CASE Arrive(r)
  BY <1>2, ArriveEffect
<1>3. CASE HandleLocalRecord(r)
  BY <1>3, LocalEffect
<1>4. CASE FollowCNAME(r)
  <2> DEFINE q == [name |-> target[r], qtype |-> "A", class |-> "IN", proto |-> "udp"]
             c == [st |-> "udp", q |-> q, srv |-> 1, msg |-> None, failed |-> {}]
  <2>1. /\ q.name = target[r] /\ q.qtype = "A"
        /\ c.q = q /\ c.st = "udp" /\ c.srv = 1 /\ c.failed = {}
    OBVIOUS
  <2>2. /\ pc[r] = "chain"
        /\ \/ UNCHANGED <<heap, target>> /\ pc'[r] = "tail" /\ fwd'[r] = c
           \/ UNCHANGED fwd /\ pc'[r] \in {"set", "chain"}
    BY <1>4, FollowEffect
  <2> HIDE DEF c, q
  <2> QED
    BY <2>1, <2>2
<1>5. CASE FinishCNAME(r) \/ ForwardReturns(r)
  <2>1. fwd[r].st \in {"ok", "err"}
    BY <1>5 DEF FinishCNAME, ForwardReturns, Returned
  <2> QED
    BY <1>5, <2>1, FinishEffect, ReturnEffect
<1>6. CASE Allowlisted(r) \/ Blocklisted(r)
  BY <1>6, FilterEffect
<1>7. CASE CacheHit(r) \/ CopyHeader(r) \/ CopyAnswers(r)
  BY <1>7, HitEffect, CopyEffect
<1>8. CASE CacheMiss(r)
  <2> DEFINE c == [st |-> "udp", q |-> query[r], srv |-> 1, msg |-> None, failed |-> {}]
  <2>1. c.q = query[r] /\ c.st = "udp" /\ c.srv = 1 /\ c.failed = {}
    OBVIOUS
  <2>2. /\ pc[r] = "cache" /\ pc'[r] = "forward" /\ fwd'[r] = c
        /\ UNCHANGED <<query, heap>>
    BY <1>8, MissEffect
  <2> HIDE DEF c
  <2> QED
    BY <2>1, <2>2
<1>9. CASE CacheSet(r)
  BY <1>9, SetEffect
<1>10. CASE WriteResponse(r) \/ TrimAnswer(r) \/ WriteMsg(r)
  BY <1>10, WriteEffect
<1>11. CASE AwaitUpstream(r)
  <2>1. Exchange(r) /\ UNCHANGED <<pc, query, target, heap>>
    BY <1>11 DEF AwaitUpstream, handlerVars
  <2>2. fwd[r] # None /\ fwd[r].st \in {"udp", "tcp"}
    BY <2>1, ExchangeEffect
  <2> QED
    BY <1>1, <2>1, <2>2 DEF Asked
<1> QED
  BY <1>2, <1>3, <1>4, <1>5, <1>6, <1>7, <1>8, <1>9, <1>10, <1>11
     DEF Serve, HandleDNSRequest

\* What calls of Forward ask and get.
LEMMA AskedStep ==
    ASSUME ServerState, NEW r \in Request, Arrive(r) \/ Serve(r)
    PROVE  Asked(r)'
<1> USE DEF ServerState
<1>1. Asked(r)
  BY DEF RepliesInv, Replies
<1>2. CASE Exchange(r) /\ pc[r] \in {"forward", "tail"} /\ UNCHANGED <<pc, query, target, heap>>
  BY <1>1, <1>2, ExchangeEffect DEF Asked
<1> QED
  BY <1>1, <1>2, CallEffect DEF Asked

\* The upstreams are asked in turn.
LEMMA TurnsStep ==
    ASSUME ServerState, NEW r \in Request, Arrive(r) \/ Serve(r), fwd'[r] # None
    PROVE  fwd'[r].failed = IF fwd'[r].st = "err" THEN 1..Upstreams ELSE 1..(fwd'[r].srv - 1)
<1> USE DEF ServerState
<1>1. Tried(r)
  BY DEF RepliesInv, Replies
<1>2. Upstreams \in Nat \ {0} /\ \A n \in 1..Upstreams : (1..(n - 1)) \cup {n} = 1..n
  BY ForwarderAssumption
<1>3. CASE Exchange(r)
  <2>1. fwd[r] # None /\ fwd[r].srv \in 1..Upstreams
    BY <1>3, ExchangeEffect DEF Call
  <2>2. CASE fwd'[r].srv = fwd[r].srv /\ fwd'[r].failed = fwd[r].failed /\ fwd'[r].st # "err" /\ fwd[r].st # "err"
    BY <1>1, <2>1, <2>2 DEF Tried
  <2>3. CASE /\ fwd[r].st = "udp" /\ fwd'[r].failed = fwd[r].failed \cup {fwd[r].srv}
             /\ \/ fwd[r].srv = Upstreams /\ fwd'[r].st = "err"
                \/ fwd'[r].srv = fwd[r].srv + 1 /\ fwd'[r].st = "udp"
    <3>1. fwd'[r].failed = 1..fwd[r].srv
      BY <1>1, <1>2, <2>1, <2>3 DEF Tried
    <3>2. CASE fwd[r].srv = Upstreams /\ fwd'[r].st = "err"
      BY <3>1, <3>2
    <3>3. CASE fwd'[r].srv = fwd[r].srv + 1 /\ fwd'[r].st = "udp"
      <4>1. fwd'[r].srv - 1 = fwd[r].srv
        BY <2>1, <3>3
      <4> QED
        BY <3>1, <3>3, <4>1
    <3> QED
      BY <2>3, <3>2, <3>3
  <2> QED
    BY <1>3, <2>2, <2>3, ExchangeEffect
<1>4. CASE fwd'[r] = fwd[r]
  BY <1>1, <1>4 DEF Tried
<1>5. CASE fwd'[r].st = "udp" /\ fwd'[r].srv = 1 /\ fwd'[r].failed = {}
  <2>1. 1..(1 - 1) = {}
    OBVIOUS
  <2> QED
    BY <1>5, <2>1
<1> QED
  BY <1>3, <1>4, <1>5, CallEffect

\* What is known of a handler's message, of the one it copies and of the one
\* it gets from an upstream.
LEMMA Known ==
    ASSUME ServerState, NEW r \in Request
    PROVE  /\ InPlace(r)
           /\ pc[r] \in {"header", "answers"} => hit[r] # None
           /\ pc[r] \in {"chain", "tail", "set", "answers", "write", "trim", "send"} =>
                 heap[r] \in Msg /\ heap[r] # None
           /\ pc[r] \in {"chain", "tail"} => heap[r].src = "local"
           /\ hit[r] # None => heap[hit[r].entry.msg].src \in {"local", "upstream"}
           /\ fwd[r] # None /\ fwd[r].st = "ok" => fwd[r].msg.src = "upstream"
<1> USE DEF ServerState
<1>1. InPlace(r) /\ HitBacked(r) /\ Linked(r)
  BY DEF RepliesInv, Replies
<1>2. hit[r] # None => heap[hit[r].entry.msg].src \in {"local", "upstream"}
  BY <1>1 DEF HitBacked, Backed, Kept
<1>3. fwd[r] # None /\ fwd[r].st = "ok" => fwd[r].msg.src = "upstream"
  BY DEF AnswersInv, ForwardedKept
<1>4. /\ pc[r] \in {"header", "answers"} => hit[r] # None
      /\ pc[r] \in {"chain", "tail", "set", "answers", "write", "trim", "send"} =>
            heap[r] \in Msg /\ heap[r] # None
  BY HandlerAssumption DEF ResolvitInv, ServerInv, HandlerInv, HitsBuilt, MessagesBuilt
<1> QED
  BY <1>1, <1>2, <1>3, <1>4 DEF Linked

\* writeResponse leaves most of a message as it is.
LEMMA WriteKeeps ==
    ASSUME ResolvitInv, NEW r \in Request, WriteResponse(r) \/ TrimAnswer(r) \/ WriteMsg(r)
    PROVE  /\ heap[r] \in Msg /\ heap[r] # None
           /\ Reanswered(heap'[r], heap[r])
           /\ heap'[r].made = heap[r].made /\ heap'[r].lost = heap[r].lost
           /\ UNCHANGED <<query, target, hit, born, cache, fwd, check>>
           /\ pc[r] \in Responding /\ pc'[r] \in Responding
  BY WriteEffect, HandlerAssumption DEF Reanswered, Responding

\* The verdict of the filter goes before everything but local records.
LEMMA FilteredStep ==
    ASSUME ServerState, NEW r \in Request, Arrive(r) \/ Serve(r)
    PROVE  Filtered(r)'
<1> USE DEF ServerState
<1>1. InPlace(r) /\ Filtered(r)
  BY DEF RepliesInv, Replies
<1>2. CASE Arrive(r)
  BY <1>1, <1>2, ArriveEffect DEF InPlace, Filtered
<1>3. CASE HandleLocalRecord(r)
  BY <1>1, <1>3, LocalEffect DEF InPlace, Filtered, OwnReply
<1>4. CASE FollowCNAME(r) \/ FinishCNAME(r)
  BY <1>1, Known, <1>4, FollowEffect, FinishEffect DEF InPlace, Filtered, Extended,
     Reanswered
<1>5. CASE Allowlisted(r) \/ Blocklisted(r)
  BY <1>1, <1>5, FilterEffect DEF InPlace, Filtered, OwnReply
<1>6. CASE CacheHit(r) \/ CacheMiss(r)
  BY <1>1, <1>6, HitEffect, MissEffect DEF InPlace, Filtered
<1>7. CASE CopyHeader(r) \/ CopyAnswers(r)
  BY <1>1, Known, <1>7, CopyEffect DEF Filtered, Reanswered
<1>8. CASE ForwardReturns(r)
  BY <1>1, Known, <1>8, ReturnEffect DEF InPlace, Filtered, OwnReply
<1>9. CASE CacheSet(r)
  BY <1>1, <1>9, SetEffect DEF InPlace, Filtered
<1>10. CASE WriteResponse(r) \/ TrimAnswer(r) \/ WriteMsg(r)
  <2>1. /\ UNCHANGED <<hit, check>>
        /\ pc[r] \in {"write", "trim", "send"} /\ pc'[r] \in {"trim", "send", "done"}
        /\ pc'[r] = "done" => heap'[r] = heap[r]
        /\ heap'[r].src = heap[r].src
        /\ heap[r] # None
    BY Known, <1>10, WriteEffect DEF Reanswered
  <2> QED
    BY <1>1, <2>1 DEF Filtered
<1>11. CASE AwaitUpstream(r)
  BY <1>1, <1>11 DEF AwaitUpstream, handlerVars, filterVars, Filtered
<1> QED
  BY <1>2, <1>3, <1>4, <1>5, <1>6, <1>7, <1>8, <1>9, <1>10, <1>11 DEF Serve,
     HandleDNSRequest

\* SERVFAIL is the answer after the last upstream.
LEMMA TriedStep ==
    ASSUME ServerState, NEW r \in Request, Arrive(r) \/ Serve(r)
    PROVE  Tried(r)'
<1> USE DEF ServerState
<1>1. InPlace(r) /\ Tried(r)
  BY DEF RepliesInv, Replies
<1>2. fwd'[r] # None =>
        fwd'[r].failed = IF fwd'[r].st = "err" THEN 1..Upstreams ELSE 1..(fwd'[r].srv - 1)
  BY TurnsStep
<1>3. CASE Arrive(r)
  BY <1>1, <1>3, ArriveEffect DEF InPlace, Tried
<1>4. CASE HandleLocalRecord(r)
  BY <1>1, <1>2, <1>4, LocalEffect DEF InPlace, Tried, OwnReply
<1>5. CASE FollowCNAME(r) \/ FinishCNAME(r)
  BY <1>1, <1>2, Known, <1>5, FollowEffect, FinishEffect DEF InPlace, Tried,
     Extended, Reanswered
<1>6. CASE Allowlisted(r) \/ Blocklisted(r)
  BY <1>1, <1>6, FilterEffect DEF InPlace, Tried, OwnReply
<1>7. CASE CacheHit(r) \/ CacheMiss(r)
  BY <1>1, <1>2, <1>7, HitEffect, MissEffect DEF InPlace, Tried
<1>8. CASE CopyHeader(r) \/ CopyAnswers(r)
  BY <1>1, <1>2, Known, <1>8, CopyEffect DEF Tried, Reanswered
<1>9. CASE ForwardReturns(r)
  <2>1. UNCHANGED fwd /\ fwd[r] # None
    BY <1>9, ReturnEffect
  <2>2. CASE fwd[r].st = "ok" /\ heap'[r] = fwd[r].msg
    BY <1>1, <2>1, <2>2, Known DEF Tried
  <2>3. CASE fwd[r].st = "err"
    BY <1>1, <2>1, <2>3 DEF Tried
  <2> QED
    BY <1>9, <2>2, <2>3, ReturnEffect
<1>10. CASE CacheSet(r)
  BY <1>1, <1>10, SetEffect DEF InPlace, Tried
<1>11. CASE WriteResponse(r) \/ TrimAnswer(r) \/ WriteMsg(r)
  BY <1>1, <1>11, WriteKeeps DEF Tried, Reanswered
<1>12. CASE AwaitUpstream(r)
  <2>1. Exchange(r) /\ UNCHANGED <<heap, pc>>
    BY <1>12 DEF AwaitUpstream, handlerVars
  <2>2. pc[r] \in {"forward", "tail"}
    BY <2>1, ExchangeEffect DEF RepliesInv, Replies, Asked
  <2> QED
    BY <1>2, <2>1, <2>2, Known DEF InPlace, Tried
<1> QED
  BY <1>3, <1>4, <1>5, <1>6, <1>7, <1>8, <1>9, <1>10, <1>11, <1>12 DEF Serve,
     HandleDNSRequest

\* A handler finds the records of the last reload before its request.
LEMMA FreshStep ==
    ASSUME ServerState, NEW r \in Request, Arrive(r) \/ Serve(r)
    PROVE  Fresh(r)'
<1> USE DEF ServerState
<1>1. InPlace(r) /\ Fresh(r)
  BY DEF RepliesInv, Replies
<1>2. gen \in Nat /\ reloads \in Nat /\ gen >= reloads /\ UNCHANGED reloads /\ born[r] \in Nat
  BY Functions DEF RepliesInv, ReloadsCounted, Arrive, Serve, ResolvitInv, ServerInv,
     StoreInv, RecordsTypeOK, CacheInv, CacheTypeOK
<1>3. CASE Arrive(r)
  BY <1>1, <1>2, <1>3, ArriveEffect DEF InPlace, Fresh
<1>4. CASE HandleLocalRecord(r)
  <2>1. hit'[r] = hit[r] /\ born'[r] = born[r] /\ (heap'[r] = heap[r] \/ heap'[r].gen = gen)
    BY <1>4, LocalEffect DEF OwnReply
  <2> QED
    BY <1>1, <1>2, <2>1 DEF Fresh
<1>5. CASE FollowCNAME(r) \/ FinishCNAME(r)
  BY <1>1, <1>2, Known, <1>5, FollowEffect, FinishEffect DEF InPlace, Fresh,
     Extended, Reanswered
<1>6. CASE Allowlisted(r) \/ Blocklisted(r)
  BY <1>1, <1>2, <1>6, FilterEffect DEF InPlace, Fresh, OwnReply
<1>7. CASE CacheHit(r) \/ CacheMiss(r)
  BY <1>1, <1>2, <1>7, HitEffect, MissEffect DEF InPlace, Fresh
<1>8. CASE CopyHeader(r) \/ CopyAnswers(r)
  BY <1>1, <1>2, Known, <1>8, CopyEffect DEF Fresh, Reanswered
<1>9. CASE ForwardReturns(r)
  BY <1>1, <1>2, Known, <1>9, ReturnEffect DEF InPlace, Fresh, OwnReply
<1>10. CASE CacheSet(r)
  BY <1>1, <1>2, <1>10, SetEffect DEF InPlace, Fresh
<1>11. CASE WriteResponse(r) \/ TrimAnswer(r) \/ WriteMsg(r)
  BY <1>1, <1>2, <1>11, WriteKeeps DEF Fresh, Reanswered
<1>12. CASE AwaitUpstream(r)
  BY <1>1, <1>2, <1>12 DEF AwaitUpstream, handlerVars, filterVars, Fresh
<1> QED
  BY <1>3, <1>4, <1>5, <1>6, <1>7, <1>8, <1>9, <1>10, <1>11, <1>12 DEF Serve,
     HandleDNSRequest

\* A name with a local record gets no further than the store.
LEMMA LocalFirstStep ==
    ASSUME ServerState, NEW r \in Request, Arrive(r) \/ Serve(r)
    PROVE  LocalFirst(r)'
<1> USE DEF ServerState
<1>1. InPlace(r) /\ LocalFirst(r)
  BY DEF RepliesInv, Replies
<1>2. UNCHANGED <<gen, records>>
  BY DEF Arrive, Serve
<1>3. pc[r] # "idle" => Get(query[r].name)' = Get(query[r].name)
  <2>1. pc[r] # "idle" => query'[r] = query[r]
    <3>1. Serve(r) => UNCHANGED query
      BY DEF Serve, HandleDNSRequest, HandleLocalRecord, FollowCNAME, FinishCNAME,
             Allowlisted, Blocklisted, CacheHit, CopyHeader, CopyAnswers, CacheMiss,
             ForwardReturns, CacheSet, WriteResponse, TrimAnswer, WriteMsg, AwaitUpstream,
             handlerVars
    <3> QED
      BY <3>1, ArriveEffect
  <2> QED
    BY <1>2, <2>1 DEF Get
<1>4. CASE Arrive(r)
  BY <1>1, <1>2, <1>3, <1>4, ArriveEffect DEF InPlace, LocalFirst
<1>5. CASE HandleLocalRecord(r)
  BY <1>1, <1>2, <1>3, <1>5, LocalEffect DEF InPlace, LocalFirst, OwnReply
<1>6. CASE FollowCNAME(r) \/ FinishCNAME(r)
  BY <1>1, <1>2, <1>3, Known, <1>6, FollowEffect, FinishEffect DEF InPlace,
     LocalFirst, Extended, Reanswered
<1>7. CASE Allowlisted(r) \/ Blocklisted(r)
  BY <1>1, <1>2, <1>3, <1>7, FilterEffect DEF InPlace, LocalFirst, OwnReply
<1>8. CASE CacheHit(r) \/ CacheMiss(r)
  BY <1>1, <1>2, <1>3, <1>8, HitEffect, MissEffect DEF InPlace, LocalFirst
<1>9. CASE CopyHeader(r) \/ CopyAnswers(r)
  BY <1>1, <1>2, <1>3, Known, <1>9, CopyEffect DEF LocalFirst, Reanswered
<1>10. CASE ForwardReturns(r)
  BY <1>1, <1>2, <1>3, Known, <1>10, ReturnEffect DEF InPlace, LocalFirst, OwnReply
<1>11. CASE CacheSet(r)
  BY <1>1, <1>2, <1>3, <1>11, SetEffect DEF InPlace, LocalFirst
<1>12. CASE WriteResponse(r) \/ TrimAnswer(r) \/ WriteMsg(r)
  BY <1>1, <1>2, <1>3, Known, <1>12, WriteEffect DEF InPlace, LocalFirst, Reanswered
<1>13. CASE AwaitUpstream(r)
  BY <1>1, <1>2, <1>13 DEF AwaitUpstream, handlerVars, filterVars, LocalFirst, Get
<1> QED
  BY <1>4, <1>5, <1>6, <1>7, <1>8, <1>9, <1>10, <1>11, <1>12, <1>13 DEF Serve,
     HandleDNSRequest

-----------------------------------------------------------------------------
(* Messages that are shared, and what their owners still do to them *)

\* Once a handler responds, its message only loses answers from the end and
\* gets the truncation flag, whoever takes the step.
LEMMA OwnerStep ==
    ASSUME ServerState, ResolvitInv', NEW r \in Request, Arrive(r) \/ Serve(r),
           NEW o \in Request, pc[o] \in Responding, heap[o] \in Msg
    PROVE  /\ pc'[o] \in Responding
           /\ query'[o] = query[o] /\ hit'[o] = hit[o] /\ born'[o] = born[o]
           /\ heap'[o] \in Msg
           /\ Reanswered(heap'[o], heap[o])
           /\ heap'[o].made = heap[o].made /\ heap'[o].lost = heap[o].lost
           /\ Len(heap'[o].ans) > 0 =>
                 Len(heap[o].ans) > 0 /\ heap'[o].ans[1] = heap[o].ans[1]
<1> USE DEF ServerState
<1>1. CASE o # r
  BY <1>1, OthersUntouched DEF Elsewhere, Reanswered
<1>2. CASE o = r /\ (WriteResponse(r) \/ TrimAnswer(r) \/ WriteMsg(r))
  <2>1. /\ pc'[o] \in Responding /\ Reanswered(heap'[o], heap[o])
        /\ heap'[o].made = heap[o].made /\ heap'[o].lost = heap[o].lost
        /\ UNCHANGED <<query, hit, born>>
    BY <1>2, WriteKeeps
  <2>2. \/ heap'[o] = heap[o]
        \/ /\ pc'[o] = "trim"
           /\ \/ heap'[o].ans = heap[o].ans
              \/ /\ Len(heap[o].ans) > 0
                 /\ heap'[o].ans = SubSeq(heap[o].ans, 1, Len(heap[o].ans) - 1)
    BY <1>2, WriteEffect
  <2>3. heap'[o] \in Msg
    BY <2>2 DEF ResolvitInv, ServerInv, HandlerInv, MessagesBuilt
  <2>4. heap[o].ans \in Seq(RR)
    BY DEF Msg
  <2>5. Len(heap'[o].ans) > 0 => Len(heap[o].ans) > 0 /\ heap'[o].ans[1] = heap[o].ans[1]
    BY <2>2, <2>4
  <2> QED
    BY <2>1, <2>3, <2>5
<1>3. CASE o = r /\ AwaitUpstream(r)
  BY <1>3 DEF AwaitUpstream, handlerVars, Reanswered
<1>4. CASE o = r /\ (HandleLocalRecord(r) \/ FollowCNAME(r) \/ FinishCNAME(r)
                     \/ Allowlisted(r) \/ Blocklisted(r))
  BY <1>4 DEF HandleLocalRecord, FollowCNAME, FinishCNAME, Allowlisted, Blocklisted, At,
              Responding
<1>5. CASE o = r /\ (CacheHit(r) \/ CopyHeader(r) \/ CopyAnswers(r) \/ CacheMiss(r)
                     \/ ForwardReturns(r) \/ CacheSet(r))
  BY <1>5 DEF CacheHit, CopyHeader, CopyAnswers, CacheMiss, ForwardReturns, CacheSet, At,
              Responding
<1>6. CASE o = r /\ Arrive(r)
  BY <1>6, ArriveEffect DEF Responding
<1> QED
  BY <1>1, <1>2, <1>3, <1>4, <1>5, <1>6 DEF Serve, HandleDNSRequest

\* An entry that refers to such a message goes on doing so.
LEMMA BackedStep ==
    ASSUME ServerState, ResolvitInv', NEW r \in Request, Arrive(r) \/ Serve(r),
           NEW e \in Entry, NEW k, Backed(e, k)
    PROVE  /\ pc'[e.msg] \in Responding
           /\ hit'[e.msg] = None
           /\ heap'[e.msg] \in Msg
           /\ heap'[e.msg].src \in Kept
           /\ cacheKeyFor(query'[e.msg]) = k
           /\ Len(heap'[e.msg].ans) > 0 => e.exp =< e.set + heap'[e.msg].ans[1].ttl
<1>1. e.msg \in Request
  BY DEF Entry
<1>2. /\ pc[e.msg] \in Responding /\ hit[e.msg] = None /\ heap[e.msg] \in Msg
      /\ heap[e.msg].src \in Kept /\ cacheKeyFor(query[e.msg]) = k
      /\ Len(heap[e.msg].ans) > 0 => e.exp =< e.set + heap[e.msg].ans[1].ttl
  BY DEF Backed
<1>3. /\ pc'[e.msg] \in Responding
      /\ query'[e.msg] = query[e.msg] /\ hit'[e.msg] = hit[e.msg]
      /\ heap'[e.msg] \in Msg /\ Reanswered(heap'[e.msg], heap[e.msg])
      /\ Len(heap'[e.msg].ans) > 0 =>
            Len(heap[e.msg].ans) > 0 /\ heap'[e.msg].ans[1] = heap[e.msg].ans[1]
  BY <1>1, <1>2, OwnerStep
<1> QED
  BY <1>2, <1>3 DEF Reanswered

\* Every entry refers to a message for its key, and no entry is older than the
\* last ClearCache.
LEMMA CachedBackedStep ==
    ASSUME ServerState, ResolvitInv', NEW r \in Request, Arrive(r) \/ Serve(r)
    PROVE  CachedBacked'
<1> USE DEF ServerState
<1>1. CachedBacked /\ UNCHANGED reloads
  BY DEF RepliesInv, Arrive, Serve
<1>2. \A k \in DOMAIN cache : cache[k] \in Entry
  BY DEF ResolvitInv, ServerInv, CacheInv, CacheTypeOK
<1>3. ASSUME NEW k \in DOMAIN cache' , k \in DOMAIN cache, cache'[k] = cache[k]
      PROVE  Backed(cache[k], k)' /\ cache'[k].era = reloads'
  <2> DEFINE e == cache[k]
  <2>1. e \in Entry /\ Backed(e, k) /\ e.era = reloads
    BY <1>1, <1>2, <1>3 DEF CachedBacked
  <2>2. cache'[k] = e
    BY <1>3
  <2>3. /\ pc'[e.msg] \in Responding /\ hit'[e.msg] = None
        /\ heap'[e.msg] \in Msg /\ heap'[e.msg].src \in Kept
        /\ cacheKeyFor(query'[e.msg]) = k
        /\ Len(heap'[e.msg].ans) > 0 => e.exp =< e.set + heap'[e.msg].ans[1].ttl
    BY <2>1, BackedStep
  <2> HIDE DEF e
  <2> QED
    BY <1>1, <2>1, <2>2, <2>3 DEF Backed
<1>4. CASE UNCHANGED cache
  BY <1>3, <1>4 DEF CachedBacked
<1>5. CASE CacheSet(r)
  <2> DEFINE x == cacheKeyFor(query[r])
             n == [msg |-> r, exp |-> now + TTL(heap[r]), set |-> now, era |-> reloads]
  <2>1. n.msg = r /\ n.exp = now + TTL(heap[r]) /\ n.set = now /\ n.era = reloads
    OBVIOUS
  <2>2. /\ pc[r] = "set" /\ pc'[r] = "write" /\ UNCHANGED <<query, hit, heap>>
        /\ \A k \in DOMAIN cache' :
              \/ k = x /\ cache'[k] = n
              \/ k \in DOMAIN cache /\ cache'[k] = cache[k]
    BY <1>5, SetEffect
  <2> HIDE DEF n
  <2>3. heap[r] \in Msg /\ hit[r] = None /\ heap[r].src \in Kept
    BY <2>2, Known DEF InPlace, AnswersInv, CacheableKept
  <2>4. Len(heap[r].ans) > 0 => n.exp =< n.set + heap[r].ans[1].ttl
    <3>1. heap[r].ans \in Seq(RR) /\ now \in Nat
      BY <2>3 DEF Msg, ResolvitInv, ServerInv, CacheInv, CacheTypeOK
    <3>2. Len(heap[r].ans) > 0 => heap[r].ans[1].ttl \in Nat
      <4>1. Len(heap[r].ans) > 0 => heap[r].ans[1] \in RR
        BY <3>1
      <4> QED
        BY <4>1 DEF RR
    <3> QED
      BY <2>1, <3>1, <3>2 DEF TTL
  <2>5. ASSUME NEW k \in DOMAIN cache', k = x, cache'[k] = n
        PROVE  Backed(cache[k], k)' /\ cache'[k].era = reloads'
    BY <1>1, <2>1, <2>2, <2>3, <2>4, <2>5 DEF Backed, Responding
  <2> QED
    BY <1>3, <2>2, <2>5 DEF CachedBacked
<1>6. UNCHANGED cache \/ CacheSet(r)
  BY DEF Arrive, Receive, FormatError, Serve, HandleDNSRequest, HandleLocalRecord,
         FollowCNAME, FinishCNAME, Allowlisted, Blocklisted, CacheHit, CopyHeader,
         CopyAnswers, CacheMiss, ForwardReturns, WriteResponse, TrimAnswer, WriteMsg,
         AwaitUpstream
<1> QED
  BY <1>4, <1>5, <1>6

\* A hit refers to a message for the question of the request that it serves.
LEMMA HitBackedStep ==
    ASSUME ServerState, ResolvitInv', NEW r \in Request, Arrive(r) \/ Serve(r),
           NEW o \in Request
    PROVE  HitBacked(o)'
<1> USE DEF ServerState
<1>1. HitBacked(o) /\ Fresh(o) /\ InPlace(o)
  BY DEF RepliesInv, Replies
<1>2. ASSUME hit'[o] = hit[o], hit[o] # None,
             cacheKeyFor(query'[o]) = cacheKeyFor(query[o]), born'[o] = born[o]
      PROVE  HitBacked(o)'
  <2> DEFINE e == hit[o].entry
             k == cacheKeyFor(query[o])
  <2>1. e \in Entry
    BY <1>2, Functions
  <2>2. Backed(e, k) /\ hit[o].at =< e.exp /\ e.era >= born[o]
    BY <1>1, <1>2 DEF HitBacked
  <2>3. /\ pc'[e.msg] \in Responding /\ hit'[e.msg] = None
        /\ heap'[e.msg] \in Msg /\ heap'[e.msg].src \in Kept
        /\ cacheKeyFor(query'[e.msg]) = k
        /\ Len(heap'[e.msg].ans) > 0 => e.exp =< e.set + heap'[e.msg].ans[1].ttl
    BY <2>1, <2>2, BackedStep
  <2>4. hit'[o].entry = e /\ hit'[o].at = hit[o].at /\ cacheKeyFor(query'[o]) = k
    BY <1>2
  <2> HIDE DEF e, k
  <2> QED
    BY <1>2, <2>2, <2>3, <2>4 DEF HitBacked, Backed
<1>3. CASE CacheHit(r) /\ o = r
  <2> DEFINE k == cacheKeyFor(query[r])
             e == cache[k]
  <2>1. /\ k \in DOMAIN cache /\ now =< e.exp /\ pc'[r] = "header"
        /\ hit'[r] = [entry |-> e, at |-> now] /\ UNCHANGED <<query, born>>
    BY <1>3, HitEffect
  <2>2. e \in Entry /\ Backed(e, k) /\ e.era = reloads
    BY <2>1 DEF ResolvitInv, ServerInv, CacheInv, CacheTypeOK, RepliesInv, CachedBacked
  <2>3. /\ pc'[e.msg] \in Responding /\ hit'[e.msg] = None
        /\ heap'[e.msg] \in Msg /\ heap'[e.msg].src \in Kept
        /\ cacheKeyFor(query'[e.msg]) = k
        /\ Len(heap'[e.msg].ans) > 0 => e.exp =< e.set + heap'[e.msg].ans[1].ttl
    BY <2>2, BackedStep
  <2>4. hit'[r].entry = e /\ hit'[r].at = now /\ cacheKeyFor(query'[r]) = k
    BY <2>1
  <2>5. e.era >= born[r]
    BY <1>1, <1>3, <2>2, Functions DEF Fresh, ResolvitInv, ServerInv, CacheInv, CacheTypeOK
  <2> HIDE DEF e, k
  <2> QED
    BY <1>3, <2>1, <2>3, <2>4, <2>5 DEF HitBacked, Backed
<1>4. /\ hit'[o] = hit[o] \/ (CacheHit(r) /\ o = r)
      /\ hit[o] # None => query'[o] = query[o] /\ born'[o] = born[o]
  <2>1. CASE o # r
    BY <2>1, OthersUntouched DEF Elsewhere
  <2>2. CASE o = r /\ Arrive(r)
    BY <1>1, <2>2, ArriveEffect DEF InPlace
  <2>3. CASE o = r /\ Serve(r)
    BY <2>3 DEF Serve, HandleDNSRequest, HandleLocalRecord, FollowCNAME, FinishCNAME,
         Allowlisted, Blocklisted, CacheHit, CopyHeader, CopyAnswers, CacheMiss,
         ForwardReturns, CacheSet, WriteResponse, TrimAnswer, WriteMsg, AwaitUpstream,
         handlerVars
  <2> QED
    BY <2>1, <2>2, <2>3
<1>5. CASE hit'[o] = None
  BY <1>5 DEF HitBacked
<1> QED
  BY <1>2, <1>3, <1>4, <1>5

\* The message that a hit refers to keeps what the copy was told to share.
LEMMA OriginalStep ==
    ASSUME ServerState, ResolvitInv', NEW r \in Request, Arrive(r) \/ Serve(r),
           NEW o \in Request, hit[o] # None
    PROVE  /\ hit[o].entry.msg \in Request
           /\ heap[hit[o].entry.msg] \in Msg
           /\ heap'[hit[o].entry.msg].src = heap[hit[o].entry.msg].src
           /\ heap'[hit[o].entry.msg].made = heap[hit[o].entry.msg].made
           /\ heap'[hit[o].entry.msg].lost = heap[hit[o].entry.msg].lost
           /\ heap'[hit[o].entry.msg].gen = heap[hit[o].entry.msg].gen
<1> USE DEF ServerState
<1>1. hit[o].entry \in Entry
  BY Functions
<1>2. hit[o].entry.msg \in Request
  BY <1>1 DEF Entry
<1>3. pc[hit[o].entry.msg] \in Responding /\ heap[hit[o].entry.msg] \in Msg
  BY DEF RepliesInv, Replies, HitBacked, Backed
<1> QED
  BY <1>2, <1>3, OwnerStep DEF Reanswered

\* A copy goes on agreeing with the original.
LEMMA CopiedStep ==
    ASSUME ServerState, ResolvitInv', NEW r \in Request, Arrive(r) \/ Serve(r),
           NEW o \in Request
    PROVE  Copied(o)'
<1> USE DEF ServerState
<1>1. InPlace(o) /\ HitBacked(o) /\ Copied(o)
  BY DEF RepliesInv, Replies
<1>2. ASSUME hit'[o] = hit[o], hit[o] # None, heap[o] # None,
             heap'[o].src = heap[o].src, heap'[o].made = heap[o].made,
             heap'[o].lost = heap[o].lost, heap'[o].gen = heap[o].gen,
             \/ Len(heap'[o].ans) > 0 =>
                   Len(heap[o].ans) > 0 /\ heap'[o].ans[1] = heap[o].ans[1]
             \/ heap'[o].ans = heap[hit[o].entry.msg].ans
      PROVE  Copied(o)'
  <2> DEFINE h == hit[o]
             m == heap[h.entry.msg]
  <2>1. /\ heap'[h.entry.msg].src = m.src /\ heap'[h.entry.msg].made = m.made
        /\ heap'[h.entry.msg].lost = m.lost /\ heap'[h.entry.msg].gen = m.gen
    BY <1>2, OriginalStep
  <2>2. /\ heap[o].src = m.src /\ heap[o].made = m.made
        /\ heap[o].lost = m.lost /\ heap[o].gen = m.gen
        /\ Len(heap[o].ans) > 0 => h.at =< h.entry.set + heap[o].ans[1].ttl
    BY <1>1, <1>2 DEF Copied
  <2>3. h.at =< h.entry.exp /\ (Len(m.ans) > 0 => h.entry.exp =< h.entry.set + m.ans[1].ttl)
    BY <1>1, <1>2 DEF HitBacked, Backed
  <2>4. h.at \in Nat /\ h.entry.exp \in Nat /\ h.entry.set \in Nat
    BY <1>2, Functions DEF Entry
  <2>5. Len(m.ans) > 0 => m.ans[1].ttl \in Nat
    <3>1. m.ans \in Seq(RR)
      BY <1>2, OriginalStep DEF Msg
    <3>2. Len(m.ans) > 0 => m.ans[1] \in RR
      BY <3>1
    <3> QED
      BY <3>2 DEF RR
  <2>6. hit'[o] = h
    BY <1>2
  <2> HIDE DEF m, h
  <2>7. Len(m.ans) > 0 => h.at =< h.entry.set + m.ans[1].ttl
    BY <2>3, <2>4, <2>5
  <2>8. Len(heap'[o].ans) > 0 => h.at =< h.entry.set + heap'[o].ans[1].ttl
    <3>1. CASE heap'[o].ans = heap[hit[o].entry.msg].ans
      BY <2>7, <3>1 DEF m, h
    <3>2. CASE Len(heap'[o].ans) > 0 =>
                  Len(heap[o].ans) > 0 /\ heap'[o].ans[1] = heap[o].ans[1]
      BY <2>2, <3>2
    <3> QED
      BY <1>2, <3>1, <3>2
  <2> QED
    BY <1>2, <2>1, <2>2, <2>6, <2>8 DEF Copied
<1>3. CASE o # r \/ AwaitUpstream(r) \/ CacheSet(r)
  <2>1. heap'[o] = heap[o] /\ hit'[o] = hit[o]
    BY <1>3, OthersUntouched, SetEffect DEF Elsewhere, AwaitUpstream, handlerVars
  <2> QED
    BY <1>2, <2>1 DEF Copied
<1>4. CASE o = r /\ (HandleLocalRecord(r) \/ FollowCNAME(r) \/ FinishCNAME(r) \/ ForwardReturns(r))
  BY <1>1, <1>4, LocalEffect, FollowEffect, FinishEffect, ReturnEffect DEF InPlace, Copied
<1>5. CASE o = r /\ (Allowlisted(r) \/ Blocklisted(r) \/ CacheMiss(r) \/ Arrive(r))
  BY <1>1, <1>5, FilterEffect, MissEffect, ArriveEffect DEF InPlace, Copied
<1>6. CASE o = r /\ CacheHit(r)
  BY <1>1, <1>6, HitEffect DEF InPlace, Copied
<1>7. CASE o = r /\ CopyHeader(r)
  <2> DEFINE m == heap[hit[r].entry.msg]
  <2>1. /\ pc[r] = "header" /\ hit'[r] = hit[r] /\ heap'[r].ans = <<>>
        /\ heap'[r].src = m.src /\ heap'[r].made = m.made
        /\ heap'[r].lost = m.lost /\ heap'[r].gen = m.gen
    <3>1. pc[r] = "header"
      BY <1>7 DEF CopyHeader, At
    <3> QED
      BY <1>7, <3>1, CopyEffect
  <2>2. hit[r] # None
    BY <2>1, Known
  <2>3. /\ heap'[hit[r].entry.msg].src = m.src /\ heap'[hit[r].entry.msg].made = m.made
        /\ heap'[hit[r].entry.msg].lost = m.lost /\ heap'[hit[r].entry.msg].gen = m.gen
    BY <2>2, OriginalStep
  <2>4. ~(Len(heap'[r].ans) > 0)
    BY <2>1
  <2> HIDE DEF m
  <2> QED
    BY <1>7, <2>1, <2>3, <2>4 DEF Copied
<1>8. CASE o = r /\ CopyAnswers(r)
  <2>1. /\ pc[r] = "answers" /\ hit'[r] = hit[r] /\ Reanswered(heap'[r], heap[r])
        /\ heap'[r].made = heap[r].made /\ heap'[r].lost = heap[r].lost
        /\ heap'[r].ans = heap[hit[r].entry.msg].ans
    <3>1. pc[r] = "answers"
      BY <1>8 DEF CopyAnswers, At
    <3> QED
      BY <1>8, <3>1, CopyEffect
  <2>2. hit[r] # None /\ heap[r] # None
    BY <2>1, Known
  <2> QED
    BY <1>2, <1>8, <2>1, <2>2 DEF Reanswered
<1>9. CASE o = r /\ (WriteResponse(r) \/ TrimAnswer(r) \/ WriteMsg(r))
  <2>1. /\ heap[o] \in Msg /\ heap[o] # None /\ pc[o] \in Responding
    BY <1>9, WriteKeeps
  <2>2. /\ hit'[o] = hit[o] /\ Reanswered(heap'[o], heap[o])
        /\ heap'[o].made = heap[o].made /\ heap'[o].lost = heap[o].lost
        /\ Len(heap'[o].ans) > 0 =>
              Len(heap[o].ans) > 0 /\ heap'[o].ans[1] = heap[o].ans[1]
    BY <2>1, OwnerStep
  <2>3. CASE hit[o] = None
    BY <2>2, <2>3 DEF Copied
  <2> QED
    BY <1>2, <2>1, <2>2, <2>3 DEF Reanswered
<1> QED
  BY <1>3, <1>4, <1>5, <1>6, <1>7, <1>8, <1>9 DEF Serve, HandleDNSRequest

-----------------------------------------------------------------------------
(* The messages of handlers: identity, completeness, flags, chains *)

\* What a hit serves is an answer to the question of the request: a message
\* under the same key is about the same name and type, over the same transport.
LEMMA OriginalAnswers ==
    ASSUME ServerState, NEW r \in Request, hit[r] # None
    PROVE  LET o == hit[r].entry.msg
               m == heap[o]
           IN  /\ o \in Request /\ m \in Msg /\ m # None
               /\ Lower(query[o].name) = Lower(query[r].name)
               /\ query[o].proto = query[r].proto
               /\ Lower(m.question.name) = Lower(query[r].name)
               /\ m.question.qtype = query[r].qtype
               /\ m.src = "upstream" /\ m.lost > 0 => m.tc
               /\ query[r].proto = "tcp" => Len(m.ans) = m.made
<1> DEFINE o == hit[r].entry.msg
           m == heap[o]
<1> USE DEF ServerState
<1>1. o \in Request
  BY Functions DEF Entry
<1>2. /\ pc[o] \in Responding /\ m \in Msg /\ m # None
      /\ cacheKeyFor(query[o]) = cacheKeyFor(query[r])
  BY HandlerAssumption DEF RepliesInv, Replies, HitBacked, Backed
<1>3. /\ Lower(query[o].name) = Lower(query[r].name) /\ query[o].qtype = query[r].qtype
      /\ query[o].proto = query[r].proto
  BY <1>2 DEF cacheKeyFor
<1>4. Built(o)
  BY <1>1 DEF RepliesInv, Replies
<1>5. /\ Lower(m.question.name) = Lower(query[r].name)
      /\ m.question.qtype = query[r].qtype
      /\ m.src = "upstream" /\ m.lost > 0 => m.tc
      /\ query[r].proto = "tcp" => Len(m.ans) = m.made
  BY <1>2, <1>3, <1>4 DEF Built, Answers, Responding
<1> QED
  BY <1>1, <1>2, <1>3, <1>5

\* A message of the handler's own answers its question, with all its answers.
LEMMA OwnReplyBuilt ==
    ASSUME NEW r \in Request, query'[r] = query[r],
           NEW src \in {"local", "filter", "servfail"}, NEW rrs \in Seq(RR),
           OwnReply(heap'[r], r, src, rrs), pc'[r] \in {"set", "chain", "write"}
    PROVE  Built(r)'
  BY DEF OwnReply, Built, Answers, QuestionOf

\* More answers are counted.
LEMMA ExtendedBuilt ==
    ASSUME ServerState, NEW r \in Request, query'[r] = query[r], hit'[r] = hit[r],
           pc[r] \in {"chain", "tail"}, pc'[r] \in {"chain", "set"},
           NEW rrs \in Seq(RR), Extended(heap'[r], heap[r], rrs)
    PROVE  Built(r)'
<1> USE DEF ServerState
<1>1. heap[r] \in Msg /\ heap[r] # None /\ heap[r].src = "local"
  BY Known
<1>2. Built(r)
  BY DEF RepliesInv, Replies
<1>3. heap[r].ans \in Seq(RR) /\ heap[r].made \in Nat
  BY <1>1 DEF Msg
<1>4. Len(heap[r].ans) = heap[r].made => Len(heap'[r].ans) = heap'[r].made
  BY <1>3 DEF Extended
<1>5. /\ heap'[r].id = heap[r].id /\ heap'[r].question = heap[r].question
      /\ heap'[r].src = "local" /\ heap'[r].tc = heap[r].tc
  BY <1>1 DEF Extended, Reanswered
<1> QED
  BY <1>1, <1>2, <1>4, <1>5 DEF Built, Answers

\* The invariant of a handler's message.
LEMMA BuiltStep ==
    ASSUME ServerState, NEW r \in Request, Arrive(r) \/ Serve(r)
    PROVE  Built(r)'
<1> USE DEF ServerState
<1>1. InPlace(r) /\ Built(r) /\ Copied(r) /\ Asked(r)
  BY DEF RepliesInv, Replies
<1>2. heap'[r] = heap[r] /\ query'[r] = query[r] /\ hit'[r] = hit[r] =>
        (pc[r] # "answers" /\ pc'[r] \notin {"trim", "send", "done", "answers"} => Built(r)')
  BY <1>1 DEF Built, Answers
<1>3. CASE Arrive(r) \/ CacheHit(r) \/ CacheMiss(r)
  BY <1>1, <1>3, ArriveEffect, HitEffect, MissEffect DEF InPlace, Built
<1>4. CASE HandleLocalRecord(r)
  <2> DEFINE rrs == <<LocalRR(query[r].name, Get(query[r].name))>>
  <2>1. query[r].name \in Name
    BY <1>4, LocalEffect DEF ResolvitInv, ServerInv, HandlerInv, QueriesKnown, Query
  <2>2. Get(query[r].name) # None => rrs \in Seq(RR)
    BY <2>1, GetType, LocalRRType DEF ResolvitInv, ServerInv, StoreInv
  <2>3. \/ heap'[r] = heap[r] /\ pc[r] = "local"
        \/ /\ Get(query[r].name) # None /\ pc'[r] \in {"set", "chain"}
           /\ OwnReply(heap'[r], r, "local", rrs) \/ OwnReply(heap'[r], r, "local", <<>>)
    BY <1>4, LocalEffect
  <2>4. <<>> \in Seq(RR) /\ query'[r] = query[r]
    BY <1>4 DEF HandleLocalRecord
  <2> HIDE DEF rrs
  <2>5. CASE heap'[r] = heap[r] /\ pc[r] = "local"
    BY <1>1, <2>5 DEF InPlace, Built
  <2> QED
    BY <2>2, <2>3, <2>4, <2>5, OwnReplyBuilt
<1>5. CASE FollowCNAME(r)
  <2> DEFINE rrs == <<LocalRR(target[r], Get(target[r]))>>
  <2>1. Get(target[r]) # None => rrs \in Seq(RR)
    BY Functions, GetType, LocalRRType DEF ResolvitInv, ServerInv, StoreInv
  <2>2. /\ pc[r] = "chain" /\ UNCHANGED <<query, hit>>
        /\ \/ UNCHANGED heap /\ pc'[r] = "tail"
           \/ /\ Get(target[r]) # None /\ pc'[r] \in {"chain", "set"}
              /\ Extended(heap'[r], heap[r], rrs)
    BY <1>5, FollowEffect
  <2> HIDE DEF rrs
  <2> QED
    BY <1>2, <2>1, <2>2, ExtendedBuilt
<1>6. CASE FinishCNAME(r)
  <2>1. /\ pc[r] = "tail" /\ pc'[r] = "set" /\ fwd[r] # None /\ UNCHANGED <<query, hit>>
        /\ \/ fwd[r].st = "ok" /\ Extended(heap'[r], heap[r], fwd[r].msg.ans)
           \/ UNCHANGED heap
    BY <1>6, FinishEffect
  <2>2. fwd[r].st = "ok" => fwd[r].msg.ans \in Seq(RR)
    BY <2>1 DEF ResolvitInv, ServerInv, ForwarderInv, ForwardedBuilt, Msg
  <2> QED
    BY <1>2, <2>1, <2>2, ExtendedBuilt
<1>7. CASE Allowlisted(r) \/ Blocklisted(r)
  <2>1. <<>> \in Seq(RR)
    OBVIOUS
  <2>2. UNCHANGED query /\ pc[r] \in {"allow", "block"}
    BY <1>7, FilterEffect
  <2>3. \/ heap'[r] = heap[r]
        \/ pc'[r] = "write" /\ OwnReply(heap'[r], r, "filter", <<>>)
    BY <1>7, FilterEffect
  <2>4. CASE heap'[r] = heap[r]
    BY <1>1, <2>2, <2>4 DEF InPlace, Built
  <2> QED
    BY <2>1, <2>2, <2>3, <2>4, OwnReplyBuilt
<1>8. CASE CopyHeader(r)
  <2> DEFINE m == heap[hit[r].entry.msg]
  <2>1. pc[r] = "header"
    BY <1>8 DEF CopyHeader, At
  <2>2. /\ pc'[r] = "answers" /\ UNCHANGED <<query, hit>>
        /\ heap'[r].id = r /\ heap'[r].ans = <<>> /\ heap'[r].question = m.question
        /\ heap'[r].tc = m.tc /\ heap'[r].src = m.src /\ heap'[r].lost = m.lost
    BY <1>8, <2>1, CopyEffect
  <2>3. hit[r] # None
    BY <2>1, Known
  <2>4. /\ Lower(m.question.name) = Lower(query[r].name) /\ m.question.qtype = query[r].qtype
        /\ m.src = "upstream" /\ m.lost > 0 => m.tc
    BY <2>3, OriginalAnswers
  <2> HIDE DEF m
  <2> QED
    BY <2>2, <2>3, <2>4 DEF Built, Answers
<1>9. CASE CopyAnswers(r)
  <2> DEFINE m == heap[hit[r].entry.msg]
  <2>1. pc[r] = "answers"
    BY <1>9 DEF CopyAnswers, At
  <2>2. /\ pc'[r] = "write" /\ UNCHANGED <<query, hit>>
        /\ Reanswered(heap'[r], heap[r]) /\ heap'[r].ans = m.ans
        /\ heap'[r].tc = heap[r].tc /\ heap'[r].made = heap[r].made
        /\ heap'[r].lost = heap[r].lost
    BY <1>9, <2>1, CopyEffect
  <2>3. hit[r] # None /\ heap[r] # None
    BY <2>1, Known
  <2>4. heap[r].made = m.made /\ (query[r].proto = "tcp" => Len(m.ans) = m.made)
    BY <1>1, <2>3, OriginalAnswers DEF Copied
  <2> HIDE DEF m
  <2> QED
    BY <1>1, <2>2, <2>3, <2>4 DEF Built, Answers, Reanswered
<1>10. CASE ForwardReturns(r)
  <2>1. <<>> \in Seq(RR)
    OBVIOUS
  <2>2. pc[r] = "forward" /\ fwd[r] # None /\ UNCHANGED <<query, hit>>
    BY <1>10, ReturnEffect
  <2>3. CASE fwd[r].st = "ok" /\ heap'[r] = fwd[r].msg /\ pc'[r] = "set"
    <3>1. FromUpstream(fwd[r].msg, r, query[r])
      BY <1>1, <2>2, <2>3 DEF Asked
    <3> QED
      BY <2>2, <2>3, <3>1 DEF FromUpstream, Built, Answers, QuestionOf
  <2>4. CASE pc'[r] = "write" /\ OwnReply(heap'[r], r, "servfail", <<>>)
    BY <2>1, <2>2, <2>4, OwnReplyBuilt
  <2> QED
    BY <1>10, <2>3, <2>4, ReturnEffect
<1>11. CASE CacheSet(r)
  BY <1>2, <1>11, SetEffect
<1>12. CASE WriteResponse(r) \/ TrimAnswer(r) \/ WriteMsg(r)
  <2>1. /\ heap[r] # None /\ UNCHANGED <<query, hit>> /\ Reanswered(heap'[r], heap[r])
        /\ heap'[r].made = heap[r].made /\ heap'[r].lost = heap[r].lost
    BY <1>12, WriteKeeps
  <2>2. CASE pc[r] = "write" /\ pc'[r] = "trim" /\ query[r].proto = "udp" /\ heap'[r].tc = TRUE
    BY <1>1, <2>1, <2>2 DEF Built, Answers, Reanswered
  <2>3. CASE /\ pc[r] \in {"write", "trim"} /\ pc'[r] = "send" /\ UNCHANGED heap
             /\ query[r].proto = "udp" => ~TooLarge(heap[r])
    BY <1>1, <2>1, <2>3 DEF Built, Answers, TooLarge, Size
  <2>4. CASE pc[r] = "trim" /\ pc'[r] = "trim" /\ heap'[r].tc = heap[r].tc
    BY <1>1, <2>1, <2>4 DEF Built, Answers, Reanswered
  <2>5. CASE pc[r] = "send" /\ pc'[r] = "done" /\ UNCHANGED heap
    BY <1>1, <2>1, <2>5 DEF Built, Answers, TooLarge, Size
  <2> QED
    BY <1>12, <2>2, <2>3, <2>4, <2>5, WriteEffect
<1>13. CASE AwaitUpstream(r)
  BY <1>1, <1>13 DEF AwaitUpstream, handlerVars, Built, Answers, TooLarge, Size
<1> QED
  BY <1>3, <1>4, <1>5, <1>6, <1>7, <1>8, <1>9, <1>10, <1>11, <1>12, <1>13 DEF
     Serve, HandleDNSRequest

\* A chain that goes on at its target is a chain.
LEMMA ChainExtended ==
    ASSUME NEW s \in Seq(RR), NEW t \in Seq(RR), Len(s) > 0, Chain(s), Chain(t),
           Len(t) > 0 => t[1].name = s[Len(s)].data
    PROVE  /\ Chain(s \o t)
           /\ Len(s \o t) > 0
           /\ (s \o t)[1] = s[1]
<1> DEFINE u == s \o t
<1>1. /\ Len(u) = Len(s) + Len(t) /\ Len(s) \in Nat /\ Len(t) \in Nat
      /\ \A i \in 1..Len(s) : u[i] = s[i]
      /\ \A i \in 1..Len(t) : u[Len(s) + i] = t[i]
  OBVIOUS
<1> HIDE DEF u
<1>2. ASSUME NEW i \in 2..Len(u), u[i-1].type = "CNAME" PROVE u[i].name = u[i-1].data
  <2>1. CASE i \in 2..Len(s)
    <3>1. i \in 1..Len(s) /\ i - 1 \in 1..Len(s)
      BY <1>1, <2>1
    <3>2. u[i] = s[i] /\ u[i-1] = s[i-1]
      BY <1>1, <3>1
    <3> QED
      BY <1>2, <2>1, <3>2 DEF Chain
  <2>2. CASE i = Len(s) + 1
    <3>1. Len(t) > 0 /\ u[i-1] = s[Len(s)] /\ u[Len(s) + 1] = t[1]
      BY <1>1, <2>2
    <3> QED
      BY <2>2, <3>1
  <2>3. CASE i > Len(s) + 1
    <3> DEFINE j == i - Len(s)
    <3>1. j \in 2..Len(t) /\ j - 1 \in 1..Len(t) /\ j \in 1..Len(t)
      BY <1>1, <2>3
    <3>2. Len(s) + j = i /\ Len(s) + (j - 1) = i - 1
      BY <1>1
    <3> HIDE DEF j
    <3>3. u[i] = t[j] /\ u[i-1] = t[j-1]
      BY <1>1, <3>1, <3>2
    <3> QED
      BY <1>2, <3>1, <3>3 DEF Chain
  <2> QED
    BY <1>1, <2>1, <2>2, <2>3
<1>3. Chain(u) /\ Len(u) > 0 /\ u[1] = s[1]
  BY <1>1, <1>2 DEF Chain
<1> QED
  BY <1>3 DEF u

\* Taking the last record away leaves a chain.
LEMMA ChainCut ==
    ASSUME NEW s \in Seq(RR), Len(s) > 0, Chain(s)
    PROVE  Chain(SubSeq(s, 1, Len(s) - 1))
<1> DEFINE k == Len(s) - 1
           u == SubSeq(s, 1, k)
<1>1. k \in Nat /\ k =< Len(s) /\ Len(s) \in Nat
  OBVIOUS
<1> HIDE DEF k
<1>2. Len(u) = k /\ \A i \in 1..k : u[i] = s[i]
  BY <1>1
<1> HIDE DEF u
<1>3. ASSUME NEW i \in 2..Len(u), u[i-1].type = "CNAME" PROVE u[i].name = u[i-1].data
  <2>1. i \in 1..k /\ i - 1 \in 1..k /\ i \in 2..Len(s)
    BY <1>1, <1>2
  <2>2. u[i] = s[i] /\ u[i-1] = s[i-1]
    BY <1>2, <2>1
  <2> QED
    BY <1>3, <2>1, <2>2 DEF Chain
<1>4. Chain(u)
  BY <1>3 DEF Chain
<1> QED
  BY <1>4 DEF u, k

\* A record that handleCNAME makes bears the name it was looked up under, and
\* points to the next target.
LEMMA LocalRRLinks ==
    ASSUME NEW n, NEW rec
    PROVE  /\ LocalRR(n, rec).name = n
           /\ rec.typ = "cname" => LocalRR(n, rec).data = WithDot(rec.content)
  BY DEF LocalRR

\* A sequence of one record is a chain, and so are records of type A.
LEMMA ShortChains ==
    /\ Chain(<<>>)
    /\ \A rr : Chain(<<rr>>)
    /\ \A s \in Seq(RR) : (\A i \in DOMAIN s : s[i].type = "A") => Chain(s)
<1>1. Chain(<<>>) /\ \A rr : Chain(<<rr>>)
  BY DEF Chain
<1>2. ASSUME NEW s \in Seq(RR), \A i \in DOMAIN s : s[i].type = "A" PROVE Chain(s)
  <2>1. \A i \in 2..Len(s) : i - 1 \in DOMAIN s
    OBVIOUS
  <2>2. \A i \in 2..Len(s) : s[i-1].type # "CNAME"
    BY <1>2, <2>1
  <2> QED
    BY <2>2 DEF Chain
<1> QED
  BY <1>1, <1>2

\* append(msg.Answer, rr): the record comes last.
LEMMA LastAppended ==
    ASSUME NEW s \in Seq(RR), NEW t \in Seq(RR), Len(t) = 1
    PROVE  (s \o t)[Len(s \o t)] = t[1]
<1>1. ASSUME NEW u \in Seq(RR), NEW v \in Seq(RR)
      PROVE  /\ Len(u \o v) = Len(u) + Len(v)
             /\ \A i \in 1..Len(v) : (u \o v)[Len(u) + i] = v[i]
  OBVIOUS
<1>2. 1 \in 1..Len(t)
  OBVIOUS
<1> QED
  BY <1>1, <1>2

\* handleCNAME goes on at its target.
LEMMA ExtendedLinked ==
    ASSUME ServerState, NEW r \in Request, query'[r] = query[r],
           pc[r] \in {"chain", "tail"}, NEW rrs \in Seq(RR), Chain(rrs),
           Len(rrs) > 0 => rrs[1].name = target[r],
           Extended(heap'[r], heap[r], rrs),
           pc'[r] \in {"chain", "tail"} => Len(rrs) = 1 /\ rrs[1].data = target'[r]
    PROVE  Linked(r)'
<1> USE DEF ServerState
<1>1. heap[r] \in Msg /\ heap[r] # None /\ heap[r].src = "local"
  BY Known
<1>2. /\ Len(heap[r].ans) > 0 /\ heap[r].ans[Len(heap[r].ans)].data = target[r]
      /\ Lower(heap[r].ans[1].name) = Lower(query[r].name) /\ Chain(heap[r].ans)
  BY <1>1 DEF RepliesInv, Replies, Linked
<1>3. heap[r].ans \in Seq(RR)
  BY <1>1 DEF Msg
<1>4. heap'[r].ans = heap[r].ans \o rrs /\ heap'[r].src = "local"
  BY <1>1 DEF Extended, Reanswered
<1>5. Chain(heap'[r].ans) /\ Len(heap'[r].ans) > 0 /\ heap'[r].ans[1] = heap[r].ans[1]
  BY <1>2, <1>3, <1>4, ChainExtended
<1>6. Len(rrs) = 1 => heap'[r].ans[Len(heap'[r].ans)] = rrs[1]
  BY <1>3, <1>4, LastAppended
<1> QED
  BY <1>2, <1>4, <1>5, <1>6 DEF Linked

\* The chains of local answers.
LEMMA LinkedStep ==
    ASSUME ServerState, NEW r \in Request, Arrive(r) \/ Serve(r)
    PROVE  Linked(r)'
<1> USE DEF ServerState
<1>1. InPlace(r) /\ Linked(r) /\ Copied(r) /\ Asked(r)
  BY DEF RepliesInv, Replies
<1>2. CASE Arrive(r) \/ CacheHit(r) \/ CacheMiss(r)
  BY <1>1, <1>2, ArriveEffect, HitEffect, MissEffect DEF InPlace, Linked
<1>3. CASE HandleLocalRecord(r)
  <2> DEFINE rr == LocalRR(query[r].name, Get(query[r].name))
  <2>1. UNCHANGED query
    BY <1>3 DEF HandleLocalRecord
  <2>2. \/ heap'[r] = heap[r] /\ pc[r] = "local" /\ pc'[r] \in {"allow", "cache"}
        \/ /\ pc'[r] = "set"
           /\ OwnReply(heap'[r], r, "local", <<rr>>) \/ OwnReply(heap'[r], r, "local", <<>>)
        \/ /\ Get(query[r].name).typ = "cname"
           /\ target'[r] = WithDot(Get(query[r].name).content)
           /\ OwnReply(heap'[r], r, "local", <<rr>>)
    BY <1>3, LocalEffect
  <2>3. /\ rr.name = query[r].name
        /\ Get(query[r].name).typ = "cname" => rr.data = WithDot(Get(query[r].name).content)
    BY LocalRRLinks
  <2> HIDE DEF rr
  <2>4. CASE heap'[r] = heap[r] /\ pc[r] = "local" /\ pc'[r] \in {"allow", "cache"}
    BY <1>1, <2>4 DEF InPlace, Linked
  <2>5. CASE pc'[r] = "set" /\ OwnReply(heap'[r], r, "local", <<>>)
    <3>1. heap'[r].ans = <<>>
      BY <2>5 DEF OwnReply
    <3> QED
      BY <2>5, <3>1, ShortChains DEF Linked
  <2>6. CASE /\ OwnReply(heap'[r], r, "local", <<rr>>)
             /\ pc'[r] = "set" \/ rr.data = target'[r]
    <3>1. /\ heap'[r].ans = <<rr>> /\ heap'[r].src = "local"
          /\ Len(heap'[r].ans) = 1 /\ heap'[r].ans[1] = rr
      BY <2>6 DEF OwnReply
    <3>2. Chain(heap'[r].ans)
      BY <3>1, ShortChains
    <3> QED
      BY <2>1, <2>3, <2>6, <3>1, <3>2 DEF Linked
  <2> QED
    BY <2>2, <2>3, <2>4, <2>5, <2>6
<1>4. CASE FollowCNAME(r)
  <2> DEFINE rec == Get(target[r])
             rr  == LocalRR(target[r], rec)
  <2>1. rec # None => rr \in RR
    BY Functions, GetType, LocalRRType DEF ResolvitInv, ServerInv, StoreInv
  <2>2. /\ pc[r] = "chain" /\ UNCHANGED query
        /\ \/ UNCHANGED <<heap, target>> /\ pc'[r] = "tail"
           \/ /\ rec # None /\ Extended(heap'[r], heap[r], <<rr>>)
              /\ \/ pc'[r] = "set"
                 \/ rec.typ = "cname" /\ target'[r] = WithDot(rec.content)
    BY <1>4, FollowEffect
  <2>3. rr.name = target[r] /\ (rec.typ = "cname" => rr.data = WithDot(rec.content))
    BY LocalRRLinks
  <2> HIDE DEF rec, rr
  <2>4. CASE UNCHANGED <<heap, target>>
    BY <1>1, <2>2, <2>4 DEF Linked
  <2>5. CASE /\ rec # None /\ Extended(heap'[r], heap[r], <<rr>>)
             /\ pc'[r] = "set" \/ rr.data = target'[r]
    <3>1. /\ <<rr>> \in Seq(RR) /\ Len(<<rr>>) = 1 /\ <<rr>>[1] = rr
      BY <2>1, <2>5
    <3>2. Chain(<<rr>>)
      BY ShortChains
    <3> QED
      BY <2>2, <2>3, <2>5, <3>1, <3>2, ExtendedLinked
  <2> QED
    BY <2>2, <2>3, <2>4, <2>5
<1>5. CASE FinishCNAME(r)
  <2>1. /\ pc[r] = "tail" /\ pc'[r] = "set" /\ fwd[r] # None /\ UNCHANGED <<query, target>>
        /\ \/ fwd[r].st = "ok" /\ Extended(heap'[r], heap[r], fwd[r].msg.ans)
           \/ UNCHANGED heap
    BY <1>5, FinishEffect
  <2>2. CASE UNCHANGED heap
    BY <1>1, <2>1, <2>2 DEF Linked
  <2>3. CASE fwd[r].st = "ok" /\ Extended(heap'[r], heap[r], fwd[r].msg.ans)
    <3> DEFINE rrs == fwd[r].msg.ans
    <3>1. rrs \in Seq(RR)
      BY <2>1, <2>3 DEF ResolvitInv, ServerInv, ForwarderInv, ForwardedBuilt, Msg
    <3>2. \A i \in DOMAIN rrs : rrs[i].name = target[r] /\ rrs[i].type = "A"
      BY <1>1, <2>1, <2>3 DEF Asked, FromUpstream
    <3> HIDE DEF rrs
    <3>3. Chain(rrs) /\ (Len(rrs) > 0 => rrs[1].name = target[r])
      BY <3>1, <3>2, ShortChains
    <3>4. Extended(heap'[r], heap[r], rrs)
      BY <2>3 DEF rrs
    <3> QED
      BY <2>1, <3>1, <3>3, <3>4, ExtendedLinked
  <2> QED
    BY <2>1, <2>2, <2>3
<1>6. CASE Allowlisted(r) \/ Blocklisted(r)
  BY <1>1, <1>6, FilterEffect DEF InPlace, Linked, OwnReply
<1>7. CASE CopyHeader(r)
  <2>1. pc'[r] = "answers" /\ heap'[r].ans = <<>>
    <3>1. pc[r] = "header"
      BY <1>7 DEF CopyHeader, At
    <3> QED
      BY <1>7, <3>1, CopyEffect
  <2> QED
    BY <2>1, ShortChains DEF Linked
<1>8. CASE CopyAnswers(r)
  <2> DEFINE o == hit[r].entry.msg
             m == heap[o]
  <2>1. pc[r] = "answers"
    BY <1>8 DEF CopyAnswers, At
  <2>2. /\ pc'[r] = "write" /\ UNCHANGED <<query, hit>>
        /\ Reanswered(heap'[r], heap[r]) /\ heap'[r].ans = m.ans
    BY <1>8, <2>1, CopyEffect
  <2>3. hit[r] # None /\ heap[r] # None
    BY <2>1, Known
  <2>4. /\ o \in Request /\ m # None /\ Lower(query[o].name) = Lower(query[r].name)
        /\ heap[r].src = m.src
    BY <1>1, <2>3, OriginalAnswers DEF Copied
  <2>5. m.src = "local" =>
          /\ Len(m.ans) > 0 => Lower(m.ans[1].name) = Lower(query[o].name)
          /\ Chain(m.ans)
    BY <2>4 DEF RepliesInv, Replies, Linked
  <2> HIDE DEF m, o
  <2> QED
    BY <2>2, <2>4, <2>5 DEF Linked, Reanswered
<1>9. CASE ForwardReturns(r)
  BY <1>1, Known, <1>9, ReturnEffect DEF InPlace, Linked, OwnReply
<1>10. CASE CacheSet(r)
  BY <1>1, <1>10, SetEffect DEF Linked
<1>11. CASE WriteResponse(r) \/ TrimAnswer(r) \/ WriteMsg(r)
  <2>1. /\ heap[r] # None /\ heap[r] \in Msg /\ UNCHANGED query
        /\ heap'[r].src = heap[r].src /\ pc'[r] \in Responding
    BY <1>11, WriteKeeps DEF Reanswered
  <2>2. \/ heap'[r].ans = heap[r].ans
        \/ /\ Len(heap[r].ans) > 0
           /\ heap'[r].ans = SubSeq(heap[r].ans, 1, Len(heap[r].ans) - 1)
    BY <1>11, WriteEffect
  <2>3. heap[r].ans \in Seq(RR)
    BY <2>1 DEF Msg
  <2>4. Len(heap'[r].ans) > 0 => Len(heap[r].ans) > 0 /\ heap'[r].ans[1] = heap[r].ans[1]
    BY <2>2, <2>3
  <2>5. Chain(heap[r].ans) => Chain(heap'[r].ans)
    BY <2>2, <2>3, ChainCut
  <2> QED
    BY <1>1, <2>1, <2>4, <2>5 DEF Linked, Responding
<1>12. CASE AwaitUpstream(r)
  BY <1>1, <1>12 DEF AwaitUpstream, handlerVars, Linked
<1> QED
  BY <1>2, <1>3, <1>4, <1>5, <1>6, <1>7, <1>8, <1>9, <1>10, <1>11, <1>12 DEF Serve,
     HandleDNSRequest

-----------------------------------------------------------------------------
(* The invariant is inductive *)

\* A handler's step leaves what is said of other handlers true.
LEMMA OthersStep ==
    ASSUME ServerState, NEW r \in Request, Arrive(r) \/ Serve(r), NEW o \in Request, o # r
    PROVE  /\ InPlace(o)' /\ Delivered(o)' /\ Asked(o)' /\ Built(o)'
           /\ Fresh(o)' /\ Filtered(o)' /\ LocalFirst(o)' /\ Tried(o)' /\ Linked(o)'
<1>1. /\ InPlace(o) /\ Delivered(o) /\ Asked(o) /\ Built(o)
      /\ Fresh(o) /\ Filtered(o) /\ LocalFirst(o) /\ Tried(o) /\ Linked(o)
  BY DEF ServerState, RepliesInv, Replies
<1>2. /\ pc'[o] = pc[o] /\ query'[o] = query[o] /\ target'[o] = target[o]
      /\ hit'[o] = hit[o] /\ born'[o] = born[o] /\ out'[o] = out[o]
      /\ heap'[o] = heap[o] /\ fwd'[o] = fwd[o] /\ check'[o] = check[o]
  BY OthersUntouched DEF Elsewhere, ServerState
<1>3. UNCHANGED <<records, gen, reloads>>
  BY DEF Arrive, Serve
<1>4. InPlace(o)' /\ Delivered(o)' /\ Filtered(o)' /\ Tried(o)'
  BY <1>1, <1>2 DEF InPlace, Delivered, Filtered, Tried
<1>5. Asked(o)'
  BY <1>1, <1>2 DEF Asked
<1>6. Built(o)' /\ Linked(o)'
  BY <1>1, <1>2 DEF Built, Answers, TooLarge, Size, Linked
<1>7. Fresh(o)'
  BY <1>1, <1>2, <1>3 DEF Fresh
<1>8. LocalFirst(o)'
  BY <1>1, <1>2, <1>3 DEF LocalFirst, Get
<1> QED
  BY <1>4, <1>5, <1>6, <1>7, <1>8

\* A handler's step keeps the invariant.
LEMMA HandlerKeeps ==
    ASSUME ServerState, ResolvitInv', NEW r \in Request, Arrive(r) \/ Serve(r)
    PROVE  RepliesInv'
<1>1. ASSUME NEW o \in Request PROVE Replies(o)'
  <2>1. HitBacked(o)' /\ Copied(o)'
    BY HitBackedStep, CopiedStep
  <2>2. CASE o = r
    BY <2>1, <2>2, InPlaceStep, DeliveredStep, AskedStep, BuiltStep, FreshStep,
       FilteredStep, LocalFirstStep, TriedStep, LinkedStep DEF Replies
  <2>3. CASE o # r
    BY <2>1, <2>3, OthersStep DEF Replies
  <2> QED
    BY <2>2, <2>3
<1>2. ReloadsCounted'
  <2>1. ReloadsCounted /\ UNCHANGED <<gen, reloads, main>>
    BY DEF Arrive, Serve, ServerState, RepliesInv
  <2> QED
    BY <2>1 DEF ReloadsCounted
<1> QED
  BY <1>1, <1>2, CachedBackedStep DEF RepliesInv

\* So do steps of main, of the refresh goroutine and of the clock, which leave
\* the handlers alone.
LEMMA QuietStep ==
    ASSUME ServerState, UNCHANGED <<heap, fwd, handlerVars, check>>, NEW r \in Request
    PROVE  /\ InPlace(r)' /\ Delivered(r)' /\ Asked(r)' /\ Built(r)' /\ HitBacked(r)'
           /\ Copied(r)' /\ Filtered(r)' /\ Tried(r)' /\ Linked(r)'
<1>1. /\ InPlace(r) /\ Delivered(r) /\ Asked(r) /\ Built(r) /\ HitBacked(r)
      /\ Copied(r) /\ Filtered(r) /\ Tried(r) /\ Linked(r)
  BY DEF ServerState, RepliesInv, Replies
<1> USE DEF handlerVars
<1>2. InPlace(r)' /\ Delivered(r)' /\ Filtered(r)' /\ Tried(r)' /\ Asked(r)'
  BY <1>1 DEF InPlace, Delivered, Filtered, Tried, Asked
<1>3. Built(r)' /\ Linked(r)'
  BY <1>1 DEF Built, Answers, TooLarge, Size, Linked
<1>4. HitBacked(r)' /\ Copied(r)'
  BY <1>1 DEF HitBacked, Backed, Copied
<1> QED
  BY <1>2, <1>3, <1>4

\* Every step of the server keeps the invariant.
LEMMA RepliesNextInv == ServerState /\ ResolvitInv' /\ [Next]_vars => RepliesInv'
<1> SUFFICES ASSUME ServerState, ResolvitInv', [Next]_vars PROVE RepliesInv'
  OBVIOUS
<1>1. /\ \A r \in Request : Fresh(r) /\ LocalFirst(r)
      /\ CachedBacked /\ ReloadsCounted
  BY DEF ServerState, RepliesInv, Replies
<1>2. gen \in Nat /\ reloads \in Nat /\ \A r \in Request : born[r] \in Nat
  BY Functions DEF ServerState, ResolvitInv, ServerInv, StoreInv, RecordsTypeOK, CacheInv,
                   CacheTypeOK
<1>3. ASSUME UNCHANGED <<heap, fwd, handlerVars, check, cache, reloads, records, gen, main>>
      PROVE  RepliesInv'
  <2>1. \A r \in Request : Fresh(r)'
    BY <1>1, <1>3 DEF handlerVars, Fresh
  <2>2. \A r \in Request : LocalFirst(r)'
    <3>1. UNCHANGED <<heap, pc, query, hit, records, gen>>
      BY <1>3 DEF handlerVars
    <3>2. \A n : Get(n)' = Get(n)
      BY <3>1 DEF Get
    <3> QED
      BY <1>1, <3>1, <3>2 DEF LocalFirst
  <2>3. CachedBacked' /\ ReloadsCounted'
    BY <1>1, <1>3 DEF handlerVars, CachedBacked, Backed, ReloadsCounted
  <2> QED
    BY <1>3, <2>1, <2>2, <2>3, QuietStep DEF RepliesInv, Replies
<1>4. CASE LoadRecords
  <2>1. /\ gen' = gen + 1 /\ UNCHANGED <<heap, fwd, handlerVars, check, cache, reloads>>
    BY <1>4 DEF LoadRecords, LoadFromFile, filterVars
  <2>2. gen' # 0 /\ ReloadsCounted'
    BY <1>1, <1>2, <2>1 DEF ReloadsCounted
  <2>3. \A r \in Request : Fresh(r)' /\ LocalFirst(r)'
    BY <1>1, <2>1, <2>2 DEF handlerVars, Fresh, LocalFirst
  <2>4. CachedBacked'
    BY <1>1, <2>1 DEF handlerVars, CachedBacked, Backed
  <2> QED
    BY <2>1, <2>2, <2>3, <2>4, QuietStep DEF RepliesInv, Replies
<1>5. CASE ClearCache
  <2>1. /\ main = "clear" /\ main' = "signal" /\ cache' = <<>> /\ reloads' = gen
        /\ UNCHANGED <<heap, fwd, handlerVars, check, records, gen>>
    BY <1>5 DEF ClearCache, Clear, filterVars
  <2>2. ReloadsCounted'
    BY <1>1, <1>2, <2>1 DEF ReloadsCounted
  <2>3. \A r \in Request : Fresh(r)'
    <3>1. gen >= reloads
      BY <1>1 DEF ReloadsCounted
    <3>2. UNCHANGED <<heap, hit, born>>
      BY <2>1 DEF handlerVars
    <3> QED
      BY <1>1, <1>2, <2>1, <3>1, <3>2 DEF Fresh
  <2>4. \A r \in Request : LocalFirst(r)'
    <3>1. gen # 0 /\ gen' = gen
      BY <1>1, <1>2, <2>1 DEF ReloadsCounted
    <3> QED
      BY <3>1 DEF LocalFirst
  <2>5. CachedBacked'
    BY <2>1 DEF CachedBacked
  <2> QED
    BY <2>1, <2>2, <2>3, <2>4, <2>5, QuietStep DEF RepliesInv, Replies
<1>6. CASE Refresh
  BY <1>3, <1>6 DEF Refresh, LoadOnce, LoadLists, StoreBlocklist, StoreAllowlist
<1>7. CASE PassTime
  BY <1>3, <1>7 DEF PassTime, filterVars
<1>8. CASE UNCHANGED vars
  BY <1>3, <1>8 DEF vars, filterVars
<1> QED
  BY <1>4, <1>5, <1>6, <1>7, <1>8, HandlerKeeps DEF Next

\* It holds when the server starts.
LEMMA RepliesInitInv == Init => RepliesInv
<1> SUFFICES ASSUME Init PROVE RepliesInv
  OBVIOUS
<1>1. ASSUME NEW r \in Request
      PROVE  /\ pc[r] = "idle" /\ hit[r] = None /\ born[r] = 0 /\ out[r] = None
             /\ heap[r] = None /\ fwd[r] = None /\ check[r].st = "none"
  BY HandlerAssumption DEF Init, HandlerInit, CacheInit, ForwarderInit, FilterInit
<1>2. gen = 0 /\ reloads = 0 /\ cache = <<>> /\ main = "signal"
  BY DEF Init, CacheInit, RecordsInit
<1>3. ASSUME NEW r \in Request PROVE Replies(r)
  BY <1>1, <1>2 DEF Replies, InPlace, Delivered, Asked, Built, HitBacked, Copied, Fresh,
                    Filtered, LocalFirst, Tried, Linked
<1> QED
  BY <1>2, <1>3 DEF RepliesInv, CachedBacked, ReloadsCounted

\* The invariant holds in every state the server reaches.
LEMMA StateSafe == Spec => []ServerState
<1>1. Init => AnswersInv
  BY DEF Init, CacheInit, ForwarderInit, HandlerInit, AnswersInv, OnlyAnswersCached,
         OwnersRespond, CacheableKept, ForwardedKept
<1>2. ResolvitInv /\ AnswersInv /\ [Next]_vars => AnswersInv'
  BY AnswersNextInv DEF ResolvitInv
<1>3. ResolvitInv /\ AnswersInv /\ RepliesInv /\ ResolvitInv' /\ [Next]_vars => RepliesInv'
  BY RepliesNextInv DEF ServerState
<1>4. ResolvitInv /\ AnswersInv /\ RepliesInv => ServerState
  BY DEF ServerState
<1> QED
  BY ServerSafe, RepliesInitInv, <1>1, <1>2, <1>3, <1>4, PTL DEF Spec

-----------------------------------------------------------------------------
(* What clients get *)

\* Every reply but FORMERR is the message of its handler.
LEMMA AnsweredFromHeap ==
    ASSUME ServerState, NEW r \in Request, Answered(r)
    PROVE  /\ out[r] = heap[r] /\ heap[r] # None /\ heap[r] \in Msg
           /\ pc[r] = "done"
           /\ InPlace(r) /\ Built(r) /\ HitBacked(r) /\ Copied(r) /\ Fresh(r)
           /\ LocalFirst(r) /\ Linked(r)
<1>1. Replies(r)
  BY DEF ServerState, RepliesInv
<1>2. out[r] = heap[r] /\ heap[r] # None /\ pc[r] = "done"
  BY <1>1 DEF Replies, Delivered, Answered, Sent
<1> QED
  BY <1>1, <1>2 DEF Replies, InPlace

\* Every reply carries the id of its request and answers its question, whoever
\* made the message: a handler takes over a cached message only under the key
\* of its own question, and Copy is followed by setting the id.
THEOREM MatchingSafe == Spec => []RepliesMatchRequests
<1>1. ASSUME ServerState PROVE RepliesMatchRequests
  BY <1>1, AnsweredFromHeap DEF RepliesMatchRequests, Built, Answers
<1> QED
  BY StateSafe, <1>1, PTL

\* UDP replies are within MaxMsgSize as far as taking answers away can do it:
\* the loop of writeResponse ends only when the message, which by then no other
\* goroutine changes, fits.
THEOREM UdpSafe == Spec => []UdpRepliesFit
<1>1. ASSUME ServerState PROVE UdpRepliesFit
  BY <1>1, AnsweredFromHeap DEF UdpRepliesFit, Built
<1> QED
  BY StateSafe, <1>1, PTL

\* TCP replies have every answer that was made for them: nothing cut for a UDP
\* client gets to a TCP client through the cache.
THEOREM TcpSafe == Spec => []TcpRepliesUncut
<1>1. ASSUME ServerState PROVE TcpRepliesUncut
  BY <1>1, AnsweredFromHeap DEF TcpRepliesUncut, Built
<1> QED
  BY StateSafe, <1>1, PTL

\* A reply that is not from the cache has the truncation flag if writeResponse
\* took answers away.
THEOREM CutsSafe == Spec => []CutRepliesFlagged
<1>1. ASSUME ServerState, NEW r \in Request, Answered(r), hit[r] = None,
             Len(out[r].ans) < out[r].made
      PROVE  out[r].tc
  <2>1. out[r] = heap[r] /\ heap[r] # None /\ heap[r] \in Msg /\ Built(r)
    BY <1>1, AnsweredFromHeap
  <2>2. Len(heap[r].ans) # heap[r].made
    BY <1>1, <2>1 DEF Msg
  <2> QED
    BY <1>1, <2>1, <2>2 DEF Built
<1>2. ServerState => CutRepliesFlagged
  BY <1>1 DEF CutRepliesFlagged
<1> QED
  BY StateSafe, <1>2, PTL

\* No hit is later than the TTL of the first answer in the reply allows,
\* whatever the owner of the cached message has since cut from it.
THEOREM HitsSafe == Spec => []HitsWithinTtl
<1>1. ASSUME ServerState PROVE HitsWithinTtl
  BY <1>1, AnsweredFromHeap DEF HitsWithinTtl, Copied
<1> QED
  BY StateSafe, <1>1, PTL

\* An answer from records that were replaced before the request arrived comes
\* from the cache, and was put there by a handler that overlapped the reload.
THEOREM StaleSafe == Spec => []StaleOnlyIfInFlight
<1>1. ASSUME ServerState, NEW r \in Request, Answered(r), out[r].src = "local",
             out[r].gen < born[r]
      PROVE  hit[r] # None /\ born[hit[r].entry.msg] < hit[r].entry.era
  <2>1. /\ out[r] = heap[r] /\ heap[r] # None /\ heap[r] \in Msg
        /\ HitBacked(r) /\ Copied(r) /\ Fresh(r)
    BY <1>1, AnsweredFromHeap
  <2> DEFINE e == hit[r].entry
  <2>2. born[r] \in Nat /\ heap[r].gen \in Nat
    BY <1>1, <2>1, Functions DEF ServerState, Msg
  <2>3. hit[r] # None
    BY <1>1, <2>1, <2>2 DEF Fresh
  <2>4. /\ e \in Entry /\ e.msg \in Request
        /\ e.era \in Nat /\ born[e.msg] \in Nat
    BY <1>1, <2>3, Functions DEF ServerState, Entry
  <2>5. /\ hit[e.msg] = None /\ heap[e.msg] \in Msg /\ e.era >= born[r]
        /\ heap[r].src = heap[e.msg].src /\ heap[r].gen = heap[e.msg].gen
    BY <2>1, <2>3 DEF HitBacked, Backed, Copied
  <2>6. heap[e.msg].gen >= born[e.msg]
    <3>1. Fresh(e.msg)
      BY <1>1, <2>4 DEF ServerState, RepliesInv, Replies
    <3>2. heap[e.msg] # None
      BY <2>5, HandlerAssumption
    <3> QED
      BY <1>1, <2>1, <2>5, <3>1, <3>2 DEF Fresh
  <2> HIDE DEF e
  <2>7. born[e.msg] < e.era
    BY <1>1, <2>1, <2>2, <2>4, <2>5, <2>6
  <2> QED
    BY <2>3, <2>7 DEF e
<1>2. ServerState => StaleOnlyIfInFlight
  BY <1>1 DEF StaleOnlyIfInFlight
<1> QED
  BY StateSafe, <1>2, PTL

\* NXDOMAIN of the filter is what a client gets exactly if the verdict on its
\* question was "blocked", and nothing cached or forwarded goes without the
\* verdict "allowed".
THEOREM FilterFirst == Spec => []NothingBypassesFilter
<1>1. ASSUME ServerState, FilterEnabled, NEW r \in Request
      PROVE  /\ Sent(r) /\ out[r].src = "filter" <=> Sent(r) /\ check[r].st = "blocked"
             /\ hit[r] # None \/ pc[r] = "forward" => check[r].st = "allowed"
  <2>1. Delivered(r) /\ Filtered(r)
    BY <1>1 DEF ServerState, RepliesInv, Replies
  <2>2. ASSUME Sent(r) PROVE out[r].src = "filter" <=> check[r].st = "blocked"
    BY <1>1, <2>1, <2>2 DEF Sent, Delivered, Filtered
  <2>3. hit[r] # None \/ pc[r] = "forward" => check[r].st = "allowed"
    BY <1>1, <2>1 DEF Filtered
  <2> QED
    BY <2>2, <2>3
<1>2. ServerState => NothingBypassesFilter
  BY <1>1 DEF NothingBypassesFilter
<1> QED
  BY StateSafe, <1>2, PTL

\* SERVFAIL is the answer only after every upstream failed, and no upstream is
\* asked before all earlier ones failed.
THEOREM GivingUpSafe == Spec => []GivesUpLast
<1>1. ASSUME ServerState, NEW r \in Request
      PROVE  /\ Sent(r) /\ out[r].src = "servfail" => fwd[r].failed = 1..Upstreams
             /\ fwd[r] # None /\ fwd[r].st # "err" => fwd[r].failed = 1..(fwd[r].srv - 1)
  <2>1. Delivered(r) /\ Tried(r)
    BY <1>1 DEF ServerState, RepliesInv, Replies
  <2> QED
    BY <2>1 DEF Sent, Delivered, Tried
<1>2. ServerState => GivesUpLast
  BY <1>1 DEF GivesUpLast
<1> QED
  BY StateSafe, <1>2, PTL

\* A name with a local record is answered from it, and no other name is: neither
\* the filter nor the cache nor an upstream comes in between.
THEOREM LocalSafe == Spec => []LocalRecordsWin
<1>1. ASSUME ServerState PROVE LocalRecordsWin
  BY <1>1, AnsweredFromHeap DEF LocalRecordsWin, LocalFirst
<1> QED
  BY StateSafe, <1>1, PTL

\* The records of a local answer form a chain from the name asked for, even if
\* the store was reloaded while handleCNAME followed it, and also when the
\* answer is cut or copied from the cache.
THEOREM ChainsSafe == Spec => []ChainsLinked
<1>1. ASSUME ServerState, NEW r \in Request, Sent(r), out[r].src = "local",
             Len(out[r].ans) > 0
      PROVE  /\ Lower(out[r].ans[1].name) = Lower(query[r].name)
             /\ \A i \in 2..Len(out[r].ans) :
                   out[r].ans[i-1].type = "CNAME" => out[r].ans[i].name = out[r].ans[i-1].data
  <2>1. out[r] = heap[r] /\ heap[r] # None /\ Linked(r)
    BY <1>1, AnsweredFromHeap DEF Answered
  <2> QED
    BY <1>1, <2>1 DEF Linked, Chain
<1>2. ServerState => ChainsLinked
  BY <1>1 DEF ChainsLinked
<1> QED
  BY StateSafe, <1>2, PTL

-----------------------------------------------------------------------------
(***************************************************************************)
(* What a message is composed of.  A handler that sends nothing has a      *)
(* message that cannot be packed, and why is only known if the invariant   *)
(* follows every name in an answer back to the CNAME record before it.     *)
(* The same goes for answers that an upstream left out: that a message     *)
(* without the flag begins with an alias has to be known along the chain.  *)
(***************************************************************************)

\* A CNAME record that leads to a name without a wire form.
Unsendable(rr) == rr.type = "CNAME" /\ ~Packable(rr.data)

\* An owner name without a wire form comes after a record that points to it.
Explained(ans) ==
    \A i \in 1..Len(ans) :
        /\ Packable(ans[i].name) \/ \E j \in 1..(i - 1) : Unsendable(ans[j])
        /\ ans[i].type # "CNAME" => ans[i].data \in Address

\* The answers of upstreams, and no answers at all.
Plain(ans) == \A i \in 1..Len(ans) : Packable(ans[i].name) /\ ans[i].data \in Address

AliasFirst(ans) == Len(ans) > 0 => ans[1].type = "CNAME"

Composed(r) ==
    /\ heap[r] # None =>
          /\ Explained(heap[r].ans)
          /\ heap[r].src # "local" => Plain(heap[r].ans)
          /\ heap[r].lost > 0 =>
                heap[r].src = "upstream" \/ (heap[r].src = "local" /\ AliasFirst(heap[r].ans))
    /\ pc[r] \in {"chain", "tail"} =>
          /\ heap[r].ans[Len(heap[r].ans)].type = "CNAME"
          /\ AliasFirst(heap[r].ans)

Packing(r) ==
    /\ Composed(r)
    /\ pc[r] \notin {"idle", "done"} => Packable(query[r].name)
    /\ pc[r] = "done" /\ out[r] = None => heap[r] # None /\ ~CanPack(heap[r])

PackInv == \A r \in Request : Packing(r)

\* What Get finds in the store makes a CNAME record or one with an address.
LEMMA LocalRRPlain ==
    ASSUME RecordsTypeOK, NEW n \in Name, Get(n) # None, NEW m
    PROVE  LET rr == LocalRR(m, Get(n))
           IN  /\ rr.name = m
               /\ rr.type = "CNAME" <=> Get(n).typ = "cname"
               /\ rr.type # "CNAME" => rr.data \in Address
<1>1. Get(n) \in Record
  BY GetType
<1> QED
  BY <1>1 DEF LocalRR, Record

\* Short answers, and those of upstreams, leave nothing to explain.
LEMMA PlainExplained ==
    /\ Explained(<<>>) /\ Plain(<<>>)
    /\ \A s : Plain(s) => Explained(s)
    /\ \A rr : Packable(rr.name) /\ (rr.type # "CNAME" => rr.data \in Address)
                  => Explained(<<rr>>)
  BY DEF Explained, Plain

\* What follows a CNAME record under the name it points to is explained by it.
LEMMA ExplainedExtended ==
    ASSUME NEW s \in Seq(RR), NEW t \in Seq(RR), Explained(s), Len(s) > 0,
           s[Len(s)].type = "CNAME",
           \A i \in 1..Len(t) : /\ t[i].name = s[Len(s)].data
                                /\ t[i].type # "CNAME" => t[i].data \in Address
    PROVE  Explained(s \o t) /\ (AliasFirst(s) => AliasFirst(s \o t))
<1> DEFINE u == s \o t
<1>1. /\ Len(u) = Len(s) + Len(t) /\ Len(s) \in Nat /\ Len(t) \in Nat
      /\ \A i \in 1..Len(s) : u[i] = s[i]
      /\ \A i \in 1..Len(t) : u[Len(s) + i] = t[i]
  OBVIOUS
<1> HIDE DEF u
<1>2. ASSUME NEW i \in 1..Len(u)
      PROVE  /\ Packable(u[i].name) \/ \E j \in 1..(i - 1) : Unsendable(u[j])
             /\ u[i].type # "CNAME" => u[i].data \in Address
  <2>1. CASE i \in 1..Len(s)
    <3>1. u[i] = s[i] /\ \A j \in 1..(i - 1) : u[j] = s[j]
      BY <1>1, <2>1
    <3> QED
      BY <2>1, <3>1 DEF Explained
  <2>2. CASE i \notin 1..Len(s)
    <3>1. PICK k \in 1..Len(t) : i = Len(s) + k
      <4>1. i - Len(s) \in 1..Len(t) /\ i = Len(s) + (i - Len(s))
        BY <1>1, <2>2
      <4> QED
        BY <4>1
    <3>2. u[i] = t[k]
      BY <1>1, <3>1
    <3>3. Len(s) \in 1..Len(s) /\ Len(s) \in 1..(i - 1) /\ u[Len(s)] = s[Len(s)]
      BY <1>1, <3>1
    <3>4. Packable(s[Len(s)].data) \/ Unsendable(s[Len(s)])
      BY DEF Unsendable
    <3> QED
      BY <3>2, <3>3, <3>4
  <2> QED
    BY <2>1, <2>2
<1>3. Explained(u)
  BY <1>2 DEF Explained
<1>4. u[1] = s[1]
  BY <1>1
<1> QED
  BY <1>3, <1>4 DEF u, AliasFirst

\* writeResponse cuts from the end, where nothing is explained by what goes.
LEMMA ExplainedCut ==
    ASSUME NEW s \in Seq(RR), Len(s) > 0
    PROVE  /\ Explained(s) => Explained(SubSeq(s, 1, Len(s) - 1))
           /\ Plain(s) => Plain(SubSeq(s, 1, Len(s) - 1))
           /\ AliasFirst(s) => AliasFirst(SubSeq(s, 1, Len(s) - 1))
<1> DEFINE k == Len(s) - 1
           u == SubSeq(s, 1, k)
<1>1. k \in Nat /\ k =< Len(s) /\ Len(s) \in Nat
  OBVIOUS
<1> HIDE DEF k
<1>2. Len(u) = k /\ \A i \in 1..k : u[i] = s[i]
  BY <1>1
<1> HIDE DEF u
<1>3. \A i \in 1..k : i \in 1..Len(s) /\ \A j \in 1..(i - 1) : j \in 1..k
  BY <1>1
<1>4. (Explained(s) => Explained(u)) /\ (Plain(s) => Plain(u))
  BY <1>2, <1>3 DEF Explained, Plain
<1>5. AliasFirst(s) => AliasFirst(u)
  BY <1>1, <1>2 DEF AliasFirst
<1> QED
  BY <1>4, <1>5 DEF u, k

\* Questions came over the wire.
LEMMA QuestionClean ==
    ASSUME ServerState, PackInv, NEW r \in Request, Arrive(r) \/ Serve(r)
    PROVE  pc'[r] \notin {"idle", "done"} => Packable(query'[r].name)
<1>1. pc[r] \notin {"idle", "done"} => Packable(query[r].name)
  BY DEF PackInv, Packing
<1>2. CASE Receive(r)
  <2>1. query \in [Request -> Query \cup {None}]
    BY Functions DEF ServerState
  <2>2. query'[r] \in Queries
    BY <1>2, <2>1 DEF Receive
  <2> QED
    BY <2>2, HandlerAssumption
<1>3. CASE FormatError(r)
  BY <1>3, Functions DEF FormatError, Goto, ServerState
<1>4. CASE Serve(r)
  <2>1. UNCHANGED query /\ (pc[r] \notin {"idle", "done"} \/ UNCHANGED pc)
    BY <1>4 DEF Serve, HandleDNSRequest, HandleLocalRecord, FollowCNAME, FinishCNAME,
                Allowlisted, Blocklisted, CacheHit, CopyHeader, CopyAnswers, CacheMiss,
                ForwardReturns, CacheSet, WriteResponse, TrimAnswer, WriteMsg,
                AwaitUpstream, handlerVars, At
  <2> QED
    BY <1>1, <2>1
<1> QED
  BY <1>2, <1>3, <1>4 DEF Arrive

\* Silence is for messages that cannot be packed.
LEMMA SilentUnpackable ==
    ASSUME ServerState, PackInv, NEW r \in Request, Arrive(r) \/ Serve(r),
           pc'[r] = "done", out'[r] = None
    PROVE  heap'[r] # None /\ ~CanPack(heap'[r])
<1> USE DEF ServerState
<1>1. pc[r] = "done" /\ out[r] = None => heap[r] # None /\ ~CanPack(heap[r])
  BY DEF PackInv, Packing
<1>2. CASE Arrive(r)
  <2>1. CASE FormatError(r)
    <3> DEFINE m == [id |-> r, question |-> None, rcode |-> "FORMERR", tc |-> FALSE,
                     ans |-> <<>>, rest |-> 0, src |-> "formerr", made |-> 0, lost |-> 0,
                     gen |-> gen]
    <3>1. gen \in Nat /\ <<>> \in Seq(RR)
      BY DEF ResolvitInv, ServerInv, StoreInv, RecordsTypeOK
    <3>2. m \in Msg
      BY <3>1 DEF Msg, Source
    <3>3. out'[r] = m
      BY <2>1, Functions DEF FormatError
    <3> HIDE DEF m
    <3> QED
      BY <3>2, <3>3, HandlerAssumption
  <2>2. CASE Receive(r)
    BY <2>2, Functions DEF Receive, Goto
  <2> QED
    BY <1>2, <2>1, <2>2 DEF Arrive
<1>3. CASE HandleLocalRecord(r) \/ FollowCNAME(r) \/ FinishCNAME(r)
  BY <1>3, LocalEffect, FollowEffect, FinishEffect
<1>4. CASE Allowlisted(r) \/ Blocklisted(r) \/ CacheHit(r) \/ CacheMiss(r)
  BY <1>4, FilterEffect, HitEffect, MissEffect
<1>5. CASE CopyHeader(r) \/ CopyAnswers(r)
  BY <1>5, CopyEffect
<1>6. CASE ForwardReturns(r) \/ CacheSet(r)
  BY <1>6, ReturnEffect, SetEffect
<1>7. CASE WriteResponse(r) \/ TrimAnswer(r) \/ WriteMsg(r)
  <2>1. heap[r] # None
    BY <1>7, WriteKeeps
  <2>2. UNCHANGED heap /\ (out'[r] = heap[r] \/ ~CanPack(heap[r]))
    BY <1>7, WriteEffect
  <2> QED
    BY <2>1, <2>2
<1>8. CASE AwaitUpstream(r)
  BY <1>1, <1>8 DEF AwaitUpstream, handlerVars
<1> QED
  BY <1>2, <1>3, <1>4, <1>5, <1>6, <1>7, <1>8 DEF Serve, HandleDNSRequest

\* Messages: every step of a handler leaves its answers explained.
LEMMA ComposedStep ==
    ASSUME ServerState, PackInv, NEW r \in Request, Arrive(r) \/ Serve(r)
    PROVE  Composed(r)'
<1> USE DEF ServerState
<1>1. /\ InPlace(r) /\ Linked(r) /\ Copied(r) /\ Asked(r) /\ Composed(r)
      /\ pc[r] \notin {"idle", "done"} => Packable(query[r].name)
  BY DEF RepliesInv, Replies, PackInv, Packing
<1>2. RecordsTypeOK
  BY DEF ResolvitInv, ServerInv, StoreInv
<1>3. ASSUME pc'[r] \notin {"chain", "tail"}, heap'[r].ans = <<>>,
             heap'[r].src \in {"local", "upstream"} \/ heap'[r].lost = 0
      PROVE  Composed(r)'
  BY <1>3, PlainExplained DEF Composed, AliasFirst
<1>4. ASSUME heap'[r] = heap[r], pc'[r] \notin {"chain", "tail"} \/ pc[r] \in {"chain", "tail"}
      PROVE  Composed(r)'
  BY <1>1, <1>4 DEF Composed
<1>5. CASE Arrive(r) \/ CacheHit(r) \/ CacheMiss(r) \/ CacheSet(r)
  BY <1>4, <1>5, ArriveEffect, HitEffect, MissEffect, SetEffect
<1>6. CASE HandleLocalRecord(r)
  <2> DEFINE n  == query[r].name
             rr == LocalRR(n, Get(n))
  <2>1. pc[r] = "local"
    BY <1>6 DEF HandleLocalRecord, At
  <2>2. query[r] \in Query
    BY <2>1 DEF ResolvitInv, ServerInv, HandlerInv, QueriesKnown
  <2>3. n \in Name /\ Packable(n)
    BY <1>1, <2>1, <2>2 DEF Query
  <2>4. Get(n) # None =>
          /\ rr.name = n /\ (rr.type = "CNAME" <=> Get(n).typ = "cname")
          /\ rr.type # "CNAME" => rr.data \in Address
    BY <1>2, <2>3, LocalRRPlain
  <2>5. \/ heap'[r] = heap[r] /\ pc'[r] \in {"allow", "cache"}
        \/ pc'[r] = "set" /\ OwnReply(heap'[r], r, "local", <<>>)
        \/ /\ Get(n) # None /\ OwnReply(heap'[r], r, "local", <<rr>>)
           /\ pc'[r] = "set" \/ Get(n).typ = "cname"
    BY <1>6, LocalEffect
  <2> HIDE DEF rr, n
  <2>6. CASE heap'[r] = heap[r] /\ pc'[r] \in {"allow", "cache"}
    BY <1>4, <2>6
  <2>7. CASE pc'[r] = "set" /\ OwnReply(heap'[r], r, "local", <<>>)
    BY <1>3, <2>7 DEF OwnReply
  <2>8. CASE /\ Get(n) # None /\ OwnReply(heap'[r], r, "local", <<rr>>)
             /\ pc'[r] = "set" \/ Get(n).typ = "cname"
    <3>1. heap'[r].ans = <<rr>> /\ heap'[r].src = "local" /\ heap'[r].lost = 0
      BY <2>8 DEF OwnReply
    <3>2. Len(heap'[r].ans) = 1 /\ heap'[r].ans[1] = rr
      BY <3>1
    <3>3. Explained(heap'[r].ans)
      BY <2>3, <2>4, <2>8, <3>1, PlainExplained
    <3> QED
      BY <2>4, <2>8, <3>1, <3>2, <3>3 DEF Composed, AliasFirst
  <2> QED
    BY <2>5, <2>6, <2>7, <2>8
<1>7. ASSUME pc[r] \in {"chain", "tail"}, NEW rrs \in Seq(RR), Extended(heap'[r], heap[r], rrs),
             \A i \in 1..Len(rrs) :
                /\ rrs[i].name = target[r]
                /\ rrs[i].type # "CNAME" => rrs[i].data \in Address,
             pc'[r] \in {"chain", "tail"} => Len(rrs) = 1 /\ rrs[1].type = "CNAME"
      PROVE  Composed(r)'
  <2>1. heap[r] \in Msg /\ heap[r] # None /\ heap[r].src = "local"
    BY <1>7, Known
  <2>2. /\ heap[r].ans \in Seq(RR) /\ Len(heap[r].ans) > 0
        /\ heap[r].ans[Len(heap[r].ans)].data = target[r]
        /\ heap[r].ans[Len(heap[r].ans)].type = "CNAME"
        /\ Explained(heap[r].ans) /\ AliasFirst(heap[r].ans)
    BY <1>1, <1>7, <2>1 DEF Linked, Composed, Msg
  <2>3. heap'[r].ans = heap[r].ans \o rrs /\ heap'[r].src = "local"
    BY <1>7, <2>1 DEF Extended, Reanswered
  <2>4. Explained(heap'[r].ans) /\ AliasFirst(heap'[r].ans)
    BY <1>7, <2>2, <2>3, ExplainedExtended
  <2>5. Len(rrs) = 1 => heap'[r].ans[Len(heap'[r].ans)] = rrs[1]
    BY <2>2, <2>3, LastAppended
  <2> QED
    BY <1>7, <2>3, <2>4, <2>5 DEF Composed
<1>8. CASE FollowCNAME(r)
  <2> DEFINE rec == Get(target[r])
             rr  == LocalRR(target[r], rec)
  <2>1. rec # None => rr \in RR
    BY Functions, GetType, LocalRRType DEF ResolvitInv, ServerInv, StoreInv
  <2>2. /\ pc[r] = "chain"
        /\ \/ UNCHANGED heap
           \/ /\ rec # None /\ Extended(heap'[r], heap[r], <<rr>>)
              /\ pc'[r] = "set" \/ rec.typ = "cname"
    BY <1>8, FollowEffect
  <2>3. rec # None =>
          /\ rr.name = target[r] /\ (rr.type = "CNAME" <=> rec.typ = "cname")
          /\ rr.type # "CNAME" => rr.data \in Address
    BY <1>2, Functions, LocalRRPlain
  <2> HIDE DEF rec, rr
  <2>4. CASE UNCHANGED heap
    BY <1>4, <2>2, <2>4
  <2>5. CASE /\ rec # None /\ Extended(heap'[r], heap[r], <<rr>>)
             /\ pc'[r] = "set" \/ rec.typ = "cname"
    <3>1. /\ <<rr>> \in Seq(RR) /\ Len(<<rr>>) = 1 /\ <<rr>>[1] = rr
          /\ \A i \in 1..Len(<<rr>>) : <<rr>>[i] = rr
      BY <2>1, <2>5
    <3> QED
      BY <1>7, <2>2, <2>3, <2>5, <3>1
  <2> QED
    BY <2>2, <2>4, <2>5
<1>9. CASE FinishCNAME(r)
  <2>1. /\ pc[r] = "tail" /\ pc'[r] = "set" /\ fwd[r] # None
        /\ \/ fwd[r].st = "ok" /\ Extended(heap'[r], heap[r], fwd[r].msg.ans)
           \/ UNCHANGED heap
    BY <1>9, FinishEffect
  <2>2. CASE UNCHANGED heap
    BY <1>4, <2>1, <2>2
  <2>3. CASE fwd[r].st = "ok" /\ Extended(heap'[r], heap[r], fwd[r].msg.ans)
    <3> DEFINE rrs == fwd[r].msg.ans
    <3>1. rrs \in Seq(RR)
      BY <2>1, <2>3 DEF ResolvitInv, ServerInv, ForwarderInv, ForwardedBuilt, Msg
    <3>2. \A i \in DOMAIN rrs : rrs[i].name = target[r] /\ rrs[i].data \in Address
      BY <1>1, <2>1, <2>3 DEF Asked, FromUpstream
    <3>3. Extended(heap'[r], heap[r], rrs)
      BY <2>3
    <3> HIDE DEF rrs
    <3>4. \A i \in 1..Len(rrs) : rrs[i].name = target[r] /\ rrs[i].data \in Address
      BY <3>1, <3>2
    <3> QED
      BY <1>7, <2>1, <3>1, <3>3, <3>4
  <2> QED
    BY <2>1, <2>2, <2>3
<1>10. CASE Allowlisted(r) \/ Blocklisted(r)
  BY <1>3, <1>4, <1>10, FilterEffect DEF OwnReply
<1>11. CASE CopyHeader(r)
  <2>1. pc[r] = "header"
    BY <1>11 DEF CopyHeader, At
  <2>2. heap[hit[r].entry.msg].src \in {"local", "upstream"}
    BY <2>1, Known
  <2>3. /\ pc'[r] = "answers" /\ heap'[r].ans = <<>>
        /\ heap'[r].src = heap[hit[r].entry.msg].src
    BY <1>11, <2>1, CopyEffect
  <2> QED
    BY <1>3, <2>2, <2>3
<1>12. CASE CopyAnswers(r)
  <2> DEFINE o == hit[r].entry.msg
             m == heap[o]
  <2>1. pc[r] = "answers"
    BY <1>12 DEF CopyAnswers, At
  <2>2. /\ pc'[r] = "write" /\ Reanswered(heap'[r], heap[r]) /\ heap'[r].ans = m.ans
        /\ heap'[r].lost = heap[r].lost
    BY <1>12, <2>1, CopyEffect
  <2>3. hit[r] # None /\ heap[r] # None
    BY <2>1, Known
  <2>4. o \in Request /\ m # None /\ heap[r].src = m.src /\ heap[r].lost = m.lost
    BY <1>1, <2>3, OriginalAnswers DEF Copied
  <2>5. /\ Explained(m.ans) /\ (m.src # "local" => Plain(m.ans))
        /\ m.lost > 0 => m.src = "upstream" \/ (m.src = "local" /\ AliasFirst(m.ans))
    BY <2>4 DEF PackInv, Packing, Composed
  <2> HIDE DEF m, o
  <2> QED
    BY <2>2, <2>4, <2>5 DEF Composed, Reanswered
<1>13. CASE ForwardReturns(r)
  <2>1. /\ pc[r] = "forward" /\ fwd[r] # None /\ pc'[r] \in {"set", "write"}
        /\ \/ fwd[r].st = "ok" /\ heap'[r] = fwd[r].msg
           \/ OwnReply(heap'[r], r, "servfail", <<>>)
    BY <1>13, ReturnEffect
  <2>2. CASE fwd[r].st = "ok" /\ heap'[r] = fwd[r].msg
    <3> DEFINE rrs == fwd[r].msg.ans
    <3>1. rrs \in Seq(RR)
      BY <2>1, <2>2 DEF ResolvitInv, ServerInv, ForwarderInv, ForwardedBuilt, Msg
    <3>2. /\ \A i \in DOMAIN rrs : rrs[i].name = query[r].name /\ rrs[i].data \in Address
          /\ fwd[r].msg.src = "upstream"
      BY <1>1, <2>1, <2>2 DEF Asked, FromUpstream
    <3>3. heap'[r].ans = rrs /\ heap'[r].src = "upstream"
      BY <2>2, <3>2
    <3> HIDE DEF rrs
    <3>4. Plain(rrs)
      BY <1>1, <2>1, <3>1, <3>2 DEF Plain
    <3> QED
      BY <2>1, <3>3, <3>4, PlainExplained DEF Composed
  <2>3. CASE OwnReply(heap'[r], r, "servfail", <<>>)
    BY <1>3, <2>1, <2>3 DEF OwnReply
  <2> QED
    BY <2>1, <2>2, <2>3
<1>14. CASE WriteResponse(r) \/ TrimAnswer(r) \/ WriteMsg(r)
  <2>1. /\ heap[r] # None /\ heap[r] \in Msg
        /\ heap'[r].src = heap[r].src /\ heap'[r].lost = heap[r].lost
        /\ pc'[r] \in Responding
    BY <1>14, WriteKeeps DEF Reanswered
  <2>2. \/ heap'[r].ans = heap[r].ans
        \/ /\ Len(heap[r].ans) > 0
           /\ heap'[r].ans = SubSeq(heap[r].ans, 1, Len(heap[r].ans) - 1)
    BY <1>14, WriteEffect
  <2>3. heap[r].ans \in Seq(RR)
    BY <2>1 DEF Msg
  <2>4. /\ Explained(heap[r].ans) => Explained(heap'[r].ans)
        /\ Plain(heap[r].ans) => Plain(heap'[r].ans)
        /\ AliasFirst(heap[r].ans) => AliasFirst(heap'[r].ans)
    BY <2>2, <2>3, ExplainedCut
  <2> QED
    BY <1>1, <2>1, <2>4 DEF Composed, Responding
<1>15. CASE AwaitUpstream(r)
  BY <1>1, <1>15 DEF AwaitUpstream, handlerVars, Composed
<1> QED
  BY <1>5, <1>6, <1>8, <1>9, <1>10, <1>11, <1>12, <1>13, <1>14, <1>15 DEF Serve,
     HandleDNSRequest

\* Every step of the server keeps names traceable.
LEMMA PackNextInv ==
    ASSUME ServerState, PackInv, [Next]_vars
    PROVE  PackInv'
<1>1. ASSUME NEW r \in Request, Arrive(r) \/ Serve(r) PROVE PackInv'
  <2>1. Packing(r)'
    BY <1>1, QuestionClean, SilentUnpackable, ComposedStep DEF Packing
  <2>2. ASSUME NEW o \in Request, o # r PROVE Packing(o)'
    <3>1. /\ pc'[o] = pc[o] /\ query'[o] = query[o] /\ out'[o] = out[o] /\ heap'[o] = heap[o]
      BY <1>1, <2>2, OthersUntouched DEF Elsewhere, ServerState
    <3>2. Packing(o)
      BY DEF PackInv
    <3> QED
      BY <3>1, <3>2 DEF Packing, Composed, CanPack, Size
  <2> QED
    BY <2>1, <2>2 DEF PackInv
<1>2. CASE UNCHANGED <<heap, handlerVars>>
  <2> SUFFICES ASSUME NEW r \in Request PROVE Packing(r)'
    BY DEF PackInv
  <2>1. UNCHANGED <<heap, pc, query, out>> /\ Packing(r)
    BY <1>2 DEF handlerVars, PackInv
  <2> QED
    BY <2>1 DEF Packing, Composed, CanPack, Size
<1>3. CASE LoadRecords \/ ClearCache \/ Refresh \/ PassTime \/ UNCHANGED vars
  BY <1>2, <1>3 DEF LoadRecords, ClearCache, Refresh, PassTime, vars
<1> QED
  BY <1>1, <1>3 DEF Next

\* It holds in every state the server reaches.
LEMMA PackSafe == Spec => []PackInv
<1>1. Init => PackInv
  <2> SUFFICES ASSUME Init, NEW r \in Request PROVE Packing(r)
    BY DEF PackInv
  <2>1. pc[r] = "idle" /\ heap[r] = None
    BY DEF Init, HandlerInit, CacheInit
  <2> QED
    BY <2>1 DEF Packing, Composed
<1>2. ServerState /\ PackInv /\ [Next]_vars => PackInv'
  BY PackNextInv
<1> QED
  BY StateSafe, <1>1, <1>2, PTL DEF Spec

\* What an upstream left out is missing without a word only in replies for a
\* local alias, which take over the answers and not the flag; also when the
\* message went through the cache, or the TCP retry was truncated as well.
THEOREM LostAnswersSafe == Spec => []LostAnswersFlagged
<1>1. ASSUME ServerState, PackInv PROVE LostAnswersFlagged
  <2> SUFFICES ASSUME NEW r \in Request, Answered(r), out[r].lost > 0
               PROVE  \/ out[r].tc
                      \/ out[r].src = "local" /\ AliasFirst(out[r].ans)
    BY DEF LostAnswersFlagged, AliasFirst
  <2>1. out[r] = heap[r] /\ heap[r] # None /\ Built(r)
    BY <1>1, AnsweredFromHeap
  <2>2. Composed(r)
    BY <1>1 DEF PackInv, Packing
  <2> QED
    BY <2>1, <2>2 DEF Built, Composed
<1> QED
  BY StateSafe, PackSafe, <1>1, PTL

\* A client gets no reply for two reasons only: an alias of the records file
\* that leads to a name without a wire form, or a message over the size of the
\* wire.  It need not be the handler that read the record: the answer may come
\* from the cache.  No name that was asked for and nothing an upstream says has
\* this effect, for any records file, any questions and any replies.
THEOREM SilenceSafe == Spec => []SilentOnlyIfUnsendable
<1>1. ASSUME ServerState, PackInv, NEW r \in Request, pc[r] = "done", ~Sent(r)
      PROVE  heap[r] # None /\ (BadTarget(heap[r]) \/ Size(heap[r]) > MaxWireSize)
  <2>1. heap[r] # None /\ ~CanPack(heap[r]) /\ Composed(r)
    BY <1>1 DEF PackInv, Packing, Sent
  <2>2. heap[r] \in Msg
    BY <1>1, <2>1, Functions DEF ServerState
  <2> DEFINE ans == heap[r].ans
  <2>3. /\ ans \in Seq(RR) /\ DOMAIN ans = 1..Len(ans) /\ Len(ans) \in Nat
        /\ Size(heap[r]) \in Nat
    BY <2>2 DEF Msg, Size
  <2>4. CASE Size(heap[r]) > MaxWireSize
    BY <2>1, <2>4
  <2>5. CASE ~(Size(heap[r]) > MaxWireSize)
    <3>1. Size(heap[r]) =< MaxWireSize
      BY <2>3, <2>5, MessageAssumption
    <3>2. PICK i \in 1..Len(ans) :
            ~Packable(ans[i].name) \/ (ans[i].data \notin Address /\ ~Packable(ans[i].data))
      BY <2>1, <2>3, <3>1 DEF CanPack
    <3>3. Explained(ans) /\ (heap[r].src # "local" => Plain(ans))
      BY <2>1 DEF Composed
    <3> HIDE DEF ans
    <3>4. heap[r].src = "local"
      BY <3>2, <3>3 DEF Plain
    <3>5. \E j \in 1..Len(ans) : Unsendable(ans[j])
      <4>1. CASE ~Packable(ans[i].name)
        <5>1. PICK j \in 1..(i - 1) : Unsendable(ans[j])
          BY <3>3, <4>1 DEF Explained
        <5>2. j \in 1..Len(ans)
          BY <2>3, <5>1
        <5> QED
          BY <5>1, <5>2
      <4>2. CASE ans[i].data \notin Address /\ ~Packable(ans[i].data)
        BY <3>3, <4>2 DEF Explained, Unsendable
      <4> QED
        BY <3>2, <4>1, <4>2
    <3> QED
      BY <2>1, <2>3, <3>4, <3>5 DEF ans, BadTarget, Unsendable
  <2> QED
    BY <2>4, <2>5
<1>2. ServerState /\ PackInv => SilentOnlyIfUnsendable
  BY <1>1 DEF SilentOnlyIfUnsendable
<1> QED
  BY StateSafe, PackSafe, <1>2, PTL
=============================================================================
