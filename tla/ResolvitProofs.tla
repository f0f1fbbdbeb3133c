--------------------------- MODULE ResolvitProofs ---------------------------
(***************************************************************************)
(* Type correctness of the running server, safety of its filter and what   *)
(* its cache holds, for any number of requests, any records files, lists,  *)
(* upstream replies and questions: first what the operators return, then   *)
(* an inductive invariant, with a lemma per action.                        *)
(***************************************************************************)
EXTENDS Resolvit, FilterProofs, RecordsProofs

-----------------------------------------------------------------------------
(* Messages *)

\* The record that handleA and handleCNAME make of an entry of the store.
LEMMA LocalRRType ==
    ASSUME NEW n \in Name, NEW rec \in Record PROVE LocalRR(n, rec) \in RR
<1>1. CASE rec.typ = "cname"
  <2>1. rec.content \in Text
    BY <1>1 DEF Record
  <2>2. WithDot(rec.content) \in Name
    BY <2>1, WithDotType
  <2> QED
    BY <1>1, <2>2, HandlerAssumption DEF LocalRR, RR
<1>2. CASE rec.typ # "cname"
  <2>1. rec.content \in Address
    BY <1>2 DEF Record
  <2> QED
    BY <1>2, <2>1, HandlerAssumption, MessageAssumption DEF LocalRR, RR
<1> QED
  BY <1>1, <1>2

\* append(msg.Answer, rrs...) yields a message.
LEMMA AddAnswersType ==
    ASSUME NEW m \in Msg, NEW rrs \in Seq(RR) PROVE AddAnswers(m, rrs) \in Msg
<1>1. m.ans \in Seq(RR) /\ m.made \in Nat
  BY DEF Msg
<1>2. m.ans \o rrs \in Seq(RR) /\ m.made + Len(rrs) \in Nat
  BY <1>1
<1> QED
  BY <1>2 DEF AddAnswers, Msg

\* SetReply and SetRcode of a question yield a message.
LEMMA SetRcodeType ==
    ASSUME NEW r \in Request, query[r] \in Query, gen \in Nat,
           NEW rcode \in {"NOERROR", "NXDOMAIN", "SERVFAIL"}, NEW src \in Source
    PROVE  SetRcode(r, rcode, src) \in Msg
<1>1. QuestionOf(query[r]) \in Question
  BY DEF QuestionOf, Question, Query
<1> QED
  BY <1>1 DEF SetRcode, Msg

\* What an upstream sends is a message.
LEMMA UpstreamMsgType ==
    ASSUME NEW r \in Request, fwd[r].q \in Query, NEW w \in Reply
    PROVE  UpstreamMsg(r, w) \in Msg
<1> DEFINE q == fwd[r].q
           ans == [i \in DOMAIN w.ttls |->
                     [name |-> q.name, type |-> q.qtype, data |-> Remote, ttl |-> w.ttls[i]]]
<1>1. w \in [rcode : {"NOERROR", "NXDOMAIN", "SERVFAIL"}, ttls : Seq(Nat), rest : Nat]
  BY ForwarderAssumption
<1>2. ans \in Seq(RR)
  <2>1. \A i \in 1..Len(w.ttls) : w.ttls[i] \in Nat
    BY <1>1
  <2>2. \A i \in 1..Len(w.ttls) : ans[i] \in RR
    BY <1>1, <2>1, ForwarderAssumption DEF RR, Query
  <2> HIDE DEF ans
  <2>3. ans = [i \in 1..Len(w.ttls) |-> ans[i]] /\ Len(w.ttls) \in Nat
    BY <1>1 DEF ans
  <2> QED
    BY <2>2, <2>3
<1>3. QuestionOf(q) \in Question
  BY DEF QuestionOf, Question, Query
<1>4. UpstreamMsg(r, w) =
        [id |-> r, question |-> QuestionOf(q), rcode |-> w.rcode, tc |-> FALSE,
         ans |-> ans, rest |-> w.rest, src |-> "upstream", made |-> Len(w.ttls),
         lost |-> 0, gen |-> 0]
  BY DEF UpstreamMsg
<1> HIDE DEF ans, q
<1> QED
  BY <1>1, <1>2, <1>3, <1>4 DEF Msg, Source

\* So is what it sends truncated.
LEMMA CutToType ==
    ASSUME NEW m \in Msg, NEW n \in 0..(Len(m.ans) - 1) PROVE CutTo(m, n) \in Msg
<1>1. m.ans \in Seq(RR)
  BY DEF Msg
<1>2. SubSeq(m.ans, 1, n) \in Seq(RR) /\ n \in Nat /\ Len(m.ans) - n \in Nat
  BY <1>1
<1> QED
  BY <1>2 DEF CutTo, Msg

-----------------------------------------------------------------------------
(***************************************************************************)
(* TypeOK is not inductive: a step that changes or copies a message has to *)
(* find one.  The invariant adds where handlers have their question and    *)
(* their message, and that what the cache and a hit refer to was built.    *)
(***************************************************************************)
QueriesKnown ==
    \A r \in Request : pc[r] \notin {"idle", "done"} => query[r] \in Query

MessagesBuilt ==
    \A r \in Request :
        pc[r] \in {"chain", "tail", "set", "write", "trim", "send", "answers"} =>
            heap[r] \in Msg

CachedBuilt == \A k \in DOMAIN cache : heap[cache[k].msg] \in Msg

HitsBuilt ==
    \A r \in Request : pc[r] \in {"header", "answers"} =>
        hit[r] \in [entry : Entry, at : Nat] /\ heap[hit[r].entry.msg] \in Msg

ForwardedBuilt ==
    \A r \in Request : fwd[r] # None /\ fwd[r].st \in {"tcp", "ok"} =>
        fwd[r].msg \in Msg

StoreInv == RecordsTypeOK /\ main \in {"signal", "clear"}

CacheInv == CacheTypeOK /\ CachedBuilt

ForwarderInv == ForwarderTypeOK /\ ForwardedBuilt

HandlerInv == HandlerTypeOK /\ QueriesKnown /\ MessagesBuilt /\ HitsBuilt

ServerInv == StoreInv /\ CacheInv /\ ForwarderInv /\ HandlerInv

\* The invariant holds when the server starts: the records are loaded, the
\* cache is empty and no request has arrived.
LEMMA ServerInitInv == Init => ServerInv
<1> SUFFICES ASSUME Init PROVE ServerInv
  OBVIOUS
<1>1. StoreInv
  BY LoadedType, ResolvitAssumption DEF Init, RecordsInit, StoreInv, RecordsTypeOK
<1>2. CacheInv
  BY DEF Init, CacheInit, CacheInv, CacheTypeOK, CachedBuilt
<1>3. ForwarderInv
  BY DEF Init, ForwarderInit, ForwarderInv, ForwarderTypeOK, ForwardedBuilt
<1>4. <<>> \in Name
  BY DEF Name
<1>5. HandlerInv
  BY <1>4 DEF Init, HandlerInit, HandlerInv, HandlerTypeOK, Place, QueriesKnown,
              MessagesBuilt, HitsBuilt
<1> QED
  BY <1>1, <1>2, <1>3, <1>5 DEF ServerInv

-----------------------------------------------------------------------------
(* What the steps of handlers have in common. *)

\* A handler may replace its message by another one at any time.
LEMMA HeapStep ==
    ASSUME ServerInv, NEW r \in Request, NEW m \in Msg,
           heap' = [heap EXCEPT ![r] = m], UNCHANGED <<cache, now, reloads>>
    PROVE  /\ CacheInv'
           /\ heap'[r] = m
           /\ \A o \in Request : heap[o] \in Msg => heap'[o] \in Msg
<1>1. heap \in [Request -> Msg \cup {None}]
  BY DEF ServerInv, CacheInv, CacheTypeOK
<1>2. \A o \in Request : heap'[o] = IF o = r THEN m ELSE heap[o]
  BY <1>1
<1>3. heap' \in [Request -> Msg \cup {None}]
  BY <1>1
<1>4. \A k \in DOMAIN cache : cache[k].msg \in Request
  BY DEF ServerInv, CacheInv, CacheTypeOK, Entry
<1>5. CachedBuilt'
  BY <1>2, <1>4 DEF ServerInv, CacheInv, CachedBuilt
<1>6. CacheTypeOK'
  BY <1>3 DEF ServerInv, CacheInv, CacheTypeOK
<1> QED
  BY <1>2, <1>5, <1>6 DEF CacheInv

\* A handler moves on: its question stays, and it has a message where it needs one.
LEMMA PcStep ==
    ASSUME ServerInv, NEW r \in Request, NEW p \in Place,
           pc[r] \notin {"idle", "done"},
           pc' = [pc EXCEPT ![r] = p], UNCHANGED <<query, hit, born, out>>,
           target' \in [Request -> Name],
           \A o \in Request : heap[o] \in Msg => heap'[o] \in Msg,
           p \in {"chain", "tail", "set", "write", "trim", "send", "answers"}
               => heap'[r] \in Msg,
           p # "header", p = "answers" => pc[r] = "header"
    PROVE  HandlerInv'
<1> USE DEF ServerInv, HandlerInv
<1>1. \A o \in Request : pc'[o] = IF o = r THEN p ELSE pc[o]
  BY DEF HandlerTypeOK
<1>2. HandlerTypeOK'
  BY DEF HandlerTypeOK
<1>3. QueriesKnown'
  BY <1>1 DEF QueriesKnown
<1>4. MessagesBuilt'
  BY <1>1 DEF MessagesBuilt
<1>5. HitsBuilt'
  <2> SUFFICES ASSUME NEW o \in Request, pc'[o] \in {"header", "answers"}
               PROVE  hit[o] \in [entry : Entry, at : Nat] /\ heap'[hit[o].entry.msg] \in Msg
    BY DEF HitsBuilt
  <2>1. pc[o] \in {"header", "answers"}
    BY <1>1
  <2>2. hit[o] \in [entry : Entry, at : Nat] /\ heap[hit[o].entry.msg] \in Msg
    BY <2>1 DEF HitsBuilt
  <2>3. hit[o].entry.msg \in Request
    BY <2>2 DEF Entry
  <2> QED
    BY <2>2, <2>3
<1> QED
  BY <1>2, <1>3, <1>4, <1>5

\* Where nothing but pc and out changes.
LEMMA NoHeapStep ==
    ASSUME ServerInv, UNCHANGED <<heap, cache, now, reloads>>
    PROVE  CacheInv' /\ \A o \in Request : heap[o] \in Msg => heap'[o] \in Msg
  BY DEF ServerInv, CacheInv, CacheTypeOK, CachedBuilt

\* A handler moves on and leaves everything else alone.
LEMMA MoveStep ==
    ASSUME ServerInv, NEW r \in Request, NEW p \in Place,
           pc[r] \notin {"idle", "done"}, pc' = [pc EXCEPT ![r] = p],
           UNCHANGED <<query, target, hit, born, out, heap, cache, now, reloads>>,
           p \in {"chain", "tail", "set", "write", "trim", "send", "answers"}
               => heap[r] \in Msg,
           p \notin {"header", "answers"}
    PROVE  CacheInv' /\ HandlerInv'
<1>1. CacheInv' /\ \A o \in Request : heap[o] \in Msg => heap'[o] \in Msg
  BY NoHeapStep
<1>2. target' \in [Request -> Name]
  BY DEF ServerInv, HandlerInv, HandlerTypeOK
<1> QED
  BY <1>1, <1>2, PcStep

\* A handler replaces its message and moves on.
LEMMA RewriteStep ==
    ASSUME ServerInv, NEW r \in Request, NEW m \in Msg, NEW p \in Place,
           pc[r] \notin {"idle", "done"}, pc' = [pc EXCEPT ![r] = p],
           heap' = [heap EXCEPT ![r] = m], target' \in [Request -> Name],
           UNCHANGED <<query, hit, born, out, cache, now, reloads>>,
           p # "header", p = "answers" => pc[r] = "header"
    PROVE  CacheInv' /\ HandlerInv'
<1>1. /\ CacheInv' /\ heap'[r] = m
      /\ \A o \in Request : heap[o] \in Msg => heap'[o] \in Msg
  BY HeapStep
<1> QED
  BY <1>1, PcStep

\* Steps outside pkg/forward leave the calls of Forward alone.
LEMMA ForwarderSame ==
    ASSUME ServerInv, UNCHANGED fwd PROVE ForwarderInv'
  BY DEF ServerInv, ForwarderInv, ForwarderTypeOK, ForwardedBuilt

\* Forward begins with the first of at least one upstream.
LEMMA ForwardStep ==
    ASSUME ServerInv, NEW r \in Request, NEW q \in Query, Forward(r, q)
    PROVE  ForwarderInv'
<1> DEFINE call == [st |-> "udp", q |-> q, srv |-> 1, msg |-> None, failed |-> {}]
<1>1. call \in Call
  BY ForwarderAssumption DEF Call
<1>2. fwd' = [fwd EXCEPT ![r] = call] /\ call.st = "udp"
  BY DEF Forward
<1> HIDE DEF call
<1>3. fwd \in [Request -> Call \cup {None}]
  BY DEF ServerInv, ForwarderInv, ForwarderTypeOK
<1>4. \A o \in Request : fwd'[o] = IF o = r THEN call ELSE fwd[o]
  BY <1>2, <1>3
<1>5. ForwarderTypeOK'
  BY <1>1, <1>2, <1>3 DEF ForwarderTypeOK
<1>6. ForwardedBuilt'
  BY <1>2, <1>4 DEF ServerInv, ForwarderInv, ForwardedBuilt
<1> QED
  BY <1>5, <1>6 DEF ForwarderInv

-----------------------------------------------------------------------------
(* One lemma per action of a handler *)

\* A request arrives and brings its question.
LEMMA ReceiveInv ==
    ASSUME ServerInv, NEW r \in Request, Receive(r), UNCHANGED <<now, reloads>>
    PROVE  CacheInv' /\ ForwarderInv' /\ HandlerInv'
<1>1. CacheInv' /\ ForwarderInv'
  BY NoHeapStep, ForwarderSame DEF Receive
<1>2. PICK q \in Queries : query' = [query EXCEPT ![r] = q]
  BY DEF Receive
<1>3. q \in Query
  BY HandlerAssumption
<1> USE DEF ServerInv, HandlerInv, CacheInv
<1>4. /\ pc' = [pc EXCEPT ![r] = "local"] /\ born' = [born EXCEPT ![r] = reloads]
      /\ UNCHANGED <<target, hit, out, heap>>
  BY DEF Receive, Goto
<1>5. HandlerTypeOK'
  BY <1>2, <1>3, <1>4 DEF HandlerTypeOK, CacheTypeOK, Place
<1>6. /\ \A o \in Request : pc'[o] = IF o = r THEN "local" ELSE pc[o]
      /\ \A o \in Request : query'[o] = IF o = r THEN q ELSE query[o]
  BY <1>2, <1>4 DEF HandlerTypeOK
<1>7. QueriesKnown'
  BY <1>3, <1>6 DEF QueriesKnown
<1>8. MessagesBuilt' /\ HitsBuilt'
  BY <1>4, <1>6 DEF MessagesBuilt, HitsBuilt
<1> QED
  BY <1>1, <1>5, <1>7, <1>8

\* A request without a question is answered at once.
LEMMA FormatErrorInv ==
    ASSUME ServerInv, NEW r \in Request, FormatError(r), UNCHANGED <<now, reloads>>
    PROVE  CacheInv' /\ ForwarderInv' /\ HandlerInv'
<1> DEFINE m == [id |-> r, question |-> None, rcode |-> "FORMERR", tc |-> FALSE,
                 ans |-> <<>>, rest |-> 0, src |-> "formerr", made |-> 0, lost |-> 0,
                 gen |-> gen]
<1>1. CacheInv' /\ ForwarderInv'
  BY NoHeapStep, ForwarderSame DEF FormatError
<1>2. m \in Msg
  BY DEF Msg, Source, ServerInv, StoreInv, RecordsTypeOK
<1>3. /\ pc' = [pc EXCEPT ![r] = "done"] /\ out' = [out EXCEPT ![r] = m]
      /\ UNCHANGED <<query, target, hit, born, heap>>
  BY DEF FormatError, Goto
<1> HIDE DEF m
<1> USE DEF ServerInv, HandlerInv
<1>4. HandlerTypeOK'
  BY <1>2, <1>3 DEF HandlerTypeOK, Place
<1>5. \A o \in Request : pc'[o] = IF o = r THEN "done" ELSE pc[o]
  BY <1>3 DEF HandlerTypeOK
<1>6. QueriesKnown' /\ MessagesBuilt' /\ HitsBuilt'
  BY <1>3, <1>5 DEF QueriesKnown, MessagesBuilt, HitsBuilt
<1> QED
  BY <1>1, <1>4, <1>6

\* handleLocalRecord builds a message if the store has a record.
LEMMA HandleLocalRecordInv ==
    ASSUME ServerInv, NEW r \in Request, HandleLocalRecord(r), UNCHANGED <<now, reloads>>
    PROVE  CacheInv' /\ ForwarderInv' /\ HandlerInv'
<1> DEFINE q     == query[r]
           rec   == Get(q.name)
           reply == SetRcode(r, "NOERROR", "local")
           more  == AddAnswers(reply, <<LocalRR(q.name, rec)>>)
<1>1. ForwarderInv'
  BY ForwarderSame DEF HandleLocalRecord
<1>2. /\ pc[r] = "local" /\ pc \in [Request -> Place] /\ target \in [Request -> Name]
      /\ UNCHANGED <<query, hit, born, out, cache>>
  BY DEF HandleLocalRecord, At, ServerInv, HandlerInv, HandlerTypeOK
<1>3. q \in Query /\ q.name \in Name
  BY <1>2 DEF ServerInv, HandlerInv, QueriesKnown, Query
<1>4. rec \in Record \cup {None}
  BY <1>3, GetType DEF ServerInv, StoreInv
<1>5. reply \in Msg
  BY <1>3, SetRcodeType DEF Source, ServerInv, StoreInv, RecordsTypeOK
<1>6. rec # None => more \in Msg
  <2> SUFFICES ASSUME rec # None PROVE more \in Msg
    OBVIOUS
  <2>1. LocalRR(q.name, rec) \in RR
    BY <1>3, <1>4, LocalRRType
  <2>2. <<LocalRR(q.name, rec)>> \in Seq(RR)
    BY <2>1
  <2> QED
    BY <1>5, <2>2, AddAnswersType
<1>7. \/ /\ rec = None
         /\ pc' = [pc EXCEPT ![r] = IF FilterEnabled THEN "allow" ELSE "cache"]
         /\ UNCHANGED <<heap, target>>
      \/ /\ rec # None
         /\ heap' = [heap EXCEPT ![r] = IF q.qtype = "A" THEN more ELSE reply]
         /\ pc' = [pc EXCEPT ![r] = "set"]
         /\ UNCHANGED target
      \/ /\ rec # None /\ rec.typ = "cname"
         /\ heap' = [heap EXCEPT ![r] = more]
         /\ target' = [target EXCEPT ![r] = WithDot(rec.content)]
         /\ pc' = [pc EXCEPT ![r] = "chain"]
  BY DEF HandleLocalRecord, Goto
<1> HIDE DEF q, rec, reply, more
<1>8. CASE rec = None /\ UNCHANGED <<heap, target>>
           /\ pc' = [pc EXCEPT ![r] = IF FilterEnabled THEN "allow" ELSE "cache"]
  <2> DEFINE p == IF FilterEnabled THEN "allow" ELSE "cache"
  <2>1. p \in Place /\ p \in {"allow", "cache"} /\ pc' = [pc EXCEPT ![r] = p]
    BY <1>8 DEF Place
  <2> HIDE DEF p
  <2> QED
    BY <1>1, <1>2, <1>8, <2>1, MoveStep
<1>9. CASE rec # None /\ UNCHANGED target /\ pc' = [pc EXCEPT ![r] = "set"]
           /\ heap' = [heap EXCEPT ![r] = IF q.qtype = "A" THEN more ELSE reply]
  <2> DEFINE m == IF q.qtype = "A" THEN more ELSE reply
  <2>1. m \in Msg /\ heap' = [heap EXCEPT ![r] = m] /\ "set" \in Place
    BY <1>5, <1>6, <1>9 DEF Place
  <2> HIDE DEF m
  <2> QED
    BY <1>1, <1>2, <1>9, <2>1, RewriteStep
<1>10. CASE rec # None /\ rec.typ = "cname" /\ heap' = [heap EXCEPT ![r] = more]
            /\ target' = [target EXCEPT ![r] = WithDot(rec.content)]
            /\ pc' = [pc EXCEPT ![r] = "chain"]
  <2>1. WithDot(rec.content) \in Name
    BY <1>4, <1>10, WithDotType DEF Record
  <2>2. target' \in [Request -> Name] /\ "chain" \in Place
    BY <1>2, <1>10, <2>1 DEF Place
  <2> QED
    BY <1>1, <1>2, <1>6, <1>10, <2>2, RewriteStep
<1> QED
  BY <1>7, <1>8, <1>9, <1>10

\* One turn of the loop of handleCNAME adds a record or asks the upstreams for
\* the end of the chain.
LEMMA FollowCNAMEInv ==
    ASSUME ServerInv, NEW r \in Request, FollowCNAME(r), UNCHANGED <<now, reloads>>
    PROVE  CacheInv' /\ ForwarderInv' /\ HandlerInv'
<1> DEFINE n   == target[r]
           rec == Get(n)
           q   == [name |-> n, qtype |-> "A", class |-> "IN", proto |-> "udp"]
           m   == AddAnswers(heap[r], <<LocalRR(n, rec)>>)
<1>1. /\ pc[r] = "chain" /\ pc \in [Request -> Place] /\ target \in [Request -> Name]
      /\ heap \in [Request -> Msg \cup {None}] /\ heap[r] \in Msg /\ n \in Name
      /\ UNCHANGED <<query, hit, born, out, cache>>
  BY DEF FollowCNAME, At, ServerInv, HandlerInv, HandlerTypeOK, CacheInv, CacheTypeOK,
         MessagesBuilt
<1>2. rec \in Record \cup {None}
  BY <1>1, GetType DEF ServerInv, StoreInv
<1>3. q \in Query
  BY <1>1, MessageAssumption DEF Query, Proto
<1>4. rec # None => m \in Msg
  <2> SUFFICES ASSUME rec # None PROVE m \in Msg
    OBVIOUS
  <2>1. LocalRR(n, rec) \in RR
    BY <1>1, <1>2, LocalRRType
  <2>2. <<LocalRR(n, rec)>> \in Seq(RR)
    BY <2>1
  <2> QED
    BY <1>1, <2>2, AddAnswersType
<1>5. \/ /\ rec = None /\ Forward(r, q)
         /\ pc' = [pc EXCEPT ![r] = "tail"] /\ UNCHANGED <<heap, target>>
      \/ /\ rec # None /\ rec.typ = "cname"
         /\ heap' = [heap EXCEPT ![r] = m]
         /\ target' = [target EXCEPT ![r] = WithDot(rec.content)]
         /\ UNCHANGED <<pc, fwd>>
      \/ /\ rec # None
         /\ heap' = [heap EXCEPT ![r] = m]
         /\ pc' = [pc EXCEPT ![r] = "set"] /\ UNCHANGED <<target, fwd>>
  BY <1>1 DEF FollowCNAME, Goto
<1>6. {"tail", "chain", "set"} \subseteq Place
  BY DEF Place
<1> HIDE DEF n, rec, q, m
<1>7. CASE /\ Forward(r, q)
           /\ pc' = [pc EXCEPT ![r] = "tail"] /\ UNCHANGED <<heap, target>>
  BY <1>1, <1>3, <1>6, <1>7, ForwardStep, MoveStep
<1>8. CASE /\ rec # None /\ rec.typ = "cname"
           /\ heap' = [heap EXCEPT ![r] = m]
           /\ target' = [target EXCEPT ![r] = WithDot(rec.content)]
           /\ UNCHANGED <<pc, fwd>>
  <2>1. WithDot(rec.content) \in Name
    BY <1>2, <1>8, WithDotType DEF Record
  <2>2. target' \in [Request -> Name] /\ pc' = [pc EXCEPT ![r] = "chain"]
    BY <1>1, <1>8, <2>1
  <2> QED
    BY <1>1, <1>4, <1>6, <1>8, <2>2, ForwarderSame, RewriteStep
<1>9. CASE /\ rec # None
           /\ heap' = [heap EXCEPT ![r] = m]
           /\ pc' = [pc EXCEPT ![r] = "set"] /\ UNCHANGED <<target, fwd>>
  BY <1>1, <1>4, <1>6, <1>9, ForwarderSame, RewriteStep
<1> QED
  BY <1>5, <1>7, <1>8, <1>9

\* handleCNAME takes over the answers of a reply that was received.
LEMMA FinishCNAMEInv ==
    ASSUME ServerInv, NEW r \in Request, FinishCNAME(r), UNCHANGED <<now, reloads>>
    PROVE  CacheInv' /\ ForwarderInv' /\ HandlerInv'
<1> DEFINE m == [AddAnswers(heap[r], fwd[r].msg.ans) EXCEPT !.lost = fwd[r].msg.lost]
<1>1. /\ pc[r] = "tail" /\ target \in [Request -> Name]
      /\ heap \in [Request -> Msg \cup {None}] /\ heap[r] \in Msg
      /\ pc' = [pc EXCEPT ![r] = "set"] /\ fwd[r] # None
      /\ UNCHANGED <<query, target, hit, born, out, cache, fwd>>
  BY DEF FinishCNAME, At, Goto, Returned, ServerInv, HandlerInv, HandlerTypeOK, CacheInv,
         CacheTypeOK, MessagesBuilt
<1>2. "set" \in Place
  BY DEF Place
<1>3. CASE fwd[r].st = "ok"
  <2>1. fwd[r].msg \in Msg
    BY <1>1, <1>3 DEF ServerInv, ForwarderInv, ForwardedBuilt
  <2>2. fwd[r].msg.ans \in Seq(RR) /\ fwd[r].msg.lost \in Nat
    BY <2>1 DEF Msg
  <2>3. AddAnswers(heap[r], fwd[r].msg.ans) \in Msg
    BY <1>1, <2>2, AddAnswersType
  <2>4. m \in Msg
    BY <2>2, <2>3 DEF Msg
  <2>5. heap' = [heap EXCEPT ![r] = m]
    BY <1>1, <1>3 DEF FinishCNAME
  <2> HIDE DEF m
  <2> QED
    BY <1>1, <1>2, <2>4, <2>5, ForwarderSame, RewriteStep
<1>4. CASE fwd[r].st # "ok"
  <2>1. UNCHANGED heap
    BY <1>4 DEF FinishCNAME
  <2> QED
    BY <1>1, <1>2, <2>1, ForwarderSame, MoveStep
<1> QED
  BY <1>3, <1>4

\* The read of the allowlist decides where the handler goes, and no more.
LEMMA AllowlistedInv ==
    ASSUME ServerInv, NEW r \in Request, Allowlisted(r), UNCHANGED <<now, reloads>>
    PROVE  CacheInv' /\ ForwarderInv' /\ HandlerInv'
<1>1. PICK p \in {"cache", "block"} : pc' = [pc EXCEPT ![r] = p]
  BY DEF Allowlisted, Goto
<1>2. /\ pc[r] = "allow" /\ p \in Place
      /\ UNCHANGED <<query, target, hit, born, out, heap, cache, fwd>>
  BY DEF Allowlisted, At, Place
<1> QED
  BY <1>1, <1>2, ForwarderSame, MoveStep

\* The read of the blocklist makes the NXDOMAIN of a blocked name.
LEMMA BlocklistedInv ==
    ASSUME ServerInv, NEW r \in Request, Blocklisted(r), UNCHANGED <<now, reloads>>
    PROVE  CacheInv' /\ ForwarderInv' /\ HandlerInv'
<1> DEFINE m == SetRcode(r, "NXDOMAIN", "filter")
<1>1. /\ pc[r] = "block" /\ target' \in [Request -> Name]
      /\ UNCHANGED <<query, target, hit, born, out, cache, fwd>>
  BY DEF Blocklisted, At, ServerInv, HandlerInv, HandlerTypeOK
<1>2. m \in Msg
  BY <1>1, SetRcodeType DEF Source, ServerInv, StoreInv, RecordsTypeOK, HandlerInv,
                            QueriesKnown
<1>3. \/ heap' = [heap EXCEPT ![r] = m] /\ pc' = [pc EXCEPT ![r] = "write"]
      \/ UNCHANGED heap /\ pc' = [pc EXCEPT ![r] = "cache"]
  BY DEF Blocklisted, Goto
<1>4. {"write", "cache"} \subseteq Place
  BY DEF Place
<1> HIDE DEF m
<1>5. CASE heap' = [heap EXCEPT ![r] = m] /\ pc' = [pc EXCEPT ![r] = "write"]
  BY <1>1, <1>2, <1>4, <1>5, ForwarderSame, RewriteStep
<1>6. CASE UNCHANGED heap /\ pc' = [pc EXCEPT ![r] = "cache"]
  BY <1>1, <1>4, <1>6, ForwarderSame, MoveStep
<1> QED
  BY <1>3, <1>5, <1>6

\* The entry checkCache gets refers to a message that was built: what the
\* cache holds is never dangling.
LEMMA CacheHitInv ==
    ASSUME ServerInv, NEW r \in Request, CacheHit(r), UNCHANGED <<now, reloads>>
    PROVE  CacheInv' /\ ForwarderInv' /\ HandlerInv'
<1> DEFINE k == cacheKeyFor(query[r])
           h == [entry |-> cache[k], at |-> now]
<1>1. CacheInv' /\ ForwarderInv'
  BY NoHeapStep, ForwarderSame DEF CacheHit
<1>2. /\ pc[r] = "cache" /\ k \in DOMAIN cache
      /\ hit' = [hit EXCEPT ![r] = h] /\ pc' = [pc EXCEPT ![r] = "header"]
      /\ UNCHANGED <<query, target, born, out, heap>>
  BY DEF CacheHit, At, Goto, Found
<1>3. h \in [entry : Entry, at : Nat] /\ heap[h.entry.msg] \in Msg
  BY <1>2 DEF ServerInv, CacheInv, CacheTypeOK, CachedBuilt
<1> HIDE DEF h, k
<1> USE DEF ServerInv, HandlerInv
<1>4. HandlerTypeOK'
  BY <1>2, <1>3 DEF HandlerTypeOK, Place
<1>5. /\ \A o \in Request : pc'[o] = IF o = r THEN "header" ELSE pc[o]
      /\ \A o \in Request : hit'[o] = IF o = r THEN h ELSE hit[o]
  BY <1>2 DEF HandlerTypeOK
<1>6. QueriesKnown' /\ MessagesBuilt'
  BY <1>2, <1>5 DEF QueriesKnown, MessagesBuilt
<1>7. HitsBuilt'
  BY <1>2, <1>3, <1>5 DEF HitsBuilt
<1> QED
  BY <1>1, <1>4, <1>6, <1>7

\* Copy makes a message of the cached one, whatever its owner has done to it.
LEMMA CopyHeaderInv ==
    ASSUME ServerInv, NEW r \in Request, CopyHeader(r), UNCHANGED <<now, reloads>>
    PROVE  CacheInv' /\ ForwarderInv' /\ HandlerInv'
<1> DEFINE m == [heap[hit[r].entry.msg] EXCEPT !.ans = <<>>, !.id = r]
<1>1. /\ pc[r] = "header" /\ target' \in [Request -> Name]
      /\ heap[hit[r].entry.msg] \in Msg
      /\ heap' = [heap EXCEPT ![r] = m] /\ pc' = [pc EXCEPT ![r] = "answers"]
      /\ UNCHANGED <<query, hit, born, out, cache, fwd>>
  BY DEF CopyHeader, At, Goto, ServerInv, HandlerInv, HandlerTypeOK, HitsBuilt
<1>2. <<>> \in Seq(RR)
  OBVIOUS
<1>3. m \in Msg /\ "answers" \in Place
  BY <1>1, <1>2 DEF Msg, Place
<1> HIDE DEF m
<1> QED
  BY <1>1, <1>3, ForwarderSame, RewriteStep

\* So does the second half of Copy, which takes the answers.
LEMMA CopyAnswersInv ==
    ASSUME ServerInv, NEW r \in Request, CopyAnswers(r), UNCHANGED <<now, reloads>>
    PROVE  CacheInv' /\ ForwarderInv' /\ HandlerInv'
<1> DEFINE ans == heap[hit[r].entry.msg].ans
           m   == [heap[r] EXCEPT !.ans = ans]
<1>1. /\ pc[r] = "answers" /\ target' \in [Request -> Name]
      /\ heap[hit[r].entry.msg] \in Msg /\ heap[r] \in Msg
      /\ heap' = [heap EXCEPT ![r].ans = ans] /\ pc' = [pc EXCEPT ![r] = "write"]
      /\ UNCHANGED <<query, hit, born, out, cache, fwd>>
  BY DEF CopyAnswers, At, Goto, ServerInv, HandlerInv, HandlerTypeOK, HitsBuilt,
         MessagesBuilt
<1>2. ans \in Seq(RR)
  BY <1>1 DEF Msg
<1> HIDE DEF ans
<1>3. m \in Msg /\ "write" \in Place
  BY <1>1, <1>2 DEF Msg, Place
<1>4. heap' = [heap EXCEPT ![r] = m]
  BY <1>1
<1> HIDE DEF m
<1> QED
  BY <1>1, <1>3, <1>4, ForwarderSame, RewriteStep

\* A miss begins a call of Forward with the client's question.
LEMMA CacheMissInv ==
    ASSUME ServerInv, NEW r \in Request, CacheMiss(r), UNCHANGED <<now, reloads>>
    PROVE  CacheInv' /\ ForwarderInv' /\ HandlerInv'
<1>1. /\ pc[r] = "cache" /\ Forward(r, query[r]) /\ pc' = [pc EXCEPT ![r] = "forward"]
      /\ UNCHANGED <<query, target, hit, born, out, heap, cache>>
  BY DEF CacheMiss, At, Goto
<1>2. query[r] \in Query
  BY <1>1 DEF ServerInv, HandlerInv, QueriesKnown
<1>3. ForwarderInv'
  BY <1>1, <1>2, ForwardStep
<1>4. "forward" \in Place
  BY DEF Place
<1> QED
  BY <1>1, <1>3, <1>4, MoveStep

\* The handler goes on with the reply Forward returned, or with a SERVFAIL.
LEMMA ForwardReturnsInv ==
    ASSUME ServerInv, NEW r \in Request, ForwardReturns(r), UNCHANGED <<now, reloads>>
    PROVE  CacheInv' /\ ForwarderInv' /\ HandlerInv'
<1> DEFINE m == SetRcode(r, "SERVFAIL", "servfail")
<1>1. /\ pc[r] = "forward" /\ fwd[r] # None /\ target' \in [Request -> Name]
      /\ UNCHANGED <<query, hit, born, out, cache, fwd>>
  BY DEF ForwardReturns, At, Returned, ServerInv, HandlerInv, HandlerTypeOK
<1>2. m \in Msg
  BY <1>1, SetRcodeType DEF Source, ServerInv, StoreInv, RecordsTypeOK, HandlerInv,
                            QueriesKnown
<1>3. {"set", "write"} \subseteq Place
  BY DEF Place
<1>4. CASE fwd[r].st = "ok"
  <2>1. fwd[r].msg \in Msg
    BY <1>1, <1>4 DEF ServerInv, ForwarderInv, ForwardedBuilt
  <2>2. heap' = [heap EXCEPT ![r] = fwd[r].msg] /\ pc' = [pc EXCEPT ![r] = "set"]
    BY <1>4 DEF ForwardReturns, Goto
  <2> QED
    BY <1>1, <1>3, <2>1, <2>2, ForwarderSame, RewriteStep
<1>5. CASE fwd[r].st # "ok"
  <2>1. heap' = [heap EXCEPT ![r] = m] /\ pc' = [pc EXCEPT ![r] = "write"]
    BY <1>5 DEF ForwardReturns, Goto
  <2> HIDE DEF m
  <2> QED
    BY <1>1, <1>2, <1>3, <2>1, ForwarderSame, RewriteStep
<1> QED
  BY <1>4, <1>5

\* What a handler stores in the cache is its message, with an expiry.
LEMMA CacheSetInv ==
    ASSUME ServerInv, NEW r \in Request, CacheSet(r), UNCHANGED <<now, reloads>>
    PROVE  CacheInv' /\ ForwarderInv' /\ HandlerInv'
<1> DEFINE k == cacheKeyFor(query[r])
           e == [msg |-> r, exp |-> now + TTL(heap[r]), set |-> now, era |-> reloads]
<1>1. /\ pc[r] = "set" /\ pc' = [pc EXCEPT ![r] = "write"]
      /\ cache' = [x \in DOMAIN cache \cup {k} |-> IF x = k THEN e ELSE cache[x]]
      /\ UNCHANGED <<query, target, hit, born, out, heap, fwd>>
  BY DEF CacheSet, At, Goto, Set
<1>2. /\ query[r] \in Query /\ heap[r] \in Msg
      /\ heap \in [Request -> Msg \cup {None}] /\ now \in Nat /\ reloads \in Nat
      /\ target' \in [Request -> Name]
  BY <1>1 DEF ServerInv, HandlerInv, HandlerTypeOK, QueriesKnown, MessagesBuilt,
              CacheInv, CacheTypeOK
<1>3. TTL(heap[r]) \in Nat
  <2>1. heap[r].ans \in Seq(RR)
    BY <1>2 DEF Msg
  <2>2. Len(heap[r].ans) > 0 => heap[r].ans[1] \in RR
    BY <2>1
  <2> QED
    BY <2>2, CacheAssumption DEF TTL, RR
<1>4. k \in Key
  <2>1. Lower(query[r].name) \in Name
    BY <1>2, LowerType DEF Query
  <2> QED
    BY <1>2, <2>1 DEF cacheKeyFor, Key, Query
<1>5. now + TTL(heap[r]) \in Nat
  BY <1>2, <1>3
<1>6. e \in Entry /\ e.msg = r
  BY <1>2, <1>5 DEF Entry
<1> HIDE DEF k, e
<1>7. CacheTypeOK'
  BY <1>1, <1>2, <1>4, <1>6 DEF ServerInv, CacheInv, CacheTypeOK
<1>8. CachedBuilt'
  <2> SUFFICES ASSUME NEW x \in DOMAIN cache' PROVE heap[cache'[x].msg] \in Msg
    BY <1>1 DEF CachedBuilt
  <2>1. CASE x = k
    BY <1>1, <1>2, <1>6, <2>1
  <2>2. CASE x # k
    BY <1>1, <2>2 DEF ServerInv, CacheInv, CachedBuilt
  <2> QED
    BY <2>1, <2>2
<1>9. "write" \in Place
  BY DEF Place
<1>10. HandlerInv'
  BY <1>1, <1>2, <1>9, PcStep
<1> QED
  BY <1>1, <1>7, <1>8, <1>10, ForwarderSame DEF CacheInv

\* The size check of writeResponse sets a flag of the message at most.
LEMMA WriteResponseInv ==
    ASSUME ServerInv, NEW r \in Request, WriteResponse(r), UNCHANGED <<now, reloads>>
    PROVE  CacheInv' /\ ForwarderInv' /\ HandlerInv'
<1> DEFINE m == [heap[r] EXCEPT !.tc = TRUE]
<1>1. /\ pc[r] = "write" /\ target' \in [Request -> Name] /\ heap[r] \in Msg
      /\ UNCHANGED <<query, target, hit, born, out, cache, fwd>>
  BY DEF WriteResponse, At, ServerInv, HandlerInv, HandlerTypeOK, MessagesBuilt
<1>2. m \in Msg
  BY <1>1 DEF Msg
<1>3. \/ heap' = [heap EXCEPT ![r] = m] /\ pc' = [pc EXCEPT ![r] = "trim"]
      \/ UNCHANGED heap /\ pc' = [pc EXCEPT ![r] = "send"]
  BY DEF WriteResponse, Goto
<1>4. {"trim", "send"} \subseteq Place
  BY DEF Place
<1> HIDE DEF m
<1>5. CASE heap' = [heap EXCEPT ![r] = m] /\ pc' = [pc EXCEPT ![r] = "trim"]
  BY <1>1, <1>2, <1>4, <1>5, ForwarderSame, RewriteStep
<1>6. CASE UNCHANGED heap /\ pc' = [pc EXCEPT ![r] = "send"]
  BY <1>1, <1>4, <1>6, ForwarderSame, MoveStep
<1> QED
  BY <1>3, <1>5, <1>6

\* The truncation loop takes an answer only from a message that has one.
LEMMA TrimAnswerInv ==
    ASSUME ServerInv, NEW r \in Request, TrimAnswer(r), UNCHANGED <<now, reloads>>
    PROVE  CacheInv' /\ ForwarderInv' /\ HandlerInv'
<1> DEFINE ans == SubSeq(heap[r].ans, 1, Len(heap[r].ans) - 1)
           m   == [heap[r] EXCEPT !.ans = ans]
<1>1. /\ pc[r] = "trim" /\ target' \in [Request -> Name] /\ heap[r] \in Msg
      /\ pc \in [Request -> Place] /\ heap \in [Request -> Msg \cup {None}]
      /\ UNCHANGED <<query, target, hit, born, out, cache, fwd>>
  BY DEF TrimAnswer, At, ServerInv, HandlerInv, HandlerTypeOK, MessagesBuilt, CacheInv,
         CacheTypeOK
<1>2. {"trim", "send"} \subseteq Place
  BY DEF Place
<1>3. CASE TooLarge(heap[r])
  <2>1. heap[r].ans \in Seq(RR) /\ Len(heap[r].ans) > 0
    BY <1>1, <1>3 DEF Msg, TooLarge
  <2>2. ans \in Seq(RR)
    BY <2>1
  <2>3. heap' = [heap EXCEPT ![r].ans = ans] /\ pc' = pc
    BY <1>1, <1>3 DEF TrimAnswer
  <2> HIDE DEF ans
  <2>4. m \in Msg
    BY <1>1, <2>2 DEF Msg
  <2>5. heap' = [heap EXCEPT ![r] = m] /\ pc' = [pc EXCEPT ![r] = "trim"]
    BY <1>1, <2>3
  <2> HIDE DEF m
  <2> QED
    BY <1>1, <1>2, <2>4, <2>5, ForwarderSame, RewriteStep
<1>4. CASE ~TooLarge(heap[r])
  <2>1. UNCHANGED heap /\ pc' = [pc EXCEPT ![r] = "send"]
    BY <1>4 DEF TrimAnswer, Goto
  <2> QED
    BY <1>1, <1>2, <2>1, ForwarderSame, MoveStep
<1> QED
  BY <1>3, <1>4

\* What WriteMsg sends is the handler's message.
LEMMA WriteMsgInv ==
    ASSUME ServerInv, NEW r \in Request, WriteMsg(r), UNCHANGED <<now, reloads>>
    PROVE  CacheInv' /\ ForwarderInv' /\ HandlerInv'
<1> DEFINE o == IF CanPack(heap[r]) THEN heap[r] ELSE None
<1>1. CacheInv' /\ ForwarderInv'
  BY NoHeapStep, ForwarderSame DEF WriteMsg
<1> USE DEF ServerInv, HandlerInv
<1>2. /\ pc[r] = "send" /\ heap[r] \in Msg
      /\ pc' = [pc EXCEPT ![r] = "done"] /\ out' = [out EXCEPT ![r] = o]
      /\ UNCHANGED <<query, target, hit, born, heap>>
  BY DEF WriteMsg, At, Goto, MessagesBuilt
<1>3. o \in Msg \cup {None}
  BY <1>2
<1> HIDE DEF o
<1>4. HandlerTypeOK'
  BY <1>2, <1>3 DEF HandlerTypeOK, Place
<1>5. \A x \in Request : pc'[x] = IF x = r THEN "done" ELSE pc[x]
  BY <1>2 DEF HandlerTypeOK
<1>6. QueriesKnown' /\ MessagesBuilt' /\ HitsBuilt'
  BY <1>2, <1>5 DEF QueriesKnown, MessagesBuilt, HitsBuilt
<1> QED
  BY <1>1, <1>4, <1>6

-----------------------------------------------------------------------------
(* Exchanges with upstreams *)

\* A call of Forward goes on as another call with the same right to a message.
LEMMA CallStep ==
    ASSUME ServerInv, NEW r \in Request, NEW call \in Call,
           fwd' = [fwd EXCEPT ![r] = call],
           call.st \in {"tcp", "ok"} => call.msg \in Msg
    PROVE  ForwarderInv'
<1>1. fwd \in [Request -> Call \cup {None}]
  BY DEF ServerInv, ForwarderInv, ForwarderTypeOK
<1>2. \A o \in Request : fwd'[o] = IF o = r THEN call ELSE fwd[o]
  BY <1>1
<1>3. ForwarderTypeOK'
  BY <1>1 DEF ForwarderTypeOK
<1>4. ForwardedBuilt'
  BY <1>2 DEF ServerInv, ForwarderInv, ForwardedBuilt
<1> QED
  BY <1>3, <1>4 DEF ForwarderInv

\* Every exchange leaves a call that has a message if it returned without an
\* error, and that asks one of the configured upstreams otherwise.
LEMMA ExchangeInv ==
    ASSUME ServerInv, NEW r \in Request, Exchange(r)
    PROVE  ForwarderInv'
<1>1. /\ fwd \in [Request -> Call \cup {None}] /\ fwd[r] # None /\ fwd[r] \in Call
      /\ fwd[r].st \in {"udp", "tcp"}
  BY DEF Exchange, UdpReply, UdpTruncated, UdpFails, TcpReply, TcpFails, InExchange,
         ServerInv, ForwarderInv, ForwarderTypeOK
<1>2. /\ fwd[r].q \in Query /\ fwd[r].srv \in 1..Upstreams
      /\ fwd[r].failed \in SUBSET (1..Upstreams)
  BY <1>1 DEF Call
<1>3. \A w \in Reply : UpstreamMsg(r, w) \in Msg
  BY <1>2, UpstreamMsgType
<1>4. ASSUME NEW s \in {"ok", "tcp"}, NEW m \in Msg,
             fwd' = [fwd EXCEPT ![r].st = s, ![r].msg = m]
      PROVE  ForwarderInv'
  <2> DEFINE call == [fwd[r] EXCEPT !.st = s, !.msg = m]
  <2>1. call \in Call /\ call.msg = m
    BY <1>1 DEF Call
  <2>2. fwd' = [fwd EXCEPT ![r] = call]
    BY <1>1, <1>4
  <2> HIDE DEF call
  <2> QED
    BY <2>1, <2>2, CallStep
<1>5. \A w \in Reply : \A n \in 0..(Len(w.ttls) - 1) : CutTo(UpstreamMsg(r, w), n) \in Msg
  <2> SUFFICES ASSUME NEW w \in Reply, NEW n \in 0..(Len(w.ttls) - 1)
               PROVE  CutTo(UpstreamMsg(r, w), n) \in Msg
    OBVIOUS
  <2>1. w.ttls \in Seq(Nat)
    BY ForwarderAssumption
  <2>2. DOMAIN UpstreamMsg(r, w).ans = DOMAIN w.ttls
    BY DEF UpstreamMsg
  <2>3. UpstreamMsg(r, w).ans \in Seq(RR)
    BY <1>3 DEF Msg
  <2>4. Len(UpstreamMsg(r, w).ans) = Len(w.ttls)
    BY <2>1, <2>2, <2>3
  <2> QED
    BY <1>3, <2>4, CutToType
<1>6. CASE UdpReply(r) \/ UdpTruncated(r) \/ TcpReply(r)
  <2>1. CASE UdpReply(r) \/ UdpTruncated(r)
    BY <1>3, <1>4, <1>5, <2>1 DEF UdpReply, UdpTruncated
  <2>2. CASE TcpReply(r)
    <3>1. PICK w \in Reply : \E n \in 0..Len(w.ttls) :
            fwd' = [fwd EXCEPT ![r].st = "ok",
                               ![r].msg = IF n = Len(w.ttls) THEN UpstreamMsg(r, w)
                                          ELSE CutTo(UpstreamMsg(r, w), n)]
      BY <2>2 DEF TcpReply
    <3>2. Len(w.ttls) \in Nat
      BY ForwarderAssumption
    <3>3. PICK n \in 0..Len(w.ttls) :
            fwd' = [fwd EXCEPT ![r].st = "ok",
                               ![r].msg = IF n = Len(w.ttls) THEN UpstreamMsg(r, w)
                                          ELSE CutTo(UpstreamMsg(r, w), n)]
      BY <3>1
    <3>4. n = Len(w.ttls) \/ n \in 0..(Len(w.ttls) - 1)
      BY <3>2
    <3> QED
      BY <1>3, <1>4, <1>5, <3>3, <3>4
  <2> QED
    BY <1>6, <2>1, <2>2
<1>7. CASE UdpFails(r)
  <2> DEFINE c    == [fwd[r] EXCEPT !.failed = @ \cup {fwd[r].srv}]
             call == IF c.srv = Upstreams THEN [c EXCEPT !.st = "err"]
                                          ELSE [c EXCEPT !.srv = @ + 1]
  <2>1. fwd' = [fwd EXCEPT ![r] = call] /\ fwd[r].st = "udp"
    BY <1>7 DEF UdpFails, InExchange
  <2>2. c \in Call /\ c.srv = fwd[r].srv /\ c.st = "udp"
    BY <1>1, <1>2, <2>1 DEF Call
  <2> HIDE DEF c
  <2>3. c.srv # Upstreams => c.srv + 1 \in 1..Upstreams
    BY <1>2, <2>2, ForwarderAssumption
  <2>4. call \in Call /\ call.st \in {"udp", "err"}
    BY <2>2, <2>3 DEF Call
  <2> HIDE DEF call
  <2> QED
    BY <2>1, <2>4, CallStep
<1>8. CASE TcpFails(r)
  <2>1. fwd' = [fwd EXCEPT ![r].st = "ok"] /\ fwd[r].msg \in Msg
    BY <1>1, <1>8 DEF TcpFails, InExchange, ServerInv, ForwarderInv, ForwardedBuilt
  <2> DEFINE call == [fwd[r] EXCEPT !.st = "ok"]
  <2>2. call \in Call /\ call.msg \in Msg
    BY <1>1, <2>1 DEF Call
  <2>3. fwd' = [fwd EXCEPT ![r] = call]
    BY <1>1, <2>1
  <2> HIDE DEF call
  <2> QED
    BY <2>2, <2>3, CallStep
<1> QED
  BY <1>5, <1>6, <1>7, <1>8 DEF Exchange

\* While a handler waits for an upstream, only its call of Forward changes.
LEMMA AwaitUpstreamInv ==
    ASSUME ServerInv, NEW r \in Request, AwaitUpstream(r), UNCHANGED <<now, reloads>>
    PROVE  CacheInv' /\ ForwarderInv' /\ HandlerInv'
<1>1. ForwarderInv'
  BY ExchangeInv DEF AwaitUpstream
<1>2. CacheInv'
  BY NoHeapStep DEF AwaitUpstream
<1>3. HandlerInv'
  BY DEF AwaitUpstream, handlerVars, ServerInv, HandlerInv, HandlerTypeOK, QueriesKnown,
         MessagesBuilt, HitsBuilt
<1> QED
  BY <1>1, <1>2, <1>3

-----------------------------------------------------------------------------
(* The server *)

\* Every step of a handler, from HandleDNSRequest to WriteMsg, keeps the
\* invariant of the server.
LEMMA HandleDNSRequestInv ==
    ASSUME ServerInv, NEW r \in Request, HandleDNSRequest(r), UNCHANGED <<now, reloads>>
    PROVE  CacheInv' /\ ForwarderInv' /\ HandlerInv'
<1>1. CASE HandleLocalRecord(r) \/ FollowCNAME(r) \/ FinishCNAME(r)
  BY <1>1, HandleLocalRecordInv, FollowCNAMEInv, FinishCNAMEInv
<1>2. CASE Allowlisted(r) \/ Blocklisted(r)
  BY <1>2, AllowlistedInv, BlocklistedInv
<1>3. CASE CacheHit(r) \/ CopyHeader(r) \/ CopyAnswers(r) \/ CacheMiss(r)
  BY <1>3, CacheHitInv, CopyHeaderInv, CopyAnswersInv, CacheMissInv
<1>4. CASE ForwardReturns(r) \/ CacheSet(r) \/ AwaitUpstream(r)
  BY <1>4, ForwardReturnsInv, CacheSetInv, AwaitUpstreamInv
<1>5. CASE WriteResponse(r) \/ TrimAnswer(r) \/ WriteMsg(r)
  BY <1>5, WriteResponseInv, TrimAnswerInv, WriteMsgInv
<1> QED
  BY <1>1, <1>2, <1>3, <1>4, <1>5 DEF HandleDNSRequest

\* Steps that leave the cache, the calls of Forward and the handlers alone
\* keep their invariants: a reload of the records, a refresh of the lists.
LEMMA RestSame ==
    ASSUME ServerInv, UNCHANGED <<heap, cache, now, reloads, fwd, handlerVars>>
    PROVE  CacheInv' /\ ForwarderInv' /\ HandlerInv'
<1>1. CacheInv' /\ ForwarderInv'
  BY NoHeapStep, ForwarderSame
<1>2. HandlerInv'
  BY DEF handlerVars, ServerInv, HandlerInv, HandlerTypeOK, QueriesKnown,
         MessagesBuilt, HitsBuilt
<1> QED
  BY <1>1, <1>2

\* The invariant of the server is inductive.
LEMMA ServerNextInv == ServerInv /\ [Next]_vars => ServerInv'
<1> SUFFICES ASSUME ServerInv, [Next]_vars PROVE ServerInv'
  OBVIOUS
<1>1. UNCHANGED <<records, gen, main>> => StoreInv'
  BY DEF ServerInv, StoreInv, RecordsTypeOK
<1>2. ASSUME NEW r \in Request, Arrive(r) PROVE ServerInv'
  BY <1>1, <1>2, ReceiveInv, FormatErrorInv DEF Arrive, ServerInv
<1>3. ASSUME NEW r \in Request, Serve(r) PROVE ServerInv'
  BY <1>1, <1>3, HandleDNSRequestInv DEF Serve, ServerInv
<1>4. CASE LoadRecords
  <2>1. PICK file \in RecordFiles : LoadFromFile(file)
    BY <1>4 DEF LoadRecords
  <2>2. RecordsTypeOK'
    BY <2>1, LoadedType, ResolvitAssumption
       DEF LoadFromFile, RecordsTypeOK, ServerInv, StoreInv
  <2>3. main' \in {"signal", "clear"}
    BY <1>4 DEF LoadRecords
  <2>4. CacheInv' /\ ForwarderInv' /\ HandlerInv'
    BY <1>4, RestSame DEF LoadRecords
  <2> QED
    BY <2>2, <2>3, <2>4 DEF ServerInv, StoreInv
<1>5. CASE ClearCache
  <2>1. /\ cache' = <<>> /\ reloads' = gen /\ main' = "signal"
        /\ UNCHANGED <<records, gen, heap, now, fwd, handlerVars>>
    BY <1>5 DEF ClearCache, Clear
  <2>2. StoreInv'
    BY <2>1 DEF ServerInv, StoreInv, RecordsTypeOK
  <2>3. CacheInv'
    BY <2>1 DEF ServerInv, StoreInv, RecordsTypeOK, CacheInv, CacheTypeOK, CachedBuilt
  <2>4. ForwarderInv'
    BY <2>1, ForwarderSame
  <2>5. HandlerInv'
    BY <2>1 DEF handlerVars, ServerInv, HandlerInv, HandlerTypeOK, QueriesKnown,
                MessagesBuilt, HitsBuilt
  <2> QED
    BY <2>2, <2>3, <2>4, <2>5 DEF ServerInv
<1>6. CASE Refresh
  BY <1>1, <1>6, RestSame DEF Refresh, ServerInv
<1>7. CASE PassTime
  <2>1. /\ now' = now + 1
        /\ UNCHANGED <<records, gen, heap, cache, reloads, fwd, handlerVars, main>>
    BY <1>7 DEF PassTime, Tick
  <2>2. CacheInv'
    BY <2>1 DEF ServerInv, CacheInv, CacheTypeOK, CachedBuilt
  <2>3. ForwarderInv'
    BY <2>1, ForwarderSame
  <2>4. HandlerInv'
    BY <2>1 DEF handlerVars, ServerInv, HandlerInv, HandlerTypeOK, QueriesKnown,
                MessagesBuilt, HitsBuilt
  <2> QED
    BY <1>1, <2>1, <2>2, <2>3, <2>4 DEF ServerInv
<1>8. CASE UNCHANGED vars
  BY <1>1, <1>8, RestSame DEF vars, ServerInv
<1> QED
  BY <1>2, <1>3, <1>4, <1>5, <1>6, <1>7, <1>8 DEF Next

\* What the refresh goroutine and ShouldBlock keep on their own they keep in
\* the server, where handlers ask about the names clients send.
LEMMA FilterInServer == ServerInv /\ FilterInv /\ [Next]_vars => FilterInv'
<1> SUFFICES ASSUME ServerInv, FilterInv, [Next]_vars PROVE FilterInv'
  OBVIOUS
<1>1. UNCHANGED filterVars => FilterInv'
  BY FilterNextInv
<1>2. ASSUME NEW r \in Request, Allowlisted(r) PROVE FilterInv'
  <2>1. query[r].name \in Name
    BY <1>2 DEF Allowlisted, At, ServerInv, HandlerInv, QueriesKnown, Query
  <2>2. r \in Caller /\ ReadAllowlist(r, query[r].name)
    BY <1>2, HandlerAssumption DEF Allowlisted
  <2> QED
    BY <2>1, <2>2, ReadAllowlistInv
<1>3. ASSUME NEW r \in Request, Blocklisted(r) PROVE FilterInv'
  BY <1>3, HandlerAssumption, ReadBlocklistInv DEF Blocklisted
<1>4. ASSUME NEW r \in Request, Serve(r) PROVE FilterInv'
  <2>1. CASE HandleLocalRecord(r) \/ FollowCNAME(r) \/ FinishCNAME(r)
    BY <1>1, <2>1 DEF HandleLocalRecord, FollowCNAME, FinishCNAME
  <2>2. CASE CacheHit(r) \/ CopyHeader(r) \/ CopyAnswers(r) \/ CacheMiss(r)
    BY <1>1, <2>2 DEF CacheHit, CopyHeader, CopyAnswers, CacheMiss
  <2>3. CASE ForwardReturns(r) \/ CacheSet(r) \/ AwaitUpstream(r)
    BY <1>1, <2>3 DEF ForwardReturns, CacheSet, AwaitUpstream
  <2>4. CASE WriteResponse(r) \/ TrimAnswer(r) \/ WriteMsg(r)
    BY <1>1, <2>4 DEF WriteResponse, TrimAnswer, WriteMsg
  <2> QED
    BY <1>2, <1>3, <1>4, <2>1, <2>2, <2>3, <2>4 DEF Serve, HandleDNSRequest
<1>5. ASSUME NEW r \in Request, Arrive(r) PROVE FilterInv'
  BY <1>1, <1>5 DEF Arrive, Receive, FormatError
<1>6. CASE Refresh
  BY <1>6, LoadListsInv, StoreBlocklistInv, StoreAllowlistInv DEF Refresh, LoadOnce
<1>7. CASE LoadRecords \/ ClearCache \/ PassTime
  BY <1>1, <1>7 DEF LoadRecords, ClearCache, PassTime
<1>8. CASE UNCHANGED vars
  BY <1>1, <1>8 DEF vars
<1> QED
  BY <1>4, <1>5, <1>6, <1>7, <1>8 DEF Next

ResolvitInv == ServerInv /\ FilterInv

\* The invariant holds in every state the server reaches.
LEMMA ServerSafe == Spec => []ResolvitInv
<1>1. Init => ResolvitInv
  BY ServerInitInv, FilterInitInv DEF Init, ResolvitInv
<1>2. ResolvitInv /\ [Next]_vars => ResolvitInv'
  BY ServerNextInv, FilterInServer DEF ResolvitInv
<1> QED
  BY <1>1, <1>2, PTL DEF Spec

\* Type correctness of the whole server: no handler reads a message that was
\* not built, no call of Forward asks an upstream that is not configured, and
\* the store, the cache and the filter hold what their types say, for any
\* records files, upstream replies, lists and questions.
THEOREM TypeCorrect == Spec => []TypeOK
<1>1. ResolvitInv => TypeOK
  BY DEF ResolvitInv, ServerInv, StoreInv, CacheInv, ForwarderInv, HandlerInv, FilterInv,
         TypeOK
<1> QED
  BY ServerSafe, <1>1, PTL

\* A refresh opens no hole in the running server either: a handler lets a name
\* pass only if some load in force during its call of ShouldBlock lets it pass.
THEOREM ServerNeverFailsOpen == Spec => []NeverFailsOpen
<1>1. ResolvitInv => NeverFailsOpen
  BY DEF ResolvitInv, FilterInv
<1> QED
  BY ServerSafe, <1>1, PTL

\* The pointers of the cache are good: every entry, and every hit that is
\* being copied, refers to a message that was built.
THEOREM NothingDangles == Spec => [](CachedBuilt /\ HitsBuilt)
<1>1. ResolvitInv => CachedBuilt /\ HitsBuilt
  BY DEF ResolvitInv, ServerInv, CacheInv, HandlerInv
<1> QED
  BY ServerSafe, <1>1, PTL

-----------------------------------------------------------------------------
(***************************************************************************)
(* OnlyAnswersCached is not inductive: the cache shares its messages with  *)
(* their handlers.  The invariant adds where the owner of a cached message *)
(* is, namely past the last point where it replaces the message, and where *)
(* the messages about to be cached come from.                              *)
(***************************************************************************)
Kept == {"local", "upstream"}

Responding == {"write", "trim", "send", "done"}

OwnersRespond == \A k \in DOMAIN cache : pc[cache[k].msg] \in Responding

CacheableKept ==
    \A r \in Request : pc[r] \in {"chain", "tail", "set"} => heap[r].src \in Kept

ForwardedKept ==
    \A r \in Request : fwd[r] # None /\ fwd[r].st \in {"tcp", "ok"} =>
        fwd[r].msg.src = "upstream"

AnswersInv ==
    OnlyAnswersCached /\ OwnersRespond /\ CacheableKept /\ ForwardedKept

\* A step of one handler: it does not touch the messages of others, its own
\* keeps its origin once it may be cached, and a handler that responds goes on
\* responding.
LEMMA HandlerStep ==
    ASSUME ServerInv, AnswersInv, NEW r \in Request, NEW p,
           pc' = [pc EXCEPT ![r] = p], UNCHANGED cache,
           \A o \in Request : o # r => heap'[o] = heap[o],
           pc[r] \in Responding => p \in Responding /\ heap'[r].src = heap[r].src,
           p \in {"chain", "tail", "set"} => heap'[r].src \in Kept
    PROVE  OnlyAnswersCached' /\ OwnersRespond' /\ CacheableKept'
<1>1. \A o \in Request : pc'[o] = IF o = r THEN p ELSE pc[o]
  BY DEF ServerInv, HandlerInv, HandlerTypeOK
<1>2. \A k \in DOMAIN cache : cache[k].msg \in Request
  BY DEF ServerInv, CacheInv, CacheTypeOK, Entry
<1>3. OwnersRespond'
  BY <1>1, <1>2 DEF AnswersInv, OwnersRespond
<1>4. OnlyAnswersCached'
  <2> SUFFICES ASSUME NEW k \in DOMAIN cache PROVE heap'[cache[k].msg].src \in Kept
    BY DEF OnlyAnswersCached, Kept
  <2>1. /\ heap[cache[k].msg].src \in Kept /\ pc[cache[k].msg] \in Responding
        /\ cache[k].msg \in Request
    BY <1>2 DEF AnswersInv, OnlyAnswersCached, OwnersRespond, Kept
  <2> QED
    BY <2>1
<1>5. CacheableKept'
  BY <1>1 DEF AnswersInv, CacheableKept
<1> QED
  BY <1>3, <1>4, <1>5

\* The messages of others are out of a handler's reach.
LEMMA OwnMessage ==
    ASSUME ServerInv, NEW r \in Request, NEW m, heap' = [heap EXCEPT ![r] = m]
    PROVE  heap'[r] = m /\ \A o \in Request : o # r => heap'[o] = heap[o]
  BY DEF ServerInv, CacheInv, CacheTypeOK

\* What local records give is kept: up to the end of handleCNAME.
LEMMA LocalKept ==
    ASSUME ServerInv, AnswersInv, NEW r \in Request,
           HandleLocalRecord(r) \/ FollowCNAME(r) \/ FinishCNAME(r)
    PROVE  OnlyAnswersCached' /\ OwnersRespond' /\ CacheableKept'
<1>1. UNCHANGED cache /\ pc[r] \in {"local", "chain", "tail"}
  BY DEF HandleLocalRecord, FollowCNAME, FinishCNAME, At
<1>2. pc[r] \notin Responding
  BY <1>1 DEF Responding
<1>3. pc[r] \in {"chain", "tail"} => heap[r] \in Msg /\ heap[r].src \in Kept
  BY DEF ServerInv, HandlerInv, MessagesBuilt, AnswersInv, CacheableKept
<1>4. \A m \in Msg : \A rrs : AddAnswers(m, rrs).src = m.src
  BY DEF AddAnswers, Msg
<1>5. CASE HandleLocalRecord(r)
  <2> DEFINE reply == SetRcode(r, "NOERROR", "local")
             more  == AddAnswers(reply, <<LocalRR(query[r].name, Get(query[r].name))>>)
  <2>1. query[r] \in Query
    BY <1>5 DEF HandleLocalRecord, At, ServerInv, HandlerInv, QueriesKnown
  <2>2. reply \in Msg /\ reply.src = "local"
    BY <2>1, SetRcodeType DEF Source, SetRcode, ServerInv, StoreInv, RecordsTypeOK
  <2>3. more.src = "local"
    BY <1>4, <2>2
  <2>4. \/ /\ pc' = [pc EXCEPT ![r] = IF FilterEnabled THEN "allow" ELSE "cache"]
           /\ UNCHANGED heap
        \/ /\ heap' = [heap EXCEPT ![r] = IF query[r].qtype = "A" THEN more ELSE reply]
           /\ pc' = [pc EXCEPT ![r] = "set"]
        \/ /\ heap' = [heap EXCEPT ![r] = more]
           /\ pc' = [pc EXCEPT ![r] = "chain"]
    BY <1>5 DEF HandleLocalRecord, Goto
  <2> HIDE DEF more, reply
  <2>5. CASE /\ pc' = [pc EXCEPT ![r] = IF FilterEnabled THEN "allow" ELSE "cache"]
             /\ UNCHANGED heap
    <3> DEFINE p == IF FilterEnabled THEN "allow" ELSE "cache"
    <3>1. p \in {"allow", "cache"} /\ pc' = [pc EXCEPT ![r] = p]
      BY <2>5
    <3> HIDE DEF p
    <3> QED
      BY <1>1, <1>2, <2>5, <3>1, HandlerStep
  <2>6. CASE /\ heap' = [heap EXCEPT ![r] = IF query[r].qtype = "A" THEN more ELSE reply]
             /\ pc' = [pc EXCEPT ![r] = "set"]
    <3> DEFINE m == IF query[r].qtype = "A" THEN more ELSE reply
    <3>1. m.src \in Kept /\ heap' = [heap EXCEPT ![r] = m]
      BY <2>2, <2>3, <2>6 DEF Kept
    <3> HIDE DEF m
    <3>2. heap'[r] = m /\ \A o \in Request : o # r => heap'[o] = heap[o]
      BY <3>1, OwnMessage
    <3> QED
      BY <1>1, <1>2, <2>6, <3>1, <3>2, HandlerStep
  <2>7. CASE heap' = [heap EXCEPT ![r] = more] /\ pc' = [pc EXCEPT ![r] = "chain"]
    <3>1. heap'[r] = more /\ \A o \in Request : o # r => heap'[o] = heap[o]
      BY <2>7, OwnMessage
    <3> QED
      BY <1>1, <1>2, <2>3, <2>7, <3>1, HandlerStep DEF Kept
  <2> QED
    BY <2>4, <2>5, <2>6, <2>7
<1>6. CASE FollowCNAME(r)
  <2> DEFINE m == AddAnswers(heap[r], <<LocalRR(target[r], Get(target[r]))>>)
  <2>1. pc[r] = "chain" /\ heap[r].src \in Kept /\ m.src = heap[r].src
    BY <1>3, <1>4, <1>6 DEF FollowCNAME, At
  <2>2. pc = [pc EXCEPT ![r] = "chain"]
    BY <2>1 DEF ServerInv, HandlerInv, HandlerTypeOK
  <2>3. PICK p \in {"chain", "tail", "set"} : pc' = [pc EXCEPT ![r] = p]
    BY <1>6, <2>2 DEF FollowCNAME, Goto
  <2>4. UNCHANGED heap \/ heap' = [heap EXCEPT ![r] = m]
    BY <1>6 DEF FollowCNAME
  <2> HIDE DEF m
  <2>5. heap'[r].src \in Kept /\ \A o \in Request : o # r => heap'[o] = heap[o]
    BY <2>1, <2>4, OwnMessage
  <2> QED
    BY <1>1, <1>2, <2>3, <2>5, HandlerStep
<1>7. CASE FinishCNAME(r)
  <2> DEFINE a == AddAnswers(heap[r], fwd[r].msg.ans)
             m == [a EXCEPT !.lost = fwd[r].msg.lost]
  <2>1. /\ pc[r] = "tail" /\ heap[r] \in Msg /\ heap[r].src \in Kept
        /\ a.src = heap[r].src
    BY <1>3, <1>4, <1>7 DEF FinishCNAME, At
  <2>2. m.src = heap[r].src
    BY <2>1 DEF AddAnswers, Msg
  <2>3. UNCHANGED heap \/ heap' = [heap EXCEPT ![r] = m]
    BY <1>7 DEF FinishCNAME
  <2>4. pc' = [pc EXCEPT ![r] = "set"]
    BY <1>7 DEF FinishCNAME, Goto
  <2> HIDE DEF a, m
  <2>5. heap'[r].src \in Kept /\ \A o \in Request : o # r => heap'[o] = heap[o]
    BY <2>1, <2>2, <2>3, OwnMessage
  <2> QED
    BY <1>1, <1>2, <2>4, <2>5, HandlerStep
<1> QED
  BY <1>5, <1>6, <1>7

\* The NXDOMAIN of the filter and the copy of a hit belong to handlers whose
\* message is not in the cache and does not get there.
LEMMA UnkeptStaysOut ==
    ASSUME ServerInv, AnswersInv, NEW r \in Request,
           \/ Allowlisted(r) \/ Blocklisted(r)
           \/ CacheHit(r) \/ CopyHeader(r) \/ CopyAnswers(r) \/ CacheMiss(r)
    PROVE  OnlyAnswersCached' /\ OwnersRespond' /\ CacheableKept'
<1>1. /\ UNCHANGED cache
      /\ pc[r] \in {"allow", "block", "cache", "header", "answers"}
  BY DEF Allowlisted, Blocklisted, CacheHit, CopyHeader, CopyAnswers, CacheMiss, At
<1>2. pc[r] \notin Responding
  BY <1>1 DEF Responding
<1>3. PICK p \in {"block", "cache", "header", "answers", "forward", "write"} :
        pc' = [pc EXCEPT ![r] = p]
  BY DEF Allowlisted, Blocklisted, CacheHit, CopyHeader, CopyAnswers, CacheMiss, Goto
<1>4. \A o \in Request : o # r => heap'[o] = heap[o]
  BY DEF Allowlisted, Blocklisted, CacheHit, CopyHeader, CopyAnswers, CacheMiss,
         ServerInv, CacheInv, CacheTypeOK
<1> QED
  BY <1>1, <1>2, <1>3, <1>4, HandlerStep

\* A reply of an upstream goes on to the cache, a SERVFAIL around it.
LEMMA ForwardReturnsKept ==
    ASSUME ServerInv, AnswersInv, NEW r \in Request, ForwardReturns(r)
    PROVE  OnlyAnswersCached' /\ OwnersRespond' /\ CacheableKept'
<1>1. UNCHANGED cache /\ pc[r] = "forward" /\ fwd[r] # None
  BY DEF ForwardReturns, At, Returned
<1>2. pc[r] \notin Responding
  BY <1>1 DEF Responding
<1>3. CASE fwd[r].st = "ok"
  <2>1. fwd[r].msg.src \in Kept
    BY <1>1, <1>3 DEF AnswersInv, ForwardedKept, Kept
  <2>2. heap' = [heap EXCEPT ![r] = fwd[r].msg] /\ pc' = [pc EXCEPT ![r] = "set"]
    BY <1>3 DEF ForwardReturns, Goto
  <2>3. heap'[r] = fwd[r].msg /\ \A o \in Request : o # r => heap'[o] = heap[o]
    BY <2>2, OwnMessage
  <2> QED
    BY <1>1, <1>2, <2>1, <2>2, <2>3, HandlerStep
<1>4. CASE fwd[r].st # "ok"
  <2> DEFINE m == SetRcode(r, "SERVFAIL", "servfail")
  <2>1. heap' = [heap EXCEPT ![r] = m] /\ pc' = [pc EXCEPT ![r] = "write"]
    BY <1>4 DEF ForwardReturns, Goto
  <2> HIDE DEF m
  <2>2. \A o \in Request : o # r => heap'[o] = heap[o]
    BY <2>1, OwnMessage
  <2> QED
    BY <1>1, <1>2, <2>1, <2>2, HandlerStep
<1> QED
  BY <1>3, <1>4

\* cache.Set is the one way into the cache, and what takes it is kept.
LEMMA CacheSetKept ==
    ASSUME ServerInv, AnswersInv, NEW r \in Request, CacheSet(r)
    PROVE  OnlyAnswersCached' /\ OwnersRespond' /\ CacheableKept'
<1> DEFINE k == cacheKeyFor(query[r])
           e == [msg |-> r, exp |-> now + TTL(heap[r]), set |-> now, era |-> reloads]
<1>1. /\ pc[r] = "set" /\ pc' = [pc EXCEPT ![r] = "write"] /\ UNCHANGED heap
      /\ cache' = [x \in DOMAIN cache \cup {k} |-> IF x = k THEN e ELSE cache[x]]
  BY DEF CacheSet, At, Goto, Set
<1>2. e.msg = r
  OBVIOUS
<1> HIDE DEF k, e
<1>3. heap[r].src \in Kept
  BY <1>1 DEF AnswersInv, CacheableKept
<1>4. \A o \in Request : pc'[o] = IF o = r THEN "write" ELSE pc[o]
  BY <1>1 DEF ServerInv, HandlerInv, HandlerTypeOK
<1>5. \A x \in DOMAIN cache : cache[x].msg \in Request
  BY DEF ServerInv, CacheInv, CacheTypeOK, Entry
<1>6. \A x \in DOMAIN cache' : x # k => x \in DOMAIN cache /\ cache'[x] = cache[x]
  BY <1>1
<1>7. cache'[k] = e
  BY <1>1
<1>8. OnlyAnswersCached'
  BY <1>1, <1>2, <1>3, <1>6, <1>7 DEF AnswersInv, OnlyAnswersCached, Kept
<1>9. OwnersRespond'
  BY <1>2, <1>4, <1>5, <1>6, <1>7 DEF AnswersInv, OwnersRespond, Responding
<1>10. CacheableKept'
  BY <1>1, <1>4 DEF AnswersInv, CacheableKept
<1> QED
  BY <1>8, <1>9, <1>10

\* writeResponse changes messages that are in the cache, but not where they
\* came from.
LEMMA WriteKept ==
    ASSUME ServerInv, AnswersInv, NEW r \in Request,
           WriteResponse(r) \/ TrimAnswer(r) \/ WriteMsg(r)
    PROVE  OnlyAnswersCached' /\ OwnersRespond' /\ CacheableKept'
<1>1. UNCHANGED cache /\ pc[r] \in {"write", "trim", "send"} /\ heap[r] \in Msg
  BY DEF WriteResponse, TrimAnswer, WriteMsg, At, ServerInv, HandlerInv, MessagesBuilt
<1>2. PICK p \in Responding : pc' = [pc EXCEPT ![r] = p]
  <2>1. pc = [pc EXCEPT ![r] = pc[r]]
    BY DEF ServerInv, HandlerInv, HandlerTypeOK
  <2> QED
    BY <1>1, <2>1 DEF WriteResponse, TrimAnswer, WriteMsg, Goto, Responding
<1>3. /\ \A o \in Request : o # r => heap'[o] = heap[o]
      /\ heap'[r].src = heap[r].src
  <2> DEFINE f == [heap[r] EXCEPT !.tc = TRUE]
             t == [heap[r] EXCEPT !.ans = SubSeq(@, 1, Len(@) - 1)]
  <2>1. \/ UNCHANGED heap
        \/ heap' = [heap EXCEPT ![r] = f]
        \/ heap' = [heap EXCEPT ![r] = t]
    BY DEF WriteResponse, TrimAnswer, WriteMsg
  <2>2. f.src = heap[r].src /\ t.src = heap[r].src
    BY <1>1 DEF Msg
  <2> HIDE DEF f, t
  <2> QED
    BY <2>1, <2>2, OwnMessage
<1>4. p \notin {"chain", "tail", "set"}
  BY <1>2 DEF Responding
<1> QED
  BY <1>1, <1>2, <1>3, <1>4, HandlerStep

\* Whatever an exchange yields, with or without truncation, is the upstream's.
LEMMA ExchangeKept ==
    ASSUME ServerInv, AnswersInv, NEW r \in Request, Exchange(r)
    PROVE  ForwardedKept'
<1>1. /\ fwd \in [Request -> Call \cup {None}] /\ fwd[r] # None /\ fwd[r] \in Call
  BY DEF Exchange, UdpReply, UdpTruncated, UdpFails, TcpReply, TcpFails, InExchange,
         ServerInv, ForwarderInv, ForwarderTypeOK
<1>2. \A w, n : /\ UpstreamMsg(r, w).src = "upstream"
                /\ CutTo(UpstreamMsg(r, w), n).src = "upstream"
  BY DEF UpstreamMsg, CutTo
<1>3. \A o \in Request : o # r => fwd'[o] = fwd[o]
  BY <1>1 DEF Exchange, UdpReply, UdpTruncated, UdpFails, TcpReply, TcpFails
<1>4. fwd'[r].st \in {"tcp", "ok"} => fwd'[r].msg.src = "upstream"
  <2>1. CASE UdpReply(r) \/ TcpReply(r) \/ UdpTruncated(r)
    <3>1. PICK s, m :
            m.src = "upstream" /\ fwd' = [fwd EXCEPT ![r].st = s, ![r].msg = m]
      BY <1>2, <2>1 DEF UdpReply, TcpReply, UdpTruncated
    <3>2. fwd'[r].msg = m
      BY <1>1, <3>1 DEF Call
    <3> QED
      BY <3>1, <3>2
  <2>2. CASE UdpFails(r)
    <3>1. fwd'[r].st \in {"udp", "err"}
      BY <1>1, <2>2 DEF UdpFails, InExchange, Call
    <3> QED
      BY <3>1
  <2>3. CASE TcpFails(r)
    <3>1. fwd[r].st = "tcp" /\ fwd'[r].msg = fwd[r].msg
      BY <1>1, <2>3 DEF TcpFails, InExchange, Call
    <3> QED
      BY <1>1, <3>1 DEF AnswersInv, ForwardedKept
  <2> QED
    BY <2>1, <2>2, <2>3 DEF Exchange
<1> QED
  BY <1>3, <1>4 DEF AnswersInv, ForwardedKept

\* A call of Forward begins without a message.
LEMMA ForwardKept ==
    ASSUME ServerInv, AnswersInv, NEW r \in Request, NEW q, Forward(r, q)
    PROVE  ForwardedKept'
<1>1. fwd \in [Request -> Call \cup {None}]
  BY DEF ServerInv, ForwarderInv, ForwarderTypeOK
<1>2. fwd'[r].st = "udp" /\ \A o \in Request : o # r => fwd'[o] = fwd[o]
  BY <1>1 DEF Forward
<1> QED
  BY <1>2 DEF AnswersInv, ForwardedKept

\* Nothing else gives a call of Forward a message.
LEMMA ServeForwardedKept ==
    ASSUME ServerInv, AnswersInv, NEW r \in Request, HandleDNSRequest(r)
    PROVE  ForwardedKept'
<1>1. UNCHANGED fwd => ForwardedKept'
  BY DEF AnswersInv, ForwardedKept
<1>2. CASE HandleLocalRecord(r) \/ FinishCNAME(r) \/ Allowlisted(r) \/ Blocklisted(r)
  BY <1>1, <1>2 DEF HandleLocalRecord, FinishCNAME, Allowlisted, Blocklisted
<1>3. CASE FollowCNAME(r) \/ CacheMiss(r)
  BY <1>1, <1>3, ForwardKept DEF FollowCNAME, CacheMiss
<1>4. CASE CacheHit(r) \/ CopyHeader(r) \/ CopyAnswers(r) \/ ForwardReturns(r) \/ CacheSet(r)
  BY <1>1, <1>4 DEF CacheHit, CopyHeader, CopyAnswers, ForwardReturns, CacheSet
<1>5. CASE WriteResponse(r) \/ TrimAnswer(r) \/ WriteMsg(r)
  BY <1>1, <1>5 DEF WriteResponse, TrimAnswer, WriteMsg
<1>6. CASE AwaitUpstream(r)
  BY <1>6, ExchangeKept DEF AwaitUpstream
<1> QED
  BY <1>2, <1>3, <1>4, <1>5, <1>6 DEF HandleDNSRequest

-----------------------------------------------------------------------------
\* The invariant is inductive, given the server's.
LEMMA AnswersNextInv == ServerInv /\ AnswersInv /\ [Next]_vars => AnswersInv'
<1> SUFFICES ASSUME ServerInv, AnswersInv, [Next]_vars PROVE AnswersInv'
  OBVIOUS
<1>1. ASSUME UNCHANGED <<heap, cache, fwd, handlerVars>> PROVE AnswersInv'
  BY <1>1 DEF handlerVars, AnswersInv, OnlyAnswersCached, OwnersRespond, CacheableKept,
              ForwardedKept
<1>2. ASSUME NEW r \in Request, Arrive(r) PROVE AnswersInv'
  <2>1. /\ pc[r] = "idle" /\ UNCHANGED <<heap, cache, fwd>>
        /\ \E p \in {"local", "done"} : pc' = [pc EXCEPT ![r] = p]
    BY <1>2 DEF Arrive, Receive, FormatError, At, Goto
  <2>2. pc[r] \notin Responding
    BY <2>1 DEF Responding
  <2>3. OnlyAnswersCached' /\ OwnersRespond' /\ CacheableKept'
    BY <2>1, <2>2, HandlerStep
  <2>4. ForwardedKept'
    BY <2>1 DEF AnswersInv, ForwardedKept
  <2> QED
    BY <2>3, <2>4 DEF AnswersInv
<1>3. ASSUME NEW r \in Request, Serve(r) PROVE AnswersInv'
  <2>1. HandleDNSRequest(r)
    BY <1>3 DEF Serve
  <2>2. ForwardedKept'
    BY <2>1, ServeForwardedKept
  <2>3. CASE AwaitUpstream(r)
    BY <2>2, <2>3 DEF AwaitUpstream, handlerVars, AnswersInv, OnlyAnswersCached,
                      OwnersRespond, CacheableKept
  <2> QED
    BY <2>1, <2>2, <2>3, LocalKept, UnkeptStaysOut, ForwardReturnsKept, CacheSetKept,
       WriteKept DEF HandleDNSRequest, AnswersInv
<1>4. CASE LoadRecords \/ Refresh \/ PassTime
  BY <1>1, <1>4 DEF LoadRecords, Refresh, PassTime
<1>5. CASE ClearCache
  <2>1. cache' = <<>> /\ UNCHANGED <<heap, fwd, handlerVars>>
    BY <1>5 DEF ClearCache, Clear
  <2> QED
    BY <2>1 DEF handlerVars, AnswersInv, OnlyAnswersCached, OwnersRespond,
                CacheableKept, ForwardedKept
<1>6. CASE UNCHANGED vars
  BY <1>1, <1>6 DEF vars
<1> QED
  BY <1>2, <1>3, <1>4, <1>5, <1>6 DEF Next

\* The cache holds only what local records or an upstream said: no NXDOMAIN of
\* the filter and no SERVFAIL of the handler gets into it, although its
\* messages are shared with handlers that go on changing them.
THEOREM CacheSafe == Spec => []OnlyAnswersCached
<1>1. Init => AnswersInv
  BY DEF Init, CacheInit, ForwarderInit, HandlerInit, AnswersInv, OnlyAnswersCached,
         OwnersRespond, CacheableKept, ForwardedKept
<1>2. ResolvitInv => ServerInv
  BY DEF ResolvitInv
<1>3. AnswersInv => OnlyAnswersCached
  BY DEF AnswersInv
<1> QED
  BY ServerSafe, AnswersNextInv, <1>1, <1>2, <1>3, PTL DEF Spec
=============================================================================
