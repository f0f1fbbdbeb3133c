--------------------------- MODULE HistoryProofs ---------------------------
(***************************************************************************)
(* The server implements a cache of values, for any number of requests and *)
(* any questions, records, lists and upstream replies.                     *)
(***************************************************************************)
EXTENDS ReplyProofs, AnswerHistory

-----------------------------------------------------------------------------
(***************************************************************************)
(* The invariant.  Every message object is, at any time, a shortening of   *)
(* the value that was stored for its owner.  A hit copies the header of an *)
(* object in one step and its answers in another: both come from the same  *)
(* value, because no request stores twice.                                 *)
(***************************************************************************)

\* m has the header of v; the truncated flag may have been set.
HeaderOf(m, v) ==
    /\ m.question = v.question /\ m.rcode = v.rcode /\ m.rest = v.rest
    /\ m.src = v.src /\ m.made = v.made /\ m.lost = v.lost /\ m.gen = v.gen
    /\ v.tc => m.tc

\* The answers s are the answers t, or the first of them; over TCP, all.
AnswersOf(s, t, proto) ==
    /\ Len(s) =< Len(t)
    /\ \A i \in 1..Len(s) : s[i] = t[i]
    /\ proto = "tcp" => Len(s) = Len(t)

Shortens(m, v, proto) == HeaderOf(m, v) /\ AnswersOf(m.ans, v.ans, proto)

\* What is known was stored by the requests it was made for, once by each.
KnownValues ==
    /\ \A k \in known :
          /\ k.msg \in Msg /\ k.question \in Query
          /\ pc[k.msg.id] \in Responding
          /\ k.question = query[k.msg.id]
    /\ \A k, l \in known : k.msg.id = l.msg.id => k = l

\* The owner of the value that a handler's message repeats.
OwnerOf(r) == IF hit[r] = None THEN r ELSE hit[r].entry.msg

Repeating(r) ==
    /\ pc[r] = "idle" => query[r] = None
    /\ pc[r] = "answers" => \E k \in known : k.msg.id = OwnerOf(r) /\ HeaderOf(heap[r], k.msg)
    /\ pc[r] \in Responding /\ heap[r] # None =>
          IF heap[r].src \in Kept
          THEN \E k \in known : k.msg.id = OwnerOf(r) /\ Shortens(heap[r], k.msg, query[r].proto)
          ELSE heap[r].ans = <<>>

HistoryInv == KnownValues /\ \A r \in Request : Repeating(r)

-----------------------------------------------------------------------------
(* What a step stores *)

\* Only cache.Set adds to the history.
LEMMA NothingStored ==
    ASSUME cache' = cache \/ cache' = <<>>
    PROVE  Storing = {}
  BY DEF Storing

\* Set stores the message of its handler, which no entry referred to before.
LEMMA SetStores ==
    ASSUME ServerState, NEW r \in Request, CacheSet(r)
    PROVE  Storing = {r}
<1> DEFINE k == cacheKeyFor(query[r])
           e == [msg |-> r, exp |-> now + TTL(heap[r]), set |-> now, era |-> reloads]
<1>1. /\ pc[r] = "set"
      /\ cache' = [x \in DOMAIN cache \cup {k} |-> IF x = k THEN e ELSE cache[x]]
  BY DEF CacheSet, Set, At
<1>2. \A x \in DOMAIN cache : cache[x].msg # r
  BY <1>1 DEF ServerState, AnswersInv, OwnersRespond, Responding
<1>3. e.msg = r
  OBVIOUS
<1> HIDE DEF k, e
<1>4. /\ k \in DOMAIN cache' /\ cache'[k] = e
      /\ k \notin DOMAIN cache \/ cache'[k] # cache[k]
  BY <1>1, <1>2, <1>3
<1>5. \A x \in DOMAIN cache' : x # k => x \in DOMAIN cache /\ cache'[x] = cache[x]
  BY <1>1
<1>6. ASSUME NEW s PROVE s \in Storing <=> s = r
  BY <1>3, <1>4, <1>5 DEF Storing
<1> QED
  BY <1>6

\* The history grows by the message that Set is called with.
LEMMA KnownGrows ==
    ASSUME ServerState, HistoryNext
    PROVE  /\ known \subseteq known'
           /\ \/ known' = known
              \/ \E r \in Request :
                    /\ CacheSet(r) /\ Serve(r)
                    /\ known' = known \cup {[question |-> query[r], msg |-> heap[r]]}
           /\ \A r \in Request : CacheSet(r) =>
                 known' = known \cup {[question |-> query[r], msg |-> heap[r]]}
<1>1. known' = known \cup {[question |-> query[r], msg |-> heap[r]] : r \in Storing}
  BY DEF HistoryNext
<1>2. ASSUME NEW r \in Request, CacheSet(r)
      PROVE  known' = known \cup {[question |-> query[r], msg |-> heap[r]]}
  BY <1>1, <1>2, SetStores
<1>3. ASSUME cache' = cache \/ cache' = <<>> PROVE known' = known
  BY <1>1, <1>3, NothingStored
<1>4. ASSUME NEW r \in Request, Serve(r), ~CacheSet(r) PROVE known' = known
  BY <1>3, <1>4 DEF Serve, HandleDNSRequest, HandleLocalRecord, FollowCNAME, FinishCNAME,
        Allowlisted, Blocklisted, CacheHit, CopyHeader, CopyAnswers, CacheMiss, ForwardReturns,
        WriteResponse, TrimAnswer, WriteMsg, AwaitUpstream
<1>5. ASSUME NEW r \in Request, Arrive(r) PROVE known' = known
  BY <1>3, <1>5 DEF Arrive, Receive, FormatError
<1>6. ASSUME LoadRecords \/ ClearCache \/ Refresh \/ PassTime PROVE known' = known
  BY <1>3, <1>6 DEF LoadRecords, ClearCache, Clear, Refresh, PassTime
<1>7. \/ known' = known
      \/ \E r \in Request :
            /\ CacheSet(r) /\ Serve(r)
            /\ known' = known \cup {[question |-> query[r], msg |-> heap[r]]}
  BY <1>2, <1>4, <1>5, <1>6 DEF HistoryNext, Next
<1> QED
  BY <1>1, <1>2, <1>7

-----------------------------------------------------------------------------
(* The invariant is inductive *)

\* A message shortens itself.
LEMMA ShortensSelf ==
    ASSUME NEW m \in Msg, NEW proto PROVE Shortens(m, m, proto)
  BY DEF Msg, Shortens, HeaderOf, AnswersOf

\* So does what is left of such a message without its last answer.
LEMMA ShortensCut ==
    ASSUME NEW s \in Seq(RR), NEW t \in Seq(RR), Len(s) > 0, AnswersOf(s, t, "udp")
    PROVE  AnswersOf(SubSeq(s, 1, Len(s) - 1), t, "udp")
<1> DEFINE n == Len(s) - 1
           u == SubSeq(s, 1, n)
<1>1. n \in Nat /\ n =< Len(s) /\ Len(s) \in Nat /\ Len(t) \in Nat
  OBVIOUS
<1> HIDE DEF n
<1>2. Len(u) = n /\ \A i \in 1..n : u[i] = s[i]
  BY <1>1
<1> HIDE DEF u
<1>3. \A i \in 1..n : i \in 1..Len(s)
  BY <1>1
<1>4. AnswersOf(u, t, "udp")
  BY <1>1, <1>2, <1>3 DEF AnswersOf
<1> QED
  BY <1>4 DEF u, n

\* The object a hit refers to shortens the one value its owner stored.
LEMMA OriginalRepeats ==
    ASSUME ServerState, HistoryInv, NEW r \in Request, hit[r] # None
    PROVE  LET o == hit[r].entry.msg
           IN  /\ o \in Request /\ heap[o].src \in Kept
               /\ query[o].proto = query[r].proto
               /\ \E k \in known : k.msg.id = o /\ Shortens(heap[o], k.msg, query[r].proto)
<1> DEFINE o == hit[r].entry.msg
<1>1. o \in Request /\ heap[o] # None /\ query[o].proto = query[r].proto
  BY OriginalAnswers
<1>2. pc[o] \in Responding /\ hit[o] = None /\ heap[o].src \in Kept
  BY DEF ServerState, RepliesInv, Replies, HitBacked, Backed
<1>3. Repeating(o) /\ OwnerOf(o) = o
  BY <1>1, <1>2 DEF HistoryInv, OwnerOf
<1>4. \E k \in known : k.msg.id = o /\ Shortens(heap[o], k.msg, query[r].proto)
  BY <1>1, <1>2, <1>3 DEF Repeating
<1> QED
  BY <1>1, <1>2, <1>4

\* What was known of a handler's message stays so if the handler does nothing.
LEMMA RestRepeats ==
    ASSUME HistoryInv, NEW r \in Request, known \subseteq known',
           pc'[r] = pc[r], query'[r] = query[r], hit'[r] = hit[r], heap'[r] = heap[r]
    PROVE  Repeating(r)'
<1>1. Repeating(r)
  BY DEF HistoryInv
<1> QED
  BY <1>1 DEF Repeating, OwnerOf

\* writeResponse shortens the message.
LEMMA WriteRepeats ==
    ASSUME ServerState, HistoryInv, NEW r \in Request, known \subseteq known',
           WriteResponse(r) \/ TrimAnswer(r) \/ WriteMsg(r)
    PROVE  Repeating(r)'
<1> USE DEF ServerState
<1>1. /\ heap[r] \in Msg /\ heap[r] # None /\ Reanswered(heap'[r], heap[r])
      /\ heap'[r].made = heap[r].made /\ heap'[r].lost = heap[r].lost
      /\ UNCHANGED <<query, hit>> /\ pc[r] \in Responding /\ pc'[r] \in Responding
  BY WriteKeeps
<1>2. OwnerOf(r)' = OwnerOf(r)
  BY <1>1 DEF OwnerOf
<1>3. /\ heap[r].tc => heap'[r].tc
      /\ \/ heap'[r].ans = heap[r].ans
         \/ /\ Len(heap[r].ans) > 0 /\ query[r].proto = "udp"
            /\ heap'[r].ans = SubSeq(heap[r].ans, 1, Len(heap[r].ans) - 1)
  <2>1. pc[r] = "trim" => query[r].proto = "udp"
    BY <1>1 DEF RepliesInv, Replies, Built
  <2> QED
    BY <2>1, WriteEffect
<1>4. Repeating(r)
  BY DEF HistoryInv
<1>5. pc'[r] # "idle" /\ pc'[r] # "answers"
  BY <1>1 DEF Responding
<1>6. CASE heap[r].src \in Kept
  <2>1. PICK k \in known : k.msg.id = OwnerOf(r) /\ Shortens(heap[r], k.msg, query[r].proto)
    BY <1>1, <1>4, <1>6 DEF Repeating
  <2>2. HeaderOf(heap'[r], k.msg)
    BY <1>1, <1>3, <2>1 DEF Shortens, HeaderOf, Reanswered
  <2>3. k.msg.ans \in Seq(RR) /\ heap[r].ans \in Seq(RR)
    BY <1>1 DEF HistoryInv, KnownValues, Msg
  <2>4. AnswersOf(heap'[r].ans, k.msg.ans, query[r].proto)
    BY <1>3, <2>1, <2>3, ShortensCut DEF Shortens
  <2>5. heap'[r].src \in Kept /\ k \in known'
    BY <1>1, <1>6 DEF Reanswered
  <2> QED
    BY <1>1, <1>2, <1>5, <2>1, <2>2, <2>4, <2>5 DEF Repeating, Shortens
<1>7. CASE heap[r].src \notin Kept
  <2>1. heap[r].ans = <<>>
    BY <1>1, <1>4, <1>7 DEF Repeating
  <2>2. heap'[r].ans = <<>> /\ heap'[r].src \notin Kept
    BY <1>1, <1>3, <1>7, <2>1 DEF Reanswered
  <2> QED
    BY <1>5, <2>2 DEF Repeating
<1> QED
  BY <1>6, <1>7

\* The steps of a handler.
LEMMA HandlerRepeats ==
    ASSUME ServerState, HistoryInv, HistoryNext, NEW r \in Request, Arrive(r) \/ Serve(r)
    PROVE  Repeating(r)'
<1> USE DEF ServerState
<1>1. known \subseteq known'
  BY KnownGrows
<1>2. InPlace(r)
  BY DEF RepliesInv, Replies
<1>3. ASSUME pc'[r] \notin Responding \cup {"idle", "answers"} PROVE Repeating(r)'
  BY <1>3 DEF Repeating
<1>4. ASSUME pc'[r] \in Responding, heap'[r].ans = <<>>, heap'[r].src \notin Kept
      PROVE  Repeating(r)'
  BY <1>4 DEF Repeating, Responding
<1>5. CASE Arrive(r)
  <2>1. pc[r] = "idle" /\ UNCHANGED heap /\ pc'[r] \in {"local", "done"}
    BY <1>5, ArriveEffect
  <2>2. heap'[r] = None
    BY <1>2, <2>1 DEF InPlace
  <2> QED
    BY <2>1, <2>2 DEF Repeating, Responding
<1>6. CASE HandleLocalRecord(r) \/ FollowCNAME(r) \/ FinishCNAME(r)
  <2>1. pc'[r] \in {"allow", "cache", "set", "chain", "tail"}
    BY <1>6, LocalEffect, FollowEffect, FinishEffect
  <2> QED
    BY <1>3, <2>1 DEF Responding
<1>7. CASE CacheHit(r) \/ CacheMiss(r)
  <2>1. pc'[r] \in {"header", "forward"}
    BY <1>7, HitEffect, MissEffect
  <2> QED
    BY <1>3, <2>1 DEF Responding
<1>8. CASE Allowlisted(r) \/ Blocklisted(r) \/ ForwardReturns(r)
  <2>1. \/ pc'[r] \in {"cache", "block", "set"}
        \/ pc'[r] = "write" /\ OwnReply(heap'[r], r, "filter", <<>>)
        \/ pc'[r] = "write" /\ OwnReply(heap'[r], r, "servfail", <<>>)
    BY <1>8, FilterEffect, ReturnEffect
  <2> QED
    BY <1>3, <1>4, <2>1 DEF Responding, Kept, OwnReply
<1>9. CASE CopyHeader(r) \/ CopyAnswers(r)
  <2> DEFINE o == hit[r].entry.msg
             m == heap[o]
  <2>1. pc[r] \in {"header", "answers"}
    BY <1>9 DEF CopyHeader, CopyAnswers, At
  <2>2. hit[r] # None
    BY <2>1, Known
  <2>3. PICK k \in known : k.msg.id = o /\ Shortens(m, k.msg, query[r].proto)
    BY <2>2, OriginalRepeats
  <2>4. m.src \in Kept /\ OwnerOf(r) = o
    BY <2>2, OriginalRepeats DEF OwnerOf
  <2>5. /\ UNCHANGED <<query, hit>>
        /\ \/ /\ pc[r] = "header" /\ pc'[r] = "answers"
              /\ heap'[r].question = m.question /\ heap'[r].tc = m.tc
              /\ heap'[r].rcode = m.rcode /\ heap'[r].rest = m.rest
              /\ heap'[r].src = m.src /\ heap'[r].made = m.made
              /\ heap'[r].lost = m.lost /\ heap'[r].gen = m.gen
           \/ /\ pc[r] = "answers" /\ pc'[r] = "write"
              /\ Reanswered(heap'[r], heap[r]) /\ heap'[r].ans = m.ans
              /\ heap'[r].tc = heap[r].tc
              /\ heap'[r].made = heap[r].made /\ heap'[r].lost = heap[r].lost
    BY <1>9, CopyEffect
  <2>6. OwnerOf(r)' = o /\ k \in known'
    BY <1>1, <2>4, <2>5 DEF OwnerOf
  <2> HIDE DEF o, m
  <2>7. CASE pc'[r] = "answers"
    <3>1. HeaderOf(heap'[r], k.msg)
      BY <2>3, <2>5, <2>7 DEF Shortens, HeaderOf
    <3> QED
      BY <2>3, <2>6, <2>7, <3>1 DEF Repeating, Responding
  <2>8. CASE pc'[r] = "write"
    <3>1. PICK l \in known : l.msg.id = o /\ HeaderOf(heap[r], l.msg)
      BY <2>4, <2>5, <2>8 DEF HistoryInv, Repeating
    <3>2. l = k
      BY <2>3, <3>1 DEF HistoryInv, KnownValues
    <3>3. HeaderOf(heap'[r], k.msg)
      BY <2>5, <2>8, <3>1, <3>2 DEF HeaderOf, Reanswered
    <3>4. AnswersOf(heap'[r].ans, k.msg.ans, query[r].proto)
      BY <2>3, <2>5, <2>8 DEF Shortens
    <3>5. heap'[r].src \in Kept
      BY <2>3, <2>4, <3>3 DEF Shortens, HeaderOf
    <3> QED
      BY <2>3, <2>5, <2>6, <2>8, <3>3, <3>4, <3>5 DEF Repeating, Shortens
  <2> QED
    BY <2>5, <2>7, <2>8
<1>10. CASE CacheSet(r)
  <2> DEFINE k == [question |-> query[r], msg |-> heap[r]]
  <2>1. pc[r] = "set" /\ pc'[r] = "write" /\ UNCHANGED <<query, hit, heap>>
    BY <1>10, SetEffect
  <2>2. heap[r] \in Msg /\ heap[r] # None /\ hit[r] = None
    BY <1>2, <2>1, Known DEF InPlace
  <2>3. heap[r].src \in Kept /\ heap[r].id = r
    BY <2>1, <2>2 DEF AnswersInv, CacheableKept, RepliesInv, Replies, Built, Answers
  <2>4. k \in known' /\ k.msg = heap[r]
    BY <1>10, KnownGrows
  <2>5. Shortens(heap[r], heap[r], query[r].proto)
    BY <2>2, ShortensSelf
  <2>6. OwnerOf(r)' = r
    BY <2>1, <2>2 DEF OwnerOf
  <2> HIDE DEF k
  <2> QED
    BY <2>1, <2>3, <2>4, <2>5, <2>6 DEF Repeating
<1>11. CASE WriteResponse(r) \/ TrimAnswer(r) \/ WriteMsg(r)
  BY <1>1, <1>11, WriteRepeats
<1>12. CASE AwaitUpstream(r)
  BY <1>1, <1>12, RestRepeats DEF AwaitUpstream, handlerVars
<1> QED
  BY <1>5, <1>6, <1>7, <1>8, <1>9, <1>10, <1>11, <1>12 DEF Serve, HandleDNSRequest

\* A handler that responds goes on responding to the same question.
LEMMA StillResponding ==
    ASSUME ServerState, NEW r \in Request, Arrive(r) \/ Serve(r),
           NEW o \in Request, pc[o] \in Responding
    PROVE  pc'[o] \in Responding /\ query'[o] = query[o]
<1> USE DEF ServerState
<1>1. CASE o # r
  BY <1>1, OthersUntouched DEF Elsewhere
<1>2. CASE WriteResponse(r) \/ TrimAnswer(r) \/ WriteMsg(r)
  BY <1>1, <1>2, WriteKeeps
<1>3. CASE AwaitUpstream(r)
  BY <1>3 DEF AwaitUpstream, handlerVars
<1>4. CASE o = r /\ (HandleLocalRecord(r) \/ FollowCNAME(r) \/ FinishCNAME(r)
                     \/ Allowlisted(r) \/ Blocklisted(r))
  BY <1>4 DEF HandleLocalRecord, FollowCNAME, FinishCNAME, Allowlisted, Blocklisted, At,
              Responding
<1>5. CASE o = r /\ (CacheHit(r) \/ CopyHeader(r) \/ CopyAnswers(r) \/ CacheMiss(r)
                     \/ ForwardReturns(r) \/ CacheSet(r))
  BY <1>5 DEF CacheHit, CopyHeader, CopyAnswers, CacheMiss, ForwardReturns, CacheSet, At,
              Responding
<1>6. CASE o = r /\ Arrive(r)
  BY <1>6, ArriveEffect DEF Responding
<1> QED
  BY <1>1, <1>2, <1>3, <1>4, <1>5, <1>6 DEF Serve, HandleDNSRequest

\* What Set is called with, and that its handler called it once.
LEMMA SetOnce ==
    ASSUME ServerState, HistoryInv, NEW r \in Request, CacheSet(r)
    PROVE  /\ heap[r] \in Msg /\ heap[r].id = r /\ heap[r].src \in Kept
           /\ query[r] \in Query /\ out[r] = None
           /\ pc'[r] \in Responding /\ UNCHANGED <<query, out>>
           /\ \A k \in known : k.msg.id # r
<1> USE DEF ServerState
<1>1. pc[r] = "set" /\ pc'[r] = "write" /\ UNCHANGED <<query, out>>
  BY SetEffect
<1>2. heap[r] \in Msg /\ heap[r] # None /\ query[r] \in Query /\ out[r] = None
  BY <1>1, Known DEF InPlace
<1>3. heap[r].src \in Kept /\ heap[r].id = r
  BY <1>1, <1>2 DEF AnswersInv, CacheableKept, RepliesInv, Replies, Built, Answers
<1>4. \A k \in known : k.msg.id # r
  BY <1>1 DEF HistoryInv, KnownValues, Responding
<1> QED
  BY <1>1, <1>2, <1>3, <1>4 DEF Responding

\* Handlers keep the history in order.
LEMMA KnownStep ==
    ASSUME ServerState, HistoryInv, HistoryNext, NEW r \in Request, Arrive(r) \/ Serve(r)
    PROVE  KnownValues'
<1>1. ASSUME NEW k \in known
      PROVE  /\ k.msg \in Msg /\ k.question \in Query
             /\ pc'[k.msg.id] \in Responding
             /\ k.question = query'[k.msg.id]
  <2>1. k.msg \in Msg /\ k.question \in Query /\ pc[k.msg.id] \in Responding
    BY DEF HistoryInv, KnownValues
  <2>2. k.question = query[k.msg.id] /\ k.msg.id \in Request
    BY <2>1 DEF HistoryInv, KnownValues, Msg
  <2> QED
    BY <2>1, <2>2, StillResponding
<1>2. \A k, l \in known : k.msg.id = l.msg.id => k = l
  BY DEF HistoryInv, KnownValues
<1>3. CASE known' = known
  BY <1>1, <1>2, <1>3 DEF KnownValues
<1>4. ASSUME NEW s \in Request, CacheSet(s),
             known' = known \cup {[question |-> query[s], msg |-> heap[s]]}
      PROVE  KnownValues'
  <2> DEFINE n == [question |-> query[s], msg |-> heap[s]]
  <2>1. n.question = query[s] /\ n.msg = heap[s]
    OBVIOUS
  <2>2. /\ n.msg \in Msg /\ n.msg.id = s /\ n.question \in Query
        /\ pc'[s] \in Responding /\ n.question = query'[s]
        /\ \A k \in known : k.msg.id # s
    BY <1>4, <2>1, SetOnce
  <2> HIDE DEF n
  <2>3. known' = known \cup {n}
    BY <1>4 DEF n
  <2> QED
    BY <1>1, <1>2, <2>2, <2>3 DEF KnownValues
<1> QED
  BY <1>3, <1>4, KnownGrows

\* Every step keeps the invariant.
LEMMA HistoryNextInv ==
    ServerState /\ HistoryInv /\ [HistoryNext]_<<vars, known>> => HistoryInv'
<1> SUFFICES ASSUME ServerState, HistoryInv, [HistoryNext]_<<vars, known>> PROVE HistoryInv'
  OBVIOUS
<1>1. ASSUME UNCHANGED <<heap, handlerVars, known>> PROVE HistoryInv'
  <2>1. \A r \in Request : Repeating(r)'
    BY <1>1, RestRepeats DEF handlerVars
  <2>2. KnownValues'
    BY <1>1 DEF HistoryInv, KnownValues, handlerVars
  <2> QED
    BY <2>1, <2>2 DEF HistoryInv
<1>2. CASE UNCHANGED <<vars, known>>
  BY <1>1, <1>2 DEF vars
<1>3. CASE HistoryNext /\ (LoadRecords \/ ClearCache \/ Refresh \/ PassTime)
  <2>1. UNCHANGED <<heap, handlerVars>> /\ (cache' = cache \/ cache' = <<>>)
    BY <1>3 DEF LoadRecords, ClearCache, Clear, Refresh, PassTime
  <2>2. known' = known
    BY <1>3, <2>1, NothingStored DEF HistoryNext
  <2> QED
    BY <1>1, <2>1, <2>2
<1>4. ASSUME HistoryNext, NEW r \in Request, Arrive(r) \/ Serve(r) PROVE HistoryInv'
  <2>1. known \subseteq known'
    BY <1>4, KnownGrows
  <2>2. ASSUME NEW o \in Request, o # r PROVE Repeating(o)'
    BY <1>4, <2>1, <2>2, OthersUntouched, RestRepeats DEF Elsewhere, ServerState
  <2>3. Repeating(r)'
    BY <1>4, HandlerRepeats
  <2>4. KnownValues'
    BY <1>4, KnownStep
  <2> QED
    BY <2>2, <2>3, <2>4 DEF HistoryInv
<1> QED
  BY <1>2, <1>3, <1>4 DEF HistoryNext, Next

\* It holds when the server starts.
LEMMA HistoryInitInv == HistoryInit => HistoryInv
  BY HandlerAssumption DEF HistoryInit, Init, HandlerInit, HistoryInv, KnownValues, Repeating,
     Responding

-----------------------------------------------------------------------------
(* The steps of the server are steps of a cache of values *)

\* What shortens a value repeats it.
LEMMA ShorteningRepeats ==
    ASSUME NEW m \in Msg, NEW v \in Msg, NEW proto, Shortens(m, v, proto)
    PROVE  Values!Repeats(m, v, proto)
<1> DEFINE n == Len(m.ans)
           s == SubSeq(v.ans, 1, n)
           w == [v EXCEPT !.id = m.id, !.tc = m.tc, !.ans = s]
<1>1. m.ans \in Seq(RR) /\ v.ans \in Seq(RR)
  BY DEF Msg
<1>2. n \in 0..Len(v.ans) /\ (proto = "tcp" => n = Len(v.ans))
  BY <1>1 DEF Shortens, AnswersOf
<1>3. m.ans = s
  <2>1. \A i \in 1..n : m.ans[i] = v.ans[i]
    BY DEF Shortens, AnswersOf
  <2>2. s \in Seq(RR) /\ Len(s) = n /\ \A i \in 1..n : s[i] = v.ans[i]
    BY <1>1, <1>2
  <2> HIDE DEF s
  <2> QED
    BY <1>1, <2>1, <2>2
<1>4. m = w
  <2>1. HeaderOf(m, v)
    BY DEF Shortens
  <2> HIDE DEF s
  <2> QED
    BY <1>3, <2>1 DEF Msg, HeaderOf
<1>5. v.tc => m.tc
  BY DEF Shortens, HeaderOf
<1> QED
  BY <1>2, <1>4, <1>5 DEF Values!Repeats

\* A message that is sent repeats the value of its owner, which asked the same
\* question, unless it refuses to answer.
LEMMA SendingAnswers ==
    ASSUME ServerState, HistoryInv, NEW r \in Request, pc[r] = "send"
    PROVE  \/ Values!Refusal(heap[r])
           \/ \E k \in known : /\ Values!SameQuestion(k.question, query[r])
                               /\ Values!Repeats(heap[r], k.msg, query[r].proto)
<1> USE DEF ServerState
<1>1. heap[r] \in Msg /\ heap[r] # None /\ query[r] \in Query
  BY Known DEF InPlace
<1>2. Repeating(r)
  BY DEF HistoryInv
<1>3. CASE heap[r].src \notin Kept
  <2>1. heap[r].ans = <<>>
    BY <1>1, <1>2, <1>3 DEF Repeating, Responding
  <2> QED
    BY <1>1, <1>3, <2>1 DEF Msg, Source, Kept, Values!Refusal
<1>4. CASE heap[r].src \in Kept
  <2>1. PICK k \in known : k.msg.id = OwnerOf(r) /\ Shortens(heap[r], k.msg, query[r].proto)
    BY <1>1, <1>2, <1>4 DEF Repeating, Responding
  <2>2. k.msg \in Msg /\ k.question \in Query /\ k.question = query[OwnerOf(r)]
    BY <2>1 DEF HistoryInv, KnownValues
  <2>3. Values!Repeats(heap[r], k.msg, query[r].proto)
    BY <1>1, <2>1, <2>2, ShorteningRepeats
  <2>4. cacheKeyFor(query[OwnerOf(r)]) = cacheKeyFor(query[r])
    BY DEF OwnerOf, RepliesInv, Replies, HitBacked, Backed
  <2>5. /\ Lower(k.question.name) = Lower(query[r].name)
        /\ k.question.qtype = query[r].qtype /\ k.question.proto = query[r].proto
    BY <2>2, <2>4 DEF cacheKeyFor
  <2>6. Values!SameQuestion(k.question, query[r])
    BY <1>1, <2>2, <2>5, HandlerAssumption DEF Values!SameQuestion, Values!Lower, Lower
  <2> QED
    BY <2>3, <2>6
<1> QED
  BY <1>3, <1>4

\* Every step of the server is one of the cache of values, or none.
LEMMA ValuesStep ==
    ServerState /\ HistoryInv /\ [HistoryNext]_<<vars, known>>
        => [Values!KnownNext]_(Values!cacheVars)
<1> SUFFICES ASSUME ServerState, HistoryInv, [HistoryNext]_<<vars, known>>
             PROVE  [Values!KnownNext]_(Values!cacheVars)
  OBVIOUS
<1> USE DEF ServerState
<1>1. ASSUME UNCHANGED <<query, known, out>> PROVE [Values!KnownNext]_(Values!cacheVars)
  BY <1>1 DEF Values!cacheVars
<1>2. CASE UNCHANGED <<vars, known>>
  BY <1>1, <1>2 DEF vars, handlerVars
<1>3. CASE HistoryNext /\ (LoadRecords \/ ClearCache \/ Refresh \/ PassTime)
  <2>1. UNCHANGED handlerVars /\ (cache' = cache \/ cache' = <<>>)
    BY <1>3 DEF LoadRecords, ClearCache, Clear, Refresh, PassTime
  <2>2. known' = known
    BY <1>3, <2>1, NothingStored DEF HistoryNext
  <2> QED
    BY <1>1, <2>1, <2>2 DEF handlerVars
<1>4. ASSUME HistoryNext, NEW r \in Request, Arrive(r)
      PROVE  [Values!KnownNext]_(Values!cacheVars)
  <2>1. pc[r] = "idle" /\ known' = known
    <3>1. pc[r] = "idle" /\ UNCHANGED cache
      BY <1>4, ArriveEffect
    <3> QED
      BY <1>4, <3>1, NothingStored DEF HistoryNext
  <2>2. query[r] = None /\ out[r] = None
    BY <2>1, Known DEF HistoryInv, Repeating, InPlace
  <2>3. CASE Receive(r)
    <3>1. PICK q \in Queries : query' = [query EXCEPT ![r] = q]
      BY <2>3 DEF Receive
    <3>2. query'[r] = q /\ q \in Query /\ UNCHANGED out
      BY <2>3, <3>1, Functions, HandlerAssumption DEF Receive
    <3>3. Values!Ask(r)
      BY <2>1, <2>2, <3>1, <3>2 DEF Values!Ask, Values!Query, Values!Name, Values!Proto, Query,
                                    Name, Proto
    <3> QED
      BY <3>3 DEF Values!KnownNext
  <2>4. CASE FormatError(r)
    <3> DEFINE m == [id |-> r, question |-> None, rcode |-> "FORMERR", tc |-> FALSE,
                     ans |-> <<>>, rest |-> 0, src |-> "formerr", made |-> 0, lost |-> 0,
                     gen |-> gen]
    <3>1. UNCHANGED query /\ out' = [out EXCEPT ![r] = m]
      BY <2>4 DEF FormatError
    <3>2. m.id = r /\ m.ans = <<>> /\ m.src = "formerr" /\ m \in Msg
      BY DEF Msg, Source, ResolvitInv, ServerInv, StoreInv, RecordsTypeOK
    <3> HIDE DEF m
    <3>3. out'[r] = m /\ m # None
      BY <3>1, <3>2, Functions, HandlerAssumption
    <3>4. Values!Answer(r)
      BY <2>1, <2>2, <3>1, <3>2, <3>3 DEF Values!Answer, Values!Refusal
    <3> QED
      BY <3>4 DEF Values!KnownNext
  <2> QED
    BY <1>4, <2>3, <2>4 DEF Arrive
<1>5. ASSUME HistoryNext, NEW r \in Request, CacheSet(r)
      PROVE  [Values!KnownNext]_(Values!cacheVars)
  <2> DEFINE k == [question |-> query[r], msg |-> heap[r]]
  <2>1. k.question = query[r] /\ k.msg = heap[r]
    OBVIOUS
  <2> HIDE DEF k
  <2>2. known' = known \cup {k}
    BY <1>5, KnownGrows DEF k
  <2>3. /\ k.msg.src \in {"local", "upstream"} /\ k.question = query[k.msg.id]
        /\ out[k.msg.id] = None /\ UNCHANGED <<query, out>>
    BY <1>5, <2>1, SetOnce DEF Kept
  <2>4. Values!Learn
    BY <2>2, <2>3 DEF Values!Learn
  <2> QED
    BY <2>4 DEF Values!KnownNext
<1>6. ASSUME HistoryNext, NEW r \in Request, Serve(r), WriteMsg(r)
      PROVE  [Values!KnownNext]_(Values!cacheVars)
  <2>1. /\ pc[r] = "send" /\ UNCHANGED query /\ UNCHANGED cache
        /\ out' = [out EXCEPT ![r] = IF CanPack(heap[r]) THEN heap[r] ELSE None]
    BY <1>6 DEF WriteMsg, At
  <2>2. known' = known
    BY <1>6, <2>1, NothingStored DEF HistoryNext
  <2>3. out[r] = None /\ heap[r] # None /\ heap[r].id = r
    BY <2>1, Known DEF InPlace, RepliesInv, Replies, Built, Answers
  <2>4. CASE CanPack(heap[r])
    <3>1. out' = [out EXCEPT ![r] = heap[r]] /\ out'[r] = heap[r]
      BY <2>1, <2>4, Functions
    <3>2. Values!Answer(r)
      BY <2>1, <2>2, <2>3, <3>1, SendingAnswers DEF Values!Answer
    <3> QED
      BY <3>2 DEF Values!KnownNext
  <2>5. CASE ~CanPack(heap[r])
    <3>1. out' = out
      BY <2>1, <2>3, <2>5, Functions
    <3> QED
      BY <1>1, <2>1, <2>2, <3>1
  <2> QED
    BY <2>4, <2>5
<1>7. ASSUME HistoryNext, NEW r \in Request, Serve(r), ~CacheSet(r), ~WriteMsg(r)
      PROVE  [Values!KnownNext]_(Values!cacheVars)
  <2>1. UNCHANGED <<query, out, cache>>
    BY <1>7 DEF Serve, HandleDNSRequest, HandleLocalRecord, FollowCNAME, FinishCNAME,
        Allowlisted, Blocklisted, CacheHit, CopyHeader, CopyAnswers, CacheMiss, ForwardReturns,
        WriteResponse, TrimAnswer, AwaitUpstream, handlerVars
  <2>2. known' = known
    BY <1>7, <2>1, NothingStored DEF HistoryNext
  <2> QED
    BY <1>1, <2>1, <2>2
<1> QED
  BY <1>2, <1>3, <1>4, <1>5, <1>6, <1>7 DEF HistoryNext, Next

\* Handlers go on cutting messages that others are copying, a header in one
\* step and the answers in another, and yet the server implements ValueCache:
\* every reply repeats one message as it was stored for the same question, or
\* refuses, whatever the requests, their number and their interleaving.
THEOREM ValuesRefined == HistorySpec => RepliesRepeatValues
<1>1. HistorySpec => Spec
  <2>1. HistoryInit => Init
    BY DEF HistoryInit
  <2>2. [HistoryNext]_<<vars, known>> => [Next]_vars
    BY DEF HistoryNext
  <2> QED
    BY <2>1, <2>2, PTL DEF HistorySpec, Spec
<1>2. HistoryInit => Values!KnownInit
  BY DEF HistoryInit, Init, HandlerInit, Values!KnownInit
<1> QED
  BY <1>1, <1>2, StateSafe, HistoryInitInv, HistoryNextInv, ValuesStep, PTL
     DEF HistorySpec, RepliesRepeatValues, Values!KnownSpec
=============================================================================
