--------------------------- MODULE AnswerHistory ---------------------------
(***************************************************************************)
(* Resolvit with a history variable: the messages cache.Set was called     *)
(* with, as they were at that moment.  The cache itself keeps pointers to  *)
(* message objects that their handlers go on cutting while other handlers  *)
(* copy them; the history is what a cache of values would have held.       *)
(***************************************************************************)
EXTENDS Resolvit

VARIABLE known

\* The requests whose message this step stores.
Storing ==
    {cache'[k].msg : k \in {k \in DOMAIN cache' : k \notin DOMAIN cache \/ cache'[k] # cache[k]}}

HistoryInit == Init /\ known = {}

HistoryNext ==
    /\ Next
    /\ known' = known \cup {[question |-> query[r], msg |-> heap[r]] : r \in Storing}

HistorySpec == HistoryInit /\ [][HistoryNext]_<<vars, known>>

Values == INSTANCE ValueCache WITH asked <- query, reply <- out

\* The server implements a cache of values: whatever handlers do to shared
\* message objects, every reply is a refusal or repeats one message as it was
\* stored for the same question, whole over TCP, with its flag, cut only at
\* its end; nothing is sent twice and no two messages are mixed.
RepliesRepeatValues == Values!KnownSpec
=============================================================================
