----------------------------- MODULE Forwarder -----------------------------
(***************************************************************************)
(* pkg/forward.  A call of Forward asks the configured upstreams in order: *)
(* over UDP, again over TCP if the answer came back truncated, and the     *)
(* next upstream if there was no answer.  Each exchange is a step of its   *)
(* own: it takes up to five seconds, during which anything else happens.   *)
(*                                                                         *)
(* The upstreams are not under the program's control: an exchange fails,   *)
(* or yields any of the replies in Reply, as the environment likes.        *)
(***************************************************************************)
EXTENDS Messages

CONSTANTS Upstreams,   \* how many upstream servers are configured
          Reply,       \* what upstreams hold: a response code, the TTLs of the
                       \* answers and the size of the other sections
          Remote       \* the address in their answers

ASSUME ForwarderAssumption ==
    /\ Upstreams \in Nat \ {0}      \* validateConfig insists on one
    /\ Reply \subseteq [rcode : {"NOERROR", "NXDOMAIN", "SERVFAIL"},
                        ttls : Seq(Nat), rest : Nat]
    /\ Remote \in Address

VARIABLE fwd   \* the last call of Forward of each request

\* st: in an exchange over "udp" or "tcp", or returned with "ok" or "err";
\* srv: the upstream being asked; msg: the truncated answer, or the result;
\* failed is history: the upstreams whose exchange failed.
Call == [st : {"udp", "tcp", "ok", "err"}, q : Query, srv : 1..Upstreams,
         msg : Msg \cup {None}, failed : SUBSET (1..Upstreams)]

ForwarderTypeOK == fwd \in [Request -> Call \cup {None}]

ForwarderInit == fwd = [r \in Request |-> None]

Forward(r, q) ==
    fwd' = [fwd EXCEPT ![r] =
        [st |-> "udp", q |-> q, srv |-> 1, msg |-> None, failed |-> {}]]

InExchange(r, proto) == fwd[r] # None /\ fwd[r].st = proto

Returned(r) == fwd[r] # None /\ fwd[r].st \in {"ok", "err"}

UpstreamMsg(r, w) ==
    LET q == fwd[r].q
    IN  [id |-> r, question |-> QuestionOf(q), rcode |-> w.rcode, tc |-> FALSE,
         ans |-> [i \in DOMAIN w.ttls |->
                    [name |-> q.name, type |-> q.qtype, data |-> Remote,
                     ttl |-> w.ttls[i]]],
         rest |-> w.rest, src |-> "upstream", made |-> Len(w.ttls),
         lost |-> 0, gen |-> 0]

CutTo(m, n) ==
    [m EXCEPT !.tc = TRUE, !.ans = SubSeq(m.ans, 1, n),
              !.made = n, !.lost = Len(m.ans) - n]

\* udpClient.Exchange yields a complete reply.
UdpReply(r) ==
    /\ InExchange(r, "udp")
    /\ Packable(fwd[r].q.name)
    /\ \E w \in Reply :
          fwd' = [fwd EXCEPT ![r].st = "ok", ![r].msg = UpstreamMsg(r, w)]

\* It yields a truncated one, and exchange goes on to tcpClient.Exchange.
UdpTruncated(r) ==
    /\ InExchange(r, "udp")
    /\ Packable(fwd[r].q.name)
    /\ \E w \in Reply : \E n \in 0..(Len(w.ttls) - 1) :
          fwd' = [fwd EXCEPT ![r].st = "tcp",
                             ![r].msg = CutTo(UpstreamMsg(r, w), n)]

\* Mutant of UdpFails: the loop runs past the last upstream.
UdpFailsPastLast(r) ==
    /\ InExchange(r, "udp")
    /\ LET call == [fwd[r] EXCEPT !.failed = @ \cup {fwd[r].srv}]
       IN  fwd' = [fwd EXCEPT ![r] =
              IF call.srv > Upstreams THEN [call EXCEPT !.st = "err"]
                                      ELSE [call EXCEPT !.srv = @ + 1]]

\* Mutant of UdpFails: the first error is returned.
UdpFailsAtOnce(r) ==
    /\ InExchange(r, "udp")
    /\ fwd' = [fwd EXCEPT ![r] =
          [fwd[r] EXCEPT !.failed = @ \cup {fwd[r].srv}, !.st = "err"]]

\* Mutant of UdpFails: after the last upstream the first one is asked again.
UdpFailsStartsOver(r) ==
    /\ InExchange(r, "udp")
    /\ fwd' = [fwd EXCEPT ![r].failed = @ \cup {fwd[r].srv},
                          ![r].srv = IF @ = Upstreams THEN 1 ELSE @ + 1]

\* It fails, or the question cannot even be packed: the next upstream's turn.
UdpFails(r) ==
    /\ InExchange(r, "udp")
    /\ LET call == [fwd[r] EXCEPT !.failed = @ \cup {fwd[r].srv}]
       IN  fwd' = [fwd EXCEPT ![r] =
              IF call.srv = Upstreams THEN [call EXCEPT !.st = "err"]
                                      ELSE [call EXCEPT !.srv = @ + 1]]

\* What tcpClient.Exchange yields is returned, whatever its own flag says.
TcpReply(r) ==
    /\ InExchange(r, "tcp")
    /\ \E w \in Reply : \E n \in 0..Len(w.ttls) :
          fwd' = [fwd EXCEPT ![r].st = "ok",
                             ![r].msg = IF n = Len(w.ttls) THEN UpstreamMsg(r, w)
                                        ELSE CutTo(UpstreamMsg(r, w), n)]

\* Mutant of TcpFails: what came over UDP is passed on as if it were all.
TcpFailsUnflagged(r) ==
    /\ InExchange(r, "tcp")
    /\ fwd' = [fwd EXCEPT ![r].st = "ok", ![r].msg.tc = FALSE]

\* tcpErr: the truncated UDP response is returned as it is.
TcpFails(r) ==
    /\ InExchange(r, "tcp")
    /\ fwd' = [fwd EXCEPT ![r].st = "ok"]

Exchange(r) ==
    UdpReply(r) \/ UdpTruncated(r) \/ UdpFails(r) \/ TcpReply(r) \/ TcpFails(r)
=============================================================================
