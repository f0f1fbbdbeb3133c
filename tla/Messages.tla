------------------------------ MODULE Messages ------------------------------
(***************************************************************************)
(* Questions and messages (github.com/miekg/dns), cut down to what the     *)
(* handler looks at.  Sizes are counted in resource records: a message     *)
(* takes one unit per record of its answer section plus `rest' units for   *)
(* everything else, and MaxMsgSize is in the same unit.                    *)
(***************************************************************************)
EXTENDS Records

CONSTANTS Request,     \* the requests clients send, each handled by a goroutine
          QType,       \* question types, "A" among them
          Class,       \* question classes
          MaxMsgSize,  \* the largest UDP response before truncation
          MaxWireSize  \* the largest message of all: 65535 bytes

ASSUME MessageAssumption ==
    /\ "A" \in QType
    /\ "IN" \in Class
    /\ MaxMsgSize \in Nat /\ MaxWireSize \in Nat

Proto == {"udp", "tcp"}

\* What HandleDNSRequest knows of a request: its question and its transport.
Query == [name : Name, qtype : QType, class : Class, proto : Proto]

RR == [name : Name, type : QType \cup {"CNAME"},
       data : Address \cup Name, ttl : Nat]

(***************************************************************************)
(* A dns.Msg.  `id' is the request whose transaction id it carries.  Three *)
(* fields are history: who produced the message, how many answers it had   *)
(* when it was produced, and how many an upstream had already left out;    *)
(* `gen' is the version of the record store a local answer began with.     *)
(***************************************************************************)
Source == {"local", "upstream", "filter", "servfail", "formerr"}

Question == [name : Name, qtype : QType, class : Class]

Msg == [id : Request, question : Question \cup {None},
        rcode : {"NOERROR", "NXDOMAIN", "SERVFAIL", "FORMERR"},
        tc : BOOLEAN, ans : Seq(RR), rest : Nat,
        src : Source, made : Nat, lost : Nat, gen : Nat]

QuestionOf(q) == [name |-> q.name, qtype |-> q.qtype, class |-> q.class]

Size(m) == m.rest + Len(m.ans)

\* The condition under which writeResponse takes another answer away.
TooLarge(m) == Size(m) > MaxMsgSize /\ Len(m.ans) > 0

\* WriteMsg packs the message: every name in it has to have a wire form, and
\* the whole has to fit.
CanPack(m) ==
    /\ Size(m) =< MaxWireSize
    /\ \A i \in DOMAIN m.ans :
          /\ Packable(m.ans[i].name)
          /\ m.ans[i].data \notin Address => Packable(m.ans[i].data)
=============================================================================
