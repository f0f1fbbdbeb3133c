----------------------------- MODULE MCResolvit -----------------------------
(***************************************************************************)
(* Small instances of Resolvit.  Every label, address and request is a     *)
(* model value; the operators below are the values the configurations      *)
(* choose from, one group for each question that is asked of the model.    *)
(***************************************************************************)
EXTENDS Resolvit, TLC

CONSTANTS foo, FOO, bar, ali, loc, long, ip1, ip2, ip3

MCLabel == {foo, FOO, bar, ali, loc, long, Star, NoLabel}

MCToLower == [l \in MCLabel |-> IF l = FOO THEN foo ELSE l]

MCAddress == {ip1, ip2, ip3}

Symmetry == Permutations(Request)

Q(name, qtype, proto) ==
    [name |-> name, qtype |-> qtype, class |-> "IN", proto |-> proto]

W(rcode, ttls, rest) == [rcode |-> rcode, ttls |-> ttls, rest |-> rest]

Written(name) == [labels |-> name, dot |-> FALSE]

A(name, address) ==
    [fields |-> 3, name |-> Written(name), typ |-> "a", content |-> address, fits |-> TRUE]

CNAME(name, to) ==
    [fields |-> 3, name |-> Written(name), typ |-> "cname", content |-> Written(to), fits |-> TRUE]

\* The content written with a final dot.
CNAMEDot(name, to) ==
    [CNAME(name, to) EXCEPT !.content = [labels |-> to, dot |-> TRUE]]

Set1(name) == [exact |-> {name}, wildcards |-> {}]

NoFile == {<<>>}
NoLists == {NewDomainSet}

-----------------------------------------------------------------------------
(* Two transports, two spellings, two types of one name; large answers. *)

TransportQueries ==
    {Q(<<foo>>, "A", "udp"), Q(<<FOO>>, "A", "udp"), Q(<<foo>>, "A", "tcp"),
     Q(<<foo>>, "TXT", "udp")}

TransportReplies == {W("NOERROR", <<1, 2>>, 0), W("NOERROR", <<1, 2>>, 1), W("NXDOMAIN", <<>>, 2)}

-----------------------------------------------------------------------------
(* Local records that a reload changes.  At first an address and an alias  *)
(* of a remote name; then a chain of two aliases, which with an answer of  *)
(* an upstream is too large for the wire, an alias that is written with a  *)
(* final dot and one of an overlong name, in a file that is cut short.     *)

ReloadFiles ==
    {<<A(<<ali>>, ip1), CNAME(<<bar>>, <<foo>>)>>,
     <<CNAME(<<Star, bar>>, <<loc>>), CNAME(<<loc>>, <<foo>>), CNAMEDot(<<ali>>, <<foo>>),
       CNAME(<<bar>>, <<long>>), [A(<<ali>>, ip2) EXCEPT !.fits = FALSE]>>}

ReloadQueries ==
    {Q(<<ali>>, "A", "udp"), Q(<<bar>>, "A", "udp"), Q(<<foo, bar>>, "A", "tcp")}

OneReply == {W("NOERROR", <<1>>, 0)}

-----------------------------------------------------------------------------
(* A local alias of a remote name that is on a blocklist, and a name below *)
(* it that is blocked, allowed in spite of the blocklist, or neither.      *)

FilterFile == {<<CNAME(<<foo>>, <<ali>>)>>}

FilterQueries == {Q(<<foo>>, "A", "udp"), Q(<<bar, foo>>, "A", "udp")}

FilterBlocklists == {Set1(<<foo>>), Set1(<<ali>>)}

\* Not worth truncating: exchanges over TCP are left to the other instances.
EmptyReply == {W("NXDOMAIN", <<>>, 0)}

FilterAllowlists == {Set1(<<bar, foo>>)}

-----------------------------------------------------------------------------
(* The smallest instances in which the documentation is contradicted.      *)

FooUdp == {Q(<<foo>>, "A", "udp")}
LocUdp == {Q(<<loc>>, "A", "udp")}

TwoAnswers == {W("NOERROR", <<1, 1>>, 0)}

AddressThenNothing == {<<A(<<loc>>, ip1)>>, <<>>}
=============================================================================
