--------------------------- MODULE MCCnameChain ---------------------------
(***************************************************************************)
(* CnameChain over every pair of lines that alias, or give an address to,  *)
(* three names and a wildcard that covers one of them.                     *)
(***************************************************************************)
EXTENDS CnameChain

CONSTANTS foo, bar, ip

MCLabel == {foo, bar, Star, NoLabel}

MCToLower == [l \in MCLabel |-> l]

Names3 == {<<foo>>, <<bar>>, <<foo, bar>>}

Owners == Names3 \cup {<<Star, bar>>}

MCLine ==
    LET line(n, t, c) ==
            [fields |-> 3, name |-> [labels |-> n, dot |-> FALSE], typ |-> t,
             content |-> c, fits |-> TRUE]
    IN  {line(n, "cname", [labels |-> m, dot |-> FALSE]) : n \in Owners, m \in Names3}
            \cup {line(<<foo>>, "a", ip)}

MCFiles == {<<l1, l2>> : l1, l2 \in MCLine}
=============================================================================
