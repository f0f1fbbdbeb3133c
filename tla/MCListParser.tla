---------------------------- MODULE MCListParser ----------------------------
(***************************************************************************)
(* Every list of two lines of at most two tokens, or of one of three:      *)
(* comments, addresses, garbage, and names in the spellings the parser     *)
(* tells apart.                                                            *)
(***************************************************************************)
EXTENDS ListParser, TLC

CONSTANTS ads, ADS, com, long

MCLabel == {ads, ADS, com, long, Star, NoLabel}

MCToLower == [l \in MCLabel |-> IF l = ADS THEN ads ELSE l]

Written(labels, dot) == [labels |-> labels, dot |-> dot]

MCTexts ==
    {Written(<<ADS, com>>, TRUE), Written(<<Star, com>>, FALSE), Written(<<com>>, FALSE),
     Written(<<Star>>, TRUE), Written(<<ads, NoLabel, com>>, FALSE), Written(<<com, NoLabel>>, TRUE),
     Written(<<Star, NoLabel>>, TRUE), Written(<<Star, long, com>>, FALSE)}

MCTokens == MCTexts \cup {Comment, IpLiteral, Garbage}

UpTo(n, S) == UNION {[1..k -> S] : k \in 0..n}

\* Short lines in pairs, and lines of three tokens by themselves.
MCLists ==
    {[i \in DOMAIN l |-> [tokens |-> l[i], fits |-> TRUE]] : l \in UpTo(2, UpTo(2, MCTokens))}
    \cup {<<[tokens |-> l, fits |-> TRUE]>> : l \in [1..3 -> MCTokens]}
    \cup {<<[tokens |-> l, fits |-> TRUE], [tokens |-> <<>>, fits |-> FALSE]>> : l \in UpTo(2, MCTokens)}

MCLookups == {<<ads, com>>, <<ADS, com>>, <<com>>, <<ads, ads, com>>, <<Star, com>>, <<>>}
=============================================================================
