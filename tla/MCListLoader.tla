---------------------------- MODULE MCListLoader ----------------------------
(***************************************************************************)
(* Four configurations; a restart may change from one to another, and      *)
(* every start visits the tables in an order of its own:                   *)
(*  - custom lists: a url, a blank entry, and a local file;                *)
(*  - a list of the catalog and a table whose id sanitizeID makes equal to *)
(*    it, beside one that nobody knows and one that is switched off;       *)
(*  - two tables with blank ids and one url;                               *)
(*  - a table with a blank id and the other url, and a custom list with a  *)
(*    url that is not the one at its place before.                         *)
(***************************************************************************)
EXTENDS ListLoader, Sources, TLC

CONSTANTS u1, u2, p1

Words == {"oisd", "basic", "unknown", "off", "custom", "1", "2", "3"}

MCClean == [w \in Words |-> w] @@ [c \in {"_", "-", " "} |-> "_"]

MCCustomId == [n \in 1..3 |-> <<"custom", "_", ToString(n)>>]

oisd(c) == <<"oisd", c, "basic">>

Catalog == oisd("_") :> u1

On(id, url) == id :> [enabled |-> TRUE, url |-> url]

Off(id, url) == id :> [enabled |-> FALSE, url |-> url]

MCConfigs ==
    BuildSources(Catalog, <<>>, <<u2, NoUrl, p1>>)
        \cup BuildSources(Catalog, On(oisd("_"), NoUrl) @@ On(oisd("-"), u2)
                                       @@ On(<<"unknown">>, NoUrl) @@ Off(<<"off">>, u1), <<>>)
        \cup BuildSources(Catalog, On(<<>>, u1) @@ On(<<" ">>, u1), <<>>)
        \cup BuildSources(Catalog, On(<<" ">>, u2), <<u1>>)
=============================================================================
