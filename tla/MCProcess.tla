----------------------------- MODULE MCProcess -----------------------------
(***************************************************************************)
(* One good configuration and its neighbours, each off by one value; three *)
(* records files, one of them cut short; a name and a name below it.       *)
(***************************************************************************)
EXTENDS Process, TLC

CONSTANTS foo, bar, ip1, ip2

MCLabel == {foo, bar, Star, NoLabel}

MCToLower == [l \in MCLabel |-> l]

MCLookups == {<<bar>>, <<foo, foo, bar>>}

Written(labels) == [labels |-> labels, dot |-> FALSE]

A(labels, address) ==
    [fields |-> 3, name |-> Written(labels), typ |-> "a", content |-> address, fits |-> TRUE]

\* The second file has a name twice, a line that is not valid, and is cut short.
MCFiles ==
    {<<A(<<bar>>, ip1), A(<<Star, bar>>, ip1)>>,
     <<A(<<Star, foo, bar>>, ip1), [A(<<bar>>, ip1) EXCEPT !.fields = 2],
       A(<<Star, foo, bar>>, ip2), [A(<<bar>>, ip2) EXCEPT !.fits = FALSE]>>}

Entry(setting, value) == [setting |-> setting, value |-> value]

At(host, port) == [host |-> host, port |-> port]

Good ==
    [decodes |-> TRUE, entries |-> {Entry(TRUE, "other"), Entry(FALSE, "table")},
     level |-> Unset, logFile |-> Unset, errorLimit |-> 0, listen |-> At("ip4", "known"),
     upstreams |-> <<At("ip4", "none"), At("ip6", "known")>>,
     resolveFrom |-> "path", filtering |-> TRUE, interval |-> Unset]

MCConfigs ==
    {Good, [Good EXCEPT !.resolveFrom = Unset, !.logFile = "writable", !.errorLimit = Unset]}
    \cup {[Good EXCEPT !.decodes = FALSE], [Good EXCEPT !.entries = {Entry(FALSE, "undecodable")}],
          [Good EXCEPT !.entries = {Entry(FALSE, "other")}],
          [Good EXCEPT !.level = "other"], [Good EXCEPT !.logFile = "rejected"],
          [Good EXCEPT !.errorLimit = -1], [Good EXCEPT !.interval = "malformed"],
          [Good EXCEPT !.resolveFrom = "rejected"], [Good EXCEPT !.listen = Unset]}
    \cup {[Good EXCEPT !.listen = At(h, p)] : h \in {"ip4", "name"}, p \in {"known", "empty"}}
    \cup {[Good EXCEPT !.upstreams = u] :
             u \in {<<>>, <<At("name", "none")>>, <<At("ip6", "none")>>, <<At("ip4", "unknown")>>}}

=============================================================================
