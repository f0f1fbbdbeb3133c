------------------------------- MODULE Config -------------------------------
(***************************************************************************)
(* pkg/config: what config.Setup makes of the configuration file.  Values  *)
(* are abstracted to the cases the checks tell apart; Unset stands for a   *)
(* key that is not in the file.                                            *)
(***************************************************************************)
EXTENDS Integers, Sequences

CONSTANT Unset

(***************************************************************************)
(* An address by its host, "name" being anything net.ParseIP refuses, and  *)
(* its port: "none" if there is no colon, or only those of a bare IPv6     *)
(* address, "empty" after a final colon, else whether net.LookupPort knows *)
(* it.                                                                     *)
(***************************************************************************)
Endpoint == [host : {"ip4", "ip6", "name"}, port : {"none", "empty", "known", "unknown"}]

(***************************************************************************)
(* A configuration file: can it be read and decoded, the entries below     *)
(* [filtering], which are settings or lists, and its values.               *)
(***************************************************************************)
RawConfig ==
    [decodes : BOOLEAN,
     entries : SUBSET [setting : BOOLEAN, value : {"table", "undecodable", "other"}],
     level : {"debug", "info", "warn", "error", "other", Unset},
     logFile : {"stdout", "writable", "unopenable", "rejected", Unset},
     errorLimit : Int \cup {Unset},
     listen : Endpoint \cup {Unset},
     upstreams : Seq(Endpoint),
     resolveFrom : {"path", "rejected", Unset},
     filtering : BOOLEAN \cup {Unset},
     interval : {"", "positive", "other", "malformed", Unset}]

ASSUME ConfigAssumption == Unset \notin RawConfig \cup Endpoint

Default(value, default) == IF value = Unset THEN default ELSE value

setDefaults(raw) ==
    [raw EXCEPT !.level = Default(@, "info"), !.logFile = Default(@, "stdout"),
                !.errorLimit = Default(@, 20), !.filtering = Default(@, FALSE),
                !.interval = Default(@, "positive")]

ValidateLogLevel(level) == level \in {"debug", "info", "warn", "error"}

\* net.SplitHostPort, net.ParseIP and net.LookupPort succeed.
ValidateAddress(a) == a.host # "name" /\ a.port = "known"

\* The port is added unless there is a colon, as there is in a bare IPv6 address.
ParseUpstream(a) ==
    IF a.port = "none" /\ a.host # "ip6" THEN [a EXCEPT !.port = "known"] ELSE a

\* Whatever is below [filtering] and not one of its settings has to be a list.
parseListConfigs(entries) == \A e \in entries : e.setting \/ e.value = "table"

parseDuration(interval) == interval # "malformed"

\* `exists': os.Stat finds the records file.
validateConfig(c, exists) ==
    /\ ValidateLogLevel(c.level)
    /\ c.listen # Unset /\ ValidateAddress(c.listen)
    /\ c.upstreams # <<>>
    /\ \A i \in DOMAIN c.upstreams : ValidateAddress(ParseUpstream(c.upstreams[i]))
    /\ c.errorLimit >= 0
    /\ c.resolveFrom # Unset => exists

\* loadConfig returns no error.
Loads(raw, exists) ==
    /\ raw.decodes /\ parseListConfigs(raw.entries)
    /\ parseDuration(setDefaults(raw).interval)
    /\ validateConfig(setDefaults(raw), exists)

\* Mutant of loadConfig: the upstreams are checked with their port and kept without.
loadConfigUnparsed(raw) == setDefaults(raw)

\* What it returns: defaults filled in, upstreams with their ports.
loadConfig(raw) ==
    LET c == setDefaults(raw)
    IN  [c EXCEPT !.upstreams = [i \in DOMAIN @ |-> ParseUpstream(@[i])]]
=============================================================================
