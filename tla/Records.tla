------------------------------ MODULE Records ------------------------------
(***************************************************************************)
(* The store of local records (pkg/records).  Its RWMutex makes each call  *)
(* of Get and LoadFromFile one step; a handler that calls Get several      *)
(* times may see a reload in between.                                      *)
(***************************************************************************)
EXTENDS Names

CONSTANTS Address,    \* what net.ParseIP accepts
          None        \* nil

VARIABLES records,    \* the map from normalised names to records
          gen         \* history: the version of the records, one per load after the first

Record == [typ : {"a"}, content : Address] \cup [typ : {"cname"}, content : Text]

(***************************************************************************)
(* A line of the records file: how many fields it has (0 for a blank or    *)
(* comment line), the fields, and whether it fits the 64 KiB buffer of     *)
(* bufio.Scanner.  Only in an A record is an address not just some text.   *)
(***************************************************************************)
Line ==
    {l \in [fields : Nat, name : Text, typ : {"a", "cname", "other"},
            content : Address \cup Text, fits : BOOLEAN] :
        l.typ # "a" => l.content \in Text}

ValidLine(l) ==
    /\ l.fields = 3
    /\ l.typ \in {"a", "cname"}
    /\ l.typ = "a" => l.content \in Address

\* scanner.Err() # nil: the scan stopped at a line that does not fit.
ScanError(file) == \E i \in DOMAIN file : ~file[i].fits

\* The lines the scanner yields: all, or those before the first that is too long.
Scanned(file) ==
    {i \in DOMAIN file : \A j \in 1..i : file[j].fits}

\* strings.ToLower(fields[2]) for a name; an address has one spelling here.
LowerContent(l) ==
    IF l.typ = "cname"
    THEN [labels |-> Lower(l.content.labels), dot |-> l.content.dot]
    ELSE l.content

\* The map LoadFromFile builds: the last valid line of a name wins.
Loaded(file) ==
    LET valid   == {i \in Scanned(file) : ValidLine(file[i])}
        of(n)   == {i \in valid : normalizeName(file[i].name) = n}
    IN  [n \in {normalizeName(file[i].name) : i \in valid} |->
            LET l == file[Max(of(n))]
            IN  [typ |-> l.typ, content |-> LowerContent(l)]]

\* LoadFromFile once the file could be opened; it may still return ScanError.
LoadFromFile(file) ==
    /\ records' = Loaded(file)
    /\ gen' = gen + 1

\* The load in run(): the server only starts if it returned no error.
RecordsInit(files) ==
    /\ \E file \in files : ~ScanError(file) /\ records = Loaded(file)
    /\ gen = 0

\* Get: the exact name, else the wildcard with the longest matching suffix.
Get(name) ==
    LET n     == Lower(name)
        wild  == {i \in 1..(Len(n) - 1) : <<Star>> \o Suffix(n, i) \in DOMAIN records}
    IN  CASE n \in DOMAIN records -> records[n]
          [] n \notin DOMAIN records /\ wild # {} ->
                records[<<Star>> \o Suffix(n, Min(wild))]
          [] OTHER -> None

RecordsTypeOK ==
    /\ DOMAIN records \subseteq Name
    /\ \A n \in DOMAIN records : records[n] \in Record
    /\ gen \in Nat
=============================================================================
