---------------------------- MODULE RecordStore ----------------------------
(***************************************************************************)
(* pkg/records step by step.  LoadFromFile takes the write lock, empties   *)
(* the map and fills it line by line; Get takes the read lock and probes   *)
(* the map for the name, then for one wildcard after the other.  As in     *)
(* sync.RWMutex, a writer that waits keeps new readers out.                *)
(***************************************************************************)
EXTENDS AtomicStore

CONSTANT LookupNames   \* the names handlers look up

ASSUME StoreAssumption ==
    /\ RecordFiles \subseteq Seq(Line)
    /\ LookupNames \subseteq Name

VARIABLES mu,       \* the lock: what its writer does, and the readers inside
          scan,     \* LoadFromFile: its step, the file it opened, the next line
          probe,    \* Get: how many labels the name has lost so far
          before    \* history: the records when the writer got the lock

detailVars == <<records, gen, call, mu, scan, probe, before>>

DetailInit ==
    /\ StoreInit
    /\ mu = [writer |-> "none", readers |-> {}]
    /\ scan = [step |-> "idle", file |-> <<>>, line |-> 1]
    /\ probe = [c \in Reader |-> 0]
    /\ before = <<>>

-----------------------------------------------------------------------------
(* LoadFromFile *)

\* mu.Lock() is called: from now on no reader enters.
AwaitLock ==
    /\ scan.step = "idle"
    /\ scan' = [scan EXCEPT !.step = "lock"]
    /\ mu' = [mu EXCEPT !.writer = "waits"]
    /\ UNCHANGED <<records, gen, call, probe, before>>

\* mu.Lock() returns once the last reader is out.
TakeLock ==
    /\ scan.step = "lock" /\ mu.readers = {}
    /\ scan' = [scan EXCEPT !.step = "open"]
    /\ mu' = [mu EXCEPT !.writer = "holds"]
    /\ before' = records
    /\ UNCHANGED <<records, gen, call, probe>>

Unlock ==
    /\ scan' = [scan EXCEPT !.step = "idle"]
    /\ mu' = [mu EXCEPT !.writer = "none"]

\* sanitizeRecordsPath or os.Open fails: an error, and the records stay.
OpenFails ==
    /\ scan.step = "open"
    /\ Unlock
    /\ UNCHANGED <<records, gen, call, probe, before>>

\* The file is open, and the existing records are cleared.
Open(file) ==
    /\ scan.step = "open"
    /\ scan' = [step |-> "scan", file |-> file, line |-> 1]
    /\ records' = <<>>
    /\ UNCHANGED <<gen, call, mu, probe, before>>

\* One turn of the loop: a line that is not valid is skipped.
ScanLine ==
    /\ scan.step = "scan"
    /\ scan.line <= Len(scan.file) /\ scan.file[scan.line].fits
    /\ LET l == scan.file[scan.line]
           n == normalizeName(l.name)
       IN  records' = IF ValidLine(l)
                      THEN [x \in DOMAIN records \cup {n} |->
                              IF x = n THEN [typ |-> l.typ, content |-> LowerContent(l)]
                                       ELSE records[x]]
                      ELSE records
    /\ scan' = [scan EXCEPT !.line = @ + 1]
    /\ UNCHANGED <<gen, call, mu, probe, before>>

\* The end of the file or an overlong line: LoadFromFile returns scanner.Err().
EndScan ==
    /\ scan.step = "scan"
    /\ scan.line <= Len(scan.file) => ~scan.file[scan.line].fits
    /\ Unlock
    /\ gen' = gen + 1
    /\ UNCHANGED <<records, call, probe, before>>

-----------------------------------------------------------------------------
(* Get *)

\* Mutant of BeginGet: the map is read without the lock.
BeginGetUnlocked(c) ==
    /\ call[c].st # "asked"
    /\ \E n \in LookupNames :
          call' = [call EXCEPT ![c] = [st |-> "asked", name |-> n, rec |-> None]]
    /\ probe' = [probe EXCEPT ![c] = 0]
    /\ UNCHANGED <<records, gen, mu, scan, before>>

BeginGet(c) ==
    /\ call[c].st # "asked"
    /\ mu.writer = "none"
    /\ \E n \in LookupNames :
          call' = [call EXCEPT ![c] = [st |-> "asked", name |-> n, rec |-> None]]
    /\ probe' = [probe EXCEPT ![c] = 0]
    /\ mu' = [mu EXCEPT !.readers = @ \cup {c}]
    /\ UNCHANGED <<records, gen, scan, before>>

\* One access to the map; Get returns what it finds, or nil after the last one.
Probe(c) ==
    /\ call[c].st = "asked"
    /\ LET n   == Lower(call[c].name)
           i   == probe[c]
           key == IF i = 0 THEN n ELSE <<Star>> \o Suffix(n, i)
       IN  \/ /\ key \notin DOMAIN records /\ i < Len(n) - 1
              /\ probe' = [probe EXCEPT ![c] = i + 1]
              /\ UNCHANGED <<call, mu>>
           \/ /\ key \in DOMAIN records \/ i >= Len(n) - 1
              /\ call' = [call EXCEPT ![c].st = "got",
                            ![c].rec = IF key \in DOMAIN records THEN records[key] ELSE None]
              /\ mu' = [mu EXCEPT !.readers = @ \ {c}]
              /\ UNCHANGED probe
    /\ UNCHANGED <<records, gen, scan, before>>

-----------------------------------------------------------------------------
Visible == IF mu.writer = "holds" THEN before ELSE records

Atomic == INSTANCE AtomicStore WITH records <- Visible

\* The store implements AtomicStore: the map is emptied and filled line by
\* line, and probed name by name, yet a load takes effect in one step with the
\* last valid line of every name, and a lookup never sees half of it.
StoreIsAtomic == Atomic!StoreSpec
=============================================================================
