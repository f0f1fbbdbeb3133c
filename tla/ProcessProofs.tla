--------------------------- MODULE ProcessProofs ---------------------------
(***************************************************************************)
(* The record store is atomic, and the process is ready when it serves,    *)
(* for any number of handlers, records files, configurations, edits and    *)
(* signals.                                                                *)
(***************************************************************************)
EXTENDS Process, RecordsProofs

-----------------------------------------------------------------------------
(* The invariant of the store *)

Call == [st : {"none", "asked", "got"}, name : Name, rec : Record \cup {None}]

StoreTypeOK ==
    /\ RecordsTypeOK
    /\ call \in [Reader -> Call]
    /\ mu \in [writer : {"none", "waits", "holds"}, readers : SUBSET Reader]
    /\ scan \in [step : {"idle", "lock", "open", "scan"}, file : Seq(Line), line : Nat]
    /\ probe \in [Reader -> Nat]

\* The lock: who is inside Get is a reader, no reader is inside together with
\* the writer, and the writer holds it as long as LoadFromFile is at the map.
Locked ==
    /\ \A c \in Reader : call[c].st = "asked" <=> c \in mu.readers
    /\ mu.writer = "holds" => mu.readers = {}
    /\ scan.step = "idle" <=> mu.writer = "none"
    /\ scan.step = "lock" <=> mu.writer = "waits"

\* The record a valid line asks for.
RecordOf(l) == [typ |-> l.typ, content |-> LowerContent(l)]

\* The valid ones of the first k lines of a file, and those that name n.
ValidUpTo(f, k) == {i \in 1..k : ValidLine(f[i])}

LinesOf(f, k, n) == {i \in ValidUpTo(f, k) : normalizeName(f[i].name) = n}

\* The map after the first k lines.
Filled(f, k) ==
    [n \in {normalizeName(f[i].name) : i \in ValidUpTo(f, k)} |->
        RecordOf(f[Max(LinesOf(f, k, n))])]

\* What LoadFromFile has done so far.
Scanning ==
    /\ scan.step = "open" => records = before
    /\ scan.step = "scan" =>
          /\ scan.file \in RecordFiles
          /\ scan.line \in 1..(Len(scan.file) + 1)
          /\ \A i \in 1..(scan.line - 1) : scan.file[i].fits
          /\ records = Filled(scan.file, scan.line - 1)

\* The keys Get probes for a name, one after the other.
Key(name, i) == IF i = 0 THEN Lower(name) ELSE <<Star>> \o Suffix(Lower(name), i)

\* What Get has looked for so far is not in the map.
Probing ==
    \A c \in Reader : call[c].st = "asked" =>
        /\ probe[c] = 0 \/ probe[c] < Len(call[c].name)
        /\ \A j \in Nat : j < probe[c] => Key(call[c].name, j) \notin DOMAIN records

LockInv == StoreTypeOK /\ Locked /\ Scanning /\ Probing

-----------------------------------------------------------------------------
(* The invariant of the process *)

Loading == main # "exited" => (main = "loading" <=> scan.step # "idle")

\* cfg is what loadConfig returned, without an error, before anything else.
Configured ==
    /\ raw \in RawConfig
    /\ config \in {Unset, loadConfig(raw)}
    /\ config # Unset => \E exists \in BOOLEAN : Loads(raw, exists)
    /\ config = Unset => main \in {"config", "exited"} /\ ~notified

\* The steps of run() that lie behind the process.
Started ==
    /\ notified => main \in {"wait", "load", "loading", "clear", "exited"}
    /\ main \in {"filter", "serve", "notify"} \/ notified =>
          (config.resolveFrom # Unset => gen > 0)
    /\ main \in {"serve", "notify"} \/ notified =>
          (config.filtering => filterReady)
    /\ (\E p \in DOMAIN listening : listening[p] = "up") =>
          main \in {"notify", "exited"} \/ notified

\* What is in the signal channel, and why the process ended.
Signalled ==
    /\ sig \in {<<>>, <<"HUP">>, <<"TERM">>}
    /\ sig = <<"TERM">> => told
    /\ main = "exited" /\ notified => told

RunInv ==
    /\ main \in {"config", "logger", "load", "loading", "filter", "serve", "notify",
                 "wait", "clear", "exited"}
    /\ notified \in BOOLEAN
    /\ listening \in [{"udp", "tcp"} -> {"off", "up", "failed"}]
    /\ Loading /\ Configured /\ Started /\ Signalled

-----------------------------------------------------------------------------
(* The loop of LoadFromFile *)

\* Before the first line the map is empty.
LEMMA FilledNone == ASSUME NEW f PROVE Filled(f, 0) = <<>>
<1>1. ValidUpTo(f, 0) = {}
  BY DEF ValidUpTo
<1>2. {normalizeName(f[i].name) : i \in ValidUpTo(f, 0)} = {}
  BY <1>1
<1> QED
  BY <1>2 DEF Filled

\* The next line adds a record or replaces the one of its name, if it is valid.
LEMMA FilledNext ==
    ASSUME NEW f \in Seq(Line), NEW k \in Nat, k + 1 =< Len(f)
    PROVE  LET n == normalizeName(f[k+1].name)
           IN  Filled(f, k + 1) =
                 IF ValidLine(f[k+1])
                 THEN [x \in DOMAIN Filled(f, k) \cup {n} |->
                         IF x = n THEN RecordOf(f[k+1]) ELSE Filled(f, k)[x]]
                 ELSE Filled(f, k)
<1> DEFINE n == normalizeName(f[k+1].name)
           names(j) == {normalizeName(f[i].name) : i \in ValidUpTo(f, j)}
<1>1. \A j \in Nat : /\ DOMAIN Filled(f, j) = names(j)
                     /\ \A x \in names(j) : Filled(f, j)[x] = RecordOf(f[Max(LinesOf(f, j, x))])
  BY DEF Filled
<1>2. ~ValidLine(f[k+1]) => ValidUpTo(f, k + 1) = ValidUpTo(f, k)
  BY DEF ValidUpTo
<1>3. ValidLine(f[k+1]) => ValidUpTo(f, k + 1) = ValidUpTo(f, k) \cup {k + 1}
  BY DEF ValidUpTo
<1>4. CASE ~ValidLine(f[k+1])
  <2>1. \A x : LinesOf(f, k + 1, x) = LinesOf(f, k, x)
    BY <1>2, <1>4 DEF LinesOf
  <2>2. Filled(f, k + 1) = Filled(f, k)
    BY <1>2, <1>4, <2>1 DEF Filled
  <2> QED
    BY <1>4, <2>2
<1>5. CASE ValidLine(f[k+1])
  <2>1. names(k + 1) = names(k) \cup {n}
    BY <1>3, <1>5
  <2>2. \A x : x # n => LinesOf(f, k + 1, x) = LinesOf(f, k, x)
    BY <1>3, <1>5 DEF LinesOf
  <2>3. Max(LinesOf(f, k + 1, n)) = k + 1
    <3> DEFINE S == LinesOf(f, k + 1, n)
    <3>1. S \in SUBSET (1..(k + 1)) /\ k + 1 \in S
      BY <1>3, <1>5 DEF LinesOf, ValidUpTo
    <3> HIDE DEF S
    <3>2. Max(S) \in S /\ \A y \in S : y =< Max(S)
      <4>1. S # {} /\ k + 1 \in Nat
        BY <3>1
      <4> QED
        BY <3>1, <4>1, MaxOfInterval
    <3>3. Max(S) \in 1..(k + 1) /\ k + 1 =< Max(S)
      BY <3>1, <3>2
    <3>4. Max(S) = k + 1
      BY <3>3
    <3> QED
      BY <3>4 DEF S
  <2> DEFINE g == [x \in DOMAIN Filled(f, k) \cup {n} |->
                     IF x = n THEN RecordOf(f[k+1]) ELSE Filled(f, k)[x]]
  <2>4. Filled(f, k + 1) = [x \in names(k + 1) |-> RecordOf(f[Max(LinesOf(f, k + 1, x))])]
    BY DEF Filled
  <2>5. DOMAIN g = names(k + 1)
    BY <1>1, <2>1
  <2>6. ASSUME NEW x \in names(k + 1)
        PROVE  g[x] = RecordOf(f[Max(LinesOf(f, k + 1, x))])
    <3>1. CASE x = n
      BY <2>3, <2>5, <3>1
    <3>2. CASE x # n
      <4>1. x \in names(k) /\ x \in DOMAIN Filled(f, k)
        BY <1>1, <2>1, <3>2
      <4>2. g[x] = Filled(f, k)[x]
        BY <3>2, <4>1
      <4> HIDE DEF g, names
      <4> QED
        BY <1>1, <2>2, <3>2, <4>1, <4>2
    <3> QED
      BY <3>1, <3>2
  <2>7. g = [x \in names(k + 1) |-> g[x]]
    BY <2>5
  <2>8. Filled(f, k + 1) = g
    <3> HIDE DEF g, names
    <3> QED
      BY <2>4, <2>6, <2>7
  <2> QED
    BY <1>5, <2>8
<1> QED
  BY <1>4, <1>5

\* When the loop ends, at the end of the file or at a line that does not fit,
\* the map is what the file says.
LEMMA FilledAll ==
    ASSUME NEW f \in Seq(Line), NEW k \in 0..Len(f), \A i \in 1..k : f[i].fits,
           k < Len(f) => ~f[k+1].fits
    PROVE  Loaded(f) = Filled(f, k)
<1>1. Scanned(f) = 1..k
  <2>1. ASSUME NEW i \in Scanned(f) PROVE i \in 1..k
    <3>1. i \in 1..Len(f) /\ \A j \in 1..i : f[j].fits
      BY DEF Scanned
    <3>2. CASE i > k
      <4>1. k + 1 \in 1..i /\ k < Len(f)
        BY <3>1, <3>2
      <4> QED
        BY <3>1, <4>1
    <3> QED
      BY <3>1, <3>2
  <2>2. ASSUME NEW i \in 1..k PROVE i \in Scanned(f)
    BY DEF Scanned
  <2> QED
    BY <2>1, <2>2
<1>2. {i \in Scanned(f) : ValidLine(f[i])} = ValidUpTo(f, k)
  BY <1>1 DEF ValidUpTo
<1>3. \A n : {i \in {j \in Scanned(f) : ValidLine(f[j])} : normalizeName(f[i].name) = n}
             = LinesOf(f, k, n)
  BY <1>2 DEF LinesOf
<1> QED
  BY <1>2, <1>3 DEF Loaded, Filled, RecordOf

-----------------------------------------------------------------------------
(* The loop of Get *)

\* What the probe that ends Get finds is what Get promises.
LEMMA LastProbe ==
    ASSUME NEW name \in Name, NEW i \in Nat, i = 0 \/ i < Len(name),
           \A j \in Nat : j < i => Key(name, j) \notin DOMAIN records,
           Key(name, i) \in DOMAIN records \/ i >= Len(name) - 1
    PROVE  Get(name) = IF Key(name, i) \in DOMAIN records THEN records[Key(name, i)] ELSE None
<1> DEFINE n == Lower(name)
           wild == {j \in 1..(Len(n) - 1) : <<Star>> \o Suffix(n, j) \in DOMAIN records}
<1>1. n \in Name /\ Len(n) = Len(name)
  BY LowerType DEF Lower, Name
<1>2. Get(name) = CASE n \in DOMAIN records -> records[n]
                    [] n \notin DOMAIN records /\ wild # {} ->
                         records[<<Star>> \o Suffix(n, Min(wild))]
                    [] OTHER -> None
  BY DEF Get
<1>3. Key(name, 0) = n /\ \A j \in Nat \ {0} : Key(name, j) = <<Star>> \o Suffix(n, j)
  BY DEF Key
<1>4. wild = {j \in 1..(Len(n) - 1) : Key(name, j) \in DOMAIN records}
  <2>1. \A j \in 1..(Len(n) - 1) : j \in Nat \ {0}
    BY <1>1 DEF Name
  <2> HIDE DEF n
  <2> QED
    BY <1>3, <2>1
<1> HIDE DEF n, wild
<1>5. CASE i = 0 /\ Key(name, i) \in DOMAIN records
  BY <1>2, <1>3, <1>5
<1>6. CASE i # 0 /\ Key(name, i) \in DOMAIN records
  <2>1. i \in wild /\ wild \in SUBSET Nat
    BY <1>1, <1>4, <1>6 DEF Name
  <2>2. \A j \in wild : i =< j
    BY <1>4
  <2>3. Min(wild) \in wild /\ Min(wild) =< i
    <3>1. wild # {}
      BY <2>1
    <3>2. Min(wild) \in wild /\ \A y \in wild : Min(wild) =< y
      BY <2>1, <3>1, MinOfNats
    <3> QED
      BY <2>1, <3>2
  <2>4. Min(wild) = i
    <3>1. Min(wild) \in Nat /\ i =< Min(wild)
      BY <2>1, <2>2, <2>3
    <3> QED
      BY <2>3, <3>1
  <2>5. n \notin DOMAIN records
    BY <1>3, <1>6
  <2> QED
    BY <1>2, <1>3, <1>6, <2>1, <2>4, <2>5
<1>7. CASE Key(name, i) \notin DOMAIN records
  <2>1. \A j \in Nat : j =< i => Key(name, j) \notin DOMAIN records
    BY <1>7
  <2>2. n \notin DOMAIN records
    BY <1>3, <2>1
  <2>3. wild = {}
    BY <1>1, <1>4, <1>7, <2>1 DEF Name
  <2> QED
    BY <1>2, <1>7, <2>2, <2>3
<1> QED
  BY <1>5, <1>6, <1>7

-----------------------------------------------------------------------------
(* The steps of the store *)

StoreStep ==
    \/ AwaitLock \/ TakeLock \/ OpenFails
    \/ \E f \in RecordFiles : Open(f)
    \/ ScanLine \/ EndScan
    \/ \E c \in Reader : BeginGet(c) \/ Probe(c)

\* Whatever the process does, the store takes one of its steps or none.
LEMMA ProcessSteps == [ProcessNext]_processVars => StoreStep \/ UNCHANGED detailVars
<1> SUFFICES ASSUME [ProcessNext]_processVars PROVE StoreStep \/ UNCHANGED detailVars
  OBVIOUS
<1>1. CASE UNCHANGED processVars
  BY <1>1 DEF processVars
<1>2. CASE Setup \/ SetupLogger \/ StartFilter \/ StartServer \/ Notify \/ TakeSignal \/ ClearCache
  BY <1>2 DEF Setup, SetupLogger, StartFilter, StartServer, Notify, TakeSignal, ClearCache
<1>3. CASE BeginLoad
  BY <1>3 DEF BeginLoad, StoreStep
<1>4. CASE OpenRecords
  BY <1>4 DEF OpenRecords, StoreStep
<1>5. CASE ScanRecords \/ EndLoad
  BY <1>5 DEF ScanRecords, EndLoad, StoreStep
<1>6. CASE \E p \in DOMAIN listening : Listen(p)
  BY <1>6 DEF Listen
<1>7. CASE \E c \in Reader : Lookup(c)
  BY <1>7 DEF Lookup, StoreStep
<1>8. CASE Edit
  BY <1>8 DEF Edit
<1>9. CASE \E s \in {"HUP", "TERM"} : Send(s)
  BY <1>9 DEF Send
<1> QED
  BY <1>1, <1>2, <1>3, <1>4, <1>5, <1>6, <1>7, <1>8, <1>9 DEF ProcessNext, Run

\* What the steps of LoadFromFile do to the lock and to the map.
LEMMA LoaderEffect ==
    ASSUME LockInv,
           AwaitLock \/ TakeLock \/ OpenFails \/ (\E f \in RecordFiles : Open(f)) \/ ScanLine
              \/ EndScan
    PROVE  /\ UNCHANGED <<call, probe>>
           /\ mu'.readers = mu.readers
           /\ mu' \in [writer : {"none", "waits", "holds"}, readers : SUBSET Reader]
           /\ scan' \in [step : {"idle", "lock", "open", "scan"}, file : Seq(Line), line : Nat]
           /\ Locked'
           /\ records' = records \/ mu.writer = "holds"
<1>1. /\ mu \in [writer : {"none", "waits", "holds"}, readers : SUBSET Reader]
      /\ scan \in [step : {"idle", "lock", "open", "scan"}, file : Seq(Line), line : Nat]
      /\ Locked
  BY DEF LockInv, StoreTypeOK
<1>2. CASE AwaitLock
  BY <1>1, <1>2 DEF AwaitLock, Locked
<1>3. CASE TakeLock
  BY <1>1, <1>3 DEF TakeLock, Locked
<1>4. CASE OpenFails \/ EndScan
  BY <1>1, <1>4 DEF OpenFails, EndScan, Unlock, Locked
<1>5. CASE \E f \in RecordFiles : Open(f)
  BY <1>1, <1>5, StoreAssumption DEF Open, Locked
<1>6. CASE ScanLine
  BY <1>1, <1>6 DEF ScanLine, Locked
<1> QED
  BY <1>2, <1>3, <1>4, <1>5, <1>6

\* What the turns of the loops do.
LEMMA ScanEffect ==
    ASSUME LockInv, ScanLine
    PROVE  /\ scan.step = "scan" /\ scan'.step = "scan" /\ scan'.file = scan.file
           /\ scan.file \in RecordFiles /\ scan.file \in Seq(Line)
           /\ scan.line \in Nat \ {0} /\ scan'.line = scan.line + 1
           /\ scan.line =< Len(scan.file) /\ scan.file[scan.line].fits
           /\ scan.file[scan.line] \in Line
           /\ records' = Filled(scan.file, scan.line)
           /\ UNCHANGED gen
<1> DEFINE f == scan.file
           k == scan.line - 1
<1>1. /\ scan \in [step : {"idle", "lock", "open", "scan"}, file : Seq(Line), line : Nat]
      /\ scan.step = "scan" /\ Scanning
  BY DEF LockInv, StoreTypeOK, ScanLine
<1>2. /\ f \in RecordFiles /\ f \in Seq(Line) /\ scan.line \in 1..(Len(f) + 1)
      /\ records = Filled(f, k)
  BY <1>1 DEF Scanning
<1>3. /\ scan'.step = "scan" /\ scan'.file = f /\ scan'.line = scan.line + 1
      /\ scan.line =< Len(f) /\ f[scan.line].fits /\ UNCHANGED gen
  BY <1>1 DEF ScanLine
<1>4. k \in Nat /\ k + 1 = scan.line /\ scan.line \in Nat \ {0} /\ f[scan.line] \in Line
  BY <1>2, <1>3
<1>5. records' = LET n == normalizeName(f[scan.line].name)
                 IN  IF ValidLine(f[scan.line])
                     THEN [x \in DOMAIN records \cup {n} |->
                             IF x = n THEN RecordOf(f[scan.line]) ELSE records[x]]
                     ELSE records
  BY DEF ScanLine, RecordOf
<1> HIDE DEF f, k
<1>6. records' = Filled(f, scan.line)
  <2>1. k + 1 =< Len(f)
    BY <1>3, <1>4
  <2>2. LET n == normalizeName(f[k+1].name)
        IN  Filled(f, k + 1) =
              IF ValidLine(f[k+1])
              THEN [x \in DOMAIN Filled(f, k) \cup {n} |->
                      IF x = n THEN RecordOf(f[k+1]) ELSE Filled(f, k)[x]]
              ELSE Filled(f, k)
    BY <1>2, <1>4, <2>1, FilledNext
  <2> QED
    BY <1>2, <1>4, <1>5, <2>2
<1> QED
  BY <1>1, <1>2, <1>3, <1>4, <1>6 DEF f

\* What the steps of Get do: the last one returns what Get promises.
LEMMA ProbeEffect ==
    ASSUME LockInv, NEW c \in Reader, Probe(c)
    PROVE  /\ call[c].st = "asked" /\ call[c].name \in Name
           /\ UNCHANGED <<records, gen, scan, before>>
           /\ \/ /\ Key(call[c].name, probe[c]) \notin DOMAIN records
                 /\ probe[c] + 1 < Len(call[c].name)
                 /\ probe' = [probe EXCEPT ![c] = probe[c] + 1]
                 /\ UNCHANGED <<call, mu>>
              \/ /\ call' = [call EXCEPT ![c].st = "got", ![c].rec = Get(call[c].name)]
                 /\ mu' = [mu EXCEPT !.readers = @ \ {c}]
                 /\ UNCHANGED probe
<1> DEFINE name == call[c].name
           i == probe[c]
<1>1. call[c] \in Call /\ name \in Name /\ i \in Nat /\ call[c].st = "asked"
  BY DEF LockInv, StoreTypeOK, Call, Probe
<1>2. /\ i = 0 \/ i < Len(name)
      /\ \A j \in Nat : j < i => Key(name, j) \notin DOMAIN records
  BY <1>1 DEF LockInv, Probing
<1>3. Len(Lower(name)) = Len(name) /\ Len(name) \in Nat
  BY <1>1, LowerType DEF Lower, Name
<1>4. UNCHANGED <<records, gen, scan, before>>
  BY DEF Probe
<1>5. \/ /\ Key(name, i) \notin DOMAIN records /\ i < Len(Lower(name)) - 1
         /\ probe' = [probe EXCEPT ![c] = i + 1]
         /\ UNCHANGED <<call, mu>>
      \/ /\ Key(name, i) \in DOMAIN records \/ i >= Len(Lower(name)) - 1
         /\ call' = [call EXCEPT ![c].st = "got",
                       ![c].rec = IF Key(name, i) \in DOMAIN records
                                  THEN records[Key(name, i)] ELSE None]
         /\ mu' = [mu EXCEPT !.readers = @ \ {c}]
         /\ UNCHANGED probe
  BY DEF Probe, Key
<1> HIDE DEF name, i
<1>6. CASE /\ Key(name, i) \notin DOMAIN records /\ i < Len(Lower(name)) - 1
           /\ probe' = [probe EXCEPT ![c] = i + 1]
           /\ UNCHANGED <<call, mu>>
  BY <1>1, <1>3, <1>4, <1>6 DEF name, i
<1>7. CASE /\ Key(name, i) \in DOMAIN records \/ i >= Len(Lower(name)) - 1
           /\ call' = [call EXCEPT ![c].st = "got",
                         ![c].rec = IF Key(name, i) \in DOMAIN records
                                    THEN records[Key(name, i)] ELSE None]
           /\ mu' = [mu EXCEPT !.readers = @ \ {c}]
           /\ UNCHANGED probe
  <2>1. Get(name) = IF Key(name, i) \in DOMAIN records THEN records[Key(name, i)] ELSE None
    BY <1>1, <1>2, <1>3, <1>7, LastProbe
  <2> QED
    BY <1>1, <1>4, <1>7, <2>1 DEF name
<1> QED
  BY <1>5, <1>6, <1>7

-----------------------------------------------------------------------------
(* The invariant of the store is inductive *)

\* The types.
LEMMA StoreTypesStep == ASSUME LockInv, StoreStep PROVE StoreTypeOK'
<1>1. StoreTypeOK /\ RecordsTypeOK
  BY DEF LockInv, StoreTypeOK
<1>2. CASE AwaitLock \/ TakeLock \/ OpenFails
  BY <1>1, <1>2, LoaderEffect DEF StoreTypeOK, RecordsTypeOK, AwaitLock, TakeLock, OpenFails
<1>3. CASE \E f \in RecordFiles : Open(f)
  <2>1. records' = <<>> /\ gen' = gen
    BY <1>3 DEF Open
  <2>2. RecordsTypeOK'
    BY <1>1, <2>1 DEF RecordsTypeOK
  <2> QED
    BY <1>1, <1>3, <2>2, LoaderEffect DEF StoreTypeOK
<1>4. CASE ScanLine
  <2> DEFINE l == scan.file[scan.line]
             n == normalizeName(l.name)
  <2>1. l \in Line /\ gen' = gen
    BY <1>4, ScanEffect
  <2>2. records' = IF ValidLine(l)
                   THEN [x \in DOMAIN records \cup {n} |->
                           IF x = n THEN RecordOf(l) ELSE records[x]]
                   ELSE records
    BY <1>4 DEF ScanLine, RecordOf
  <2>3. n \in Name
    BY <2>1, LowerType DEF normalizeName, Line, Text
  <2>4. ValidLine(l) => RecordOf(l) \in Record
    BY <2>1, LineRecordType DEF RecordOf
  <2> HIDE DEF l, n
  <2>5. RecordsTypeOK'
    BY <1>1, <2>1, <2>2, <2>3, <2>4 DEF RecordsTypeOK
  <2> QED
    BY <1>1, <1>4, <2>5, LoaderEffect DEF StoreTypeOK
<1>5. CASE EndScan
  <2>1. RecordsTypeOK'
    BY <1>1, <1>5 DEF RecordsTypeOK, EndScan
  <2> QED
    BY <1>1, <1>5, <2>1, LoaderEffect DEF StoreTypeOK
<1>6. CASE \E c \in Reader : BeginGet(c)
  <2>1. PICK c \in Reader : BeginGet(c)
    BY <1>6
  <2>2. PICK name \in LookupNames :
           call' = [call EXCEPT ![c] = [st |-> "asked", name |-> name, rec |-> None]]
    BY <2>1 DEF BeginGet
  <2>3. [st |-> "asked", name |-> name, rec |-> None] \in Call
    BY StoreAssumption DEF Call
  <2>4. call' \in [Reader -> Call]
    BY <1>1, <2>2, <2>3 DEF StoreTypeOK
  <2> QED
    BY <1>1, <2>1, <2>4 DEF BeginGet, StoreTypeOK, RecordsTypeOK
<1>7. CASE \E c \in Reader : Probe(c)
  <2>1. PICK c \in Reader : Probe(c)
    BY <1>7
  <2>2. Get(call[c].name) \in Record \cup {None}
    BY <1>1, <2>1, ProbeEffect, GetType
  <2>3. RecordsTypeOK' /\ UNCHANGED scan
    BY <1>1, <2>1, ProbeEffect DEF RecordsTypeOK
  <2>4. CASE probe' = [probe EXCEPT ![c] = probe[c] + 1] /\ UNCHANGED <<call, mu>>
    BY <1>1, <2>3, <2>4 DEF StoreTypeOK
  <2>5. CASE /\ call' = [call EXCEPT ![c].st = "got", ![c].rec = Get(call[c].name)]
             /\ mu' = [mu EXCEPT !.readers = @ \ {c}] /\ UNCHANGED probe
    <3>1. call' \in [Reader -> Call]
      BY <1>1, <2>2, <2>5 DEF StoreTypeOK, Call
    <3>2. mu' \in [writer : {"none", "waits", "holds"}, readers : SUBSET Reader]
      BY <1>1, <2>5 DEF StoreTypeOK
    <3> QED
      BY <1>1, <2>3, <2>5, <3>1, <3>2 DEF StoreTypeOK
  <2> QED
    BY <2>1, <2>4, <2>5, ProbeEffect
<1> QED
  BY <1>2, <1>3, <1>4, <1>5, <1>6, <1>7 DEF StoreStep

\* The lock.
LEMMA LockedStep == ASSUME LockInv, StoreStep PROVE Locked'
<1>1. /\ call \in [Reader -> Call] /\ Locked
      /\ mu \in [writer : {"none", "waits", "holds"}, readers : SUBSET Reader]
  BY DEF LockInv, StoreTypeOK
<1>2. CASE \E c \in Reader : BeginGet(c)
  <2>1. PICK c \in Reader : BeginGet(c)
    BY <1>2
  <2>2. /\ mu.writer = "none" /\ mu'.writer = "none" /\ mu'.readers = mu.readers \cup {c}
        /\ UNCHANGED scan
    BY <1>1, <2>1 DEF BeginGet
  <2>3. call'[c].st = "asked" /\ \A o \in Reader : o # c => call'[o] = call[o]
    BY <1>1, <2>1 DEF BeginGet
  <2> QED
    BY <1>1, <2>2, <2>3 DEF Locked
<1>3. CASE \E c \in Reader : Probe(c)
  <2>1. PICK c \in Reader : Probe(c)
    BY <1>3
  <2>2. UNCHANGED scan /\ c \in mu.readers
    BY <1>1, <2>1, ProbeEffect DEF Locked
  <2>3. CASE UNCHANGED <<call, mu>>
    BY <1>1, <2>2, <2>3 DEF Locked
  <2>4. CASE /\ call' = [call EXCEPT ![c].st = "got", ![c].rec = Get(call[c].name)]
             /\ mu' = [mu EXCEPT !.readers = @ \ {c}]
    <3>1. mu'.writer = mu.writer /\ mu'.readers = mu.readers \ {c}
      BY <1>1, <2>4
    <3>2. call'[c].st = "got" /\ \A o \in Reader : o # c => call'[o] = call[o]
      BY <1>1, <2>4 DEF Call
    <3> QED
      BY <1>1, <2>2, <3>1, <3>2 DEF Locked
  <2> QED
    BY <2>1, <2>3, <2>4, ProbeEffect
<1> QED
  BY <1>2, <1>3, LoaderEffect DEF StoreStep

\* How far the load has come.
LEMMA ScanningStep == ASSUME LockInv, StoreStep PROVE Scanning'
<1>1. /\ scan \in [step : {"idle", "lock", "open", "scan"}, file : Seq(Line), line : Nat]
      /\ Scanning
  BY DEF LockInv, StoreTypeOK
<1>2. CASE AwaitLock \/ TakeLock \/ OpenFails \/ EndScan
  BY <1>1, <1>2 DEF AwaitLock, TakeLock, OpenFails, EndScan, Unlock, Scanning
<1>3. CASE \E f \in RecordFiles : Open(f)
  <2>1. PICK f \in RecordFiles : Open(f)
    BY <1>3
  <2>2. /\ scan'.step = "scan" /\ scan'.file = f /\ scan'.line = 1 /\ records' = <<>>
        /\ f \in Seq(Line)
    BY <2>1, StoreAssumption DEF Open
  <2>3. 1 \in 1..(Len(f) + 1) /\ 1..(1 - 1) = {} /\ 1 - 1 = 0
    BY <2>2
  <2> QED
    BY <2>2, <2>3, FilledNone DEF Scanning
<1>4. CASE ScanLine
  <2> DEFINE f == scan.file
             k == scan.line
  <2>1. /\ scan.step = "scan" /\ scan'.step = "scan" /\ scan'.file = f /\ scan'.line = k + 1
        /\ f \in RecordFiles /\ f \in Seq(Line) /\ k \in Nat \ {0} /\ k =< Len(f)
        /\ f[k].fits /\ records' = Filled(f, k)
    BY <1>4, ScanEffect
  <2>2. \A i \in 1..(k - 1) : f[i].fits
    BY <1>1, <2>1 DEF Scanning
  <2> HIDE DEF f, k
  <2>3. /\ k + 1 \in 1..(Len(f) + 1) /\ (k + 1) - 1 = k
        /\ \A i \in 1..k : i \in 1..(k - 1) \/ i = k
    BY <2>1
  <2>4. \A i \in 1..k : f[i].fits
    BY <2>1, <2>2, <2>3
  <2> QED
    BY <2>1, <2>3, <2>4 DEF Scanning
<1>5. CASE \E c \in Reader : BeginGet(c) \/ Probe(c)
  <2>1. UNCHANGED <<records, scan, before>>
    BY <1>5 DEF BeginGet, Probe
  <2> QED
    BY <1>1, <2>1 DEF Scanning
<1> QED
  BY <1>2, <1>3, <1>4, <1>5 DEF StoreStep

\* How far the lookups have come: the map stays while somebody reads it.
LEMMA ProbingStep == ASSUME LockInv, StoreStep PROVE Probing'
<1>1. /\ call \in [Reader -> Call] /\ probe \in [Reader -> Nat] /\ Locked /\ Probing
  BY DEF LockInv, StoreTypeOK
<1>2. CASE AwaitLock \/ TakeLock \/ OpenFails \/ (\E f \in RecordFiles : Open(f)) \/ ScanLine
              \/ EndScan
  <2>1. UNCHANGED <<call, probe>> /\ (records' = records \/ mu.writer = "holds")
    BY <1>2, LoaderEffect
  <2>2. CASE records' = records
    BY <1>1, <2>1, <2>2 DEF Probing
  <2>3. CASE mu.writer = "holds"
    <3>1. \A c \in Reader : call'[c].st # "asked"
      BY <1>1, <2>1, <2>3 DEF Locked
    <3> QED
      BY <3>1 DEF Probing
  <2> QED
    BY <2>1, <2>2, <2>3
<1>3. CASE \E c \in Reader : BeginGet(c)
  <2>1. PICK c \in Reader : BeginGet(c)
    BY <1>3
  <2>2. /\ UNCHANGED records /\ probe'[c] = 0
        /\ \A o \in Reader : o # c => call'[o] = call[o] /\ probe'[o] = probe[o]
    BY <1>1, <2>1 DEF BeginGet
  <2>3. ASSUME NEW o \in Reader, call'[o].st = "asked"
        PROVE  /\ probe'[o] = 0 \/ probe'[o] < Len(call'[o].name)
               /\ \A j \in Nat : j < probe'[o] => Key(call'[o].name, j) \notin DOMAIN records'
    <3>1. CASE o = c
      BY <2>2, <3>1
    <3>2. CASE o # c
      BY <1>1, <2>2, <2>3, <3>2 DEF Probing
    <3> QED
      BY <3>1, <3>2
  <2> QED
    BY <2>3 DEF Probing
<1>4. CASE \E c \in Reader : Probe(c)
  <2>1. PICK c \in Reader : Probe(c)
    BY <1>4
  <2>2. UNCHANGED records /\ call[c].st = "asked"
    BY <2>1, ProbeEffect
  <2>3. CASE /\ Key(call[c].name, probe[c]) \notin DOMAIN records
             /\ probe[c] + 1 < Len(call[c].name)
             /\ probe' = [probe EXCEPT ![c] = probe[c] + 1] /\ UNCHANGED call
    <3>1. probe'[c] = probe[c] + 1 /\ \A o \in Reader : o # c => probe'[o] = probe[o]
      BY <1>1, <2>3
    <3>2. \A j \in Nat : j < probe[c] + 1 => Key(call[c].name, j) \notin DOMAIN records
      <4>1. \A j \in Nat : j < probe[c] + 1 => j < probe[c] \/ j = probe[c]
        BY <1>1
      <4> QED
        BY <1>1, <2>2, <2>3, <4>1 DEF Probing
    <3>3. ASSUME NEW o \in Reader, call'[o].st = "asked"
          PROVE  /\ probe'[o] = 0 \/ probe'[o] < Len(call'[o].name)
                 /\ \A j \in Nat : j < probe'[o] => Key(call'[o].name, j) \notin DOMAIN records'
      <4>1. CASE o = c
        BY <2>2, <2>3, <3>1, <3>2, <4>1
      <4>2. CASE o # c
        BY <1>1, <2>2, <2>3, <3>1, <3>3, <4>2 DEF Probing
      <4> QED
        BY <4>1, <4>2
    <3> QED
      BY <3>3 DEF Probing
  <2>4. CASE /\ call' = [call EXCEPT ![c].st = "got", ![c].rec = Get(call[c].name)]
             /\ UNCHANGED probe
    <3>1. call'[c].st = "got" /\ \A o \in Reader : o # c => call'[o] = call[o]
      BY <1>1, <2>4 DEF Call
    <3> QED
      BY <1>1, <2>2, <2>4, <3>1 DEF Probing
  <2> QED
    BY <2>1, <2>3, <2>4, ProbeEffect
<1> QED
  BY <1>2, <1>3, <1>4 DEF StoreStep

\* The invariant holds when the process starts.
LEMMA LockInitInv == DetailInit => LockInv
<1> SUFFICES ASSUME DetailInit PROVE LockInv
  OBVIOUS
<1>1. NoCall \in Call
  BY DEF NoCall, Call, Name
<1>2. StoreTypeOK
  BY <1>1 DEF DetailInit, StoreInit, StoreTypeOK, RecordsTypeOK
<1>3. \A c \in Reader : call[c].st = "none"
  BY DEF DetailInit, StoreInit, NoCall
<1> QED
  BY <1>2, <1>3 DEF DetailInit, LockInv, Locked, Scanning, Probing

\* Every step of the process keeps it.
LEMMA LockNextInv == LockInv /\ [ProcessNext]_processVars => LockInv'
<1> SUFFICES ASSUME LockInv, StoreStep \/ UNCHANGED detailVars PROVE LockInv'
  BY ProcessSteps
<1>1. CASE StoreStep
  BY <1>1, StoreTypesStep, LockedStep, ScanningStep, ProbingStep DEF LockInv
<1>2. CASE UNCHANGED detailVars
  BY <1>2 DEF detailVars, LockInv, StoreTypeOK, RecordsTypeOK, Locked, Scanning, Probing
<1> QED
  BY <1>1, <1>2

-----------------------------------------------------------------------------
(* The store implements AtomicStore *)

\* The operators of AtomicStore that do not read the map are those of Records.
LEMMA SameLookups ==
    /\ \A n : Atomic!Lower(n) = Lower(n)
    /\ \A n, i : Atomic!Suffix(n, i) = Suffix(n, i)
    /\ \A S : Atomic!Min(S) = Min(S)
<1>1. ASSUME NEW n PROVE Atomic!Lower(n) = Lower(n)
  BY DEF Atomic!Lower, Lower
<1>2. ASSUME NEW n, NEW i PROVE Atomic!Suffix(n, i) = Suffix(n, i)
  BY DEF Atomic!Suffix, Suffix
<1>3. ASSUME NEW S PROVE Atomic!Min(S) = Min(S)
  BY DEF Atomic!Min, Min
<1> QED
  BY <1>1, <1>2, <1>3

\* So is the map that a file asks for.
LEMMA SameLoads == ASSUME NEW f PROVE Atomic!Loaded(f) = Loaded(f)
<1>1. \A l : Atomic!ValidLine(l) = ValidLine(l)
  BY DEF Atomic!ValidLine, ValidLine
<1>2. Atomic!Scanned(f) = Scanned(f)
  BY DEF Atomic!Scanned, Scanned
<1>3. \A t : Atomic!normalizeName(t) = normalizeName(t)
  BY SameLookups DEF Atomic!normalizeName, normalizeName
<1>4. \A l : Atomic!LowerContent(l) = LowerContent(l)
  BY SameLookups DEF Atomic!LowerContent, LowerContent
<1>5. \A S : Atomic!Max(S) = Max(S)
  BY DEF Atomic!Max, Max
<1> QED
  BY <1>1, <1>2, <1>3, <1>4, <1>5, Zenon DEF Atomic!Loaded, Loaded

\* Outside LoadFromFile a lookup sees the map as it is.
LEMMA SameGet == ASSUME mu.writer # "holds", NEW n PROVE Atomic!Get(n) = Get(n)
<1>1. Visible = records
  BY DEF Visible
<1>2. Atomic!Lower(n) = Lower(n) /\ \A m, i : Atomic!Suffix(m, i) = Suffix(m, i)
  BY SameLookups
<1>3. \A S : Atomic!Min(S) = Min(S)
  BY SameLookups
<1> QED
  BY <1>1, <1>2, <1>3, Zenon DEF Atomic!Get, Get

\* A step of the store is one of AtomicStore, or changes nothing of it.  The
\* load takes effect when its last line has been read and the lock is given
\* back, and the lookup when its last probe has been made.
LEMMA StoreRefines ==
    ASSUME LockInv, StoreStep \/ UNCHANGED detailVars
    PROVE  Atomic!StoreNext \/ UNCHANGED Atomic!storeVars
<1>1. /\ call \in [Reader -> Call] /\ Locked /\ Scanning
      /\ mu \in [writer : {"none", "waits", "holds"}, readers : SUBSET Reader]
      /\ scan \in [step : {"idle", "lock", "open", "scan"}, file : Seq(Line), line : Nat]
  BY DEF LockInv, StoreTypeOK
<1>2. CASE AwaitLock
  <2>1. Visible' = Visible
    BY <1>1, <1>2 DEF AwaitLock, Locked, Visible
  <2> QED
    BY <1>2, <2>1 DEF AwaitLock, Atomic!storeVars
<1>3. CASE TakeLock
  <2>1. Visible' = Visible
    BY <1>1, <1>3 DEF TakeLock, Locked, Visible
  <2> QED
    BY <1>3, <2>1 DEF TakeLock, Atomic!storeVars
<1>4. CASE OpenFails
  <2>1. Visible' = Visible
    BY <1>1, <1>4 DEF OpenFails, Unlock, Locked, Scanning, Visible
  <2> QED
    BY <1>4, <2>1 DEF OpenFails, Atomic!storeVars
<1>5. CASE (\E f \in RecordFiles : Open(f)) \/ ScanLine
  <2>1. scan.step \in {"open", "scan"} /\ UNCHANGED <<gen, call, mu, before>>
    BY <1>5 DEF Open, ScanLine
  <2>2. mu.writer = "holds"
    BY <1>1, <2>1 DEF Locked
  <2>3. Visible' = Visible
    BY <2>1, <2>2 DEF Visible
  <2> QED
    BY <2>1, <2>3 DEF Atomic!storeVars
<1>6. CASE EndScan
  <2> DEFINE f == scan.file
             k == scan.line - 1
  <2>1. /\ scan.step = "scan" /\ (scan.line =< Len(f) => ~f[scan.line].fits)
        /\ gen' = gen + 1 /\ mu'.writer = "none" /\ UNCHANGED <<records, call>>
    BY <1>1, <1>6 DEF EndScan, Unlock
  <2>2. /\ f \in RecordFiles /\ f \in Seq(Line) /\ scan.line \in 1..(Len(f) + 1)
        /\ \A i \in 1..k : f[i].fits
    BY <1>1, <2>1 DEF Scanning
  <2>3. k \in 0..Len(f) /\ k + 1 = scan.line /\ (k < Len(f) => ~f[k+1].fits)
    BY <2>1, <2>2
  <2>4. records = Filled(f, k)
    BY <1>1, <2>1 DEF Scanning
  <2> HIDE DEF f, k
  <2>5. records = Loaded(f)
    BY <2>2, <2>3, <2>4, FilledAll
  <2>6. Visible' = Atomic!Loaded(f)
    BY <2>1, <2>5, SameLoads DEF Visible
  <2> QED
    BY <2>1, <2>2, <2>6 DEF Atomic!StoreNext, Atomic!Load, Atomic!LoadFromFile
<1>7. CASE \E c \in Reader : BeginGet(c)
  <2>1. PICK c \in Reader : BeginGet(c)
    BY <1>7
  <2>2. PICK n \in LookupNames :
           call' = [call EXCEPT ![c] = [st |-> "asked", name |-> n, rec |-> None]]
    BY <2>1 DEF BeginGet
  <2>3. /\ call[c].st # "asked" /\ mu.writer = "none" /\ mu'.writer = "none"
        /\ UNCHANGED <<records, gen>>
    BY <1>1, <2>1 DEF BeginGet
  <2>4. call'[c].name = n /\ n \in Name
    BY <1>1, <2>2, StoreAssumption
  <2>5. Visible' = Visible
    BY <2>3 DEF Visible
  <2>6. Atomic!Invoke(c)
    BY <2>2, <2>3, <2>4, <2>5 DEF Atomic!Invoke, Atomic!Name, Name
  <2> QED
    BY <2>6 DEF Atomic!StoreNext
<1>8. CASE \E c \in Reader : Probe(c)
  <2>1. PICK c \in Reader : Probe(c)
    BY <1>8
  <2>2. UNCHANGED <<records, gen, scan, before>> /\ call[c].st = "asked"
    BY <2>1, ProbeEffect
  <2>3. mu.writer # "holds"
    BY <1>1, <2>2 DEF Locked
  <2>4. CASE UNCHANGED <<call, mu>>
    BY <2>2, <2>4 DEF Atomic!storeVars, Visible
  <2>5. CASE /\ call' = [call EXCEPT ![c].st = "got", ![c].rec = Get(call[c].name)]
             /\ mu' = [mu EXCEPT !.readers = @ \ {c}]
    <3>1. Visible' = Visible
      <4>1. mu'.writer = mu.writer
        BY <1>1, <2>5
      <4> QED
        BY <2>2, <4>1 DEF Visible
    <3>2. Atomic!Return(c)
      BY <2>2, <2>3, <2>5, <3>1, SameGet DEF Atomic!Return
    <3> QED
      BY <3>2 DEF Atomic!StoreNext
  <2> QED
    BY <2>1, <2>4, <2>5, ProbeEffect
<1>9. CASE UNCHANGED detailVars
  BY <1>9 DEF detailVars, Visible, Atomic!storeVars
<1> QED
  BY <1>2, <1>3, <1>4, <1>5, <1>6, <1>7, <1>8, <1>9 DEF StoreStep

\* The map is emptied and filled line by line under the write lock and probed
\* key by key under the read lock, and yet loads and lookups are atomic: the
\* record store implements AtomicStore, whatever the files, however many
\* handlers there are.
THEOREM StoreAtomic == ProcessSpec => StoreIsAtomic
<1>1. ProcessInit => LockInv
  BY LockInitInv DEF ProcessInit
<1>2. ProcessInit => Atomic!StoreInit
  <2> SUFFICES ASSUME ProcessInit PROVE Atomic!StoreInit
    OBVIOUS
  <2>1. DetailInit /\ StoreInit
    BY DEF ProcessInit, DetailInit
  <2>2. Visible = records
    BY <2>1 DEF DetailInit, Visible
  <2> QED
    BY <2>1, <2>2 DEF StoreInit, Atomic!StoreInit, NoCall, Atomic!NoCall
<1>3. LockInv /\ [ProcessNext]_processVars => [Atomic!StoreNext]_Atomic!storeVars
  BY ProcessSteps, StoreRefines
<1> QED
  BY <1>1, <1>2, <1>3, LockNextInv, PTL DEF ProcessSpec, StoreIsAtomic, Atomic!StoreSpec

-----------------------------------------------------------------------------
(* The configuration *)

\* What loadConfig returns without an error can be worked with.
LEMMA LoadedConfig ==
    ASSUME NEW r \in RawConfig, NEW exists, Loads(r, exists)
    PROVE  LET c == loadConfig(r)
           IN  /\ c # Unset
               /\ c.errorLimit >= 0
               /\ c.upstreams # <<>>
               /\ \A a \in {c.listen} \cup {c.upstreams[i] : i \in DOMAIN c.upstreams} :
                     a.host \in {"ip4", "ip6"} /\ a.port = "known"
<1> DEFINE d == setDefaults(r)
           c == loadConfig(r)
           up == [i \in DOMAIN d.upstreams |-> ParseUpstream(d.upstreams[i])]
<1>1. d \in RawConfig /\ d.upstreams = r.upstreams /\ d.listen = r.listen
  <2>1. \A S, v, u : v \in S /\ u \in S => Default(v, u) \in S
    BY Zenon DEF Default
  <2> DEFINE level == Default(r.level, "info")
             logFile == Default(r.logFile, "stdout")
             errorLimit == Default(r.errorLimit, 20)
             filtering == Default(r.filtering, FALSE)
             interval == Default(r.interval, "positive")
  <2>2. /\ level \in {"debug", "info", "warn", "error", "other", Unset}
        /\ logFile \in {"stdout", "writable", "unopenable", "rejected", Unset}
        /\ interval \in {"", "positive", "other", "malformed", Unset}
    BY DEF RawConfig, Default
  <2>3. errorLimit \in Int \cup {Unset}
    <3>1. r.errorLimit \in Int \cup {Unset}
      BY Zenon DEF RawConfig
    <3>2. 20 \in Int
      OBVIOUS
    <3>3. 20 \in Int \cup {Unset}
      BY <3>2, Zenon
    <3> QED
      BY <2>1, <3>1, <3>3, Zenon
  <2>4. filtering \in BOOLEAN \cup {Unset}
    BY <2>1, Zenon DEF RawConfig
  <2>5. d = [r EXCEPT !.level = level, !.logFile = logFile, !.errorLimit = errorLimit,
                      !.filtering = filtering, !.interval = interval]
    BY DEF setDefaults
  <2> HIDE DEF d, level, logFile, errorLimit, filtering, interval
  <2> DEFINE r1 == [r EXCEPT !.level = level]
             r2 == [r1 EXCEPT !.logFile = logFile]
             r3 == [r2 EXCEPT !.errorLimit = errorLimit]
             r4 == [r3 EXCEPT !.filtering = filtering]
             r5 == [r4 EXCEPT !.interval = interval]
  <2>6. r1 \in RawConfig /\ r1.upstreams = r.upstreams /\ r1.listen = r.listen
    BY <2>2 DEF RawConfig
  <2>7. r2 \in RawConfig /\ r2.upstreams = r1.upstreams /\ r2.listen = r1.listen
    <3> HIDE DEF r1
    <3> QED
      BY <2>2, <2>6 DEF RawConfig
  <2>8. r3 \in RawConfig /\ r3.upstreams = r2.upstreams /\ r3.listen = r2.listen
    <3> HIDE DEF r2
    <3> QED
      BY <2>3, <2>7 DEF RawConfig
  <2>9. r4 \in RawConfig /\ r4.upstreams = r3.upstreams /\ r4.listen = r3.listen
    <3> HIDE DEF r3
    <3> QED
      BY <2>4, <2>8 DEF RawConfig
  <2>10. r5 \in RawConfig /\ r5.upstreams = r4.upstreams /\ r5.listen = r4.listen
    <3> HIDE DEF r4
    <3> QED
      BY <2>2, <2>9 DEF RawConfig
  <2>11. d = r5
    BY <2>5
  <2> HIDE DEF r1, r2, r3, r4, r5
  <2> QED
    BY <2>6, <2>7, <2>8, <2>9, <2>10, <2>11
<1>2. validateConfig(d, exists)
  BY DEF Loads
<1>3. c = [d EXCEPT !.upstreams = up]
  BY DEF loadConfig
<1>4. \A a \in Endpoint : ParseUpstream(a) \in Endpoint
  BY DEF Endpoint, ParseUpstream
<1>5. d.upstreams \in Seq(Endpoint) /\ d.upstreams # <<>>
  BY <1>1, <1>2 DEF RawConfig, validateConfig
<1>6. /\ up \in Seq(Endpoint) /\ DOMAIN up = DOMAIN d.upstreams /\ up # <<>>
      /\ \A i \in DOMAIN up : up[i] = ParseUpstream(d.upstreams[i])
  BY <1>4, <1>5
<1>7. /\ d.listen \in Endpoint /\ ValidateAddress(d.listen)
      /\ \A i \in DOMAIN d.upstreams : ValidateAddress(ParseUpstream(d.upstreams[i]))
      /\ d.errorLimit >= 0
  BY <1>1, <1>2 DEF validateConfig, RawConfig
<1> HIDE DEF d, up
<1>8. /\ c \in RawConfig /\ c.upstreams = up /\ c.listen = d.listen
      /\ c.errorLimit = d.errorLimit
  BY <1>1, <1>3, <1>6 DEF RawConfig
<1> HIDE DEF c
<1>9. \A a \in Endpoint : ValidateAddress(a) => a.host \in {"ip4", "ip6"} /\ a.port = "known"
  BY DEF ValidateAddress, Endpoint
<1>10. \A a \in {c.listen} \cup {c.upstreams[i] : i \in DOMAIN c.upstreams} :
          a \in Endpoint /\ ValidateAddress(a)
  BY <1>6, <1>7, <1>8
<1>11. c # Unset
  BY <1>8, ConfigAssumption
<1>12. c.errorLimit >= 0 /\ c.upstreams # <<>>
  BY <1>6, <1>7, <1>8
<1> QED
  BY <1>9, <1>10, <1>11, <1>12 DEF c

-----------------------------------------------------------------------------
(* The invariant of the process is inductive *)

\* It holds when the process starts.
LEMMA RunInitInv == ProcessInit => RunInv
<1> SUFFICES ASSUME ProcessInit PROVE RunInv
  OBVIOUS
<1>1. /\ main = "config" /\ config = Unset /\ notified = FALSE /\ sig = <<>>
      /\ scan.step = "idle" /\ raw \in RawConfig
      /\ listening = [p \in {"udp", "tcp"} |-> "off"]
  BY ProcessAssumption DEF ProcessInit, DetailInit
<1>2. Loading /\ Configured /\ Signalled
  BY <1>1 DEF Loading, Configured, Signalled
<1>3. \A p \in DOMAIN listening : listening[p] = "off"
  BY <1>1
<1>4. Started
  BY <1>1, <1>3 DEF Started
<1> QED
  BY <1>1, <1>2, <1>4 DEF RunInv

\* The steps of run() that do not load records.
LEMMA RunStep ==
    ASSUME RunInv, LockInv, main # "exited",
           Setup \/ SetupLogger \/ StartFilter \/ StartServer \/ Notify \/ ClearCache
    PROVE  RunInv'
<1> USE DEF RunInv, environment, history, detailVars
<1>1. CASE Setup
  <2>1. main = "config" /\ main' \in {"logger", "exited"} /\ ~notified
    BY <1>1 DEF Setup, Started
  <2>2. Loads(raw, TRUE) \/ Loads(raw, FALSE) => loadConfig(raw) # Unset
    BY LoadedConfig DEF Configured
  <2>3. Loads(raw, file # Missing) => \E exists \in BOOLEAN : Loads(raw, exists)
    <3>1. (file # Missing) \in BOOLEAN
      OBVIOUS
    <3> QED
      BY <3>1, Zenon
  <2>4. Configured'
    BY <1>1, <2>1, <2>2, <2>3 DEF Setup, Configured
  <2> QED
    BY <1>1, <2>1, <2>4 DEF Setup, Loading, Started, Signalled
<1>2. CASE SetupLogger
  BY <1>2 DEF SetupLogger, Loading, Configured, Started, Signalled
<1>3. CASE StartFilter
  BY <1>3 DEF StartFilter, Loading, Configured, Started, Signalled
<1>4. CASE StartServer
  BY <1>4 DEF StartServer, Loading, Configured, Started, Signalled
<1>5. CASE Notify
  BY <1>5 DEF Notify, Loading, Configured, Started, Signalled
<1>6. CASE ClearCache
  BY <1>6 DEF ClearCache, Loading, Configured, Started, Signalled
<1> QED
  BY <1>1, <1>2, <1>3, <1>4, <1>5, <1>6

\* The steps that load them.
LEMMA LoadStep ==
    ASSUME RunInv, LockInv, main # "exited",
           BeginLoad \/ OpenRecords \/ ScanRecords \/ EndLoad
    PROVE  RunInv'
<1> USE DEF RunInv, environment, history
<1>1. /\ gen \in Nat
      /\ scan \in [step : {"idle", "lock", "open", "scan"}, file : Seq(Line), line : Nat]
  BY DEF LockInv, StoreTypeOK, RecordsTypeOK
<1>2. CASE BeginLoad
  <2>1. /\ main = "load" /\ UNCHANGED <<gen, raw, config, filterReady, listening, notified, sig, told>>
        /\ \/ /\ main' = (IF notified THEN "clear" ELSE "filter") /\ UNCHANGED scan
              /\ config.resolveFrom = Unset
           \/ main' = "loading" /\ scan'.step = "lock"
    BY <1>1, <1>2 DEF BeginLoad, AfterLoad, AwaitLock, detailVars
  <2> QED
    BY <2>1 DEF Loading, Configured, Started, Signalled
<1>3. CASE OpenRecords
  <2>1. /\ main = "loading" /\ scan.step = "open"
        /\ UNCHANGED <<gen, raw, config, filterReady, listening, notified, sig, told>>
        /\ \/ main' = (IF notified THEN "wait" ELSE "exited") /\ scan'.step = "idle"
           \/ main' = main /\ scan'.step = "scan"
    BY <1>1, <1>3 DEF OpenRecords, AfterLoad, Open, OpenFails, Unlock
  <2> QED
    BY <2>1 DEF Loading, Configured, Started, Signalled
<1>4. CASE ScanRecords
  <2>1. /\ scan.step # "idle" /\ scan'.step # "idle"
        /\ UNCHANGED <<gen, main, raw, config, filterReady, listening, notified, sig, told>>
    BY <1>1, <1>4 DEF ScanRecords, TakeLock, ScanLine
  <2> QED
    BY <2>1 DEF Loading, Configured, Started, Signalled
<1>5. CASE EndLoad
  <2>1. /\ scan.step # "idle" /\ scan'.step = "idle" /\ gen' = gen + 1
        /\ main' \in (IF notified THEN {"clear", "wait"} ELSE {"filter", "exited"})
        /\ UNCHANGED <<raw, config, filterReady, listening, notified, sig, told>>
    BY <1>1, <1>5 DEF EndLoad, AfterLoad, EndScan, Unlock
  <2>2. gen' > 0
    BY <1>1, <2>1
  <2> QED
    BY <2>1, <2>2 DEF Loading, Configured, Started, Signalled
<1> QED
  BY <1>2, <1>3, <1>4, <1>5

\* Listeners, handlers, the administrator and signals.
LEMMA OthersStep ==
    ASSUME RunInv, main # "exited",
           \/ TakeSignal
           \/ \E p \in DOMAIN listening : Listen(p)
           \/ \E c \in Reader : Lookup(c)
           \/ Edit
           \/ \E s \in {"HUP", "TERM"} : Send(s)
    PROVE  RunInv'
<1> USE DEF RunInv, environment, history
<1>1. CASE TakeSignal
  BY <1>1 DEF TakeSignal, detailVars, Loading, Configured, Started, Signalled
<1>2. CASE \E p \in DOMAIN listening : Listen(p)
  BY <1>2 DEF Listen, detailVars, Loading, Configured, Started, Signalled
<1>3. CASE \E c \in Reader : Lookup(c)
  BY <1>3 DEF Lookup, BeginGet, Probe, Loading, Configured, Started, Signalled
<1>4. CASE Edit
  BY <1>4 DEF Edit, detailVars, Loading, Configured, Started, Signalled
<1>5. CASE \E s \in {"HUP", "TERM"} : Send(s)
  BY <1>5 DEF Send, Deliver, detailVars, Loading, Configured, Started, Signalled
<1> QED
  BY <1>1, <1>2, <1>3, <1>4, <1>5

\* Every step of the process keeps it.
LEMMA RunNextInv == RunInv /\ LockInv /\ [ProcessNext]_processVars => RunInv'
<1>1. ASSUME RunInv, UNCHANGED processVars PROVE RunInv'
  BY <1>1 DEF processVars, detailVars, RunInv, Loading, Configured, Started, Signalled
<1> QED
  BY <1>1, RunStep, LoadStep, OthersStep DEF ProcessNext, Run

\* The invariant holds in every state the process reaches.
LEMMA ProcessSafe == ProcessSpec => [](RunInv /\ LockInv)
<1>1. ProcessInit => LockInv
  BY LockInitInv DEF ProcessInit
<1> QED
  BY <1>1, RunInitInv, LockNextInv, RunNextInv, PTL DEF ProcessSpec

\* A listener is only up once the configuration was accepted, the records were
\* loaded and the filter has its lists, and stays ready through all reloads.
THEOREM ReadySafe == ProcessSpec => []ServesOnlyWhenReady
<1>1. RunInv => ServesOnlyWhenReady
  BY DEF RunInv, Configured, Started, ServesOnlyWhenReady, Serving
<1> QED
  BY ProcessSafe, <1>1, PTL

\* Whatever the configuration file says, what the process works with has valid
\* addresses and limits.
THEOREM ConfigSafe == ProcessSpec => []ConfigUsable
<1>1. RunInv => ConfigUsable
  <2> SUFFICES ASSUME RunInv, config # Unset PROVE ConfigUsable
    BY DEF ConfigUsable
  <2>1. raw \in RawConfig /\ config = loadConfig(raw) /\ \E exists \in BOOLEAN : Loads(raw, exists)
    BY DEF RunInv, Configured
  <2> QED
    BY <2>1, LoadedConfig DEF ConfigUsable
<1> QED
  BY ProcessSafe, <1>1, PTL

\* Once signal.Notify was called, only SIGTERM or SIGINT ends the process, not
\* a failed reload or listener.
THEOREM StopSafe == ProcessSpec => []StopsOnlyWhenTold
<1>1. RunInv => StopsOnlyWhenTold
  BY DEF RunInv, Signalled, StopsOnlyWhenTold
<1> QED
  BY ProcessSafe, <1>1, PTL
=============================================================================
