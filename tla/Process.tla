------------------------------- MODULE Process -------------------------------
(***************************************************************************)
(* The process from main() to its end: run() reads the configuration,      *)
(* opens the log, loads the records, waits for the first load of the       *)
(* filter, starts the listeners in goroutines of their own, installs the   *)
(* signal handler and then acts on one signal after the other.  Handlers   *)
(* look names up in the record store while it is reloaded.                 *)
(*                                                                         *)
(* The administrator edits the records file and sends signals at any time. *)
(***************************************************************************)
EXTENDS RecordStore, Config

CONSTANTS RawConfigs,    \* the configuration files
          Missing,       \* the records file is not there
          Unreadable,    \* it is there and cannot be opened
          MaxEdits,      \* bound on the edits of the records file
          MaxSignals     \* bound on the signals that are sent

ASSUME ProcessAssumption ==
    /\ RawConfigs \subseteq RawConfig
    /\ {MaxEdits, MaxSignals} \subseteq Nat

VARIABLES
    main,         \* what run() does next
    raw, config,  \* the configuration file, and cfg
    filterReady,  \* has the first LoadOnce of the filter returned?
    listening,    \* the UDP and the TCP listener
    notified,     \* has signal.Notify been called?
    sig,          \* the signal channel, of capacity 1
    file,         \* the records file
    edits, sent,  \* how often it was edited, how many signals were sent
    asked,        \* history: the edit the last SIGHUP asks to be loaded
    tried,        \* history: the last edit a load has tried to read
    told          \* history: has a SIGTERM or SIGINT entered the channel?

environment == <<raw, file, edits, sent>>
history == <<asked, tried, told>>
processVars == <<main, raw, config, filterReady, listening, notified, sig, file,
                 edits, sent, asked, tried, told, detailVars>>

Files == RecordFiles \cup {Missing, Unreadable}

ProcessInit ==
    /\ main = "config"
    /\ raw \in RawConfigs /\ config = Unset
    /\ filterReady = FALSE
    /\ listening = [p \in {"udp", "tcp"} |-> "off"]
    /\ notified = FALSE /\ sig = <<>>
    /\ file \in Files /\ edits = 0 /\ sent = 0
    /\ asked = 0 /\ tried = 0 /\ told = FALSE
    /\ DetailInit

-----------------------------------------------------------------------------
(* run() up to its signal loop.  An error ends the process. *)

Setup ==
    /\ main = "config"
    /\ IF Loads(raw, file # Missing)
       THEN config' = loadConfig(raw) /\ main' = "logger"
       ELSE main' = "exited" /\ UNCHANGED config
    /\ UNCHANGED <<environment, filterReady, listening, notified, sig, history, detailVars>>

\* logger.Setup calls os.Exit if the path is refused or cannot be opened.
SetupLogger ==
    /\ main = "logger"
    /\ main' = IF config.logFile \in {"stdout", "writable"} THEN "load" ELSE "exited"
    /\ UNCHANGED <<environment, config, filterReady, listening, notified, sig, history, detailVars>>

\* Mutant of StartFilter: Start loads the lists in its goroutine.
StartFilterInBackground ==
    /\ main = "filter"
    /\ main' = "serve"
    /\ UNCHANGED <<environment, config, filterReady, listening, notified, sig, history, detailVars>>

\* NewFilter and Start, which returns after the first LoadOnce.
StartFilter ==
    /\ main = "filter"
    /\ filterReady' = config.filtering
    /\ main' = "serve"
    /\ UNCHANGED <<environment, config, listening, notified, sig, history, detailVars>>

\* server.New, and srv.Start in a goroutine.
StartServer ==
    /\ main = "serve"
    /\ main' = "notify"
    /\ UNCHANGED <<environment, config, filterReady, listening, notified, sig, history, detailVars>>

Notify ==
    /\ main = "notify"
    /\ notified' = TRUE
    /\ main' = "wait"
    /\ UNCHANGED <<environment, config, filterReady, listening, sig, history, detailVars>>

\* A listener binds its address, or an error is logged: nobody looks at it.
Listen(p) ==
    /\ main = "notify" \/ notified
    /\ listening[p] = "off"
    /\ \E outcome \in {"up", "failed"} : listening' = [listening EXCEPT ![p] = outcome]
    /\ UNCHANGED <<environment, main, config, filterReady, notified, sig, history, detailVars>>

-----------------------------------------------------------------------------
(* loadRecords, at startup and on SIGHUP *)

\* What run() does when loadRecords has returned.
AfterLoad(ok) ==
    main' = CASE ok /\ notified  -> "clear"
              [] ok /\ ~notified -> "filter"
              [] ~ok /\ notified -> "wait"
              [] OTHER           -> "exited"

BeginLoad ==
    /\ main = "load"
    /\ IF config.resolveFrom = Unset
       THEN AfterLoad(TRUE) /\ tried' = edits /\ UNCHANGED detailVars
       ELSE AwaitLock /\ main' = "loading" /\ UNCHANGED tried
    /\ UNCHANGED <<environment, config, filterReady, listening, notified, sig, asked, told>>

OpenRecords ==
    /\ main = "loading" /\ scan.step = "open"
    /\ IF config.resolveFrom = "path" /\ file \in RecordFiles
       THEN Open(file) /\ UNCHANGED main
       ELSE OpenFails /\ AfterLoad(FALSE)
    /\ tried' = edits
    /\ UNCHANGED <<environment, config, filterReady, listening, notified, sig, asked, told>>

ScanRecords ==
    /\ TakeLock \/ ScanLine
    /\ UNCHANGED <<environment, main, config, filterReady, listening, notified, sig, history>>

\* Mutant of EndLoad: an error ends the process on reload as it does at startup.
EndLoadOrExit ==
    /\ EndScan
    /\ main' = CASE ScanError(scan.file) -> "exited"
                 [] ~ScanError(scan.file) /\ notified -> "clear"
                 [] OTHER -> "filter"
    /\ UNCHANGED <<environment, config, filterReady, listening, notified, sig, history>>

EndLoad ==
    /\ EndScan
    /\ AfterLoad(~ScanError(scan.file))
    /\ UNCHANGED <<environment, config, filterReady, listening, notified, sig, history>>

-----------------------------------------------------------------------------
(* The signal loop *)

TakeSignal ==
    /\ main = "wait" /\ sig # <<>>
    /\ main' = IF Head(sig) = "HUP" THEN "load" ELSE "exited"
    /\ sig' = <<>>
    /\ UNCHANGED <<environment, config, filterReady, listening, notified, history, detailVars>>

\* Mutant of ClearCache: the channel is drained, so that reloads do not pile up.
ClearCacheAndSignals ==
    /\ main = "clear"
    /\ main' = "wait"
    /\ sig' = <<>>
    /\ UNCHANGED <<environment, config, filterReady, listening, notified, history, detailVars>>

ClearCache ==
    /\ main = "clear"
    /\ main' = "wait"
    /\ UNCHANGED <<environment, config, filterReady, listening, notified, sig, history, detailVars>>

-----------------------------------------------------------------------------
(* The administrator and the runtime's delivery of signals *)

Edit ==
    /\ edits < MaxEdits
    /\ edits' = edits + 1
    /\ file' \in Files \ {file}
    /\ UNCHANGED <<main, raw, config, filterReady, listening, notified, sig, sent,
                   history, detailVars>>

\* Mutant of Deliver: the channel has no buffer.
DeliverUnbuffered(s) == IF sig = <<>> /\ main = "wait" THEN <<s>> ELSE sig

\* The runtime does not wait for room in the channel: it drops the signal.
Deliver(s) == IF sig = <<>> THEN <<s>> ELSE sig

\* Before signal.Notify, each of the signals kills the process.
Send(s) ==
    /\ sent < MaxSignals
    /\ sent' = sent + 1
    /\ IF notified
       THEN /\ sig' = Deliver(s)
            /\ asked' = IF s = "HUP" THEN edits ELSE asked
            /\ told' = (told \/ (s = "TERM" /\ sig = <<>>))
            /\ UNCHANGED main
       ELSE /\ main' = "exited"
            /\ UNCHANGED <<sig, asked, told>>
    /\ UNCHANGED <<raw, config, filterReady, listening, notified, file, edits, tried, detailVars>>

\* A handler's lookup; there are handlers once a listener is up.
Lookup(c) ==
    /\ \/ BeginGet(c) /\ \E p \in DOMAIN listening : listening[p] = "up"
       \/ Probe(c)
    /\ UNCHANGED <<environment, main, config, filterReady, listening, notified, sig, history>>

Run ==
    \/ Setup \/ SetupLogger \/ StartFilter \/ StartServer \/ Notify
    \/ BeginLoad \/ OpenRecords \/ ScanRecords \/ EndLoad
    \/ TakeSignal \/ ClearCache

ProcessNext ==
    /\ main # "exited"
    /\ \/ Run
       \/ \E p \in DOMAIN listening : Listen(p)
       \/ \E c \in Reader : Lookup(c)
       \/ Edit
       \/ \E s \in {"HUP", "TERM"} : Send(s)

\* The scheduler runs main and the handlers that are inside Get.
ProcessSpec ==
    /\ ProcessInit /\ [][ProcessNext]_processVars
    /\ WF_processVars(main # "exited" /\ Run)
    /\ \A c \in Reader : WF_processVars(main # "exited" /\ call[c].st = "asked" /\ Lookup(c))

-----------------------------------------------------------------------------
Serving == main # "exited" /\ \E p \in DOMAIN listening : listening[p] = "up"

\* Nobody is answered before the process is ready: when a listener is up, the
\* configuration was accepted, the records file was read (with an error the
\* process would have ended instead of starting a listener), and the lists of
\* the filter are in force.  Later reloads may fail and the server stays up.
ServesOnlyWhenReady ==
    Serving => /\ config # Unset
               /\ config.resolveFrom # Unset => gen > 0
               /\ config.filtering => filterReady

\* What the rest of the program is given to work with: an address to listen
\* on and at least one upstream, each an IP address with a port, and an error
\* limit that is not negative.
ConfigUsable ==
    config # Unset =>
        /\ config.errorLimit >= 0
        /\ config.upstreams # <<>>
        /\ \A a \in {config.listen} \cup {config.upstreams[i] : i \in DOMAIN config.upstreams} :
              a.host \in {"ip4", "ip6"} /\ a.port = "known"

\* Once the signal handler is there, nothing but SIGTERM or SIGINT ends the
\* process: no reload does, whatever has become of the records file, and no
\* listener that fails.
StopsOnlyWhenTold == main = "exited" /\ notified => told

\* A SIGTERM or SIGINT that entered the channel ends the process, even if a
\* reload is in progress and handlers keep the record store busy.
StopsWhenTold == told ~> main = "exited"

\* No SIGHUP is lost for good: whatever is dropped because the channel is
\* full, a load is eventually tried on the file as it was when the last SIGHUP
\* was sent, or on a later one, unless the process ends.  (Whether that file can
\* be opened and scanned is another matter.)
ReloadTakesEffect ==
    \A e \in 1..MaxEdits : asked = e ~> tried >= e \/ main = "exited"
=============================================================================
