# A TLA+ model of resolvit

resolvit is a DNS forwarder: it answers some names from a local records file,
filters names against blocklists, caches what it answers, and forwards the rest
to upstream servers. This directory holds TLA+ modules of its core, the TLC
configurations that check them on small instances, and proofs that TLAPS checks.
Paths such as `pkg/handler` are relative to the repository.

## The system

| Part | State it keeps | Operations | Where |
|---|---|---|---|
| Request handler | one goroutine per request, its message | `HandleDNSRequest` and what it calls | `pkg/handler` |
| Response cache | map from name, type and protocol to a message and its expiry | `Get`, `Set`, `Clear` | `pkg/dnscache` |
| Forwarder | none between calls | `Forward`, `exchange` | `pkg/forward` |
| Local records | map from names to A and CNAME records | `Get`, `LoadFromFile` | `pkg/records` |
| Filter | blocklist, allowlist, each in an `atomic.Value` | `ShouldBlock`, `LoadOnce`, the refresh loop | `pkg/filtering/filter.go`, `domainset.go` |
| List loader | copies of downloaded lists on disk | `LoadSources`, `LoadAllowlist`, `parseList`, `BuildSources` | `pkg/filtering/loader.go`, `parser.go`, `sources.go` |
| Process | the signal channel, two listeners | `run`, SIGHUP reload, `Server.Start` | `main.go`, `pkg/server` |
| Configuration, logging | read once | `config.Setup`, `logger.Setup` | `pkg/config`, `pkg/logger` |

How they interact: the DNS library starts a goroutine for each request; it looks
the name up in the records, then asks the filter, then the cache, then the
upstreams, and stores what it got in the cache *before* it cuts the same message
object to the size of a UDP reply. `main` reloads the records on SIGHUP and then
clears the cache. A goroutine of the filter replaces the two lists at intervals.
The listeners run in goroutines that nobody watches. Nothing but the record store and the cache map is locked, and each lock covers a
single call.

What is hard about it: the cached message is shared with the handler that made
it; a handler keeps what it read while a reload or a refresh goes by; a CNAME
chain is followed with one lookup per link; upstreams fail, truncate and fail
again over TCP; a refresh can die between two steps and leaves its traces on
disk; a reload empties the record store and fills it while it is asked; signals
arrive while others are queued, or before anybody listens to them. `PROJECT.json` lists these hazards with the lines where they bite.

## Modules

| Module | Models | State and actions |
|---|---|---|
| `Names` | name spelling, suffixes and what has a wire form | operators: `normalizeName`, `WithDot` (`rec.Content + "."`), `Suffix`, `Packable` |
| `Records` | `pkg/records` | `records`; `LoadFromFile`, `Get` |
| `Messages` | questions, messages and their size | operators |
| `DnsCache` | `pkg/dnscache` | `heap` (message objects), `cache`, `now`; `Found` (= `Get`), `Set`, `Clear` |
| `Forwarder` | `pkg/forward` | `fwd`, the call each request is in; `Forward`, and one action per outcome of an exchange |
| `DomainSet`, `Filter` | `domainset.go`, `filter.go` | `blocklist`, `allowlist`, `load`, `check`; the three steps of `LoadOnce`, the two reads of `ShouldBlock` |
| `Handler` | `pkg/handler` | `pc`, `query`, `target`, `out`; one action per access to shared state |
| `Resolvit` | the running server | `main`; SIGHUP, refresh, clock, and all handlers |
| `CnameChain` | the loop of `handleCNAME` alone | `target`, `at`; `Turn`, `Reload` |
| `ListLoader` | `loader.go` | `disk`, `at`, `data`, `merged`, `inForce`; the steps of `LoadSources`, crash and restart, maybe with another configuration; `sanitizeID`, `cacheFileName` |
| `Sources` | `sources.go` | operators: `BuildSources`, as the set of the sequences that Go's map order allows |
| `ListParser` | `parser.go`, `AddExact`, `AddWildcard` | `set`, `stats`, `count`, `logged`, `warned`, and where the two loops are; `NextLine`, `AddToken`, `ScanFails`, `Finish` |
| `AtomicStore` | what `pkg/records` promises | `records`, `call`; `Load`, `Invoke`, `Return` |
| `RecordStore` | `pkg/records` step by step | adds the lock `mu`, `scan`, `probe`; one action per line of the file and per access to the map |
| `Config` | `pkg/config` | operators: defaults, checks, the default port |
| `Process` | `main.go`, `pkg/server` | `main`, `config`, `listening`, `sig`, `file`; startup, listeners, signals, reload; extends `RecordStore` and `Config` |
| `ValueCache` | what clients may rely on | `asked`, `known`, `reply`; `Ask`, `Learn`, `Answer` |
| `AnswerHistory` | `Resolvit` with a history | `known`: the messages `cache.Set` was called with, as they were then |
| `FilterProofs` | | theorems about `Filter` |
| `RecordsProofs` | | lemmas about `Get` and the map `LoadFromFile` builds |
| `ResolvitProofs` | | type correctness of `Resolvit`, the filter inside it, what its cache may hold |
| `ReplyProofs` | | what clients of `Resolvit` get |
| `HistoryProofs` | | `Resolvit` implements `ValueCache` |
| `ProcessProofs` | | `RecordStore` implements `AtomicStore`; `Process` and `Config` |
| `LoaderProofs` | | theorems about `ListLoader` |
| `ParserProofs` | | theorems about `ListParser` |
| `MC*` | | the values the configurations use |

`Resolvit` extends `Handler`, which extends `DnsCache`, `Forwarder` and `Filter`;
the variables are shared, and each component's actions say what they do to the
component's own variables. `Process` is about `main` and the record store alone, so that the steps of
`LoadFromFile` can be told apart; in `Resolvit` a load is one step, which is what
`StoreIsAtomic` justifies. `CnameChain` leaves the message out so that an endless
chain is a cycle of states and not an ever longer answer.

How the models abstract:

- A name is a sequence of labels with an implied final dot; labels have
  upper-case spellings where case matters. A name written with a final dot where
  the code adds another gets an empty label. What `dns.PackDomainName` refuses is
  an empty label, one over 63 bytes (`LongLabel`) or a name over 255 bytes, which is
  counted in labels (`MaxLabels`).
- Sizes are counted in resource records, both the limit of UDP replies
  (`MaxMsgSize`) and that of any message (`MaxWireSize`, 65535 bytes). `rest` is the
  size of what truncation cannot remove.
- An upstream answers with any reply in `Reply`, truncates it anywhere, over UDP or
  TCP, or fails.
- The id of a list is a sequence of words and single other characters; `Clean` says
  what `sanitizeID` writes for each and `Blank` which of them are white space. The hash
  of a location, which names the file of a list without an id, has no collisions.
- `Copy` of a cached message is two steps, header and answers, because the owner
  of the message may be changing both. The race on the slice header has no other
  outcomes: only its length changes, by one word.
- An upstream's reply carries the question it was asked.
- A line of a list is the sequence of its tokens, and a token a name or one of
  three things that are none: a comment, an address, junk. `stripBOM` and the
  counter of lines, which nobody reads, are left out.
- A configuration is abstracted to the cases its checks tell apart. SIGINT stands
  for SIGTERM. The records file is read as it was when it was opened.
- `sync.RWMutex`: a writer that waits keeps new readers out, so that it gets the
  lock when the readers inside have left.
- Requests are handled once each; their ids are the requests themselves.
- History variables (`made`, `lost`, `gen`, `src` in a message; `set`, `era` in an
  entry; `hit`, `born`, `reloads`, `gen`; `loads` and `since`; `failed`; `durable`; `logged`; `asked`, `tried` and `told` of
  `Process`; `before`; `known`; `kept`)
  record what properties speak of. No guard depends on them, except that `gen`,
  `loads` and the counters of `ListLoader` carry the bounds. `gen` counts the loads that
  replaced records, also those whose scan failed; `reloads` is its value at the last
  `ClearCache`, and `born` the value of `reloads` when a request arrived.

Operators that a comment calls a mutant are not part of any specification: they
are the plausible mistakes that the properties are shown to catch.

## Runs

Passing runs, with the instance and why it is large enough:

| Run | Instance | Shows |
|---|---|---|
| `transport` | 2 requests; one name in 2 spellings, 2 types, 2 transports; replies that need one and two cuts, and one without answers; clock to 2 | `RepliesMatchRequests`, `UdpRepliesFit`, `TcpRepliesUncut`, `CutRepliesFlagged`, `LostAnswersFlagged`, `HitsWithinTtl`, `RepliesRepeatValues` |
| `reload` | 2 requests, 3 questions; 2 files: an address and an alias of a remote name; a wildcard alias of a local alias, which with an upstream's answer is too large for the wire, a content with a final dot, one with an overlong label, and an overlong line, which ends the scan; 2 reloads; an upstream that answers, truncates over either transport and fails; fairness | `ChainsLinked`, `StaleOnlyIfInFlight`, `LocalRecordsWin`, `SilentOnlyIfUnsendable`, `LostAnswersFlagged`, `EveryRequestAnswered` |
| `filtering` | 2 requests; 2 upstreams; names blocked, allowed and local; 1 refresh; clock to 1, so that entries expire | `TypeOK`, `NothingBypassesFilter`, `OnlyAnswersCached`, `GivesUpLast`, `NeverFailsOpen` |
| `chain` | every file of two lines over three names and a wildcard; 1 reload | `ChainEndsIfAcyclic` |
| `loader` | 4 configurations in all orders of their tables (custom lists with a URL and a file; a list of the catalog and one whose id `sanitizeID` makes equal to it; two blank ids for one URL; a blank id and a custom list at the place of another); a crash, after which the configuration may be another one; 2 refreshes; 2 versions | `LoaderTypeOK`, `CacheUsable`, `OwnList`, `NoRollback` |
| `parser` | all pairs of lines of at most 2 of 11 tokens, all lines of 3, and overlong lines; error limits 0, 1 and 2 | `ListMeaning`, `EveryEntryAccounted` |
| `process` | a good configuration and 17 neighbours; 2 records files, or none, or one that cannot be opened; 2 edits, 3 signals; 1 handler that looks 2 names up again and again | `ServesOnlyWhenReady`, `ConfigUsable`, `StopsOnlyWhenTold`, `StoreIsAtomic`, `StopsWhenTold`, `ReloadTakesEffect` |

Two requests are enough for the properties of the cache because each of them
speaks of one reader and one owner of a message; an entry always refers to one
object. Two loads of the lists give every mixture of old and new that the two
reads can see, and `FilterSafe` removes that bound. Three signals fill
the channel while one is being handled and leave one to be dropped. Two lines show
that nothing of a line outlasts it, three tokens that a comment ends a line after
an address. The systems stop when the
bounded requests, loads and clock are used up, so deadlock is not checked there;
`EveryRequestAnswered`, `ChainEndsIfAcyclic`, `StopsWhenTold` and
`ReloadTakesEffect` say that nothing stops earlier.

Two runs check that a detailed specification implements an abstract one.

- `StoreIsAtomic` (`process`): `RecordStore` implements `AtomicStore`, in which a load
  is one step and a lookup is answered from the records of one moment. The mapping
  is `Visible`: what the map held when the writer got the lock, until it lets go of
  it. `records.go:22` promises this ("safe for concurrent use via package functions").
- `RepliesRepeatValues` (`transport`): the server implements `ValueCache`, in which
  messages are values that never change and a reply is a refusal or repeats one of
  them, whole over TCP, perhaps without its last answers over UDP. The cache of the
  code holds pointers to objects that are still being cut, so the values are in no
  variable of the server; `AnswerHistory` adds them as a history variable. The
  abstract cache may add a truncated flag to what it repeats and does not say when:
  the flag that a hit in the middle of a cut misses is the subject of `cut_hit`.

Runs that end in a counterexample check a sentence of a comment or a document
that the code does not keep:

| Run | Sentence | What happens |
|---|---|---|
| `cut_hit` | `handler.go:236` truncated UDP replies are flagged | a hit copies the header, then the owner flags and cuts, then the hit copies the answers |
| `stale` | `README.md:19`, `main.go:96` a reload makes changes effective | a handler in flight stores the old answer after `ClearCache` |
| `chain_cycle` | `handler.go:116` clients are not left hanging | CNAME records that form a cycle |
| `refresh_blocks` | `resolvit.conf.example:47` allowlisted names always resolve | old allowlist, new blocklist |
| `loader_torn` | `docs/filtering.md:84` the last cached list is used | the copy was cut short by a crash or a full disk |

Other places where the code is weaker than a document suggests, read off the
models and not run: a TCP client is sent, and the TCP entry of the cache keeps,
the truncated UDP response when the upstream's TCP retry fails
(`handler.go:73` calls TCP responses complete), and `handleCNAME` takes over the
answers of such a response without its flag (`LostAnswersFlagged` says that these
replies are the only ones that do not tell); the whole message expires with its
first answer's TTL (`README.md:22`); a question of another type for a name with a
local A record gets an empty answer and is not forwarded (`README.md:69`); the
copy of a custom list is filed under its position, so exchanging custom lists can
bring the wrong copy back (`docs/filtering.md:84`), and ids that differ only in
characters that `sanitizeID` replaces, or a list called `custom_1` beside a custom
list, share one copy (`OwnList` says how far lists get mixed up that way); the cache
key leaves out the class (`dnscache.go:18`); CNAME contents are not validated
(`records.go:139`), and one with a final dot, two dots in a row or an overlong label
cannot be packed, so that nothing is sent (`SilentOnlyIfUnsendable` says that,
messages too large for the wire aside, there is no other reason); after a reload that
an overlong line cut short the cache is not cleared, and answers from before it are
served beside new ones; a SIGHUP before
`signal.Notify`, while the first lists are being downloaded, kills the process
(`README.md:106` sends one on reload); a SIGTERM that finds another signal queued is
dropped; with an error limit of 0 nothing is logged, and no summary
(`docs/filtering.md:94`); one overlong line makes `parseList` fail, and the source is
dropped with all its valid entries; a refresh that cannot read the allowlist puts an
empty one in force (`resolvit.conf.example:47`).

Fairness. `FairSpec` assumes weak fairness of each handler's next step: the Go
scheduler runs every goroutine that can run, and an exchange, the only step that
waits for somebody else, has a timeout of five seconds (`forward.go:26`). `reload`
checks `EveryRequestAnswered` under it. Its exceptions are messages that
cannot be packed and aliases in a circle; no instance of `Resolvit` has a circle, along
which the message would grow for ever, and `CnameChain` has all the small ones.
`ChainSpec` assumes the same of the loop, and `ProcessSpec` of `main` and of handlers
that are inside `Get`; that handlers keep coming is allowed, and that they leave the
lock at some time is all that the reload needs. Nothing is assumed of listeners,
edits and signals. Reloads, refreshes, requests and the
clock need no fairness.

## Proofs

Eight modules hold theorems; TLAPS checks every step. They speak of every value
of the constants that the named assumptions allow: any number of requests and
upstreams, any records files, lists, replies and questions. Every safety property
of the passing runs is proved, the two refinements included.

| Module | Theorems | Invariant |
|---|---|---|
| `FilterProofs` | `FilterSafe` (`NeverFailsOpen`) | `FilterInv` |
| `ResolvitProofs` | `TypeCorrect` (`TypeOK`), `ServerNeverFailsOpen`, `NothingDangles`, `CacheSafe` (`OnlyAnswersCached`) | `ResolvitInv`, `AnswersInv` |
| `ReplyProofs` | `MatchingSafe` (`RepliesMatchRequests`), `UdpSafe` (`UdpRepliesFit`), `TcpSafe` (`TcpRepliesUncut`), `CutsSafe` (`CutRepliesFlagged`), `HitsSafe` (`HitsWithinTtl`), `StaleSafe` (`StaleOnlyIfInFlight`), `FilterFirst` (`NothingBypassesFilter`), `GivingUpSafe` (`GivesUpLast`), `LocalSafe` (`LocalRecordsWin`), `ChainsSafe` (`ChainsLinked`) | `ServerState` |
| `ReplyProofs` | `SilenceSafe` (`SilentOnlyIfUnsendable`), `LostAnswersSafe` (`LostAnswersFlagged`) | `PackInv` |
| `HistoryProofs` | `ValuesRefined` (`RepliesRepeatValues`) | `HistoryInv` |
| `ProcessProofs` | `StoreAtomic` (`StoreIsAtomic`) | `LockInv` |
| `ProcessProofs` | `ReadySafe` (`ServesOnlyWhenReady`), `ConfigSafe` (`ConfigUsable`), `StopSafe` (`StopsOnlyWhenTold`) | `RunInv` |
| `LoaderProofs` | `LoaderTypesSafe` (`LoaderTypeOK`), `CacheUsableSafe` (`CacheUsable`) | `LoaderInv` |
| `LoaderProofs` | `OwnListSafe` (`OwnList`), `NoRollbackSafe` (`NoRollback`) | `OwnInv`, `AgeInv` |
| `ParserProofs` | `EntriesSafe` (`EveryEntryAccounted`), `MeaningSafe` (`ListMeaning`) | `ParserInv` |

None of the properties is inductive by itself. What the invariants add, and why:

**The filter.** What `ShouldBlock` reads has to be tied to the history of loads.
`FilterInv` adds that the blocklist in force is the one of the last load, the
allowlist the one of the last complete load (`ListsInForce`), and that no call began
under a load to come (`CallsBegan`). Then a match in the allowlist is a verdict of
the last complete load, a miss in the blocklist one of the last load, and both are
in force during the call. There is no such argument for blocking: `refresh_blocks`
shows the mixture of old allowlist and new blocklist.

**Types.** A step that copies, extends or cuts a message must find one. `ServerInv`
adds that a handler past its first step has its question (`QueriesKnown`), that it
has a message wherever it goes on to use one (`MessagesBuilt`), that what cache
entries and hits refer to was built (`CachedBuilt`, `HitsBuilt`), and that a call of
`Forward` that returned without an error, or waits for TCP, holds a message
(`ForwardedBuilt`). Below it are the lemmas of `RecordsProofs`: the record `Get`
finds, the map `LoadFromFile` builds. `MinOfNats` and `MaxOfInterval` supply the
nearest wildcard and the last line, from the library's theorem that the naturals
are well-founded.

**What is cached.** The cache shares its messages, so that a message is fit to be
cached when `Set` is called is not enough. `AnswersInv` adds that the owner of a
cached message is past the last step that replaces it (`OwnersRespond`), and where
messages on their way to the cache come from (`CacheableKept`, `ForwardedKept`).

**What clients get.** The properties speak of `out`, but a reply is the message of
its handler at the moment it is sent, and the handler leaves it alone afterwards
(`Delivered`). So `RepliesInv` speaks of messages, one conjunct per concern: which
variables are set where (`InPlace`), what was asked of upstreams and came back
(`Asked`), question, size, flag and completeness of a message (`Built`), its chain
(`Linked`), the verdict of the filter (`Filtered`), the upstreams tried (`Tried`),
the generation of its records (`Fresh`, `LocalFirst`). The heart is `Backed`: an
entry, and a hit after the entry is gone, refers to the message of a handler that
responds, that did not copy the message itself and whose question has the same
key. `OwnerStep` shows that such a message only loses answers from its end and gains
the flag, and `Copied` that a copy agrees with it in the rest.

**Silence and lost answers.** Both ask what a message is composed of. A handler that
sends nothing has a message that cannot be packed: `PackInv` follows each owner name
without a wire form back to an alias before it in the same message (`Explained`); an
upstream's answers carry the name they were asked for, which had a wire form, or the
alias that led to it is there (`Plain` for messages that are not local). Copies and cuts
keep the beginning of a message, hence the alias. That beginning is also what tells the
replies that took over answers without their flag (`AliasFirst`).

**The cache of values.** The values are in no variable of the server, and a hit copies
a header in one step and answers in another, perhaps with cuts in between.
`HistoryInv` says that every message is at any time a shortening of the value its
owner stored, that a hit which has copied the header has the header of that same
value, and that every owner stored once (`KnownValues`), hence that the two halves
belong together. Then `Receive` is `Ask`, `CacheSet` is `Learn`, `WriteMsg` and
`FormatError` are `Answer`, and every other step is a stuttering step.

**The record store.** The refinement mapping shows the map as it was when the writer
got the lock. `LockInv` says that no reader is inside together with the writer
(`Locked`), that the map is what the lines read so far make of it (`Scanning`), and
that the keys a reader has probed are not in the map (`Probing`). So the step that
ends a scan is the whole `Load`, and the probe that ends a lookup returns what `Get`
would.

**The process.** `RunInv` adds which steps of `run()` lie behind each place in it
(`Started`), that `cfg` is what `loadConfig` made of a file it accepted (`Configured`),
and why there is a signal in the channel (`Signalled`).

**The loader.** `LoaderInv` says that what is written and merged was parsed. Files may be
shared, so a copy is not tied to one source: `OwnInv` says that some source of some
configuration with a URL and this very file left it (`KeptForSource`), and that what a
step or a merge holds is the source's own or such a copy; `SameFile` then turns equal
files into equal sanitized ids, or, where there is none, into equal locations. `AgeInv`
counts versions by file and location, because the writers of a shared file overwrite each
other: every whole copy, and whatever a refresh came by, is at least as new as the
last version of that location that was written in full to that file before the refresh
began (`kept`). Neither theorem has hypotheses on ids or configurations.

**The parser.** `ParserInv` says where the loops are in a line (`InPlace`), that the set
holds what the entries passed so far ask for and nothing else (`SetSoFar`), that they
were counted (`Counted`) and how the error limiter stands (`Limited`).

| Assumption | Says | Why the code justifies it |
|---|---|---|
| `LabelAssumption` | lower case is idempotent and leaves `*` and the empty label alone; no other label becomes one of them, and none becomes longer or shorter than 63 bytes; the bound on names is a natural number | `strings.ToLower`, for ASCII |
| `MessageAssumption`, `CacheAssumption` | sizes, the limits of UDP and of the wire, and times are natural numbers; "A" and "IN" exist | constants of the code and of the library |
| `ForwarderAssumption` | at least one upstream; replies are messages | `validateConfig`; the DNS library unpacks them |
| `FilterAssumption` | lists are domain sets | `LoadSources` and `LoadAllowlist` return nothing else |
| `HandlerAssumption` | questions are questions, whose names have a wire form; the callers of the filter are the handlers; `None` is no message, no hit and no question | the DNS library unpacked them; `HandleDNSRequest` is the only caller; `nil` |
| `ResolvitAssumption`, `StoreAssumption` | files are sequences of lines | `bufio.Scanner` |
| `ConfigAssumption`, `ProcessAssumption` | `Unset` is no configuration and no address | a key that is absent |
| `LoaderAssumption` | there is a configuration, and each is a sequence of sources with ids made of the known pieces; a URL is no path; `NoList` is no list | `BuildSources`; `isURL`; a missing file |
| `ParserAssumption` | comments, addresses and junk are no names and differ; names that are looked up have a wire form; limits are not negative | `parseList`; they come in questions; `validateConfig` |

What stays with TLC: liveness (`EveryRequestAnswered`, `ChainEndsIfAcyclic`,
`StopsWhenTold`, `ReloadTakesEffect`), which needs fairness and ENABLED, and the
five counterexamples.

## Not modelled

`pkg/filtering/manager.go` (used by its tests only; its loop is that of `Filter`
without an allowlist), the log of blocked queries, logging beyond the start, the
version flag, HTTP authentication, `Add` and `GetAll` of the record store (tests
only), the entries of the catalog (data), the stub upstream of the tests. Memory use
is not modelled: expired entries of the cache are never removed, as in the code.

## Plan

1. Done: the request path (`Handler` and what it extends), reloads, refreshes,
   `CnameChain`, `ListLoader` with `Sources`; the parser against the meaning of a list;
   the record store against an atomic one; the cache against one of values;
   configuration and process.
2. Done: a theorem for every safety property that a passing run checks, and for the
   two refinements.
3. Next: safety facts about `CnameChain` and `Sources` that the proofs can reach; the
   part of `StaleOnlyIfInFlight` that says for how long a stale entry can be handed
   out; what a hit in the middle of a cut can still rely on, as the positive side
   of `cut_hit`.
