----------------------------- MODULE ListLoader -----------------------------
(***************************************************************************)
(* pkg/filtering/loader.go: how a refresh obtains the blocklist.  Sources  *)
(* are loaded one after the other: downloaded, or read from the copy that  *)
(* an earlier download left in the cache directory, or read from a local   *)
(* file.  The process may be killed at any step and started again, maybe   *)
(* with another configuration; only the cache directory survives.          *)
(*                                                                         *)
(* A list is known by where it came from, its version, and whether it is   *)
(* whole and parseList accepts it (a line over 64 KiB makes it fail).      *)
(***************************************************************************)
EXTENDS Integers, Sequences

LOCAL INSTANCE FiniteSetsExt

CONSTANTS
    Url,            \* locations that start with http:// or https://
    Path,           \* other locations: local files
    Configs,        \* what BuildSources may return: sequences of sources
    Blank,          \* the pieces of an id that are white space
    Clean,          \* what sanitizeID writes for each piece of an id
    NoList,         \* no file, or no list
    MaxVersion,     \* bound on the versions a list goes through
    MaxLoad,        \* bound on the refreshes
    MaxCrash        \* bound on the crashes

Location == Url \cup Path

\* An id, cut into words and single other characters.
Id == Seq(DOMAIN Clean)

List == [from : Location, ver : Nat, whole : BOOLEAN, parses : BOOLEAN]

ASSUME LoaderAssumption ==
    /\ Configs \subseteq Seq([id : Id, location : Location]) /\ Configs # {}
    /\ {MaxVersion, MaxLoad, MaxCrash} \subseteq Nat
    /\ Url \cap Path = {}
    /\ NoList \notin List

VARIABLES
    published,   \* the list each location offers now
    disk,        \* the cache directory
    sources,     \* the sources of the running process
    cacheDir,    \* what EnsureCacheDir returned: is there a cache directory?
    at,          \* the step LoadSources is at: a source and what to do with it
    data,        \* the bytes read for that source
    merged,      \* the lists merged so far, by source
    inForce,     \* the lists in f.blocklist, by source
    loadCount, crashes,
    durable,     \* history: the last version written in full, by file and location
    kept         \* history: durable when the last refresh began

vars == <<published, disk, sources, cacheDir, at, data, merged, inForce,
          loadCount, crashes, durable, kept>>

-----------------------------------------------------------------------------
isURL(location) == location \in Url

\* strings.TrimSpace
TrimSpace(id) ==
    LET inner == {i \in DOMAIN id : id[i] \notin Blank}
    IN  IF inner = {} THEN <<>> ELSE SubSeq(id, Min(inner), Max(inner))

\* Words in lower case, "_" for everything else: several ids become the same.
sanitizeID(id) ==
    LET raw == TrimSpace(id) IN [i \in DOMAIN raw |-> Clean[raw[i]]]

\* Mutant of cacheFileName: no hash in the name of the file.
FileWithoutHash(source) == [id |-> sanitizeID(source.id), hash |-> {}]

\* The sanitized id; if nothing is left of it, the hash of the location.
cacheFileName(source) ==
    LET id == sanitizeID(source.id)
    IN  [id |-> id, hash |-> IF id = <<>> THEN {source.location} ELSE {}]

File == UNION {{cacheFileName(c[i]) : i \in DOMAIN c} : c \in Configs}

Source == sources[at.i]

Step == {"idle", "read", "parse", "open", "write", "merge", "store"}

LoaderTypeOK ==
    /\ published \in [Location -> List]
    /\ disk \in [File -> List \cup {NoList}]
    /\ sources \in Configs
    /\ cacheDir \in BOOLEAN
    /\ at \in [i : Nat, step : Step]
    /\ data \in [list : List \cup {NoList}, fromCache : BOOLEAN]
    /\ at.step \in {"parse", "open", "write", "merge"} => data.list # NoList
    /\ merged \in [DOMAIN sources -> List \cup {NoList}]
    /\ inForce \in [DOMAIN sources -> List \cup {NoList}]
    /\ loadCount \in 0..MaxLoad /\ crashes \in 0..MaxCrash
    /\ {durable, kept} \subseteq [File -> [Location -> Nat]]

Nothing == [i \in DOMAIN sources |-> NoList]

LoaderInit ==
    /\ published = [l \in Location |->
                      [from |-> l, ver |-> 1, whole |-> TRUE, parses |-> TRUE]]
    /\ disk = [f \in File |-> NoList]
    /\ sources \in Configs
    /\ cacheDir = FALSE
    /\ at = [i |-> 1, step |-> "idle"]
    /\ data = [list |-> NoList, fromCache |-> FALSE]
    /\ merged = Nothing /\ inForce = Nothing
    /\ loadCount = 0 /\ crashes = 0
    /\ durable = [f \in File |-> [l \in Location |-> 0]] /\ kept = durable

Goto(step) == at' = [at EXCEPT !.step = step]

\* On to the next source, or to the end of the loop in LoadSources.
NextSource ==
    at' = IF at.i = Len(sources) THEN [at EXCEPT !.step = "store"]
                                 ELSE [i |-> at.i + 1, step |-> "read"]

\* LoadSources begins; EnsureCacheDir may fail, which only disables the cache.
BeginLoad ==
    /\ at.step = "idle" /\ loadCount < MaxLoad
    /\ loadCount' = loadCount + 1
    /\ cacheDir' \in BOOLEAN
    /\ merged' = Nothing
    /\ at' = [i |-> 1, step |-> IF sources = <<>> THEN "store" ELSE "read"]
    /\ kept' = durable
    /\ UNCHANGED <<published, disk, sources, data, inForce, crashes, durable>>

Obtain(list, fromCache) ==
    /\ data' = [list |-> list, fromCache |-> fromCache]
    /\ Goto("parse")

\* download, or os.ReadFile for a local file, succeeds.
ReadSource ==
    /\ at.step = "read"
    /\ Obtain(published[Source.location], FALSE)
    /\ UNCHANGED <<published, disk, sources, cacheDir, merged, inForce,
                   loadCount, crashes, durable, kept>>

\* Mutant of ReadSourceFails: the error of readCache is not looked at.
ReadCacheUnchecked ==
    /\ at.step = "read"
    /\ IF isURL(Source.location) /\ cacheDir
       THEN Obtain(disk[cacheFileName(Source)], TRUE)
       ELSE NextSource /\ UNCHANGED data
    /\ UNCHANGED <<published, disk, sources, cacheDir, merged, inForce,
                   loadCount, crashes, durable, kept>>

\* It fails: a URL falls back on the cached copy, if there is one that can be
\* read; else the source is skipped.
ReadSourceFails ==
    /\ at.step = "read"
    /\ \/ /\ isURL(Source.location) /\ cacheDir
          /\ disk[cacheFileName(Source)] # NoList
          /\ Obtain(disk[cacheFileName(Source)], TRUE)
       \/ NextSource /\ UNCHANGED data
    /\ UNCHANGED <<published, disk, sources, cacheDir, merged, inForce,
                   loadCount, crashes, durable, kept>>

\* Mutant of ParseList: the download is saved before it is parsed.
SaveThenParse ==
    /\ at.step = "parse"
    /\ LET toSave == ~data.fromCache /\ cacheDir /\ isURL(Source.location)
       IN  IF toSave THEN Goto("open")
           ELSE IF data.list.parses THEN Goto("merge") ELSE NextSource
    /\ UNCHANGED <<published, disk, sources, cacheDir, data, merged, inForce,
                   loadCount, crashes, durable, kept>>

\* parseList fails: the source is skipped, and the cached copy is not tried.
ParseList ==
    /\ at.step = "parse"
    /\ IF data.list.parses
       THEN Goto(IF ~data.fromCache /\ cacheDir /\ isURL(Source.location)
                 THEN "open" ELSE "merge")
       ELSE NextSource
    /\ UNCHANGED <<published, disk, sources, cacheDir, data, merged, inForce,
                   loadCount, crashes, durable, kept>>

\* writeCache: os.WriteFile truncates the file, then writes it.
TruncateCache ==
    /\ at.step = "open"
    /\ disk' = [disk EXCEPT ![cacheFileName(Source)] =
                  [data.list EXCEPT !.whole = FALSE]]
    /\ Goto("write")
    /\ UNCHANGED <<published, sources, cacheDir, data, merged, inForce,
                   loadCount, crashes, durable, kept>>

WriteCache ==
    /\ at.step = "write"
    /\ disk' = [disk EXCEPT ![cacheFileName(Source)] = data.list]
    /\ durable' = [durable EXCEPT ![cacheFileName(Source)][Source.location] = data.list.ver]
    /\ Goto("merge")
    /\ UNCHANGED <<published, sources, cacheDir, data, merged, inForce,
                   loadCount, crashes, kept>>

\* os.WriteFile fails, before or after it truncated the file: a warning.
WriteCacheFails ==
    /\ at.step \in {"open", "write"}
    /\ Goto("merge")
    /\ UNCHANGED <<published, disk, sources, cacheDir, data, merged, inForce,
                   loadCount, crashes, durable, kept>>

Merge ==
    /\ at.step = "merge"
    /\ merged' = [merged EXCEPT ![at.i] = data.list]
    /\ NextSource
    /\ UNCHANGED <<published, disk, sources, cacheDir, data, inForce,
                   loadCount, crashes, durable, kept>>

\* Mutant of StoreLists: a list that is in force already is not replaced.
StoreNewLists ==
    /\ at.step = "store"
    /\ inForce' = [i \in DOMAIN sources |->
                     IF inForce[i] = NoList THEN merged[i] ELSE inForce[i]]
    /\ Goto("idle")
    /\ UNCHANGED <<published, disk, sources, cacheDir, data, merged,
                   loadCount, crashes, durable, kept>>

\* LoadSources returns and LoadOnce stores the result.
StoreLists ==
    /\ at.step = "store"
    /\ inForce' = merged
    /\ Goto("idle")
    /\ UNCHANGED <<published, disk, sources, cacheDir, data, merged,
                   loadCount, crashes, durable, kept>>

-----------------------------------------------------------------------------
(* The environment: list maintainers, and whoever kills and starts the process. *)

Publish(l) ==
    /\ published[l].ver < MaxVersion
    /\ \E ok \in BOOLEAN :
          published' = [published EXCEPT ![l].ver = @ + 1, ![l].parses = ok]
    /\ UNCHANGED <<disk, sources, cacheDir, at, data, merged, inForce,
                   loadCount, crashes, durable, kept>>

Restart ==
    /\ crashes < MaxCrash
    /\ crashes' = crashes + 1
    /\ sources' \in Configs
    /\ cacheDir' = FALSE
    /\ at' = [i |-> 1, step |-> "idle"]
    /\ data' = [list |-> NoList, fromCache |-> FALSE]
    /\ merged' = [i \in DOMAIN sources' |-> NoList]
    /\ inForce' = [i \in DOMAIN sources' |-> NoList]
    /\ UNCHANGED <<published, disk, loadCount, durable, kept>>

LoaderNext ==
    \/ BeginLoad \/ ReadSource \/ ReadSourceFails \/ ParseList
    \/ TruncateCache \/ WriteCache \/ WriteCacheFails \/ Merge \/ StoreLists
    \/ \E l \in Location : Publish(l)
    \/ Restart

LoaderSpec == LoaderInit /\ [][LoaderNext]_vars

-----------------------------------------------------------------------------
InForce(i) == inForce[i] # NoList

\* Whatever is in the cache directory, parseList accepted: the copy a refresh
\* falls back on when the download fails can be used, also after a crash.
CacheUsable == \A f \in File : disk[f] # NoList => disk[f].parses

\* No refresh goes back behind a version of a list that had been written to
\* the source's file in full before the refresh began, whatever downloads,
\* writes and crashes follow, unless a later write damaged the copy: also where
\* sources share a file, or a location.
NoRollback ==
    at.step = "idle" => \A i \in DOMAIN sources : InForce(i) /\ inForce[i].whole =>
        inForce[i].ver >= kept[cacheFileName(sources[i])][inForce[i].from]

\* A URL other than the source's own whose list may be in the source's file.
Shared(source, from) ==
    /\ isURL(source.location) /\ isURL(from)
    /\ sanitizeID(source.id) # <<>>
    /\ \E c \in Configs : \E j \in DOMAIN c :
          c[j].location = from /\ sanitizeID(c[j].id) = sanitizeID(source.id)

OwnOrShared(source, from) == from = source.location \/ Shared(source, from)

\* How far the lists of other sources come in (sanitizeID and cacheFileName,
\* across crashes and changes of the configuration).  What is in force for a
\* source is its own list; or, for a source with a URL and a sanitized id that
\* is not empty, that of a URL whose source, in this or another configuration,
\* has the same sanitized id.  Never a local file's, never that of a source with
\* another sanitized id, and never another list for a source without one.
OwnList ==
    \A i \in DOMAIN sources : InForce(i) => OwnOrShared(sources[i], inForce[i].from)

\* docs/filtering.md:84 "If a download fails, it logs the error and uses the
\* last cached list if available": the list that was cached.  os.WriteFile
\* truncates the file before it writes, and a kill in between leaves a part of
\* the list, which parses.
CachedListWhole ==
    \A i \in DOMAIN sources : InForce(i) => inForce[i].whole
=============================================================================
