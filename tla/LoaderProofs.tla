---------------------------- MODULE LoaderProofs ----------------------------
(***************************************************************************)
(* The cache directory and the lists in force, for any sources, files and  *)
(* versions, and any number of refreshes and crashes.                      *)
(***************************************************************************)
EXTENDS ListLoader, TLAPS

Busy == {"read", "parse", "open", "write", "merge"}

Holding == {"parse", "open", "write", "merge"}

\* Where LoadSources is: at a source, and writing only what it downloaded.
Placed ==
    /\ at.step \in Busy => at.i \in DOMAIN sources
    /\ at.step \in {"open", "write"} => isURL(Source.location) /\ ~data.fromCache

\* What is written and merged was parsed.
Parsed == at.step \in {"open", "write", "merge"} => data.list.parses

LoaderInv == LoaderTypeOK /\ Placed /\ Parsed /\ CacheUsable

\* Where the lists come from.
Offered == \A l \in Location : published[l].from = l

\* A copy was left by a source with a URL that has this file.
KeptForSource ==
    \A f \in File : disk[f] # NoList =>
        /\ isURL(disk[f].from)
        /\ \E c \in Configs : \E j \in DOMAIN c :
              c[j].location = disk[f].from /\ cacheFileName(c[j]) = f

DataShared ==
    at.step \in Holding =>
        /\ OwnOrShared(Source, data.list.from)
        /\ ~data.fromCache => data.list.from = Source.location

OwnInv ==
    /\ Offered /\ KeptForSource /\ DataShared
    /\ \A i \in DOMAIN sources :
          merged[i] # NoList => OwnOrShared(sources[i], merged[i].from)
    /\ OwnList

\* How old they are: a copy that is whole, and whatever a refresh has come
\* by, is at least as new as the last version that was written in full.
Upto(list, versions) == list # NoList /\ list.whole => list.ver >= versions[list.from]

CopiesNew == \A f \in File : Upto(disk[f], durable[f])

OffersNew ==
    \A l \in Location :
        published[l].whole /\ \A f \in File : published[l].ver >= durable[f][l]

\* Versions are written in ascending order.
KeptOlder == \A f \in File : \A l \in Location : kept[f][l] =< durable[f][l]

DataNew ==
    at.step \in Holding =>
        /\ Upto(data.list, durable[cacheFileName(Source)])
        /\ ~data.fromCache =>
              data.list.whole /\ data.list.ver =< published[Source.location].ver

\* What is merged is not older than what had been written before the refresh.
MergedNew ==
    at.step # "idle" => \A i \in DOMAIN sources :
        Upto(merged[i], kept[cacheFileName(sources[i])])

AgeInv == CopiesNew /\ OffersNew /\ KeptOlder /\ DataNew /\ MergedNew /\ NoRollback

-----------------------------------------------------------------------------
(* Facts about single steps *)

\* The source that LoadSources is at.
LEMMA SourceType ==
    ASSUME LoaderInv, at.step \in Busy
    PROVE  /\ sources \in Configs /\ sources \in Seq([id : Id, location : Location])
           /\ at.i \in 1..Len(sources) /\ at.i \in DOMAIN sources
           /\ Source \in [id : Id, location : Location]
           /\ Source.location \in Location
           /\ cacheFileName(Source) \in File
<1>1. sources \in Configs /\ at.i \in DOMAIN sources
  BY DEF LoaderInv, LoaderTypeOK, Placed
<1>2. sources \in Seq([id : Id, location : Location])
  BY <1>1, LoaderAssumption
<1>3. Source \in [id : Id, location : Location] /\ at.i \in 1..Len(sources)
  <2> DEFINE S == [id : Id, location : Location]
  <2> HIDE DEF S
  <2>1. sources \in Seq(S)
    BY <1>2 DEF S
  <2>2. at.i \in 1..Len(sources) /\ sources[at.i] \in S
    BY <1>1, <2>1
  <2> QED
    BY <2>2 DEF S, Source
<1> QED
  BY <1>1, <1>2, <1>3 DEF Source, File

\* The loop of LoadSources goes on to a source that exists, or ends.
LEMMA NextSourceEffect ==
    ASSUME LoaderInv, at.step \in Busy, NextSource
    PROVE  /\ at' \in [i : Nat, step : Step]
           /\ \/ at'.step = "store"
              \/ at'.step = "read" /\ at'.i = at.i + 1 /\ at'.i \in DOMAIN sources
<1>1. at \in [i : Nat, step : Step] /\ at.i \in 1..Len(sources)
  BY SourceType DEF LoaderInv, LoaderTypeOK
<1>2. sources \in Seq([id : Id, location : Location])
  BY SourceType
<1>3. CASE at.i = Len(sources)
  BY <1>1, <1>3 DEF NextSource, Step
<1>4. CASE at.i # Len(sources)
  <2>1. at' = [i |-> at.i + 1, step |-> "read"]
    BY <1>4 DEF NextSource
  <2>2. at.i + 1 \in 1..Len(sources) /\ at.i + 1 \in Nat
    BY <1>1, <1>2, <1>4
  <2> QED
    BY <1>2, <2>1, <2>2 DEF Step
<1> QED
  BY <1>3, <1>4

\* The other steps stay at their source.
LEMMA GotoEffect ==
    ASSUME LoaderInv, NEW step \in Step, Goto(step)
    PROVE  at' \in [i : Nat, step : Step] /\ at'.i = at.i /\ at'.step = step
  BY DEF LoaderInv, LoaderTypeOK, Goto

\* What a source is read into.
LEMMA ReadEffect ==
    ASSUME LoaderInv, ReadSource \/ ReadSourceFails
    PROVE  /\ at.step = "read"
           /\ UNCHANGED <<published, disk, sources, cacheDir, merged, inForce, loadCount,
                          crashes, durable, kept>>
           /\ \/ /\ at'.step = "parse" /\ at'.i = at.i /\ at' \in [i : Nat, step : Step]
                 /\ data'.list = published[Source.location] /\ data'.fromCache = FALSE
                 /\ data'.list \in List
                 /\ data' \in [list : List \cup {NoList}, fromCache : BOOLEAN]
              \/ /\ at'.step = "parse" /\ at'.i = at.i /\ at' \in [i : Nat, step : Step]
                 /\ isURL(Source.location)
                 /\ data'.list = disk[cacheFileName(Source)] /\ data'.fromCache = TRUE
                 /\ data'.list \in List
                 /\ data' \in [list : List \cup {NoList}, fromCache : BOOLEAN]
              \/ NextSource /\ UNCHANGED data
<1>1. at.step = "read" /\ at.step \in Busy
  BY DEF ReadSource, ReadSourceFails, Busy
<1>2. UNCHANGED <<published, disk, sources, cacheDir, merged, inForce, loadCount,
                  crashes, durable, kept>>
  BY DEF ReadSource, ReadSourceFails
<1>3. /\ published[Source.location] \in List
      /\ disk[cacheFileName(Source)] \in List \cup {NoList}
  BY <1>1, SourceType DEF LoaderInv, LoaderTypeOK
<1>4. ASSUME Goto("parse") PROVE at'.step = "parse" /\ at'.i = at.i /\ at' \in [i : Nat, step : Step]
  BY <1>4, GotoEffect DEF Step
<1>5. CASE ReadSource
  BY <1>1, <1>2, <1>3, <1>4, <1>5 DEF ReadSource, Obtain
<1>6. CASE ReadSourceFails
  <2>1. \/ /\ isURL(Source.location) /\ disk[cacheFileName(Source)] # NoList
           /\ Obtain(disk[cacheFileName(Source)], TRUE)
        \/ NextSource /\ UNCHANGED data
    BY <1>6 DEF ReadSourceFails
  <2> DEFINE copy == disk[cacheFileName(Source)]
  <2>2. CASE isURL(Source.location) /\ copy # NoList /\ Obtain(copy, TRUE)
    <3>1. copy \in List
      BY <1>3, <2>2
    <3> HIDE DEF copy
    <3>2. data' = [list |-> copy, fromCache |-> TRUE] /\ Goto("parse")
      BY <2>2 DEF Obtain
    <3>3. /\ data'.list = copy /\ data'.fromCache = TRUE
          /\ data' \in [list : List \cup {NoList}, fromCache : BOOLEAN]
      BY <3>1, <3>2
    <3> QED
      BY <1>1, <1>2, <1>4, <2>2, <3>1, <3>2, <3>3 DEF copy
  <2> QED
    BY <1>1, <1>2, <2>1, <2>2
<1> QED
  BY <1>5, <1>6

\* What becomes of what was read.
LEMMA HandleEffect ==
    ASSUME LoaderInv, ParseList \/ WriteCacheFails \/ Merge
    PROVE  /\ at.step \in Holding /\ at.step \in Busy
           /\ UNCHANGED <<published, disk, sources, cacheDir, data, inForce, loadCount,
                          crashes, durable, kept>>
           /\ \/ /\ at.step = "parse" /\ UNCHANGED merged
                 /\ \/ /\ data.list.parses /\ ~data.fromCache /\ isURL(Source.location)
                       /\ at'.step = "open" /\ at'.i = at.i /\ at' \in [i : Nat, step : Step]
                    \/ /\ data.list.parses
                       /\ at'.step = "merge" /\ at'.i = at.i /\ at' \in [i : Nat, step : Step]
                    \/ NextSource
              \/ /\ at.step \in {"open", "write"} /\ UNCHANGED merged
                 /\ at'.step = "merge" /\ at'.i = at.i /\ at' \in [i : Nat, step : Step]
              \/ /\ at.step = "merge" /\ NextSource
                 /\ merged' = [merged EXCEPT ![at.i] = data.list]
<1>1. \A step \in Step : Goto(step) =>
         at' \in [i : Nat, step : Step] /\ at'.i = at.i /\ at'.step = step
  BY GotoEffect
<1>2. {"open", "merge"} \subseteq Step
  BY DEF Step
<1>3. CASE ParseList
  BY <1>1, <1>2, <1>3 DEF ParseList, Holding, Busy
<1>4. CASE WriteCacheFails
  BY <1>1, <1>2, <1>4 DEF WriteCacheFails, Holding, Busy
<1>5. CASE Merge
  BY <1>5 DEF Merge, Holding, Busy
<1> QED
  BY <1>3, <1>4, <1>5

\* os.WriteFile, in two steps.
LEMMA DiskEffect ==
    ASSUME LoaderInv, TruncateCache \/ WriteCache
    PROVE  /\ at.step \in {"open", "write"} /\ at.step \in Busy /\ at.step \in Holding
           /\ at'.i = at.i /\ at' \in [i : Nat, step : Step]
           /\ UNCHANGED <<published, sources, cacheDir, data, merged, inForce, loadCount,
                          crashes, kept>>
           /\ data.list \in List /\ data.list.parses
           /\ isURL(Source.location) /\ ~data.fromCache
           /\ LET f == cacheFileName(Source)
              IN  \/ /\ at'.step = "write" /\ UNCHANGED durable
                     /\ disk' \in [File -> List \cup {NoList}]
                     /\ disk'[f].from = data.list.from /\ ~disk'[f].whole
                     /\ disk'[f].parses
                     /\ \A g \in File : g # f => disk'[g] = disk[g]
                  \/ /\ at'.step = "merge"
                     /\ disk' \in [File -> List \cup {NoList}]
                     /\ disk'[f] = data.list
                     /\ \A g \in File : g # f => disk'[g] = disk[g]
                     /\ durable' = [durable EXCEPT ![f][Source.location] = data.list.ver]
<1> DEFINE f == cacheFileName(Source)
           torn == [data.list EXCEPT !.whole = FALSE]
<1>1. at.step \in {"open", "write"} /\ at.step \in Busy /\ at.step \in Holding
  BY DEF TruncateCache, WriteCache, Busy, Holding
<1>2. f \in File
  BY <1>1, SourceType
<1>3. data.list \in List /\ data.list.parses /\ isURL(Source.location) /\ ~data.fromCache
  BY <1>1 DEF LoaderInv, LoaderTypeOK, Placed, Parsed
<1>4. torn \in List /\ torn.from = data.list.from /\ torn.whole = FALSE /\ torn.parses
  BY <1>3 DEF List
<1>5. disk \in [File -> List \cup {NoList}]
  BY DEF LoaderInv, LoaderTypeOK
<1> HIDE DEF f, torn
<1>6. CASE TruncateCache
  <2>1. disk' = [disk EXCEPT ![f] = torn]
    BY <1>6 DEF TruncateCache, torn, f
  <2>2. /\ disk' \in [File -> List \cup {NoList}] /\ disk'[f] = torn
        /\ \A g \in File : g # f => disk'[g] = disk[g]
    BY <1>2, <1>4, <1>5, <2>1
  <2>3. at'.i = at.i /\ at' \in [i : Nat, step : Step] /\ at'.step = "write"
    BY <1>6, GotoEffect DEF TruncateCache, Step
  <2> QED
    BY <1>1, <1>3, <1>4, <1>6, <2>2, <2>3 DEF TruncateCache, f
<1>7. CASE WriteCache
  <2>1. disk' = [disk EXCEPT ![f] = data.list]
    BY <1>7 DEF WriteCache, f
  <2>2. /\ disk' \in [File -> List \cup {NoList}] /\ disk'[f] = data.list
        /\ \A g \in File : g # f => disk'[g] = disk[g]
    BY <1>2, <1>3, <1>5, <2>1
  <2>3. at'.i = at.i /\ at' \in [i : Nat, step : Step] /\ at'.step = "merge"
    BY <1>7, GotoEffect DEF WriteCache, Step
  <2> QED
    BY <1>1, <1>3, <1>7, <2>2, <2>3 DEF WriteCache, f
<1> QED
  BY <1>6, <1>7

-----------------------------------------------------------------------------
(* Types, places and usable copies *)

\* Before anything is read.
LEMMA NoDataType ==
    [list |-> NoList, fromCache |-> FALSE] \in [list : List \cup {NoList}, fromCache : BOOLEAN]
  OBVIOUS

\* The invariant holds when the process starts for the first time.
LEMMA LoaderInitInv == LoaderInit => LoaderInv
<1> SUFFICES ASSUME LoaderInit PROVE LoaderInv
  OBVIOUS
<1>1. LoaderTypeOK
  <2>1. published \in [Location -> List] /\ {durable, kept} \subseteq [File -> [Location -> Nat]]
    BY DEF LoaderInit, List
  <2>2. MaxLoad \in Nat /\ MaxCrash \in Nat
    BY LoaderAssumption
  <2>3. at \in [i : Nat, step : Step] /\ at.step = "idle"
    BY DEF LoaderInit, Step
  <2>4. data \in [list : List \cup {NoList}, fromCache : BOOLEAN]
    BY NoDataType, Zenon DEF LoaderInit
  <2>5. /\ disk \in [File -> List \cup {NoList}]
        /\ merged \in [DOMAIN sources -> List \cup {NoList}]
        /\ inForce \in [DOMAIN sources -> List \cup {NoList}]
    BY DEF LoaderInit, Nothing
  <2>6. cacheDir \in BOOLEAN /\ sources \in Configs /\ loadCount = 0 /\ crashes = 0
    BY DEF LoaderInit
  <2> QED
    BY <2>1, <2>2, <2>3, <2>4, <2>5, <2>6 DEF LoaderTypeOK
<1> QED
  BY <1>1 DEF LoaderInit, LoaderInv, Placed, Parsed, CacheUsable, Busy

\* BeginLoad and Restart.
LEMMA StartEffect ==
    ASSUME LoaderInv, BeginLoad \/ Restart
    PROVE  /\ UNCHANGED <<published, disk, durable>>
           /\ UNCHANGED kept \/ kept' = durable
           /\ sources' \in Configs /\ cacheDir' \in BOOLEAN
           /\ at' \in [i : Nat, step : Step] /\ at'.i = 1
           /\ merged' = [i \in DOMAIN sources' |-> NoList]
           /\ loadCount' \in 0..MaxLoad /\ crashes' \in 0..MaxCrash
           /\ \/ /\ at.step = "idle" /\ UNCHANGED <<sources, inForce, data>>
                 /\ at'.step = "store" \/ (at'.step = "read" /\ at'.i \in DOMAIN sources')
              \/ /\ at'.step = "idle" /\ inForce' = [i \in DOMAIN sources' |-> NoList]
                 /\ data' = [list |-> NoList, fromCache |-> FALSE]
<1>1. /\ loadCount \in 0..MaxLoad /\ crashes \in 0..MaxCrash /\ sources \in Configs
      /\ MaxLoad \in Nat /\ MaxCrash \in Nat
  BY LoaderAssumption DEF LoaderInv, LoaderTypeOK
<1>2. CASE BeginLoad
  <2>1. loadCount' \in 0..MaxLoad /\ crashes' \in 0..MaxCrash
    BY <1>1, <1>2 DEF BeginLoad
  <2>2. at' \in [i : Nat, step : Step] /\ at'.i = 1
    BY <1>2 DEF BeginLoad, Step
  <2>3. sources # <<>> => 1 \in DOMAIN sources
    <3> DEFINE S == [id : Id, location : Location]
    <3> HIDE DEF S
    <3>1. sources \in Seq(S)
      BY <1>1, LoaderAssumption DEF S
    <3> QED
      BY <3>1
  <2> QED
    BY <1>1, <1>2, <2>1, <2>2, <2>3 DEF BeginLoad, Nothing
<1>3. CASE Restart
  <2>1. loadCount' \in 0..MaxLoad /\ crashes' \in 0..MaxCrash
    BY <1>1, <1>3 DEF Restart
  <2>2. at' \in [i : Nat, step : Step] /\ at'.i = 1 /\ at'.step = "idle"
    BY <1>3 DEF Restart, Step
  <2> QED
    BY <1>3, <2>1, <2>2 DEF Restart
<1> QED
  BY <1>2, <1>3

\* A list gets a new version.
LEMMA PublishEffect ==
    ASSUME LoaderInv, NEW l \in Location, Publish(l)
    PROVE  /\ UNCHANGED <<disk, sources, cacheDir, at, data, merged, inForce, loadCount,
                          crashes, durable, kept>>
           /\ published' \in [Location -> List]
           /\ \A k \in Location : /\ published'[k].from = published[k].from
                                  /\ published'[k].whole = published[k].whole
                                  /\ published'[k].ver >= published[k].ver
                                  /\ published'[k].ver \in Nat /\ published[k].ver \in Nat
<1>1. PICK ok \in BOOLEAN :
         published' = [published EXCEPT ![l].ver = @ + 1, ![l].parses = ok]
  BY DEF Publish
<1>2. published \in [Location -> List]
  BY DEF LoaderInv, LoaderTypeOK
<1> DEFINE new == [published[l] EXCEPT !.ver = @ + 1, !.parses = ok]
<1>3. published' = [published EXCEPT ![l] = new]
  BY <1>1
<1>4. /\ new \in List /\ new.from = published[l].from /\ new.whole = published[l].whole
      /\ new.ver = published[l].ver + 1
  <2> DEFINE old == published[l]
             next == [old EXCEPT !.ver = old.ver + 1]
  <2>1. old \in List
    BY <1>2
  <2> HIDE DEF old
  <2>2. /\ next \in List /\ next.from = old.from /\ next.whole = old.whole
        /\ next.ver = old.ver + 1
    BY <2>1 DEF List
  <2>3. new = [next EXCEPT !.parses = ok]
    BY DEF old
  <2> HIDE DEF next, new
  <2>4. /\ new \in List /\ new.from = next.from /\ new.whole = next.whole
        /\ new.ver = next.ver
    BY <2>2, <2>3 DEF List
  <2> QED
    BY <2>2, <2>4 DEF old
<1> HIDE DEF new
<1>5. published' \in [Location -> List]
  BY <1>2, <1>3, <1>4
<1>6. ASSUME NEW k \in Location
      PROVE  /\ published'[k].from = published[k].from
             /\ published'[k].whole = published[k].whole
             /\ published'[k].ver >= published[k].ver
             /\ published'[k].ver \in Nat /\ published[k].ver \in Nat
  <2>1. published'[k] = IF k = l THEN new ELSE published[k]
    BY <1>2, <1>3
  <2>2. published[k].ver \in Nat
    BY <1>2 DEF List
  <2> QED
    BY <1>4, <2>1, <2>2
<1> QED
  BY <1>5, <1>6 DEF Publish

\* The lists merged go into force.
LEMMA StoreEffect ==
    ASSUME LoaderInv, StoreLists
    PROVE  /\ at.step = "store" /\ at'.step = "idle" /\ at' \in [i : Nat, step : Step]
           /\ inForce' = merged
           /\ UNCHANGED <<published, disk, sources, cacheDir, data, merged, loadCount,
                          crashes, durable, kept>>
  BY GotoEffect DEF StoreLists, Step

\* Every step keeps the invariant.
LEMMA LoaderNextInv == LoaderInv /\ [LoaderNext]_vars => LoaderInv'
<1> SUFFICES ASSUME LoaderInv, [LoaderNext]_vars PROVE LoaderInv'
  OBVIOUS
<1>1. LoaderTypeOK /\ Placed /\ Parsed /\ CacheUsable
  BY DEF LoaderInv
<1>2. CASE BeginLoad \/ Restart
  <2>1. at'.step \in {"store", "read", "idle"}
    BY <1>2, StartEffect
  <2>2. data' \in [list : List \cup {NoList}, fromCache : BOOLEAN]
    <3>1. UNCHANGED data \/ data' = [list |-> NoList, fromCache |-> FALSE]
      BY <1>2, StartEffect
    <3>2. data \in [list : List \cup {NoList}, fromCache : BOOLEAN]
      BY <1>1 DEF LoaderTypeOK
    <3> QED
      BY <3>1, <3>2, NoDataType, Zenon
  <2>3. inForce' \in [DOMAIN sources' -> List \cup {NoList}]
    BY <1>1, <1>2, StartEffect DEF LoaderTypeOK
  <2>4. LoaderTypeOK'
    BY <1>1, <1>2, <2>1, <2>2, <2>3, StartEffect DEF LoaderTypeOK
  <2>5. Placed' /\ Parsed' /\ CacheUsable'
    BY <1>1, <1>2, <2>1, StartEffect DEF Placed, Parsed, CacheUsable, Busy
  <2> QED
    BY <2>4, <2>5 DEF LoaderInv
<1>3. CASE ReadSource \/ ReadSourceFails
  <2>1. at.step = "read" /\ at.step \in Busy /\ CacheUsable' /\ at.i \in DOMAIN sources
    BY <1>1, <1>3, ReadEffect, SourceType DEF CacheUsable, Busy
  <2>2. CASE /\ at'.step = "parse" /\ at'.i = at.i /\ at' \in [i : Nat, step : Step]
             /\ data'.list \in List
             /\ data' \in [list : List \cup {NoList}, fromCache : BOOLEAN]
    <3>1. data'.list # NoList
      BY <2>2, LoaderAssumption
    <3>2. UNCHANGED <<published, disk, sources, cacheDir, merged, inForce, loadCount,
                      crashes, durable, kept>>
      BY <1>3, ReadEffect
    <3>3. LoaderTypeOK'
      BY <1>1, <2>2, <3>1, <3>2 DEF LoaderTypeOK
    <3>4. Placed' /\ Parsed'
      BY <1>3, <2>1, <2>2, ReadEffect DEF Placed, Parsed
    <3> QED
      BY <2>1, <3>3, <3>4 DEF LoaderInv
  <2>3. CASE NextSource /\ UNCHANGED data
    <3>1. LoaderTypeOK'
      BY <1>1, <1>3, <2>1, <2>3, ReadEffect, NextSourceEffect DEF LoaderTypeOK
    <3>2. Placed' /\ Parsed'
      BY <1>1, <1>3, <2>1, <2>3, ReadEffect, NextSourceEffect DEF Placed, Parsed, Busy
    <3> QED
      BY <2>1, <3>1, <3>2 DEF LoaderInv
  <2> QED
    BY <1>3, <2>2, <2>3, ReadEffect
<1>4. CASE ParseList \/ WriteCacheFails \/ Merge
  <2>1. /\ CacheUsable' /\ at.i \in DOMAIN sources /\ at.step \in Holding
        /\ data.list \in List /\ data.list # NoList
        /\ UNCHANGED <<data, sources>>
    BY <1>1, <1>4, HandleEffect, SourceType DEF CacheUsable, LoaderTypeOK, Holding
  <2>2. merged' \in [DOMAIN sources' -> List \cup {NoList}]
    BY <1>1, <1>4, <2>1, HandleEffect DEF LoaderTypeOK
  <2>3. \/ /\ at' \in [i : Nat, step : Step] /\ at'.i = at.i
           /\ at'.step \in {"open", "merge"} /\ data.list.parses
           /\ at'.step = "open" => ~data.fromCache /\ isURL(Source.location)
        \/ /\ at' \in [i : Nat, step : Step] /\ at'.step = "store"
        \/ /\ at' \in [i : Nat, step : Step] /\ at'.step = "read" /\ at'.i \in DOMAIN sources
    BY <1>1, <1>4, HandleEffect, NextSourceEffect DEF Parsed
  <2>4. LoaderTypeOK'
    BY <1>1, <1>4, <2>1, <2>2, <2>3, HandleEffect DEF LoaderTypeOK
  <2>5. Placed' /\ Parsed'
    BY <2>1, <2>3 DEF Placed, Parsed, Busy, Source
  <2> QED
    BY <2>1, <2>4, <2>5 DEF LoaderInv
<1>5. CASE TruncateCache \/ WriteCache
  <2> DEFINE f == cacheFileName(Source)
  <2>1. /\ at'.i = at.i /\ at'.step \in {"write", "merge"} /\ at' \in [i : Nat, step : Step]
        /\ UNCHANGED <<published, sources, cacheDir, data, merged, inForce, loadCount, crashes, kept>>
        /\ disk' \in [File -> List \cup {NoList}]
        /\ disk'[f].parses /\ \A g \in File : g # f => disk'[g] = disk[g]
        /\ data.list \in List /\ data.list.parses /\ isURL(Source.location) /\ ~data.fromCache
    BY <1>5, DiskEffect
  <2>2. durable' \in [File -> [Location -> Nat]]
    <3>1. Source.location \in Location /\ data.list.ver \in Nat /\ f \in File
      BY <1>5, DiskEffect, SourceType DEF List
    <3>2. \/ UNCHANGED durable
          \/ durable' = [durable EXCEPT ![f][Source.location] = data.list.ver]
      BY <1>5, DiskEffect
    <3>3. durable \in [File -> [Location -> Nat]]
      BY <1>1 DEF LoaderTypeOK
    <3> HIDE DEF f
    <3> QED
      BY <3>1, <3>2, <3>3
  <2>3. CacheUsable'
    <3> HIDE DEF f
    <3> QED
      BY <1>1, <2>1 DEF CacheUsable
  <2>4. data.list # NoList
    BY <2>1, LoaderAssumption
  <2>5. LoaderTypeOK'
    BY <1>1, <2>1, <2>2, <2>4 DEF LoaderTypeOK
  <2>6. Placed' /\ Parsed'
    <3>1. at.i \in DOMAIN sources
      BY <1>5, DiskEffect, SourceType
    <3> QED
      BY <2>1, <3>1 DEF Placed, Parsed, Source
  <2> QED
    BY <2>3, <2>5, <2>6 DEF LoaderInv
<1>6. CASE StoreLists
  <2>1. LoaderTypeOK'
    BY <1>1, <1>6, StoreEffect DEF LoaderTypeOK
  <2>2. Placed' /\ Parsed' /\ CacheUsable'
    BY <1>1, <1>6, StoreEffect DEF Placed, Parsed, CacheUsable, Busy
  <2> QED
    BY <2>1, <2>2 DEF LoaderInv
<1>7. CASE \E l \in Location : Publish(l)
  <2>1. LoaderTypeOK'
    BY <1>1, <1>7, PublishEffect DEF LoaderTypeOK
  <2>2. Placed' /\ Parsed' /\ CacheUsable'
    BY <1>1, <1>7, PublishEffect DEF Placed, Parsed, CacheUsable, Source
  <2> QED
    BY <2>1, <2>2 DEF LoaderInv
<1>8. CASE UNCHANGED vars
  BY <1>1, <1>8 DEF vars, LoaderInv, LoaderTypeOK, Placed, Parsed, CacheUsable, Source
<1> QED
  BY <1>2, <1>3, <1>4, <1>5, <1>6, <1>7, <1>8 DEF LoaderNext

-----------------------------------------------------------------------------
(* Which lists a source uses *)

\* A source of any configuration has a location and a file.
LEMMA ConfigType ==
    ASSUME NEW c \in Configs, NEW i \in DOMAIN c
    PROVE  c[i].location \in Location /\ cacheFileName(c[i]) \in File
<1> DEFINE S == [id : Id, location : Location]
<1> HIDE DEF S
<1>1. c \in Seq(S)
  BY LoaderAssumption DEF S
<1>2. c[i] \in S
  BY <1>1
<1> QED
  BY <1>2 DEF S, File

\* Sources that share a file have the same sanitized id and, if it is empty,
\* the same location.
LEMMA SameFile ==
    ASSUME NEW s, NEW t, cacheFileName(s) = cacheFileName(t)
    PROVE  /\ sanitizeID(s.id) = sanitizeID(t.id)
           /\ sanitizeID(s.id) = <<>> => s.location = t.location
<1> DEFINE id(r) == sanitizeID(r.id)
           hash(r) == IF id(r) = <<>> THEN {r.location} ELSE {}
<1>1. cacheFileName(s).id = id(s) /\ cacheFileName(s).hash = hash(s)
  BY DEF cacheFileName
<1>2. cacheFileName(t).id = id(t) /\ cacheFileName(t).hash = hash(t)
  BY DEF cacheFileName
<1>3. id(s) = id(t) /\ hash(s) = hash(t)
  BY <1>1, <1>2
<1> QED
  BY <1>3

\* What is in the file of a source is a list that may be there.
LEMMA CopyShared ==
    ASSUME LoaderInv, OwnInv, at.step \in Busy, isURL(Source.location),
           disk[cacheFileName(Source)] # NoList
    PROVE  OwnOrShared(Source, disk[cacheFileName(Source)].from)
<1> DEFINE copy == disk[cacheFileName(Source)]
<1>1. cacheFileName(Source) \in File
  BY SourceType
<1>2. isURL(copy.from)
  BY <1>1 DEF OwnInv, KeptForSource
<1>3. PICK c \in Configs : \E j \in DOMAIN c :
         c[j].location = copy.from /\ cacheFileName(c[j]) = cacheFileName(Source)
  BY <1>1 DEF OwnInv, KeptForSource
<1>4. PICK j \in DOMAIN c :
         c[j].location = copy.from /\ cacheFileName(c[j]) = cacheFileName(Source)
  BY <1>3
<1>5. /\ sanitizeID(c[j].id) = sanitizeID(Source.id)
      /\ sanitizeID(c[j].id) = <<>> => c[j].location = Source.location
  BY <1>4, SameFile
<1> QED
  BY <1>2, <1>4, <1>5 DEF OwnOrShared, Shared

\* The part of the invariant that speaks of the merged lists and of those in
\* force, as long as no source is added.
LEMMA ListsKept ==
    ASSUME OwnInv, UNCHANGED <<sources, inForce>>,
           \A i \in DOMAIN sources : merged'[i] # NoList =>
               merged'[i] = merged[i] \/ OwnOrShared(sources[i], merged'[i].from)
    PROVE  /\ OwnList'
           /\ \A i \in DOMAIN sources' :
                 merged'[i] # NoList => OwnOrShared(sources'[i], merged'[i].from)
  BY DEF OwnInv, OwnList, InForce

\* Every step keeps the invariant.
LEMMA OwnNextInv == LoaderInv /\ OwnInv /\ [LoaderNext]_vars => OwnInv'
<1> SUFFICES ASSUME LoaderInv, OwnInv, [LoaderNext]_vars PROVE OwnInv'
  OBVIOUS
<1>1. /\ Offered /\ KeptForSource /\ OwnList /\ DataShared
  BY DEF OwnInv
<1>2. CASE BeginLoad \/ Restart
  <2>1. Offered' /\ KeptForSource'
    BY <1>1, <1>2, StartEffect DEF Offered, KeptForSource
  <2>2. DataShared'
    BY <1>2, StartEffect DEF DataShared, Holding
  <2>3. \A i \in DOMAIN sources' : merged'[i] = NoList
    BY <1>2, StartEffect
  <2>4. OwnList'
    BY <1>1, <1>2, StartEffect DEF OwnList, InForce
  <2> QED
    BY <2>1, <2>2, <2>3, <2>4 DEF OwnInv
<1>3. CASE ReadSource \/ ReadSourceFails
  <2>1. /\ UNCHANGED <<published, disk, sources, merged, inForce>> /\ at.step \in Busy
    BY <1>3, ReadEffect DEF Busy
  <2>2. Offered' /\ KeptForSource'
    BY <1>1, <2>1 DEF Offered, KeptForSource
  <2>3. /\ sources \in Configs /\ at.i \in DOMAIN sources /\ Source.location \in Location
    BY <2>1, SourceType
  <2>4. DataShared'
    <3>1. CASE at'.step = "parse" /\ at'.i = at.i /\ data'.list = published[Source.location]
      <4>1. Source' = Source
        BY <2>1, <3>1 DEF Source
      <4>2. data'.list.from = Source.location
        BY <1>1, <2>3, <3>1 DEF Offered
      <4> QED
        BY <4>1, <4>2 DEF DataShared, OwnOrShared
    <3>2. CASE /\ at'.step = "parse" /\ at'.i = at.i /\ data'.list \in List
               /\ isURL(Source.location) /\ data'.list = disk[cacheFileName(Source)]
               /\ data'.fromCache = TRUE
      <4>1. Source' = Source
        BY <2>1, <3>2 DEF Source
      <4>2. data'.list # NoList
        BY <3>2, LoaderAssumption
      <4>3. OwnOrShared(Source, disk[cacheFileName(Source)].from)
        BY <2>1, <3>2, <4>2, CopyShared
      <4> QED
        BY <3>2, <4>1, <4>3 DEF DataShared
    <3>3. CASE NextSource
      BY <2>1, <3>3, NextSourceEffect DEF DataShared, Holding
    <3> QED
      BY <1>3, <3>1, <3>2, <3>3, ReadEffect
  <2> QED
    BY <2>1, <2>2, <2>4, ListsKept DEF OwnInv
<1>4. CASE ParseList \/ WriteCacheFails \/ Merge
  <2>1. /\ UNCHANGED <<published, disk, sources, data, inForce>>
        /\ at.step \in Holding /\ at.step \in Busy
    BY <1>4, HandleEffect
  <2>2. Offered' /\ KeptForSource'
    BY <1>1, <2>1 DEF Offered, KeptForSource
  <2>3. at'.i = at.i \/ at'.step \notin Holding
    BY <1>4, HandleEffect, NextSourceEffect DEF Holding
  <2>4. DataShared'
    BY <1>1, <2>1, <2>3 DEF DataShared, Source
  <2>5. merged \in [DOMAIN sources -> List \cup {NoList}]
    BY DEF LoaderInv, LoaderTypeOK
  <2>6. UNCHANGED merged \/ merged' = [merged EXCEPT ![at.i] = data.list]
    BY <1>4, HandleEffect
  <2>7. \A i \in DOMAIN sources : merged'[i] # NoList =>
           merged'[i] = merged[i] \/ OwnOrShared(sources[i], merged'[i].from)
    BY <1>1, <2>1, <2>5, <2>6 DEF DataShared, Source
  <2> QED
    BY <2>1, <2>2, <2>4, <2>7, ListsKept DEF OwnInv
<1>5. CASE TruncateCache \/ WriteCache
  <2> DEFINE f == cacheFileName(Source)
  <2>1. /\ UNCHANGED <<published, sources, data, merged, inForce>> /\ at'.i = at.i
        /\ at.step \in Busy /\ at.step \in Holding /\ isURL(Source.location)
        /\ ~data.fromCache /\ disk'[f].from = data.list.from
        /\ \A g \in File : g # f => disk'[g] = disk[g]
    BY <1>5, DiskEffect
  <2>2. data.list.from = Source.location /\ Source' = Source
    BY <1>1, <2>1 DEF DataShared, Source
  <2>3. sources \in Configs /\ at.i \in DOMAIN sources
    BY <2>1, SourceType
  <2> HIDE DEF f
  <2>4. ASSUME NEW g \in File, disk'[g] # NoList
        PROVE  /\ isURL(disk'[g].from)
               /\ \E c \in Configs : \E j \in DOMAIN c :
                     c[j].location = disk'[g].from /\ cacheFileName(c[j]) = g
    <3>1. CASE g = f
      BY <2>1, <2>2, <2>3, <3>1 DEF Source, f
    <3>2. CASE g # f
      BY <1>1, <2>1, <2>4, <3>2 DEF KeptForSource
    <3> QED
      BY <3>1, <3>2
  <2>5. KeptForSource' /\ Offered'
    BY <1>1, <2>1, <2>4 DEF KeptForSource, Offered
  <2>6. DataShared'
    BY <1>1, <2>1, <2>2 DEF DataShared
  <2> QED
    BY <2>1, <2>5, <2>6, ListsKept DEF OwnInv
<1>6. CASE StoreLists
  <2>1. /\ at'.step = "idle" /\ inForce' = merged
        /\ UNCHANGED <<published, disk, sources, merged>>
    BY <1>6, StoreEffect
  <2>2. Offered' /\ KeptForSource' /\ DataShared'
    BY <1>1, <2>1 DEF Offered, KeptForSource, DataShared, Holding
  <2> QED
    BY <2>1, <2>2 DEF OwnInv, OwnList, InForce
<1>7. CASE \E l \in Location : Publish(l)
  <2>1. /\ UNCHANGED <<disk, sources, at, data, merged, inForce>>
        /\ \A k \in Location : published'[k].from = published[k].from
    BY <1>7, PublishEffect
  <2>2. Offered' /\ KeptForSource'
    BY <1>1, <2>1 DEF Offered, KeptForSource
  <2>3. DataShared'
    BY <1>1, <2>1 DEF DataShared, Source
  <2> QED
    BY <2>1, <2>2, <2>3, ListsKept DEF OwnInv
<1>8. CASE UNCHANGED vars
  BY <1>8 DEF vars, OwnInv, Offered, KeptForSource, DataShared, OwnList, InForce, Source
<1> QED
  BY <1>2, <1>3, <1>4, <1>5, <1>6, <1>7, <1>8 DEF LoaderNext

-----------------------------------------------------------------------------
(* No refresh goes back *)

\* The types of what is compared.
LEMMA Ages ==
    ASSUME LoaderInv
    PROVE  /\ durable \in [File -> [Location -> Nat]] /\ kept \in [File -> [Location -> Nat]]
           /\ \A f \in File : \A l \in Location :
                 durable[f][l] \in Nat /\ kept[f][l] \in Nat
           /\ published \in [Location -> List]
           /\ \A l \in Location : published[l].ver \in Nat
           /\ merged \in [DOMAIN sources -> List \cup {NoList}]
           /\ \A i \in DOMAIN sources :
                 sources[i].location \in Location /\ cacheFileName(sources[i]) \in File
<1>1. /\ durable \in [File -> [Location -> Nat]] /\ kept \in [File -> [Location -> Nat]]
      /\ published \in [Location -> List] /\ sources \in Configs
      /\ merged \in [DOMAIN sources -> List \cup {NoList}]
  BY DEF LoaderInv, LoaderTypeOK
<1>2. \A l \in Location : published[l].ver \in Nat
  BY <1>1 DEF List
<1> QED
  BY <1>1, <1>2, ConfigType

\* The invariant holds at first.
LEMMA AgeInitInv == LoaderInit => AgeInv
<1> SUFFICES ASSUME LoaderInit PROVE AgeInv
  OBVIOUS
<1>1. \A l \in Location : published[l].whole /\ published[l].ver = 1
  BY DEF LoaderInit
<1>2. \A f \in File : \A l \in Location : durable[f][l] = 0 /\ kept[f][l] = 0
  BY DEF LoaderInit
<1>3. OffersNew /\ KeptOlder
  BY <1>1, <1>2 DEF OffersNew, KeptOlder
<1>4. CopiesNew /\ DataNew /\ MergedNew
  BY DEF LoaderInit, CopiesNew, Upto, DataNew, MergedNew, Holding
<1>5. NoRollback
  BY DEF LoaderInit, NoRollback, InForce, Nothing
<1> QED
  BY <1>3, <1>4, <1>5 DEF AgeInv

\* Every step keeps it.
LEMMA AgeNextInv == LoaderInv /\ OwnInv /\ AgeInv /\ [LoaderNext]_vars => AgeInv'
<1> SUFFICES ASSUME LoaderInv, OwnInv, AgeInv, [LoaderNext]_vars PROVE AgeInv'
  OBVIOUS
<1>1. CopiesNew /\ OffersNew /\ KeptOlder /\ DataNew /\ MergedNew /\ NoRollback
  BY DEF AgeInv
<1>2. CASE BeginLoad \/ Restart
  <2>1. CopiesNew' /\ OffersNew'
    BY <1>1, <1>2, StartEffect DEF CopiesNew, OffersNew, Upto
  <2>2. DataNew'
    BY <1>2, StartEffect DEF DataNew, Holding
  <2>3. MergedNew'
    <3>1. \A i \in DOMAIN sources' : merged'[i] = NoList
      BY <1>2, StartEffect
    <3> QED
      BY <3>1 DEF MergedNew, Upto
  <2>4. NoRollback'
    BY <1>2, StartEffect DEF NoRollback, InForce
  <2>5. KeptOlder'
    BY <1>1, <1>2, StartEffect, Ages DEF KeptOlder
  <2> QED
    BY <2>1, <2>2, <2>3, <2>4, <2>5 DEF AgeInv
<1>3. CASE ReadSource \/ ReadSourceFails
  <2>1. /\ UNCHANGED <<published, disk, sources, merged, inForce, durable, kept>>
        /\ at.step = "read" /\ at.step \in Busy /\ at.step # "idle" /\ at'.step # "idle"
    BY <1>3, ReadEffect, NextSourceEffect DEF Busy
  <2>2. CopiesNew' /\ OffersNew' /\ KeptOlder' /\ MergedNew' /\ NoRollback'
    BY <1>1, <2>1 DEF CopiesNew, OffersNew, KeptOlder, MergedNew, NoRollback, Upto
  <2>3. /\ Source.location \in Location /\ cacheFileName(Source) \in File
        /\ published[Source.location].ver \in Nat
    BY <2>1, SourceType, Ages
  <2>4. DataNew'
    <3>1. CASE /\ at'.step = "parse" /\ at'.i = at.i /\ data'.list = published[Source.location]
      <4>1. Source' = Source
        BY <2>1, <3>1 DEF Source
      <4>2. published[Source.location].from = Source.location
        BY <2>3 DEF OwnInv, Offered
      <4> QED
        BY <1>1, <2>1, <2>3, <3>1, <4>1, <4>2 DEF DataNew, Upto, OffersNew
    <3>2. CASE /\ at'.step = "parse" /\ at'.i = at.i
               /\ data'.list = disk[cacheFileName(Source)] /\ data'.fromCache = TRUE
      <4>1. Source' = Source
        BY <2>1, <3>2 DEF Source
      <4> QED
        BY <1>1, <2>1, <2>3, <3>2, <4>1 DEF DataNew, CopiesNew, Upto
    <3>3. CASE NextSource
      BY <2>1, <3>3, NextSourceEffect DEF DataNew, Holding
    <3> QED
      BY <1>3, <3>1, <3>2, <3>3, ReadEffect
  <2> QED
    BY <2>2, <2>4 DEF AgeInv
<1>4. CASE ParseList \/ WriteCacheFails \/ Merge
  <2>1. /\ UNCHANGED <<published, disk, sources, data, inForce, durable, kept>>
        /\ at.step \in Holding /\ at.step \in Busy /\ at.step # "idle"
    BY <1>4, HandleEffect DEF Busy
  <2>2. CopiesNew' /\ OffersNew' /\ KeptOlder'
    BY <1>1, <2>1 DEF CopiesNew, OffersNew, KeptOlder, Upto
  <2>3. \/ /\ at'.i = at.i /\ at'.step \in {"open", "merge"} /\ UNCHANGED merged
        \/ /\ at'.step \in {"store", "read"}
           /\ UNCHANGED merged \/ merged' = [merged EXCEPT ![at.i] = data.list]
    BY <1>4, <2>1, HandleEffect, NextSourceEffect
  <2>4. DataNew'
    BY <1>1, <2>1, <2>3 DEF DataNew, Holding, Upto, Source
  <2>5. NoRollback'
    BY <2>3 DEF NoRollback
  <2>6. Upto(data.list, kept[cacheFileName(Source)])
    <3> DEFINE f == cacheFileName(Source)
               list == data.list
    <3>1. f \in File /\ list \in List
      BY <2>1, SourceType DEF LoaderInv, LoaderTypeOK, Holding
    <3>2. Upto(list, durable[f])
      BY <1>1, <2>1 DEF DataNew
    <3>3. list.from \in Location /\ list.ver \in Nat
      BY <3>1 DEF List
    <3>4. /\ kept[f][list.from] =< durable[f][list.from]
          /\ kept[f][list.from] \in Nat /\ durable[f][list.from] \in Nat
      BY <1>1, <3>1, <3>3, Ages DEF KeptOlder
    <3> QED
      BY <3>2, <3>3, <3>4 DEF Upto
  <2>7. ASSUME NEW i \in DOMAIN sources
        PROVE  Upto(merged'[i], kept[cacheFileName(sources[i])])
    <3>1. Upto(merged[i], kept[cacheFileName(sources[i])])
      BY <1>1, <2>1 DEF MergedNew
    <3>2. merged'[i] = merged[i] \/ (i = at.i /\ merged'[i] = data.list)
      BY <2>3, Ages
    <3> QED
      BY <2>6, <3>1, <3>2 DEF Source
  <2>8. MergedNew'
    BY <2>1, <2>7 DEF MergedNew, Upto
  <2> QED
    BY <2>2, <2>4, <2>5, <2>8 DEF AgeInv
<1>5. CASE TruncateCache \/ WriteCache
  <2> DEFINE f == cacheFileName(Source)
             l == Source.location
             list == data.list
  <2>1. /\ UNCHANGED <<published, sources, data, merged, inForce, kept>> /\ at'.i = at.i
        /\ at.step \in Busy /\ at.step \in Holding /\ at.step # "idle"
        /\ at'.step \in {"write", "merge"} /\ list \in List /\ ~data.fromCache
        /\ \A g \in File : g # f => disk'[g] = disk[g]
    BY <1>5, DiskEffect DEF Busy
  <2>2. Source' = Source /\ l \in Location /\ f \in File
    BY <2>1, SourceType DEF Source
  <2>3. /\ list # NoList /\ list.whole /\ list.ver \in Nat /\ list.from = l
        /\ list.ver >= durable[f][l] /\ list.ver =< published[l].ver
    BY <1>1, <2>1, LoaderAssumption DEF DataNew, Upto, List, OwnInv, DataShared
  <2>4. /\ durable \in [File -> [Location -> Nat]] /\ published[l].ver \in Nat
        /\ \A g \in File : \A k \in Location : durable[g][k] \in Nat /\ kept[g][k] \in Nat
    BY <2>2, Ages
  <2>5. \/ ~disk'[f].whole /\ durable' = durable
        \/ disk'[f] = list /\ durable' = [durable EXCEPT ![f][l] = list.ver]
    BY <1>5, DiskEffect
  <2> HIDE DEF f, l, list
  <2>6. /\ \A g \in File : g # f => durable'[g] = durable[g]
        /\ \A k \in Location : k # l => durable'[f][k] = durable[f][k]
        /\ durable'[f][l] \in {durable[f][l], list.ver}
        /\ disk'[f].whole => disk'[f] = list /\ durable'[f][l] = list.ver
    BY <2>2, <2>4, <2>5
  <2>7. ASSUME NEW g \in File, NEW k \in Location
        PROVE  /\ durable[g][k] =< durable'[g][k]
               /\ durable'[g][k] \in Nat
               /\ published[k].ver >= durable[g][k] => published[k].ver >= durable'[g][k]
    <3>1. durable'[g][k] = durable[g][k] \/ (g = f /\ k = l /\ durable'[g][k] = list.ver)
      BY <2>6
    <3> QED
      BY <2>3, <2>4, <3>1
  <2>8. CopiesNew'
    <3> SUFFICES ASSUME NEW g \in File PROVE Upto(disk'[g], durable'[g])
      BY DEF CopiesNew, Upto
    <3>1. CASE g = f
      BY <2>3, <2>6, <3>1 DEF Upto
    <3>2. CASE g # f
      BY <1>1, <2>1, <2>6, <3>2 DEF CopiesNew, f
    <3> QED
      BY <3>1, <3>2
  <2>9. OffersNew'
    BY <1>1, <2>1, <2>7 DEF OffersNew
  <2>10. KeptOlder'
    <3> SUFFICES ASSUME NEW g \in File, NEW k \in Location
                 PROVE  kept[g][k] =< durable'[g][k]
      BY <2>1 DEF KeptOlder
    <3> QED
      BY <1>1, <2>4, <2>7 DEF KeptOlder
  <2>11. DataNew'
    <3>1. Upto(list, durable'[f])
      BY <2>3, <2>6 DEF Upto
    <3> QED
      BY <2>1, <2>2, <2>3, <3>1 DEF DataNew, Upto, f, l, list
  <2>12. MergedNew' /\ NoRollback'
    BY <1>1, <2>1 DEF MergedNew, Upto, NoRollback
  <2> QED
    BY <2>8, <2>9, <2>10, <2>11, <2>12 DEF AgeInv
<1>6. CASE StoreLists
  <2>1. /\ at.step = "store" /\ at'.step = "idle" /\ inForce' = merged
        /\ UNCHANGED <<published, disk, sources, merged, durable, kept>>
    BY <1>6, StoreEffect
  <2>2. CopiesNew' /\ OffersNew' /\ KeptOlder' /\ DataNew' /\ MergedNew'
    BY <1>1, <2>1 DEF CopiesNew, OffersNew, KeptOlder, DataNew, MergedNew, Upto, Holding
  <2>3. NoRollback'
    BY <1>1, <2>1 DEF MergedNew, Upto, NoRollback, InForce
  <2> QED
    BY <2>2, <2>3 DEF AgeInv
<1>7. CASE \E k \in Location : Publish(k)
  <2>1. /\ UNCHANGED <<disk, sources, at, data, merged, inForce, durable, kept>>
        /\ \A k \in Location : /\ published'[k].whole = published[k].whole
                               /\ published'[k].ver >= published[k].ver
                               /\ published'[k].ver \in Nat /\ published[k].ver \in Nat
    BY <1>7, PublishEffect
  <2>2. CopiesNew' /\ KeptOlder' /\ MergedNew' /\ NoRollback'
    BY <1>1, <2>1 DEF CopiesNew, KeptOlder, MergedNew, NoRollback, InForce, Upto
  <2>3. OffersNew'
    BY <1>1, <2>1, Ages DEF OffersNew
  <2>4. DataNew'
    <3>1. ASSUME at.step \in Holding
          PROVE  /\ Source.location \in Location
                 /\ data.list \in List
                 /\ Upto(data.list, durable[cacheFileName(Source)])
                 /\ ~data.fromCache =>
                       data.list.whole /\ data.list.ver =< published[Source.location].ver
      BY <1>1, <3>1, SourceType DEF DataNew, Holding, Busy, LoaderInv, LoaderTypeOK
    <3>2. Source' = Source
      BY <2>1 DEF Source
    <3> QED
      BY <2>1, <3>1, <3>2 DEF DataNew, Upto, List
  <2> QED
    BY <2>2, <2>3, <2>4 DEF AgeInv
<1>8. CASE UNCHANGED vars
  BY <1>1, <1>8 DEF vars, AgeInv, CopiesNew, OffersNew, KeptOlder, DataNew, MergedNew,
                    NoRollback, InForce, Upto, Source
<1> QED
  BY <1>2, <1>3, <1>4, <1>5, <1>6, <1>7, <1>8 DEF LoaderNext

-----------------------------------------------------------------------------
(* What refreshes and crashes cannot break *)

\* The variables have their types and LoadSources never runs past its sources,
\* nor parses, writes or merges what it did not read.
THEOREM LoaderTypesSafe == LoaderSpec => []LoaderTypeOK
<1>1. LoaderInv => LoaderTypeOK
  BY DEF LoaderInv
<1> QED
  BY LoaderInitInv, LoaderNextInv, <1>1, PTL DEF LoaderSpec

\* Whatever a refresh falls back on, parseList accepted, wherever the process
\* was killed.
THEOREM CacheUsableSafe == LoaderSpec => []CacheUsable
<1>1. LoaderInv => CacheUsable
  BY DEF LoaderInv
<1> QED
  BY LoaderInitInv, LoaderNextInv, <1>1, PTL DEF LoaderSpec

\* Whatever the ids and the configurations a restart changes between, a source
\* is served by its own list, downloaded or from the cache directory, or else,
\* if it has a URL, by that of a URL whose source has the same sanitized id.
THEOREM OwnListSafe == LoaderSpec => []OwnList
<1>1. LoaderInit => OwnInv
  BY DEF LoaderInit, OwnInv, Offered, KeptForSource, DataShared, OwnList, InForce, Nothing,
         Holding
<1>2. OwnInv => OwnList
  BY DEF OwnInv
<1> QED
  BY LoaderInitInv, LoaderNextInv, OwnNextInv, <1>1, <1>2, PTL DEF LoaderSpec

\* No refresh puts a version into force, except a damaged one, that is older
\* than the last one of that list that had been written to the source's file
\* in full before the refresh began.
THEOREM NoRollbackSafe == LoaderSpec => []NoRollback
<1>1. LoaderInit => OwnInv
  BY DEF LoaderInit, OwnInv, Offered, KeptForSource, DataShared, OwnList, InForce, Nothing,
         Holding
<1>2. AgeInv => NoRollback
  BY DEF AgeInv
<1> QED
  BY LoaderInitInv, LoaderNextInv, OwnNextInv, AgeInitInv, AgeNextInv, <1>1, <1>2, PTL
  DEF LoaderSpec
=============================================================================
