------------------------------ MODULE Sources ------------------------------
(***************************************************************************)
(* pkg/filtering/sources.go: the sources that a configuration stands for.  *)
(* Go visits the entries of a map in an order of its own, a new one every  *)
(* time, so BuildSources yields a set of sequences.                        *)
(***************************************************************************)
EXTENDS Integers, Sequences

LOCAL INSTANCE SequencesExt

CONSTANTS NoUrl,      \* an empty location
          CustomId    \* the ids "custom_1", "custom_2", ..., by position

\* The url of a filtering.<list> table, else the one of the built-in catalog.
LocationOf(catalog, configs, id) ==
    CASE configs[id].url # NoUrl -> configs[id].url
      [] configs[id].url = NoUrl /\ id \in DOMAIN catalog -> catalog[id]
      [] OTHER -> NoUrl

EnabledIds(catalog, configs) ==
    {id \in DOMAIN configs : configs[id].enabled /\ LocationOf(catalog, configs, id) # NoUrl}

\* Blank entries are skipped, and keep their position.
CustomSources(custom) ==
    SelectSeq([i \in DOMAIN custom |-> [id |-> CustomId[i], location |-> custom[i]]],
              LAMBDA s : s.location # NoUrl)

BuildSources(catalog, configs, custom) ==
    {[i \in DOMAIN ids |-> [id |-> ids[i], location |-> LocationOf(catalog, configs, ids[i])]]
        \o CustomSources(custom) : ids \in SetToSeqs(EnabledIds(catalog, configs))}
=============================================================================
