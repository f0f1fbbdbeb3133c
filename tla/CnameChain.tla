---------------------------- MODULE CnameChain ----------------------------
(***************************************************************************)
(* The loop of handleCNAME (pkg/handler) on its own: where it is in the    *)
(* chain and nothing of the message it builds, so that a chain which never *)
(* ends is a cycle of states.  The records may be reloaded between turns.  *)
(***************************************************************************)
EXTENDS Records

CONSTANTS RecordFiles,   \* what the records file may hold
          Asked,         \* the names clients ask for
          MaxReloads     \* bound on the reloads

ASSUME ChainAssumption ==
    /\ RecordFiles \subseteq Seq(Line)
    /\ Asked \subseteq Name
    /\ MaxReloads \in Nat

VARIABLES target,   \* the name the next turn looks up
          at        \* "loop", or where the loop ended: "found" or "forward"

chainVars == <<records, gen, target, at>>

ChainTypeOK ==
    /\ RecordsTypeOK
    /\ target \in Name
    /\ at \in {"loop", "found", "forward"}

ChainInit ==
    /\ RecordsInit(RecordFiles)
    /\ target \in Asked
    /\ at = "loop"

IsCname(rec) == rec # None /\ rec.typ = "cname"

\* Mutant of Turn: the target is not moved on.
TurnInPlace ==
    /\ at = "loop"
    /\ LET rec == Get(target)
       IN  \/ IsCname(rec) /\ UNCHANGED <<target, at>>
           \/ rec # None /\ rec.typ = "a" /\ at' = "found" /\ UNCHANGED target
           \/ rec = None /\ at' = "forward" /\ UNCHANGED target
    /\ UNCHANGED <<records, gen>>

\* A turn of the loop; the first one stands for the lookup of the name asked for.
Turn ==
    /\ at = "loop"
    /\ LET rec == Get(target)
       IN  \/ IsCname(rec) /\ target' = WithDot(rec.content) /\ UNCHANGED at
           \/ rec # None /\ rec.typ = "a" /\ at' = "found" /\ UNCHANGED target
           \/ rec = None /\ at' = "forward" /\ UNCHANGED target
    /\ UNCHANGED <<records, gen>>

Reload ==
    /\ gen < MaxReloads
    /\ \E file \in RecordFiles : LoadFromFile(file)
    /\ UNCHANGED <<target, at>>

ChainNext == Turn \/ Reload

ChainSpec == ChainInit /\ [][ChainNext]_chainVars /\ WF_chainVars(Turn)

-----------------------------------------------------------------------------
\* Nothing the CNAME records lead to leads on to itself, wildcards included: no
\* set of their targets is closed under following one more record.
Acyclic ==
    LET cnames  == {n \in DOMAIN records : IsCname(records[n])}
        targets == {WithDot(records[n].content) : n \in cnames}
    IN  \A S \in SUBSET targets : S # {} =>
            \E n \in S : ~(IsCname(Get(n)) /\ WithDot(Get(n).content) \in S)

\* The loop of handleCNAME ends once the records have no cycle, whatever cycles
\* earlier versions of the file had and wherever in them the loop was.
ChainEndsIfAcyclic == <>[]Acyclic => <>(at # "loop")

\* handler.go:116 "Send SERVFAIL response to client instead of leaving them
\* hanging": the loop ends for every file that loads.  It has no bound and does
\* not notice that it came back to a name.
ChainEnds == <>(at # "loop")
=============================================================================
