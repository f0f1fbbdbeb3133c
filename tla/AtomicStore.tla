---------------------------- MODULE AtomicStore ----------------------------
(***************************************************************************)
(* What pkg/records promises ("safe for concurrent use via package         *)
(* functions"): a load replaces all records in one step by what the file   *)
(* says, and a lookup is answered from the records of one moment between   *)
(* its call and its return.                                                *)
(***************************************************************************)
EXTENDS Records

CONSTANTS RecordFiles,   \* what the records file may hold when it is read
          Reader         \* the goroutines that call Get

VARIABLE call   \* the last call of Get of each reader, and what it returned

storeVars == <<records, gen, call>>

NoCall == [st |-> "none", name |-> <<>>, rec |-> None]

StoreInit ==
    /\ records = <<>> /\ gen = 0
    /\ call = [c \in Reader |-> NoCall]

Load ==
    /\ \E file \in RecordFiles : LoadFromFile(file)
    /\ UNCHANGED call

Invoke(c) ==
    /\ call[c].st # "asked"
    /\ call'[c].name \in Name
    /\ call' = [call EXCEPT ![c] = [st |-> "asked", name |-> call'[c].name, rec |-> None]]
    /\ UNCHANGED <<records, gen>>

Return(c) ==
    /\ call[c].st = "asked"
    /\ call' = [call EXCEPT ![c].st = "got", ![c].rec = Get(call[c].name)]
    /\ UNCHANGED <<records, gen>>

StoreNext == Load \/ \E c \in Reader : Invoke(c) \/ Return(c)

StoreSpec == StoreInit /\ [][StoreNext]_storeVars
=============================================================================
