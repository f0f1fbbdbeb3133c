--------------------------- MODULE RecordsProofs ---------------------------
(***************************************************************************)
(* What the operators on names and records return, for any file and any    *)
(* name: the lemmas that the proofs about the server and about the locked  *)
(* record store share.                                                     *)
(***************************************************************************)
EXTENDS Records, WellFoundedInduction, TLAPS

-----------------------------------------------------------------------------
(* Names and positions *)

\* The lower-case spelling of a name is a name.
LEMMA LowerType == ASSUME NEW n \in Name PROVE Lower(n) \in Name
  BY LabelAssumption DEF Lower, Name

\* What handleCNAME makes of the content of a CNAME record, adding a dot, is a
\* name, though perhaps one with an empty label.
LEMMA WithDotType == ASSUME NEW t \in Text PROVE WithDot(t) \in Name
  BY LabelAssumption DEF WithDot, Text, Name

\* A set of naturals that is not empty has a least element: the wildcard that
\* Get prefers exists.
LEMMA MinOfNats ==
    ASSUME NEW S \in SUBSET Nat, S # {}
    PROVE  Min(S) \in S /\ \A y \in S : Min(S) =< y
<1> DEFINE R == OpToRel(<, Nat)
<1>1. \E x \in S : \A y \in S : ~(<<y, x>> \in R)
  <2>1. IsWellFoundedOn(R, Nat)
    BY NatLessThanWellFounded
  <2> HIDE DEF R
  <2> QED
    BY <2>1, WFMin
<1>2. \A x, y \in Nat : y < x => <<y, x>> \in R
  BY DEF OpToRel
<1> HIDE DEF R
<1>3. PICK x \in S : \A y \in S : ~(<<y, x>> \in R)
  BY <1>1
<1>4. \A y \in S : x \in Nat /\ y \in Nat /\ ~(y < x)
  BY <1>2, <1>3
<1>5. \A y \in S : x =< y
  BY <1>4
<1> QED
  BY <1>5 DEF Min

\* A set of positions that is not empty has a last one: the line of the file
\* that LoadFromFile lets win exists.
LEMMA MaxOfInterval ==
    ASSUME NEW n \in Nat, NEW S \in SUBSET (1..n), S # {}
    PROVE  Max(S) \in S /\ \A y \in S : y =< Max(S)
<1> DEFINE T == {n - i : i \in S}
<1>1. T \in SUBSET Nat /\ T # {}
  <2>1. \A i \in S : n - i \in Nat
    OBVIOUS
  <2> QED
    BY <2>1
<1>2. Min(T) \in T
  BY <1>1, MinOfNats
<1>3. \A y \in T : Min(T) =< y
  BY <1>1, MinOfNats
<1>4. PICK x \in S : Min(T) = n - x
  BY <1>2
<1>5. \A y \in S : x >= y
  <2>1. ASSUME NEW y \in S PROVE n - x =< n - y
    BY <1>3, <1>4
  <2>2. \A y \in S : x \in Nat /\ y \in Nat
    OBVIOUS
  <2> QED
    BY <2>1, <2>2
<1> QED
  BY <1>5 DEF Max

\* What Get returns is stored under some name, or nil.
LEMMA GetStored ==
    ASSUME NEW n \in Name
    PROVE  Get(n) = None \/ \E k \in DOMAIN records : Get(n) = records[k]
<1> DEFINE m == Lower(n)
           wild == {i \in 1..(Len(m) - 1) : <<Star>> \o Suffix(m, i) \in DOMAIN records}
<1>1. CASE m \in DOMAIN records
  BY <1>1 DEF Get
<1>2. CASE m \notin DOMAIN records /\ wild # {}
  <2>1. Get(n) = records[<<Star>> \o Suffix(m, Min(wild))]
    BY <1>2 DEF Get
  <2>2. wild \in SUBSET Nat
    OBVIOUS
  <2>3. Min(wild) \in wild
    BY <1>2, <2>2, MinOfNats
  <2> HIDE DEF m
  <2> QED
    BY <2>1, <2>3
<1>3. CASE m \notin DOMAIN records /\ wild = {}
  BY <1>3 DEF Get
<1> QED
  BY <1>1, <1>2, <1>3

\* Hence it is a record, or nil.
LEMMA GetType ==
    ASSUME RecordsTypeOK, NEW n \in Name
    PROVE  Get(n) \in Record \cup {None}
  BY GetStored DEF RecordsTypeOK

\* A valid line of the file asks for a record.
LEMMA LineRecordType ==
    ASSUME NEW l \in Line, ValidLine(l)
    PROVE  [typ |-> l.typ, content |-> LowerContent(l)] \in Record
<1>1. CASE l.typ = "a"
  BY <1>1 DEF ValidLine, LowerContent, Record
<1>2. CASE l.typ = "cname"
  <2>1. l.content \in Text
    BY <1>2 DEF Line
  <2>2. Lower(l.content.labels) \in Name /\ l.content.dot \in BOOLEAN
    BY <2>1, LowerType DEF Text
  <2>3. LowerContent(l) \in Text
    BY <1>2, <2>2 DEF LowerContent, Text
  <2> QED
    BY <1>2, <2>3 DEF Record
<1> QED
  BY <1>1, <1>2 DEF ValidLine

\* LoadFromFile fills the store with what valid lines of the file ask for.
LEMMA LoadedLines ==
    ASSUME NEW file \in Seq(Line)
    PROVE  /\ DOMAIN Loaded(file) \subseteq Name
           /\ \A n \in DOMAIN Loaded(file) : \E i \in 1..Len(file) :
                 /\ file[i] \in Line /\ ValidLine(file[i])
                 /\ Loaded(file)[n] = [typ |-> file[i].typ, content |-> LowerContent(file[i])]
<1> DEFINE valid == {i \in Scanned(file) : ValidLine(file[i])}
           of(n) == {i \in valid : normalizeName(file[i].name) = n}
           owners == {normalizeName(file[i].name) : i \in valid}
           rec(l) == [typ |-> l.typ, content |-> LowerContent(l)]
<1>1. Loaded(file) = [n \in owners |-> rec(file[Max(of(n))])]
  BY DEF Loaded
<1>2. valid \in SUBSET (1..Len(file))
  BY DEF Scanned
<1>3. \A i \in valid : file[i] \in Line /\ ValidLine(file[i])
  BY <1>2
<1>4. \A t \in Text : normalizeName(t) \in Name
  BY LowerType DEF normalizeName, Text
<1>5. owners \subseteq Name
  BY <1>3, <1>4 DEF Line
<1>6. ASSUME NEW n \in owners PROVE Max(of(n)) \in valid
  <2>1. of(n) \in SUBSET (1..Len(file)) /\ of(n) # {}
    BY <1>2
  <2>2. Max(of(n)) \in of(n)
    <3>1. Len(file) \in Nat
      OBVIOUS
    <3> HIDE DEF of
    <3> QED
      BY <2>1, <3>1, MaxOfInterval
  <2> QED
    BY <2>2
<1> HIDE DEF rec, owners, valid
<1>7. ASSUME NEW n \in DOMAIN Loaded(file)
      PROVE  \E i \in 1..Len(file) :
                file[i] \in Line /\ ValidLine(file[i]) /\ Loaded(file)[n] = rec(file[i])
  <2>1. n \in owners /\ Loaded(file)[n] = rec(file[Max(of(n))])
    BY <1>1
  <2>2. Max(of(n)) \in 1..Len(file)
    BY <1>2, <1>6, <2>1
  <2> QED
    BY <1>3, <1>6, <2>1, <2>2
<1> QED
  BY <1>1, <1>5, <1>7 DEF rec

\* Hence with records.
LEMMA LoadedType ==
    ASSUME NEW file \in Seq(Line)
    PROVE  /\ DOMAIN Loaded(file) \subseteq Name
           /\ \A n \in DOMAIN Loaded(file) : Loaded(file)[n] \in Record
<1>1. ASSUME NEW n \in DOMAIN Loaded(file) PROVE Loaded(file)[n] \in Record
  <2>1. PICK i \in 1..Len(file) :
          /\ file[i] \in Line /\ ValidLine(file[i])
          /\ Loaded(file)[n] = [typ |-> file[i].typ, content |-> LowerContent(file[i])]
    BY LoadedLines
  <2> QED
    BY <2>1, LineRecordType
<1> QED
  BY <1>1, LoadedLines
=============================================================================
