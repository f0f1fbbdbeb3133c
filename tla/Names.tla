------------------------------- MODULE Names -------------------------------
(***************************************************************************)
(* Domain names as the program compares them.  A name is the sequence of   *)
(* its labels; the sequence <<l1, .., ln>> stands for the text             *)
(* "l1. .. .ln." that DNS questions and the keys of the record store carry *)
(* (the root is <<>>).  Labels come in upper- and lower-case spellings,    *)
(* and ToLower maps a label to its lower-case spelling.                    *)
(*                                                                         *)
(* A Text is a name as somebody wrote it in a file: the final dot may be   *)
(* there or not (and where there is none, the last label is not empty).    *)
(***************************************************************************)
EXTENDS FiniteSetsExt, Sequences

CONSTANTS Label,      \* the labels names are made of
          ToLower,    \* the lower-case spelling of every label
          Star,       \* the label "*"
          NoLabel,    \* the empty label between two consecutive dots
          LongLabel,  \* labels of more than 63 bytes
          MaxLabels   \* bound on a name, 255 bytes on the wire, in labels

ASSUME LabelAssumption ==
    /\ {Star, NoLabel} \subseteq Label
    /\ ToLower \in [Label -> Label]
    /\ \A l \in Label : ToLower[ToLower[l]] = ToLower[l]
    /\ \A l \in Label : ToLower[l] \in {Star, NoLabel} <=> l \in {Star, NoLabel}
    /\ LongLabel \subseteq Label \ {Star, NoLabel}
    /\ \A l \in Label : ToLower[l] \in LongLabel <=> l \in LongLabel
    /\ MaxLabels \in Nat
    /\ ToLower[Star] = Star /\ ToLower[NoLabel] = NoLabel /\ Star # NoLabel

Name == Seq(Label)

Text == [labels : Name, dot : BOOLEAN]

Lower(n) == [i \in DOMAIN n |-> ToLower[n[i]]]

\* normalizeName: lower case, and a final dot whether or not it was written.
normalizeName(t) == Lower(t.labels)

\* rec.Content + ".": a second dot, hence an empty label, if one was written.
WithDot(t) == IF t.dot THEN Append(t.labels, NoLabel) ELSE t.labels

\* strings.Join(parts[i:], "."): what is left of n without its first i labels.
Suffix(n, i) == SubSeq(n, i + 1, Len(n))

\* The wire format has no empty label, none over 63 bytes and no name over 255:
\* packing such a name fails.
Packable(n) ==
    /\ Len(n) =< MaxLabels
    /\ \A i \in DOMAIN n : n[i] \notin {NoLabel} \cup LongLabel
=============================================================================
