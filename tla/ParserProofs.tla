---------------------------- MODULE ParserProofs ----------------------------
(***************************************************************************)
(* A list means what is written in it, for any list, any limit and any     *)
(* name that is looked up.                                                 *)
(***************************************************************************)
EXTENDS ListParser, FiniteSetTheorems, TLAPS

ListLine == [tokens : Seq(Token), fits : BOOLEAN]

ParserTypeOK ==
    /\ list \in Lists /\ list \in Seq(ListLine) /\ limit \in Nat
    /\ phase \in {"scan", "parsed", "failed"}
    /\ line \in 0..Len(list) /\ tok \in Nat \ {0}
    /\ stats \in [domains : Nat, invalid : Nat]
    /\ count \in Nat /\ logged \in Nat
    /\ set \in DomainSets

\* Where the loops are: behind no comment, and behind an address that begins
\* the line.  parseList returns at the end of the last line.
InPlace ==
    /\ ~EndOfLine =>
          /\ \A k \in 1..(tok - 1) : Tokens(line)[k] # Comment
          /\ tok = 1 => Tokens(line)[1] # IpLiteral
    /\ phase = "parsed" => line = Len(list) /\ EndOfLine

\* The entry at a place of the list.
At(e) == Tokens(e[1])[e[2]]

\* The set holds what the entries passed ask for, and nothing else.
SetSoFar ==
    \A x :
        /\ x \in set.exact <=>
              \E e \in EntriesPassed :
                  Accepted(At(e)) /\ ~HasStar(At(e)) /\ x = Lower(Suffixed(At(e)))
        /\ x \in set.wildcards <=>
              \E e \in EntriesPassed :
                  Accepted(At(e)) /\ HasStar(At(e)) /\ x = Lower(Suffixed(At(e)))

Counted ==
    /\ IsFiniteSet(EntriesPassed)
    /\ stats.domains + stats.invalid = Cardinality(EntriesPassed)

\* The counter of errorLimiter, which does not run if the limit is 0.
Limited ==
    /\ count = IF limit = 0 THEN 0 ELSE stats.invalid
    /\ logged = IF count > limit THEN limit ELSE count
    /\ phase = "parsed" => (warned <=> limit > 0 /\ stats.invalid > limit)

ParserInv == ParserTypeOK /\ InPlace /\ SetSoFar /\ Counted /\ Limited

-----------------------------------------------------------------------------
(* The entries the loops have passed. *)

\* The entries before token t of line l.
PassedAt(l, t) == UNION {{i} \X {j \in EntriesOf(i) : i < l \/ j < t} : i \in 1..l}

\* What PassedAt contains, place by place.
LEMMA InPassed ==
    ASSUME NEW l, NEW t, NEW e
    PROVE  e \in PassedAt(l, t) <=>
              \E i \in 1..l : \E j \in EntriesOf(i) : e = <<i, j>> /\ (i < l \/ j < t)
  BY DEF PassedAt

\* The tokens of a line are a sequence of tokens.
LEMMA TokensType ==
    ASSUME ParserTypeOK, NEW i \in 0..Len(list)
    PROVE  Tokens(i) \in Seq(Token)
<1>1. CASE i = 0
  BY <1>1 DEF Tokens
<1>2. CASE i # 0
  <2>1. list[i] \in ListLine
    BY <1>2 DEF ParserTypeOK
  <2> QED
    BY <1>2, <2>1 DEF Tokens, ListLine
<1> QED
  BY <1>1, <1>2

\* The end of a line and the address at the start of the next are no entries.
LEMMA PassedNextLine ==
    ASSUME ParserInv, NextLine
    PROVE  PassedAt(line + 1, tok') = PassedAt(line, tok)
<1>1. /\ line \in 0..Len(list) /\ line + 1 \in 0..Len(list) /\ line \in Nat /\ line + 1 \in 1..Len(list)
      /\ tok \in Nat \ {0} /\ ParserTypeOK
  BY DEF ParserInv, ParserTypeOK, NextLine
<1>2. tok > Len(Tokens(line))
  BY DEF NextLine, EndOfLine
<1>3. \A j \in EntriesOf(line) : j < tok
  <2>1. Tokens(line) \in Seq(Token)
    BY <1>1, TokensType
  <2> QED
    BY <1>1, <1>2, <2>1 DEF EntriesOf
<1>4. \A j \in EntriesOf(line + 1) : ~(j < tok')
  <2>1. Tokens(line + 1) \in Seq(Token)
    BY <1>1, TokensType
  <2>2. tok' = IF Tokens(line + 1) # <<>> /\ Head(Tokens(line + 1)) = IpLiteral THEN 2 ELSE 1
    BY DEF NextLine
  <2>3. SUFFICES ASSUME NEW j \in EntriesOf(line + 1), j < tok' PROVE FALSE
    OBVIOUS
  <2>4. /\ j \in 1..Len(Tokens(line + 1))
        /\ j = 1 => Tokens(line + 1)[1] # IpLiteral
    BY <2>1, <2>3 DEF EntriesOf
  <2>5. CASE tok' = 1
    BY <2>3, <2>4, <2>5
  <2>6. CASE tok' # 1
    <3>1. tok' = 2 /\ Head(Tokens(line + 1)) = IpLiteral
      BY <2>2, <2>6
    <3>2. j = 1
      BY <3>1, <2>3, <2>4
    <3>3. Head(Tokens(line + 1)) = Tokens(line + 1)[1]
      BY <2>1, <2>4, <3>2
    <3> QED
      BY <3>1, <3>2, <3>3, <2>4
  <2> QED
    BY <2>5, <2>6
<1>5. SUFFICES ASSUME NEW e PROVE e \in PassedAt(line + 1, tok') <=> e \in PassedAt(line, tok)
  OBVIOUS
<1>6. ASSUME e \in PassedAt(line + 1, tok') PROVE e \in PassedAt(line, tok)
  <2>1. PICK i \in 1..(line + 1) : \E j \in EntriesOf(i) : e = <<i, j>> /\ (i < line + 1 \/ j < tok')
    BY <1>6, InPassed
  <2>2. PICK j \in EntriesOf(i) : e = <<i, j>> /\ (i < line + 1 \/ j < tok')
    BY <2>1
  <2>3. i # line + 1
    BY <1>1, <1>4, <2>2
  <2>4. i \in 1..line /\ (i < line \/ i = line)
    BY <1>1, <2>1, <2>3
  <2>5. i < line \/ j < tok
    BY <1>3, <2>2, <2>4
  <2> QED
    BY <2>2, <2>4, <2>5, InPassed
<1>7. ASSUME e \in PassedAt(line, tok) PROVE e \in PassedAt(line + 1, tok')
  <2>1. PICK i \in 1..line : \E j \in EntriesOf(i) : e = <<i, j>>
    BY <1>7, InPassed
  <2>2. i \in 1..(line + 1) /\ i < line + 1
    BY <1>1, <2>1
  <2> QED
    BY <2>1, <2>2, InPassed
<1> QED
  BY <1>6, <1>7

\* The token the loop is at is on a line of the list, and an entry unless it
\* is a comment; a comment leaves no entry on the rest of its line.
LEMMA AtToken ==
    ASSUME ParserInv, ~EndOfLine
    PROVE  /\ line \in 1..Len(list) /\ Tokens(line) \in Seq(Token)
           /\ tok \in 1..Len(Tokens(line)) /\ Tokens(line)[tok] \in Token
           /\ Tokens(line)[tok] = Comment => \A j \in EntriesOf(line) : j < tok
           /\ Tokens(line)[tok] # Comment => tok \in EntriesOf(line)
<1>1. line \in 0..Len(list) /\ tok \in Nat \ {0} /\ ParserTypeOK
  BY DEF ParserInv, ParserTypeOK
<1>2. Tokens(line) \in Seq(Token)
  BY <1>1, TokensType
<1>3. tok \in 1..Len(Tokens(line))
  BY <1>1, <1>2 DEF EndOfLine
<1>4. line # 0
  BY <1>3 DEF Tokens
<1>5. line \in 1..Len(list)
  BY <1>1, <1>4 DEF ParserTypeOK
<1>6. Tokens(line)[tok] \in Token
  BY <1>2, <1>3
<1>7. ASSUME Tokens(line)[tok] = Comment, NEW j \in EntriesOf(line) PROVE j < tok
  <2>1. j \in 1..Len(Tokens(line)) /\ \A k \in 1..j : Tokens(line)[k] # Comment
    BY <1>2 DEF EntriesOf
  <2>2. ~(tok \in 1..j)
    BY <2>1, <1>7
  <2> QED
    BY <2>1, <2>2, <1>3
<1>8. ASSUME Tokens(line)[tok] # Comment PROVE tok \in EntriesOf(line)
  <2>1. /\ \A k \in 1..(tok - 1) : Tokens(line)[k] # Comment
        /\ tok = 1 => Tokens(line)[1] # IpLiteral
    BY DEF ParserInv, InPlace
  <2>2. \A k \in 1..tok : k \in 1..(tok - 1) \/ k = tok
    BY <1>3
  <2>3. tok \in DOMAIN Tokens(line)
    BY <1>2, <1>3
  <2> QED
    BY <2>1, <2>2, <2>3, <1>8 DEF EntriesOf
<1> QED
  BY <1>2, <1>3, <1>5, <1>6, <1>7, <1>8

\* Going to the end of the line at a comment passes no entry.
LEMMA PassedComment ==
    ASSUME ParserInv, ~EndOfLine, Tokens(line)[tok] = Comment
    PROVE  PassedAt(line, Len(Tokens(line)) + 1) = PassedAt(line, tok)
<1>1. /\ line \in 1..Len(list) /\ Tokens(line) \in Seq(Token)
      /\ tok \in 1..Len(Tokens(line))
      /\ \A j \in EntriesOf(line) : j < tok
  BY AtToken
<1>2. \A j \in EntriesOf(line) : j < Len(Tokens(line)) + 1
  BY <1>1 DEF EntriesOf
<1>3. \A i \in 1..line : i < line \/ i = line
  BY <1>1 DEF ParserInv, ParserTypeOK
<1>4. SUFFICES ASSUME NEW e
               PROVE  e \in PassedAt(line, Len(Tokens(line)) + 1) <=> e \in PassedAt(line, tok)
  OBVIOUS
<1>5. e \in PassedAt(line, tok) <=> \E i \in 1..line : \E j \in EntriesOf(i) : e = <<i, j>>
  BY <1>1, <1>3, InPassed
<1>6. e \in PassedAt(line, Len(Tokens(line)) + 1)
         <=> \E i \in 1..line : \E j \in EntriesOf(i) : e = <<i, j>>
  BY <1>2, <1>3, InPassed
<1> QED
  BY <1>5, <1>6

\* Any other token is one entry more.
LEMMA PassedToken ==
    ASSUME ParserInv, ~EndOfLine, Tokens(line)[tok] # Comment
    PROVE  /\ PassedAt(line, tok + 1) = PassedAt(line, tok) \cup {<<line, tok>>}
           /\ <<line, tok>> \notin PassedAt(line, tok)
<1>1. /\ line \in 1..Len(list) /\ line \in Nat /\ Tokens(line) \in Seq(Token)
      /\ tok \in 1..Len(Tokens(line)) /\ tok \in Nat
      /\ tok \in EntriesOf(line)
  <2>1. line \in Nat /\ tok \in Nat
    BY DEF ParserInv, ParserTypeOK
  <2> QED
    BY <2>1, AtToken
<1>2. <<line, tok>> \notin PassedAt(line, tok)
  <2>1. SUFFICES ASSUME <<line, tok>> \in PassedAt(line, tok) PROVE FALSE
    OBVIOUS
  <2>2. PICK i \in 1..line : \E j \in EntriesOf(i) : <<line, tok>> = <<i, j>> /\ (i < line \/ j < tok)
    BY <2>1, InPassed
  <2> QED
    BY <2>2, <1>1
<1>3. ASSUME NEW e \in PassedAt(line, tok + 1)
      PROVE  e \in PassedAt(line, tok) \cup {<<line, tok>>}
  <2>1. PICK i \in 1..line : \E j \in EntriesOf(i) : e = <<i, j>> /\ (i < line \/ j < tok + 1)
    BY InPassed
  <2>2. PICK j \in EntriesOf(i) : e = <<i, j>> /\ (i < line \/ j < tok + 1)
    BY <2>1
  <2>3. CASE i < line
    BY <2>2, <2>3, InPassed
  <2>4. CASE ~(i < line)
    <3>1. i = line
      BY <2>1, <2>4, <1>1
    <3>2. j \in Nat
      BY <3>1, <1>1, <2>2 DEF EntriesOf
    <3>3. j < tok \/ j = tok
      BY <3>2, <2>2, <2>4, <1>1
    <3> QED
      BY <3>1, <3>3, <2>2, InPassed
  <2> QED
    BY <2>3, <2>4
<1>4. ASSUME NEW e \in PassedAt(line, tok) PROVE e \in PassedAt(line, tok + 1)
  <2>1. PICK i \in 1..line : \E j \in EntriesOf(i) : e = <<i, j>> /\ (i < line \/ j < tok)
    BY InPassed
  <2>2. PICK j \in EntriesOf(i) : e = <<i, j>> /\ (i < line \/ j < tok)
    BY <2>1
  <2>3. i < line \/ j < tok + 1
    <3>1. CASE i < line
      BY <3>1
    <3>2. CASE ~(i < line)
      <4>1. i = line
        BY <2>1, <3>2, <1>1
      <4>2. j \in Nat
        BY <4>1, <1>1, <2>2 DEF EntriesOf
      <4> QED
        BY <4>2, <2>2, <3>2, <1>1
    <3> QED
      BY <3>1, <3>2
  <2> QED
    BY <2>2, <2>3, InPassed
<1>5. <<line, tok>> \in PassedAt(line, tok + 1)
  <2>1. line \in 1..line /\ tok < tok + 1
    BY <1>1
  <2> QED
    BY <2>1, <1>1, InPassed
<1> QED
  BY <1>2, <1>3, <1>4, <1>5

-----------------------------------------------------------------------------
(* The invariant. *)

\* An address is no comment.
LEMMA Apart == IpLiteral # Comment
<1>1. SUFFICES ASSUME IpLiteral = Comment PROVE FALSE
  OBVIOUS
<1>2. {Comment, IpLiteral, Garbage} = ({} \cup {Comment}) \cup {Garbage}
  BY <1>1
<1>3. IsFiniteSet({} \cup {Comment}) /\ Cardinality({} \cup {Comment}) = 1
  BY FS_EmptySet, FS_AddElement
<1>4. Cardinality(({} \cup {Comment}) \cup {Garbage})
         = IF Garbage \in {} \cup {Comment} THEN 1 ELSE 2
  <2>1. Cardinality(({} \cup {Comment}) \cup {Garbage})
           = IF Garbage \in {} \cup {Comment}
             THEN Cardinality({} \cup {Comment}) ELSE Cardinality({} \cup {Comment}) + 1
    BY <1>3, FS_AddElement
  <2> QED
    BY <1>3, <2>1
<1>5. Cardinality({Comment, IpLiteral, Garbage}) = 3
  BY ParserAssumption
<1> QED
  BY <1>2, <1>4, <1>5

\* What addToken stores for a token is a name.
LEMMA SuffixedType ==
    ASSUME NEW t \in Text
    PROVE  Suffixed(t) \in Name /\ Lower(Suffixed(t)) \in Name
<1>1. t.labels \in Name
  BY DEF Text
<1>2. ASSUME HasStar(t) PROVE Suffix(t.labels, 1) \in Name
  <2>1. Len(t.labels) \in Nat /\ Len(t.labels) >= 1
    BY <1>1, <1>2 DEF HasStar, Name
  <2> QED
    BY <1>1, <2>1 DEF Suffix, Name
<1>3. Suffixed(t) \in Name
  BY <1>1, <1>2 DEF Suffixed
<1> QED
  BY <1>3, LabelAssumption DEF Lower, Name

\* newDomainSet, and nothing scanned yet.
LEMMA ParserInitInv == ParserInit => ParserInv
<1> SUFFICES ASSUME ParserInit PROVE ParserInv
  OBVIOUS
<1> USE DEF ParserInit
<1>1. list \in Seq(ListLine) /\ limit \in Nat
  BY ParserAssumption DEF ListLine
<1>2. ParserTypeOK
  BY <1>1 DEF ParserTypeOK, NewDomainSet, DomainSets
<1>3. EntriesPassed = {}
  BY DEF EntriesPassed
<1>4. EndOfLine
  BY DEF EndOfLine, Tokens
<1>5. InPlace
  BY <1>4 DEF InPlace
<1>6. SetSoFar
  BY <1>3 DEF SetSoFar, NewDomainSet
<1>7. Counted
  BY <1>3, FS_EmptySet DEF Counted
<1>8. Limited
  BY <1>1 DEF Limited
<1> QED
  BY <1>2, <1>5, <1>6, <1>7, <1>8 DEF ParserInv

\* What a step that passes no entry keeps.
LEMMA NothingPassed ==
    ASSUME ParserInv, UNCHANGED <<list, set, stats>>, EntriesPassed' = EntriesPassed
    PROVE  SetSoFar' /\ Counted'
<1>1. \A e : At(e)' = At(e)
  BY DEF At, Tokens
<1>2. SetSoFar'
  <2>1. SetSoFar /\ set' = set
    BY DEF ParserInv
  <2> QED
    BY <1>1, <2>1 DEF SetSoFar
<1>3. Counted'
  BY DEF ParserInv, Counted
<1> QED
  BY <1>2, <1>3

\* A turn of the loop over lines passes no entry and counts none.
LEMMA NextLineInv == ParserInv /\ NextLine => ParserInv'
<1> SUFFICES ASSUME ParserInv, NextLine PROVE ParserInv'
  OBVIOUS
<1>1. /\ UNCHANGED <<list, limit, phase, set, stats, count, logged, warned>>
      /\ line' = line + 1 /\ line < Len(list) /\ phase = "scan"
      /\ tok' = IF Tokens(line + 1) # <<>> /\ Head(Tokens(line + 1)) = IpLiteral THEN 2 ELSE 1
  BY DEF NextLine
<1>2. ParserTypeOK'
  BY <1>1 DEF ParserInv, ParserTypeOK
<1>3. Tokens(line)' = Tokens(line + 1) /\ Tokens(line + 1) \in Seq(Token)
  <2>1. line + 1 \in 0..Len(list) /\ ParserTypeOK
    BY <1>1 DEF ParserInv, ParserTypeOK
  <2> QED
    BY <1>1, <2>1, TokensType DEF Tokens
<1>4. InPlace'
  <2>1. SUFFICES ASSUME ~EndOfLine'
                 PROVE  /\ \A k \in 1..(tok' - 1) : Tokens(line)'[k] # Comment
                        /\ tok' = 1 => Tokens(line)'[1] # IpLiteral
    BY <1>1 DEF InPlace
  <2>2. Len(Tokens(line + 1)) >= 1
    BY <1>1, <1>3, <2>1 DEF EndOfLine
  <2>3. Head(Tokens(line + 1)) = Tokens(line + 1)[1] /\ Tokens(line + 1) # <<>>
    BY <1>3, <2>2
  <2>4. CASE Tokens(line + 1)[1] = IpLiteral
    <3>1. IpLiteral # Comment
      BY Apart
    <3> QED
      BY <1>1, <1>3, <2>3, <2>4, <3>1
  <2>5. CASE Tokens(line + 1)[1] # IpLiteral
    BY <1>1, <1>3, <2>3, <2>5
  <2> QED
    BY <2>4, <2>5
<1>5. EntriesPassed' = EntriesPassed
  <2>1. EntriesPassed' = PassedAt(line', tok')
    BY <1>1 DEF EntriesPassed, PassedAt, EntriesOf, Tokens
  <2>2. EntriesPassed = PassedAt(line, tok)
    BY DEF EntriesPassed, PassedAt
  <2> QED
    BY <1>1, <2>1, <2>2, PassedNextLine
<1>6. SetSoFar' /\ Counted'
  BY <1>1, <1>5, NothingPassed
<1>7. Limited'
  BY <1>1 DEF ParserInv, Limited
<1> QED
  BY <1>2, <1>4, <1>6, <1>7 DEF ParserInv

\* parseList returns, with the set or with the scanner's error.
LEMMA ScanEndsInv == ParserInv /\ (ScanFails \/ Finish) => ParserInv'
<1> SUFFICES ASSUME ParserInv, ScanFails \/ Finish PROVE ParserInv'
  OBVIOUS
<1>1. /\ UNCHANGED <<list, limit, line, tok, set, stats, count, logged>> /\ EndOfLine
      /\ \/ phase' = "failed"
         \/ /\ phase' = "parsed" /\ line = Len(list)
            /\ warned' = (limit > 0 /\ stats.invalid > limit)
  BY DEF ScanFails, Finish
<1>2. ParserTypeOK'
  BY <1>1 DEF ParserInv, ParserTypeOK
<1>3. EndOfLine'
  BY <1>1 DEF EndOfLine, Tokens
<1>4. InPlace'
  BY <1>1, <1>3 DEF InPlace
<1>5. EntriesPassed' = EntriesPassed
  BY <1>1 DEF EntriesPassed, EntriesOf, Tokens
<1>6. SetSoFar' /\ Counted'
  BY <1>1, <1>5, NothingPassed
<1>7. Limited'
  BY <1>1 DEF ParserInv, Limited
<1> QED
  BY <1>2, <1>4, <1>6, <1>7 DEF ParserInv

\* A comment ends its line.
LEMMA CommentInv ==
    ASSUME ParserInv, AddToken, Tokens(line)[tok] = Comment
    PROVE  ParserInv'
<1>1. /\ tok' = Len(Tokens(line)) + 1 /\ phase = "scan" /\ ~EndOfLine
      /\ UNCHANGED <<list, limit, phase, line, warned, set, stats, count, logged>>
  BY ParserAssumption DEF AddToken, Accepted
<1>2. /\ line \in 1..Len(list) /\ Tokens(line) \in Seq(Token)
  BY <1>1, AtToken
<1>3. ParserTypeOK'
  BY <1>1, <1>2 DEF ParserInv, ParserTypeOK
<1>4. InPlace'
  <2>1. EndOfLine'
    BY <1>1, <1>2 DEF EndOfLine, Tokens
  <2> QED
    BY <1>1, <2>1 DEF InPlace
<1>5. EntriesPassed' = EntriesPassed
  <2>1. EntriesPassed' = PassedAt(line', tok')
    BY <1>1 DEF EntriesPassed, PassedAt, EntriesOf, Tokens
  <2>2. EntriesPassed = PassedAt(line, tok)
    BY DEF EntriesPassed, PassedAt
  <2> QED
    BY <1>1, <2>1, <2>2, PassedComment
<1>6. SetSoFar' /\ Counted'
  BY <1>1, <1>5, NothingPassed
<1>7. Limited'
  BY <1>1 DEF ParserInv, Limited
<1> QED
  BY <1>3, <1>4, <1>6, <1>7 DEF ParserInv

\* Any other token is an entry: it goes into the set, or to the limiter.
LEMMA EntryInv ==
    ASSUME ParserInv, AddToken, Tokens(line)[tok] # Comment
    PROVE  ParserInv'
<1> DEFINE token == Tokens(line)[tok]
<1>1. /\ phase = "scan" /\ ~EndOfLine /\ tok' = tok + 1
      /\ UNCHANGED <<list, limit, phase, line, warned>>
  BY DEF AddToken
<1>2. /\ line \in 1..Len(list) /\ Tokens(line) \in Seq(Token)
      /\ tok \in 1..Len(Tokens(line)) /\ token \in Token
      /\ tok \in EntriesOf(line)
  BY <1>1, AtToken
<1>3. \/ /\ Accepted(token) /\ AddToSet(token)
         /\ stats' = [stats EXCEPT !.domains = @ + 1]
         /\ UNCHANGED <<count, logged>>
      \/ /\ ~Accepted(token) /\ LogInvalid
         /\ stats' = [stats EXCEPT !.invalid = @ + 1]
         /\ set' = set
  BY DEF AddToken
<1>4. Accepted(token) => Lower(Suffixed(token)) \in Name
  BY SuffixedType DEF Accepted
<1>5. /\ set' \in DomainSets
      /\ set'.exact = IF Accepted(token) /\ ~HasStar(token)
                      THEN set.exact \cup {Lower(Suffixed(token))} ELSE set.exact
      /\ set'.wildcards = IF Accepted(token) /\ HasStar(token)
                          THEN set.wildcards \cup {Lower(Suffixed(token))} ELSE set.wildcards
  <2>1. set \in DomainSets
    BY DEF ParserInv, ParserTypeOK
  <2>2. CASE Accepted(token)
    <3>1. AddToSet(token)
      BY <1>3, <2>2
    <3>2. CASE HasStar(token)
      <4>1. set' = [set EXCEPT !.wildcards = @ \cup {Lower(Suffixed(token))}]
        BY <3>1, <3>2 DEF AddToSet
      <4> QED
        BY <4>1, <3>2, <2>1, <2>2, <1>4 DEF DomainSets
    <3>3. CASE ~HasStar(token)
      <4>1. set' = [set EXCEPT !.exact = @ \cup {Lower(Suffixed(token))}]
        BY <3>1, <3>3 DEF AddToSet
      <4> QED
        BY <4>1, <3>3, <2>1, <2>2, <1>4 DEF DomainSets
    <3> QED
      BY <3>2, <3>3
  <2>3. CASE ~Accepted(token)
    BY <1>3, <2>1, <2>3
  <2> QED
    BY <2>2, <2>3
<1>6. /\ stats \in [domains : Nat, invalid : Nat] /\ count \in Nat /\ logged \in Nat
      /\ limit \in Nat /\ tok \in Nat
  BY DEF ParserInv, ParserTypeOK
<1>7. /\ stats' \in [domains : Nat, invalid : Nat]
      /\ stats'.domains + stats'.invalid = stats.domains + stats.invalid + 1
      /\ stats'.invalid = IF Accepted(token) THEN stats.invalid ELSE stats.invalid + 1
  BY <1>3, <1>6
<1>8. count' \in Nat /\ logged' \in Nat
  BY <1>3, <1>6 DEF LogInvalid
<1>9. ParserTypeOK'
  <2>1. /\ list' \in Lists /\ list' \in Seq(ListLine) /\ limit' \in Nat
        /\ phase' \in {"scan", "parsed", "failed"} /\ line' \in 0..Len(list')
    BY <1>1 DEF ParserInv, ParserTypeOK
  <2>2. tok' \in Nat \ {0}
    BY <1>1, <1>6
  <2> QED
    BY <2>1, <2>2, <1>5, <1>7, <1>8 DEF ParserTypeOK
<1>10. InPlace'
  <2>1. Tokens(line)' = Tokens(line)
    BY <1>1 DEF Tokens
  <2>2. tok' # 1 /\ tok' - 1 = tok /\ phase' # "parsed"
    BY <1>1, <1>6, <1>2
  <2>3. \A k \in 1..tok : Tokens(line)[k] # Comment
    BY <1>2 DEF EntriesOf
  <2> QED
    BY <2>1, <2>2, <2>3 DEF InPlace
<1>11. /\ EntriesPassed' = EntriesPassed \cup {<<line, tok>>}
       /\ <<line, tok>> \notin EntriesPassed
  <2>1. EntriesPassed' = PassedAt(line', tok')
    BY <1>1 DEF EntriesPassed, PassedAt, EntriesOf, Tokens
  <2>2. EntriesPassed = PassedAt(line, tok)
    BY DEF EntriesPassed, PassedAt
  <2> QED
    BY <1>1, <2>1, <2>2, PassedToken
<1>12. SetSoFar'
  <2>1. \A e : At(e)' = At(e)
    BY <1>1 DEF At, Tokens
  <2>2. At(<<line, tok>>) = token
    BY DEF At
  <2>3. SUFFICES ASSUME NEW x
                 PROVE  /\ x \in set'.exact <=>
                              \E e \in EntriesPassed \cup {<<line, tok>>} :
                                 Accepted(At(e)) /\ ~HasStar(At(e)) /\ x = Lower(Suffixed(At(e)))
                        /\ x \in set'.wildcards <=>
                              \E e \in EntriesPassed \cup {<<line, tok>>} :
                                 Accepted(At(e)) /\ HasStar(At(e)) /\ x = Lower(Suffixed(At(e)))
    BY <2>1, <1>11 DEF SetSoFar
  <2>4. /\ x \in set.exact <=>
              \E e \in EntriesPassed :
                  Accepted(At(e)) /\ ~HasStar(At(e)) /\ x = Lower(Suffixed(At(e)))
        /\ x \in set.wildcards <=>
              \E e \in EntriesPassed :
                  Accepted(At(e)) /\ HasStar(At(e)) /\ x = Lower(Suffixed(At(e)))
    BY DEF ParserInv, SetSoFar
  <2>5. /\ x \in set'.exact <=>
              \/ x \in set.exact
              \/ Accepted(token) /\ ~HasStar(token) /\ x = Lower(Suffixed(token))
        /\ x \in set'.wildcards <=>
              \/ x \in set.wildcards
              \/ Accepted(token) /\ HasStar(token) /\ x = Lower(Suffixed(token))
    BY <1>5
  <2> HIDE DEF token
  <2> QED
    BY <2>2, <2>4, <2>5
<1>13. Counted'
  <2>1. IsFiniteSet(EntriesPassed) /\ stats.domains + stats.invalid = Cardinality(EntriesPassed)
    BY DEF ParserInv, Counted
  <2>2. /\ IsFiniteSet(EntriesPassed \cup {<<line, tok>>})
        /\ Cardinality(EntriesPassed \cup {<<line, tok>>}) = Cardinality(EntriesPassed) + 1
    BY <2>1, <1>11, FS_AddElement
  <2> QED
    BY <2>1, <2>2, <1>7, <1>11 DEF Counted
<1>14. Limited'
  <2>1. /\ count = IF limit = 0 THEN 0 ELSE stats.invalid
        /\ logged = IF count > limit THEN limit ELSE count
    BY DEF ParserInv, Limited
  <2>2. CASE Accepted(token)
    <3>1. UNCHANGED <<count, logged>> /\ stats'.invalid = stats.invalid
      BY <1>3, <1>7, <2>2
    <3> QED
      BY <1>1, <2>1, <3>1 DEF Limited
  <2>3. CASE ~Accepted(token)
    <3>1. /\ count' = IF limit = 0 THEN count ELSE count + 1
          /\ logged' = IF limit = 0 \/ count >= limit THEN logged ELSE logged + 1
          /\ stats'.invalid = stats.invalid + 1
      BY <1>3, <1>7, <2>3 DEF LogInvalid
    <3>2. /\ count' = IF limit = 0 THEN 0 ELSE stats'.invalid
          /\ logged' = IF count' > limit THEN limit ELSE count'
      BY <1>6, <2>1, <3>1
    <3> QED
      BY <1>1, <3>2 DEF Limited
  <2> QED
    BY <2>2, <2>3
<1> QED
  BY <1>9, <1>10, <1>12, <1>13, <1>14 DEF ParserInv

\* Every step of parseList keeps the invariant.
LEMMA ParserStepInv == ParserInv /\ [ParserNext]_parserVars => ParserInv'
<1> SUFFICES ASSUME ParserInv, [ParserNext]_parserVars PROVE ParserInv'
  OBVIOUS
<1>1. CASE NextLine
  BY <1>1, NextLineInv
<1>2. CASE AddToken
  BY <1>2, CommentInv, EntryInv
<1>3. CASE ScanFails \/ Finish
  BY <1>3, ScanEndsInv
<1>4. CASE UNCHANGED parserVars
  <2>1. UNCHANGED <<list, limit, phase, line, tok, set, stats, count, logged, warned>>
    BY <1>4 DEF parserVars
  <2>2. EntriesPassed' = EntriesPassed
    BY <2>1 DEF EntriesPassed, EntriesOf, Tokens
  <2>3. SetSoFar' /\ Counted'
    BY <2>1, <2>2, NothingPassed
  <2>4. ParserTypeOK'
    BY <2>1 DEF ParserInv, ParserTypeOK
  <2>5. InPlace'
    BY <2>1 DEF ParserInv, InPlace, EndOfLine, Tokens
  <2>6. Limited'
    BY <2>1 DEF ParserInv, Limited
  <2> QED
    BY <2>3, <2>4, <2>5, <2>6 DEF ParserInv
<1> QED
  BY <1>1, <1>2, <1>3, <1>4 DEF ParserNext

\* Hence parseList keeps it, line after line.
LEMMA ParserInvariant == ParserSpec => []ParserInv
  BY ParserInitInv, ParserStepInv, PTL DEF ParserSpec

\* Nothing is dropped without a trace, whatever the list and the limit: every
\* entry addTokens has passed is counted once, and what errorLimiter did not
\* log it announces.
THEOREM EntriesSafe == ParserSpec => []EveryEntryAccounted
<1>1. ParserInv => EveryEntryAccounted
  <2> SUFFICES ASSUME ParserInv PROVE EveryEntryAccounted
    OBVIOUS
  <2>1. /\ limit \in Nat /\ count \in Nat /\ stats.invalid \in Nat
        /\ count = IF limit = 0 THEN 0 ELSE stats.invalid
        /\ logged = IF count > limit THEN limit ELSE count
        /\ phase = "parsed" => (warned <=> limit > 0 /\ stats.invalid > limit)
    BY DEF ParserInv, ParserTypeOK, Limited
  <2>2. logged <= limit
    BY <2>1
  <2>3. phase = "parsed" /\ limit > 0 => (warned <=> logged < stats.invalid)
    BY <2>1
  <2> QED
    BY <2>2, <2>3 DEF ParserInv, Counted, EveryEntryAccounted
<1> QED
  BY <1>1, ParserInvariant, PTL

-----------------------------------------------------------------------------
(* What an entry covers, and what the set finds. *)

\* Lower case neither makes nor removes a star, an empty or an overlong label.
LEMMA LowerKeeps ==
    ASSUME NEW n \in Name
    PROVE  /\ Lower(n) \in Name /\ Len(Lower(n)) = Len(n)
           /\ \A i \in 1..Len(n) : Lower(n)[i] = ToLower[n[i]]
           /\ \A i \in 1..Len(n) : (Lower(n)[i] = Star <=> n[i] = Star)
           /\ \A i \in 1..Len(n) : (Lower(n)[i] = NoLabel <=> n[i] = NoLabel)
           /\ Packable(Lower(n)) <=> Packable(n)
<1>1. /\ Lower(n) \in Name /\ Len(Lower(n)) = Len(n)
      /\ \A i \in 1..Len(n) : Lower(n)[i] = ToLower[n[i]]
  BY LabelAssumption DEF Lower, Name
<1>2. \A i \in 1..Len(n) : n[i] \in Label
  BY DEF Name
<1>3. /\ \A i \in 1..Len(n) : (Lower(n)[i] = Star <=> n[i] = Star)
      /\ \A i \in 1..Len(n) : (Lower(n)[i] = NoLabel <=> n[i] = NoLabel)
  BY <1>1, <1>2, LabelAssumption
<1>4. DOMAIN n = 1..Len(n) /\ DOMAIN Lower(n) = 1..Len(n)
  BY <1>1 DEF Name
<1>5. \A i \in 1..Len(n) : (Lower(n)[i] \in LongLabel <=> n[i] \in LongLabel)
  BY <1>1, <1>2, LabelAssumption
<1> QED
  BY <1>1, <1>3, <1>4, <1>5 DEF Packable

\* A name is found below its suffixes only, so an entry with an empty or an
\* overlong label in it is above no name that can be asked for.
LEMMA BelowPackable ==
    ASSUME NEW n \in Name, Packable(n), NEW s, n = s \/ Below(n, s)
    PROVE  Packable(s)
<1>1. CASE Below(n, s)
  <2>1. PICK i \in 1..(Len(n) - 1) : SubSeq(n, i + 1, Len(n)) = s
    BY <1>1 DEF Below, Suffix
  <2>2. Len(n) \in Nat /\ DOMAIN n = 1..Len(n)
    BY DEF Name
  <2>3. DOMAIN s = 1..(Len(n) - i) /\ \A k \in DOMAIN s : s[k] = n[k + i]
    BY <2>1, <2>2 DEF Name
  <2>4. \A k \in 1..(Len(n) - i) : k + i \in 1..Len(n)
    BY <2>1, <2>2
  <2>5. Len(s) =< Len(n) /\ Len(s) \in Nat
    BY <2>1, <2>2 DEF Name
  <2>6. Len(n) =< MaxLabels /\ MaxLabels \in Nat
    BY LabelAssumption DEF Packable
  <2> QED
    BY <2>2, <2>3, <2>4, <2>5, <2>6 DEF Packable
<1> QED
  BY <1>1

\* What is left of a name of several labels without the first.
LEMMA SuffixLabels ==
    ASSUME NEW n \in Name, Len(n) > 1
    PROVE  /\ Suffix(n, 1) \in Name /\ Suffix(n, 1) # <<>>
           /\ Len(Suffix(n, 1)) = Len(n) - 1
           /\ \A k \in 1..(Len(n) - 1) : Suffix(n, 1)[k] = n[k + 1]
<1>1. Len(n) \in Nat /\ Suffix(n, 1) = SubSeq(n, 2, Len(n))
  BY DEF Suffix, Name
<1>2. SubSeq(n, 2, Len(n)) \in Name /\ Len(SubSeq(n, 2, Len(n))) = Len(n) - 1
  BY <1>1 DEF Name
<1>3. \A k \in 1..(Len(n) - 1) : SubSeq(n, 2, Len(n))[k] = n[k + 1]
  BY <1>1 DEF Name
<1>4. SubSeq(n, 2, Len(n)) # <<>>
  <2>1. Len(SubSeq(n, 2, Len(n))) # 0
    BY <1>1, <1>2
  <2>2. Len(<<>>) = 0
    OBVIOUS
  <2> HIDE DEF Suffix
  <2> QED
    BY <2>1, <2>2, Zenon
<1> QED
  BY <1>1, <1>2, <1>3, <1>4, Zenon

\* normalizeDomain refuses no name that can be asked for, except the root.
LEMMA PackableNormalizes ==
    ASSUME NEW n \in Name, Packable(n), n # <<>>
    PROVE  Normalizes(n)
<1>1. Len(n) \in 1..Len(n) /\ DOMAIN n = 1..Len(n)
  BY DEF Name
<1>2. n[Len(n)] # NoLabel
  BY <1>1 DEF Packable
<1>3. WithoutDot(n) = n
  BY <1>2 DEF WithoutDot
<1>4. n # <<NoLabel>>
  BY <1>2
<1> QED
  BY <1>3, <1>4 DEF Normalizes, IsDomainName

\* normalizeDomain and the lookup together: what addToken stores for a token
\* matches the names the token covers.
LEMMA StoredCovers ==
    ASSUME NEW token \in Token, NEW n \in Name, Packable(n), NEW sub \in BOOLEAN
    PROVE  Covers(token, n, sub) <=>
              /\ Accepted(token) /\ n # <<>>
              /\ IF HasStar(token) THEN Below(n, Lower(Suffixed(token)))
                 ELSE n = Lower(Suffixed(token)) \/ (sub /\ Below(n, Lower(Suffixed(token))))
<1> DEFINE lb == token.labels
           l == Lower(token.labels)
<1>1. CASE token \notin Text
  BY <1>1 DEF Covers, Accepted
<1>2. CASE token \in Text /\ lb = <<>>
  BY <1>2 DEF Covers, Accepted, HasStar, Suffixed, Normalizes
<1>3. CASE token \in Text /\ lb # <<>>
  <2>1. /\ lb \in Name /\ token.dot \in BOOLEAN /\ Len(lb) \in Nat /\ Len(lb) >= 1
    BY <1>3 DEF Text, Name
  <2>2. /\ l \in Name /\ Len(l) = Len(lb)
        /\ l[1] = Star <=> lb[1] = Star
        /\ Packable(l) <=> Packable(lb)
    BY <2>1, LowerKeeps
  <2>3. \A s : ~Below(<<>>, s)
    BY DEF Below
  <2>4. l # <<>>
    BY <2>1, <2>2
  <2>5. CASE lb[1] = Star /\ Len(lb) > 1
    <3> DEFINE s == Suffix(lb, 1)
    <3>1. HasStar(token) /\ Suffixed(token) = s
      BY <1>3, <2>5 DEF HasStar, Suffixed
    <3>2. /\ s \in Name /\ s # <<>> /\ Len(s) = Len(lb) - 1
          /\ \A k \in 1..(Len(lb) - 1) : s[k] = lb[k + 1]
      BY <2>1, <2>5, SuffixLabels
    <3>3. Lower(s) = Tail(l)
      <4>1. Lower(s) \in Name /\ Len(Lower(s)) = Len(lb) - 1
        BY <3>2, LowerKeeps
      <4>2. Tail(l) \in Name /\ Len(Tail(l)) = Len(lb) - 1
        BY <2>1, <2>2 DEF Name
      <4>3. ASSUME NEW k \in 1..(Len(lb) - 1) PROVE Lower(s)[k] = Tail(l)[k]
        <5>1. k + 1 \in 1..Len(lb) /\ k \in 1..Len(s)
          BY <2>1, <3>2
        <5>2. Lower(s)[k] = ToLower[s[k]] /\ l[k + 1] = ToLower[lb[k + 1]]
          BY <5>1, <2>1, <3>2, LowerKeeps
        <5>3. Tail(l)[k] = l[k + 1]
          BY <2>1, <2>2, <4>3 DEF Name
        <5> QED
          BY <5>2, <5>3, <3>2
      <4> HIDE DEF s, l
      <4> QED
        BY <4>1, <4>2, <4>3 DEF Name
    <3>4. ASSUME Below(n, Tail(l)) PROVE Packable(s) /\ Packable(lb)
      <4>1. Packable(s)
        BY <3>2, <3>3, <3>4, BelowPackable, LowerKeeps
      <4>2. DOMAIN lb = 1..Len(lb) /\ DOMAIN s = 1..(Len(lb) - 1)
        BY <2>1, <3>2 DEF Name
      <4>3. \A k \in 1..Len(lb) : k = 1 \/ (k - 1 \in 1..(Len(lb) - 1) /\ s[k - 1] = lb[k])
        BY <2>1, <3>2
      <4>4. Star \notin {NoLabel} \cup LongLabel
        BY LabelAssumption
      <4>5. Len(lb) =< MaxLabels
        <5>1. PICK i \in 1..(Len(n) - 1) : SubSeq(n, i + 1, Len(n)) = Tail(l)
          BY <3>4 DEF Below, Suffix
        <5>2. Len(Tail(l)) = Len(n) - i /\ Len(n) \in Nat
          <6>1. Len(n) \in Nat /\ Len(SubSeq(n, i + 1, Len(n))) = Len(n) - i
            BY DEF Name
          <6> HIDE DEF l
          <6> QED
            BY <6>1, <5>1
        <5>3. Len(Tail(l)) = Len(lb) - 1
          BY <2>1, <2>2 DEF Name
        <5>4. Len(n) =< MaxLabels /\ MaxLabels \in Nat
          BY LabelAssumption DEF Packable
        <5> HIDE DEF l
        <5> QED
          BY <5>1, <5>2, <5>3, <5>4, <2>1
      <4> HIDE DEF s
      <4>6. ASSUME NEW k \in 1..Len(lb) PROVE lb[k] \notin {NoLabel} \cup LongLabel
        <5>1. CASE k = 1
          BY <5>1, <4>4, <2>5
        <5>2. CASE k # 1
          BY <5>2, <4>1, <4>2, <4>3, <4>6 DEF Packable
        <5> QED
          BY <5>1, <5>2
      <4> QED
        BY <4>1, <4>2, <4>5, <4>6 DEF Packable
    <3>5. Packable(s) => Normalizes(s)
      BY <3>2, PackableNormalizes
    <3>6. Covers(token, n, sub) <=> Packable(lb) /\ Below(n, Tail(l))
      BY <1>3, <2>2, <2>5 DEF Covers
    <3>7. Accepted(token) <=> Normalizes(s)
      BY <1>3, <3>1 DEF Accepted
    <3> HIDE DEF s, l
    <3> QED
      BY <3>1, <3>3, <3>4, <3>5, <3>6, <3>7, <2>3
  <2>6. CASE lb[1] = Star /\ Len(lb) = 1 /\ token.dot
    <3>1. Suffixed(token) = <<>>
      BY <1>3, <2>1, <2>6 DEF HasStar, Suffixed, Suffix, Name
    <3>2. ~Accepted(token)
      BY <3>1 DEF Accepted, Normalizes
    <3>3. l = <<Star>>
      BY <2>2, <2>6 DEF Name
    <3> QED
      BY <1>3, <2>1, <2>6, <3>2, <3>3 DEF Covers
  <2>7. CASE ~(lb[1] = Star /\ Len(lb) > 1) /\ ~(lb[1] = Star /\ Len(lb) = 1 /\ token.dot)
    <3>1. ~HasStar(token) /\ Suffixed(token) = lb
      <4>1. ASSUME HasStar(token) PROVE FALSE
        <5>1. lb[1] = Star /\ (Len(lb) > 1 \/ token.dot)
          BY <4>1 DEF HasStar
        <5>2. Len(lb) > 1 \/ Len(lb) = 1
          <6>1. Len(lb) \in Nat /\ Len(lb) >= 1
            BY <2>1
          <6>2. \A k \in Nat : k >= 1 => k > 1 \/ k = 1
            OBVIOUS
          <6> QED
            BY <6>1, <6>2, Zenon
        <5> QED
          BY <5>1, <5>2, <2>7
      <4> QED
        BY <4>1 DEF Suffixed
    <3>2. ~(l = <<Star>> /\ token.dot)
      <4>1. ASSUME l = <<Star>> PROVE lb[1] = Star /\ Len(lb) = 1
        BY <4>1, <2>2
      <4> QED
        BY <4>1, <2>7
    <3>3. ~(l[1] = Star /\ Len(l) > 1)
      BY <2>2, <2>7
    <3>4. n = l \/ Below(n, l) => Packable(lb)
      BY <2>2, BelowPackable
    <3>5. Packable(lb) => Normalizes(lb)
      BY <1>3, <2>1, PackableNormalizes
    <3>6. Covers(token, n, sub) <=> Packable(lb) /\ (n = l \/ (sub /\ Below(n, l)))
      BY <1>3, <3>2, <3>3 DEF Covers
    <3>7. Accepted(token) <=> Normalizes(lb)
      BY <1>3, <3>1 DEF Accepted
    <3> HIDE DEF l
    <3> QED
      BY <3>1, <3>4, <3>5, <3>6, <3>7, <2>3, <2>4 DEF l
  <2> QED
    BY <2>1, <2>5, <2>6, <2>7
<1> QED
  BY <1>1, <1>2, <1>3

\* Once a list is parsed, every entry of it has been passed.
LEMMA AllPassed ==
    ASSUME ParserInv, phase = "parsed"
    PROVE  \A e : e \in EntriesPassed <=>
              \E i \in DOMAIN list : \E j \in EntriesOf(i) : e = <<i, j>>
<1>1. /\ line = Len(list) /\ EndOfLine /\ ParserTypeOK /\ list \in Seq(ListLine)
      /\ tok \in Nat
  BY DEF ParserInv, InPlace, ParserTypeOK
<1>2. Len(list) \in Nat /\ DOMAIN list = 1..line
  BY <1>1
<1>3. \A j \in EntriesOf(line) : j < tok
  <2>1. Tokens(line) \in Seq(Token)
    BY <1>1, <1>2, TokensType
  <2> QED
    BY <1>1, <2>1 DEF EntriesOf, EndOfLine
<1>4. \A i \in 1..line : i < line \/ i = line
  BY <1>1, <1>2
<1>5. EntriesPassed = PassedAt(line, tok)
  BY DEF EntriesPassed, PassedAt
<1>6. ASSUME NEW e
      PROVE  e \in EntriesPassed <=> \E i \in DOMAIN list : \E j \in EntriesOf(i) : e = <<i, j>>
  <2>1. e \in EntriesPassed <=>
           \E i \in 1..line : \E j \in EntriesOf(i) : e = <<i, j>> /\ (i < line \/ j < tok)
    BY <1>5, InPassed
  <2> QED
    BY <2>1, <1>2, <1>3, <1>4
<1> QED
  BY <1>6

\* A list means what is written in it, whatever the list: what parseList made
\* of it finds a name exactly if some entry outside of comments covers it.
THEOREM MeaningSafe == ParserSpec => []ListMeaning
<1>1. ParserInv => ListMeaning
  <2> SUFFICES ASSUME ParserInv, phase = "parsed", NEW n \in Lookups, NEW sub \in BOOLEAN
               PROVE  Matches(set, n, sub) <=>
                         \E i \in DOMAIN list : \E j \in EntriesOf(i) :
                            Covers(Tokens(i)[j], Lower(n), sub)
    BY DEF ListMeaning
  <2> DEFINE m == Lower(n)
             stored(e) == Lower(Suffixed(At(e)))
  <2>1. m \in Name /\ Packable(m)
    BY ParserAssumption, LowerKeeps
  <2>2. \A e : e \in EntriesPassed <=>
           \E i \in DOMAIN list : \E j \in EntriesOf(i) : e = <<i, j>>
    BY AllPassed
  <2>3. \A e \in EntriesPassed : At(e) \in Token
    <3>1. SUFFICES ASSUME NEW e \in EntriesPassed PROVE At(e) \in Token
      OBVIOUS
    <3>2. PICK i \in DOMAIN list : \E j \in EntriesOf(i) : e = <<i, j>>
      BY <2>2
    <3>3. PICK j \in EntriesOf(i) : e = <<i, j>>
      BY <3>2
    <3>4. ParserTypeOK /\ i \in 0..Len(list)
      BY <3>2 DEF ParserInv, ParserTypeOK
    <3>5. Tokens(i) \in Seq(Token)
      BY <3>4, TokensType
    <3>6. j \in DOMAIN Tokens(i)
      BY <3>3 DEF EntriesOf
    <3> QED
      BY <3>3, <3>5, <3>6 DEF At
  <2>4. (\E i \in DOMAIN list : \E j \in EntriesOf(i) : Covers(Tokens(i)[j], m, sub))
           <=> \E e \in EntriesPassed : Covers(At(e), m, sub)
    <3>1. \A i, j : At(<<i, j>>) = Tokens(i)[j]
      BY DEF At
    <3> HIDE DEF m
    <3>2. ASSUME NEW i \in DOMAIN list, NEW j \in EntriesOf(i), Covers(Tokens(i)[j], m, sub)
          PROVE  \E e \in EntriesPassed : Covers(At(e), m, sub)
      <4>1. <<i, j>> \in EntriesPassed
        BY <2>2
      <4> QED
        BY <4>1, <3>1, <3>2
    <3>3. ASSUME NEW e \in EntriesPassed, Covers(At(e), m, sub)
          PROVE  \E i \in DOMAIN list : \E j \in EntriesOf(i) : Covers(Tokens(i)[j], m, sub)
      <4>1. PICK i \in DOMAIN list : \E j \in EntriesOf(i) : e = <<i, j>>
        BY <2>2
      <4>2. PICK j \in EntriesOf(i) : e = <<i, j>>
        BY <4>1
      <4>3. Covers(Tokens(i)[j], m, sub)
        BY <3>1, <3>3, <4>2
      <4> QED
        BY <4>3
    <3> QED
      BY <3>2, <3>3
  <2>5. \A e \in EntriesPassed :
           Covers(At(e), m, sub) <=>
              /\ Accepted(At(e)) /\ m # <<>>
              /\ IF HasStar(At(e)) THEN Below(m, stored(e))
                 ELSE m = stored(e) \/ (sub /\ Below(m, stored(e)))
    <3> HIDE DEF m
    <3> QED
      BY <2>1, <2>3, StoredCovers
  <2>6. \A x : /\ x \in set.exact <=>
                     \E e \in EntriesPassed : Accepted(At(e)) /\ ~HasStar(At(e)) /\ x = stored(e)
               /\ x \in set.wildcards <=>
                     \E e \in EntriesPassed : Accepted(At(e)) /\ HasStar(At(e)) /\ x = stored(e)
    BY DEF ParserInv, SetSoFar
  <2>7. /\ MatchesSuffix(m, set.exact) <=>
              \E e \in EntriesPassed : Accepted(At(e)) /\ ~HasStar(At(e)) /\ Below(m, stored(e))
        /\ MatchesSuffix(m, set.wildcards) <=>
              \E e \in EntriesPassed : Accepted(At(e)) /\ HasStar(At(e)) /\ Below(m, stored(e))
    <3> HIDE DEF m, stored
    <3> QED
      BY <2>6 DEF MatchesSuffix, Below
  <2>8. Matches(set, n, sub) <=>
           /\ m # <<>>
           /\ \/ m \in set.exact
              \/ MatchesSuffix(m, set.wildcards)
              \/ sub /\ MatchesSuffix(m, set.exact)
    BY DEF Matches
  <2>9. Matches(set, n, sub) <=> \E e \in EntriesPassed : Covers(At(e), m, sub)
    <3> HIDE DEF m, stored
    <3> QED
      BY <2>5, <2>6, <2>7, <2>8
  <2> QED
    BY <2>4, <2>9
<1> QED
  BY <1>1, ParserInvariant, PTL
=============================================================================
