----------------------------- MODULE ListParser -----------------------------
(***************************************************************************)
(* pkg/filtering/parser.go: how the text of a blocklist or of the          *)
(* allowlist becomes a DomainSet.  One action per turn of the two loops,   *)
(* over lines and over the tokens of a line.                               *)
(*                                                                         *)
(* A line is the sequence of its tokens (strings.Fields; none for a blank  *)
(* line) and whether it fits the 64 KiB buffer of bufio.Scanner.  A token  *)
(* is a name as somebody wrote it, or one of three things that are none.   *)
(***************************************************************************)
EXTENDS DomainSet, Integers

CONSTANTS
    Comment,     \* a token that starts with "#", "//" or ";"
    IpLiteral,   \* a token that net.ParseIP accepts
    Garbage,     \* a token with "/" or ":" in it
    Lists,       \* the lists that may be read
    Lookups,     \* the names that are looked up in the result
    Limits       \* the values of logging.blocklist_error_limit

Token == {Comment, IpLiteral, Garbage} \cup Text

ASSUME ParserAssumption ==
    /\ Lists \subseteq Seq([tokens : Seq(Token), fits : BOOLEAN])
    /\ Cardinality({Comment, IpLiteral, Garbage}) = 3
    /\ {Comment, IpLiteral, Garbage} \cap Text = {}
    /\ Lookups \subseteq Name
    /\ \A n \in Lookups : Packable(n)   \* they come in questions
    /\ Limits \subseteq Nat             \* validateConfig refuses negative ones

VARIABLES
    list, limit,    \* what is being parsed, and opts.ErrorLimit
    phase,          \* "scan", then "parsed" or "failed" when parseList returns
    line, tok,      \* the line and the token the loops are at
    set,            \* the DomainSet under construction
    stats,          \* stats.Domains and stats.Invalid
    count,          \* limiter.count
    logged,         \* history: how many entries limiter.log wrote to the log
    warned          \* did limiter.summary write to it?

parserVars == <<list, limit, phase, line, tok, set, stats, count, logged, warned>>

ParserInit ==
    /\ list \in Lists /\ limit \in Limits
    /\ phase = "scan" /\ line = 0 /\ tok = 1
    /\ set = NewDomainSet
    /\ stats = [domains |-> 0, invalid |-> 0]
    /\ count = 0 /\ logged = 0 /\ warned = FALSE

Tokens(i) == IF i = 0 THEN <<>> ELSE list[i].tokens

EndOfLine == tok > Len(Tokens(line))

-----------------------------------------------------------------------------
(* addToken *)

WithoutDot(n) ==
    IF n # <<>> /\ n[Len(n)] = NoLabel THEN SubSeq(n, 1, Len(n) - 1) ELSE n

\* dns.IsDomainName: "." is one, and else what can be packed once a final dot
\* is taken away.
IsDomainName(n) == n = <<NoLabel, NoLabel>> \/ Packable(WithoutDot(n))

\* normalizeDomain, which has taken a final dot away, returns no error.
Normalizes(n) == n \notin {<<>>, <<NoLabel>>} /\ IsDomainName(n)

HasStar(t) ==
    /\ t.labels # <<>> /\ t.labels[1] = Star
    /\ Len(t.labels) > 1 \/ t.dot

\* What addToken puts in the set: a wildcard if the token starts with "*.".
Suffixed(t) == IF HasStar(t) THEN Suffix(t.labels, 1) ELSE t.labels

Accepted(token) == token \in Text /\ Normalizes(Suffixed(token))

\* Mutant of AddToSet: a wildcard is stored like a name.
AddToSetExact(t) ==
    set' = [set EXCEPT !.exact = @ \cup {Lower(Suffixed(t))}]

AddToSet(t) ==
    set' = IF HasStar(t)
           THEN [set EXCEPT !.wildcards = @ \cup {Lower(Suffixed(t))}]
           ELSE [set EXCEPT !.exact = @ \cup {Lower(Suffixed(t))}]

-----------------------------------------------------------------------------
(* errorLimiter *)

\* Mutant of LogInvalid: the limit is compared after the count went up.
LogInvalidOneLess ==
    /\ count' = IF limit = 0 THEN count ELSE count + 1
    /\ logged' = IF limit = 0 \/ count + 1 >= limit THEN logged ELSE logged + 1

LogInvalid ==
    /\ count' = IF limit = 0 THEN count ELSE count + 1
    /\ logged' = IF limit = 0 \/ count >= limit THEN logged ELSE logged + 1

-----------------------------------------------------------------------------
(* parseList and addTokens *)

\* scanner.Scan() yields a line; blank lines and comments are skipped, and an
\* address at the start of the line (hosts format) is no entry.
NextLine ==
    /\ phase = "scan" /\ EndOfLine
    /\ line < Len(list) /\ list[line + 1].fits
    /\ line' = line + 1
    /\ tok' = IF Tokens(line + 1) # <<>> /\ Head(Tokens(line + 1)) = IpLiteral THEN 2 ELSE 1
    /\ UNCHANGED <<list, limit, phase, set, stats, count, logged, warned>>

AddToken ==
    /\ phase = "scan" /\ ~EndOfLine
    /\ LET token == Tokens(line)[tok]
       IN  \/ /\ token = Comment
              /\ tok' = Len(Tokens(line)) + 1
              /\ UNCHANGED <<set, stats, count, logged>>
           \/ /\ Accepted(token)
              /\ AddToSet(token)
              /\ stats' = [stats EXCEPT !.domains = @ + 1]
              /\ tok' = tok + 1
              /\ UNCHANGED <<count, logged>>
           \/ /\ token # Comment /\ ~Accepted(token)
              /\ stats' = [stats EXCEPT !.invalid = @ + 1]
              /\ LogInvalid
              /\ tok' = tok + 1
              /\ UNCHANGED set
    /\ UNCHANGED <<list, limit, phase, line, warned>>

\* The scan stops at an overlong line: parseList returns an error and no set.
ScanFails ==
    /\ phase = "scan" /\ EndOfLine
    /\ line < Len(list) /\ ~list[line + 1].fits
    /\ phase' = "failed"
    /\ UNCHANGED <<list, limit, line, tok, set, stats, count, logged, warned>>

Finish ==
    /\ phase = "scan" /\ EndOfLine /\ line = Len(list)
    /\ phase' = "parsed"
    /\ warned' = (limit > 0 /\ stats.invalid > limit)
    /\ UNCHANGED <<list, limit, line, tok, set, stats, count, logged>>

ParserNext == NextLine \/ AddToken \/ ScanFails \/ Finish

ParserSpec == ParserInit /\ [][ParserNext]_parserVars

-----------------------------------------------------------------------------
(***************************************************************************)
(* What a list means, without reference to how it is parsed.               *)
(***************************************************************************)

\* The tokens before any comment on their line, without a leading address.
EntriesOf(i) ==
    {j \in DOMAIN Tokens(i) :
        /\ \A k \in 1..j : Tokens(i)[k] # Comment
        /\ j = 1 => Tokens(i)[1] # IpLiteral}

\* n is below the name or wildcard suffix s.
Below(n, s) == \E i \in 1..(Len(n) - 1) : Suffix(n, i) = s

\* The names a written entry stands for, with and without their subdomains.
Covers(token, n, sub) ==
    /\ token \in Text
    /\ token.labels # <<>> /\ Packable(token.labels)
    /\ LET l == Lower(token.labels)
       IN  IF l[1] = Star /\ Len(l) > 1
           THEN Below(n, Tail(l))
           ELSE ~(l = <<Star>> /\ token.dot) /\ (n = l \/ (sub /\ Below(n, l)))

\* A list means what is written in it: once it is parsed, a lookup finds a
\* name if and only if some entry outside of comments covers it, whatever
\* invalid entries, hosts-format addresses, spellings and final dots are
\* around it.
ListMeaning ==
    phase = "parsed" => \A n \in Lookups, sub \in BOOLEAN :
        Matches(set, n, sub) <=>
            \E i \in DOMAIN list : \E j \in EntriesOf(i) : Covers(Tokens(i)[j], Lower(n), sub)

EntriesPassed ==
    UNION {{i} \X {j \in EntriesOf(i) : i < line \/ j < tok} : i \in 1..line}

\* Nothing is dropped without a trace: every entry the loops have passed is
\* counted as a domain or as invalid, no more than the limit is logged, and
\* unless the limit is 0 the log of a parsed list either names every invalid
\* entry or ends in the summary.
EveryEntryAccounted ==
    /\ stats.domains + stats.invalid = Cardinality(EntriesPassed)
    /\ logged <= limit
    /\ phase = "parsed" /\ limit > 0 => (warned <=> logged < stats.invalid)
=============================================================================
