---------------------------- MODULE SqlTokenize ----------------------------
(***************************************************************************)
(* tokenize (sqltext.py), which looks for the end of a literal or comment  *)
(* by searching ahead, against a lexer that reads one character at a time  *)
(* and never looks ahead, as the databases' own do.  A text is written     *)
(* character by character; the two must agree on every text, because       *)
(* everything else the scanner says rests on where literals and comments   *)
(* end.  Numbers are left out: no decision depends on them.                *)
(***************************************************************************)
EXTENDS Integers, Sequences, FiniteSets

LOCAL INSTANCE SequencesExt
LOCAL INSTANCE FiniteSetsExt

CONSTANTS
    Alphabets,      \* sets of characters; a text is written with one of them
    MaxChars        \* bound: the longest text

\* What the constants are required to be.
ConstantsOK == MaxChars \in Nat

\* "n" and "q" prefix strings; "a" stands for every other letter, "l" for a
\* line end and "s" for a blank; characters of no other role are punctuation.
Blanks == {"l", "s"}
Letters == {"a", "n", "q"}
IdentChars == Letters \cup {"$"}
Closer(c) == IF c = "[" THEN "]" ELSE c

-----------------------------------------------------------------------------
(***************************************************************************)
(* tokenize                                                                *)
(***************************************************************************)

\* str.find: the first position from i on where pattern starts, or 0.
Find(s, pattern, i) ==
    LET at == {k \in i .. Len(s) - Len(pattern) + 1 :
                  SubSeq(s, k, k + Len(pattern) - 1) = pattern}
    IN IF at = {} THEN 0 ELSE Min(at)

StartsWith(s, pattern, i) ==
    i + Len(pattern) - 1 <= Len(s) /\ SubSeq(s, i, i + Len(pattern) - 1) = pattern

\* The scanners return the position behind the token; 0 is SqlSyntaxError.
Behind(s, pattern, i) ==
    LET at == Find(s, pattern, i) IN IF at = 0 THEN 0 ELSE at + Len(pattern)

\* _scan_plain_string: i is behind the opening quote.
ScanPlainString(s, i) ==
    LET end[k \in i .. Len(s) + 2] ==
            IF k > Len(s) THEN 0
            ELSE IF s[k] # "'" THEN end[k + 1]
            ELSE IF k < Len(s) /\ s[k + 1] = "'" THEN end[k + 2]
            ELSE k + 1
    IN end[i]

\* Mutated form: the search for the terminator starts at the delimiter.
ScanAltQuoted_Early(s, i) ==
    IF i > Len(s) \/ s[i] \in Blanks THEN 0
    ELSE Behind(s, <<Closer(s[i]), "'">>, i)

\* _scan_alt_quoted: i is the delimiter's position.
ScanAltQuoted(s, i) ==
    IF i > Len(s) \/ s[i] \in Blanks THEN 0
    ELSE Behind(s, <<Closer(s[i]), "'">>, i + 1)

\* _DOLLAR_TAG_RE: the end of an opening tag at i, or 0 when there is none.
DollarTagEnd(s, i) ==
    LET ends == {k \in i + 1 .. Len(s) :
                    s[k] = "$" /\ \A j \in i + 1 .. k - 1 : s[j] \in Letters}
    IN IF ends = {} THEN 0 ELSE Min(ends)

\* _try_scan_dollar_quoted.
ScanDollarQuoted(s, i) ==
    LET tag == SubSeq(s, i, DollarTagEnd(s, i)) IN Behind(s, tag, DollarTagEnd(s, i) + 1)

\* The run of identifier characters that starts at i.
WordEnd(s, i) ==
    Min({Len(s) + 1} \cup {k \in i + 1 .. Len(s) : s[k] \notin IdentChars})

Token(kind, from, end) == [kind |-> kind, from |-> from, end |-> end]

\* The token that starts at i; its end is 0 where tokenize raises.
TokenAt(s, i) ==
    CASE StartsWith(s, <<"-", "-">>, i) ->
            LET l == Find(s, <<"l">>, i) IN
            Token("comment", i, IF l = 0 THEN Len(s) + 1 ELSE l)
      [] StartsWith(s, <<"/", "*">>, i) -> Token("comment", i, Behind(s, <<"*", "/">>, i + 2))
      [] s[i] = "\"" -> Token("quoted", i, Behind(s, <<"\"">>, i + 1))
      [] s[i] = "'" -> Token("string", i, ScanPlainString(s, i + 1))
      [] s[i] = "$" /\ DollarTagEnd(s, i) # 0 -> Token("string", i, ScanDollarQuoted(s, i))
      [] StartsWith(s, <<"n", "q", "'">>, i) -> Token("string", i, ScanAltQuoted(s, i + 3))
      [] StartsWith(s, <<"q", "'">>, i) -> Token("string", i, ScanAltQuoted(s, i + 2))
      [] StartsWith(s, <<"n", "'">>, i) -> Token("string", i, ScanPlainString(s, i + 2))
      [] OTHER ->
            IF s[i] \in IdentChars THEN Token("word", i, WordEnd(s, i))
            ELSE Token("punct", i, i + 1)

Error == Token("error", 0, 0)

\* tokenize: the tokens in order, the last one Error where it raises.
Tokenize(s) ==
    LET from[i \in 1 .. Len(s) + 1] ==
            IF i > Len(s) THEN <<>>
            ELSE IF s[i] \in Blanks THEN from[i + 1]
            ELSE LET t == TokenAt(s, i) IN
                 IF t.end = 0 THEN <<Error>> ELSE <<t>> \o from[t.end]
    IN from[1]

-----------------------------------------------------------------------------
(***************************************************************************)
(* The reference: a lexer without lookahead                                *)
(***************************************************************************)

\* mode is what the lexer is in the middle of; delim the delimiter or the tag
\* that ends a literal, seen what it has read of one; kinds labels the
\* characters read so far.
Fresh == [mode |-> "code", delim |-> <<>>, seen |-> <<>>, kinds |-> <<>>]

\* One more character of the given kind; the last back labels become that too.
Label(lex, kind, back) ==
    Append([i \in DOMAIN lex.kinds |->
               IF i > Len(lex.kinds) - back THEN kind ELSE lex.kinds[i]], kind)

Into(lex, mode, kind, back) ==
    [lex EXCEPT !.mode = mode, !.kinds = Label(lex, kind, back)]

\* A character that starts something new.
Begin(lex, c) ==
    CASE c \in Blanks -> Into(lex, "code", "blank", 0)
      [] c = "-"      -> Into(lex, "dash", "punct", 0)
      [] c = "/"      -> Into(lex, "slash", "punct", 0)
      [] c = "\""     -> Into(lex, "quoted", "quoted", 0)
      [] c = "'"      -> Into(lex, "string", "string", 0)
      [] c = "$"      -> [Into(lex, "tag", "word", 0) EXCEPT !.delim = <<"$">>]
      [] c \in {"n", "q"} -> Into(lex, c, "word", 0)
      [] c = "a"      -> Into(lex, "word", "word", 0)
      [] OTHER        -> Into(lex, "code", "punct", 0)

\* The lexer is inside a word that could still turn out to be a prefix.
Prefix(lex, c) ==
    CASE lex.mode = "n" /\ c = "'" -> Into(lex, "string", "string", 1)
      [] lex.mode = "q" /\ c = "'" -> Into(lex, "delimiter", "string", 1)
      [] lex.mode = "nq" /\ c = "'" -> Into(lex, "delimiter", "string", 2)
      [] lex.mode = "n" /\ c = "q" -> Into(lex, "nq", "word", 0)
      [] c \in IdentChars /\ ~(lex.mode = "n" /\ c = "q") -> Into(lex, "word", "word", 0)
      [] OTHER -> Begin(lex, c)

\* "$" and letters: a tag when another "$" follows, a word otherwise.
Tag(lex, c) ==
    CASE c = "$" ->
            [Into(lex, "dollar", "string", Len(lex.delim)) EXCEPT
                !.delim = Append(@, "$"), !.seen = <<>>]
      [] c \in Letters -> [Into(lex, "tag", "word", 0) EXCEPT !.delim = Append(@, c)]
      [] OTHER -> Begin(lex, c)

Dollar(lex, c) ==
    LET seen == Append(lex.seen, c) IN
    [Into(lex, IF IsSuffix(lex.delim, seen) THEN "code" ELSE "dollar", "string", 0)
        EXCEPT !.seen = seen]

\* One character is read.
Step(lex, c) ==
    CASE lex.mode = "code" -> Begin(lex, c)
      [] lex.mode \in {"n", "q", "nq"} -> Prefix(lex, c)
      [] lex.mode = "tag" -> Tag(lex, c)
      [] lex.mode = "word" ->
            IF c \in IdentChars THEN Into(lex, "word", "word", 0) ELSE Begin(lex, c)
      [] lex.mode = "dash" ->
            IF c = "-" THEN Into(lex, "line", "comment", 1) ELSE Begin(lex, c)
      [] lex.mode = "slash" ->
            IF c = "*" THEN Into(lex, "block", "comment", 1) ELSE Begin(lex, c)
      [] lex.mode = "line" ->
            IF c = "l" THEN Begin(lex, c) ELSE Into(lex, "line", "comment", 0)
      [] lex.mode = "block" -> Into(lex, IF c = "*" THEN "star" ELSE "block", "comment", 0)
      [] lex.mode = "star" ->
            Into(lex, IF c = "/" THEN "code" ELSE IF c = "*" THEN "star" ELSE "block",
                 "comment", 0)
      [] lex.mode = "quoted" -> Into(lex, IF c = "\"" THEN "code" ELSE "quoted", "quoted", 0)
      [] lex.mode = "string" -> Into(lex, IF c = "'" THEN "quote" ELSE "string", "string", 0)
      [] lex.mode = "quote" ->
            IF c = "'" THEN Into(lex, "string", "string", 0) ELSE Begin(lex, c)
      [] lex.mode = "delimiter" ->
            IF c \in Blanks THEN Into(lex, "error", "string", 0)
            ELSE [Into(lex, "alt", "string", 0) EXCEPT !.delim = <<Closer(c)>>]
      [] lex.mode = "alt" ->
            Into(lex, IF <<c>> = lex.delim THEN "closing" ELSE "alt", "string", 0)
      [] lex.mode = "closing" ->
            Into(lex, IF c = "'" THEN "code" ELSE IF <<c>> = lex.delim THEN "closing" ELSE "alt",
                 "string", 0)
      [] lex.mode = "dollar" -> Dollar(lex, c)
      [] lex.mode = "error" -> lex

\* Inside a literal or block comment, or past a delimiter nobody supports.
Unfinished(lex) ==
    lex.mode \in {"block", "star", "quoted", "string", "delimiter", "alt", "closing",
                  "dollar", "error"}

-----------------------------------------------------------------------------
VARIABLES
    alphabet,   \* the characters this text is written with
    text,       \* the text so far
    lexer       \* the reference lexer after reading it

vars == <<alphabet, text, lexer>>

Init ==
    /\ alphabet \in Alphabets
    /\ text = <<>>
    /\ lexer = Fresh

Write(c) ==
    /\ Len(text) < MaxChars
    /\ text' = Append(text, c)
    /\ lexer' = Step(lexer, c)
    /\ UNCHANGED alphabet

Next == \E c \in alphabet : Write(c)

Spec == Init /\ [][Next]_vars

-----------------------------------------------------------------------------
\* The kind of every character according to the tokens.
KindsOf(tokens) ==
    [i \in DOMAIN text |->
        LET covering == {k \in DOMAIN tokens : tokens[k].from <= i /\ i < tokens[k].end}
        IN IF covering = {} THEN "blank"
           ELSE tokens[CHOOSE k \in covering : TRUE].kind]

\* tokenize and the lexer agree: a text is refused exactly when a literal, a
\* quoted name or a block comment does not end, and otherwise every character
\* is code, blank, literal or comment to both.  No semicolon, name or verb is
\* found inside a literal and none is lost in one.
LexerAgrees ==
    LET tokens == Tokenize(text) IN
    IF tokens # <<>> /\ Last(tokens) = Error THEN Unfinished(lexer)
    ELSE ~Unfinished(lexer) /\ KindsOf(tokens) = lexer.kinds
=============================================================================
