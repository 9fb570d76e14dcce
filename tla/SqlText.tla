------------------------------ MODULE SqlText ------------------------------
(***************************************************************************)
(* What sqltext.py reads out of one statement once tokenize has split it:  *)
(* normalize with its terminators, classify, the verbs of a WITH statement *)
(* and the names it mentions.  Pure operators over sequences of tokens.    *)
(*                                                                         *)
(* A text is a sequence of tokens and line ends; blanks never matter.  A   *)
(* word stands upper-cased, a string or a quoted identifier without its    *)
(* quotes; a DO body is a string whose text is the one name it mentions.   *)
(***************************************************************************)
EXTENDS Integers, Sequences, FiniteSets

LOCAL INSTANCE SequencesExt
LOCAL INSTANCE FiniteSetsExt

Word(w) == [kind |-> "word", text |-> w]
Punct(p) == [kind |-> "punct", text |-> p]
Str(v) == [kind |-> "string", text |-> v]
Quoted(n) == [kind |-> "quoted", text |-> n]
Comment == [kind |-> "comment", text |-> ""]
NewLine == [kind |-> "newline", text |-> ""]

Semicolon == Punct(";")
Slash == Punct("/")

IsSignificant(t) == t.kind \notin {"comment", "newline"}

\* significant_tokens: comments and line ends removed.
Significant(text) == SelectSeq(text, IsSignificant)

LastSignificant(text) == Max({0} \cup {i \in DOMAIN text : IsSignificant(text[i])})

Words(sig) == LET IsWord(t) == t.kind = "word" IN SelectSeq(sig, IsWord)

-----------------------------------------------------------------------------
(***************************************************************************)
(* classify and normalize                                                  *)
(***************************************************************************)

PlsqlDefinitionObjects == {"PROCEDURE", "FUNCTION", "PACKAGE", "TRIGGER", "TYPE"}
CreateModifiers == {"OR", "REPLACE", "EDITIONABLE", "NONEDITIONABLE", "EDITIONING"}

\* Mutated form: the modifiers of CREATE are not skipped.
Classify_NoModifiers(text) ==
    LET words == Words(Significant(text)) IN
    CASE Len(words) = 0 -> "none"
      [] Len(words) > 0 /\ words[1].text \in {"DECLARE", "BEGIN"} -> "PLSQL_BLOCK"
      [] Len(words) > 1 /\ words[1].text = "CREATE"
             /\ words[2].text \in PlsqlDefinitionObjects -> "PLSQL_DEFINITION"
      [] OTHER -> "SQL"

\* classify; "none" is its SqlSyntaxError.  Only words count: a parenthesis or
\* a quoted name before the first one is skipped.
Classify(text) ==
    LET words == Words(Significant(text))
        object == Min({Len(words) + 1} \cup
                      {i \in 2 .. Len(words) : words[i].text \notin CreateModifiers})
    IN CASE Len(words) = 0 -> "none"
         [] Len(words) > 0 /\ words[1].text \in {"DECLARE", "BEGIN"} -> "PLSQL_BLOCK"
         [] /\ Len(words) > 0 /\ words[1].text = "CREATE"
            /\ object <= Len(words)
            /\ words[object].text \in PlsqlDefinitionObjects -> "PLSQL_DEFINITION"
         [] OTHER -> "SQL"

\* _standalone_slash: nothing else on its line, comments included.
StandaloneSlash(text, i) ==
    /\ text[i] = Slash
    /\ i = 1 \/ text[i - 1] = NewLine
    /\ i = Len(text) \/ text[i + 1] = NewLine

OnlyTerminator(text) ==
    LET sig == Significant(text) IN Len(sig) = 0 \/ sig \in {<<Semicolon>>, <<Slash>>}

\* Mutated form: the end-of-file slash is taken off only where no comment
\* follows it.
WithoutSlash_AtEnd(text) ==
    IF Len(text) > 0 /\ StandaloneSlash(text, Len(text))
    THEN RemoveAt(text, Len(text)) ELSE text

\* The end-of-file slash is removed.
WithoutSlash(text) ==
    LET last == LastSignificant(text) IN
    IF last > 0 /\ StandaloneSlash(text, last) THEN RemoveAt(text, last) ELSE text

\* One trailing semicolon is removed from a statement that is not PL/SQL.
WithoutSemicolon(text) ==
    LET last == LastSignificant(text) IN
    IF last > 0 /\ text[last] = Semicolon THEN RemoveAt(text, last) ELSE text

\* SQLPLUS_COMMANDS, as far as a policy names them, and _is_also_valid_sql.
SqlPlusCommands == {"COPY", "SET", "EXIT"}
AlsoValidSql(words) ==
    /\ words[1].text = "SET"
    /\ Len(words) > 1 /\ words[2].text \in {"ROLE", "CONSTRAINT", "CONSTRAINTS", "TRANSACTION"}

\* What normalize sends: the text without its terminators.
Submitted(text) ==
    LET bare == WithoutSlash(text) IN
    IF Classify(bare) = "SQL" THEN WithoutSemicolon(bare) ELSE bare

\* normalize raises SqlSyntaxError.
NormalizeRefuses(text) ==
    LET bare == WithoutSlash(text)
        kind == Classify(bare)
        sent == Submitted(text)
        sig == Significant(sent)
        words == Words(sig)
    IN \/ OnlyTerminator(text)
       \/ OnlyTerminator(bare)
       \/ kind = "none"
       \/ kind = "SQL" /\ Semicolon \in ToSet(sig)
       \/ kind # "SQL" /\ Last(sig) # Semicolon
       \/ \E i \in DOMAIN sent : StandaloneSlash(sent, i)
       \/ kind = "SQL" /\ words[1].text \in SqlPlusCommands /\ ~AlsoValidSql(words)

-----------------------------------------------------------------------------
(***************************************************************************)
(* The verbs of a WITH statement                                           *)
(***************************************************************************)

CteMainVerbs == {"SELECT", "VALUES", "INSERT", "REPLACE", "UPDATE", "DELETE", "MERGE"}
CteBodyDmlVerbs == {"INSERT", "UPDATE", "DELETE", "MERGE"}

\* Open parentheses before position i, counted from position first.
Depth(sig, first, i) ==
    Cardinality({j \in first .. i - 1 : sig[j] = Punct("(")})
        - Cardinality({j \in first .. i - 1 : sig[j] = Punct(")")})

\* _cte_main_verb: counting starts after the first token, whatever it is.
CteMainVerb(sig) ==
    LET found == {i \in 2 .. Len(sig) : /\ sig[i].kind = "word"
                                        /\ sig[i].text \in CteMainVerbs
                                        /\ Depth(sig, 2, i) = 0}
    IN IF found = {} THEN "" ELSE sig[Min(found)].text

\* _follows_as.
FollowsAs(sig, i) ==
    LET Ends(ws) == /\ i > Len(ws)
                    /\ \A k \in DOMAIN ws : sig[i - Len(ws) + k - 1] = Word(ws[k])
    IN \/ Ends(<<"AS">>)
       \/ Ends(<<"AS", "MATERIALIZED">>)
       \/ Ends(<<"AS", "NOT", "MATERIALIZED">>)

\* Mutated form: a body opens only right after AS.
CteBodyVerbs_PlainAs(sig) ==
    {sig[i + 1].text : i \in {j \in 2 .. Len(sig) - 1 :
        /\ sig[j] = Punct("(") /\ Depth(sig, 1, j) = 0 /\ sig[j - 1] = Word("AS")
        /\ sig[j + 1].kind = "word" /\ sig[j + 1].text \in CteBodyDmlVerbs}}

\* _cte_body_verbs.
CteBodyVerbs(sig) ==
    {sig[i + 1].text : i \in {j \in 1 .. Len(sig) - 1 :
        /\ sig[j] = Punct("(") /\ Depth(sig, 1, j) = 0 /\ FollowsAs(sig, j)
        /\ sig[j + 1].kind = "word" /\ sig[j + 1].text \in CteBodyDmlVerbs}}

-----------------------------------------------------------------------------
(***************************************************************************)
(* Names                                                                   *)
(***************************************************************************)

IdentifierPositionWords ==
    {"FROM", "INTO", "UPDATE", "JOIN", "TABLE", "VIEW", "INDEX", "TRIGGER", "EXISTS", "ON",
     "TO", "REFERENCES", "REPLACE", "ROLLBACK", "ABORT", "FAIL", "IGNORE"}

\* Mutated form: only FROM introduces a name.
StringNames_From(sig) ==
    {sig[i].text : i \in {j \in 2 .. Len(sig) : sig[j].kind = "string"
                                                /\ sig[j - 1] = Word("FROM")}}

\* _strings_in_identifier_position.
StringNames(sig) ==
    {sig[i].text : i \in {j \in 2 .. Len(sig) :
        /\ sig[j].kind = "string"
        /\ \/ sig[j - 1].kind = "word" /\ sig[j - 1].text \in IdentifierPositionWords
           \/ sig[j - 1] = Punct(".")}}

\* _identifier_words and, for DO, _do_body_names.
Names(sig) ==
    LET words == Words(sig)
        Of(kinds) == {sig[i].text : i \in {j \in DOMAIN sig : sig[j].kind \in kinds}}
    IN Of({"word", "quoted"})
           \cup (IF Len(words) > 0 /\ words[1].text = "DO" THEN Of({"string"}) ELSE {})

\* The Statement that normalize returns for an admitted text.
Normalize(text) ==
    LET sig == Significant(Submitted(text))
        words == Words(sig)
        isWith == words[1].text = "WITH"
    IN [kind |-> Classify(WithoutSlash(text)),
        lead |-> [i \in 1 .. Min({4, Len(words)}) |-> words[i].text],
        words |-> {words[i].text : i \in DOMAIN words},
        names |-> Names(sig),
        string_names |-> StringNames(sig),
        cte_verb |-> IF isWith THEN CteMainVerb(sig) ELSE "",
        cte_body_verbs |-> IF isWith THEN CteBodyVerbs(sig) ELSE {}]
=============================================================================
