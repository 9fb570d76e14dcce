------------------------------ MODULE SqlFile ------------------------------
(***************************************************************************)
(* normalize (sqltext.py) against what it promises about terminators: a    *)
(* file is written token by token and read at every length.  The promise   *)
(* is stated without the algorithm, by splitting the significant tokens    *)
(* into one statement and what may stand behind it.                        *)
(***************************************************************************)
EXTENDS SqlText

CONSTANTS
    Vocabulary,     \* the tokens a file is written with
    MaxTokens       \* bound: the longest file

\* What the constants are required to be.
ConstantsOK == MaxTokens \in Nat

VARIABLE text

Init == text = <<>>

\* The author writes one more token, comment or line end.
Write(token) ==
    /\ Len(text) < MaxTokens
    /\ text' = Append(text, token)

Next == \E token \in Vocabulary : Write(token)

Spec == Init /\ [][Next]_text

-----------------------------------------------------------------------------
\* The file's significant tokens; the promise cuts them into a statement and
\* its terminators.
Sig == Significant(text)

\* The significant token number n stands alone on its line in the file.
Alone(n) ==
    \E i \in DOMAIN text :
        /\ Len(Significant(SubSeq(text, 1, i))) = n /\ text[i] = Sig[n]
        /\ i = 1 \/ text[i - 1] = NewLine
        /\ i = Len(text) \/ text[i + 1] = NewLine

\* The first n tokens are one SQL statement, the rest a semicolon, a slash
\* alone on its line, both, or nothing.
SqlOf(n) ==
    /\ \A i \in 1 .. n : Sig[i] # Semicolon
    /\ \/ n = Len(Sig)
       \/ n + 1 = Len(Sig) /\ Sig[n + 1] = Semicolon
       \/ n + 1 = Len(Sig) /\ Sig[n + 1] = Slash /\ Alone(n + 1)
       \/ n + 2 = Len(Sig) /\ Sig[n + 1] = Semicolon /\ Sig[n + 2] = Slash /\ Alone(n + 2)

\* The first n tokens are a block that ends with its own semicolon.
BlockOf(n) ==
    /\ n > 0 /\ Sig[n] = Semicolon
    /\ \/ n = Len(Sig)
       \/ n + 1 = Len(Sig) /\ Sig[n + 1] = Slash /\ Alone(n + 1)

\* Words that make a text a block or a stored definition.
IsPlsql ==
    LET words == Words(Sig) IN
    /\ Len(words) > 0
    /\ \/ words[1] \in {Word("BEGIN"), Word("DECLARE")}
       \/ /\ words[1] = Word("CREATE")
          /\ \E i \in 2 .. Len(words) :
                /\ words[i] = Word("PROCEDURE")
                /\ \A j \in 2 .. i - 1 : words[j].text \in {"OR", "REPLACE"}

\* normalize submits exactly one statement: the file's tokens without the one
\* terminator a statement may carry, or a block with its semicolon kept.  It
\* never drops a token of the statement, never lets a second statement through
\* and never strips the semicolon that ends a block.
SubmitsOneStatement ==
    ~NormalizeRefuses(text) =>
        LET n == Len(Significant(Submitted(text))) IN
        /\ Significant(Submitted(text)) = SubSeq(Sig, 1, n)
        /\ IF IsPlsql THEN BlockOf(n) ELSE SqlOf(n)

\* Nothing well formed is refused: a file that is one statement or one block
\* with its terminators, with no slash alone on a line before them, is
\* accepted whole.
AcceptsOneStatement ==
    \A n \in 1 .. Len(Sig) :
        (/\ Len(Words(SubSeq(Sig, 1, n))) > 0
         /\ \A i \in 1 .. n : Sig[i] # Slash
         /\ IF IsPlsql THEN BlockOf(n) ELSE SqlOf(n)) =>
            /\ ~NormalizeRefuses(text)
            /\ Significant(Submitted(text)) = SubSeq(Sig, 1, n)

\* normalize submits the one statement of every file that has one, and of no
\* other file.
SubmitsTheStatement == SubmitsOneStatement /\ AcceptsOneStatement

=============================================================================
