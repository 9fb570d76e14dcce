----------------------------- MODULE MCProcess ------------------------------
(***************************************************************************)
(* What one `migr8 migrate` process does on its own side of the            *)
(* connection, for TLC: the units' directories, their fingerprint, their   *)
(* Python modules, the characters of a SQL file and its tokens, and how    *)
(* the process ends under signals.  A behaviour exercises one part, chosen *)
(* at the start; the others stay in their initial state.                   *)
(***************************************************************************)
EXTENDS UnitModules, UnitPaths, RunOutcome

CONSTANTS MaxSize, MaxChars, MaxTokens

VARIABLES
    part,           \* the part that moves
    published, stored, unit,
    alphabet, text, lexer,
    tokens

encodingVars == <<published, stored, unit>>
lexerVars == <<alphabet, text, lexer>>
partVars == <<part, moduleVars, pathVars, encodingVars, lexerVars, tokens, vars>>

-----------------------------------------------------------------------------
(* The parts and their inputs *)

\* Two names that fold to one, and a third.
CasefoldA == [n \in {"a", "A", "b"} |-> IF n = "A" THEN "a" ELSE n]

\* Units whose paths could be one path cut elsewhere, and whose contents look
\* like the start of a file's entry in the encoding.
Header(path) == <<1, 18>> \o path \o <<1, 19>>
Encoding ==
    INSTANCE Fingerprint WITH
        recorded <- stored,
        Languages <- {<<3>>},
        Modes <- {<<3>>, <<4>>},
        Paths <- {<<3>>, <<4>>, <<3, 4>>},
        Contents <- {<<>>, Header(<<4>>), Header(<<3, 4>>)},
        Declarations <- {<<<<3>>, <<4>>>>, <<<<4>>, <<3>>>>, <<<<3>>, <<3, 4>>>>}

\* Each alphabet holds one dialect's literals and enough other characters to
\* open and close them.
Lexer ==
    INSTANCE SqlTokenize WITH
        Alphabets <- {{"n", "q", "'", "[", "]"},
                      {"a", "$", "'", "q", "s"},
                      {"-", "/", "*", "l", "'"},
                      {"\"", "'", "-", "a", "s"}}

\* The words that make a text procedural, the terminators, and OR, which
\* anywhere but after CREATE is a word like any other.
Sql == INSTANCE SqlText
File ==
    INSTANCE SqlFile WITH
        text <- tokens,
        Vocabulary <- {Sql!Word("BEGIN"), Sql!Word("CREATE"), Sql!Word("OR"),
                       Sql!Word("PROCEDURE"), Sql!Semicolon, Sql!Slash, Sql!NewLine,
                       Sql!Comment}

ASSUME ConstantsAssumption ==
    Encoding!ConstantsOK /\ Lexer!ConstantsOK /\ File!ConstantsOK

-----------------------------------------------------------------------------
\* A part that does not move starts in one fixed state.
PartInit ==
    /\ part \in {"modules", "paths", "encoding", "lexer", "file", "outcome"}
    /\ ModulesInit /\ PathsInit /\ Lexer!Init /\ File!Init /\ Init
    /\ part # "paths" => ~folds
    /\ part # "lexer" => alphabet = {"n", "q", "'", "[", "]"}
    /\ part # "outcome" => adapter = CHOOSE a \in Adapters : TRUE
    /\ \/ part = "encoding" /\ Encoding!Init
       \/ /\ part # "encoding"
          /\ published = CHOOSE u \in Encoding!Inputs : TRUE
          /\ unit = published /\ stored = Encoding!CanonicalBytes(published)

ModulesStep ==
    /\ part = "modules" /\ ModulesNext
    /\ UNCHANGED <<part, pathVars, encodingVars, lexerVars, tokens, vars>>
PathsStep ==
    /\ part = "paths" /\ PathsNext
    /\ UNCHANGED <<part, moduleVars, encodingVars, lexerVars, tokens, vars>>
EncodingStep ==
    /\ part = "encoding" /\ Encoding!Next
    /\ UNCHANGED <<part, moduleVars, pathVars, lexerVars, tokens, vars>>
LexerStep ==
    /\ part = "lexer" /\ Lexer!Next
    /\ UNCHANGED <<part, moduleVars, pathVars, encodingVars, tokens, vars>>
FileStep ==
    /\ part = "file" /\ File!Next
    /\ UNCHANGED <<part, moduleVars, pathVars, encodingVars, lexerVars, vars>>
OutcomeStep ==
    /\ part = "outcome" /\ Next
    /\ UNCHANGED <<part, moduleVars, pathVars, encodingVars, lexerVars, tokens>>

PartNext ==
    ModulesStep \/ PathsStep \/ EncodingStep \/ LexerStep \/ FileStep \/ OutcomeStep

PartSpec == PartInit /\ [][PartNext]_partVars

-----------------------------------------------------------------------------
(* Each is asked where its part moves; elsewhere the part stays in one of the *)
(* states its own behaviours begin with.                                      *)

\* Equal encodings are equal units: no edit goes unnoticed and no order of
\* listing shows (canonical_bytes).
FingerprintIdentifies == part = "encoding" => Encoding!FingerprintIdentifies

\* tokenize agrees with a character-by-character lexer on which text is refused
\* and on what of it is code, literal or comment.
LexerAgrees == part = "lexer" => Lexer!LexerAgrees

\* normalize submits the one statement of every file that has one, and of no
\* other file.
SubmitsTheStatement == part = "file" => File!SubmitsTheStatement
=============================================================================
