CONSTANTS
    NumUnits = 2
    NoContent = NoContent
    MaxEdits = 2
    MaxRuns = 3
    MaxSize = 4
    FileNames = {"a", "A", "b"}
    Casefold <- CasefoldA
    MaxDepth = 3
    MaxEntries = 5
    MaxUnits = 2
    MaxChars = 7
    MaxTokens = 6
    Adapters = {"sqlite", "postgres", "oracle"}
    MaxInterrupts = 15
SPECIFICATION PartSpec
INVARIANTS
    ModulesSafety
    CapturedFilesDistinct
    FingerprintIdentifies
    LexerAgrees
    SubmitsTheStatement
    IInv
    RecordedOutcomeStays
    LatchDecidesExit
    ExitZeroIsTrue
    TeardownSendsNoSql
    ReportedOnce
CHECK_DEADLOCK FALSE
