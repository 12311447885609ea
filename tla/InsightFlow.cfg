SPECIFICATION Spec
CONSTANTS
    None = None
    DayLength = 24
    Garbled = Garbled
    Synthesize = TRUE
    Now = 60
    Span = 30
    Raises = Raises
    NoLabel = NoLabel
    NotSet = NotSet
    BadNumber = BadNumber
    SummaryChunks = 3
    ChunkWords = 2
    ChunkError = ChunkError
    AnswerRaises = AnswerRaises
    WordLimit = 4
    CoeffShort = 85
    CoeffMedium = 55
    CoeffLong = 35
    ShortMax = 20
    LongMin = 100
    FteRate = 12
    TokenPrice = 1
    Deployments <- MCDeployments
    Uploads <- MCUploads
    Answers <- MCAnswers
    Hints <- MCHints
    NameAnswers <- MCNameAnswers
    Filters <- MCFilters
    MaxRows = 2
    MaxIndex = 0
INVARIANTS
    TypeOK
    FailuresAgree
    FiguresAgree
    TasksAddUp
    ScenariosAgree
    RangesAgree
    ReadyIsRunnable
    NamesUsable
    LongTextKept
CHECK_DEADLOCK FALSE
