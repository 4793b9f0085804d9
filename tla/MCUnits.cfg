\* Each stand-alone module on its own small instance.  Readers, the cipher, the
\* session, the subscription and a finished handshake really stop.
SPECIFICATION UnitsSpec
CONSTANTS
    \* Three tasks that resolve, two of which release too, on a pool of two.
    Managers = {m1}
    Callers = {t1, t2, t3}
    Releasers = {t1, t2}
    Domains = {d1, d2}
    NoDomain = NoDomain
    PoolSize = 2
    \* A flight of four messages, cut and packed in every way.
    Flight <- MCFlight
    MayCut = TRUE
    MaxExtra = 2
    \* Buffers up to 64 bytes whose length fields may lie.
    MaxLen = 64
    MaxField = 66
    MaxLabel = 9
    Word = 4
    MinHeader = 20
    Share = 8
    \* Nonces of three bits: they carry through every byte.
    Base = 2
    NonceBytes = 3
    MaxPayload = 1
    Sizes = {1, 2}
    MaxChunks = 3
    \* Every kind of profile and of target.
    Targets <- MCTargets
    TooLong <- MCTooLong
    NoTarget = NoTarget
    MaxData = 2
    \* Two calls of add_subscription, three texts in all, one of them bad.
    Texts = {"two", "one", "bad"}
    Servers = {"s1", "s2"}
    Parsed <- MCParsed
    Adders = {a1, a2}
    Users = {u1}
    NoServer = "none"
    MaxAdded = 3
    \* Links up to seven tokens, documents and pages of three entries.
    Links <- MCLinks
    Documents <- MCDocuments
    Pages <- MCPages
INVARIANTS
    UnitsTypeOK
    BoundOnce
    TablesAgree
    ServerFollows
    ReadsInBounds
    LoopsMoveOn
    NameInItsExtension
    NonceFresh
    OnlyEarlyOpenBreaks
    ServedAsAsked
    StartBringsBack
    SelectionMeansIt
    ParsedAsWritten
PROPERTIES
    FailsForCause
    UnitsEnd
CHECK_DEADLOCK FALSE
