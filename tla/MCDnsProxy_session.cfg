\* One session: refinement of FakeNames, and answers come true.
SPECIFICATION DnsFairSpec
CONSTANTS
    Managers <- MCManagers
    Callers = {h1, h2}
    Releasers = {}
    Domains = {d1, d2}
    NoDomain = NoDomain
    PoolSize = 2
    MaxSessions = 1
INVARIANTS
    AnswersLeadBack
    OneDomainPerIp
PROPERTIES
    ExhaustedOnlyWhenFull
    CallReturns
    AnswerComesTrue
    ImplementsFakeNames
