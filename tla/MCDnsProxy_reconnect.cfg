\* Two sessions, each with a fresh allocator over the same tables.
SPECIFICATION DnsSpec
CONSTANTS
    Managers <- MCManagers
    Callers = {h1, h2}
    Releasers = {}
    Domains = {d1, d2}
    NoDomain = NoDomain
    PoolSize = 2
    MaxSessions = 2
SYMMETRY Symmetric
INVARIANTS
    AnswersExclusive
    TablesPaired
