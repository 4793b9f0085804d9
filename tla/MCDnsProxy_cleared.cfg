\* One session and one disconnect.
SPECIFICATION DnsSpec
CONSTANTS
    Managers <- MCManagers
    Callers = {h1, h2}
    Releasers = {}
    Domains = {d1, d2}
    NoDomain = NoDomain
    PoolSize = 2
    MaxSessions = 1
INVARIANTS
    ClearedByDisconnect
