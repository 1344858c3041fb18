\* Windows of three ticks, two ticks to the second, so that Retry-After rounds.
SPECIFICATION Spec
CONSTANTS
    Client = {alice}
    Proxy = {proxy}
    MaxHits = 2
    Window = 3
    Second = 2
    Absent = Absent
INVARIANTS
    TypeOK
    AtMostTwoWindows
PROPERTIES
    RetryAfterSuffices
    StaleEntriesGo
    ImplementsWindowLimiter
