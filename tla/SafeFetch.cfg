\* One name and three kinds of address; at most two redirects are followed.
SPECIFICATION Spec
CONSTANTS
    Name = {site}
    Addr = {public, private, benchmark}
    Blocked = {private, benchmark}
    FakeIP = {benchmark}
    None = None
    MaxRedirectHops = 3
INVARIANTS
    TypeOK
    OnlyPermittedConnections
    EveryHopIsValidated
PROPERTIES
    RequestEnds
CHECK_DEADLOCK FALSE
