SPECIFICATION Spec
CONSTANTS
    Helper = {h1, h2}
    Name = {a, b, c, d}
    None = None
    Site <- Icons
INVARIANTS
    TypeOK
    ReceivedArtifactsStay
    LeftoversAreAccountedFor
    OfferedIsExported
PROPERTY NoOrphanHelper
CHECK_DEADLOCK FALSE
