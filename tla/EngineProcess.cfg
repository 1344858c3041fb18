\* Pipes of one chunk and a limit of one: the helper can fill a pipe, stay
\* within the limit or exceed it, on either pipe.
SPECIFICATION Spec
CONSTANTS
    Limit = 1
    Capacity = 1
    MaxOutput = 2
INVARIANTS
    TypeOK
    NoHelperLeftBehind
    OnlyWholeOutput
PROPERTIES
    FullPipesAreDrained
    ImplementsEngineCall
CHECK_DEADLOCK FALSE
