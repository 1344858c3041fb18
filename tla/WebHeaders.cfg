\* Tokens of one second, as windows, one request to a window.
SPECIFICATION Spec
CONSTANTS
    bitmap = bitmap
    vector = vector
    unknown = unknown
    None = None
    URL <- URLs
    Claim <- Claims3
    TTL = 1
    MaxHits = 1
    Window = 1
INVARIANTS
    SecurityHeadersOnEveryResponse
