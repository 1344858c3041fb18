\* One icon that is saved as it is and two that are drawn.
SPECIFICATION Spec
CONSTANTS
    None = None
    Svg = {v}
    Ico = {}
    Raster = {p, q}
INVARIANTS
    FileIsWhatItsNameSays
