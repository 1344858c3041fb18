SPECIFICATION Spec
CONSTANTS
    MaxGen = 1
    MaxIcons = 2
    BatchSize = 1
    Converted = {"png"}
    Slot = {t1, t2}
    None = None
PROPERTIES
    UnusableCandidateIsMarked
CHECK_DEADLOCK FALSE
