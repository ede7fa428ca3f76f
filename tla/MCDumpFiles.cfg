SPECIFICATION FilesSpec
CONSTANTS
    Dumpers = {"internal", "class"}
    Template <- SameTemplate
    MaxClock = 1
INVARIANT
    FileIsThere
CHECK_DEADLOCK FALSE
