\* A character outside of the first 1024 of its plane, in UTF-16.
SPECIFICATION MCSpec
CONSTANTS
    RawSize = 5
    MaxLength = 2
    OutputSize = 12
    Characters8 <- Everywhere
    Characters16 <- Astral
    MaxText = 1
INVARIANTS
    TextSurvives
CHECK_DEADLOCK FALSE
