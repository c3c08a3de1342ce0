\* Texts of three characters in three encodings, and a raw buffer of five octets.
SPECIFICATION MCSpec
CONSTANTS
    RawSize = 5
    MaxLength = 2
    OutputSize = 12
    Characters8 <- Everywhere
    Characters16 <- InUtf16
    MaxText = 3
INVARIANTS
    TypeOK
    TextSurvives
PROPERTIES
    CallsReturn
CHECK_DEADLOCK FALSE
