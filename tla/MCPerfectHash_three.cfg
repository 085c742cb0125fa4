SPECIFICATION HashSpec
CONSTANTS
    s1 = s1
    s2 = s2
    s3 = s3
    absent = absent
    empty = empty
    None = None
    Strings <- MCStrings
    EmptyString = empty
    CheckByte <- MCCheckByte
    Stored <- Two
    ClassTables <- Two
    Image = {1, 2, 3}
    Definers <- MCDefiners
    UB8BITS = 4
    SCRAMBLE_LEN = 8
    RETRY_INITKEY = 2
    RETRY_PERFECT = 2
CHECK_DEADLOCK FALSE
INVARIANT
    TakesALoadedOne
