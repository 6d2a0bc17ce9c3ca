SPECIFICATION Spec
CONSTANTS
    MaxString = 3
    MaxToken = 8
    MaxDigits = 3
    MaxRaw = 4
    Keys = {a, b}
    MaxTokens = 10
INVARIANTS NumbersAsInGrammar StringsSurvive OnlyBadBytesThrow ReadsJson
CHECK_DEADLOCK FALSE
