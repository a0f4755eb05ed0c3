CONSTANTS
    Alphabet <- mcAlphabet
    Digit = "1"
    Quote = "q"
    Original <- mcOriginal
    MaxText = 6
SPECIFICATION StreamSpec
CHECK_DEADLOCK FALSE
INVARIANT BlocksApart
