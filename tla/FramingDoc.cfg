SPECIFICATION Spec
CONSTANTS
    Scripts <- MCShortScripts
    BitsPerByte = 2
    HeaderSize = 2
    LengthModulus = 8
    ReadSize = 4
    MaxBuffer = 3
    MaxJunk = 1
INVARIANT ChokeStateIsRead
CHECK_DEADLOCK FALSE
