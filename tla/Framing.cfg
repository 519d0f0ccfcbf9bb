SPECIFICATION Spec
CONSTANTS
    Scripts <- MCScripts
    BitsPerByte = 2
    HeaderSize = 2
    LengthModulus = 8
    ReadSize = 4
    MaxBuffer = 3
    MaxJunk = 1
INVARIANTS
    TypeOK
    NothingHeldBack
PROPERTIES
    ImplementsChannel
    AllHandled
CHECK_DEADLOCK FALSE
