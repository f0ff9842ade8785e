SPECIFICATION Spec
CONSTANTS
    Idle = 5
    Ping = 2
    Answer = 1
    MaxBlocked = 6
    None = None
INVARIANT TypeOK
INVARIANT SilenceIsBounded
INVARIANT AnsweringClientStays
