SPECIFICATION Spec
CONSTANTS
    c1 = c1
    c2 = c2
    c3 = c3
    d1 = d1
    d2 = d2
    Conns = {c1, c2, c3}
    Devices = {d1, d2}
    Serials <- Moving
    Watchers = {}
    Askers = {c1, c2}
    MaxRequests = 1
    MaxRegisters <- FirstTwice
    Capacity = 1
    None = None
INVARIANT TypeOK
INVARIANT RegisteredAloneIsOnline
INVARIANT OnlyEarlyAnswersLost
INVARIANT RightDevice
INVARIANT EntriesAreLive
