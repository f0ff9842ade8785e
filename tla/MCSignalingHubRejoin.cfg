SPECIFICATION Spec
CONSTANTS
    c1 = c1
    c2 = c2
    c3 = c3
    d1 = d1
    d2 = d2
    Conns = {c1, c2, c3}
    Devices = {d1, d2}
    Serials <- Reconnecting
    Watchers = {}
    Askers = {}
    MaxRequests = 0
    MaxRegisters <- Once
    Capacity = 1
    None = None
INVARIANT RegisteredIsOnline
