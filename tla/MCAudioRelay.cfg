SPECIFICATION Spec
CONSTANTS
    Conns = {c1, c2, c3}
    Sessions = {s1, s2}
    MaxFrames = 2
    None = None
INVARIANT TypeOK
INVARIANT SeatKept
PROPERTY RoomPromise
SYMMETRY Symmetry
