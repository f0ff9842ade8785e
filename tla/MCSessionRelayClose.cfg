SPECIFICATION Spec
CONSTANTS
    Conns = {c1, c2, c3, c4}
    Sessions = {s1}
    MaxFrames = 0
    None = None
INVARIANT CloseOnlyFromPeer
