SPECIFICATION RuntimeSpec
CONSTANTS
    Conns = {c1, c2}
    Sessions = {s1}
    MaxFrames = 1
    None = None
PROPERTY DeadClientIsDropped
