SPECIFICATION FairSpec
CONSTANTS
    Conns = {c1, c2}
    Sessions = {s1}
    MaxFrames = 2
    None = None
PROPERTY DeadClientIsDropped
PROPERTY SessionEndsForBoth
