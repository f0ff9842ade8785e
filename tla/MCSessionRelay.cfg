SPECIFICATION Spec
CONSTANTS
    Conns = {c1, c2, c3}
    Sessions = {s1, s2}
    MaxFrames = 3
    None = None
INVARIANT TypeOK
INVARIANT SeatsAreLive
INVARIANT NoEmptyEntry
INVARIANT Isolation
INVARIANT NoGaps
INVARIANT OnlyPeersOrEvictedTalk
PROPERTY SeatNotStolen
SYMMETRY Symmetry
