SPECIFICATION Spec
CONSTANTS
    Period = 4
    Latency = 1
    MaxCas = 3
    MaxMissed = 2
    None = None
INVARIANT TypeOK
INVARIANT SignedByStored
INVARIANT GapBounded
INVARIANT AnsweredKeyValidates
