SPECIFICATION Spec
CONSTANTS
    Conns = {c1, c2, c3}
    Hung = {c3}
INVARIANT TypeOK
INVARIANT LocksInOrder
INVARIANT NobodyDeadlocked
PROPERTY OnlyDenialsStall
PROPERTY AnswersGetThrough
