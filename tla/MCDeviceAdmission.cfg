SPECIFICATION Spec
CONSTANTS
    Handlers = {h1, h2, h3}
    Serials = {s1}
    DbFails = TRUE
    CaFails = TRUE
    Unrecorded = Unrecorded
    None = None
INVARIANT TypeOK
INVARIANT BlockStands
INVARIANT LatestDecides
INVARIANT RefusalHasCause
INVARIANT AdmittedIsRecorded
SYMMETRY Symmetry
