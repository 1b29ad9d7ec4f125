SPECIFICATION Spec
SYMMETRY ExaminerSymmetry
CONSTANTS
    Examiners = {ana, ben}
    Records = {rec}
    EarlierKeys = {rec}
    Redactions = {}
    Holds = {court}
    Exhibits = {drive}
    Nobody = Nobody
INVARIANTS
    CopyExact
    ReadersAccept
PROPERTIES
    HoldStops
    DisposalIsFinal
    FollowsLifecycle
CHECK_DEADLOCK FALSE
