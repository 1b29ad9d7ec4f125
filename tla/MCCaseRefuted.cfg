SPECIFICATION Spec
SYMMETRY ExaminerSymmetry
CONSTANTS
    Examiners = {ana, ben}
    Records = {rec}
    EarlierKeys = {rec}
    Redactions = {}
    Holds = {court}
    Exhibits = {drive}
    Nobody = Nobody
INVARIANT NeverSealedLate
INVARIANT DisposalInReach
CHECK_DEADLOCK FALSE
