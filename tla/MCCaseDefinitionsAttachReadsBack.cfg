SPECIFICATION Spec
CONSTANTS
    Runs = {r1, r2}
    Labels = {secret, public}
    MaxDefinitions = 3
    Nobody = Nobody
INVARIANT
    AttachReadsBack
CHECK_DEADLOCK FALSE
