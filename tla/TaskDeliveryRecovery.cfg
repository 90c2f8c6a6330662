SPECIFICATION Spec
CONSTANTS
    MaxWork = 3
    Limit <- CoderTransient
    Engineering = FALSE
INVARIANTS
    CandidateCheckpointedOnce
