SPECIFICATION FairSpec
CONSTANTS
    MaxWork = 3
    Limit <- CoderTransient
    Engineering = TRUE
INVARIANTS
    CheckpointEvidence WorkBudgetRespected AttemptsReservedFirst OneOutputPerAttempt
    WaitsDecidable AdoptedHasStep RetiredReportUnused
PROPERTIES
    RepositorySpec StepsAdvance DeliverySettles
