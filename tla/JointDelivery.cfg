SPECIFICATION Spec
CONSTANTS
    u1 = u1  u2 = u2  d1 = d1  d2 = d2
    Unit <- MCUnit
    Design <- MCDesign
    NoDesign = NoDesign
    Complex = {d1}
    Writes <- MCWrites
    Limit <- SafetyLimit
    MaxTransient <- OneTransient
    MaxRounds = 1
    MaxGaps = 1
    MaxResets = 1
INVARIANTS
    NoSaveRefused
PROPERTIES
    ApprovedWhatWasShown WaitsAreAnswered LifecycleSpec
