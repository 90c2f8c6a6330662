SPECIFICATION FairSpec
CONSTANTS
    u1 = u1  u2 = u2  d1 = d1  d2 = d2
    Unit <- MCUnit
    Design <- MCDesign
    NoDesign = NoDesign
    Complex = {d1}
    Writes <- MCWrites
    Limit <- LiveLimit
    MaxTransient <- LiveTransient
    MaxRounds = 1
    MaxGaps = 1
    MaxResets = 1
INVARIANTS
    CallsArePaidFor
PROPERTIES
    CommandEnds
