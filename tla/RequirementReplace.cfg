SPECIFICATION Spec
CONSTANTS
    Requirement = {r1, r2}
    Started = {r1}
    StartPhase = {"ready"}
    Actor = {a1, a2}
    None = None
    MaxSeq = 2
SYMMETRY Symmetric
INVARIANTS
    ReplacedHasSuccessor OneWriter
