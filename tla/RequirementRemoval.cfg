SPECIFICATION FairSpec
CONSTANTS
    Requirement = {r1}
    Started = {r1}
    StartPhase = {"preparing", "ready", "draft", "engineering", "stopped", "done"}
    Actor = {a1, a2}
    None = None
    MaxSeq = 3
INVARIANTS
    DestroyedAsDecided NoTaskAdrift
PROPERTIES
    RetiredIsFrozen DeletionCompletes
