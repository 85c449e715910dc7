CONSTANTS
    w1 = w1
    w2 = w2
    Worker = {w1, w2}
    Table = {1, 2}
    Key = {k}
    Value = {v}
    NoRecord = NoRecord
    Unsaved = Unsaved
    Checkpointer = Checkpointer
    NoOne = NoOne
    Late = {2}
    SaveOutcomes = {TRUE}
SYMMETRY Symmetry
SPECIFICATION Spec
INVARIANTS
    UndoIsOwned
CHECK_DEADLOCK FALSE
