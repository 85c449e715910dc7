CONSTANTS
    old = old
    new = new
    Table = {1, 2}
    Page = {0, 1}
    Value = {old, new}
    Unsaved = Unsaved
    LogId = {1, 2}
    RecMax = 2
    NoLog = NoLog
SYMMETRY Symmetry
SPECIFICATION Spec
INVARIANTS
    FilesWhole
    LogKept
PROPERTIES
    SavedAtOnce
