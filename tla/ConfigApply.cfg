SPECIFICATION Spec
CONSTANTS
    Managers = {m1, m2}
    Kinds = {"secret", "profile", "geo"}
    FormOnly = {m2}
    None = None
    MaxOps = 2
    MaxTrouble = 2
INVARIANTS Recoverable RunningIsSaved
PROPERTIES UndoIsExact OperationsEnd
CHECK_DEADLOCK FALSE
