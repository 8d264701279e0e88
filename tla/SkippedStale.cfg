\* One component of two versions.
SPECIFICATION ScriptSpec
CONSTANTS
    Components = 1
    MaxLines = 2
INVARIANT StaleIsReported
CHECK_DEADLOCK FALSE
