\* The table of the debugged files with one cell less than there are names.
CONSTANTS
    Names = {1, 2, 3}
    Limit = 2
    NULL = NULL
SPECIFICATION Spec
INVARIANT ReportsNamedFiles
CHECK_DEADLOCK FALSE
