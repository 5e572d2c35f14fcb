SPECIFICATION ExportSpec
CONSTANTS
    NULL = NULL
    Exports = {"e1"}
    ExportRows = {1, 2, 3}
    EXPORT_LIMIT = 2
CHECK_DEADLOCK FALSE
INVARIANT
    EndsReportTheFile
