SPECIFICATION ReportSpec
CONSTANTS
  MaxRows = 3
  MaxChanges = 1
  PerPage = 2
  FirstSize = 1
INVARIANTS
  PassDumpIsComplete
CHECK_DEADLOCK FALSE
