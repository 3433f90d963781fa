SPECIFICATION PublicationSpec
CONSTANTS
  Absent = Absent
  Other = Other
  MaxRuns = 2
  MaxFailures = 3
INVARIANTS
  KeepsLateFiles
CHECK_DEADLOCK FALSE
