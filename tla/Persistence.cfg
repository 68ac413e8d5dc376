\* Two threads that create, execute, verify and save one run, and fail anywhere.
SPECIFICATION FairSpec
CONSTANTS
  w1 = w1
  w2 = w2
  Workers = {w1, w2}
  Nobody = Nobody
  None = None
  Outcomes <- MCOutcomes
  Reported = {"PASS", "FAIL"}
  MaxExecutions = 2
  MaxCreations = 2
INVARIANTS TypeOK AuditIsOfSnapshot ColumnsAgree AttemptRowsAreCurrent
PROPERTIES SavesAsOneStep SavesEnd
CHECK_DEADLOCK FALSE
