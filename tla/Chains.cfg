\* The seven registered chains, each run on every request that bears on it.
SPECIFICATION HSpec
CONSTANTS
  c0 = c0
  c1 = c1
  Absent = Absent
  Empty = c1
  Reverts = FALSE
  Tasks = {"AI_READINESS_AUDIT", "SECURITY_REVIEW", "DOCUMENTATION_UPDATE",
           "IMPLEMENTATION", "BUG_FIX", "DEPENDENCY_UPDATE", "CI_FAILURE_REPAIR"}
  ChainOf <- ChainFor
  TypeOf <- HandlerType
  Registered <- Handlers
  Outcomes <- MCAnswers
  Contents <- MCContents
  Files <- MCFiles
  Changed <- MCChanged
  Requests <- MCRequests
  Commands <- OneCommand
  RunIds <- MCRunIds
INVARIANTS HTypeOK OneTree EvidenceKept IndependentVerdict VerdictIsRecorded NoFailedEvidence
           RealChangesInScope TestsPassed FailureFirst
PROPERTY RunsAsExecutor
CHECK_DEADLOCK FALSE
