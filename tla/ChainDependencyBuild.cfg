\* A build that timed out passes.
SPECIFICATION HSpec
CONSTANTS
  c0 = c0
  c1 = c1
  Absent = Absent
  Empty = c1
  Reverts = FALSE
  Tasks = {"DEPENDENCY_UPDATE"}
  ChainOf <- ChainFor
  TypeOf <- HandlerType
  Registered <- Handlers
  Outcomes <- MCAnswers
  Contents <- MCContents
  Files <- MCFiles
  Changed <- MCChanged
  Requests <- MCRequests
  Commands <- OneCommand
  RunIds <- MCRunIds
INVARIANT BuiltInTime
CHECK_DEADLOCK FALSE
