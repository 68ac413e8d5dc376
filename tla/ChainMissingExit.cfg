\* A test outcome without an exit code passes.
SPECIFICATION HSpec
CONSTANTS
  c0 = c0
  c1 = c1
  Absent = Absent
  Empty = c1
  Reverts = FALSE
  Tasks = {"IMPLEMENTATION"}
  ChainOf <- ChainFor
  TypeOf <- HandlerType
  Registered <- Handlers
  Outcomes <- MCAnswers
  Contents <- MCContents
  Files <- MCFiles
  Changed <- MCChanged
  Requests <- MCRequests
  Commands <- OneCommand
  RunIds <- MCRunIds
INVARIANT EveryTestExited
CHECK_DEADLOCK FALSE
