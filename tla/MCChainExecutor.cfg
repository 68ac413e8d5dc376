\* The executor over every order of answers, with two verifiers and edits of the
\* repository under any handler.
SPECIFICATION Spec
CONSTANTS
  c0 = c0
  c1 = c1
  c2 = c2
  Absent = Absent
  Empty = c0
  Reverts = TRUE
  Tasks <- MCTasks
  ChainOf <- MCChainOf
  TypeOf <- MCTypeOf
  Registered <- Handlers
  Outcomes <- MCAnswers
  Contents <- MCContents
INVARIANTS TypeOK PassIsEarned CheckpointsReplay ChangeNeedsWriter
PROPERTIES KeepsPromise
CHECK_DEADLOCK FALSE
