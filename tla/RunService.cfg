\* Both repositories, one request at a time and two, with errors and restarts.
SPECIFICATION Spec
CONSTANTS
  Workers = {w1, w2}
  Objects = {o1, o2, o3}
  Nobody = Nobody
  Deployments <- EveryDeployment
  MaxExecutions = 3
  MaxCreations = 2
SYMMETRY Symmetry
INVARIANTS TypeOK EvidenceIntactInTurn AttemptsAreNumbered NumberedWithinPlace
PROPERTY AttemptsAccumulateUnlessStale
