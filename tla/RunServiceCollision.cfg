\* Two executions share an attempt and its evidence.
SPECIFICATION Spec
CONSTANTS
  Workers = {w1, w2}
  Objects = {o1, o2, o3}
  Nobody = Nobody
  Deployments <- InMemoryOnly
  MaxExecutions = 2
  MaxCreations = 1
SYMMETRY Symmetry
INVARIANT EvidenceIntact
