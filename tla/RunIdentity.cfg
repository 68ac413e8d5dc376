\* Runs registered anew, executed, reported on and gated, over three run ids.
SPECIFICATION Spec
CONSTANTS
  RunIds = {"r1", "r2"}
  Made = {"made"}
  Tasks = {"t1", "t2"}
  Agents = {"coder", "verifier", "other"}
  None = None
  Manifests <- MCManifests
  Requests <- MCRequests
  Reports <- MCReports
  MaxAttempts = 1
INVARIANTS ITypeOK EvidenceIsTheRuns OneRunPerLedger AtPrGateUnderPass
CHECK_DEADLOCK FALSE
