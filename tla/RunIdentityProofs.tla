-------------------------- MODULE RunIdentityProofs --------------------------
(***************************************************************************)
(* Whose the evidence, the ledgers and the PASS of a registered run are,   *)
(* for every set of ids, manifests, requests and reports.                  *)
(*                                                                         *)
(* OneRunPerLedger and AtPrGateUnderPass are about pairs of requests that  *)
(* may be long apart; inductive is what each run keeps of them for itself. *)
(***************************************************************************)
EXTENDS RunIdentity, TLAPS

USE IdentityAssumption DEF IdentityAssumption

\* What holds of a record registered under run id r.
Sound(r, run) ==
  /\ ManifestPasses(run.manifest)
  /\ run.report # None /\ run.report.decision = "PASS" => EvidencePasses(r, run.report)
  /\ run.state = "PR_GATE" => run.report # None /\ run.report.decision = "PASS"
  /\ \A a \in run.artifacts :
       /\ a.run_id = r
       /\ run.manifest.task_id # None => a.task_id = run.manifest.task_id

IInv ==
  /\ ITypeOK
  /\ \A r \in Registered : Sound(r, runs[r])
  /\ \A d \in written : d.run_id = d.of

------------------------------------------------------------------------------
LEMMA IInvInit == Init => IInv
<1> SUFFICES ASSUME Init PROVE IInv
  OBVIOUS
<1>1. Registered = {}
  BY DEF Init, Registered
<1> QED BY <1>1 DEF Init, IInv, ITypeOK

\* A step that gives run r the record "run" and leaves the others alone.
LEMMA OneRunChanges ==
  ASSUME IInv, NEW r \in Ids, NEW run \in RunRecords, runs' = [runs EXCEPT ![r] = run],
         Sound(r, run), written' \subseteq [run_id : Ids, of : Ids],
         \A d \in written' : d.run_id = d.of
  PROVE  IInv'
<1>1. runs' \in [Ids -> RunRecords \cup {None}]
  BY DEF IInv, ITypeOK
<1>2. \A s \in Ids : runs'[s] = IF s = r THEN run ELSE runs[s]
  BY DEF IInv, ITypeOK
<1>3. \A s \in Registered' : Sound(s, runs'[s])
  BY <1>2 DEF IInv, Registered
<1>4. (\A s \in Registered : Sound(s, runs[s]))'
  BY <1>3 DEF Sound, ManifestPasses, EvidencePasses
<1> QED BY <1>1, <1>4 DEF IInv, ITypeOK

LEMMA RegisteredIsSound ==
  ASSUME IInv, NEW r \in Registered
  PROVE  r \in Ids /\ runs[r] \in RunRecords /\ Sound(r, runs[r])
  BY DEF IInv, ITypeOK, Registered

LEMMA CreateKeeps == ASSUME IInv, NEW m \in Manifests, CreateRun(m) PROVE IInv'
<1> DEFINE run == [manifest |-> m, state |-> "INTAKE", report |-> None, attempts |-> 0,
                   artifacts |-> {}]
<1>1. PICK r \in Ids : runs' = [runs EXCEPT ![r] = run]
  BY DEF CreateRun, ManifestRecords, Ids
<1>2. run \in RunRecords
  BY DEF RunRecords, States
<1>3. Sound(r, run)
  BY DEF CreateRun, Sound
<1>4. written' = written
  BY DEF CreateRun
<1> HIDE DEF run
<1> QED BY <1>1, <1>2, <1>3, <1>4, OneRunChanges DEF IInv, ITypeOK

LEMMA ExecuteKeeps ==
  ASSUME IInv, NEW r \in Ids, NEW request \in Requests, ExecuteChain(r, request)
  PROVE  IInv'
<1> DEFINE old == runs[r]
           adopted == Adopt(r, old.manifest, request)
           artifact == [attempt |-> old.attempts + 1, run_id |-> adopted.run_id,
                        task_id |-> adopted.task_id]
           attempts == old.attempts + 1
           artifacts == old.artifacts \cup {artifact}
           run == [old EXCEPT !.state = "EXECUTE_CHAIN", !.attempts = attempts,
                              !.artifacts = artifacts]
<1>1. r \in Registered /\ old \in RunRecords /\ Sound(r, old)
  BY RegisteredIsSound DEF ExecuteChain
<1>2. /\ old.attempts \in 0 .. MaxAttempts /\ old.attempts < MaxAttempts
      /\ old.manifest \in ManifestRecords /\ old.artifacts \in SUBSET Artifacts
  BY <1>1 DEF RunRecords, ExecuteChain
<1>3. /\ adopted.run_id = r /\ adopted.task_id \in Tasks \cup {None}
      /\ old.manifest.task_id # None => adopted.task_id = old.manifest.task_id
  BY <1>2 DEF ExecuteChain, Bound, Adopt, ManifestRecords
<1>4. runs' = [runs EXCEPT ![r] = run]
  BY <1>1 DEF ExecuteChain, IInv, ITypeOK, RunRecords
<1>5. written' = written \cup {[run_id |-> adopted.run_id, of |-> r]}
  BY DEF ExecuteChain
<1>6. artifact \in Artifacts
  BY <1>2, <1>3 DEF Artifacts
<1>7. /\ artifact.run_id = r
      /\ old.manifest.task_id # None => artifact.task_id = old.manifest.task_id
  BY <1>3
<1>8. written' \subseteq [run_id : Ids, of : Ids] /\ \A d \in written' : d.run_id = d.of
  BY <1>3, <1>5 DEF IInv, ITypeOK
<1> HIDE DEF artifact, adopted
<1>9. attempts \in 0 .. MaxAttempts /\ artifacts \in SUBSET Artifacts
  BY <1>2, <1>6
<1> HIDE DEF attempts
<1>10. \A a \in artifacts :
         /\ a.run_id = r
         /\ old.manifest.task_id # None => a.task_id = old.manifest.task_id
  BY <1>1, <1>7 DEF Sound
<1> HIDE DEF artifacts
<1>11. run \in RunRecords
  BY <1>1, <1>9 DEF RunRecords, States
<1>12. Sound(r, run)
  BY <1>1, <1>10 DEF Sound, RunRecords
<1> HIDE DEF run
<1> QED BY <1>4, <1>8, <1>11, <1>12, OneRunChanges

LEMMA RefuseKeeps ==
  ASSUME IInv, NEW r \in Ids, NEW request \in Requests, RefuseWorkspace(r, request)
  PROVE  IInv'
<1> DEFINE run == [runs[r] EXCEPT !.state = "EXECUTE_CHAIN"]
<1>1. runs[r] \in RunRecords /\ Sound(r, runs[r])
  BY RegisteredIsSound DEF RefuseWorkspace
<1>2. runs' = [runs EXCEPT ![r] = run] /\ written' = written
  BY DEF RefuseWorkspace, IInv, ITypeOK
<1>3. run \in RunRecords /\ Sound(r, run)
  BY <1>1 DEF RunRecords, States, Sound
<1> HIDE DEF run
<1> QED BY <1>2, <1>3, OneRunChanges DEF IInv, ITypeOK

LEMMA VerifyKeeps ==
  ASSUME IInv, NEW r \in Ids, NEW report \in Reports, VerifyRun(r, report)
  PROVE  IInv'
<1> DEFINE stands == report.decision = "PASS" =>
                       Independent(report) /\ EvidencePasses(r, report)
           kept == [report EXCEPT !.decision = IF stands THEN @ ELSE "FAIL"]
           run == [runs[r] EXCEPT !.state = "VERIFY", !.report = kept]
<1>1. runs[r] \in RunRecords /\ Sound(r, runs[r])
  BY RegisteredIsSound DEF VerifyRun
<1>2. runs' = [runs EXCEPT ![r] = run] /\ written' = written
  BY DEF VerifyRun, IInv, ITypeOK
<1>3. /\ kept \in ReportRecords
      /\ kept.ledger = report.ledger /\ kept.task_id = report.task_id
      /\ kept.decision = "PASS" => stands /\ report.decision = "PASS"
  BY DEF ReportRecords
<1>4. kept.decision = "PASS" => EvidencePasses(r, kept)
  BY <1>3 DEF EvidencePasses
<1> HIDE DEF kept
<1>5. run \in RunRecords /\ Sound(r, run)
  BY <1>1, <1>3, <1>4 DEF RunRecords, States, Sound
<1> HIDE DEF run
<1> QED BY <1>2, <1>5, OneRunChanges DEF IInv, ITypeOK

LEMMA GateKeeps ==
  ASSUME IInv, NEW r \in Ids, NEW documented \in BOOLEAN, GatePr(r, documented)
  PROVE  IInv'
<1> DEFINE run == [runs[r] EXCEPT !.state = "PR_GATE"]
<1>1. runs[r] \in RunRecords /\ Sound(r, runs[r])
  BY RegisteredIsSound DEF GatePr
<1>2. runs' = [runs EXCEPT ![r] = run] /\ written' = written
  BY DEF GatePr, IInv, ITypeOK
<1>3. run \in RunRecords /\ Sound(r, run)
  BY <1>1 DEF RunRecords, States, Sound, GatePr, Passed
<1> HIDE DEF run
<1> QED BY <1>2, <1>3, OneRunChanges DEF IInv, ITypeOK

LEMMA IInvStep == IInv /\ [Next]_vars => IInv'
<1> SUFFICES ASSUME IInv, [Next]_vars PROVE IInv'
  OBVIOUS
<1>1. CASE UNCHANGED vars
  BY <1>1 DEF vars, IInv, ITypeOK, Registered, Sound, ManifestPasses, EvidencePasses
<1> QED BY <1>1, CreateKeeps, ExecuteKeeps, RefuseKeeps, VerifyKeeps, GateKeeps DEF Next

LEMMA IInvHolds == Spec => []IInv
<1> QED BY IInvInit, IInvStep, PTL DEF Spec

------------------------------------------------------------------------------
\* Every registered run is a RunRecord, and every directory is written for a run there is.
THEOREM TypeCorrect == Spec => []ITypeOK
<1>1. IInv => ITypeOK
  BY DEF IInv
<1> QED BY <1>1, IInvHolds, PTL

\* Whatever identities a request, its address and the manifest name or leave out, what an
\* execution leaves as evidence is the run's own and its task's.
THEOREM EvidenceIsOwn == Spec => []EvidenceIsTheRuns
<1>1. IInv => EvidenceIsTheRuns
  BY DEF IInv, Sound, EvidenceIsTheRuns
<1> QED BY <1>1, IInvHolds, PTL

\* No two runs stand as PASS on one ledger.
THEOREM LedgerOfOneRun == Spec => []OneRunPerLedger
<1>1. IInv => OneRunPerLedger
  BY DEF IInv, Sound, Passed, EvidencePasses, OneRunPerLedger
<1> QED BY <1>1, IInvHolds, PTL

\* A run is at the PR gate only under a PASS that still stands, whatever was requested of
\* it in between, as long as requests come one at a time.
THEOREM GateUnderPass == Spec => []AtPrGateUnderPass
<1>1. IInv => AtPrGateUnderPass
  BY DEF IInv, Sound, Passed, AtPrGateUnderPass
<1> QED BY <1>1, IInvHolds, PTL
==============================================================================
