----------------------------- MODULE RunIdentity -----------------------------
(***************************************************************************)
(* Whose run, task and agents the requests of the control API name, and    *)
(* what becomes of that: the runs are registered under a manifest's run id *)
(* or one made up for it, executions write their evidence under the        *)
(* identity their request ends up with, and verifiers report on a run with *)
(* a ledger that names a run and a task of its own.  Requests come one at  *)
(* a time: RunService has what happens when they overlap.                  *)
(***************************************************************************)
EXTENDS Integers, FiniteSets

CONSTANTS RunIds,      \* the run ids callers use
          Made,        \* the run ids the service makes up, none of theirs
          Tasks,       \* task ids
          Agents,      \* the model run ids agents and verifiers go by
          Manifests,   \* the manifests submitted
          Requests,    \* the run and task ids POST /chain/execute is given
          Reports,     \* the verifier reports, each with the ledger it comes with
          None,        \* no run, no report, an identity left empty
          MaxAttempts  \* bound on the attempts of a run

Ids == RunIds \cup Made

\* ManifestCreate, VerifierReport with its EvidenceLedger, and RunRecord; "complete" and
\* "sound" have the rules of the gates that concern no identity and no release.
ManifestRecords ==
  [run_id : RunIds \cup {None}, task_id : Tasks \cup {None}, complete : BOOLEAN,
   auto_merge : BOOLEAN, auto_deploy : BOOLEAN,
   coding_agent_run_id : Agents \cup {None}, verifier_run_id : Agents \cup {None}]
LedgerRecords ==
  [run_id : Ids \cup {None}, task_id : Tasks \cup {None}, sound : BOOLEAN]
ReportRecords ==
  [task_id : Tasks \cup {None}, coding_agent_run_id : Agents \cup {None},
   verifier_run_id : Agents \cup {None}, decision : {"PENDING", "PASS", "FAIL", "BLOCKED"},
   ledger : LedgerRecords]
Artifacts == [attempt : 1 .. MaxAttempts, run_id : Ids, task_id : Tasks \cup {None}]
States == {"INTAKE", "EXECUTE_CHAIN", "VERIFY", "PR_GATE"}
RunRecords ==
  [manifest : Manifests, state : States, report : ReportRecords \cup {None},
   attempts : 0 .. MaxAttempts, artifacts : SUBSET Artifacts]

ASSUME IdentityAssumption ==
  /\ RunIds \cap Made = {}
  /\ Manifests \subseteq ManifestRecords
  /\ Requests \subseteq [run_id : RunIds \cup {None}, task_id : Tasks \cup {None}]
  /\ Reports \subseteq ReportRecords
  /\ None \notin Ids /\ None \notin RunRecords /\ None \notin ReportRecords
  /\ MaxAttempts \in Nat

VARIABLES
  runs,    \* the registered runs, by id, or None
  written  \* the directories executions have written to: the run and task they wrote
           \* for, and the run the attempt is of

vars == <<runs, written>>

Registered == {r \in Ids : runs[r] # None}

Init ==
  /\ runs = [r \in Ids |-> None]
  /\ written = {}

Differ(a, b) == a = None \/ b = None \/ a # b

\* manifest_gate.
ManifestPasses(m) ==
  /\ m.complete
  /\ ~m.auto_merge /\ ~m.auto_deploy
  /\ m.verifier_run_id # None
  /\ Differ(m.coding_agent_run_id, m.verifier_run_id)

\* create_run: whatever was registered under the id is replaced.
CreateRun(m) ==
  /\ ManifestPasses(m)
  /\ \E r \in IF m.run_id = None THEN Made \ Registered ELSE {m.run_id} :
       runs' = [runs EXCEPT ![r] = [manifest |-> m, state |-> "INTAKE", report |-> None,
                                    attempts |-> 0, artifacts |-> {}]]
  /\ UNCHANGED written

\* Mutant: the task a request names is taken as it is.
BoundToRun(r, m, request) ==
  /\ request.run_id \in {None, r}
  /\ m.run_id \in {None, r}

\* The checks execute_chain makes of the identities before anything runs.
Bound(r, m, request) ==
  /\ request.run_id \in {None, r}
  /\ m.run_id \in {None, r}
  /\ m.task_id = None \/ request.task_id \in {None, m.task_id}

\* Mutant: an identity left empty stays empty.
AdoptNothing(r, m, request) == request

\* The identity the chain runs under.
Adopt(r, m, request) ==
  [run_id |-> r,
   task_id |-> IF request.task_id = None THEN m.task_id ELSE request.task_id]

\* execute_chain: the attempt, and with it the directory, is the run's; what is in it is
\* written for the request's run and task.
ExecuteChain(r, request) ==
  /\ r \in Registered
  /\ runs[r].attempts < MaxAttempts
  /\ Bound(r, runs[r].manifest, request)
  /\ LET adopted == Adopt(r, runs[r].manifest, request)
         attempt == runs[r].attempts + 1
     IN  /\ runs' = [runs EXCEPT ![r].state = "EXECUTE_CHAIN",
                                 ![r].attempts = attempt,
                                 ![r].artifacts =
                                   @ \cup {[attempt |-> attempt, run_id |-> adopted.run_id,
                                            task_id |-> adopted.task_id]}]
         /\ written' = written \cup {[run_id |-> adopted.run_id, of |-> r]}

\* A workspace the policy refuses: no attempt and no evidence.
RefuseWorkspace(r, request) ==
  /\ r \in Registered
  /\ Bound(r, runs[r].manifest, request)
  /\ runs' = [runs EXCEPT ![r].state = "EXECUTE_CHAIN"]
  /\ UNCHANGED written

Independent(report) == Differ(report.coding_agent_run_id, report.verifier_run_id)

\* Mutant: any ledger will do that is sound in itself.
EvidencePassesUnlinked(r, report) == report.ledger.sound

\* evidence_gate on the ledger that came with the report.
EvidencePasses(r, report) ==
  /\ report.ledger.sound
  /\ report.ledger.run_id = r
  /\ report.ledger.task_id # None /\ report.ledger.task_id = report.task_id

\* Mutant: the run goes on to whatever it was in.
VerifyRunInPlace(r, report) ==
  /\ r \in Registered
  /\ LET stands == report.decision = "PASS" =>
                     Independent(report) /\ EvidencePasses(r, report)
     IN  runs' = [runs EXCEPT
                    ![r].report = [report EXCEPT !.decision = IF stands THEN @ ELSE "FAIL"]]
  /\ UNCHANGED written

\* verify_run: nothing of the report is held against the manifest.
VerifyRun(r, report) ==
  /\ r \in Registered
  /\ LET stands == report.decision = "PASS" =>
                     Independent(report) /\ EvidencePasses(r, report)
     IN  runs' = [runs EXCEPT
                    ![r].state = "VERIFY",
                    ![r].report = [report EXCEPT !.decision = IF stands THEN @ ELSE "FAIL"]]
  /\ UNCHANGED written

Passed(r) == runs[r].report # None /\ runs[r].report.decision = "PASS"

\* create_or_update_pr, with the reason or the address that pr_gate asks for.
GatePr(r, documented) ==
  /\ r \in Registered
  /\ Passed(r)
  /\ documented
  /\ ~runs[r].manifest.auto_merge /\ ~runs[r].manifest.auto_deploy
  /\ runs' = [runs EXCEPT ![r].state = "PR_GATE"]
  /\ UNCHANGED written

Next ==
  \/ \E m \in Manifests : CreateRun(m)
  \/ \E r \in Ids :
       \/ \E request \in Requests : ExecuteChain(r, request) \/ RefuseWorkspace(r, request)
       \/ \E report \in Reports : VerifyRun(r, report)
       \/ \E documented \in BOOLEAN : GatePr(r, documented)

Spec == Init /\ [][Next]_vars

------------------------------------------------------------------------------
ITypeOK ==
  /\ runs \in [Ids -> RunRecords \cup {None}]
  /\ written \subseteq [run_id : Ids, of : Ids]

\* Evidence is never written under a divergent identity: what a run's record has as
\* evidence is of that run and of the task its manifest names (routes_chains.py:173),
\* and no directory is written for two runs.
EvidenceIsTheRuns ==
  /\ \A d \in written : d.run_id = d.of
  /\ \A r \in Registered : \A a \in runs[r].artifacts :
       /\ a.run_id = r
       /\ runs[r].manifest.task_id # None => a.task_id = runs[r].manifest.task_id

\* No ledger supports the PASS of two runs, whoever submits it how often and where.
OneRunPerLedger ==
  \A r \in Registered, s \in Registered :
    Passed(r) /\ Passed(s) /\ runs[r].report.ledger = runs[s].report.ledger => r = s

\* A run that is at the PR gate has a PASS that still stands, on a manifest that neither
\* merges nor deploys, whatever was verified, executed or registered since.
AtPrGateUnderPass ==
  \A r \in Registered : runs[r].state = "PR_GATE" =>
    /\ Passed(r)
    /\ ManifestPasses(runs[r].manifest)
==============================================================================
