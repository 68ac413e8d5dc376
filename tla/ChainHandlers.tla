---------------------------- MODULE ChainHandlers ----------------------------
(***************************************************************************)
(* The handlers themselves (handlers/*.py), run by the ChainExecutor: what *)
(* each one reads of the request, of the shared context and of the         *)
(* repository, what it stores, and how it answers.  The hard gates         *)
(* (gates/*.py) are the operators they decide by.                          *)
(*                                                                         *)
(* Contents of documents, diffs and logs are abstracted to what decides an *)
(* answer.  A fact of the request that one handler reads is chosen when it *)
(* is read; the facts several handlers read are fixed in "req".            *)
(***************************************************************************)
EXTENDS ChainExecutor, Functions

CONSTANTS Requests,  \* for each task type, the requests considered (a set of Request)
          Files,     \* the file names a change may touch
          Changed,   \* the files each content changes against HEAD
          Commands,  \* the test, build and reproduction commands
          RunIds     \* for each task type, the run ids a caller may supply

NoId == ""  \* the empty run id: not supplied

Request == [mode : {"IMPLEMENTATION", "READ_ONLY_ANALYSIS"},
            linked : BOOLEAN,         \* run_id and task_id are not empty
            tests_not_applicable : BOOLEAN,
            files_in_scope : SUBSET Files,
            files_out_of_scope : SUBSET Files]

\* What a captured command may have exited with: "none" is a timeout (None), and
\* "missing" an outcome the caller supplied without the field.
ExitCodes == {"zero", "nonzero", "none", "missing"}

Logs == UNION {[cmds -> ExitCodes] : cmds \in (SUBSET Commands) \ {{}}}
NoLogs == [c \in {} |-> "zero"]

\* The answers the handlers build: _ok, _fail, _skip, and the two of the PR gate.
Ok == Answer("PASS", "CONTINUE")
Failed == Answer("FAIL", "FAIL")
Blocked == BlockedAnswer
Skipped == NotApplicableAnswer
Stopped == Answer("PASS", "STOP")
PrReported(status) == [Ok EXCEPT !.pr_status = status]
Passes(test) == IF test THEN Ok ELSE Failed  \* Handler._from_gates

ASSUME HandlersAssumption ==
  /\ {Ok, Failed, Blocked, Skipped, Stopped, PrReported("GATED"),
      PrReported("NOT_READY")} \subseteq Outcomes
  /\ \A t \in Tasks : Requests[t] \subseteq Request /\ NoId \in RunIds[t]
  /\ Changed \in [Contents \cup {Absent} -> SUBSET Files]

\* The chains are the registered ones, of handlers of the types they declare.
ASSUME RegistryAssumption ==
  /\ \A t \in Tasks : t \in DOMAIN ChainFor /\ ChainOf[t] = ChainFor[t]
  /\ \A h \in Handlers : TypeOf[h] = HandlerType[h]

VARIABLES
  req,           \* the request's facts, and tests_not_applicable as it stands
  ctx,           \* the ChainContext fields the handlers share; and two of history:
                 \* "saw", the contents read, and "whole", is the list of changed
                 \* files a true one
  store,         \* every artifact written, in order, with its ledger entry if it has one
  ledger_status  \* the evidence ledger's final_status

hvars == <<req, ctx, store, ledger_status>>

ArtifactType ==
  {"DIFF", "TEST", "LINT", "TYPECHECK", "BUILD", "VERIFIER_REPORT", "PR", "CHECKPOINT",
   "COMMAND_OUTPUT", "SCOPE_CHANGE", "ANALYSIS_REPORT", "SCRUM_MAPPING",
   "STRATEGIC_REVIEW", "LLM_INVOCATION"}

\* record_artifact writes the file and ledgers it; write_quarantined only writes, and
\* the type of what is not ledgered is of no consequence.
Entry(name, type, result) ==
  [name |-> name, type |-> type, result |-> result, ledgered |-> TRUE]

Unledgered(name) ==
  [name |-> name, type |-> "COMMAND_OUTPUT", result |-> "INFO", ledgered |-> FALSE]

Evidence == {entry \in Range(store) : entry.ledgered}

\* The two names the gates know for the agent's.
QuarantinedNames == {"agent_summary.md", "raw_agent_output.log"}

\* All the files the agent's words go to, or what was parsed from them.
AgentWords ==
  QuarantinedNames \cup {"llm_request_LLM0001.txt", "llm_response_LLM0001.txt",
                         "structured_agent_output.json"}

(***************************************************************************)
(* The gates the handlers and verifiers aggregate.                         *)
(***************************************************************************)
EvidenceGatePasses(required) ==
  /\ req.linked
  /\ \A entry \in Evidence : entry.name \notin QuarantinedNames
  /\ required \subseteq {entry.type : entry \in Evidence}

IndependentRuns(coding, verifier) ==
  coding = NoId \/ verifier = NoId \/ coding # verifier

\* Mutant: the files the request puts out of scope are not looked at.
ScopeGateAllowlist(changed) == changed \subseteq req.files_in_scope

ScopeGatePasses(changed) ==
  changed \subseteq req.files_in_scope \ req.files_out_of_scope

\* What the runner makes of what a command exited with before the gate sees it: an
\* outcome supplied without the field is given the exit code 0.
OutcomeOf(exit) == IF exit = "missing" THEN "zero" ELSE exit

\* Mutant: a test that timed out has not failed.
TestGateErrorsOnly(logs) ==
  /\ logs # NoLogs \/ req.tests_not_applicable
  /\ \A c \in DOMAIN logs : OutcomeOf(logs[c]) # "nonzero"

TestGatePasses(logs) ==
  /\ logs # NoLogs \/ req.tests_not_applicable
  /\ \A c \in DOMAIN logs : OutcomeOf(logs[c]) = "zero"

ImplementationEvidence ==
  IF req.tests_not_applicable THEN {"DIFF"} ELSE {"DIFF", "TEST"}

(***************************************************************************)
(* The shape of every handler: it answers, its artifacts are stored and    *)
(* the context it leaves is the next handler's.                            *)
(***************************************************************************)
At(name) == phase = "running" /\ Current = name

\* Mutant: the answer is recorded as it is.
RespondUnvetted(answer, entries, context) ==
  /\ Record(Result(Current, TypeOf[Current], answer, "handler"))
  /\ store' = store \o entries
  /\ ctx' = context
  /\ UNCHANGED <<task, tree, baseline, seen, ledger_status>>

Respond(answer, entries, context) ==
  /\ Record(Enforced(answer))
  /\ store' = store \o entries
  /\ ctx' = context
  /\ UNCHANGED <<task, tree, baseline, seen, ledger_status>>

\* Mutant: a directory that is not there can be read.
HavingReadAbsent(context) == [context EXCEPT !.saw = @ \cup seen]

\* Whatever the directory held while the handler ran, it may have read.
HavingRead(context) == [context EXCEPT !.saw = @ \cup (seen \ {Absent})]

\* A handler that only writes one report.
Reports(name, artifact, type) ==
  /\ At(name)
  /\ Respond(Ok, <<Entry(artifact, type, "INFO")>>, ctx)
  /\ UNCHANGED req

\* Mutant: the findings are only recorded.
ScreensSilently(name, artifact, type, clean, dirty, context) ==
  /\ At(name)
  /\ \E found \in BOOLEAN :
       Respond(Ok, <<Entry(artifact, type, IF found THEN dirty ELSE clean)>>, context)
  /\ UNCHANGED req

\* A handler that records its findings and fails if it has any.
Screens(name, artifact, type, clean, dirty, context) ==
  /\ At(name)
  /\ \E found \in BOOLEAN :
       Respond(Passes(~found),
               <<Entry(artifact, type, IF found THEN dirty ELSE clean)>>, context)
  /\ UNCHANGED req

\* The answers that need nothing but the handler's own input.
Answers(name, answers) ==
  /\ At(name)
  /\ \E answer \in answers : Respond(answer, <<>>, ctx)
  /\ UNCHANGED req

HInit ==
  /\ Init
  /\ req \in Requests[task]
  /\ ctx = [coding_run |-> NoId, verifier_run |-> NoId, candidate |-> "none",
            agent_output |-> FALSE, quarantined |-> FALSE, strategic |-> FALSE,
            changed |-> {}, whole |-> FALSE, tests |-> NoLogs,
            reproduction |-> NoLogs, build |-> NoLogs, saw |-> {}]
  /\ store = <<>>
  /\ ledger_status = "PENDING"

------------------------------------------------------------------------------
(***************************************************************************)
(* Control handlers.                                                       *)
(***************************************************************************)

\* The envelope's hard rules, and the manifest's when one is supplied, whose run
\* ids the context takes whether or not it passes.
ManifestValidation ==
  /\ At("ManifestValidation")
  /\ \/ \E sound \in BOOLEAN : Respond(Passes(sound), <<>>, ctx)
     \/ \E coding, verifier \in RunIds[task], sound \in BOOLEAN :
          Respond(Passes(/\ sound
                         /\ verifier # NoId
                         /\ IndependentRuns(coding, verifier)),
                  <<>>,
                  [ctx EXCEPT !.coding_run = coding, !.verifier_run = verifier])
  /\ UNCHANGED req

ScrumMapping == Answers("ScrumMapping", {Ok, Failed})

\* Nothing has locked a version before: no chain has this handler twice.
DefinitionOfDoneLock ==
  /\ At("DefinitionOfDoneLock")
  /\ \/ Respond(Failed, <<>>, ctx)
     \/ Respond(Ok, <<Entry("definition_of_done_lock.json", "SCRUM_MAPPING", "INFO")>>, ctx)
  /\ UNCHANGED req

ScopeValidation ==
  Answers("ScopeValidation",
          {Passes(req.mode = "IMPLEMENTATION" => req.files_in_scope # {})})

EvidenceGate ==
  Answers("EvidenceGate",
          {Passes(EvidenceGatePasses(IF req.mode = "IMPLEMENTATION"
                                       THEN ImplementationEvidence
                                       ELSE {"ANALYSIS_REPORT"}))})

\* Mutant: the ledger is left open.
StopOrLoopUnfinalized ==
  /\ At("StopOrLoop")
  /\ Record(Enforced(Stopped))
  /\ UNCHANGED <<req, ctx, store, ledger_status, task, tree, baseline, seen>>

\* Finalizes the ledger with the verifier's decision and stops the chain.
StopOrLoop ==
  /\ At("StopOrLoop")
  /\ Record(Enforced(Stopped))
  /\ ledger_status' = IF verifier_decision = "PENDING" THEN "BLOCKED"
                                                       ELSE verifier_decision
  /\ UNCHANGED <<req, ctx, store, task, tree, baseline, seen>>

(***************************************************************************)
(* Analysis handlers.                                                      *)
(***************************************************************************)
RepoInventory ==
  /\ At("RepoInventory")
  /\ Respond(Ok, <<Entry("repo_tree.log", "ANALYSIS_REPORT", "INFO")>>, HavingRead(ctx))
  /\ UNCHANGED req

CommandDiscovery ==
  Reports("CommandDiscovery", "command_discovery.log", "ANALYSIS_REPORT")
CIInventory == Reports("CIInventory", "ci_inventory.log", "ANALYSIS_REPORT")
DependencyInventory ==
  Reports("DependencyInventory", "dependency_inventory.log", "ANALYSIS_REPORT")

\* Compares a snapshot taken while it runs with the one the run started from.
ReadOnlyCompliance ==
  /\ At("ReadOnlyCompliance")
  /\ \E t \in seen : Respond(Passes(Snapshot(t) = baseline), <<>>, ctx)
  /\ UNCHANGED req

AgentTools == <<"tool_list_repo_tree.log", "tool_discover_commands.log",
                "tool_inspect_ci_config.log", "tool_inspect_dependencies.log">>

\* Some of the tools, by their places, in the order they are run in.
ToolRuns == {ran \in UNION {[1 .. n -> 1 .. 4] : n \in 0 .. 4} :
               \A i, j \in DOMAIN ran : i < j => ran[i] < ran[j]}

\* ToolExecutor.run: the log of a tool that was allowed, ran and returned text.
ToolLog(name) == Entry(name, "COMMAND_OUTPUT", "INFO")

\* Mutant: the response is ledgered like its record.
InvocationLedgered ==
  <<Unledgered("llm_request_LLM0001.txt"),
    Entry("llm_response_LLM0001.txt", "LLM_INVOCATION", "INFO"),
    Entry("llm_invocation_LLM0001.json", "LLM_INVOCATION", "INFO")>>

\* LLMInvocationRecorder.record: the words are stored, the record is ledgered.
Invocation == <<Unledgered("llm_request_LLM0001.txt"),
                Unledgered("llm_response_LLM0001.txt"),
                Entry("llm_invocation_LLM0001.json", "LLM_INVOCATION", "INFO")>>

\* quarantine_agent_output
AgentOutput == <<Unledgered("raw_agent_output.log"), Unledgered("agent_summary.md")>>

\* Some of the tools run; then the analyst's model is invoked, unless its provider is
\* not there or fails, and its words are quarantined.
AnalysisAgentInvocation ==
  /\ At("AnalysisAgentInvocation")
  /\ \/ Respond(Skipped, <<>>, ctx)
     \/ \E ran \in ToolRuns :
          LET logs == [i \in DOMAIN ran |-> ToolLog(AgentTools[ran[i]])]
          IN  \/ Respond(Blocked, logs, HavingRead(ctx))
              \/ \E model \in RunIds[task] :
                   Respond(Ok, logs \o Invocation \o AgentOutput,
                           [HavingRead(ctx) EXCEPT
                              !.agent_output = TRUE,
                              !.coding_run = IF model = NoId THEN "analysis-agent"
                                                             ELSE model])
  /\ UNCHANGED req

StructuredOutputParser ==
  /\ At("StructuredOutputParser")
  /\ \/ ~ctx.agent_output /\ Respond(Skipped, <<>>, ctx)
     \/ ctx.agent_output /\ Respond(Blocked, <<>>, ctx)
     \/ ctx.agent_output /\ Respond(Ok, <<Unledgered("structured_agent_output.json")>>, ctx)
  /\ UNCHANGED req

AIReadinessScoring ==
  Reports("AIReadinessScoring", "codebase_ai_readiness_report.json", "ANALYSIS_REPORT")
StrategicProgrammingAssessment ==
  Reports("StrategicProgrammingAssessment", "strategic_programming_assessment.json",
          "STRATEGIC_REVIEW")
BacklogFindingGenerator ==
  Reports("BacklogFindingGenerator", "ai_safety_gap_backlog.json", "ANALYSIS_REPORT")
BacklogUpdate ==
  Reports("BacklogUpdate", "recommended_sprint_plan.json", "ANALYSIS_REPORT")

(***************************************************************************)
(* Implementation handlers.                                                *)
(***************************************************************************)

\* The verifier applies the same gate to the review kept here.
StrategicDesignGate ==
  /\ At("StrategicDesignGate")
  /\ \/ Respond(Blocked, <<>>, ctx)
     \/ \E sound \in BOOLEAN :
          Respond(Passes(sound), <<>>, [ctx EXCEPT !.strategic = sound])
  /\ UNCHANGED req

\* A candidate supplied with the request is quarantined; or an agent has already
\* worked on the tree and only its run id is supplied; or there is nothing.
AgentInvocation ==
  /\ At("AgentInvocation")
  /\ \/ \E candidate \in {"diff", "narrative"}, id \in RunIds[task] :
          Respond(Ok,
                  <<Unledgered("agent_summary.md"), Unledgered("raw_agent_output.log")>>,
                  [ctx EXCEPT !.candidate = candidate,
                              !.coding_run = IF id = NoId THEN @ ELSE id])
     \/ \E id \in RunIds[task] \ {NoId} :
          Respond(Skipped, <<>>, [ctx EXCEPT !.coding_run = id])
     \/ Respond(Blocked, <<>>, ctx)
  /\ UNCHANGED req

AgentOutputQuarantine ==
  /\ At("AgentOutputQuarantine")
  /\ IF \E entry \in Evidence : entry.name \in QuarantinedNames
       THEN Respond(Failed, <<>>, ctx)
       ELSE Respond(Ok, <<>>, [ctx EXCEPT !.quarantined = TRUE])
  /\ UNCHANGED req

DiffArtifacts == <<Entry("diff.patch", "DIFF", "INFO"),
                   Entry("git_status.log", "COMMAND_OUTPUT", "INFO"),
                   Entry("diff_check.log", "COMMAND_OUTPUT", "INFO")>>

\* The lists git may give.  Each command reads the tree when it runs, so that the diff
\* and the list of changed files may come from different contents.  They compare it
\* with the index, and nobody looks at whether they succeeded: the list is what has
\* changed against HEAD, "whole", if nothing was staged or committed, no file is newer
\* than "add -N" and every command was heard; and if not, it may be any.
GitLists(whole) ==
  IF whole THEN {Changed[named] : named \in seen \ {Absent}} ELSE SUBSET Files

\* The candidate's diff and the files it says it changed; or git's, if its diff is not
\* empty; or no diff to be had.
DiffCapture ==
  /\ At("DiffCapture")
  /\ \/ /\ ctx.candidate = "diff"
        /\ \E files \in SUBSET Files :
             Respond(Ok, DiffArtifacts, [ctx EXCEPT !.changed = files, !.whole = FALSE])
     \/ /\ ctx.candidate # "diff"
        /\ seen # {Absent}
        /\ \E whole, clean \in BOOLEAN : \E files \in GitLists(whole) :
             /\ whole => \E diffed \in seen : Changed[diffed] # {}
             /\ Respond(Passes(clean), DiffArtifacts,
                        [HavingRead(ctx) EXCEPT !.changed = files, !.whole = whole])
     \/ /\ ctx.candidate # "diff"
        /\ Respond(Blocked, <<>>, ctx)
  /\ UNCHANGED req

\* The outcomes of a command run, supplied by the caller or captured: a captured
\* one needs the directory, reads it and always has an exit code or a timeout.
Captures ==
  {[logs |-> logs, after |-> ctx] : logs \in Logs}
    \cup {[logs |-> logs, after |-> HavingRead(ctx)] :
           logs \in {l \in Logs : seen # {Absent} /\ "missing" \notin Range(l)}}

\* Runs the tests and never fails: the verifier's test gate judges the outcomes.
TestRunner ==
  /\ At("TestRunner")
  /\ IF req.tests_not_applicable
       THEN Respond(Skipped, <<>>, ctx)
       ELSE \/ Respond(Blocked, <<>>, ctx)
            \/ \E run \in Captures :
                 Respond(Ok,
                         <<Entry("test_output.log", "TEST",
                                 IF Range(run.logs) = {"zero"} THEN "PASS" ELSE "FAIL")>>,
                         [run.after EXCEPT !.tests = run.logs])
  /\ UNCHANGED req

StaticCheck == Answers("StaticCheck", {Skipped})

ScopeDiff == Answers("ScopeDiff", {Passes(ScopeGatePasses(ctx.changed))})

\* Mutant: a reproduction that does not fail will do.
RunsReproductionAnyway(name, artifact) ==
  /\ At(name)
  /\ \/ Respond(Blocked, <<>>, ctx)
     \/ \E run \in Captures :
          Respond(Ok, <<Entry(artifact, "TEST",
                              IF "nonzero" \in Range(run.logs) THEN "FAIL" ELSE "PASS")>>,
                  [run.after EXCEPT !.reproduction = run.logs])
  /\ UNCHANGED req

\* run_reproduction: a run is valid only if some command exits with an error.
RunsReproduction(name, artifact) ==
  /\ At(name)
  /\ \/ Respond(Blocked, <<>>, ctx)
     \/ \E run \in Captures :
          IF "nonzero" \in Range(run.logs)
            THEN Respond(Ok, <<Entry(artifact, "TEST", "FAIL")>>,
                         [run.after EXCEPT !.reproduction = run.logs])
            ELSE Respond(Failed, <<Entry(artifact, "TEST", "PASS")>>, run.after)
  /\ UNCHANGED req

FailureReproduction ==
  RunsReproduction("FailureReproduction", "failure_reproduction.log")
Reproduction == RunsReproduction("Reproduction", "ci_failure_reproduction.log")

(***************************************************************************)
(* Verifiers: each aggregates gates and records its report.                *)
(***************************************************************************)
DefaultVerifier ==
  [AnalysisVerifier |-> "analysis-verifier", ImplementationVerifier |-> "impl-verifier",
   SecurityVerifier |-> "security-verifier", DocumentationVerifier |-> "doc-verifier"]

\* Mutant: the verifier does not compare the run ids.
CertifiesAnyone(name, required, others) ==
  /\ At(name)
  /\ LET verifier == IF ctx.verifier_run = NoId THEN DefaultVerifier[name]
                                                ELSE ctx.verifier_run
         passed == EvidenceGatePasses(required) /\ others
     IN  Respond(Passes(passed),
                 <<Entry("verifier_report.json", "VERIFIER_REPORT",
                         IF passed THEN "PASS" ELSE "FAIL")>>,
                 [ctx EXCEPT !.verifier_run = verifier])
  /\ UNCHANGED req

Certifies(name, required, others) ==
  /\ At(name)
  /\ LET verifier == IF ctx.verifier_run = NoId THEN DefaultVerifier[name]
                                                ELSE ctx.verifier_run
         passed == /\ IndependentRuns(ctx.coding_run, verifier)
                   /\ EvidenceGatePasses(required)
                   /\ others
     IN  Respond(Passes(passed),
                 <<Entry("verifier_report.json", "VERIFIER_REPORT",
                         IF passed THEN "PASS" ELSE "FAIL")>>,
                 [ctx EXCEPT !.verifier_run = verifier])
  /\ UNCHANGED req

AnalysisVerifier == Certifies("AnalysisVerifier", {"ANALYSIS_REPORT"}, TRUE)

ImplementationVerifier ==
  Certifies("ImplementationVerifier", ImplementationEvidence,
            /\ ctx.quarantined
            /\ TestGatePasses(ctx.tests)
            /\ ctx.strategic
            /\ ScopeGatePasses(ctx.changed))

SecurityVerifier ==
  Certifies("SecurityVerifier", {"DIFF"}, ScopeGatePasses(ctx.changed))

DocumentationVerifier ==
  Certifies("DocumentationVerifier", {"DIFF"},
            ctx.quarantined /\ ScopeGatePasses(ctx.changed))

(***************************************************************************)
(* Evaluation and PR handlers.                                             *)
(***************************************************************************)
Evaluator == Reports("Evaluator", "evaluation_report.json", "ANALYSIS_REPORT")

MemoryUpdate ==
  Reports("MemoryUpdate",
          IF verifier_decision = "PASS" THEN "memory_update_record.json"
                                        ELSE "memory_update_skip_reason.json",
          "ANALYSIS_REPORT")

PRGate ==
  /\ At("PRGate")
  /\ IF verifier_decision = "PASS"
       THEN Respond(PrReported("GATED"),
                    <<Entry("pr_body.md", "PR", "INFO"),
                      Entry("pr_gate_report.json", "PR", "INFO")>>, ctx)
       ELSE Respond(PrReported("NOT_READY"), <<>>, ctx)
  /\ UNCHANGED req

(***************************************************************************)
(* Security, documentation, dependency and CI-repair handlers.             *)
(***************************************************************************)

\* Declares tests not applicable in the request itself, where the later evidence
\* gate reads it; on any other task's chain it would skip.
SecurityReviewTestsNotApplicable ==
  /\ At("SecurityReviewTestsNotApplicable")
  /\ IF task = "SECURITY_REVIEW"
       THEN /\ Respond(Ok, <<Entry("security_review_tests_not_applicable.json",
                                   "ANALYSIS_REPORT", "INFO")>>, ctx)
            /\ req' = [req EXCEPT !.tests_not_applicable = TRUE]
       ELSE Respond(Skipped, <<>>, ctx) /\ UNCHANGED req

SecretScan ==
  Screens("SecretScan", "secret_scan.log", "COMMAND_OUTPUT", "PASS", "FAIL",
          HavingRead(ctx))
InputValidationRisk ==
  Screens("InputValidationRisk", "input_validation_risk.log", "COMMAND_OUTPUT",
          "PASS", "FAIL", HavingRead(ctx))
AuthChangeRisk ==
  Screens("AuthChangeRisk", "auth_change_risk.log", "ANALYSIS_REPORT", "PASS", "FAIL",
          HavingRead(ctx))

\* Caller-supplied advisories or licences, or nothing to check.
DependencyVulnerability ==
  \/ Screens("DependencyVulnerability", "dependency_vulnerability.log",
             "ANALYSIS_REPORT", "INFO", "FAIL", ctx)
  \/ Answers("DependencyVulnerability", {Skipped})
DependencyRisk ==
  \/ Screens("DependencyRisk", "dependency_risk.log", "ANALYSIS_REPORT", "INFO", "FAIL",
             ctx)
  \/ Answers("DependencyRisk", {Skipped})
LicenseCheck ==
  \/ Screens("LicenseCheck", "license_check.log", "COMMAND_OUTPUT", "PASS", "FAIL", ctx)
  \/ Answers("LicenseCheck", {Skipped})

LockfileValidation ==
  Screens("LockfileValidation", "lockfile_validation.log", "COMMAND_OUTPUT", "PASS",
          "FAIL", ctx)

\* A build fails only on an exit code that is neither 0 nor absent.
Build ==
  /\ At("Build")
  /\ \/ Respond(Skipped, <<>>, ctx)
     \/ Respond(Blocked, <<>>, ctx)
     \/ \E run \in Captures :
          LET failed == "nonzero" \in Range(run.logs)
          IN  Respond(Passes(~failed),
                      <<Entry("build_output.log", "BUILD",
                              IF failed THEN "FAIL" ELSE "PASS")>>,
                      [run.after EXCEPT !.build = run.logs])
  /\ UNCHANGED req

DocumentationGap ==
  /\ At("DocumentationGap")
  /\ Respond(Ok, <<Entry("documentation_gap.log", "ANALYSIS_REPORT", "INFO")>>,
             HavingRead(ctx))
  /\ UNCHANGED req

\* Broken links fail the handler, but the ledger entry stays INFO.
LinkCheck ==
  Screens("LinkCheck", "link_check.log", "COMMAND_OUTPUT", "INFO", "INFO",
          HavingRead(ctx))

CIFailureLogParser ==
  \/ Reports("CIFailureLogParser", "ci_failure_parsed.log", "COMMAND_OUTPUT")
  \/ Answers("CIFailureLogParser", {Blocked})

FailureClassification ==
  Screens("FailureClassification", "ci_failure_classification.log", "ANALYSIS_REPORT",
          "INFO", "FAIL", ctx)

\* INFO when there is no workflow to check.
CIConfigValidation ==
  \/ Screens("CIConfigValidation", "ci_config_validation.log", "COMMAND_OUTPUT", "PASS",
             "FAIL", HavingRead(ctx))
  \/ /\ At("CIConfigValidation")
     /\ Respond(Ok, <<Entry("ci_config_validation.log", "COMMAND_OUTPUT", "INFO")>>,
                HavingRead(ctx))
     /\ UNCHANGED req

------------------------------------------------------------------------------
ControlHandlers ==
  \/ ManifestValidation \/ ScrumMapping \/ DefinitionOfDoneLock \/ ScopeValidation
  \/ EvidenceGate \/ StopOrLoop

AnalysisHandlers ==
  \/ RepoInventory \/ CommandDiscovery \/ CIInventory \/ DependencyInventory
  \/ ReadOnlyCompliance \/ AnalysisAgentInvocation \/ StructuredOutputParser
  \/ AIReadinessScoring \/ StrategicProgrammingAssessment
  \/ BacklogFindingGenerator \/ BacklogUpdate

ImplementationHandlers ==
  \/ StrategicDesignGate \/ AgentInvocation \/ AgentOutputQuarantine \/ DiffCapture
  \/ TestRunner \/ StaticCheck \/ ScopeDiff \/ FailureReproduction \/ Reproduction

VerifierHandlers ==
  \/ AnalysisVerifier \/ ImplementationVerifier \/ SecurityVerifier
  \/ DocumentationVerifier

ReviewHandlers ==
  \/ SecurityReviewTestsNotApplicable \/ SecretScan \/ InputValidationRisk
  \/ AuthChangeRisk \/ DependencyVulnerability \/ DependencyRisk \/ LicenseCheck
  \/ LockfileValidation \/ Build \/ DocumentationGap \/ LinkCheck
  \/ CIFailureLogParser \/ FailureClassification \/ CIConfigValidation

\* The registry holds every handler of the registered chains, all of them answer
\* can_handle with yes and all the chains end in StopOrLoop, so the executor only
\* calls handlers.
HNext ==
  \/ Invoke /\ UNCHANGED hvars
  \/ Touch /\ UNCHANGED hvars
  \/ Raise /\ UNCHANGED hvars
  \/ ControlHandlers
  \/ AnalysisHandlers
  \/ ImplementationHandlers
  \/ VerifierHandlers
  \/ ReviewHandlers
  \/ Evaluator
  \/ MemoryUpdate
  \/ PRGate

HSpec == HInit /\ [][HNext]_<<vars, hvars>>

------------------------------------------------------------------------------
\* The names artifacts are written by, the quarantined ones among them.
ArtifactNames ==
  {"definition_of_done_lock.json", "repo_tree.log", "command_discovery.log",
   "ci_inventory.log", "dependency_inventory.log", "tool_list_repo_tree.log",
   "tool_discover_commands.log", "tool_inspect_ci_config.log",
   "tool_inspect_dependencies.log", "llm_request_LLM0001.txt",
   "llm_response_LLM0001.txt", "llm_invocation_LLM0001.json", "agent_summary.md",
   "raw_agent_output.log", "structured_agent_output.json",
   "codebase_ai_readiness_report.json", "strategic_programming_assessment.json",
   "ai_safety_gap_backlog.json", "recommended_sprint_plan.json", "diff.patch",
   "git_status.log", "diff_check.log", "test_output.log", "failure_reproduction.log",
   "ci_failure_reproduction.log", "verifier_report.json", "evaluation_report.json",
   "memory_update_record.json", "memory_update_skip_reason.json", "pr_body.md",
   "pr_gate_report.json", "security_review_tests_not_applicable.json",
   "secret_scan.log", "input_validation_risk.log", "auth_change_risk.log",
   "dependency_vulnerability.log", "dependency_risk.log", "license_check.log",
   "lockfile_validation.log", "build_output.log", "documentation_gap.log",
   "link_check.log", "ci_failure_parsed.log", "ci_failure_classification.log",
   "ci_config_validation.log"}

HTypeOK ==
  /\ req \in Request
  /\ ctx \in [coding_run : RunIds[task] \cup {"analysis-agent"},
              verifier_run : RunIds[task] \cup Range(DefaultVerifier),
              candidate : {"none", "diff", "narrative"}, agent_output : BOOLEAN,
              quarantined : BOOLEAN, strategic : BOOLEAN, changed : SUBSET Files,
              whole : BOOLEAN, tests : Logs \cup {NoLogs},
              reproduction : Logs \cup {NoLogs}, build : Logs \cup {NoLogs},
              saw : SUBSET Contents]
  /\ store \in Seq([name : ArtifactNames, type : ArtifactType, ledgered : BOOLEAN,
                    result : {"PASS", "FAIL", "INFO"}])
  /\ ledger_status \in Decisions \cup {"PENDING"}

\* The handlers run as the executor says: every step of theirs is one of its own,
\* so what holds of every chain and every set of answers holds of these.
RunsAsExecutor == Spec

Passed == final_status = "PASS"

\* No artifact of a run is written twice, for the second would replace the file
\* whose hash the ledger holds for the first (ArtifactStore.write); and the ledger
\* holds every artifact except the agent's words: its summary and raw output, what
\* the model was asked and answered, and what was parsed from the answer.
EvidenceKept ==
  /\ \A i, j \in DOMAIN store : store[i].name = store[j].name => i = j
  /\ \A i \in DOMAIN store : store[i].ledgered <=> store[i].name \notin AgentWords

\* Everything a passed run read from the repository (inventory, diff, changed
\* files, tests, scans) was the one content it started from: the pieces of its
\* evidence, gathered by different commands at different times, belong together.
\* The directory must still be there: once it is gone the executor checks nothing.
OneTree ==
  Passed /\ tree # Absent => ctx.saw \subseteq {baseline}

\* A passed run with a diff listed only files of the request's scope; and a whole list
\* is of what the tree really has changed, when the run is over as when git was asked:
\* then the changes themselves are in scope.  Of changes staged or committed before, of
\* a git command that failed and of a list supplied with its diff nothing is said.
RealChangesInScope ==
  Passed /\ "DIFF" \in {entry.type : entry \in Evidence} =>
    /\ ctx.changed \subseteq req.files_in_scope \ req.files_out_of_scope
    /\ tree # Absent /\ ctx.whole => ctx.changed = Changed[baseline]

\* Whoever voted PASS has a run id, and it is not the run id of the agent whose
\* work it passed, whether the ids came from the manifest, the candidate, the
\* request, the model invoked or a verifier's default.
IndependentVerdict ==
  verifier_decision = "PASS" => ctx.verifier_run \notin {NoId, ctx.coding_run}

ReportSaysPass ==
  \E entry \in Evidence : entry.type = "VERIFIER_REPORT" /\ entry.result = "PASS"

\* The run was closed by the executor, over the answer of the handler that found
\* nothing wrong: the repository was not what it had been.
Overruled == final_status = "BLOCKED" /\ tree \notin {baseline, Absent}

\* The verifier's report, its verdict, the ledger's final status and the run's are
\* written by four parties, one after the other.  They say PASS together, or one of
\* two things came between: the executor overruled the answer with which the report or
\* the ledger was written, or a handler after the verifier objected.
VerdictIsRecorded ==
  /\ verifier_decision = "PASS" => ReportSaysPass
  /\ ReportSaysPass => verifier_decision = "PASS" \/ Overruled
  /\ ledger_status = "PASS" => verifier_decision = "PASS"
  /\ phase = "done" =>
       /\ Passed <=> ledger_status = "PASS" /\ ~Overruled
       /\ Passed <=> verifier_decision = "PASS" /\ ~Objects(results[Len(results)])

\* A run passes with tests only if they were run and none that is known to have exited
\* did so with an error or timed out; the runner that saw them exit passed them on
\* without failing.  (Of one supplied without its exit code, see EveryTestExited.)
TestsPassed ==
  /\ Passed
  /\ \E i \in DOMAIN Chain : Chain[i] = "TestRunner"
  => \/ req.tests_not_applicable
     \/ ctx.tests # NoLogs /\ Range(ctx.tests) \ {"missing"} \subseteq {"zero"}

\* A repair passes only if a failing run of the reproduction was put into evidence
\* before the diff that repairs it.
FailureFirst ==
  Passed /\ task \in {"BUG_FIX", "CI_FAILURE_REPAIR"}
         => \E i, j \in DOMAIN store :
              /\ i < j
              /\ store[i].type = "TEST" /\ store[i].result = "FAIL"
              /\ store[j].type = "DIFF"

\* No check, scan or build that went into a passed run's evidence as FAIL was
\* passed over: only test logs (a reproduction must fail) may say FAIL.
NoFailedEvidence ==
  Passed => \A entry \in Evidence : entry.result = "FAIL" => entry.type = "TEST"

------------------------------------------------------------------------------
(***************************************************************************)
(* What the repository says of the handlers and they do not do.            *)
(***************************************************************************)

\* "BuildHandler mirrors TestRunnerHandler": a passed run has no build command
\* that timed out (dependency.py).
BuiltInTime == Passed => "none" \notin Range(ctx.build)

\* "exit code missing" is a reason of the test gate's to fail (test_gate.py): a run does
\* not pass with a test outcome that has none.
EveryTestExited == Passed => "missing" \notin Range(ctx.tests)
==============================================================================
