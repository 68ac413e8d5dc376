------------------------- MODULE ChainHandlersProofs -------------------------
(***************************************************************************)
(* The handlers implement the executor, for any chain, any requests and    *)
(* any repository: each handler's action is the executor's Return with one *)
(* of the answers the constants allow, so what ChainExecutorProofs proves  *)
(* of every set of handlers holds of the ones the repository has.          *)
(*                                                                         *)
(* What the handlers themselves guarantee is proved of the registered      *)
(* chains, in three steps: the order of each chain (ChainsOrdered), the    *)
(* contract that every handler's action keeps to (Handles, StepCases), and *)
(* an invariant that is inductive under that contract (HInv).              *)
(***************************************************************************)
EXTENDS ChainHandlers, ChainExecutorProofs

\* The answers the handlers build (_ok, _fail, _skip, _from_gates and the PR gate's)
\* are outcomes the executor may be given.
LEMMA HandlerAnswers ==
  /\ Ok \in Outcomes /\ Failed \in Outcomes /\ Blocked \in Outcomes
  /\ Skipped \in Outcomes /\ Stopped \in Outcomes
  /\ PrReported("GATED") \in Outcomes /\ PrReported("NOT_READY") \in Outcomes
  /\ \A test : Passes(test) \in Outcomes
BY HandlersAssumption DEF Passes

\* A handler that answers, whatever it stores and shares, is a handler returning.
LEMMA RespondReturns ==
  ASSUME NEW name, At(name), NEW answer \in Outcomes, NEW entries, NEW context,
         Respond(answer, entries, context)
  PROVE  Return
BY DEF At, Respond, Return

\* The shapes several handlers share are handlers returning.
LEMMA ReportsReturns ==
  ASSUME NEW name, NEW artifact, NEW type, Reports(name, artifact, type)
  PROVE  Return
BY HandlerAnswers, RespondReturns DEF Reports

LEMMA ScreensReturns ==
  ASSUME NEW name, NEW artifact, NEW type, NEW clean, NEW dirty, NEW context,
         Screens(name, artifact, type, clean, dirty, context)
  PROVE  Return
BY HandlerAnswers, RespondReturns DEF Screens

LEMMA AnswersReturns ==
  ASSUME NEW name, NEW answers \in SUBSET Outcomes, Answers(name, answers)
  PROVE  Return
BY RespondReturns DEF Answers

LEMMA RunsReproductionReturns ==
  ASSUME NEW name, NEW artifact, RunsReproduction(name, artifact)
  PROVE  Return
BY HandlerAnswers, RespondReturns DEF RunsReproduction

LEMMA CertifiesReturns ==
  ASSUME NEW name, NEW required, NEW others, Certifies(name, required, others)
  PROVE  Return
BY HandlerAnswers, RespondReturns DEF Certifies

\* Each handler returns.
LEMMA ControlHandlersReturn == ControlHandlers => Return
<1>1. ManifestValidation => Return
  BY HandlerAnswers, RespondReturns DEF ManifestValidation
<1>2. ScrumMapping => Return
  BY HandlerAnswers, AnswersReturns DEF ScrumMapping
<1>3. DefinitionOfDoneLock => Return
  BY HandlerAnswers, RespondReturns DEF DefinitionOfDoneLock
<1>4. ScopeValidation => Return
  BY HandlerAnswers, AnswersReturns DEF ScopeValidation
<1>5. EvidenceGate => Return
  BY HandlerAnswers, AnswersReturns DEF EvidenceGate
<1>6. StopOrLoop => Return
  BY HandlerAnswers DEF StopOrLoop, At, Return
<1> QED
  BY <1>1, <1>2, <1>3, <1>4, <1>5, <1>6 DEF ControlHandlers

LEMMA AnalysisHandlersReturn == AnalysisHandlers => Return
<1>1. RepoInventory => Return
  BY HandlerAnswers, RespondReturns DEF RepoInventory
<1>2. CommandDiscovery \/ CIInventory \/ DependencyInventory => Return
  BY ReportsReturns DEF CommandDiscovery, CIInventory, DependencyInventory
<1>3. ReadOnlyCompliance => Return
  BY HandlerAnswers, RespondReturns DEF ReadOnlyCompliance
<1>4. AnalysisAgentInvocation => Return
  BY HandlerAnswers, RespondReturns DEF AnalysisAgentInvocation
<1>5. StructuredOutputParser => Return
  BY HandlerAnswers, RespondReturns DEF StructuredOutputParser
<1>6. AIReadinessScoring \/ StrategicProgrammingAssessment \/ BacklogFindingGenerator
        \/ BacklogUpdate => Return
  BY ReportsReturns DEF AIReadinessScoring, StrategicProgrammingAssessment,
                        BacklogFindingGenerator, BacklogUpdate
<1> QED
  BY <1>1, <1>2, <1>3, <1>4, <1>5, <1>6 DEF AnalysisHandlers

LEMMA ImplementationHandlersReturn == ImplementationHandlers => Return
<1>1. StrategicDesignGate => Return
  BY HandlerAnswers, RespondReturns DEF StrategicDesignGate
<1>2. AgentInvocation => Return
  BY HandlerAnswers, RespondReturns DEF AgentInvocation
<1>3. AgentOutputQuarantine => Return
  BY HandlerAnswers, RespondReturns DEF AgentOutputQuarantine
<1>4. DiffCapture => Return
  BY HandlerAnswers, RespondReturns DEF DiffCapture
<1>5. TestRunner => Return
  BY HandlerAnswers, RespondReturns DEF TestRunner
<1>6. StaticCheck => Return
  BY HandlerAnswers, AnswersReturns DEF StaticCheck
<1>7. ScopeDiff => Return
  BY HandlerAnswers, AnswersReturns DEF ScopeDiff
<1>8. FailureReproduction \/ Reproduction => Return
  BY RunsReproductionReturns DEF FailureReproduction, Reproduction
<1> QED
  BY <1>1, <1>2, <1>3, <1>4, <1>5, <1>6, <1>7, <1>8 DEF ImplementationHandlers

LEMMA VerifierHandlersReturn == VerifierHandlers => Return
BY CertifiesReturns
   DEF VerifierHandlers, AnalysisVerifier, ImplementationVerifier, SecurityVerifier,
       DocumentationVerifier

LEMMA ReviewHandlersReturn == ReviewHandlers => Return
<1>1. SecurityReviewTestsNotApplicable => Return
  BY HandlerAnswers, RespondReturns DEF SecurityReviewTestsNotApplicable
<1>2. SecretScan \/ InputValidationRisk \/ AuthChangeRisk => Return
  BY ScreensReturns DEF SecretScan, InputValidationRisk, AuthChangeRisk
<1>3. DependencyVulnerability \/ DependencyRisk \/ LicenseCheck => Return
  BY HandlerAnswers, ScreensReturns, AnswersReturns
     DEF DependencyVulnerability, DependencyRisk, LicenseCheck
<1>4. LockfileValidation \/ LinkCheck \/ FailureClassification => Return
  BY ScreensReturns DEF LockfileValidation, LinkCheck, FailureClassification
<1>5. Build => Return
  BY HandlerAnswers, RespondReturns DEF Build
<1>6. DocumentationGap => Return
  BY HandlerAnswers, RespondReturns DEF DocumentationGap
<1>7. CIFailureLogParser => Return
  BY HandlerAnswers, ReportsReturns, AnswersReturns DEF CIFailureLogParser
<1>8. CIConfigValidation => Return
  BY HandlerAnswers, ScreensReturns, RespondReturns DEF CIConfigValidation
<1> QED
  BY <1>1, <1>2, <1>3, <1>4, <1>5, <1>6, <1>7, <1>8 DEF ReviewHandlers

\* Evaluator, MemoryUpdate and PRGate: after the verdict, none of them makes one.
LEMMA ClosingHandlersReturn == Evaluator \/ MemoryUpdate \/ PRGate => Return
<1>1. Evaluator \/ MemoryUpdate => Return
  BY ReportsReturns DEF Evaluator, MemoryUpdate
<1>2. PRGate => Return
  BY HandlerAnswers, RespondReturns DEF PRGate
<1> QED
  BY <1>1, <1>2

\* Every step of theirs is a step of the executor's.
LEMMA HandlersNext == [HNext]_<<vars, hvars>> => [Next]_vars
<1> SUFFICES ASSUME [HNext]_<<vars, hvars>> PROVE [Next]_vars
  OBVIOUS
<1>1. CASE HNext
  <2>1. Invoke \/ Touch \/ Raise \/ Return
    BY <1>1, ControlHandlersReturn, AnalysisHandlersReturn,
       ImplementationHandlersReturn, VerifierHandlersReturn, ReviewHandlersReturn,
       ClosingHandlersReturn
       DEF HNext
  <2> QED
    BY <2>1 DEF Next, Step
<1>2. CASE UNCHANGED <<vars, hvars>>
  BY <1>2
<1> QED
  BY <1>1, <1>2

\* The handlers of handlers/*.py, run in any chain, take only steps ChainExecutor
\* allows: every behaviour of theirs is one of the executor's.
THEOREM HandlersRunAsExecutor == HSpec => RunsAsExecutor
<1>1. HInit => Init
  BY DEF HInit
<1> QED
  BY <1>1, HandlersNext, PTL DEF HSpec, RunsAsExecutor, Spec

\* No chain of the repository's handlers passes unless its verifier's last vote is
\* PASS, nobody objected and no handler was left out.
THEOREM HandlersPassEarned == HSpec => []PassIsEarned
BY HandlersRunAsExecutor, PassEarned, PTL DEF RunsAsExecutor

\* Under the repository's handlers the run does not go on after a change of the
\* repository that no handler of a write type can have made.
THEOREM HandlersChangesNeedWriters == HSpec => []ChangeNeedsWriter
BY HandlersRunAsExecutor, ChangesNeedWriters, PTL DEF RunsAsExecutor

\* Their checkpoints tell the run as it went.
THEOREM HandlersCheckpointsAreFaithful == HSpec => []CheckpointsReplay
BY HandlersRunAsExecutor, CheckpointsAreFaithful, PTL DEF RunsAsExecutor

------------------------------------------------------------------------------
\* What the safety proofs say of the handlers is said of the chains that are registered.

\* Handlers of which a chain has one at most: the agents, and the verifiers.
Group(h) == CASE h \in Verifiers -> "Verifier"
              [] h \in {"AgentInvocation", "AnalysisAgentInvocation"} -> "Agent"
              [] OTHER -> h

\* The handlers that write an artifact of the name.
Writer(name) ==
  CASE name = "definition_of_done_lock.json" -> "DefinitionOfDoneLock"
    [] name = "repo_tree.log" -> "RepoInventory"
    [] name = "command_discovery.log" -> "CommandDiscovery"
    [] name = "ci_inventory.log" -> "CIInventory"
    [] name = "dependency_inventory.log" -> "DependencyInventory"
    [] name \in {AgentTools[i] : i \in 1 .. 4} -> "Agent"
    [] name \in {"llm_request_LLM0001.txt", "llm_response_LLM0001.txt",
                 "llm_invocation_LLM0001.json"} -> "Agent"
    [] name \in QuarantinedNames -> "Agent"
    [] name = "structured_agent_output.json" -> "StructuredOutputParser"
    [] name = "codebase_ai_readiness_report.json" -> "AIReadinessScoring"
    [] name = "strategic_programming_assessment.json" -> "StrategicProgrammingAssessment"
    [] name = "ai_safety_gap_backlog.json" -> "BacklogFindingGenerator"
    [] name = "recommended_sprint_plan.json" -> "BacklogUpdate"
    [] name \in {"diff.patch", "git_status.log", "diff_check.log"} -> "DiffCapture"
    [] name = "test_output.log" -> "TestRunner"
    [] name = "failure_reproduction.log" -> "FailureReproduction"
    [] name = "ci_failure_reproduction.log" -> "Reproduction"
    [] name = "verifier_report.json" -> "Verifier"
    [] name = "evaluation_report.json" -> "Evaluator"
    [] name \in {"memory_update_record.json", "memory_update_skip_reason.json"} ->
         "MemoryUpdate"
    [] name \in {"pr_body.md", "pr_gate_report.json"} -> "PRGate"
    [] name = "security_review_tests_not_applicable.json" ->
         "SecurityReviewTestsNotApplicable"
    [] name = "secret_scan.log" -> "SecretScan"
    [] name = "input_validation_risk.log" -> "InputValidationRisk"
    [] name = "auth_change_risk.log" -> "AuthChangeRisk"
    [] name = "dependency_vulnerability.log" -> "DependencyVulnerability"
    [] name = "dependency_risk.log" -> "DependencyRisk"
    [] name = "license_check.log" -> "LicenseCheck"
    [] name = "lockfile_validation.log" -> "LockfileValidation"
    [] name = "build_output.log" -> "Build"
    [] name = "documentation_gap.log" -> "DocumentationGap"
    [] name = "link_check.log" -> "LinkCheck"
    [] name = "ci_failure_parsed.log" -> "CIFailureLogParser"
    [] name = "ci_failure_classification.log" -> "FailureClassification"
    [] name = "ci_config_validation.log" -> "CIConfigValidation"

\* Every artifact is written by a handler that has run, and none of its name before.
Written ==
  /\ \A i \in DOMAIN store :
       /\ \E k \in 1 .. Len(results) : Writer(store[i].name) = Group(Chain[k])
       /\ store[i].ledgered <=> store[i].name \notin AgentWords
       /\ store[i].type = "DIFF" => Writer(store[i].name) = "DiffCapture"
  /\ \A i, j \in DOMAIN store : store[i].name = store[j].name => i = j

FailureStored(i) == store[i].type = "TEST" /\ store[i].result = "FAIL"

NothingFailed ==
  Live \/ Passed => \A entry \in Evidence : entry.result = "FAIL" => entry.type = "TEST"

\* What StopOrLoop leaves.
Stops ==
  /\ ledger_status # "PENDING" => phase = "done"
  /\ ledger_status = "PASS" =>
       /\ verifier_decision = "PASS"
       /\ final_status = IF tree \in {baseline, Absent} THEN "PASS" ELSE "BLOCKED"
  /\ Passed => ledger_status = "PASS" /\ tree \in {baseline, Absent}

\* A run that is over ended with a result, and with the verdict unless that objects.
Ended ==
  phase = "done" =>
    /\ Len(results) \in Nat \ {0}
    /\ verifier_decision = "PASS" /\ ~Objects(results[Len(results)]) => Passed

\* A report that says PASS is the verdict's, or the executor came between.
Reported == ReportSaysPass => verifier_decision = "PASS" \/ Overruled

\* What a verifier looked at when it voted PASS, and nobody after it changes.
Certified(v) ==
  /\ ctx.verifier_run \notin {NoId, ctx.coding_run}
  /\ ReportSaysPass
  /\ v # "AnalysisVerifier" =>
       /\ \E entry \in Evidence : entry.type = "DIFF"
       /\ ScopeGatePasses(ctx.changed)
  /\ v = "ImplementationVerifier" => TestGatePasses(ctx.tests)

Stands ==
  verifier_decision = "PASS" =>
    \E v \in Verifiers : Certified(v) /\ \E k \in 1 .. Len(results) : Chain[k] = v

Reproductions == {"FailureReproduction", "Reproduction"}
Repairs == {"BUG_FIX", "CI_FAILURE_REPAIR"}

Reproduced ==
  /\ Live /\ (\E k \in 1 .. Len(results) : Chain[k] \in Reproductions)
       => \E i \in DOMAIN store : FailureStored(i)
  /\ task \in Repairs =>
       \A j \in DOMAIN store :
         store[j].type = "DIFF" => \E i \in DOMAIN store : i < j /\ FailureStored(i)

\* Nothing puts an edited repository back: while it is what it was, it has been nothing
\* else.
OneRead ==
  tree = baseline =>
    /\ seen \subseteq {baseline}
    /\ ctx.saw \subseteq {baseline}
    /\ ctx.whole => ctx.changed = Changed[baseline]

------------------------------------------------------------------------------
\* The handlers a run's verdict depends on, and which come before the verifier.
Sources == {"ManifestValidation", "AnalysisAgentInvocation", "AgentInvocation",
            "DiffCapture", "TestRunner"}

\* What the order of a chain's handlers has to be like.
WellOrdered(chain) ==
  /\ \A i \in 1 .. Len(chain) : chain[i] \in Handlers
  /\ \A i, j \in 1 .. Len(chain) : Group(chain[i]) = Group(chain[j]) => i = j
  /\ \A i, j \in 1 .. Len(chain) :
       chain[i] \in Sources /\ chain[j] \in Verifiers => i < j
  /\ \A i, j \in 1 .. Len(chain) :
       chain[i] = "TestRunner" /\ chain[j] \in Verifiers =>
         chain[j] = "ImplementationVerifier"
  /\ \A i, j \in 1 .. Len(chain) :
       chain[i] = "DiffCapture" /\ chain[j] \in Verifiers => chain[j] # "AnalysisVerifier"

\* A repair's: the failure is reproduced before the diff that repairs it.
RepairOrdered(chain) ==
  /\ \E i \in 1 .. Len(chain) :
       /\ chain[i] \in Reproductions
       /\ \A j \in 1 .. Len(chain) : chain[j] = "DiffCapture" => i < j
  /\ \A j \in 1 .. Len(chain) :
       chain[j] \in Verifiers => chain[j] = "ImplementationVerifier"

\* The registered chains are like that.
LEMMA ChainsOrdered ==
  ASSUME NEW t \in Tasks
  PROVE  /\ WellOrdered(ChainOf[t])
         /\ t \in Repairs => RepairOrdered(ChainOf[t])
<1> USE DEF WellOrdered, Group, Verifiers, Sources, Handlers, PureChecks, ReadOnlyCommands
<1>1. WellOrdered(AIReadinessAudit)
  BY DEF AIReadinessAudit
<1>2. WellOrdered(Implementation)
  BY DEF Implementation
<1>3. WellOrdered(BugFix)
  BY DEF BugFix
<1>4. WellOrdered(SecurityReview)
  BY DEF SecurityReview
<1>5. WellOrdered(DependencyUpdate)
  BY DEF DependencyUpdate
<1>6. WellOrdered(DocumentationUpdate)
  BY DEF DocumentationUpdate
<1>7. WellOrdered(CIFailureRepair)
  BY DEF CIFailureRepair
<1>8. RepairOrdered(BugFix) /\ RepairOrdered(CIFailureRepair)
  BY DEF RepairOrdered, BugFix, CIFailureRepair, Reproductions
<1> HIDE DEF WellOrdered, Group, Verifiers, Sources, Handlers, PureChecks, ReadOnlyCommands
<1>9. /\ ChainOf[t] \in {AIReadinessAudit, Implementation, BugFix, SecurityReview,
                         DependencyUpdate, DocumentationUpdate, CIFailureRepair}
      /\ t \in Repairs => ChainOf[t] \in {BugFix, CIFailureRepair}
  BY RegistryAssumption DEF RegistryAssumption, ChainFor, Repairs
<1> QED BY <1>1, <1>2, <1>3, <1>4, <1>5, <1>6, <1>7, <1>8, <1>9

\* Only a verifier's type decides PASS, and StopOrLoop's modifies nothing.
LEMMA TypesDeclared ==
  /\ \A h \in Handlers : CanDecidePass(TypeOf[h]) <=> h \in Verifiers
  /\ ~CanModifyRepo(TypeOf["StopOrLoop"])
<1> USE DEF Handlers, PureChecks, ReadOnlyCommands, Verifiers
<1>1. ASSUME NEW h \in Handlers PROVE HandlerType[h] = "VERIFIER" <=> h \in Verifiers
  BY DEF HandlerType
<1>2. HandlerType["StopOrLoop"] = "PURE_CHECK" /\ "StopOrLoop" \in Handlers
  BY DEF HandlerType
<1> HIDE DEF Handlers, Verifiers
<1> QED BY <1>1, <1>2, RegistryAssumption
        DEF RegistryAssumption, CanDecidePass, CanModifyRepo

------------------------------------------------------------------------------
\* What a handler may do when it answers, whichever it is.

Context == [coding_run : RunIds[task] \cup {"analysis-agent"},
            verifier_run : RunIds[task] \cup Range(DefaultVerifier),
            candidate : {"none", "diff", "narrative"}, agent_output : BOOLEAN,
            quarantined : BOOLEAN, strategic : BOOLEAN, changed : SUBSET Files,
            whole : BOOLEAN, tests : Logs \cup {NoLogs}, reproduction : Logs \cup {NoLogs},
            build : Logs \cup {NoLogs}, saw : SUBSET Contents]

EntryType == [name : ArtifactNames, type : ArtifactType, ledgered : BOOLEAN,
              result : {"PASS", "FAIL", "INFO"}]

Typed == IInv /\ HTypeOK

\* It stores artifacts of its own; only a diff is a DIFF; and it says so in its answer if
\* one of them is a failure.
Fits(answer, entry) ==
  /\ entry \in EntryType
  /\ Writer(entry.name) = Group(Current)
  /\ entry.ledgered <=> entry.name \notin AgentWords
  /\ entry.type = "DIFF" => Writer(entry.name) = "DiffCapture"
  /\ entry.type = "VERIFIER_REPORT" => Current \in Verifiers
  /\ entry.ledgered /\ entry.result = "FAIL" => entry.type = "TEST" \/ Objects(answer)

\* None of the artifacts that it stores has the name of another.
Storable(answer, entries) ==
  /\ entries \in Seq(EntryType)
  /\ \A i \in DOMAIN entries : Fits(answer, entries[i])
  /\ \A i, j \in DOMAIN entries : entries[i].name = entries[j].name => i = j

\* It reads nothing but what the directory held meanwhile.
ReadsSeen(context) ==
  context \in Context /\ context.saw \subseteq ctx.saw \cup (seen \ {Absent})

\* A fact of the context has few writers.
Shared(context) ==
  /\ ReadsSeen(context)
  /\ context.coding_run # ctx.coding_run => Current \in Sources
  /\ context.verifier_run # ctx.verifier_run => Current \in Sources \cup Verifiers
  /\ context.changed # ctx.changed \/ context.whole # ctx.whole => Current = "DiffCapture"
  /\ context.tests # ctx.tests => Current = "TestRunner"

Kept(context) ==
  /\ ReadsSeen(context)
  /\ context.coding_run = ctx.coding_run /\ context.verifier_run = ctx.verifier_run
  /\ context.changed = ctx.changed /\ context.whole = ctx.whole
  /\ context.tests = ctx.tests

\* What the handlers that a verdict rests on do besides.
Captured(context) ==
  Current = "DiffCapture" /\ context.whole =>
    \/ ctx.whole /\ context.changed = ctx.changed
    \/ \E named \in seen : context.changed = Changed[named]

Reproducing(answer, entries) ==
  Current \in Reproductions =>
    \/ Objects(answer)
    \/ \E i \in DOMAIN entries : entries[i].type = "TEST" /\ entries[i].result = "FAIL"

Voted(answer, entries, context) ==
  Current \in Verifiers =>
    /\ answer \in {Ok, Failed}
    /\ answer = Failed => \A i \in DOMAIN entries : entries[i].result # "PASS"
    /\ answer = Ok =>
         /\ context.verifier_run \notin {NoId, context.coding_run}
         /\ \E i \in DOMAIN entries : /\ entries[i].ledgered
                                      /\ entries[i].type = "VERIFIER_REPORT"
                                      /\ entries[i].result = "PASS"
         /\ Current # "AnalysisVerifier" =>
              /\ \E entry \in Evidence : entry.type = "DIFF"
              /\ ScopeGatePasses(ctx.changed)
         /\ Current = "ImplementationVerifier" => TestGatePasses(ctx.tests)

ReqKept == req' \in {req, [req EXCEPT !.tests_not_applicable = TRUE]}

Replies == {Ok, Failed, Blocked, Skipped, PrReported("GATED"), PrReported("NOT_READY")}

Handles(answer, entries, context) ==
  /\ phase = "running"
  /\ Respond(answer, entries, context)
  /\ ReqKept
  /\ Storable(answer, entries)
  /\ Shared(context)
  /\ Captured(context)
  /\ Reproducing(answer, entries)
  /\ Voted(answer, entries, context)

Handled == \E answer \in Replies : \E entries, context : Handles(answer, entries, context)

\* The handlers nothing else is asked of.
Special == Sources \cup Reproductions \cup Verifiers

\* What the answers are, and which of them object.
LEMMA ReplyFacts ==
  /\ Replies \subseteq Outcomes
  /\ \A answer \in Replies : answer.decision # "STOP"
  /\ Objects(Failed) /\ Objects(Blocked)
  /\ Ok.status = "PASS" /\ Failed.status = "FAIL" /\ ~Objects(Ok)
  /\ \A test : Passes(test) \in Replies
  /\ \A test \in BOOLEAN : ~test => Objects(Passes(test))
<1> USE DEF Ok, Failed, Blocked, Skipped, PrReported, BlockedAnswer, NotApplicableAnswer,
            Answer, Unset
<1>1. Replies \subseteq Outcomes
  BY HandlersAssumption DEF HandlersAssumption, Replies
<1>2. \A answer \in Replies : answer.decision # "STOP"
  BY DEF Replies
<1>3. /\ Objects(Failed) /\ Objects(Blocked)
      /\ Ok.status = "PASS" /\ Failed.status = "FAIL" /\ ~Objects(Ok)
  BY DEF Objects
<1>4. \A test : Passes(test) \in Replies
  BY DEF Passes, Replies
<1>5. \A test \in BOOLEAN : ~test => Objects(Passes(test))
  BY <1>3 DEF Passes
<1> QED BY <1>1, <1>2, <1>3, <1>4, <1>5

\* A context left as it is, or read into, is one that nothing else is asked of.
LEMMA KeptFacts ==
  ASSUME Typed
  PROVE  /\ ctx \in Context /\ seen \ {Absent} \subseteq Contents
         /\ Kept(ctx) /\ Kept(HavingRead(ctx))
<1>1. ctx \in Context
  BY DEF Typed, HTypeOK, Context
<1>2. seen \ {Absent} \subseteq Contents
  BY DEF Typed, IInv, TypeOK
<1>3. Kept(ctx)
  BY <1>1 DEF Kept, ReadsSeen
<1>4. Kept(HavingRead(ctx))
  BY <1>1, <1>2 DEF Kept, ReadsSeen, HavingRead, Context
<1> QED BY <1>1, <1>2, <1>3, <1>4

\* The fields of an artifact.
LEMMA EntryFacts ==
  ASSUME NEW name, NEW type, NEW result
  PROVE  /\ Entry(name, type, result).name = name
         /\ Entry(name, type, result).type = type
         /\ Entry(name, type, result).result = result
         /\ Entry(name, type, result).ledgered
         /\ Unledgered(name).name = name
         /\ Unledgered(name).type = "COMMAND_OUTPUT"
         /\ ~Unledgered(name).ledgered
<1>1. ~Unledgered(name).ledgered
  BY Zenon DEF Unledgered
<1> QED BY <1>1 DEF Entry, Unledgered

\* An artifact of the handler's that is not the agent's words.
Owns(handler, name) ==
  name \in ArtifactNames \ AgentWords /\ Writer(name) = Group(handler)

\* An artifact that is ledgered fits if its handler owns the name.
LEMMA EntryFits ==
  ASSUME NEW name, Owns(Current, name), NEW type \in ArtifactType,
         type = "DIFF" => Current = "DiffCapture",
         type = "VERIFIER_REPORT" => Current \in Verifiers,
         NEW result \in {"PASS", "FAIL", "INFO"}, NEW answer,
         result = "FAIL" => type = "TEST" \/ Objects(answer)
  PROVE  Fits(answer, Entry(name, type, result))
<1> DEFINE entry == Entry(name, type, result)
<1>1. /\ name \in ArtifactNames /\ name \notin AgentWords
      /\ Writer(name) = Group(Current)
  BY DEF Owns
<1>2. entry \in EntryType
  BY <1>1 DEF Entry, EntryType
<1>3. entry.name = name /\ entry.type = type /\ entry.result = result /\ entry.ledgered
  BY EntryFacts
<1> HIDE DEF entry
<1>4. type = "DIFF" => Group(Current) = "DiffCapture"
  BY DEF Group, Verifiers
<1>5. Fits(answer, entry)
  BY <1>1, <1>2, <1>3, <1>4 DEF Fits
<1> QED BY <1>5 DEF entry

\* One that is not ledgered fits if it is the agent's words.
LEMMA UnledgeredFits ==
  ASSUME NEW name \in ArtifactNames \cap AgentWords, Writer(name) = Group(Current),
         NEW answer
  PROVE  Fits(answer, Unledgered(name))
<1> DEFINE entry == Unledgered(name)
<1>1. entry \in EntryType
  <2>1. "COMMAND_OUTPUT" \in ArtifactType /\ "INFO" \in {"PASS", "FAIL", "INFO"}
    BY DEF ArtifactType
  <2> QED BY <2>1, Zenon DEF Unledgered, EntryType
<1>2. entry.name = name /\ entry.type = "COMMAND_OUTPUT" /\ ~entry.ledgered
  BY EntryFacts
<1> HIDE DEF entry
<1>3. Fits(answer, entry)
  BY <1>1, <1>2 DEF Fits
<1> QED BY <1>3 DEF entry

\* Storing nothing, one artifact, two or three of different names.
LEMMA NothingStored == \A answer : Storable(answer, <<>>)
BY DEF Storable

LEMMA OneStored ==
  ASSUME NEW answer, NEW entry, Fits(answer, entry)
  PROVE  Storable(answer, <<entry>>)
<1>1. entry \in EntryType
  BY DEF Fits
<1> QED BY <1>1 DEF Storable

LEMMA TwoStored ==
  ASSUME NEW answer, NEW d, NEW e, Fits(answer, d), Fits(answer, e), d.name # e.name
  PROVE  Storable(answer, <<d, e>>)
<1>1. d \in EntryType /\ e \in EntryType
  BY DEF Fits
<1> QED BY <1>1 DEF Storable

LEMMA ThreeStored ==
  ASSUME NEW answer, NEW d, NEW e, NEW f,
         Fits(answer, d), Fits(answer, e), Fits(answer, f),
         d.name # e.name, d.name # f.name, e.name # f.name
  PROVE  Storable(answer, <<d, e, f>>)
<1>1. d \in EntryType /\ e \in EntryType /\ f \in EntryType
  BY DEF Fits
<1> QED BY <1>1 DEF Storable

\* The report most handlers store.
LEMMA EntryStored ==
  ASSUME NEW name, Owns(Current, name), NEW type \in ArtifactType \ {"DIFF"},
         type = "VERIFIER_REPORT" => Current \in Verifiers,
         NEW result \in {"PASS", "FAIL", "INFO"}, NEW answer,
         result = "FAIL" => type = "TEST" \/ Objects(answer)
  PROVE  Storable(answer, <<Entry(name, type, result)>>)
BY EntryFits, OneStored

\* A handler that a verdict does not rest on does what handlers may.
LEMMA PlainHandled ==
  ASSUME NEW name, At(name), name \notin Special,
         NEW answer \in Replies, NEW entries, NEW context,
         Respond(answer, entries, context), ReqKept,
         Storable(answer, entries), Kept(context)
  PROVE  Handled
<1>1. phase = "running" /\ Current \notin Special
  BY DEF At
<1>2. Shared(context)
  BY DEF Kept, Shared
<1>3. /\ Captured(context) /\ Reproducing(answer, entries)
      /\ Voted(answer, entries, context)
  BY <1>1 DEF Captured, Reproducing, Voted, Special, Sources
<1> QED BY <1>1, <1>2, <1>3 DEF Handled, Handles

\* The shapes several handlers share.
LEMMA ReportsHandled ==
  ASSUME Typed, NEW name, name \notin Special, NEW artifact, Owns(name, artifact),
         NEW type \in ArtifactType \ {"DIFF", "VERIFIER_REPORT"},
         Reports(name, artifact, type)
  PROVE  Handled
<1>1. At(name) /\ Respond(Ok, <<Entry(artifact, type, "INFO")>>, ctx) /\ ReqKept
  BY DEF Reports, ReqKept
<1>2. Storable(Ok, <<Entry(artifact, type, "INFO")>>)
  BY <1>1, EntryStored DEF At
<1> QED BY <1>1, <1>2, KeptFacts, PlainHandled DEF Replies

LEMMA ScreensHandled ==
  ASSUME Typed, NEW name, name \notin Special, NEW artifact, Owns(name, artifact),
         NEW type \in ArtifactType \ {"DIFF", "VERIFIER_REPORT"}, NEW clean \in {"PASS", "INFO"},
         NEW dirty \in {"FAIL", "INFO"}, NEW context, Kept(context),
         Screens(name, artifact, type, clean, dirty, context)
  PROVE  Handled
<1>1. At(name) /\ ReqKept
  BY DEF Screens, ReqKept
<1>2. CASE Respond(Ok, <<Entry(artifact, type, clean)>>, context)
  <2>1. Storable(Ok, <<Entry(artifact, type, clean)>>)
    BY <1>1, EntryStored DEF At
  <2> QED BY <1>1, <1>2, <2>1, PlainHandled DEF Replies
<1>3. CASE Respond(Failed, <<Entry(artifact, type, dirty)>>, context)
  <2>1. Storable(Failed, <<Entry(artifact, type, dirty)>>)
    BY <1>1, ReplyFacts, EntryStored DEF At
  <2> QED BY <1>1, <1>3, <2>1, PlainHandled DEF Replies
<1> QED BY <1>2, <1>3 DEF Screens, Passes

LEMMA AnswersHandled ==
  ASSUME Typed, NEW name, name \notin Special, NEW answers \in SUBSET Replies,
         Answers(name, answers)
  PROVE  Handled
BY KeptFacts, NothingStored, PlainHandled DEF Answers, ReqKept

------------------------------------------------------------------------------
\* Every handler of the repository keeps to that contract.

\* Whose the artifacts are.
LEMMA Owners ==
  /\ Owns("DefinitionOfDoneLock", "definition_of_done_lock.json")
  /\ Owns("RepoInventory", "repo_tree.log")
  /\ Owns("CommandDiscovery", "command_discovery.log")
  /\ Owns("CIInventory", "ci_inventory.log")
  /\ Owns("DependencyInventory", "dependency_inventory.log")
  /\ Owns("AIReadinessScoring", "codebase_ai_readiness_report.json")
  /\ Owns("StrategicProgrammingAssessment", "strategic_programming_assessment.json")
  /\ Owns("BacklogFindingGenerator", "ai_safety_gap_backlog.json")
  /\ Owns("BacklogUpdate", "recommended_sprint_plan.json")
  /\ Owns("TestRunner", "test_output.log")
  /\ Owns("FailureReproduction", "failure_reproduction.log")
  /\ Owns("Reproduction", "ci_failure_reproduction.log")
  /\ Owns("Evaluator", "evaluation_report.json")
  /\ Owns("SecurityReviewTestsNotApplicable", "security_review_tests_not_applicable.json")
  /\ Owns("SecretScan", "secret_scan.log")
  /\ Owns("InputValidationRisk", "input_validation_risk.log")
  /\ Owns("AuthChangeRisk", "auth_change_risk.log")
  /\ Owns("DependencyVulnerability", "dependency_vulnerability.log")
  /\ Owns("DependencyRisk", "dependency_risk.log")
  /\ Owns("LicenseCheck", "license_check.log")
  /\ Owns("LockfileValidation", "lockfile_validation.log")
  /\ Owns("Build", "build_output.log")
  /\ Owns("DocumentationGap", "documentation_gap.log")
  /\ Owns("LinkCheck", "link_check.log")
  /\ Owns("CIFailureLogParser", "ci_failure_parsed.log")
  /\ Owns("FailureClassification", "ci_failure_classification.log")
  /\ Owns("CIConfigValidation", "ci_config_validation.log")
  /\ Owns("DiffCapture", "diff.patch")
  /\ Owns("DiffCapture", "git_status.log")
  /\ Owns("DiffCapture", "diff_check.log")
  /\ Owns("MemoryUpdate", "memory_update_record.json")
  /\ Owns("MemoryUpdate", "memory_update_skip_reason.json")
  /\ Owns("PRGate", "pr_body.md")
  /\ Owns("PRGate", "pr_gate_report.json")
  /\ \A v \in Verifiers : Owns(v, "verifier_report.json")
BY DEF Owns, Writer, Group, Verifiers, AgentTools, AgentWords, QuarantinedNames,
       ArtifactNames

\* The control handlers keep to the contract.
LEMMA ControlHandled ==
  ASSUME Typed, ControlHandlers, ~StopOrLoop
  PROVE  Handled
<1>1. ASSUME ManifestValidation PROVE Handled
  <2>1. At("ManifestValidation") /\ ReqKept
    BY <1>1 DEF ManifestValidation, ReqKept
  <2> DEFINE Replied(answer, context) ==
               /\ Respond(answer, <<>>, context)
               /\ \/ context = ctx
                  \/ \E coding, verifier \in RunIds[task] :
                       context = [ctx EXCEPT !.coding_run = coding, !.verifier_run = verifier]
  <2>2. PICK answer \in Replies : \E context : Replied(answer, context)
    BY <1>1 DEF ManifestValidation, Passes, Replies
  <2>3. PICK context : Replied(answer, context)
    BY <2>2
  <2>4. Shared(context)
    BY <2>1, <2>3, KeptFacts DEF Shared, ReadsSeen, Context, At, Sources
  <2>5. Current = "ManifestValidation" /\ phase = "running"
    BY <2>1 DEF At
  <2>6. /\ Captured(context) /\ Reproducing(answer, <<>>)
        /\ Voted(answer, <<>>, context)
    BY <2>5 DEF Captured, Reproducing, Voted, Reproductions, Verifiers
  <2> QED BY <2>1, <2>3, <2>4, <2>5, <2>6, NothingStored DEF Handled, Handles
<1>2. ASSUME ScrumMapping PROVE Handled
  BY <1>2, AnswersHandled
     DEF ScrumMapping, Replies, Special, Sources, Reproductions, Verifiers
<1>3. ASSUME DefinitionOfDoneLock PROVE Handled
  <2> DEFINE entries == <<Entry("definition_of_done_lock.json", "SCRUM_MAPPING", "INFO")>>
  <2>1. /\ At("DefinitionOfDoneLock") /\ ReqKept
        /\ Respond(Failed, <<>>, ctx) \/ Respond(Ok, entries, ctx)
    BY <1>3 DEF DefinitionOfDoneLock, ReqKept
  <2>2. Storable(Ok, entries)
    BY <2>1, Owners, EntryStored DEF At, ArtifactType
  <2> HIDE DEF entries
  <2> QED BY <2>1, <2>2, KeptFacts, NothingStored, PlainHandled
          DEF Replies, Special, Sources, Reproductions, Verifiers
<1>4. ASSUME ScopeValidation PROVE Handled
  BY <1>4, AnswersHandled, ReplyFacts
     DEF ScopeValidation, Special, Sources, Reproductions, Verifiers
<1>5. ASSUME EvidenceGate PROVE Handled
  BY <1>5, AnswersHandled, ReplyFacts
     DEF EvidenceGate, Special, Sources, Reproductions, Verifiers
<1> QED BY <1>1, <1>2, <1>3, <1>4, <1>5 DEF ControlHandlers

\* The analysis handlers that no verdict rests on.
LEMMA AnalysisPlain ==
  ASSUME Typed,
         \/ CommandDiscovery \/ CIInventory \/ DependencyInventory \/ AIReadinessScoring
         \/ StrategicProgrammingAssessment \/ BacklogFindingGenerator \/ BacklogUpdate
  PROVE  Handled
<1> USE Owners DEF Special, Sources, Reproductions, Verifiers, ArtifactType
<1>1. CASE CommandDiscovery
  BY <1>1, ReportsHandled DEF CommandDiscovery
<1>2. CASE CIInventory
  BY <1>2, ReportsHandled DEF CIInventory
<1>3. CASE DependencyInventory
  BY <1>3, ReportsHandled DEF DependencyInventory
<1>4. CASE AIReadinessScoring
  BY <1>4, ReportsHandled DEF AIReadinessScoring
<1>5. CASE StrategicProgrammingAssessment
  BY <1>5, ReportsHandled DEF StrategicProgrammingAssessment
<1>6. CASE BacklogFindingGenerator
  BY <1>6, ReportsHandled DEF BacklogFindingGenerator
<1>7. CASE BacklogUpdate
  BY <1>7, ReportsHandled DEF BacklogUpdate
<1> QED BY <1>1, <1>2, <1>3, <1>4, <1>5, <1>6, <1>7

\* Storing one batch after another: each stays where it was, moved by what is before it.
LEMMA Concatenated ==
  ASSUME NEW S, NEW s \in Seq(S), NEW t \in Seq(S)
  PROVE  /\ s \o t \in Seq(S) /\ Len(s \o t) = Len(s) + Len(t)
         /\ \A i \in DOMAIN s : i \in DOMAIN (s \o t) /\ (s \o t)[i] = s[i]
         /\ \A i \in DOMAIN t : Len(s) + i \in DOMAIN (s \o t) /\ (s \o t)[Len(s) + i] = t[i]
         /\ \A i \in DOMAIN (s \o t) :
              \/ i \in DOMAIN s
              \/ i > Len(s) /\ i - Len(s) \in DOMAIN t /\ (s \o t)[i] = t[i - Len(s)]
OBVIOUS

\* Batches of the handler's that share no name make a batch.
LEMMA BothStored ==
  ASSUME NEW answer, NEW s, NEW t, Storable(answer, s), Storable(answer, t),
         \A i \in DOMAIN s, j \in DOMAIN t : s[i].name # t[j].name
  PROVE  Storable(answer, s \o t)
<1>1. s \in Seq(EntryType) /\ t \in Seq(EntryType)
  BY DEF Storable
<1>2. /\ s \o t \in Seq(EntryType)
      /\ \A i \in DOMAIN (s \o t) :
           \/ i \in DOMAIN s /\ (s \o t)[i] = s[i]
           \/ i > Len(s) /\ i - Len(s) \in DOMAIN t /\ (s \o t)[i] = t[i - Len(s)]
  BY <1>1, Concatenated
<1> DEFINE u == s \o t
<1>3. /\ u \in Seq(EntryType)
      /\ \A i \in DOMAIN u :
           \/ i \in DOMAIN s /\ u[i] = s[i]
           \/ i > Len(s) /\ i - Len(s) \in DOMAIN t /\ u[i] = t[i - Len(s)]
      /\ Len(s) \in Nat /\ DOMAIN u \subseteq Nat
  BY <1>1, <1>2
<1> HIDE DEF u
<1>4. \A i \in DOMAIN u : Fits(answer, u[i])
  <2>1. \A i \in DOMAIN s : Fits(answer, s[i])
    BY DEF Storable
  <2>2. \A i \in DOMAIN t : Fits(answer, t[i])
    BY DEF Storable
  <2> QED BY <1>3, <2>1, <2>2
<1>5. ASSUME NEW i \in DOMAIN u, NEW j \in DOMAIN u, u[i].name = u[j].name
      PROVE  i = j
  <2>1. CASE i \in DOMAIN s /\ u[i] = s[i] /\ j \in DOMAIN s /\ u[j] = s[j]
    BY <1>5, <2>1 DEF Storable
  <2>2. CASE /\ i - Len(s) \in DOMAIN t /\ u[i] = t[i - Len(s)]
             /\ j - Len(s) \in DOMAIN t /\ u[j] = t[j - Len(s)]
    <3>1. i - Len(s) = j - Len(s)
      BY <1>5, <2>2 DEF Storable
    <3> QED BY <1>3, <3>1
  <2> QED BY <1>3, <1>5, <2>1, <2>2
<1> QED BY <1>3, <1>4, <1>5 DEF Storable, u

\* An agent runs a tool once.
LEMMA ToolRunFacts ==
  ASSUME NEW ran \in ToolRuns
  PROVE  /\ ran \in Seq(1 .. 4)
         /\ \A i, j \in DOMAIN ran : ran[i] = ran[j] => i = j
<1>1. PICK n \in 0 .. 4 : ran \in [1 .. n -> 1 .. 4]
  BY DEF ToolRuns
<1>2. \A i, j \in DOMAIN ran : i < j => ran[i] < ran[j]
  BY DEF ToolRuns
<1>3. \A i, j \in DOMAIN ran : ran[i] = ran[j] => i = j
  BY <1>1, <1>2
<1> QED BY <1>1, <1>3

\* The logs of the tools an analysis agent ran, and the words and record of its model.
LEMMA AgentStored ==
  ASSUME Current = "AnalysisAgentInvocation", NEW ran \in ToolRuns, NEW answer
  PROVE  LET logs == [i \in DOMAIN ran |-> ToolLog(AgentTools[ran[i]])]
         IN  /\ Storable(answer, logs)
             /\ Storable(answer, logs \o Invocation \o AgentOutput)
<1> DEFINE logs == [i \in DOMAIN ran |-> ToolLog(AgentTools[ran[i]])]
<1>1. /\ ran \in Seq(1 .. 4) /\ DOMAIN logs = DOMAIN ran
      /\ \A i, j \in DOMAIN ran : ran[i] = ran[j] => i = j
  BY ToolRunFacts
<1>2. ASSUME NEW k \in 1 .. 4
      PROVE  /\ AgentTools[k] \in ArtifactNames \ AgentWords
             /\ Writer(AgentTools[k]) = Group(Current)
             /\ \A j \in 1 .. 4 : AgentTools[j] = AgentTools[k] => j = k
             /\ AgentTools[k] \notin {"llm_request_LLM0001.txt", "llm_response_LLM0001.txt",
                                      "llm_invocation_LLM0001.json"}
  <2>1. k = 1 \/ k = 2 \/ k = 3 \/ k = 4
    OBVIOUS
  <2>2. /\ AgentTools[1] = "tool_list_repo_tree.log"
        /\ AgentTools[2] = "tool_discover_commands.log"
        /\ AgentTools[3] = "tool_inspect_ci_config.log"
        /\ AgentTools[4] = "tool_inspect_dependencies.log"
    BY DEF AgentTools
  <2>3. AgentTools[k] \in ArtifactNames \ AgentWords
    BY <2>1, <2>2 DEF ArtifactNames, AgentWords, QuarantinedNames
  <2>4. \A j \in 1 .. 4 : AgentTools[j] = AgentTools[k] => j = k
    BY <2>1, <2>2
  <2>5. AgentTools[k] \notin {"llm_request_LLM0001.txt", "llm_response_LLM0001.txt",
                             "llm_invocation_LLM0001.json"}
    BY <2>1, <2>2
  <2>6. Writer(AgentTools[k]) = "Agent"
    <3>1. /\ Writer(AgentTools[1]) = "Agent" /\ Writer(AgentTools[2]) = "Agent"
          /\ Writer(AgentTools[3]) = "Agent" /\ Writer(AgentTools[4]) = "Agent"
      BY DEF AgentTools, Writer
    <3> QED BY <2>1, <3>1
  <2> QED BY <2>3, <2>4, <2>5, <2>6 DEF Group, Verifiers
<1>3. ASSUME NEW i \in DOMAIN logs
      PROVE  Fits(answer, logs[i]) /\ logs[i].name = AgentTools[ran[i]] /\ ran[i] \in 1 .. 4
  <2>1. ran[i] \in 1 .. 4
    BY <1>1
  <2>2. Owns(Current, AgentTools[ran[i]])
    BY <1>2, <2>1 DEF Owns
  <2>3. logs[i] = Entry(AgentTools[ran[i]], "COMMAND_OUTPUT", "INFO")
    BY <1>1 DEF ToolLog
  <2> HIDE DEF logs
  <2> QED BY <2>1, <2>2, <2>3, EntryFits, EntryFacts DEF ArtifactType
<1>4. logs \in Seq(EntryType)
  <2>1. \A i \in DOMAIN logs : logs[i] \in EntryType
    BY <1>3 DEF Fits
  <2>2. ran \in [1 .. Len(ran) -> 1 .. 4] /\ Len(ran) \in Nat
    BY <1>1
  <2>3. logs \in [1 .. Len(ran) -> EntryType]
    BY <2>1, <2>2
  <2> QED BY <2>2, <2>3
<1> HIDE DEF logs
<1>5. Storable(answer, logs)
  <2>1. \A i, j \in DOMAIN logs : logs[i].name = logs[j].name => i = j
    BY <1>1, <1>2, <1>3
  <2> QED BY <1>3, <1>4, <2>1 DEF Storable
<1> DEFINE request == Unledgered("llm_request_LLM0001.txt")
           response == Unledgered("llm_response_LLM0001.txt")
           record == Entry("llm_invocation_LLM0001.json", "LLM_INVOCATION", "INFO")
           raw == Unledgered("raw_agent_output.log")
           summary == Unledgered("agent_summary.md")
<1>6. /\ request.name = "llm_request_LLM0001.txt"
      /\ response.name = "llm_response_LLM0001.txt"
      /\ record.name = "llm_invocation_LLM0001.json"
      /\ raw.name = "raw_agent_output.log" /\ summary.name = "agent_summary.md"
  BY EntryFacts
<1>7. /\ Fits(answer, request) /\ Fits(answer, response)
      /\ Fits(answer, raw) /\ Fits(answer, summary)
  <2>1. \A name \in {"llm_request_LLM0001.txt", "llm_response_LLM0001.txt",
                     "raw_agent_output.log", "agent_summary.md"} :
          name \in ArtifactNames \cap AgentWords /\ Writer(name) = Group(Current)
    BY DEF ArtifactNames, Writer, Group, Verifiers, AgentTools, AgentWords, QuarantinedNames
  <2> QED BY <2>1, UnledgeredFits
<1>8. Fits(answer, record)
  <2>1. Owns(Current, "llm_invocation_LLM0001.json")
    BY DEF Owns, ArtifactNames, Writer, Group, Verifiers, AgentTools, AgentWords,
           QuarantinedNames
  <2> QED BY <2>1, EntryFits DEF ArtifactType
<1> HIDE DEF request, response, record, raw, summary
<1>9. Invocation = <<request, response, record>> /\ AgentOutput = <<raw, summary>>
  BY DEF Invocation, AgentOutput, request, response, record, raw, summary
<1>10. Storable(answer, Invocation) /\ Storable(answer, AgentOutput)
  BY <1>6, <1>7, <1>8, <1>9, ThreeStored, TwoStored
<1>11. /\ \A i \in DOMAIN Invocation :
             Invocation[i].name \in {"llm_request_LLM0001.txt", "llm_response_LLM0001.txt",
                                     "llm_invocation_LLM0001.json"}
       /\ \A i \in DOMAIN AgentOutput : AgentOutput[i].name \in QuarantinedNames
  BY <1>6, <1>9 DEF QuarantinedNames
<1>12. Storable(answer, logs \o Invocation)
  <2>1. \A i \in DOMAIN logs, j \in DOMAIN Invocation : logs[i].name # Invocation[j].name
    BY <1>2, <1>3, <1>11
  <2> QED BY <1>5, <1>10, <2>1, BothStored
<1>13. Storable(answer, logs \o Invocation \o AgentOutput)
  <2>1. logs \in Seq(EntryType) /\ Invocation \in Seq(EntryType)
    BY <1>5, <1>10 DEF Storable
  <2>2. \A i \in DOMAIN (logs \o Invocation) :
          (logs \o Invocation)[i].name \notin QuarantinedNames
    <3>1. \A i \in DOMAIN logs : logs[i].name \notin QuarantinedNames
      BY <1>2, <1>3 DEF AgentWords
    <3>2. \A i \in DOMAIN Invocation : Invocation[i].name \notin QuarantinedNames
      BY <1>11 DEF QuarantinedNames
    <3> QED BY <2>1, <3>1, <3>2, Concatenated
  <2>3. \A i \in DOMAIN (logs \o Invocation), j \in DOMAIN AgentOutput :
          (logs \o Invocation)[i].name # AgentOutput[j].name
    BY <1>11, <2>2
  <2> QED BY <1>10, <1>12, <2>3, BothStored
<1> QED BY <1>5, <1>13 DEF logs

\* The analysis agent, whose run id the verifier's is compared with.
LEMMA AnalysisAgentHandled ==
  ASSUME Typed, AnalysisAgentInvocation
  PROVE  Handled
<1>1. Current = "AnalysisAgentInvocation" /\ phase = "running" /\ ReqKept
  BY DEF AnalysisAgentInvocation, At, ReqKept
<1> DEFINE Replied(answer, entries, context) ==
             /\ Respond(answer, entries, context)
             /\ Storable(answer, entries)
             /\ \/ context \in {ctx, HavingRead(ctx)}
                \/ \E id \in RunIds[task] \cup {"analysis-agent"} :
                     context = [HavingRead(ctx) EXCEPT !.agent_output = TRUE,
                                                       !.coding_run = id]
<1>2. PICK answer \in Replies : \E entries, context : Replied(answer, entries, context)
  <2> DEFINE Logged(ran) == [i \in DOMAIN ran |-> ToolLog(AgentTools[ran[i]])]
  <2>1. CASE Respond(Skipped, <<>>, ctx)
    <3>1. Replied(Skipped, <<>>, ctx)
      BY <2>1, NothingStored
    <3> QED BY <3>1 DEF Replies
  <2>2. ASSUME NEW ran \in ToolRuns, Respond(Blocked, Logged(ran), HavingRead(ctx))
        PROVE  \E answer \in Replies : \E entries, context : Replied(answer, entries, context)
    <3>1. Replied(Blocked, Logged(ran), HavingRead(ctx))
      BY <1>1, <2>2, AgentStored
    <3> QED BY <3>1 DEF Replies
  <2>3. ASSUME NEW ran \in ToolRuns, NEW id \in RunIds[task] \cup {"analysis-agent"},
               Respond(Ok, Logged(ran) \o Invocation \o AgentOutput,
                       [HavingRead(ctx) EXCEPT !.agent_output = TRUE, !.coding_run = id])
        PROVE  \E answer \in Replies : \E entries, context : Replied(answer, entries, context)
    <3>1. Replied(Ok, Logged(ran) \o Invocation \o AgentOutput,
               [HavingRead(ctx) EXCEPT !.agent_output = TRUE, !.coding_run = id])
      BY <1>1, <2>3, AgentStored
    <3> QED BY <3>1 DEF Replies
  <2>4. \/ Respond(Skipped, <<>>, ctx)
        \/ \E ran \in ToolRuns :
             \/ Respond(Blocked, Logged(ran), HavingRead(ctx))
             \/ \E id \in RunIds[task] \cup {"analysis-agent"} :
                  Respond(Ok, Logged(ran) \o Invocation \o AgentOutput,
                          [HavingRead(ctx) EXCEPT !.agent_output = TRUE, !.coding_run = id])
    BY DEF AnalysisAgentInvocation
  <2> QED BY <2>1, <2>2, <2>3, <2>4
<1>3. PICK entries, context : Replied(answer, entries, context)
  BY <1>2
<1>4. Shared(context)
  <2>1. Kept(ctx) /\ Kept(HavingRead(ctx)) /\ HavingRead(ctx) \in Context
    BY KeptFacts DEF Kept, ReadsSeen
  <2>2. CASE context \in {ctx, HavingRead(ctx)}
    BY <2>1, <2>2 DEF Kept, Shared
  <2>3. CASE \E id \in RunIds[task] \cup {"analysis-agent"} :
               context = [HavingRead(ctx) EXCEPT !.agent_output = TRUE, !.coding_run = id]
    <3>1. PICK id \in RunIds[task] \cup {"analysis-agent"} :
            context = [HavingRead(ctx) EXCEPT !.agent_output = TRUE, !.coding_run = id]
      BY <2>3
    <3>2. context \in Context
      BY <2>1, <3>1 DEF Context
    <3>3. /\ context.saw = HavingRead(ctx).saw
          /\ context.verifier_run = HavingRead(ctx).verifier_run
          /\ context.changed = HavingRead(ctx).changed
          /\ context.whole = HavingRead(ctx).whole
          /\ context.tests = HavingRead(ctx).tests
      BY <2>1, <3>1 DEF Context
    <3> QED BY <1>1, <2>1, <3>2, <3>3 DEF Kept, Shared, ReadsSeen, Sources
  <2> QED BY <1>3, <2>2, <2>3
<1>5. /\ Captured(context) /\ Reproducing(answer, entries)
      /\ Voted(answer, entries, context)
  BY <1>1 DEF Captured, Reproducing, Voted, Reproductions, Verifiers
<1> QED BY <1>1, <1>3, <1>4, <1>5 DEF Handled, Handles

\* All the analysis handlers.
LEMMA AnalysisHandled ==
  ASSUME Typed, AnalysisHandlers
  PROVE  Handled
<1> USE DEF Special, Sources, Reproductions, Verifiers
<1>1. ASSUME RepoInventory PROVE Handled
  <2> DEFINE entries == <<Entry("repo_tree.log", "ANALYSIS_REPORT", "INFO")>>
  <2>1. At("RepoInventory") /\ ReqKept /\ Respond(Ok, entries, HavingRead(ctx))
    BY <1>1 DEF RepoInventory, ReqKept
  <2>2. Storable(Ok, entries)
    BY <2>1, Owners, EntryStored DEF At, ArtifactType
  <2> HIDE DEF entries
  <2> QED BY <2>1, <2>2, KeptFacts, PlainHandled DEF Replies
<1>2. ASSUME ReadOnlyCompliance PROVE Handled
  <2>1. /\ At("ReadOnlyCompliance") /\ ReqKept
        /\ \E answer \in Replies : Respond(answer, <<>>, ctx)
    BY <1>2, ReplyFacts DEF ReadOnlyCompliance, ReqKept
  <2> QED BY <2>1, KeptFacts, NothingStored, PlainHandled
<1>3. ASSUME StructuredOutputParser PROVE Handled
  <2> DEFINE entries == <<Unledgered("structured_agent_output.json")>>
  <2>1. /\ At("StructuredOutputParser") /\ ReqKept
        /\ \/ Respond(Skipped, <<>>, ctx)
           \/ Respond(Blocked, <<>>, ctx)
           \/ Respond(Ok, entries, ctx)
    BY <1>3 DEF StructuredOutputParser, ReqKept
  <2>2. Storable(Ok, entries)
    <3>1. /\ "structured_agent_output.json" \in ArtifactNames \cap AgentWords
          /\ Writer("structured_agent_output.json") = Group(Current)
      BY <2>1 DEF At, ArtifactNames, AgentWords, Writer, Group, Verifiers, AgentTools,
                  QuarantinedNames
    <3> QED BY <3>1, UnledgeredFits, OneStored
  <2> HIDE DEF entries
  <2> QED BY <2>1, <2>2, KeptFacts, NothingStored, PlainHandled DEF Replies
<1> QED BY <1>1, <1>2, <1>3, AnalysisPlain, AnalysisAgentHandled DEF AnalysisHandlers

------------------------------------------------------------------------------
\* What a command run leaves in the context.
LEMMA CaptureFacts ==
  ASSUME Typed, NEW run \in Captures
  PROVE  Kept(run.after) /\ run.logs \in Logs
<1>1. run.after \in {ctx, HavingRead(ctx)} /\ run.logs \in Logs
  BY DEF Captures
<1> QED BY <1>1, KeptFacts

\* A field that no verdict rests on.
LEMMA KeptEdit ==
  ASSUME NEW context, Kept(context)
  PROVE  /\ \A b \in BOOLEAN : /\ Kept([context EXCEPT !.strategic = b])
                               /\ Kept([context EXCEPT !.quarantined = b])
         /\ \A l \in Logs : /\ Kept([context EXCEPT !.reproduction = l])
                            /\ Kept([context EXCEPT !.build = l])
BY DEF Kept, ReadsSeen, Context

\* The reproductions, which answer Ok only when they have recorded a failure.
LEMMA ReproductionHandled ==
  ASSUME Typed, NEW name \in Reproductions, NEW artifact, Owns(name, artifact),
         RunsReproduction(name, artifact)
  PROVE  Handled
<1>1. Current = name /\ phase = "running" /\ ReqKept
  BY DEF RunsReproduction, At, ReqKept
<1> DEFINE Replied(answer, entries, context) ==
             /\ Respond(answer, entries, context)
             /\ Kept(context)
             /\ Storable(answer, entries)
             /\ \/ Objects(answer)
                \/ \E i \in DOMAIN entries : entries[i].type = "TEST" /\ entries[i].result = "FAIL"
<1>2. PICK answer \in Replies : \E entries, context : Replied(answer, entries, context)
  <2>1. CASE Respond(Blocked, <<>>, ctx)
    BY <2>1, KeptFacts, NothingStored, ReplyFacts DEF Replies
  <2>2. ASSUME NEW run \in Captures,
               Respond(Ok, <<Entry(artifact, "TEST", "FAIL")>>,
                       [run.after EXCEPT !.reproduction = run.logs])
        PROVE  \E context : /\ Respond(Ok, <<Entry(artifact, "TEST", "FAIL")>>, context)
                            /\ Kept(context)
    BY <2>2, CaptureFacts, KeptEdit
  <2>3. ASSUME NEW run \in Captures,
               Respond(Failed, <<Entry(artifact, "TEST", "PASS")>>, run.after)
        PROVE  \E context : /\ Respond(Failed, <<Entry(artifact, "TEST", "PASS")>>, context)
                            /\ Kept(context)
    BY <2>3, CaptureFacts
  <2>4. \A result \in {"PASS", "FAIL"} : \A answer :
          Storable(answer, <<Entry(artifact, "TEST", result)>>)
    BY <1>1, EntryStored DEF ArtifactType
  <2>5. /\ DOMAIN <<Entry(artifact, "TEST", "FAIL")>> = {1}
        /\ <<Entry(artifact, "TEST", "FAIL")>>[1].type = "TEST"
        /\ <<Entry(artifact, "TEST", "FAIL")>>[1].result = "FAIL"
    BY EntryFacts
  <2>6. \/ Respond(Blocked, <<>>, ctx)
        \/ \E run \in Captures :
             \/ Respond(Ok, <<Entry(artifact, "TEST", "FAIL")>>,
                        [run.after EXCEPT !.reproduction = run.logs])
             \/ Respond(Failed, <<Entry(artifact, "TEST", "PASS")>>, run.after)
    BY DEF RunsReproduction
  <2>7. CASE \E context : /\ Respond(Ok, <<Entry(artifact, "TEST", "FAIL")>>, context)
                          /\ Kept(context)
    BY <2>4, <2>5, <2>7 DEF Replies
  <2>8. CASE \E context : /\ Respond(Failed, <<Entry(artifact, "TEST", "PASS")>>, context)
                          /\ Kept(context)
    BY <2>4, <2>8, ReplyFacts DEF Replies
  <2> QED BY <2>1, <2>2, <2>3, <2>6, <2>7, <2>8
<1>3. PICK entries, context : Replied(answer, entries, context)
  BY <1>2
<1>4. Shared(context) /\ Captured(context) /\ Voted(answer, entries, context)
  BY <1>1, <1>3 DEF Kept, Shared, Captured, Voted, Reproductions, Verifiers
<1> QED BY <1>1, <1>3, <1>4 DEF Handled, Handles, Reproducing

\* The diff, whose list, if it is whole, is of a content the directory had meanwhile.
LEMMA DiffHandled ==
  ASSUME Typed, DiffCapture
  PROVE  Handled
<1>1. Current = "DiffCapture" /\ phase = "running" /\ ReqKept
  BY DEF DiffCapture, At, ReqKept
<1>2. \A answer : Storable(answer, DiffArtifacts)
  <2> DEFINE d == Entry("diff.patch", "DIFF", "INFO")
             e == Entry("git_status.log", "COMMAND_OUTPUT", "INFO")
             f == Entry("diff_check.log", "COMMAND_OUTPUT", "INFO")
  <2>1. /\ d.name = "diff.patch" /\ e.name = "git_status.log" /\ f.name = "diff_check.log"
    BY EntryFacts
  <2>2. \A answer : Fits(answer, d) /\ Fits(answer, e) /\ Fits(answer, f)
    BY <1>1, Owners, EntryFits DEF ArtifactType
  <2> HIDE DEF d, e, f
  <2>3. \A answer : Storable(answer, <<d, e, f>>)
    BY <2>1, <2>2, ThreeStored
  <2> QED BY <2>3 DEF d, e, f, DiffArtifacts
<1> DEFINE Listed(context, read) ==
             \E files \in SUBSET Files, whole \in BOOLEAN :
               /\ whole => \E named \in seen : files = Changed[named]
               /\ context = [read EXCEPT !.changed = files, !.whole = whole]
<1>3. /\ \A t \in seen : Changed[t] \in SUBSET Files
      /\ Kept(ctx) /\ Kept(HavingRead(ctx))
  BY KeptFacts, HandlersAssumption DEF Typed, IInv, TypeOK, HandlersAssumption
<1> DEFINE Replied(answer, entries, context) ==
             /\ Respond(answer, entries, context)
             /\ entries \in {<<>>, DiffArtifacts}
             /\ \E read : Kept(read) /\ (context = read \/ Listed(context, read))
<1>4. PICK answer \in Replies : \E entries, context : Replied(answer, entries, context)
  <2>1. ASSUME NEW files \in SUBSET Files,
               Respond(Ok, DiffArtifacts, [ctx EXCEPT !.changed = files, !.whole = FALSE])
        PROVE  \E context : Respond(Ok, DiffArtifacts, context) /\ Listed(context, ctx)
    BY <2>1
  <2>2. ASSUME NEW whole \in BOOLEAN, NEW files \in GitLists(whole), NEW answer \in {Ok, Failed},
               Respond(answer, DiffArtifacts,
                       [HavingRead(ctx) EXCEPT !.changed = files, !.whole = whole])
        PROVE  \E context : /\ Respond(answer, DiffArtifacts, context)
                            /\ Listed(context, HavingRead(ctx))
    <3>1. files \in SUBSET Files /\ (whole => \E named \in seen : files = Changed[named])
      BY <1>3 DEF GitLists
    <3> QED BY <2>2, <3>1
  <2>3. \/ \E files \in SUBSET Files :
             Respond(Ok, DiffArtifacts, [ctx EXCEPT !.changed = files, !.whole = FALSE])
        \/ \E whole \in BOOLEAN : \E files \in GitLists(whole), answer \in {Ok, Failed} :
             Respond(answer, DiffArtifacts,
                     [HavingRead(ctx) EXCEPT !.changed = files, !.whole = whole])
        \/ Respond(Blocked, <<>>, ctx)
    BY DEF DiffCapture, Passes
  <2> HIDE DEF Listed
  <2> QED BY <1>3, <2>1, <2>2, <2>3 DEF Replies
<1>5. PICK entries, context : Replied(answer, entries, context)
  BY <1>4
<1>6. Storable(answer, entries)
  BY <1>2, <1>5, NothingStored
<1>7. Shared(context) /\ Captured(context)
  <2>1. PICK read : Kept(read) /\ (context = read \/ Listed(context, read))
    BY <1>5
  <2>2. CASE context = read
    BY <2>1, <2>2 DEF Shared, Kept, Captured
  <2>3. ASSUME NEW files \in SUBSET Files, NEW whole \in BOOLEAN,
               whole => \E named \in seen : files = Changed[named],
               context = [read EXCEPT !.changed = files, !.whole = whole]
        PROVE  Shared(context) /\ Captured(context)
    <3>1. read \in Context
      BY <2>1 DEF Kept, ReadsSeen
    <3>2. /\ context.saw = read.saw
          /\ context.coding_run = read.coding_run
          /\ context.verifier_run = read.verifier_run
          /\ context.tests = read.tests /\ context.changed = files
      BY <2>3, <3>1 DEF Context
    <3>3. context \in Context
      BY <2>3, <3>1, Zenon DEF Context
    <3>4. context.whole = whole
      BY <2>3, <3>1, Zenon DEF Context
    <3> QED BY <1>1, <2>1, <2>3, <3>2, <3>3, <3>4 DEF Kept, Shared, ReadsSeen, Captured
  <2> QED BY <2>1, <2>2, <2>3
<1>8. Reproducing(answer, entries) /\ Voted(answer, entries, context)
  BY <1>1 DEF Reproducing, Voted, Reproductions, Verifiers
<1> QED BY <1>1, <1>5, <1>6, <1>7, <1>8 DEF Handled, Handles

\* The tests, whose logs the verifier looks at later.
LEMMA TestRunnerHandled ==
  ASSUME Typed, TestRunner
  PROVE  Handled
<1>1. Current = "TestRunner" /\ phase = "running" /\ ReqKept
  BY DEF TestRunner, At, ReqKept
<1> DEFINE Stored(entries) ==
             \E result \in {"PASS", "FAIL"} :
               entries = <<Entry("test_output.log", "TEST", result)>>
           Edited(context) ==
             \E run \in Captures : context = [run.after EXCEPT !.tests = run.logs]
<1> DEFINE Replied(answer, entries, context) ==
             /\ Respond(answer, entries, context)
             /\ entries = <<>> \/ Stored(entries)
             /\ context = ctx \/ Edited(context)
<1>2. PICK answer \in Replies : \E entries, context : Replied(answer, entries, context)
  <2>1. CASE Respond(Skipped, <<>>, ctx) \/ Respond(Blocked, <<>>, ctx)
    BY <2>1 DEF Replies
  <2>2. ASSUME NEW run \in Captures, NEW result \in {"PASS", "FAIL"},
               Respond(Ok, <<Entry("test_output.log", "TEST", result)>>,
                       [run.after EXCEPT !.tests = run.logs])
        PROVE  \E entries, context :
                 Respond(Ok, entries, context) /\ Stored(entries) /\ Edited(context)
    BY <2>2
  <2>3. \/ Respond(Skipped, <<>>, ctx) \/ Respond(Blocked, <<>>, ctx)
        \/ \E run \in Captures, result \in {"PASS", "FAIL"} :
             Respond(Ok, <<Entry("test_output.log", "TEST", result)>>,
                     [run.after EXCEPT !.tests = run.logs])
    BY DEF TestRunner
  <2> HIDE DEF Stored, Edited
  <2> QED BY <2>1, <2>2, <2>3 DEF Replies
<1>3. PICK entries, context : Replied(answer, entries, context)
  BY <1>2
<1>4. Storable(answer, entries)
  <2>1. \A result \in {"PASS", "FAIL"} :
          Storable(answer, <<Entry("test_output.log", "TEST", result)>>)
    BY <1>1, Owners, EntryStored DEF ArtifactType
  <2> QED BY <1>3, <2>1, NothingStored
<1>5. Shared(context)
  <2>1. CASE context = ctx
    BY <2>1, KeptFacts DEF Kept, Shared
  <2>2. ASSUME NEW run \in Captures, context = [run.after EXCEPT !.tests = run.logs]
        PROVE  Shared(context)
    <3> DEFINE after == run.after
    <3>1. Kept(after) /\ run.logs \in Logs
      BY CaptureFacts
    <3> HIDE DEF after
    <3>2. context = [after EXCEPT !.tests = run.logs]
      BY <2>2 DEF after
    <3>3. /\ context \in Context /\ context.saw = after.saw
          /\ context.coding_run = after.coding_run
          /\ context.verifier_run = after.verifier_run
          /\ context.changed = after.changed /\ context.whole = after.whole
      BY <3>1, <3>2 DEF Kept, ReadsSeen, Context
    <3> QED BY <1>1, <3>1, <3>3 DEF Kept, Shared, ReadsSeen
  <2> QED BY <1>3, <2>1, <2>2
<1>6. /\ Captured(context) /\ Reproducing(answer, entries)
      /\ Voted(answer, entries, context)
  BY <1>1 DEF Captured, Reproducing, Voted, Reproductions, Verifiers
<1> QED BY <1>1, <1>3, <1>4, <1>5, <1>6 DEF Handled, Handles

\* The agent, with its candidate and its run id.
LEMMA AgentHandled ==
  ASSUME Typed, AgentInvocation
  PROVE  Handled
<1>1. Current = "AgentInvocation" /\ phase = "running" /\ ReqKept
  BY DEF AgentInvocation, At, ReqKept
<1> DEFINE words == <<Unledgered("agent_summary.md"), Unledgered("raw_agent_output.log")>>
           Edited(context) ==
             \E candidate \in {"none", "diff", "narrative"},
                id \in RunIds[task] \cup {"analysis-agent"} :
               context = [ctx EXCEPT !.candidate = candidate, !.coding_run = id]
<1>2. ctx \in Context
  BY KeptFacts
<1> DEFINE Replied(answer, entries, context) ==
             /\ Respond(answer, entries, context)
             /\ entries \in {<<>>, words}
             /\ context = ctx \/ Edited(context)
<1>3. PICK answer \in Replies : \E entries, context : Replied(answer, entries, context)
  <2>1. CASE Respond(Blocked, <<>>, ctx)
    BY <2>1 DEF Replies
  <2>2. ASSUME NEW id \in RunIds[task],
               Respond(Skipped, <<>>, [ctx EXCEPT !.coding_run = id])
        PROVE  \E context : Respond(Skipped, <<>>, context) /\ Edited(context)
    <3>1. [ctx EXCEPT !.coding_run = id] =
            [ctx EXCEPT !.candidate = ctx.candidate, !.coding_run = id]
      BY <1>2 DEF Context
    <3>2. ctx.candidate \in {"none", "diff", "narrative"}
      BY <1>2 DEF Context
    <3> QED BY <2>2, <3>1, <3>2
  <2>3. ASSUME NEW candidate \in {"diff", "narrative"}, NEW id \in RunIds[task],
               Respond(Ok, words, [ctx EXCEPT !.candidate = candidate,
                                              !.coding_run = IF id = NoId THEN @ ELSE id])
        PROVE  \E context : Respond(Ok, words, context) /\ Edited(context)
    <3> DEFINE new == IF id = NoId THEN ctx.coding_run ELSE id
    <3>1. new \in RunIds[task] \cup {"analysis-agent"}
      BY <1>2 DEF Context
    <3>2. Respond(Ok, words, [ctx EXCEPT !.candidate = candidate, !.coding_run = new])
      BY <2>3
    <3> HIDE DEF new
    <3> QED BY <3>1, <3>2
  <2>4. \/ Respond(Blocked, <<>>, ctx)
        \/ \E id \in RunIds[task] : Respond(Skipped, <<>>, [ctx EXCEPT !.coding_run = id])
        \/ \E candidate \in {"diff", "narrative"}, id \in RunIds[task] :
             Respond(Ok, words, [ctx EXCEPT !.candidate = candidate,
                                            !.coding_run = IF id = NoId THEN @ ELSE id])
    BY DEF AgentInvocation
  <2> HIDE DEF words, Edited
  <2> QED BY <2>1, <2>2, <2>3, <2>4 DEF Replies
<1>4. PICK entries, context : Replied(answer, entries, context)
  BY <1>3
<1>5. Storable(answer, entries)
  <2>1. /\ Unledgered("agent_summary.md").name = "agent_summary.md"
        /\ Unledgered("raw_agent_output.log").name = "raw_agent_output.log"
    BY EntryFacts
  <2>2. \A name \in QuarantinedNames :
          name \in ArtifactNames \cap AgentWords /\ Writer(name) = Group(Current)
    BY <1>1 DEF AgentWords, QuarantinedNames, ArtifactNames, Writer, Group, Verifiers, AgentTools
  <2>3. Storable(answer, words)
    BY <2>1, <2>2, UnledgeredFits, TwoStored DEF QuarantinedNames
  <2> QED BY <1>4, <2>3, NothingStored
<1>6. Shared(context)
  <2>1. CASE context = ctx
    BY <2>1, KeptFacts DEF Kept, Shared
  <2>2. CASE Edited(context)
    <3>1. /\ context \in Context /\ context.saw = ctx.saw
          /\ context.verifier_run = ctx.verifier_run
          /\ context.changed = ctx.changed /\ context.whole = ctx.whole
          /\ context.tests = ctx.tests
      BY <1>2, <2>2 DEF Context
    <3> QED BY <1>1, <3>1 DEF Shared, ReadsSeen, Sources
  <2> QED BY <1>4, <2>1, <2>2
<1>7. /\ Captured(context) /\ Reproducing(answer, entries)
      /\ Voted(answer, entries, context)
  BY <1>1 DEF Captured, Reproducing, Voted, Reproductions, Verifiers
<1> QED BY <1>1, <1>4, <1>5, <1>6, <1>7 DEF Handled, Handles

\* All the implementation handlers.
LEMMA ImplementationHandled ==
  ASSUME Typed, ImplementationHandlers
  PROVE  Handled
<1> USE DEF Special, Sources, Reproductions, Verifiers
<1>1. ASSUME StrategicDesignGate PROVE Handled
  <2>1. At("StrategicDesignGate") /\ ReqKept
    BY <1>1 DEF StrategicDesignGate, ReqKept
  <2>2. \E answer \in Replies : \E context : Respond(answer, <<>>, context) /\ Kept(context)
    <3>1. Kept(ctx) /\ \A b \in BOOLEAN : Kept([ctx EXCEPT !.strategic = b])
      BY KeptFacts, KeptEdit
    <3> QED BY <1>1, <3>1, ReplyFacts DEF StrategicDesignGate, Replies
  <2> QED BY <2>1, <2>2, NothingStored, PlainHandled
<1>2. ASSUME AgentOutputQuarantine PROVE Handled
  <2>1. At("AgentOutputQuarantine") /\ ReqKept
    BY <1>2 DEF AgentOutputQuarantine, ReqKept
  <2>2. \E answer \in Replies : \E context : Respond(answer, <<>>, context) /\ Kept(context)
    <3>1. Kept(ctx) /\ Kept([ctx EXCEPT !.quarantined = TRUE])
      BY KeptFacts, KeptEdit
    <3> QED BY <1>2, <3>1 DEF AgentOutputQuarantine, Replies
  <2> QED BY <2>1, <2>2, NothingStored, PlainHandled
<1>3. ASSUME StaticCheck PROVE Handled
  BY <1>3, AnswersHandled DEF StaticCheck, Replies
<1>4. ASSUME ScopeDiff PROVE Handled
  BY <1>4, AnswersHandled, ReplyFacts DEF ScopeDiff
<1>5. ASSUME FailureReproduction \/ Reproduction PROVE Handled
  BY <1>5, Owners, ReproductionHandled DEF FailureReproduction, Reproduction
<1> QED BY <1>1, <1>2, <1>3, <1>4, <1>5, AgentHandled, DiffHandled, TestRunnerHandled
        DEF ImplementationHandlers

\* A verifier votes PASS on what its gates passed, under a run id of its own.
LEMMA CertifiesHandled ==
  ASSUME Typed, NEW name \in Verifiers, NEW required, NEW others \in BOOLEAN,
         Certifies(name, required, others),
         others /\ EvidenceGatePasses(required) =>
           /\ name # "AnalysisVerifier" =>
                /\ \E entry \in Evidence : entry.type = "DIFF"
                /\ ScopeGatePasses(ctx.changed)
           /\ name = "ImplementationVerifier" => TestGatePasses(ctx.tests)
  PROVE  Handled
<1> DEFINE verifier == IF ctx.verifier_run = NoId THEN DefaultVerifier[name]
                                                  ELSE ctx.verifier_run
           context == [ctx EXCEPT !.verifier_run = verifier]
           report(result) == <<Entry("verifier_report.json", "VERIFIER_REPORT", result)>>
<1>1. Current = name /\ phase = "running" /\ ReqKept
  BY DEF Certifies, At, ReqKept
<1>2. \/ Respond(Failed, report("FAIL"), context)
      \/ /\ Respond(Ok, report("PASS"), context)
         /\ IndependentRuns(ctx.coding_run, verifier)
         /\ EvidenceGatePasses(required) /\ others
  BY DEF Certifies, Passes
<1>3. /\ DefaultVerifier[name] \in Range(DefaultVerifier) /\ DefaultVerifier[name] # NoId
  <2>1. /\ name \in DOMAIN DefaultVerifier
        /\ DefaultVerifier[name] \in {"analysis-verifier", "impl-verifier",
                                      "security-verifier", "doc-verifier"}
    BY DEF DefaultVerifier, Verifiers
  <2> QED BY <2>1 DEF Range, NoId
<1>4. ctx \in Context
  BY KeptFacts
<1>5. verifier \in RunIds[task] \cup Range(DefaultVerifier) /\ verifier # NoId
  BY <1>3, <1>4 DEF Context
<1> HIDE DEF verifier
<1>6. /\ context \in Context /\ context.saw = ctx.saw /\ context.verifier_run = verifier
      /\ context.coding_run = ctx.coding_run /\ context.whole = ctx.whole
      /\ context.changed = ctx.changed /\ context.tests = ctx.tests
  BY <1>4, <1>5 DEF Context
<1> HIDE DEF context
<1>7. Shared(context)
  BY <1>1, <1>6 DEF Shared, ReadsSeen
<1>8. /\ Storable(Failed, report("FAIL")) /\ Storable(Ok, report("PASS"))
  BY <1>1, Owners, EntryStored, ReplyFacts DEF ArtifactType
<1>9. \A answer, entries : Captured(context) /\ Reproducing(answer, entries)
  BY <1>1 DEF Captured, Reproducing, Reproductions, Verifiers
<1>10. Voted(Failed, report("FAIL"), context)
  <2> DEFINE entry == Entry("verifier_report.json", "VERIFIER_REPORT", "FAIL")
  <2>1. entry.result = "FAIL"
    BY EntryFacts
  <2> HIDE DEF entry
  <2>2. \A i \in DOMAIN <<entry>> : <<entry>>[i].result # "PASS"
    BY <2>1
  <2>3. \A i \in DOMAIN report("FAIL") : report("FAIL")[i].result # "PASS"
    BY <2>2 DEF entry
  <2> HIDE DEF report
  <2> QED BY <2>3, ReplyFacts DEF Voted
<1>11. ASSUME IndependentRuns(ctx.coding_run, verifier), EvidenceGatePasses(required), others
       PROVE  Voted(Ok, report("PASS"), context)
  <2>1. context.verifier_run \notin {NoId, context.coding_run}
    BY <1>5, <1>6, <1>11 DEF IndependentRuns
  <2>2. \E i \in DOMAIN report("PASS") : /\ report("PASS")[i].ledgered
                                         /\ report("PASS")[i].type = "VERIFIER_REPORT"
                                         /\ report("PASS")[i].result = "PASS"
    <3> DEFINE entry == Entry("verifier_report.json", "VERIFIER_REPORT", "PASS")
    <3>1. entry.ledgered /\ entry.type = "VERIFIER_REPORT" /\ entry.result = "PASS"
      BY EntryFacts
    <3> HIDE DEF entry
    <3>2. DOMAIN <<entry>> = {1} /\ <<entry>>[1] = entry
      OBVIOUS
    <3>3. report("PASS") = <<entry>>
      BY DEF entry
    <3> QED BY <3>1, <3>2, <3>3
  <2>3. Ok # Failed
    BY ReplyFacts
  <2> HIDE DEF report
  <2> QED BY <1>1, <1>11, <2>1, <2>2, <2>3 DEF Voted
<1> HIDE DEF report
<1>12. CASE Respond(Failed, report("FAIL"), context)
  BY <1>1, <1>7, <1>8, <1>9, <1>10, <1>12 DEF Handled, Handles, Replies
<1>13. CASE /\ Respond(Ok, report("PASS"), context)
            /\ IndependentRuns(ctx.coding_run, verifier)
            /\ EvidenceGatePasses(required) /\ others
  BY <1>1, <1>7, <1>8, <1>9, <1>11, <1>13 DEF Handled, Handles, Replies
<1> QED BY <1>2, <1>12, <1>13

\* All the verifiers.
LEMMA VerifiersHandled ==
  ASSUME Typed, VerifierHandlers
  PROVE  Handled
<1>1. \A required :
        EvidenceGatePasses(required) /\ "DIFF" \in required =>
          \E entry \in Evidence : entry.type = "DIFF"
  BY DEF EvidenceGatePasses
<1>2. /\ TestGatePasses(ctx.tests) \in BOOLEAN /\ ScopeGatePasses(ctx.changed) \in BOOLEAN
      /\ ctx.quarantined \in BOOLEAN /\ ctx.strategic \in BOOLEAN
  BY KeptFacts DEF TestGatePasses, ScopeGatePasses, Context
<1>3. ASSUME AnalysisVerifier PROVE Handled
  BY <1>3, CertifiesHandled DEF AnalysisVerifier, Verifiers
<1>4. ASSUME ImplementationVerifier PROVE Handled
  <2>1. "DIFF" \in ImplementationEvidence
    BY DEF ImplementationEvidence
  <2> QED BY <1>1, <1>2, <1>4, <2>1, CertifiesHandled DEF ImplementationVerifier, Verifiers
<1>5. ASSUME SecurityVerifier PROVE Handled
  BY <1>1, <1>2, <1>5, CertifiesHandled DEF SecurityVerifier, Verifiers
<1>6. ASSUME DocumentationVerifier PROVE Handled
  BY <1>1, <1>2, <1>6, CertifiesHandled DEF DocumentationVerifier, Verifiers
<1> QED BY <1>3, <1>4, <1>5, <1>6 DEF VerifierHandlers

\* The checks of a review that may have findings.
LEMMA ScreeningHandled ==
  ASSUME Typed,
         \/ SecretScan \/ InputValidationRisk \/ AuthChangeRisk \/ DependencyVulnerability
         \/ DependencyRisk \/ LicenseCheck \/ LockfileValidation \/ LinkCheck
         \/ FailureClassification
  PROVE  Handled
<1> USE Owners, KeptFacts DEF Special, Sources, Reproductions, Verifiers, ArtifactType
<1>1. CASE SecretScan
  BY <1>1, ScreensHandled DEF SecretScan
<1>2. CASE InputValidationRisk
  BY <1>2, ScreensHandled DEF InputValidationRisk
<1>3. CASE AuthChangeRisk
  BY <1>3, ScreensHandled DEF AuthChangeRisk
<1>4. CASE DependencyVulnerability
  <2>1. CASE Answers("DependencyVulnerability", {Skipped})
    BY <2>1, AnswersHandled DEF Replies
  <2> QED BY <1>4, <2>1, ScreensHandled DEF DependencyVulnerability
<1>5. CASE DependencyRisk
  <2>1. CASE Answers("DependencyRisk", {Skipped})
    BY <2>1, AnswersHandled DEF Replies
  <2> QED BY <1>5, <2>1, ScreensHandled DEF DependencyRisk
<1>6. CASE LicenseCheck
  <2>1. CASE Answers("LicenseCheck", {Skipped})
    BY <2>1, AnswersHandled DEF Replies
  <2> QED BY <1>6, <2>1, ScreensHandled DEF LicenseCheck
<1>7. CASE LockfileValidation
  BY <1>7, ScreensHandled DEF LockfileValidation
<1>8. CASE LinkCheck
  BY <1>8, ScreensHandled DEF LinkCheck
<1>9. CASE FailureClassification
  BY <1>9, ScreensHandled DEF FailureClassification
<1> QED BY <1>1, <1>2, <1>3, <1>4, <1>5, <1>6, <1>7, <1>8, <1>9

\* All the handlers of reviews.
LEMMA ReviewHandled ==
  ASSUME Typed, ReviewHandlers
  PROVE  Handled
<1> USE DEF Special, Sources, Reproductions, Verifiers
<1>1. ASSUME SecurityReviewTestsNotApplicable PROVE Handled
  <2> DEFINE entries == <<Entry("security_review_tests_not_applicable.json",
                                "ANALYSIS_REPORT", "INFO")>>
  <2>1. /\ At("SecurityReviewTestsNotApplicable") /\ ReqKept
        /\ Respond(Ok, entries, ctx) \/ Respond(Skipped, <<>>, ctx)
    BY <1>1 DEF SecurityReviewTestsNotApplicable, ReqKept
  <2>2. Storable(Ok, entries)
    BY <2>1, Owners, EntryStored DEF At, ArtifactType
  <2> HIDE DEF entries
  <2> QED BY <2>1, <2>2, KeptFacts, NothingStored, PlainHandled DEF Replies
<1>2. ASSUME Build PROVE Handled
  <2> DEFINE entries(result) == <<Entry("build_output.log", "BUILD", result)>>
  <2>1. At("Build") /\ ReqKept
    BY <1>2 DEF Build, ReqKept
  <2>2. Storable(Ok, entries("PASS")) /\ Storable(Failed, entries("FAIL"))
    BY <2>1, Owners, EntryStored, ReplyFacts DEF At, ArtifactType
  <2>3. \A run \in Captures : Kept([run.after EXCEPT !.build = run.logs])
    BY CaptureFacts, KeptEdit
  <2>4. \/ Respond(Skipped, <<>>, ctx) \/ Respond(Blocked, <<>>, ctx)
        \/ \E run \in Captures :
             \/ Respond(Ok, entries("PASS"), [run.after EXCEPT !.build = run.logs])
             \/ Respond(Failed, entries("FAIL"), [run.after EXCEPT !.build = run.logs])
    BY <1>2 DEF Build, Passes
  <2> HIDE DEF entries
  <2>5. \/ Respond(Skipped, <<>>, ctx) \/ Respond(Blocked, <<>>, ctx)
        \/ \E context : /\ Kept(context)
                        /\ \/ Respond(Ok, entries("PASS"), context)
                           \/ Respond(Failed, entries("FAIL"), context)
    BY <2>3, <2>4
  <2> QED BY <2>1, <2>2, <2>5, KeptFacts, NothingStored, PlainHandled DEF Replies
<1>3. ASSUME DocumentationGap PROVE Handled
  <2> DEFINE entries == <<Entry("documentation_gap.log", "ANALYSIS_REPORT", "INFO")>>
  <2>1. At("DocumentationGap") /\ ReqKept /\ Respond(Ok, entries, HavingRead(ctx))
    BY <1>3 DEF DocumentationGap, ReqKept
  <2>2. Storable(Ok, entries)
    BY <2>1, Owners, EntryStored DEF At, ArtifactType
  <2> HIDE DEF entries
  <2> QED BY <2>1, <2>2, KeptFacts, PlainHandled DEF Replies
<1>4. ASSUME CIFailureLogParser PROVE Handled
  <2>1. CASE Answers("CIFailureLogParser", {Blocked})
    BY <2>1, AnswersHandled DEF Replies
  <2> QED BY <1>4, <2>1, Owners, ReportsHandled DEF CIFailureLogParser, ArtifactType
<1>5. ASSUME CIConfigValidation PROVE Handled
  <2> DEFINE entries == <<Entry("ci_config_validation.log", "COMMAND_OUTPUT", "INFO")>>
  <2>1. CASE At("CIConfigValidation") /\ Respond(Ok, entries, HavingRead(ctx)) /\ ReqKept
    <3>1. Storable(Ok, entries)
      BY <2>1, Owners, EntryStored DEF At, ArtifactType
    <3> HIDE DEF entries
    <3> QED BY <2>1, <3>1, KeptFacts, PlainHandled DEF Replies
  <2> QED BY <1>5, <2>1, Owners, KeptFacts, ScreensHandled
          DEF CIConfigValidation, ArtifactType, ReqKept
<1> QED BY <1>1, <1>2, <1>3, <1>4, <1>5, ScreeningHandled DEF ReviewHandlers

\* The handlers that come after the verdict.
LEMMA ClosingHandled ==
  ASSUME Typed, Evaluator \/ MemoryUpdate \/ PRGate
  PROVE  Handled
<1> USE Owners DEF Special, Sources, Reproductions, Verifiers, ArtifactType
<1>1. ASSUME Evaluator PROVE Handled
  BY <1>1, ReportsHandled DEF Evaluator
<1>2. ASSUME MemoryUpdate PROVE Handled
  BY <1>2, ReportsHandled DEF MemoryUpdate
<1>3. ASSUME PRGate PROVE Handled
  <2> DEFINE body == Entry("pr_body.md", "PR", "INFO")
             report == Entry("pr_gate_report.json", "PR", "INFO")
  <2>1. /\ At("PRGate") /\ ReqKept
        /\ \/ Respond(PrReported("GATED"), <<body, report>>, ctx)
           \/ Respond(PrReported("NOT_READY"), <<>>, ctx)
    BY <1>3 DEF PRGate, ReqKept
  <2>2. body.name = "pr_body.md" /\ report.name = "pr_gate_report.json"
    BY EntryFacts
  <2>3. \A answer : Fits(answer, body) /\ Fits(answer, report)
    BY <2>1, EntryFits DEF At
  <2> HIDE DEF body, report
  <2>4. \A answer : Storable(answer, <<body, report>>)
    BY <2>2, <2>3, TwoStored
  <2> QED BY <2>1, <2>4, KeptFacts, NothingStored, PlainHandled DEF Replies
<1> QED BY <1>1, <1>2, <1>3

\* So a step of the run is the executor's, StopOrLoop's, or a handler's that keeps to the
\* contract.
LEMMA StepCases ==
  ASSUME Typed, HNext
  PROVE  \/ (Invoke \/ Touch \/ Raise) /\ UNCHANGED hvars
         \/ StopOrLoop
         \/ Handled
BY ControlHandled, AnalysisHandled, ImplementationHandled, VerifiersHandled, ReviewHandled,
   ClosingHandled DEF HNext

------------------------------------------------------------------------------
\* What the executor makes of an answer.
LEMMA RecordFacts ==
  ASSUME IInv, phase = "running", NEW answer \in Outcomes, Record(Enforced(answer)),
         task' = task
  PROVE  /\ Len(results) \in Nat /\ Len(results') = Len(results) + 1
         /\ Len(results) + 1 \in 1 .. Len(Chain) /\ Current = Chain[Len(results) + 1]
         /\ Chain' = Chain /\ phase' \in {"dispatch", "done"} /\ final_status = "none"
         /\ phase' = "dispatch" => ~Objects(answer) /\ final_status' # "PASS"
         /\ final_status' = "PASS" =>
              /\ answer.decision = "STOP" /\ verifier_decision' = "PASS"
              /\ CanModifyRepo(TypeOf[Current]) \/ tree \in {baseline, Absent}
         /\ ~CanDecidePass(TypeOf[Current]) => verifier_decision' = verifier_decision
         /\ CanDecidePass(TypeOf[Current]) /\ verifier_decision' = "PASS" =>
              \/ answer.status = "PASS"
              \/ answer.status = "SKIPPED" /\ verifier_decision = "PASS"
         /\ CanDecidePass(TypeOf[Current]) /\ answer.status = "PASS" =>
              \/ verifier_decision' = "PASS"
              \/ final_status' = "BLOCKED" /\ tree \notin {baseline, Absent}
<1> DEFINE result == Enforced(answer)
<1>1. /\ Len(results) \in Nat /\ Len(results) + 1 \in 1 .. Len(Chain)
      /\ Current = Chain[Len(results) + 1]
  <2>1. results \in Seq(HandlerResult) /\ Index <= Len(Chain) /\ task \in Tasks
    BY DEF IInv, TypeOK
  <2>2. Len(Chain) \in Nat
    BY <2>1, ChainType
  <2> QED BY <2>1, <2>2 DEF Index, Current
<1>2. Chain' = Chain
  BY ChainFixed
<1>3. Len(results') = Len(results) + 1
  BY DEF IInv, TypeOK, Record
<1>4. final_status = "none"
  BY DEF IInv, OpenRun
<1>5. /\ result.handler_type = TypeOf[Current]
      /\ \/ /\ result.decision = answer.decision /\ result.status = answer.status
            /\ CanModifyRepo(TypeOf[Current]) \/ tree \in {baseline, Absent}
         \/ /\ result.decision = "BLOCKED" /\ result.status = "BLOCKED"
            /\ tree \notin {baseline, Absent}
  BY DEF Enforced, Result, BlockedAnswer, Answer
<1>6. answer \in HandlerOutcome
  BY ChainAssumption DEF ChainAssumption
<1> HIDE DEF result
<1>7. Record(result)
  BY DEF result
<1>8. phase' \in {"dispatch", "done"}
  BY <1>7 DEF Record
<1>9. phase' = "dispatch" => ~Objects(answer) /\ final_status' # "PASS"
  BY <1>4, <1>5, <1>7 DEF Record, Objects
<1>10. final_status' = "PASS" =>
         /\ answer.decision = "STOP" /\ verifier_decision' = "PASS"
         /\ CanModifyRepo(TypeOf[Current]) \/ tree \in {baseline, Absent}
  BY <1>4, <1>5, <1>7 DEF Record, Objects, Conclusion
<1>11. ~CanDecidePass(TypeOf[Current]) => verifier_decision' = verifier_decision
  BY <1>5, <1>7 DEF Record, IsVote
<1>12. CanDecidePass(TypeOf[Current]) /\ verifier_decision' = "PASS" =>
         \/ answer.status = "PASS"
         \/ answer.status = "SKIPPED" /\ verifier_decision = "PASS"
  BY <1>5, <1>6, <1>7 DEF Record, IsVote, Decisions, HandlerOutcome, HandlerStatuses
<1>13. CanDecidePass(TypeOf[Current]) /\ answer.status = "PASS" =>
         \/ verifier_decision' = "PASS"
         \/ final_status' = "BLOCKED" /\ tree \notin {baseline, Absent}
  BY <1>5, <1>7 DEF Record, IsVote, Decisions, Objects
<1> QED BY <1>1, <1>2, <1>3, <1>4, <1>8, <1>9, <1>10, <1>11, <1>12, <1>13

\* How a run ends that a result is recorded of.
LEMMA EndFacts ==
  ASSUME IInv, NEW result, Record(result)
  PROVE  Ended'
<1>1. results \in Seq(HandlerResult \cup {result}) /\ results' = Append(results, result)
  BY DEF IInv, TypeOK, Record
<1>2. Len(results') \in Nat \ {0} /\ results'[Len(results')] = result
  BY <1>1
<1>3. phase' = "done" /\ ~Objects(result) => final_status' = Conclusion(verifier_decision')
  BY DEF Record
<1> QED BY <1>2, <1>3 DEF Ended, Passed, Conclusion, Objects

\* What a step of a handler's changes, and what it leaves.
LEMMA HandledFacts ==
  ASSUME Typed, NEW answer \in Replies, NEW entries, NEW context,
         Handles(answer, entries, context)
  PROVE  /\ Len(results) \in Nat /\ Len(results') = Len(results) + 1
         /\ Len(results) + 1 \in 1 .. Len(Chain) /\ Current = Chain[Len(results) + 1]
         /\ Chain' = Chain /\ ctx' = context
         /\ UNCHANGED <<task, tree, baseline, seen, ledger_status>>
         /\ Live' => ~Objects(answer)
         /\ ~Passed'
         /\ Current \notin Verifiers => verifier_decision' = verifier_decision
         /\ Current \in Verifiers /\ verifier_decision' = "PASS" => answer = Ok
         /\ Current \in Verifiers /\ answer = Ok => verifier_decision' = "PASS" \/ Overruled'
         /\ Current \in Handlers /\ final_status = "none" /\ Ended'
<1>1. /\ Record(Enforced(answer)) /\ ctx' = context
      /\ UNCHANGED <<task, tree, baseline, seen, ledger_status>>
      /\ phase = "running" /\ Voted(answer, entries, context)
  BY DEF Handles, Respond
<1>2. IInv /\ task \in Tasks /\ answer \in Outcomes /\ answer.decision # "STOP"
  BY ReplyFacts DEF Typed, IInv, TypeOK
<1>3. /\ Len(results) \in Nat /\ Len(results') = Len(results) + 1
      /\ Len(results) + 1 \in 1 .. Len(Chain) /\ Current = Chain[Len(results) + 1]
      /\ Chain' = Chain
  BY <1>1, <1>2, RecordFacts
<1>4. Live' => ~Objects(answer)
  BY <1>1, <1>2, RecordFacts DEF Live
<1>5. ~Passed'
  BY <1>1, <1>2, RecordFacts DEF Passed
<1>6. Current \in Handlers
  BY <1>2, <1>3, ChainsOrdered DEF WellOrdered, Chain
<1>7. Current \notin Verifiers => verifier_decision' = verifier_decision
  BY <1>1, <1>2, <1>6, RecordFacts, TypesDeclared
<1>8. Current \in Verifiers /\ verifier_decision' = "PASS" => answer = Ok
  <2>1. Current \in Verifiers => answer \in {Ok, Failed}
    BY <1>1 DEF Voted
  <2>2. Current \in Verifiers /\ verifier_decision' = "PASS" =>
          answer.status \in {"PASS", "SKIPPED"}
    BY <1>1, <1>2, <1>6, RecordFacts, TypesDeclared
  <2> QED BY <2>1, <2>2, ReplyFacts
<1>9. Current \in Verifiers /\ answer = Ok => verifier_decision' = "PASS" \/ Overruled'
  BY <1>1, <1>2, <1>6, RecordFacts, TypesDeclared, ReplyFacts DEF Overruled
<1>10. final_status = "none" /\ Ended'
  BY <1>1, <1>2, RecordFacts, EndFacts
<1> QED BY <1>1, <1>3, <1>4, <1>5, <1>6, <1>7, <1>8, <1>9, <1>10

\* The store after it: the old artifacts where they were, then the new ones.
LEMMA StoreFacts ==
  ASSUME Typed, NEW answer, NEW entries, NEW context,
         Handles(answer, entries, context)
  PROVE  /\ store \in Seq(EntryType) /\ entries \in Seq(EntryType)
         /\ store' \in Seq(EntryType)
         /\ \A i \in DOMAIN store : i \in DOMAIN store' /\ store'[i] = store[i]
         /\ \A i \in DOMAIN entries :
              Len(store) + i \in DOMAIN store' /\ store'[Len(store) + i] = entries[i]
         /\ \A i \in DOMAIN store' :
              \/ i \in DOMAIN store
              \/ i > Len(store) /\ i - Len(store) \in DOMAIN entries
                 /\ store'[i] = entries[i - Len(store)]
         /\ Evidence \subseteq Evidence'
         /\ \A i \in DOMAIN entries : entries[i].ledgered => entries[i] \in Evidence'
         /\ \A entry \in Evidence' :
              entry \in Evidence \/ \E i \in DOMAIN entries : entry = entries[i]
<1>1. store \in Seq(EntryType) /\ entries \in Seq(EntryType) /\ store' = store \o entries
  BY DEF Typed, HTypeOK, EntryType, Handles, Storable, Respond
<1>2. /\ store' \in Seq(EntryType)
      /\ \A i \in DOMAIN store : i \in DOMAIN store' /\ store'[i] = store[i]
      /\ \A i \in DOMAIN entries :
           Len(store) + i \in DOMAIN store' /\ store'[Len(store) + i] = entries[i]
      /\ \A i \in DOMAIN store' :
           \/ i \in DOMAIN store
           \/ i > Len(store) /\ i - Len(store) \in DOMAIN entries
              /\ store'[i] = entries[i - Len(store)]
  BY <1>1, Concatenated
<1>3. Evidence \subseteq Evidence'
  BY <1>2 DEF Evidence, Range
<1>4. ASSUME NEW i \in DOMAIN entries, entries[i].ledgered
      PROVE  entries[i] \in Evidence'
  <2> DEFINE k == Len(store) + i
  <2>1. k \in DOMAIN store' /\ store'[k] = entries[i]
    BY <1>2
  <2> HIDE DEF k
  <2> QED BY <1>4, <2>1 DEF Evidence, Range
<1>5. ASSUME NEW entry \in Evidence'
      PROVE  entry \in Evidence \/ \E i \in DOMAIN entries : entry = entries[i]
  <2>1. PICK k \in DOMAIN store' : entry = store'[k] /\ entry.ledgered
    BY DEF Evidence, Range
  <2>2. CASE k \in DOMAIN store
    BY <1>2, <2>1, <2>2 DEF Evidence, Range
  <2>3. CASE k - Len(store) \in DOMAIN entries /\ store'[k] = entries[k - Len(store)]
    <3> DEFINE i == k - Len(store)
    <3>1. i \in DOMAIN entries /\ store'[k] = entries[i]
      BY <2>3
    <3> HIDE DEF i
    <3> QED BY <2>1, <3>1
  <2> QED BY <1>2, <2>2, <2>3
<1> QED BY <1>1, <1>2, <1>3, <1>4, <1>5

\* StopOrLoop stores nothing, and passes a run only if its tree is what it was.
LEMMA StopFacts ==
  ASSUME Typed, StopOrLoop
  PROVE  /\ Len(results) \in Nat /\ Len(results') = Len(results) + 1
         /\ Current = "StopOrLoop" /\ Chain' = Chain
         /\ UNCHANGED <<req, ctx, store, task, tree, baseline, seen, verifier_decision>>
         /\ Evidence' = Evidence
         /\ phase' = "done" /\ phase = "running"
         /\ ledger_status' = IF verifier_decision = "PENDING" THEN "BLOCKED"
                                                              ELSE verifier_decision
         /\ Passed' => verifier_decision = "PASS" /\ tree \in {baseline, Absent}
         /\ verifier_decision = "PASS" =>
              final_status' = IF tree \in {baseline, Absent} THEN "PASS" ELSE "BLOCKED"
         /\ final_status = "none" /\ Ended'
<1>1. /\ phase = "running" /\ Current = "StopOrLoop" /\ Record(Enforced(Stopped))
      /\ UNCHANGED <<req, ctx, store, task, tree, baseline, seen>>
      /\ ledger_status' = IF verifier_decision = "PENDING" THEN "BLOCKED"
                                                           ELSE verifier_decision
  BY DEF StopOrLoop, At
<1>2. IInv /\ Stopped \in Outcomes
  BY HandlersAssumption DEF Typed, HandlersAssumption
<1>3. ~CanDecidePass(TypeOf["StopOrLoop"]) /\ ~CanModifyRepo(TypeOf["StopOrLoop"])
  BY TypesDeclared DEF Handlers, PureChecks, Verifiers
<1>4. /\ Len(results) \in Nat /\ Len(results') = Len(results) + 1 /\ Chain' = Chain
      /\ verifier_decision' = verifier_decision
      /\ final_status' = "PASS" =>
           verifier_decision' = "PASS" /\ tree \in {baseline, Absent}
  BY <1>1, <1>2, <1>3, RecordFacts
<1>5. phase' = "done"
  BY <1>1 DEF Record, Enforced, Result, Stopped, Answer, BlockedAnswer, Objects
<1>6. verifier_decision = "PASS" =>
        final_status' = IF tree \in {baseline, Absent} THEN "PASS" ELSE "BLOCKED"
  BY <1>1, <1>3, <1>4
     DEF Record, Enforced, Result, Stopped, Answer, BlockedAnswer, Objects, Conclusion
<1>7. final_status = "none" /\ Ended'
  BY <1>1, <1>2, EndFacts DEF IInv, OpenRun
<1> QED BY <1>1, <1>4, <1>5, <1>6, <1>7 DEF Passed, Evidence

\* The executor's own steps leave the handlers' state and the results as they are.
LEMMA QuietFacts ==
  ASSUME Typed, Invoke \/ Touch \/ Raise \/ UNCHANGED vars, UNCHANGED hvars
  PROVE  /\ UNCHANGED <<req, ctx, store, ledger_status, results, task, verifier_decision,
                        final_status, baseline>>
         /\ Chain' = Chain /\ Evidence' = Evidence
         /\ phase' = "done" <=> phase = "done"
         /\ Live' => Live
         /\ tree' = tree \/ Live
<1>1. /\ UNCHANGED <<req, ctx, store, ledger_status, results, task, verifier_decision,
                     final_status, baseline>>
      /\ Live' => Live
      /\ phase' = "done" <=> phase = "done"
      /\ tree' = tree \/ Live
  BY DEF Invoke, Touch, Raise, vars, hvars, Live
<1> QED BY <1>1 DEF Chain, Evidence

------------------------------------------------------------------------------
\* What the order of the chain tells of the handlers that have run.
LEMMA OrderFacts ==
  ASSUME Typed
  PROVE  /\ WellOrdered(Chain)
         /\ task \in Repairs => RepairOrdered(Chain)
         /\ task \in Tasks /\ Len(Chain) \in Nat
         /\ Len(results) \in Nat /\ Len(results) <= Len(Chain)
<1>1. task \in Tasks /\ results \in Seq(HandlerResult) /\ Len(results) <= Len(Chain)
  BY DEF Typed, IInv, TypeOK
<1> QED BY <1>1, ChainsOrdered, ChainType DEF Chain

\* The handler that answers has not run before, nor has another of its group.
LEMMA FreshFacts ==
  ASSUME Typed, NEW answer \in Replies, NEW entries, NEW context,
         Handles(answer, entries, context)
  PROVE  /\ \A k \in 1 .. Len(results) : k \in 1 .. Len(Chain)
         /\ \A k \in 1 .. Len(results) : Group(Chain[k]) # Group(Current)
         /\ \A k \in 1 .. Len(results) : Chain[k] \in Verifiers =>
              Current \notin Sources \cup Verifiers
<1> DEFINE n == Len(results)
<1>0. n \in Nat /\ WellOrdered(Chain) /\ Len(Chain) \in Nat
  BY OrderFacts
<1>1. n + 1 \in 1 .. Len(Chain) /\ Current = Chain[n + 1]
  BY HandledFacts
<1> HIDE DEF n
<1>2. ASSUME NEW k \in 1 .. n
      PROVE  /\ k \in 1 .. Len(Chain) /\ k # n + 1 /\ ~(n + 1 < k)
  BY <1>0, <1>1
<1>3. \A k \in 1 .. n : Group(Chain[k]) # Group(Current)
  BY <1>0, <1>1, <1>2 DEF WellOrdered
<1>4. \A k \in 1 .. n : Chain[k] \in Verifiers => Current \notin Sources
  BY <1>0, <1>1, <1>2 DEF WellOrdered
<1>5. \A k \in 1 .. n : Chain[k] \in Verifiers => Current \notin Verifiers
  BY <1>3 DEF Group, Verifiers
<1> QED BY <1>2, <1>3, <1>4, <1>5 DEF n

\* Only DiffCapture writes a diff.
LEMMA DiffCaptureGroup == \A h : Group(h) = "DiffCapture" <=> h = "DiffCapture"
BY DEF Group, Verifiers

\* The handlers' state is of its type.
LEMMA HandledTypes ==
  ASSUME Typed, NEW answer \in Replies, NEW entries, NEW context,
         Handles(answer, entries, context)
  PROVE  HTypeOK'
<1>1. /\ store' \in Seq(EntryType) /\ ctx' = context /\ task' = task
      /\ ledger_status' = ledger_status
  BY HandledFacts, StoreFacts
<1>2. context \in Context /\ ReqKept
  BY DEF Handles, Shared, ReadsSeen
<1>3. req \in Request /\ ledger_status \in Decisions \cup {"PENDING"}
  BY DEF Typed, HTypeOK
<1>4. req' \in Request
  BY <1>2, <1>3 DEF ReqKept, Request
<1> QED BY <1>1, <1>2, <1>3, <1>4 DEF HTypeOK, Context, EntryType

\* Every step leaves it of its type.
LEMMA StepTypes ==
  ASSUME Typed, [HNext]_<<vars, hvars>>
  PROVE  HTypeOK'
<1>0. HTypeOK /\ verifier_decision \in Decisions \cup {"PENDING"}
  BY DEF Typed, IInv, TypeOK
<1>1. CASE Handled
  BY <1>1, HandledTypes DEF Handled
<1>2. CASE StopOrLoop
  <2>1. /\ UNCHANGED <<req, ctx, store, task>>
        /\ ledger_status' = IF verifier_decision = "PENDING" THEN "BLOCKED"
                                                             ELSE verifier_decision
    BY <1>2, StopFacts
  <2>2. ledger_status' \in Decisions \cup {"PENDING"}
    BY <1>0, <2>1 DEF Decisions
  <2> QED BY <1>0, <2>1, <2>2 DEF HTypeOK
<1>3. CASE (Invoke \/ Touch \/ Raise \/ UNCHANGED vars) /\ UNCHANGED hvars
  <2>1. UNCHANGED <<req, ctx, store, task, ledger_status>>
    BY <1>3, QuietFacts
  <2> QED BY <1>0, <2>1 DEF HTypeOK
<1> QED BY <1>1, <1>2, <1>3, StepCases

\* Artifacts keep having writers, and names of their own.
LEMMA HandledWritten ==
  ASSUME Typed, Written, NEW answer \in Replies, NEW entries, NEW context,
         Handles(answer, entries, context)
  PROVE  Written'
<1> DEFINE n == Len(results)
           Old(i) == i \in DOMAIN store /\ store'[i] = store[i]
           New(i, j) == j \in DOMAIN entries /\ i = Len(store) + j /\ store'[i] = entries[j]
           Sound(entry) == /\ entry.ledgered <=> entry.name \notin AgentWords
                           /\ entry.type = "DIFF" => Writer(entry.name) = "DiffCapture"
<1>1. \A i \in DOMAIN store' : Old(i) \/ \E j : New(i, j)
  <2>1. store \in Seq(EntryType) /\ entries \in Seq(EntryType)
    BY StoreFacts
  <2> SUFFICES ASSUME NEW i \in DOMAIN store' PROVE Old(i) \/ \E j : New(i, j)
    OBVIOUS
  <2>2. \/ i \in DOMAIN store /\ store'[i] = store[i]
        \/ i > Len(store) /\ i - Len(store) \in DOMAIN entries
             /\ store'[i] = entries[i - Len(store)]
    BY StoreFacts
  <2>3. CASE i - Len(store) \in DOMAIN entries /\ store'[i] = entries[i - Len(store)]
    <3>1. i \in Int
      BY StoreFacts
    <3>2. New(i, i - Len(store))
      BY <2>1, <2>3, <3>1
    <3> QED BY <3>2
  <2> QED BY <2>2, <2>3
<1>2. /\ n \in Nat /\ Len(results') = n + 1 /\ Current = Chain[n + 1] /\ Chain' = Chain
  BY HandledFacts
<1>3. \A j \in DOMAIN entries :
        Writer(entries[j].name) = Group(Current) /\ Sound(entries[j])
  BY DEF Handles, Storable, Fits
<1>4. \A i \in DOMAIN store : /\ \E k \in 1 .. n : Writer(store[i].name) = Group(Chain[k])
                              /\ Sound(store[i])
  BY DEF Written
<1> HIDE DEF Sound, n
<1>5. ASSUME NEW i \in DOMAIN store'
      PROVE  /\ \E k \in 1 .. n + 1 : Writer(store'[i].name) = Group(Chain[k])
             /\ Sound(store'[i])
  <2>1. CASE Old(i)
    <3>1. PICK k \in 1 .. n : Writer(store'[i].name) = Group(Chain[k])
      BY <1>4, <2>1
    <3>2. k \in 1 .. n + 1
      BY <1>2
    <3> QED BY <1>4, <2>1, <3>1, <3>2
  <2>2. CASE \E j : New(i, j)
    <3>1. n + 1 \in 1 .. n + 1
      BY <1>2
    <3> QED BY <1>2, <1>3, <2>2, <3>1
  <2> QED BY <1>1, <2>1, <2>2
<1>6. ASSUME NEW i \in DOMAIN store', NEW j \in DOMAIN store',
             store'[i].name = store'[j].name
      PROVE  i = j
  <2>1. \A a, b : Old(a) => ~(store'[a].name = entries[b].name /\ b \in DOMAIN entries)
    <3> SUFFICES ASSUME NEW a, NEW b \in DOMAIN entries, Old(a),
                        store[a].name = entries[b].name
                 PROVE  FALSE
      OBVIOUS
    <3>1. \E k \in 1 .. n : Group(Current) = Group(Chain[k])
      BY <1>3, <1>4
    <3> QED BY <3>1, FreshFacts DEF n
  <2>2. CASE Old(i) /\ Old(j)
    BY <1>6, <2>2 DEF Written
  <2>3. ASSUME NEW a, NEW b, New(i, a), New(j, b) PROVE i = j
    <3>1. entries[a].name = entries[b].name
      BY <1>6, <2>3
    <3>2. a = b
      BY <2>3, <3>1 DEF Handles, Storable
    <3> QED BY <2>3, <3>2
  <2> QED BY <1>1, <1>6, <2>1, <2>2, <2>3
<1>7. \A i \in DOMAIN store' :
        /\ \E k \in 1 .. Len(results') : Writer(store'[i].name) = Group(Chain'[k])
        /\ store'[i].ledgered <=> store'[i].name \notin AgentWords
        /\ store'[i].type = "DIFF" => Writer(store'[i].name) = "DiffCapture"
  BY <1>2, <1>5 DEF Sound
<1> QED BY <1>6, <1>7 DEF Written

\* The executor's own steps and StopOrLoop write nothing.
LEMMA StepWritten ==
  ASSUME Typed, Written, [HNext]_<<vars, hvars>>
  PROVE  Written'
<1>1. CASE Handled
  BY <1>1, HandledWritten DEF Handled
<1>2. CASE StopOrLoop
  <2>1. store' = store /\ Chain' = Chain /\ Len(results') = Len(results) + 1
        /\ Len(results) \in Nat
    BY <1>2, StopFacts
  <2>2. \A k \in 1 .. Len(results) : k \in 1 .. Len(results')
    BY <2>1
  <2> QED BY <2>1, <2>2 DEF Written
<1>3. CASE (Invoke \/ Touch \/ Raise \/ UNCHANGED vars) /\ UNCHANGED hvars
  <2>1. store' = store /\ Chain' = Chain /\ results' = results
    BY <1>3, QuietFacts
  <2> QED BY <2>1 DEF Written
<1> QED BY <1>1, <1>2, <1>3, StepCases

\* A run that goes on has no failure in evidence but a test's.
LEMMA StepNothingFailed ==
  ASSUME Typed, NothingFailed, [HNext]_<<vars, hvars>>
  PROVE  NothingFailed'
<1>1. ASSUME NEW answer \in Replies, NEW entries, NEW context,
             Handles(answer, entries, context)
      PROVE  NothingFailed'
  <2>1. ~Passed' /\ (Live' => ~Objects(answer))
    BY <1>1, HandledFacts
  <2>2. Live
    BY <1>1 DEF Handles, Live
  <2>3. ASSUME Live', NEW entry \in Evidence', entry.result = "FAIL"
        PROVE  entry.type = "TEST"
    <3>1. CASE entry \in Evidence
      BY <2>2, <2>3, <3>1 DEF NothingFailed
    <3>2. ASSUME NEW i \in DOMAIN entries, entry = entries[i] PROVE entry.type = "TEST"
      <4>1. Fits(answer, entry) /\ entry.ledgered
        BY <1>1, <2>3, <3>2 DEF Handles, Storable, Evidence
      <4> QED BY <2>1, <2>3, <4>1 DEF Fits
    <3> QED BY <1>1, <2>3, <3>1, <3>2, StoreFacts
  <2> QED BY <2>1, <2>3 DEF NothingFailed
<1>2. CASE StopOrLoop
  <2>1. Evidence' = Evidence /\ Live
    BY <1>2, StopFacts DEF Live
  <2> QED BY <2>1 DEF NothingFailed
<1>3. CASE (Invoke \/ Touch \/ Raise \/ UNCHANGED vars) /\ UNCHANGED hvars
  <2>1. Evidence' = Evidence /\ (Live' => Live) /\ final_status' = final_status
    BY <1>3, QuietFacts
  <2> QED BY <2>1 DEF NothingFailed, Passed
<1> QED BY <1>1, <1>2, <1>3, StepCases DEF Handled

\* The ledger is finalized once, when the run is over.
LEMMA StepStops ==
  ASSUME Typed, Stops, [HNext]_<<vars, hvars>>
  PROVE  Stops'
<1>1. ASSUME NEW answer \in Replies, NEW entries, NEW context,
             Handles(answer, entries, context)
      PROVE  Stops'
  <2>1. ~Passed' /\ ledger_status' = ledger_status
    BY <1>1, HandledFacts
  <2>2. ledger_status = "PENDING"
    BY <1>1 DEF Handles, Stops
  <2> QED BY <2>1, <2>2 DEF Stops
<1>2. CASE StopOrLoop
  <2>1. /\ phase' = "done" /\ UNCHANGED <<tree, baseline, verifier_decision>>
        /\ ledger_status' = IF verifier_decision = "PENDING" THEN "BLOCKED"
                                                             ELSE verifier_decision
        /\ Passed' => verifier_decision = "PASS" /\ tree \in {baseline, Absent}
        /\ verifier_decision = "PASS" =>
             final_status' = IF tree \in {baseline, Absent} THEN "PASS" ELSE "BLOCKED"
    BY <1>2, StopFacts
  <2> QED BY <2>1 DEF Stops
<1>3. CASE (Invoke \/ Touch \/ Raise \/ UNCHANGED vars) /\ UNCHANGED hvars
  <2>1. /\ UNCHANGED <<ledger_status, verifier_decision, final_status, baseline>>
        /\ phase' = "done" <=> phase = "done"
    BY <1>3, QuietFacts
  <2>2. tree' = tree \/ Live
    BY <1>3, QuietFacts
  <2>3. Passed \/ phase = "done" => ~Live
    BY DEF Passed, Live, Typed, IInv, OpenRun
  <2> QED BY <2>1, <2>2, <2>3 DEF Stops, Passed
<1> QED BY <1>1, <1>2, <1>3, StepCases DEF Handled

\* Every ending is by a result, or was before.
LEMMA StepEnded ==
  ASSUME Typed, Ended, [HNext]_<<vars, hvars>>
  PROVE  Ended'
<1>1. CASE Handled
  BY <1>1, HandledFacts DEF Handled
<1>2. CASE StopOrLoop
  BY <1>2, StopFacts
<1>3. CASE (Invoke \/ Touch \/ Raise \/ UNCHANGED vars) /\ UNCHANGED hvars
  <2>1. /\ UNCHANGED <<results, verifier_decision, final_status>>
        /\ phase' = "done" <=> phase = "done"
    BY <1>3, QuietFacts
  <2> QED BY <2>1 DEF Ended, Passed
<1> QED BY <1>1, <1>2, <1>3, StepCases

\* What the gates passed they would pass again: the request only loses a demand.
LEMMA GatesKept ==
  ASSUME Typed, ReqKept
  PROVE  /\ ctx'.changed = ctx.changed /\ ScopeGatePasses(ctx.changed)
              => ScopeGatePasses(ctx.changed)'
         /\ ctx'.tests = ctx.tests /\ TestGatePasses(ctx.tests)
              => TestGatePasses(ctx.tests)'
<1>1. /\ req'.files_in_scope = req.files_in_scope
      /\ req'.files_out_of_scope = req.files_out_of_scope
      /\ req.tests_not_applicable => req'.tests_not_applicable
  <2>1. req \in Request
    BY DEF Typed, HTypeOK
  <2> QED BY <2>1 DEF ReqKept, Request
<1> QED BY <1>1 DEF ScopeGatePasses, TestGatePasses

\* So what a verifier looked at stays as it was.
LEMMA CertifiedKept ==
  ASSUME Typed, ReqKept, Evidence \subseteq Evidence',
         ctx'.coding_run = ctx.coding_run, ctx'.verifier_run = ctx.verifier_run,
         ctx'.changed = ctx.changed, ctx'.tests = ctx.tests,
         NEW v, Certified(v)
  PROVE  Certified(v)'
BY GatesKept DEF Certified, ReportSaysPass

\* A vote for PASS certifies what it looked at; no other handler takes that away.
LEMMA HandledStands ==
  ASSUME Typed, Stands, NEW answer \in Replies, NEW entries, NEW context,
         Handles(answer, entries, context)
  PROVE  Stands'
<1> DEFINE n == Len(results)
<1>1. /\ n \in Nat /\ Len(results') = n + 1 /\ Current = Chain[n + 1] /\ Chain' = Chain
      /\ ctx' = context
  BY HandledFacts
<1>2. /\ Current \notin Verifiers => verifier_decision' = verifier_decision
      /\ Current \in Verifiers /\ verifier_decision' = "PASS" => answer = Ok
  BY HandledFacts
<1>3. Evidence \subseteq Evidence'
  BY StoreFacts
<1>4. ReqKept /\ Shared(context) /\ Voted(answer, entries, context)
  BY DEF Handles
<1>5. \A k \in 1 .. n : Chain[k] \in Verifiers => Current \notin Sources \cup Verifiers
  BY FreshFacts
<1> SUFFICES ASSUME verifier_decision' = "PASS"
             PROVE  \E v \in Verifiers : /\ Certified(v)'
                                         /\ \E k \in 1 .. Len(results') : Chain'[k] = v
  BY DEF Stands
<1> HIDE DEF n
<1>6. ASSUME NEW v \in Verifiers, v = Current
      PROVE  Certified(v)'
  <2>1. v \notin Sources
    BY <1>6 DEF Verifiers, Sources
  <2>2. ctx'.changed = ctx.changed /\ ctx'.tests = ctx.tests
    BY <1>1, <1>4, <1>6, <2>1 DEF Shared, Sources
  <2>3. ctx'.verifier_run \notin {NoId, ctx'.coding_run}
    BY <1>1, <1>2, <1>4, <1>6 DEF Voted
  <2>4. \E entry \in Evidence' : entry.type = "VERIFIER_REPORT" /\ entry.result = "PASS"
    <3>1. PICK i \in DOMAIN entries : /\ entries[i].ledgered
                                      /\ entries[i].type = "VERIFIER_REPORT"
                                      /\ entries[i].result = "PASS"
      BY <1>2, <1>4, <1>6 DEF Voted
    <3>2. entries[i] \in Evidence'
      BY <3>1, StoreFacts
    <3> QED BY <3>1, <3>2
  <2>5. v # "AnalysisVerifier" => /\ \E entry \in Evidence : entry.type = "DIFF"
                                  /\ ScopeGatePasses(ctx.changed)
    BY <1>2, <1>4, <1>6 DEF Voted
  <2>6. v = "ImplementationVerifier" => TestGatePasses(ctx.tests)
    BY <1>2, <1>4, <1>6 DEF Voted
  <2> QED BY <1>3, <1>4, <2>2, <2>3, <2>4, <2>5, <2>6, GatesKept DEF Certified, ReportSaysPass
<1>7. CASE Current \in Verifiers
  <2>1. n + 1 \in 1 .. n + 1
    BY <1>1
  <2> QED BY <1>1, <1>6, <1>7, <2>1
<1>8. CASE Current \notin Verifiers
  <2>1. PICK v \in Verifiers : Certified(v) /\ \E k \in 1 .. n : Chain[k] = v
    BY <1>2, <1>8 DEF Stands, n
  <2>2. PICK k \in 1 .. n : Chain[k] = v
    BY <2>1
  <2>3. k \in 1 .. n + 1
    BY <1>1
  <2>4. Current \notin Sources
    BY <1>5, <2>2
  <2>5. /\ ctx'.coding_run = ctx.coding_run /\ ctx'.verifier_run = ctx.verifier_run
        /\ ctx'.changed = ctx.changed /\ ctx'.tests = ctx.tests
    BY <1>1, <1>4, <1>8, <2>4 DEF Shared, Sources
  <2>6. Certified(v)'
    BY <1>3, <1>4, <2>1, <2>5, CertifiedKept
  <2> QED BY <1>1, <2>2, <2>3, <2>6
<1> QED BY <1>7, <1>8

\* A verdict of PASS stands on what its verifier certified.
LEMMA StepStands ==
  ASSUME Typed, Stands, [HNext]_<<vars, hvars>>
  PROVE  Stands'
<1>1. CASE Handled
  BY <1>1, HandledStands DEF Handled
<1>2. ASSUME /\ UNCHANGED <<req, ctx, verifier_decision>> /\ Evidence' = Evidence
             /\ Chain' = Chain
             /\ \A k \in 1 .. Len(results) : k \in 1 .. Len(results')
      PROVE  Stands'
  <2>1. \A v : Certified(v) => Certified(v)'
    BY <1>2, CertifiedKept DEF ReqKept
  <2> QED BY <1>2, <2>1 DEF Stands
<1>3. CASE StopOrLoop
  <2>1. /\ UNCHANGED <<req, ctx, verifier_decision>> /\ Evidence' = Evidence
        /\ Chain' = Chain /\ Len(results) \in Nat /\ Len(results') = Len(results) + 1
    BY <1>3, StopFacts
  <2>2. \A k \in 1 .. Len(results) : k \in 1 .. Len(results')
    BY <2>1
  <2> QED BY <1>2, <2>1, <2>2
<1>4. CASE (Invoke \/ Touch \/ Raise \/ UNCHANGED vars) /\ UNCHANGED hvars
  <2>1. /\ UNCHANGED <<req, ctx, verifier_decision, results>> /\ Evidence' = Evidence
        /\ Chain' = Chain
    BY <1>4, QuietFacts
  <2> QED BY <1>2, <2>1
<1> QED BY <1>1, <1>3, <1>4, StepCases

\* A verifier's report is of PASS with its vote; no other handler writes one, or votes.
LEMMA HandledReported ==
  ASSUME Typed, Stands, Reported, NEW answer \in Replies, NEW entries, NEW context,
         Handles(answer, entries, context)
  PROVE  Reported'
<1> SUFFICES ASSUME NEW entry \in Evidence',
                    entry.type = "VERIFIER_REPORT", entry.result = "PASS"
             PROVE  verifier_decision' = "PASS" \/ Overruled'
  BY DEF Reported, ReportSaysPass
<1>1. CASE entry \in Evidence
  <2>1. verifier_decision = "PASS"
    BY <1>1, HandledFacts DEF Reported, ReportSaysPass, Overruled
  <2>2. \E v \in Verifiers : \E k \in 1 .. Len(results) : Chain[k] = v
    BY <2>1 DEF Stands
  <2>3. Current \notin Verifiers
    BY <2>2, FreshFacts
  <2> QED BY <2>1, <2>3, HandledFacts
<1>2. ASSUME NEW i \in DOMAIN entries, entry = entries[i]
      PROVE  verifier_decision' = "PASS" \/ Overruled'
  <2>1. Current \in Verifiers
    BY <1>2 DEF Handles, Storable, Fits
  <2>2. answer = Ok
    BY <1>2, <2>1 DEF Handles, Voted
  <2> QED BY <2>1, <2>2, HandledFacts
<1> QED BY <1>1, <1>2, StoreFacts

\* The other steps report nothing, and overrule nothing that was not.
LEMMA StepReported ==
  ASSUME Typed, Stands, Reported, [HNext]_<<vars, hvars>>
  PROVE  Reported'
<1>1. CASE Handled
  BY <1>1, HandledReported DEF Handled
<1>2. CASE StopOrLoop
  <2>1. Evidence' = Evidence /\ verifier_decision' = verifier_decision /\ final_status = "none"
    BY <1>2, StopFacts
  <2> QED BY <2>1 DEF Reported, ReportSaysPass, Overruled
<1>3. CASE (Invoke \/ Touch \/ Raise \/ UNCHANGED vars) /\ UNCHANGED hvars
  <2>1. /\ UNCHANGED <<verifier_decision, final_status, baseline>> /\ Evidence' = Evidence
        /\ tree' = tree \/ Live
    BY <1>3, QuietFacts
  <2>2. Overruled => ~Live
    BY DEF Overruled, Live, Typed, IInv, OpenRun
  <2> QED BY <2>1, <2>2 DEF Reported, ReportSaysPass, Overruled
<1> QED BY <1>1, <1>2, <1>3, StepCases

\* A reproduction that the run goes on after has left its failure in the store, and a
\* repair's diff comes after it.
LEMMA HandledReproduced ==
  ASSUME Typed, Written, Reproduced, NEW answer \in Replies, NEW entries, NEW context,
         Handles(answer, entries, context)
  PROVE  Reproduced'
<1> DEFINE n == Len(results)
           Stored(i) == /\ i \in DOMAIN store'
                        /\ store'[i].type = "TEST" /\ store'[i].result = "FAIL"
<1>1. /\ n \in Nat /\ Len(results') = n + 1 /\ Current = Chain[n + 1] /\ Chain' = Chain
      /\ task' = task /\ n + 1 \in 1 .. Len(Chain)
  BY HandledFacts
<1>2. /\ \A i \in DOMAIN store : i \in DOMAIN store' /\ store'[i] = store[i]
      /\ store \in Seq(EntryType)
  BY StoreFacts
<1>3. Live /\ Reproducing(answer, entries)
  BY DEF Handles, Live
<1>4. \A i \in DOMAIN store : FailureStored(i) => Stored(i)
  BY <1>2 DEF FailureStored
<1> HIDE DEF n
<1>5. ASSUME Live', NEW k \in 1 .. n + 1, Chain[k] \in Reproductions
      PROVE  \E i : Stored(i)
  <2>1. CASE k \in 1 .. n
    BY <1>3, <1>4, <1>5, <2>1 DEF Reproduced, n
  <2>2. CASE k = n + 1
    <3>1. ~Objects(answer)
      BY <1>5, HandledFacts
    <3>2. PICK j \in DOMAIN entries : entries[j].type = "TEST" /\ entries[j].result = "FAIL"
      BY <1>1, <1>3, <1>5, <2>2, <3>1 DEF Reproducing
    <3>3. Len(store) + j \in DOMAIN store' /\ store'[Len(store) + j] = entries[j]
      BY <3>2, StoreFacts
    <3>4. Stored(Len(store) + j)
      BY <3>2, <3>3
    <3> QED BY <3>4
  <2> QED BY <1>1, <2>1, <2>2
<1>6. ASSUME task \in Repairs, NEW j \in DOMAIN store', store'[j].type = "DIFF"
      PROVE  \E i : i < j /\ Stored(i)
  <2>1. CASE j \in DOMAIN store
    <3>1. PICK i \in DOMAIN store : i < j /\ FailureStored(i)
      BY <1>2, <1>6, <2>1 DEF Reproduced
    <3> QED BY <1>4, <3>1
  <2>2. CASE j > Len(store) /\ j - Len(store) \in DOMAIN entries
             /\ store'[j] = entries[j - Len(store)]
    <3>1. Current = "DiffCapture"
      BY <1>6, <2>2, DiffCaptureGroup DEF Handles, Storable, Fits
    <3>2. PICK k \in 1 .. Len(Chain) : /\ Chain[k] \in Reproductions
                                       /\ \A m \in 1 .. Len(Chain) :
                                            Chain[m] = "DiffCapture" => k < m
      BY <1>6, OrderFacts DEF RepairOrdered
    <3>3. k \in 1 .. n
      <4>1. k < n + 1 /\ Len(Chain) \in Nat
        BY <1>1, <3>1, <3>2, OrderFacts
      <4> QED BY <1>1, <4>1
    <3>4. PICK i \in DOMAIN store : FailureStored(i)
      BY <1>3, <3>2, <3>3 DEF Reproduced, n
    <3>5. i \in Nat /\ i <= Len(store) /\ j \in Nat /\ Len(store) \in Nat
      BY <1>2, <1>6, <3>4, StoreFacts
    <3>6. i < j
      BY <2>2, <3>5
    <3> QED BY <1>4, <3>4, <3>6
  <2> QED BY <2>1, <2>2, StoreFacts
<1>7. Live' /\ (\E k \in 1 .. Len(results') : Chain'[k] \in Reproductions)
        => \E i \in DOMAIN store' : FailureStored(i)'
  BY <1>1, <1>5 DEF FailureStored
<1>8. task' \in Repairs =>
        \A j \in DOMAIN store' :
          store'[j].type = "DIFF" => \E i \in DOMAIN store' : i < j /\ FailureStored(i)'
  BY <1>1, <1>6 DEF FailureStored
<1> QED BY <1>7, <1>8 DEF Reproduced

\* The other steps store nothing, and do not put a run that is over back to work.
LEMMA StepReproduced ==
  ASSUME Typed, Written, Reproduced, [HNext]_<<vars, hvars>>
  PROVE  Reproduced'
<1>1. CASE Handled
  BY <1>1, HandledReproduced DEF Handled
<1>2. CASE StopOrLoop
  <2>1. store' = store /\ task' = task /\ ~Live'
    BY <1>2, StopFacts DEF Live
  <2> QED BY <2>1 DEF Reproduced, FailureStored
<1>3. CASE (Invoke \/ Touch \/ Raise \/ UNCHANGED vars) /\ UNCHANGED hvars
  <2>1. /\ store' = store /\ task' = task /\ results' = results /\ Chain' = Chain
        /\ Live' => Live
    BY <1>3, QuietFacts
  <2> QED BY <2>1 DEF Reproduced, FailureStored
<1> QED BY <1>1, <1>2, <1>3, StepCases

\* What the handlers have read is the content the run started from, as long as that is
\* what the directory holds.
LEMMA HandledOneRead ==
  ASSUME Typed, OneRead, NEW answer \in Replies, NEW entries, NEW context,
         Handles(answer, entries, context)
  PROVE  OneRead'
<1>1. ctx' = context /\ UNCHANGED <<tree, baseline, seen>>
  BY HandledFacts
<1>2. Shared(context) /\ Captured(context)
  BY DEF Handles
<1> SUFFICES ASSUME tree = baseline
             PROVE  /\ seen \subseteq {baseline}
                    /\ context.saw \subseteq {baseline}
                    /\ context.whole => context.changed = Changed[baseline]
  BY <1>1 DEF OneRead
<1>3. seen \subseteq {baseline} /\ ctx.saw \subseteq {baseline}
  BY DEF OneRead
<1>4. context.saw \subseteq {baseline}
  BY <1>2, <1>3 DEF Shared, ReadsSeen
<1>5. ASSUME context.whole
      PROVE  context.changed = Changed[baseline]
  <2>1. CASE ctx.whole /\ context.changed = ctx.changed
    BY <2>1 DEF OneRead
  <2>2. CASE \E named \in seen : context.changed = Changed[named]
    BY <1>3, <2>2
  <2>3. CASE Current # "DiffCapture"
    BY <1>2, <1>5, <2>1, <2>3 DEF Shared
  <2> QED BY <1>2, <1>5, <2>1, <2>2, <2>3 DEF Captured
<1> QED BY <1>3, <1>4, <1>5

\* The other steps read nothing, and an edit leaves the content for good.
LEMMA StepOneRead ==
  ASSUME ~Reverts, Typed, OneRead, [HNext]_<<vars, hvars>>
  PROVE  OneRead'
<1>1. CASE Handled
  BY <1>1, HandledOneRead DEF Handled
<1>2. CASE StopOrLoop
  <2>1. UNCHANGED <<ctx, store, tree, baseline, seen>>
    BY <1>2, StopFacts
  <2> QED BY <2>1 DEF OneRead
<1>3. CASE Touch /\ UNCHANGED hvars
  <2>1. tree' # baseline /\ baseline' = baseline
    BY <1>3 DEF Touch
  <2> QED BY <2>1 DEF OneRead
<1>4. CASE Invoke /\ UNCHANGED hvars
  <2>1. UNCHANGED <<ctx, store, tree, baseline>> /\ seen' = {tree}
    BY <1>4 DEF Invoke, hvars
  <2> QED BY <2>1 DEF OneRead
<1>5. CASE (Raise \/ UNCHANGED vars) /\ UNCHANGED hvars
  <2>1. UNCHANGED <<ctx, store, tree, baseline, seen>>
    BY <1>5 DEF Raise, vars, hvars
  <2> QED BY <2>1 DEF OneRead
<1> QED BY <1>1, <1>2, <1>3, <1>4, <1>5, StepCases

------------------------------------------------------------------------------
\* The inductive invariant of the run under the repository's handlers.
HInv ==
  /\ Typed /\ Written /\ NothingFailed
  /\ Stops /\ Ended /\ Stands /\ Reported /\ Reproduced

\* It holds at the start, before anything is stored or read.
LEMMA InitHandlers == HInit => HInv /\ OneRead
<1> SUFFICES ASSUME HInit PROVE HInv /\ OneRead
  OBVIOUS
<1>1. /\ Init /\ req \in Requests[task] /\ store = <<>> /\ ledger_status = "PENDING"
      /\ ctx = [coding_run |-> NoId, verifier_run |-> NoId, candidate |-> "none",
                agent_output |-> FALSE, quarantined |-> FALSE, strategic |-> FALSE,
                changed |-> {}, whole |-> FALSE, tests |-> NoLogs,
                reproduction |-> NoLogs, build |-> NoLogs, saw |-> {}]
  BY DEF HInit
<1>2. /\ task \in Tasks /\ phase = "dispatch" /\ results = <<>> /\ final_status = "none"
      /\ verifier_decision = "PENDING" /\ seen = {tree}
  BY <1>1 DEF Init
<1>3. Evidence = {} /\ \A i \in DOMAIN store : FALSE
  BY <1>1 DEF Evidence, Range
<1>4. Typed
  <2>1. IInv
    BY <1>1, InitIInv
  <2>2. req \in Request /\ NoId \in RunIds[task]
    BY <1>1, <1>2, HandlersAssumption DEF HandlersAssumption
  <2>3. ctx \in Context
    BY <1>1, <2>2 DEF Context
  <2>4. store \in Seq(EntryType)
    BY <1>1
  <2> QED BY <1>1, <2>1, <2>2, <2>3, <2>4 DEF Typed, HTypeOK, Context, EntryType
<1>5. Written /\ NothingFailed
  BY <1>3 DEF Written, NothingFailed
<1>6. Stops /\ Ended /\ Stands /\ Reported
  BY <1>1, <1>2, <1>3 DEF Stops, Ended, Stands, Reported, ReportSaysPass, Passed
<1>7. Len(results) = 0
  BY <1>2
<1>8. Reproduced
  BY <1>3, <1>7 DEF Reproduced
<1>9. OneRead
  BY <1>1, <1>2, <1>3 DEF OneRead
<1> QED BY <1>4, <1>5, <1>6, <1>8, <1>9 DEF HInv

\* Every step keeps it.
LEMMA NextHandlers == HInv /\ [HNext]_<<vars, hvars>> => HInv'
<1> SUFFICES ASSUME HInv, [HNext]_<<vars, hvars>> PROVE HInv'
  OBVIOUS
<1>1. Typed'
  BY HandlersNext, NextIInv, StepTypes DEF HInv, Typed
<1> QED BY <1>1, StepWritten, StepNothingFailed, StepStops, StepEnded, StepStands,
           StepReported, StepReproduced
        DEF HInv

\* So it holds always.
LEMMA HInvAlways == HSpec => []HInv
BY InitHandlers, NextHandlers, PTL DEF HSpec

\* OneRead holds with it when nothing puts an edited repository back.
LEMMA OneReadAlways ==
  ASSUME ~Reverts
  PROVE  HSpec => [](HInv /\ OneRead)
<1>1. HInv /\ OneRead /\ [HNext]_<<vars, hvars>> => (HInv /\ OneRead)'
  BY NextHandlers, StepOneRead DEF HInv
<1> QED BY <1>1, InitHandlers, PTL DEF HSpec

------------------------------------------------------------------------------
\* The handlers' state is of its type: a request, a context whose run ids were supplied
\* or are the defaults of the agent and of the verifiers, artifacts of the names and the
\* types handlers/*.py writes, and a ledger that is PENDING or has one of the decisions.
THEOREM HandlersTypeCorrect == HSpec => []HTypeOK
<1>1. HInv => HTypeOK
  BY DEF HInv, Typed
<1> QED BY <1>1, HInvAlways, PTL

\* No handler of a run writes an artifact over another's; and what is not ledgered is the
\* agent's words and nothing else (ArtifactStore.write, quarantine_agent_output,
\* LLMInvocationRecorder, StructuredOutputParserHandler).
THEOREM EvidenceIsKept == HSpec => []EvidenceKept
<1>1. HInv => EvidenceKept
  BY DEF HInv, Written, EvidenceKept
<1> QED BY <1>1, HInvAlways, PTL

\* A PASS stands, at every later moment of the run, on a verifier whose run id is not the
\* run id of the agent whose work it passed: no handler after the vote changes either id.
THEOREM VerdictsAreIndependent == HSpec => []IndependentVerdict
<1>1. HInv => IndependentVerdict
  BY DEF HInv, Stands, Certified, IndependentVerdict
<1> QED BY <1>1, HInvAlways, PTL

\* Report, verdict, ledger and run say PASS together; and where one of them says it and
\* another does not, the executor replaced the answer it was written with, or the run's
\* last handler objected (StopOrLoopHandler, the verifiers, _enforce_no_repo_mutation).
THEOREM VerdictsAreRecorded == HSpec => []VerdictIsRecorded
<1>1. HInv => VerdictIsRecorded
  <2> SUFFICES ASSUME HInv PROVE VerdictIsRecorded
    OBVIOUS
  <2>1. verifier_decision = "PASS" => ReportSaysPass
    BY DEF HInv, Stands, Certified
  <2>2. ReportSaysPass => verifier_decision = "PASS" \/ Overruled
    BY DEF HInv, Reported
  <2>3. ledger_status = "PASS" => verifier_decision = "PASS"
    BY DEF HInv, Stops
  <2>4. Passed <=> ledger_status = "PASS" /\ ~Overruled
    BY DEF HInv, Stops, Passed, Overruled
  <2>5. ASSUME phase = "done"
        PROVE  Passed <=> verifier_decision = "PASS" /\ ~Objects(results[Len(results)])
    <3>1. Len(results) \in 1 .. Len(results)
      BY <2>5 DEF HInv, Ended
    <3>2. Passed => verifier_decision = "PASS" /\ ~Objects(results[Len(results)])
      BY <3>1 DEF HInv, Typed, IInv, ClosedRun, Passed
    <3> QED BY <2>5, <3>2 DEF HInv, Ended
  <2> QED BY <2>1, <2>2, <2>3, <2>4, <2>5 DEF VerdictIsRecorded
<1> QED BY <1>1, HInvAlways, PTL

\* A run that has a check, a scan, a build or a verifier's report of FAIL in its evidence
\* does not pass, for the handler that recorded it failed.
THEOREM FailuresAreNotPassedOver == HSpec => []NoFailedEvidence
<1>1. HInv => NoFailedEvidence
  BY DEF HInv, NothingFailed, NoFailedEvidence
<1> QED BY <1>1, HInvAlways, PTL

\* The verifier of a chain that runs tests is the one that looks at their outcomes, and a
\* run does not pass with a test known to have failed or timed out (TestRunnerHandler,
\* test_gate).
THEOREM TestsArePassed == HSpec => []TestsPassed
<1>1. HInv => TestsPassed
  <2> SUFFICES ASSUME HInv, Passed, NEW i \in DOMAIN Chain, Chain[i] = "TestRunner"
               PROVE  \/ req.tests_not_applicable
                      \/ /\ ctx.tests # NoLogs
                         /\ Range(ctx.tests) \ {"missing"} \subseteq {"zero"}
    BY DEF TestsPassed
  <2>1. PICK v \in Verifiers : Certified(v) /\ \E k \in 1 .. Len(results) : Chain[k] = v
    BY DEF HInv, Stops, Stands
  <2>2. PICK k \in 1 .. Len(results) : Chain[k] = v
    BY <2>1
  <2>3. i \in 1 .. Len(Chain) /\ k \in 1 .. Len(Chain) /\ WellOrdered(Chain)
    BY OrderFacts, ChainType DEF HInv
  <2>4. v = "ImplementationVerifier"
    BY <2>2, <2>3 DEF WellOrdered
  <2>5. TestGatePasses(ctx.tests)
    BY <2>1, <2>4 DEF Certified
  <2> QED BY <2>5 DEF TestGatePasses, OutcomeOf, Range
<1> QED BY <1>1, HInvAlways, PTL

\* A repair passes only with a failing reproduction recorded before the diff that repairs
\* it (FailureReproductionHandler, ReproductionHandler, DiffCaptureHandler).
THEOREM FailuresComeFirst == HSpec => []FailureFirst
<1>1. HInv => FailureFirst
  <2> SUFFICES ASSUME HInv, Passed, task \in Repairs
               PROVE  \E i, j \in DOMAIN store :
                        i < j /\ FailureStored(i) /\ store[j].type = "DIFF"
    BY DEF FailureFirst, FailureStored, Repairs
  <2>1. PICK v \in Verifiers : Certified(v) /\ \E k \in 1 .. Len(results) : Chain[k] = v
    BY DEF HInv, Stops, Stands
  <2>2. PICK k \in 1 .. Len(results) : Chain[k] = v
    BY <2>1
  <2>3. k \in 1 .. Len(Chain) /\ RepairOrdered(Chain)
    BY OrderFacts DEF HInv
  <2>4. v # "AnalysisVerifier"
    BY <2>2, <2>3 DEF RepairOrdered
  <2>5. PICK j \in DOMAIN store : store[j].type = "DIFF"
    BY <2>1, <2>4 DEF Certified, Evidence, Range
  <2> QED BY <2>5 DEF HInv, Reproduced
<1> QED BY <1>1, HInvAlways, PTL

\* When nothing puts an edited repository back, whatever the handlers of a passed run read
\* of the repository they read of the content that is still there (_enforce_no_repo_mutation
\* compares what is there at the end of every handler with the first snapshot).
THEOREM EvidenceIsOfOneTree == ASSUME ~Reverts PROVE HSpec => []OneTree
<1>1. HInv /\ OneRead => OneTree
  BY DEF HInv, Stops, OneRead, OneTree
<1> QED BY <1>1, OneReadAlways, PTL

\* Then the list of changed files that the verifier found in the request's scope, where it
\* is whole, is also what the repository that is still there changes against HEAD
\* (DiffCaptureHandler, ScopeGate): it has not been overtaken by an edit.
THEOREM ChangesAreInScope == ASSUME ~Reverts PROVE HSpec => []RealChangesInScope
<1>1. HInv /\ OneRead => RealChangesInScope
  <2> SUFFICES ASSUME HInv, OneRead, Passed, "DIFF" \in {entry.type : entry \in Evidence}
               PROVE  /\ ctx.changed \subseteq req.files_in_scope \ req.files_out_of_scope
                      /\ tree # Absent /\ ctx.whole => ctx.changed = Changed[baseline]
    BY DEF RealChangesInScope
  <2>1. tree # Absent => tree = baseline
    BY DEF HInv, Stops
  <2>2. tree # Absent /\ ctx.whole => ctx.changed = Changed[baseline]
    BY <2>1 DEF OneRead
  <2>3. PICK i \in DOMAIN store : store[i].type = "DIFF"
    BY DEF Evidence, Range
  <2>4. PICK d \in 1 .. Len(results) : Chain[d] = "DiffCapture"
    BY <2>3, DiffCaptureGroup DEF HInv, Written
  <2>5. PICK v \in Verifiers : Certified(v) /\ \E k \in 1 .. Len(results) : Chain[k] = v
    BY DEF HInv, Stops, Stands
  <2>6. PICK k \in 1 .. Len(results) : Chain[k] = v
    BY <2>5
  <2>7. d \in 1 .. Len(Chain) /\ k \in 1 .. Len(Chain) /\ WellOrdered(Chain)
    BY OrderFacts DEF HInv
  <2>8. v # "AnalysisVerifier"
    BY <2>4, <2>6, <2>7 DEF WellOrdered
  <2>9. ScopeGatePasses(ctx.changed)
    BY <2>5, <2>8 DEF Certified
  <2> QED BY <2>2, <2>9 DEF ScopeGatePasses
<1> QED BY <1>1, OneReadAlways, PTL
==============================================================================
