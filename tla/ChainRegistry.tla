---------------------------- MODULE ChainRegistry ----------------------------
(***************************************************************************)
(* The constant tables the harness routes by: the handler types and what   *)
(* each may do (handlers/authority.py), the type every handler declares    *)
(* (handlers/*.py) and the chains a task type resolves to                  *)
(* (chains/registry.py).  A handler is named as in the source without its  *)
(* suffix "Handler".                                                       *)
(***************************************************************************)
EXTENDS Sequences

HandlerTypes == {"PURE_CHECK", "READ_ONLY_COMMAND", "WRITE_COMMAND",
                 "AGENT_INVOCATION", "VERIFIER", "PR_ACTION", "EVALUATOR"}

HandlerStatuses == {"PASS", "FAIL", "BLOCKED", "SKIPPED"}

HandlerDecisions == {"CONTINUE", "SKIP_NOT_APPLICABLE", "FAIL", "BLOCKED", "STOP"}

PrStatuses == {"GATED", "NOT_REQUIRED", "NOT_READY", "BLOCKED"}

\* The three columns of the authority matrix that some handler type is granted.
CanModifyRepo(type) == type \in {"WRITE_COMMAND", "AGENT_INVOCATION"}
CanDecidePass(type) == type = "VERIFIER"
CanCreatePr(type) == type = "PR_ACTION"

(***************************************************************************)
(* Handlers, by the type each class declares.  PRCreation is implemented   *)
(* and registered, and no chain names it.                                  *)
(***************************************************************************)
PureChecks ==
  {"ManifestValidation", "ScrumMapping", "DefinitionOfDoneLock", "ScopeValidation",
   "EvidenceGate", "StopOrLoop", "ReadOnlyCompliance",
   "StrategicProgrammingAssessment", "StrategicDesignGate",
   "AgentOutputQuarantine", "ScopeDiff", "MemoryUpdate",
   "SecurityReviewTestsNotApplicable", "DependencyVulnerability",
   "AuthChangeRisk", "InputValidationRisk", "LinkCheck", "LockfileValidation",
   "DependencyRisk", "LicenseCheck", "FailureClassification",
   "CIConfigValidation"}

ReadOnlyCommands ==
  {"RepoInventory", "CommandDiscovery", "CIInventory", "DependencyInventory",
   "AnalysisAgentInvocation", "StructuredOutputParser", "AIReadinessScoring",
   "BacklogFindingGenerator", "BacklogUpdate", "DiffCapture", "TestRunner",
   "StaticCheck", "FailureReproduction", "Reproduction", "SecretScan",
   "DocumentationGap", "Build", "CIFailureLogParser"}

Verifiers == {"AnalysisVerifier", "ImplementationVerifier", "SecurityVerifier",
              "DocumentationVerifier"}

Handlers == PureChecks \cup ReadOnlyCommands \cup Verifiers
              \cup {"AgentInvocation", "Evaluator", "PRGate", "PRCreation"}

HandlerType ==
  [h \in Handlers |->
     CASE h \in PureChecks -> "PURE_CHECK"
       [] h \in ReadOnlyCommands -> "READ_ONLY_COMMAND"
       [] h \in Verifiers -> "VERIFIER"
       [] h = "AgentInvocation" -> "AGENT_INVOCATION"
       [] h = "Evaluator" -> "EVALUATOR"
       [] OTHER -> "PR_ACTION"]

(***************************************************************************)
(* The seven registered chains.                                            *)
(***************************************************************************)
AIReadinessAudit ==
  <<"ManifestValidation", "ScrumMapping", "DefinitionOfDoneLock", "ScopeValidation",
    "RepoInventory", "CommandDiscovery", "CIInventory", "DependencyInventory",
    "ReadOnlyCompliance", "AnalysisAgentInvocation", "AgentOutputQuarantine",
    "StructuredOutputParser", "AIReadinessScoring",
    "StrategicProgrammingAssessment", "BacklogFindingGenerator", "EvidenceGate",
    "AnalysisVerifier", "Evaluator", "MemoryUpdate", "BacklogUpdate", "StopOrLoop">>

Implementation ==
  <<"ManifestValidation", "ScrumMapping", "DefinitionOfDoneLock", "ScopeValidation",
    "StrategicDesignGate", "AgentInvocation", "AgentOutputQuarantine",
    "DiffCapture", "TestRunner", "StaticCheck", "ScopeDiff", "EvidenceGate",
    "ImplementationVerifier", "Evaluator", "MemoryUpdate", "PRGate", "StopOrLoop">>

BugFix ==
  <<"ManifestValidation", "ScrumMapping", "DefinitionOfDoneLock", "ScopeValidation",
    "FailureReproduction", "StrategicDesignGate", "AgentInvocation",
    "AgentOutputQuarantine", "DiffCapture", "TestRunner", "StaticCheck",
    "ScopeDiff", "EvidenceGate", "ImplementationVerifier", "Evaluator",
    "MemoryUpdate", "PRGate", "StopOrLoop">>

SecurityReview ==
  <<"ManifestValidation", "ScrumMapping", "ScopeValidation",
    "SecurityReviewTestsNotApplicable", "DiffCapture", "SecretScan",
    "DependencyVulnerability", "AuthChangeRisk", "InputValidationRisk",
    "EvidenceGate", "SecurityVerifier", "Evaluator", "PRGate", "StopOrLoop">>

DependencyUpdate ==
  <<"ManifestValidation", "ScrumMapping", "DefinitionOfDoneLock",
    "DependencyInventory", "DependencyRisk", "LicenseCheck",
    "StrategicDesignGate", "AgentInvocation", "AgentOutputQuarantine",
    "DiffCapture", "LockfileValidation", "TestRunner", "StaticCheck", "Build",
    "EvidenceGate", "ImplementationVerifier", "Evaluator", "PRGate", "StopOrLoop">>

DocumentationUpdate ==
  <<"ManifestValidation", "ScrumMapping", "DocumentationGap",
    "StrategicDesignGate", "AgentInvocation", "AgentOutputQuarantine",
    "DiffCapture", "LinkCheck", "DocumentationVerifier", "EvidenceGate",
    "Evaluator", "PRGate", "StopOrLoop">>

CIFailureRepair ==
  <<"ManifestValidation", "ScrumMapping", "CIFailureLogParser",
    "FailureClassification", "Reproduction", "StrategicDesignGate",
    "AgentInvocation", "AgentOutputQuarantine", "DiffCapture", "TestRunner",
    "CIConfigValidation", "EvidenceGate", "ImplementationVerifier", "Evaluator",
    "PRGate", "StopOrLoop">>

\* resolve_chain: REFACTOR and TEST_COVERAGE_EXPANSION reuse the implementation
\* chain; a task type outside this domain resolves to no chain at all.
ChainFor ==
  [AI_READINESS_AUDIT      |-> AIReadinessAudit,
   IMPLEMENTATION          |-> Implementation,
   BUG_FIX                 |-> BugFix,
   SECURITY_REVIEW         |-> SecurityReview,
   DEPENDENCY_UPDATE       |-> DependencyUpdate,
   DOCUMENTATION_UPDATE    |-> DocumentationUpdate,
   CI_FAILURE_REPAIR       |-> CIFailureRepair,
   REFACTOR                |-> Implementation,
   TEST_COVERAGE_EXPANSION |-> Implementation]

\* The mode a registered chain declares: only the audit is read-only.
ModeOf(chain) ==
  IF chain = AIReadinessAudit THEN "READ_ONLY_ANALYSIS" ELSE "IMPLEMENTATION"
==============================================================================
