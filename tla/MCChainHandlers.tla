--------------------------- MODULE MCChainHandlers ---------------------------
(***************************************************************************)
(* The registered chains on a small repository: two contents, HEAD and one *)
(* that changes a file; and requests in every combination of the facts the *)
(* chain at hand can tell apart.                                           *)
(***************************************************************************)
EXTENDS ChainHandlers

CONSTANTS c0, c1

MCContents == {c0, c1}

MCFiles == {"src", "docs"}

\* c0 is a tree with "src" changed, c1 one with every file deleted: that is what an
\* empty or missing directory is to a snapshot, too.
MCChanged == [t \in MCContents \cup {Absent} |->
                CASE t = c0 -> {"src"} [] t = c1 -> MCFiles [] OTHER -> {}]

MCAnswers ==
  {Answer("PASS", "CONTINUE"), Answer("PASS", "STOP"), Answer("FAIL", "FAIL"),
   Answer("BLOCKED", "BLOCKED"), Answer("SKIPPED", "SKIP_NOT_APPLICABLE"),
   [Answer("PASS", "CONTINUE") EXCEPT !.pr_status = "GATED"],
   [Answer("PASS", "CONTINUE") EXCEPT !.pr_status = "NOT_READY"]}

OneCommand == {"suite"}

\* No id, and an agent's or, as the agent's, the one the chain's verifier takes by default.
AgentRunIds == {NoId, "agent"}
MCRunIds ==
  [AI_READINESS_AUDIT   |-> {NoId, "analysis-verifier"},
   SECURITY_REVIEW      |-> {NoId, "security-verifier"},
   DOCUMENTATION_UPDATE |-> {NoId, "doc-verifier"},
   IMPLEMENTATION       |-> {NoId, "impl-verifier"},
   BUG_FIX              |-> AgentRunIds,
   DEPENDENCY_UPDATE    |-> AgentRunIds,
   CI_FAILURE_REPAIR    |-> AgentRunIds]

\* Where tests apply or not, and the scope is empty, right, too wide or closed.
AnyRequest ==
  {r \in Request : /\ r.files_in_scope \in {{}, {"src"}, MCFiles}
                   /\ r.files_out_of_scope \in {{}, {"src"}}}

\* Requests in which what is out of scope bears on the answer: it takes something out.
ScopedRequests ==
  {r \in AnyRequest : r.files_in_scope # MCFiles => r.files_out_of_scope = {}}

\* Requests whose envelope is in order and whose work is implementation.
WorkRequests ==
  {r \in ScopedRequests : r.mode = "IMPLEMENTATION" /\ r.linked /\ r.files_in_scope # {}}

\* For the chains with the longest history: what bears on the questions asked.
AuditRequests ==
  {r \in ScopedRequests : ~r.tests_not_applicable /\ r.files_in_scope # MCFiles}
ChangeRequests ==
  {r \in ScopedRequests : /\ r.tests_not_applicable => r.files_in_scope = MCFiles
                          /\ r.linked \/ r.mode = "IMPLEMENTATION"}
RepairRequests ==
  {r \in WorkRequests : ~r.tests_not_applicable /\ r.files_out_of_scope = {}}
UpdateRequests ==
  {r \in WorkRequests :
     ~r.tests_not_applicable /\ (r.files_in_scope = MCFiles <=> r.files_out_of_scope # {})}

MCRequests ==
  [AI_READINESS_AUDIT   |-> AuditRequests,
   SECURITY_REVIEW      |-> AnyRequest,
   DOCUMENTATION_UPDATE |-> ChangeRequests,
   IMPLEMENTATION       |-> ChangeRequests,
   BUG_FIX              |-> RepairRequests,
   DEPENDENCY_UPDATE    |-> {r \in UpdateRequests : r.files_in_scope = {"src"}},
   CI_FAILURE_REPAIR    |-> UpdateRequests]
==============================================================================
