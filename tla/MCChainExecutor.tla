--------------------------- MODULE MCChainExecutor ---------------------------
(***************************************************************************)
(* Small chains for TLC: a write handler, a check, two verifiers (so that  *)
(* a vote can be replaced), a handler that may stop the chain, and a name  *)
(* nobody registered behind it.  Answers holds the five the builders of    *)
(* Handler make and, as the schema of HandlerResult allows any pair, some  *)
(* a handler of somebody's own could return.                               *)
(***************************************************************************)
EXTENDS ChainExecutor, TLC

CONSTANTS c0, c1, c2

MCChain == <<"AgentInvocation", "ScopeDiff", "ImplementationVerifier",
             "DocumentationVerifier", "StopOrLoop", "NotYetWritten">>

MCTypeOf == HandlerType @@ [NotYetWritten |-> "PURE_CHECK"]

MCContents == {c0, c1, c2}

BuilderAnswers ==
  {Answer("PASS", "CONTINUE"), Answer("PASS", "STOP"), Answer("FAIL", "FAIL"),
   Answer("BLOCKED", "BLOCKED"), Answer("SKIPPED", "SKIP_NOT_APPLICABLE")}

MCAnswers ==
  BuilderAnswers \cup
  {Answer("FAIL", "CONTINUE"), Answer("PASS", "FAIL"), Answer("BLOCKED", "STOP"),
   [Answer("PASS", "CONTINUE") EXCEPT !.pr_status = "GATED"]}

\* The first chain ends in a name nobody registered; the second runs out of handlers.
MCTasks == {"DEFERRING", "COMPLETE"}
MCChainOf ==
  [DEFERRING |-> MCChain,
   COMPLETE  |-> <<"AgentInvocation", "ScopeDiff", "ImplementationVerifier",
                   "StopOrLoop">>]
==============================================================================
