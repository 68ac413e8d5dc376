----------------------------- MODULE ModelRouter -----------------------------
(***************************************************************************)
(* ModelRouter.invoke_role (llm/base.py): the models of a manifest, asked  *)
(* by role through their rate limiters and adapters, each with another to  *)
(* fall back to.  The router does not ask whether the policy gate admitted *)
(* the manifest; the properties do.                                        *)
(*                                                                         *)
(* _invoke and _fallback call each other, and what an outer call does with *)
(* the result of an inner one (it says FALLBACK_USED again) changes        *)
(* nothing, so "path", the models asked in turn, stands for the stack.     *)
(***************************************************************************)
EXTENDS RateLimiter, ModelPolicy, FiniteSets

CONSTANTS Manifests,   \* the manifests considered
          Adapters,    \* the providers there is an adapter for
          Asked,       \* the permissions a caller may require, or None
          MaxCalls,    \* bound on the calls of invoke_role
          StackDepth   \* how deep _invoke can call itself: the interpreter's limit

\* ModelSpec has more fields: the policy's rules ask for them.
ASSUME RouterAssumption ==
  /\ MaxCalls \in Nat /\ StackDepth \in Nat /\ None \in Asked
  /\ \A m \in Manifests :
       /\ m.models \in Seq(Range(m.models)) /\ Len(m.models) <= StackDepth
       /\ \A spec \in Range(m.models) :
            spec.model_id \in ModelIds /\ spec.requests_per_min \in 0 .. MaxRate

VARIABLES
  manifest,  \* the run's
  phase,     \* where the call is: "idle" between calls
  call,      \* what is asked: the role and the permission required
  path,      \* the models asked so far, as places in manifest.models
  result,    \* the RouterResult of the last call
  records,   \* the LLMInvocationRecords, in order
  calls      \* calls begun

rvars == <<manifest, phase, call, path, result, records, calls>>

Phases == {"idle", "asking", "calling", "failed"}
Statuses == {"OK", "FALLBACK_USED", "THROTTLED", "PERMISSION_DENIED",
             "NO_MODEL_FOR_ROLE"}
Answers == {"OK", "FALLBACK_USED"}

Models == manifest.models
At == path[Len(path)]

FirstOf(places) ==
  IF places = {} THEN 0 ELSE CHOOSE i \in places : \A j \in places : i <= j
LastOf(places) ==
  IF places = {} THEN 0 ELSE CHOOSE i \in places : \A j \in places : i >= j

\* The place of the first model of a role, of the last with an id; 0 if there is none.
Select(role) == FirstOf({i \in DOMAIN Models : Models[i].role = role})
LastWithId(models, id) == LastOf({i \in DOMAIN models : models[i].model_id = id})

Fallback(i) ==
  IF Models[i].fallback_model_id = None THEN 0
  ELSE LastWithId(Models, Models[i].fallback_model_id)

\* The rate of the limiter each id has: by_id and the limiters keep the last of an id.
RateOf(models, id) ==
  LET i == LastWithId(models, id) IN IF i = 0 THEN 0 ELSE models[i].requests_per_min

NoResult == [status |-> "NONE", model |-> 0]

Init ==
  /\ manifest \in Manifests
  /\ LimiterInit([m \in ModelIds |-> RateOf(manifest.models, m)])
  /\ phase = "idle"
  /\ call = [role |-> "ROUTER", permission |-> None]
  /\ path = <<>>
  /\ result = NoResult
  /\ records = <<>>
  /\ calls = 0

\* The call returns to its caller.
Conclude(status, model) ==
  /\ phase' = "idle"
  /\ result' = [status |-> status, model |-> model]

\* invoke_role up to _invoke.
Call(role, permission) ==
  /\ phase = "idle"
  /\ calls < MaxCalls
  /\ calls' = calls + 1
  /\ call' = [role |-> role, permission |-> permission]
  /\ LET i == Select(role)
     IN  \/ /\ i = 0
            /\ Conclude("NO_MODEL_FOR_ROLE", 0)
            /\ path' = <<>>
         \/ /\ i # 0
            /\ permission # None /\ permission \notin Models[i].permissions
            /\ Conclude("PERMISSION_DENIED", 0)
            /\ path' = <<>>
         \/ /\ i # 0
            /\ permission \in {None} \cup Models[i].permissions
            /\ phase' = "asking"
            /\ result' = NoResult
            /\ path' = <<i>>
  /\ UNCHANGED <<manifest, records, lvars>>

\* Mutant: a throttled call waits for its own model.
AskPatiently ==
  /\ phase = "asking"
  /\ \E allowed \in BOOLEAN :
       /\ Allow(Models[At].model_id, allowed)
       /\ phase' = IF ~allowed THEN phase
                   ELSE IF Models[At].provider \in Adapters THEN "calling" ELSE "failed"
  /\ UNCHANGED <<manifest, call, path, result, records, calls>>

\* _invoke: the limiter is asked before the adapter is looked for, so a model without
\* an adapter spends its tokens all the same.
Ask ==
  /\ phase = "asking"
  /\ \E allowed \in BOOLEAN :
       /\ Allow(Models[At].model_id, allowed)
       /\ phase' = IF allowed /\ Models[At].provider \in Adapters
                     THEN "calling" ELSE "failed"
  /\ UNCHANGED <<manifest, call, path, result, records, calls>>

\* Mutant: the record has the status of a result that is not there yet.
AnswerEarlyStatus ==
  /\ phase = "calling"
  /\ records' = Append(records, [model |-> At, status |-> result.status])
  /\ Conclude(IF Len(path) = 1 THEN "OK" ELSE "FALLBACK_USED", At)
  /\ UNCHANGED <<manifest, call, path, calls, lvars>>

\* The adapter answers, and the call is recorded.
Answer ==
  /\ phase = "calling"
  /\ LET status == IF Len(path) = 1 THEN "OK" ELSE "FALLBACK_USED"
     IN  /\ records' = Append(records, [model |-> At, status |-> status])
         /\ Conclude(status, At)
  /\ UNCHANGED <<manifest, call, path, calls, lvars>>

\* The adapter raises: nothing is recorded.
AdapterFails ==
  /\ phase = "calling"
  /\ phase' = "failed"
  /\ UNCHANGED <<manifest, call, path, result, records, calls, lvars>>

\* Mutant: a failed call is given up at the second model.
FallBackOnce ==
  /\ phase = "failed"
  /\ LET next == Fallback(At)
     IN  \/ /\ next = 0 \/ Len(path) = 2
            /\ Conclude("THROTTLED", At)
            /\ UNCHANGED path
         \/ /\ next # 0 /\ Len(path) < 2
            /\ phase' = "asking"
            /\ path' = Append(path, next)
            /\ UNCHANGED result
  /\ UNCHANGED <<manifest, call, records, calls, lvars>>

\* Mutant: a model that failed is asked again before the one it falls back to.
FallBackAfterRetry ==
  /\ phase = "failed"
  /\ LET next == IF Len(path) = 1 THEN At ELSE Fallback(At)
     IN  \/ /\ next = 0
            /\ Conclude("THROTTLED", At)
            /\ UNCHANGED path
         \/ /\ next # 0 /\ Len(path) < StackDepth
            /\ phase' = "asking"
            /\ path' = Append(path, next)
            /\ UNCHANGED result
         \/ /\ next # 0 /\ Len(path) = StackDepth
            /\ Conclude("RecursionError", 0)
            /\ UNCHANGED path
  /\ UNCHANGED <<manifest, call, records, calls, lvars>>

\* _fallback: to the model named, if it is declared, while the stack lasts: beyond it a
\* RecursionError goes through to the caller.  Permissions are not asked for again.
FallBack ==
  /\ phase = "failed"
  /\ LET next == Fallback(At)
     IN  \/ /\ next = 0
            /\ Conclude("THROTTLED", At)
            /\ UNCHANGED path
         \/ /\ next # 0 /\ Len(path) < StackDepth
            /\ phase' = "asking"
            /\ path' = Append(path, next)
            /\ UNCHANGED result
         \/ /\ next # 0 /\ Len(path) = StackDepth
            /\ Conclude("RecursionError", 0)
            /\ UNCHANGED path
  /\ UNCHANGED <<manifest, call, records, calls, lvars>>

Route == Ask \/ Answer \/ AdapterFails \/ FallBack

Next ==
  \/ \E role \in ModelRoles, permission \in Asked : Call(role, permission)
  \/ Route
  \/ Tick /\ UNCHANGED rvars

vars == <<lvars, rvars>>

Spec == Init /\ [][Next]_vars

\* The calling thread goes on: an adapter answers or raises.
FairSpec == Spec /\ WF_vars(Route)

------------------------------------------------------------------------------
RTypeOK ==
  /\ LimiterTypeOK
  /\ manifest \in Manifests
  /\ phase \in Phases
  /\ call \in [role : ModelRoles, permission : Asked]
  /\ path \in Seq(DOMAIN Models) /\ Len(path) <= StackDepth
  /\ result \in [status : Statuses \cup {"NONE", "RecursionError"},
                 model : {0} \cup DOMAIN Models]
  /\ records \in Seq([model : DOMAIN Models, status : Answers])
  /\ calls \in 0 .. MaxCalls

\* The limiters of the router keep to the limiter's specification.
KeepsLimits == LimiterSpec

Admitted == Models # <<>> /\ PolicyPasses(manifest)

\* Whoever answers, after however many failures, is on an admitted manifest's
\* allowlist, and the record that was kept of the call is of that model.
AnswersAreAllowed ==
  result.status \in Answers =>
    /\ Admitted => Models[result.model].model_id \in manifest.allowed_model_ids
    /\ records[Len(records)] = [model |-> result.model, status |-> result.status]

\* A call comes back unanswered only when every model it could fall back to, from any
\* it has asked, was asked itself.
NobodyLeftToAsk ==
  result.status = "THROTTLED" =>
    /\ result.model = At
    /\ \A i \in DOMAIN path :
         LET next == Fallback(path[i]) IN next # 0 => \E j \in DOMAIN path : path[j] = next

\* Only fallbacks that lead back to a model that has already failed exhaust the stack.
OverflowsOnlyInCircles ==
  result.status = "RecursionError" => \E i \in DOMAIN path : path[i] = Fallback(At)

\* Every call comes back, with an answer or without.
EveryCallReturns == phase # "idle" ~> phase = "idle"

\* model_policy_gate.py: the VERIFIER model of an admitted manifest is independent of
\* the CODING_AGENT model, so no verifier's call is answered under a coding agent's
\* model_run_id.
VerifierIndependent ==
  Admitted /\ call.role = "VERIFIER" /\ result.status \in Answers =>
    Models[result.model].model_run_id \notin RunIdsOf(Models, "CODING_AGENT")
==============================================================================
