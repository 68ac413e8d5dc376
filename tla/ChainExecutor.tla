---------------------------- MODULE ChainExecutor ----------------------------
(***************************************************************************)
(* ChainExecutor.execute (chains/chain_executor.py): the loop that runs    *)
(* one registered chain, for any chain and any handlers.  A handler is     *)
(* known by its type and by the outcomes it may return; the executor owns  *)
(* the order, the authority checks, the checkpoints and the final status.  *)
(*                                                                         *)
(* The repository under work is a directory other processes can write to:  *)
(* it may change at any moment while a handler runs, by the handler or by  *)
(* anybody else, and the executor only ever compares its content with the  *)
(* snapshot it took at the start.                                          *)
(***************************************************************************)
EXTENDS ChainRegistry, Integers

CONSTANTS Tasks,       \* the task types requested
          ChainOf,     \* resolve_chain: the chain of each, a sequence of handler names
          TypeOf,      \* the type each handler of the chains declares
          Registered,  \* the handler names the handler registry knows
          Outcomes,    \* what handle() may return
          Contents,    \* the contents the repository directory may have
          Reverts,     \* may an edited repository be put back as it was?
          Empty,       \* the snapshot {} of an empty or missing directory
          Absent       \* the directory does not exist

Unset == "unset"  \* the result's metadata has no "pr_status"

HandlerOutcome == [status : HandlerStatuses, decision : HandlerDecisions,
                   pr_status : PrStatuses \cup {Unset}]

ASSUME ChainAssumption ==
  /\ \A t \in Tasks : /\ ChainOf[t] \in Seq(STRING)
                      /\ \A i \in 1 .. Len(ChainOf[t]) :
                           TypeOf[ChainOf[t][i]] \in HandlerTypes
  /\ Outcomes \subseteq HandlerOutcome
  /\ Reverts \in BOOLEAN
  /\ Empty \in Contents
  /\ Absent \notin Contents

VARIABLES
  task,              \* request.task_type
  phase,             \* "dispatch", "running", then "done" or "raised"
  results,           \* handler_results, in the order they were appended
  verifier_decision, \* context.verifier_decision
  pr_status,
  final_status,      \* "none" until execute returns
  checkpoints,       \* the checkpoint files, one per result
  tree,              \* the repository directory as it is now
  baseline,          \* context.repo_snapshot, taken once before the loop
  seen               \* history: what the tree has been since the last handler was called

vars == <<task, phase, results, verifier_decision, pr_status, final_status,
          checkpoints, tree, baseline, seen>>

Decisions == {"PASS", "FAIL", "BLOCKED"}

\* The chain resolved for the request: every task type has one.
Chain == ChainOf[task]

\* Position of the handler the loop has reached (enumerate's index, from 1).
Index == Len(results) + 1
Current == Chain[Index]

\* snapshot_repo of the directory, {} when it does not exist.
Snapshot(t) == IF t = Absent THEN Empty ELSE t

\* A result record; "author" tells a handler's own answer from the executor's.
Result(name, type, outcome, author) ==
  [handler_name |-> name, handler_type |-> type, status |-> outcome.status,
   decision |-> outcome.decision, pr_status |-> outcome.pr_status,
   author |-> author]

Answer(status, decision) ==
  [status |-> status, decision |-> decision, pr_status |-> Unset]

BlockedAnswer == Answer("BLOCKED", "BLOCKED")
NotApplicableAnswer == Answer("SKIPPED", "SKIP_NOT_APPLICABLE")

HandlerResult == [handler_name : STRING, handler_type : HandlerTypes,
                  status : HandlerStatuses, decision : HandlerDecisions,
                  pr_status : PrStatuses \cup {Unset},
                  author : {"handler", "executor"}]

\* Mutant: nobody looks at the repository.
EnforcedNever(outcome) == Result(Current, TypeOf[Current], outcome, "handler")

\* _enforce_no_repo_mutation: the answer of a handler that may not modify the
\* repository is replaced when the repository is not what it was at the start.
Enforced(outcome) ==
  IF \/ CanModifyRepo(TypeOf[Current])
     \/ tree = Absent
     \/ tree = baseline
    THEN Result(Current, TypeOf[Current], outcome, "handler")
    ELSE Result(Current, TypeOf[Current], BlockedAnswer, "executor")

\* Only a VERIFIER's PASS, FAIL or BLOCKED is a vote on the run.
IsVote(result) ==
  CanDecidePass(result.handler_type) /\ result.status \in Decisions

Objects(result) == result.decision \in {"FAIL", "BLOCKED"}

\* Mutant: nothing decided is a verdict.
ConclusionPending(verdict) == verdict

\* Mutant: what was not refused has passed (final_status starts as "PASS").
ConclusionByDefault(verdict) ==
  IF verdict \in {"FAIL", "BLOCKED"} THEN verdict ELSE "PASS"

\* _final_status of a chain that was not stopped by an objection.
Conclusion(verdict) ==
  IF verdict \in {"PASS", "FAIL"} THEN verdict ELSE "BLOCKED"

------------------------------------------------------------------------------
Init ==
  /\ task \in Tasks
  /\ phase = "dispatch"
  /\ results = <<>>
  /\ verifier_decision = "PENDING"
  /\ pr_status = "NOT_REQUIRED"
  /\ final_status = "none"
  /\ checkpoints = <<>>
  /\ tree \in Contents \cup {Absent}
  /\ baseline = Snapshot(tree)
  /\ seen = {tree}

\* Mutant: the checkpoint is written before the vote is taken.
RecordCheckpointFirst(result) ==
  /\ results' = Append(results, result)
  /\ verifier_decision' = IF IsVote(result) THEN result.status ELSE verifier_decision
  /\ pr_status' = IF result.pr_status = Unset THEN pr_status ELSE result.pr_status
  /\ checkpoints' = Append(checkpoints,
                           [next_action |-> result.handler_name,
                            verifier_decision |-> verifier_decision])
  /\ IF Objects(result) \/ result.decision = "STOP"
       THEN /\ final_status' = IF Objects(result) THEN result.decision
                                                 ELSE Conclusion(verifier_decision')
            /\ phase' = "done"
       ELSE phase' = "dispatch" /\ UNCHANGED final_status

\* Everything the loop does with a result: append it, take a verifier's vote,
\* take its pr_status, write the checkpoint, then stop, break or go on.
Record(result) ==
  /\ results' = Append(results, result)
  /\ verifier_decision' = IF IsVote(result) THEN result.status ELSE verifier_decision
  /\ pr_status' = IF result.pr_status = Unset THEN pr_status ELSE result.pr_status
  /\ checkpoints' = Append(checkpoints,
                           [next_action |-> result.handler_name,
                            verifier_decision |-> verifier_decision'])
  /\ \/ /\ Objects(result)
        /\ final_status' = result.decision
        /\ phase' = "done"
     \/ /\ result.decision = "STOP"
        /\ final_status' = Conclusion(verifier_decision')
        /\ phase' = "done"
     \/ /\ ~Objects(result) /\ result.decision # "STOP"
        /\ phase' = "dispatch"
        /\ UNCHANGED final_status

\* The chain names a handler nobody registered: an honest BLOCKED.
Deferred ==
  /\ phase = "dispatch" /\ Index <= Len(Chain)
  /\ Current \notin Registered
  /\ Record(Result(Current, "PURE_CHECK", BlockedAnswer, "executor"))
  /\ UNCHANGED <<task, tree, baseline, seen>>

\* can_handle answers no: recorded as skipped, with no check of the repository.
NotApplicable ==
  /\ phase = "dispatch" /\ Index <= Len(Chain)
  /\ Current \in Registered
  /\ Record(Result(Current, TypeOf[Current], NotApplicableAnswer, "executor"))
  /\ UNCHANGED <<task, tree, baseline, seen>>

\* handle() is called.
Invoke ==
  /\ phase = "dispatch" /\ Index <= Len(Chain)
  /\ Current \in Registered
  /\ phase' = "running"
  /\ seen' = {tree}
  /\ UNCHANGED <<results, verifier_decision, pr_status, final_status, checkpoints,
                 task, tree, baseline>>

\* The repository changes while the handler runs.
Touch ==
  /\ phase = "running"
  /\ tree' \in (Contents \cup {Absent}) \ {tree}
  /\ Reverts \/ tree' # baseline
  /\ seen' = seen \cup {tree'}
  /\ UNCHANGED <<task, phase, results, verifier_decision, pr_status, final_status,
                 checkpoints, baseline>>

\* handle() returns and the executor vets and records its answer.
Return ==
  /\ phase = "running"
  /\ \E outcome \in Outcomes : Record(Enforced(outcome))
  /\ UNCHANGED <<task, tree, baseline, seen>>

\* handle() raises, or the process dies: execute never returns a result, and
\* what is left of the run is its files.
Raise ==
  /\ phase \in {"dispatch", "running"}
  /\ phase' = "raised"
  /\ UNCHANGED <<results, verifier_decision, pr_status, final_status, checkpoints,
                 task, tree, baseline, seen>>

\* The loop runs out of handlers.
Finish ==
  /\ phase = "dispatch" /\ Index > Len(Chain)
  /\ phase' = "done"
  /\ final_status' = Conclusion(verifier_decision)
  /\ UNCHANGED <<task, results, verifier_decision, pr_status, checkpoints, tree,
                 baseline, seen>>

Step == Deferred \/ NotApplicable \/ Invoke \/ Return \/ Finish

Next == Step \/ Touch \/ Raise

Spec == Init /\ [][Next]_vars

------------------------------------------------------------------------------
TypeOK ==
  /\ task \in Tasks
  /\ phase \in {"dispatch", "running", "done", "raised"}
  /\ results \in Seq(HandlerResult)
  /\ Len(results) <= Len(Chain)
  /\ verifier_decision \in Decisions \cup {"PENDING"}
  /\ pr_status \in PrStatuses
  /\ final_status \in Decisions \cup {"none"}
  /\ checkpoints \in Seq([next_action : STRING,
                          verifier_decision : Decisions \cup {"PENDING"}])
  /\ tree \in Contents \cup {Absent}
  /\ baseline \in Contents
  /\ seen \subseteq Contents \cup {Absent}
  /\ phase = "running" => Index <= Len(Chain)

\* "verdict" is the verifier's decision after the first n results.
VerdictAfter(n, verdict) ==
  \/ /\ verdict = "PENDING"
     /\ \A i \in 1 .. n : ~IsVote(results[i])
  \/ \E i \in 1 .. n : /\ IsVote(results[i])
                       /\ verdict = results[i].status
                       /\ \A j \in i + 1 .. n : ~IsVote(results[j])

\* The run went through the registered handlers in order and left none out.
RanInOrder ==
  \A i \in 1 .. Len(results) : results[i].handler_name = Chain[i]

RanToTheEnd ==
  \/ Len(results) = Len(Chain)
  \/ Len(results) > 0 /\ results[Len(results)].decision = "STOP"

\* A run is PASS only if the last vote cast by a VERIFIER handler is PASS, no
\* handler answered FAIL or BLOCKED, and the registered handlers ran in their
\* order to the end of the chain or to the one that said STOP: no sequence of
\* statuses and decisions of the other handlers makes a PASS (execute, _final_status).
PassIsEarned ==
  final_status = "PASS" =>
    /\ VerdictAfter(Len(results), "PASS")
    /\ \A i \in 1 .. Len(results) : ~Objects(results[i])
    /\ RanInOrder
    /\ RanToTheEnd

\* After a crash between any two handlers the checkpoint files are a faithful
\* account: one per recorded result, each naming its handler and holding the
\* verifier's decision as it stood when that handler had been recorded.
CheckpointsReplay ==
  /\ Len(checkpoints) = Len(results)
  /\ \A i \in 1 .. Len(results) :
       /\ checkpoints[i].next_action = results[i].handler_name
       /\ VerdictAfter(i, checkpoints[i].verifier_decision)

\* Between handlers the repository differs from the start only if a handler of
\* a write type has run and every handler since was skipped unrun: whoever makes
\* a change under a non-write handler, the run does not go on, and cannot pass.
ChangeNeedsWriter ==
  \/ tree \in {baseline, Absent}
  \/ phase \in {"running", "raised"}
  \/ final_status = "BLOCKED"
  \/ \E i \in 1 .. Len(results) :
       /\ CanModifyRepo(results[i].handler_type)
       /\ \A j \in i + 1 .. Len(results) :
            results[j].decision = "SKIP_NOT_APPLICABLE"

\* A run seen as the harness's promise: raised runs are lost to the caller.
Verdict == INSTANCE HarnessVerdict WITH
  verdict <- verifier_decision,
  objected <- \E i \in 1 .. Len(results) : Objects(results[i]),
  outcome <- CASE phase = "done" -> final_status
               [] phase = "raised" -> "lost"
               [] OTHER -> "open"

\* execute implements the promise: its result is fixed once, and every vote,
\* objection and ending is one the promise allows, PASS only unobjected under a
\* verifier's standing PASS.
KeepsPromise == Verdict!Spec
==============================================================================
