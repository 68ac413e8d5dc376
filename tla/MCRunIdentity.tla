---------------------------- MODULE MCRunIdentity ----------------------------
(***************************************************************************)
(* Two run ids of the callers' and one made up, two tasks, and agents that *)
(* report on their own work under their own or another's name.             *)
(***************************************************************************)
EXTENDS RunIdentity

Manifest(run_id, task_id) ==
  [run_id |-> run_id, task_id |-> task_id, complete |-> TRUE,
   auto_merge |-> FALSE, auto_deploy |-> FALSE,
   coding_agent_run_id |-> "coder", verifier_run_id |-> "verifier"]

MCManifests ==
  {Manifest("r1", "t1"), Manifest("r1", "t2"), Manifest("r2", None), Manifest(None, "t1"),
   [Manifest("r2", "t1") EXCEPT !.auto_merge = TRUE],
   [Manifest("r2", "t1") EXCEPT !.verifier_run_id = "coder"]}

MCRequests == [run_id : {None, "r1", "r2"}, task_id : {None, "t1", "t2"}]

Report(coder, verifier, decision, ledger_run, ledger_task) ==
  [task_id |-> "t1", coding_agent_run_id |-> coder, verifier_run_id |-> verifier,
   decision |-> decision,
   ledger |-> [run_id |-> ledger_run, task_id |-> ledger_task, sound |-> TRUE]]

MCReports ==
  {Report("coder", "verifier", "PASS", r, t) : r \in {"r1", "r2", "made"}, t \in {"t1"}}
  \cup {Report("coder", "verifier", "PASS", "r1", "t2"),
        Report("coder", "coder", "PASS", "r1", "t1"),
        Report("other", "coder", "PASS", "r2", "t1"),
        [Report("coder", "verifier", "PASS", "r1", "t1") EXCEPT !.ledger.sound = FALSE],
        [Report("coder", "verifier", "PASS", "r1", None) EXCEPT !.task_id = None],
        Report("coder", "verifier", "FAIL", "r1", "t1")}
==============================================================================
