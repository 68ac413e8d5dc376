----------------------------- MODULE RunService ------------------------------
(***************************************************************************)
(* The control API over one run id: the endpoints of api/routes_runs.py    *)
(* and api/routes_chains.py, served by concurrent threads, over the run    *)
(* repository and the evidence directories on disk.                        *)
(*                                                                         *)
(* An endpoint gets the run's record, works on it and saves it back, and   *)
(* nothing keeps two of them apart.  With the in-memory repository they    *)
(* get the same object, so that a change is seen before it is saved; with  *)
(* the durable one each gets a copy, and saving replaces the whole record. *)
(***************************************************************************)
EXTENDS Integers, Sequences, FiniteSets

CONSTANTS Workers,        \* the threads serving requests
          Objects,        \* the RunRecord objects there can be at a time
          Deployments,    \* the deployments considered: which repository, how many
                          \* requests at a time
          Nobody,         \* no object
          MaxExecutions,  \* bound on the chain executions started
          MaxCreations    \* bound on POST /runs with this run id

ASSUME ServiceAssumption ==
  /\ IsFiniteSet(Workers)
  /\ Deployments \subseteq [durable : BOOLEAN, threads : Nat \ {0}]
  /\ Nobody \notin Objects
  /\ MaxExecutions \in Nat /\ MaxCreations \in Nat \ {0}

VARIABLES
  deployment,  \* the one at hand, PostgresRunRepository or InMemoryRunRepository
  heap,        \* the records, by object
  bound,       \* the object the repository has for the run id, or Nobody
  held,        \* the object each worker works on
  pc,          \* what each worker does next
  attempt,     \* the attempt number each worker has been given
  evidence,    \* on disk: which execution wrote the attempt's directory last
  execution,   \* which execution each worker is running
  executions,  \* executions started
  creations    \* runs created

vars == <<deployment, heap, bound, held, pc, attempt, evidence, execution, executions, creations>>

Durable == deployment.durable

\* A thread is free to take a request.
Free(w) ==
  /\ pc[w] = "idle"
  /\ Cardinality({v \in Workers : pc[v] # "idle"}) < deployment.threads

\* A report that says BLOCKED counts as one that says FAIL: neither is a PASS.
Verdicts == {"PENDING", "PASS", "FAIL"}
States == {"INTAKE", "EXECUTE_CHAIN", "VERIFY", "PR_GATE"}
Places == {"idle", "planning", "executing", "running", "ran", "verifying", "gating",
           "gated", "saving"}

\* RunRecord: its attempts with the execution each one is the record of (the hashes
\* of that execution's artifacts), and the decision of its verifier report.
Record == [creation : 1 .. MaxCreations, state : States, verdict : Verdicts,
           attempts : Seq([number : 1 .. MaxExecutions,
                           execution : 1 .. MaxExecutions])]

Fresh(n) == [creation |-> n, state |-> "INTAKE", verdict |-> "PENDING",
             attempts |-> <<>>]

\* What an object nobody refers to is: collected.
Garbage == Fresh(1)

Unused == {o \in Objects : o # bound /\ \A w \in Workers : held[w] # o}

\* The heap, the repository's binding and the workers' references after a step.
Become(h, b, refs) ==
  /\ heap' = [o \in Objects |-> IF o = b \/ \E w \in Workers : refs[w] = o
                                  THEN h[o] ELSE Garbage]
  /\ bound' = b
  /\ held' = refs

Moves(w, from, to) == pc[w] = from /\ pc' = [pc EXCEPT ![w] = to]

\* Worker w changes the record it holds.
Mutate(w, record) ==
  /\ heap' = [heap EXCEPT ![held[w]] = record]
  /\ UNCHANGED <<bound, held>>

History == <<attempt, evidence, execution, executions, creations>>

------------------------------------------------------------------------------
Init ==
  /\ deployment \in Deployments
  /\ heap = [o \in Objects |-> Garbage]
  /\ bound = Nobody
  /\ held = [w \in Workers |-> Nobody]
  /\ pc = [w \in Workers |-> "idle"]
  /\ attempt = [w \in Workers |-> 0]
  /\ evidence = [n \in 1 .. MaxExecutions |-> 0]
  /\ execution = [w \in Workers |-> 0]
  /\ executions = 0
  /\ creations = 0

\* POST /runs: add is an upsert, a run id in use is simply replaced.
CreateRun(w) ==
  /\ Free(w)
  /\ creations < MaxCreations
  /\ creations' = creations + 1
  /\ \E o \in IF Durable /\ bound # Nobody THEN {bound} ELSE Unused :
       Become([heap EXCEPT ![o] = Fresh(creations + 1)], o, held)
  /\ UNCHANGED <<pc, attempt, evidence, execution, executions>>

\* repo.get: the object itself, or a copy of it.
Get(w, next) ==
  /\ Free(w)
  /\ Moves(w, "idle", next)
  /\ bound # Nobody
  /\ IF Durable
       THEN \E o \in Unused : Become([heap EXCEPT ![o] = heap[bound]], bound,
                                     [held EXCEPT ![w] = o])
       ELSE Become(heap, bound, [held EXCEPT ![w] = bound])
  /\ UNCHANGED History

\* POST /chain, POST /chain/execute, POST /verify and POST /pr begin.
BeginPlan(w) == Get(w, "planning")
BeginExecute(w) == executions < MaxExecutions /\ Get(w, "executing")
BeginVerify(w) == Get(w, "verifying")
BeginPr(w) == Get(w, "gating")

\* plan_chain: the plan it stores bears on nothing here, the save does.
Plan(w) ==
  /\ Moves(w, "planning", "saving")
  /\ UNCHANGED <<heap, bound, held, History>>

\* Mutant: attempts are numbered by the executions the service has started.
AllocateGlobally(w) ==
  /\ Moves(w, "executing", "running")
  /\ executions < MaxExecutions
  /\ attempt' = [attempt EXCEPT ![w] = executions + 1]
  /\ executions' = executions + 1
  /\ execution' = [execution EXCEPT ![w] = executions + 1]
  /\ UNCHANGED <<heap, bound, held, evidence, creations>>

\* Mutant: the next attempt has the number of the last one.
AllocateLast(w) ==
  /\ Moves(w, "executing", "running")
  /\ executions < MaxExecutions
  /\ LET last == Len(heap[held[w]].attempts)
     IN  attempt' = [attempt EXCEPT ![w] = IF last = 0 THEN 1 ELSE last]
  /\ executions' = executions + 1
  /\ execution' = [execution EXCEPT ![w] = executions + 1]
  /\ UNCHANGED <<heap, bound, held, evidence, creations>>

\* WorkspaceAllocator.allocate: the next attempt is one more than the record has.
Allocate(w) ==
  /\ Moves(w, "executing", "running")
  /\ executions < MaxExecutions
  /\ attempt' = [attempt EXCEPT ![w] = Len(heap[held[w]].attempts) + 1]
  /\ executions' = executions + 1
  /\ execution' = [execution EXCEPT ![w] = executions + 1]
  /\ UNCHANGED <<heap, bound, held, evidence, creations>>

\* Mutant: the refusal is stored as the run's state.
RefuseWorkspaceAsState(w) ==
  /\ Moves(w, "executing", "saving") \/ Moves(w, "running", "saving")
  /\ Mutate(w, [heap[held[w]] EXCEPT !.state = "BLOCKED"])
  /\ attempt' = [attempt EXCEPT ![w] = 0]
  /\ execution' = [execution EXCEPT ![w] = 0]
  /\ UNCHANGED <<evidence, executions, creations>>

\* The path is outside the workspace policy, when it is allocated or when the runtime
\* looks again: nothing runs, no attempt is recorded.
RefuseWorkspace(w) ==
  /\ Moves(w, "executing", "saving") \/ Moves(w, "running", "saving")
  /\ Mutate(w, [heap[held[w]] EXCEPT !.state = "EXECUTE_CHAIN"])
  /\ attempt' = [attempt EXCEPT ![w] = 0]
  /\ execution' = [execution EXCEPT ![w] = 0]
  /\ UNCHANGED <<evidence, executions, creations>>

\* The chain runs and its artifacts are written under run id and attempt id.
RunChain(w) ==
  /\ Moves(w, "running", "ran")
  /\ evidence' = [evidence EXCEPT ![attempt[w]] = execution[w]]
  /\ UNCHANGED <<heap, bound, held, attempt, execution, executions, creations>>

\* Mutant: the record keeps the last attempt only.
RecordLastAttempt(w) ==
  /\ Moves(w, "ran", "saving")
  /\ Mutate(w, [heap[held[w]] EXCEPT
                   !.attempts = <<[number |-> attempt[w], execution |-> execution[w]]>>,
                   !.state = "EXECUTE_CHAIN"])
  /\ attempt' = [attempt EXCEPT ![w] = 0]
  /\ execution' = [execution EXCEPT ![w] = 0]
  /\ UNCHANGED <<evidence, executions, creations>>

\* Only now is the attempt in the record, with the hashes of its artifacts.
RecordAttempt(w) ==
  /\ Moves(w, "ran", "saving")
  /\ LET record == heap[held[w]]
     IN  Mutate(w, [record EXCEPT
                      !.attempts = Append(@, [number |-> attempt[w],
                                              execution |-> execution[w]]),
                      !.state = "EXECUTE_CHAIN"])
  /\ attempt' = [attempt EXCEPT ![w] = 0]
  /\ execution' = [execution EXCEPT ![w] = 0]
  /\ UNCHANGED <<evidence, executions, creations>>

\* verify_run: a reported PASS counts only if the independence and evidence gates
\* pass on what was submitted with it.
Verify(w) ==
  /\ Moves(w, "verifying", "saving")
  /\ \E reported \in Verdicts, gates \in BOOLEAN :
       Mutate(w, [heap[held[w]] EXCEPT
                    !.verdict = IF reported = "PASS" /\ ~gates THEN "FAIL" ELSE reported,
                    !.state = "VERIFY"])
  /\ UNCHANGED History

\* create_or_update_pr: looks at the verdict first and writes the state after.
AllowPr(w) ==
  /\ Moves(w, "gating", "gated")
  /\ heap[held[w]].verdict = "PASS"
  /\ UNCHANGED <<heap, bound, held, History>>

MarkPr(w) ==
  /\ Moves(w, "gated", "saving")
  /\ Mutate(w, [heap[held[w]] EXCEPT !.state = "PR_GATE"])
  /\ UNCHANGED History

\* repo.save: an upsert of the record as the worker has it.
Save(w) ==
  /\ Moves(w, "saving", "idle")
  /\ LET dropped == [held EXCEPT ![w] = Nobody]
     IN  IF Durable /\ bound # Nobody
           THEN Become([heap EXCEPT ![bound] = heap[held[w]]], bound, dropped)
           ELSE Become(heap, held[w], dropped)
  /\ UNCHANGED History

\* An HTTP error or an exception ends the request with nothing saved: a verdict
\* that is not PASS, a PR gate that fails, a handler that raises.
Abandon(w) ==
  /\ pc[w] # "idle"
  /\ pc' = [pc EXCEPT ![w] = "idle"]
  /\ Become(heap, bound, [held EXCEPT ![w] = Nobody])
  /\ attempt' = [attempt EXCEPT ![w] = 0]
  /\ execution' = [execution EXCEPT ![w] = 0]
  /\ UNCHANGED <<evidence, executions, creations>>

\* The server dies and is started again: the disk and the database remain.
Restart ==
  /\ pc' = [w \in Workers |-> "idle"]
  /\ Become(heap, IF Durable THEN bound ELSE Nobody, [w \in Workers |-> Nobody])
  /\ attempt' = [w \in Workers |-> 0]
  /\ execution' = [w \in Workers |-> 0]
  /\ UNCHANGED <<evidence, executions, creations>>

Serve(w) ==
  \/ CreateRun(w) \/ BeginPlan(w) \/ BeginExecute(w) \/ BeginVerify(w) \/ BeginPr(w)
  \/ Plan(w) \/ Allocate(w) \/ RefuseWorkspace(w) \/ RunChain(w) \/ RecordAttempt(w)
  \/ Verify(w) \/ AllowPr(w) \/ MarkPr(w) \/ Save(w) \/ Abandon(w)

Next == (Restart \/ \E w \in Workers : Serve(w)) /\ UNCHANGED deployment

Spec == Init /\ [][Next]_vars

------------------------------------------------------------------------------
TypeOK ==
  /\ deployment \in Deployments
  /\ heap \in [Objects -> Record]
  /\ bound \in Objects \cup {Nobody}
  /\ held \in [Workers -> Objects \cup {Nobody}]
  /\ pc \in [Workers -> Places]
  /\ attempt \in [Workers -> 0 .. MaxExecutions]
  /\ evidence \in [1 .. MaxExecutions -> 0 .. MaxExecutions]
  /\ execution \in [Workers -> 0 .. MaxExecutions]
  /\ executions \in 0 .. MaxExecutions
  /\ creations \in 0 .. MaxCreations

Stored == heap[bound]

Sequential == deployment.threads = 1

\* A recorded attempt's evidence is the one on disk: no other execution has written
\* the directory since its hashes were taken (ArtifactStore, WorkspaceAllocator).
EvidenceIntact ==
  bound # Nobody =>
    \A i \in DOMAIN Stored.attempts :
      evidence[Stored.attempts[i].number] = Stored.attempts[i].execution

\* So it is as long as requests come one at a time, whatever fails or restarts in between.
EvidenceIntactInTurn == Sequential => EvidenceIntact

\* The stored attempts are numbered 1, 2, ... in the order they were recorded, on the
\* durable repository whatever overlaps, and in memory one request at a time.
AttemptsAreNumbered ==
  (Durable \/ Sequential) /\ bound # Nobody =>
    \A i \in DOMAIN Stored.attempts : Stored.attempts[i].number = i

\* Whatever overlaps on whichever repository, an attempt is never given a number beyond
\* its place in the record, so the numbers of a record have no gap before them and,
\* once two attempts share one, some number is never used.
NumberedWithinPlace ==
  bound # Nobody =>
    \A i \in DOMAIN Stored.attempts : Stored.attempts[i].number <= i

IsPrefixOf(s, t) == Len(s) <= Len(t) /\ \A i \in DOMAIN s : s[i] = t[i]

AttemptsKept ==
  /\ bound # Nobody /\ bound' # Nobody
  /\ heap[bound].creation = heap'[bound'].creation
  => IsPrefixOf(heap[bound].attempts, heap'[bound'].attempts)

\* Retries accumulate (routes_chains.py:226): the stored record of a run loses or changes
\* no attempt, short of the run being created anew or its repository lost, in memory,
\* where requests share the record, and on the durable repository one request at a time.
AttemptsAccumulateUnlessStale == [][~Durable \/ Sequential => AttemptsKept]_vars
==============================================================================
