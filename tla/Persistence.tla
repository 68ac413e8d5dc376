----------------------------- MODULE Persistence -----------------------------
(***************************************************************************)
(* PostgresRunRepository: a run's record as the snapshot in its row of     *)
(* runs, and the audit rows projected from it, all written in one          *)
(* transaction of several statements.  The endpoints that get, change and  *)
(* save the record are those of RunService; here their saves take their    *)
(* time, wait for one another's locks and may fail between two statements. *)
(***************************************************************************)
EXTENDS Integers, Sequences

CONSTANTS Workers,        \* the threads serving requests
          Nobody,         \* no thread
          None,           \* no record, no row, no report, no result
          Outcomes,       \* final status and verifier decision a chain can end with
          Reported,       \* decisions POST /verify is given
          MaxExecutions,  \* bound on the results of POST /chain/execute
          MaxCreations    \* bound on POST /runs with this run id

Decisions == {"PENDING", "PASS", "FAIL", "BLOCKED"}

Numbers == 1 .. MaxExecutions
FinalStatuses == {"PASS", "FAIL", "BLOCKED"}
Results ==
  {result \in [execution : Numbers, final : FinalStatuses, decision : Decisions] :
     result.final = "PASS" => result.decision = "PASS"}
Attempts == [execution : Numbers, final : FinalStatuses]

\* RunRecord: an attempt is known by its number, its place in the list, and by the
\* execution it was; it stands for the artifacts of that execution, too, which are
\* added with it and carry its id.
Records == [attempts : Seq(Attempts), result : Results \cup {None},
            report : Decisions \cup {None}]

ASSUME PersistenceAssumption ==
  /\ Nobody \notin Workers
  /\ Outcomes \subseteq [final : FinalStatuses, decision : Decisions]
  \* ChainExecutor passes nothing else (PassIsEarned).
  /\ \A outcome \in Outcomes : outcome.final = "PASS" => outcome.decision = "PASS"
  /\ Reported \subseteq Decisions
  /\ None \notin Decisions /\ None \notin Attempts /\ None \notin Records
  /\ MaxExecutions \in Nat /\ MaxCreations \in Nat

VARIABLES
  tables,      \* what is committed
  draft,       \* the tables as the transaction that holds the run's row sees them
  writer,      \* the worker whose transaction that is, or Nobody
  pc,          \* what each worker does next
  copy,        \* the record each worker works on
  executions,  \* results produced
  creations    \* runs created

vars == <<tables, draft, writer, pc, copy, executions, creations>>

Counts == <<executions, creations>>

NewRecord == [attempts |-> <<>>, result |-> None, report |-> None]

\* Mutant: each column is what was last heard of it.
ColumnsOfEach(record) ==
  [final |-> IF record.result # None THEN record.result.final ELSE record.report,
   decision |-> CASE record.report # None -> record.report
                  [] record.report = None /\ record.result # None -> record.result.decision
                  [] OTHER -> None]

\* The columns final_status and verifier_decision: the verifier report's decision if
\* there is a report, else what the chain came to.
Columns(record) ==
  CASE record.report # None -> [final |-> record.report, decision |-> record.report]
    [] record.report = None /\ record.result # None ->
         [final |-> record.result.final, decision |-> record.result.decision]
    [] OTHER -> [final |-> None, decision |-> None]

\* The evidence_artifacts rows of a record, each with the attempt it refers to.
ArtifactsOf(record) ==
  {[attempt |-> n, execution |-> record.attempts[n].execution] :
     n \in DOMAIN record.attempts}

\* The handler_results rows, and the gate_results rows: those of one execution.
HandlersOf(record) == IF record.result = None THEN {} ELSE {record.result.execution}

DecisionsOf(record) ==
  CASE record.report # None -> {record.report}
    [] record.report = None /\ record.result # None -> {record.result.decision}
    [] OTHER -> {}

Empty == [snapshot |-> None, columns |-> [final |-> None, decision |-> None],
          attempts |-> [n \in Numbers |-> None],
          artifacts |-> {}, handlers |-> {}, gates |-> {}, decisions |-> {}]

Tables == [snapshot : Records \cup {None},
           columns : [final : Decisions \cup {None}, decision : Decisions \cup {None}],
           attempts : [Numbers -> Attempts \cup {None}],
           artifacts : SUBSET [attempt : Numbers, execution : Numbers],
           handlers : SUBSET Numbers, gates : SUBSET Numbers,
           decisions : SUBSET Decisions]

Statements == {"upsert", "clear", "attempts", "artifacts", "handlers", "decision", "commit"}

------------------------------------------------------------------------------
Init ==
  /\ tables = Empty
  /\ draft = Empty
  /\ writer = Nobody
  /\ pc = [w \in Workers |-> "idle"]
  /\ copy = [w \in Workers |-> None]
  /\ executions = 0
  /\ creations = 0

\* Worker w is done with what the record should be and starts the transaction.
ToSave(w, record) ==
  /\ copy' = [copy EXCEPT ![w] = record]
  /\ pc' = [pc EXCEPT ![w] = "upsert"]
  /\ UNCHANGED <<tables, draft, writer>>

\* POST /runs: add is save.
Create(w) ==
  /\ pc[w] = "idle"
  /\ creations < MaxCreations
  /\ ToSave(w, NewRecord)
  /\ creations' = creations + 1
  /\ UNCHANGED executions

\* get: what is committed, whoever is writing.
Get(w) ==
  /\ pc[w] = "idle"
  /\ tables.snapshot # None
  /\ copy' = [copy EXCEPT ![w] = tables.snapshot]
  /\ pc' = [pc EXCEPT ![w] = "working"]
  /\ UNCHANGED <<tables, draft, writer, Counts>>

\* POST /chain/execute: an attempt with its artifacts, and the chain's result.
Execute(w) ==
  /\ pc[w] = "working"
  /\ executions < MaxExecutions
  /\ executions' = executions + 1
  /\ \E outcome \in Outcomes :
       ToSave(w, [copy[w] EXCEPT
                    !.attempts = Append(@, [execution |-> executions + 1,
                                            final |-> outcome.final]),
                    !.result = [execution |-> executions + 1, final |-> outcome.final,
                                decision |-> outcome.decision]])
  /\ UNCHANGED creations

\* Mutant: a refusal has a status of its own.
RefuseAsRefused(w) ==
  /\ pc[w] = "working"
  /\ executions < MaxExecutions
  /\ executions' = executions + 1
  /\ ToSave(w, [copy[w] EXCEPT !.result = [execution |-> executions + 1,
                                           final |-> "REFUSED", decision |-> "BLOCKED"]])
  /\ UNCHANGED creations

\* POST /chain/execute outside the workspace: a result and no attempt.
Refuse(w) ==
  /\ pc[w] = "working"
  /\ executions < MaxExecutions
  /\ executions' = executions + 1
  /\ ToSave(w, [copy[w] EXCEPT !.result = [execution |-> executions + 1,
                                           final |-> "BLOCKED", decision |-> "BLOCKED"]])
  /\ UNCHANGED creations

\* POST /verify.
Report(w) ==
  /\ pc[w] = "working"
  /\ \E decision \in Reported : ToSave(w, [copy[w] EXCEPT !.report = decision])
  /\ UNCHANGED Counts

\* POST /chain and POST /pr: nothing of the record that is projected changes.
Touch(w) ==
  /\ pc[w] = "working"
  /\ ToSave(w, copy[w])
  /\ UNCHANGED Counts

------------------------------------------------------------------------------
\* The order of the statements of save and _project.
Following(statement) ==
  CASE statement = "clear" -> "attempts"
    [] statement = "attempts" -> "artifacts"
    [] statement = "artifacts" -> "handlers"
    [] statement = "handlers" -> "decision"
    [] statement = "decision" -> "commit"

\* Worker w's transaction runs one of its statements.
Runs(w, statement, after) ==
  /\ pc[w] = statement
  /\ pc' = [pc EXCEPT ![w] = Following(statement)]
  /\ draft' = after
  /\ UNCHANGED <<tables, writer, copy, Counts>>

\* Mutant: every statement is its own transaction.
UpsertAtOnce(w) ==
  /\ pc[w] = "upsert"
  /\ writer = Nobody
  /\ writer' = w
  /\ draft' = [tables EXCEPT !.snapshot = copy[w], !.columns = Columns(copy[w])]
  /\ tables' = draft'
  /\ pc' = [pc EXCEPT ![w] = "clear"]
  /\ UNCHANGED <<copy, Counts>>

\* The run's row, and with it the lock on it: a second transaction waits here until
\* the first is over, and goes on from what that one committed.
Upsert(w) ==
  /\ pc[w] = "upsert"
  /\ writer = Nobody
  /\ writer' = w
  /\ draft' = [tables EXCEPT !.snapshot = copy[w], !.columns = Columns(copy[w])]
  /\ pc' = [pc EXCEPT ![w] = "clear"]
  /\ UNCHANGED <<tables, copy, Counts>>

\* Mutant: the decision of an earlier save stays.
ClearRest(w) ==
  Runs(w, "clear", [draft EXCEPT !.artifacts = {}, !.handlers = {}, !.gates = {}])

\* The four deletes.
Clear(w) ==
  Runs(w, "clear", [draft EXCEPT !.artifacts = {}, !.handlers = {}, !.gates = {},
                                 !.decisions = {}])

\* Mutant: an attempt that has a row is left as it is.
ProjectNewAttempts(w) ==
  Runs(w, "attempts",
       [draft EXCEPT !.attempts =
          [n \in Numbers |-> IF n \in DOMAIN copy[w].attempts /\ @[n] = None
                               THEN copy[w].attempts[n] ELSE @[n]]])

\* run_attempts: the record's attempts over the rows there are.
ProjectAttempts(w) ==
  Runs(w, "attempts",
       [draft EXCEPT !.attempts =
          [n \in Numbers |-> IF n \in DOMAIN copy[w].attempts
                               THEN copy[w].attempts[n] ELSE @[n]]])

\* The database accepts an artifact only if the attempt it refers to has its row.
Linked(w) == \A artifact \in ArtifactsOf(copy[w]) : draft.attempts[artifact.attempt] # None

ProjectArtifacts(w) ==
  /\ Runs(w, "artifacts", [draft EXCEPT !.artifacts = @ \cup ArtifactsOf(copy[w])])
  /\ Linked(w)

ProjectHandlers(w) ==
  Runs(w, "handlers", [draft EXCEPT !.handlers = @ \cup HandlersOf(copy[w]),
                                    !.gates = @ \cup HandlersOf(copy[w])])

ProjectDecision(w) ==
  Runs(w, "decision", [draft EXCEPT !.decisions = @ \cup DecisionsOf(copy[w])])

Commit(w) ==
  /\ pc[w] = "commit"
  /\ tables' = draft
  /\ draft' = Empty
  /\ writer' = Nobody
  /\ pc' = [pc EXCEPT ![w] = "idle"]
  /\ copy' = [copy EXCEPT ![w] = None]
  /\ UNCHANGED Counts

\* Mutant: the connection is left open, its transaction neither over nor undone.
FailKeepingOpen(w) ==
  /\ pc[w] # "idle"
  /\ pc' = [pc EXCEPT ![w] = "idle"]
  /\ copy' = [copy EXCEPT ![w] = None]
  /\ UNCHANGED <<tables, draft, writer, Counts>>

\* The request fails: a handler raises, a statement is refused, the connection is lost.
\* Leaving the with block undoes a transaction that was begun.
Fail(w) ==
  /\ pc[w] # "idle"
  /\ pc' = [pc EXCEPT ![w] = "idle"]
  /\ copy' = [copy EXCEPT ![w] = None]
  /\ IF writer = w THEN writer' = Nobody /\ draft' = Empty
                   ELSE UNCHANGED <<writer, draft>>
  /\ UNCHANGED <<tables, Counts>>

\* The service dies and is started again; the database undoes what was open.
Restart ==
  /\ pc' = [w \in Workers |-> "idle"]
  /\ copy' = [w \in Workers |-> None]
  /\ writer' = Nobody
  /\ draft' = Empty
  /\ UNCHANGED <<tables, Counts>>

Statement(w) ==
  \/ Clear(w) \/ ProjectAttempts(w) \/ ProjectArtifacts(w) \/ ProjectHandlers(w)
  \/ ProjectDecision(w) \/ Commit(w)

Next ==
  \/ Restart
  \/ \E w \in Workers :
       \/ Create(w) \/ Get(w) \/ Execute(w) \/ Refuse(w) \/ Report(w) \/ Touch(w)
       \/ Upsert(w) \/ Statement(w) \/ Fail(w)

Spec == Init /\ [][Next]_vars

\* A transaction's statements are run, and one that waits for the row has it in the end:
\* the database queues those who wait for a lock.
FairSpec == Spec /\ \A w \in Workers : WF_vars(Statement(w)) /\ SF_vars(Upsert(w))

------------------------------------------------------------------------------
TypeOK ==
  /\ tables \in Tables
  /\ draft \in Tables
  /\ writer \in Workers \cup {Nobody}
  /\ pc \in [Workers -> {"idle", "working"} \cup Statements]
  /\ copy \in [Workers -> Records \cup {None}]
  /\ executions \in 0 .. MaxExecutions
  /\ creations \in 0 .. MaxCreations

\* What is committed of a run is all of one record: the columns, the decision row, the
\* handler, gate and artifact rows are those of the snapshot beside them, whoever saved
\* before, at the same time or failed half way.
AuditIsOfSnapshot ==
  tables.snapshot # None =>
    /\ tables.columns = Columns(tables.snapshot)
    /\ tables.decisions = DecisionsOf(tables.snapshot)
    /\ tables.handlers = HandlersOf(tables.snapshot)
    /\ tables.gates = HandlersOf(tables.snapshot)
    /\ tables.artifacts = ArtifactsOf(tables.snapshot)

\* A run that was verified after its chain had passed, or executed again after it was
\* verified, never has final_status PASS next to a verifier_decision that is not, and once
\* a report is stored the two columns and the decision row are one.  (Without a report
\* they are two fields of the chain's result, and PASS may stand beside a final BLOCKED.)
ColumnsAgree ==
  /\ tables.columns.final = "PASS" => tables.columns.decision = "PASS"
  /\ tables.snapshot # None /\ tables.snapshot.report # None =>
       /\ tables.columns.final = tables.columns.decision
       /\ tables.decisions = {tables.columns.final}

\* Every attempt of the stored record has a row, and the row is of that attempt and not
\* of one that had its number before.
AttemptRowsAreCurrent ==
  tables.snapshot # None =>
    \A n \in DOMAIN tables.snapshot.attempts :
      tables.attempts[n] = tables.snapshot.attempts[n]

\* The foreign key of evidence_artifacts never has a save refused, which would not end then
\* (SavesEnd).
NoSaveRefused == \A w \in Workers : pc[w] = "artifacts" => Linked(w)

\* The row of an attempt outlives the record that lost it: to a stale save, or to a run
\* created anew.
AttemptRowsStay ==
  [][\A n \in Numbers : tables.attempts[n] # None => tables'.attempts[n] # None]_vars

\* The record's row for an attempt number, for RecordStore.
RowOf(record, n) == IF n \in DOMAIN record.attempts THEN record.attempts[n] ELSE None

AuditOf(record) ==
  IF record = None
    THEN [columns |-> Empty.columns, artifacts |-> {}, handlers |-> {}, gates |-> {},
          decisions |-> {}]
    ELSE [columns |-> Columns(record), artifacts |-> ArtifactsOf(record),
          handlers |-> HandlersOf(record), gates |-> HandlersOf(record),
          decisions |-> DecisionsOf(record)]

Store == INSTANCE RecordStore
  WITH Audit <- AuditOf, Row <- RowOf,
       stored <- tables.snapshot,
       audit <- [columns |-> tables.columns, artifacts |-> tables.artifacts,
                 handlers |-> tables.handlers, gates |-> tables.gates,
                 decisions |-> tables.decisions],
       attempts <- tables.attempts, copies <- copy

\* A save of many statements, with its waiting and failing, is the single step that the
\* callers of the repository take it for.
SavesAsOneStep == Store!Spec

\* A save ends, committed or failed, however many others want the same row.
SavesEnd == \A w \in Workers : pc[w] = "upsert" ~> pc[w] = "idle"
==============================================================================
