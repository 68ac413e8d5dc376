-------------------------- MODULE PersistenceProofs --------------------------
(***************************************************************************)
(* What the transaction of PostgresRunRepository.save leaves committed,    *)
(* for every number of threads, chain outcome and number of executions.    *)
(*                                                                         *)
(* What is committed is right because what is about to be was built up     *)
(* right, and that is inductive only if each statement's share is known    *)
(* while the transaction is half way, and nobody else is writing it.       *)
(***************************************************************************)
EXTENDS Persistence, TLAPS

USE PersistenceAssumption DEF PersistenceAssumption

Writing == Statements \ {"upsert"}

\* A record somebody may store: its attempts are of executions there were.
Sound(record) == record \in Records /\ Len(record.attempts) <= executions

\* The attempts' rows after a record's own are put over them.
Merged(record, rows) ==
  [n \in Numbers |-> IF n \in DOMAIN record.attempts THEN record.attempts[n] ELSE rows[n]]

Types ==
  /\ tables \in Tables /\ draft \in Tables
  /\ writer \in Workers \cup {Nobody}
  /\ pc \in [Workers -> {"idle", "working"} \cup Statements]
  /\ copy \in [Workers -> Records \cup {None}]
  /\ executions \in 0 .. MaxExecutions
  /\ creations \in 0 .. MaxCreations

Soundness ==
  /\ tables.snapshot # None => Sound(tables.snapshot)
  /\ \A w \in Workers : pc[w] # "idle" => Sound(copy[w])

\* Who writes holds the row, and nobody else writes.
OneWriter == \A w \in Workers : pc[w] \in Writing <=> writer = w

\* What worker w's transaction has done by now.
HalfWay(w) ==
  /\ draft.snapshot = copy[w] /\ draft.columns = Columns(copy[w])
  /\ draft.attempts = IF pc[w] \in {"clear", "attempts"} THEN tables.attempts
                      ELSE Merged(copy[w], tables.attempts)
  /\ pc[w] \in {"attempts", "artifacts"} => draft.artifacts = {}
  /\ pc[w] \in {"handlers", "decision", "commit"} => draft.artifacts = ArtifactsOf(copy[w])
  /\ pc[w] \in {"attempts", "artifacts", "handlers"} =>
       draft.handlers = {} /\ draft.gates = {}
  /\ pc[w] \in {"decision", "commit"} =>
       draft.handlers = HandlersOf(copy[w]) /\ draft.gates = HandlersOf(copy[w])
  /\ pc[w] \in {"attempts", "artifacts", "handlers", "decision"} => draft.decisions = {}
  /\ pc[w] = "commit" => draft.decisions = DecisionsOf(copy[w])

\* Before the first save there is nothing.
NothingStored == tables.snapshot = None => tables.columns = Empty.columns

PInv ==
  /\ Types
  /\ NothingStored
  /\ Soundness
  /\ OneWriter
  /\ \A w \in Workers : pc[w] \in Writing => HalfWay(w)
  /\ AuditIsOfSnapshot
  /\ AttemptRowsAreCurrent

------------------------------------------------------------------------------
\* What save derives of a record is what the tables hold.
LEMMA Derived ==
  ASSUME NEW r, Sound(r), executions \in 0 .. MaxExecutions
  PROVE  /\ Columns(r) \in [final : Decisions \cup {None}, decision : Decisions \cup {None}]
         /\ ArtifactsOf(r) \in SUBSET [attempt : Numbers, execution : Numbers]
         /\ HandlersOf(r) \in SUBSET Numbers
         /\ DecisionsOf(r) \in SUBSET Decisions
         /\ DOMAIN r.attempts \subseteq Numbers
         /\ \A n \in DOMAIN r.attempts : r.attempts[n] \in Attempts
<1>1. /\ r.attempts \in Seq(Attempts) /\ Len(r.attempts) \in 0 .. MaxExecutions
      /\ r.result \in Results \cup {None} /\ r.report \in Decisions \cup {None}
  BY DEF Sound, Records
<1>2. /\ DOMAIN r.attempts \subseteq Numbers
      /\ \A n \in DOMAIN r.attempts : r.attempts[n] \in Attempts
  BY <1>1 DEF Numbers
<1>3. ArtifactsOf(r) \in SUBSET [attempt : Numbers, execution : Numbers]
  BY <1>2 DEF ArtifactsOf, Attempts
<1>4. HandlersOf(r) \in SUBSET Numbers
  BY <1>1 DEF HandlersOf, Results
<1>5. DecisionsOf(r) \in SUBSET Decisions
  BY <1>1 DEF DecisionsOf, Results
<1>6. Columns(r) \in [final : Decisions \cup {None}, decision : Decisions \cup {None}]
  BY <1>1 DEF Columns, Results, FinalStatuses, Decisions
<1> QED BY <1>2, <1>3, <1>4, <1>5, <1>6

LEMMA MergedIsRows ==
  ASSUME NEW r, Sound(r), executions \in 0 .. MaxExecutions,
         NEW rows \in [Numbers -> Attempts \cup {None}]
  PROVE  /\ Merged(r, rows) \in [Numbers -> Attempts \cup {None}]
         /\ \A n \in DOMAIN r.attempts : Merged(r, rows)[n] = r.attempts[n]
  BY Derived DEF Merged

LEMMA EmptyIsTables == Empty \in Tables
  BY DEF Empty, Tables

------------------------------------------------------------------------------
LEMMA PInvInit == Init => PInv
<1> SUFFICES ASSUME Init PROVE PInv
  OBVIOUS
<1>1. Types
  BY EmptyIsTables DEF Init, Types
<1>2. tables.snapshot = None /\ NothingStored
  BY DEF Init, Empty, NothingStored
<1>3. OneWriter
  BY DEF Init, OneWriter, Writing, Statements
<1>4. \A w \in Workers : pc[w] = "idle"
  BY DEF Init
<1> QED BY <1>1, <1>2, <1>3, <1>4
        DEF PInv, Soundness, AuditIsOfSnapshot, AttemptRowsAreCurrent, Writing, Statements

\* A worker that has made up its mind stores a sound record and writes nothing yet.
LEMMA ToSaveKeeps ==
  ASSUME PInv, NEW w \in Workers, NEW record, pc[w] \in {"idle", "working"},
         ToSave(w, record), executions' \in 0 .. MaxExecutions, executions <= executions',
         creations' \in 0 .. MaxCreations, record \in Records,
         Len(record.attempts) <= executions'
  PROVE  PInv'
<1> USE DEF PInv
<1>1. /\ UNCHANGED <<tables, draft, writer>>
      /\ copy' = [copy EXCEPT ![w] = record] /\ pc' = [pc EXCEPT ![w] = "upsert"]
  BY DEF ToSave
<1>2. Types'
  BY <1>1 DEF Types, Statements
<1>3. \A v \in Workers \ {w} : pc'[v] = pc[v] /\ copy'[v] = copy[v]
  BY <1>1 DEF Types
<1>4. pc'[w] = "upsert" /\ copy'[w] = record
  BY <1>1 DEF Types
<1>5. \A r \in Records : Len(r.attempts) \in Nat
  BY DEF Records
<1>6. Soundness'
  <2>1. tables.snapshot # None => Sound(tables.snapshot)'
    BY <1>1, <1>5 DEF Soundness, Sound, Types
  <2>2. ASSUME NEW v \in Workers, pc'[v] # "idle" PROVE Sound(copy[v])'
    BY <1>3, <1>4, <1>5, <2>2 DEF Soundness, Sound, Types
  <2> QED BY <1>1, <2>1, <2>2 DEF Soundness
<1>7. OneWriter'
  BY <1>1, <1>3, <1>4 DEF OneWriter, Writing, Statements
<1>8. \A v \in Workers : pc'[v] \in Writing => HalfWay(v)'
  BY <1>1, <1>3, <1>4 DEF HalfWay, Writing, Statements, Merged
<1>9. NothingStored' /\ AuditIsOfSnapshot' /\ AttemptRowsAreCurrent'
  BY <1>1 DEF NothingStored, AuditIsOfSnapshot, AttemptRowsAreCurrent
<1> QED BY <1>2, <1>6, <1>7, <1>8, <1>9

\* A statement of worker w's transaction, which does its share of the draft.
LEMMA RunsKeeps ==
  ASSUME PInv, NEW w \in Workers, NEW statement \in Writing \ {"commit"}, NEW after \in Tables,
         Runs(w, statement, after),
         after.snapshot = copy[w], after.columns = Columns(copy[w]),
         HalfWay(w)'
  PROVE  PInv'
<1> USE DEF PInv
<1>1. /\ pc[w] = statement /\ pc' = [pc EXCEPT ![w] = Following(statement)]
      /\ draft' = after /\ UNCHANGED <<tables, writer, copy, executions, creations>>
  BY DEF Runs, Counts
<1>2. Following(statement) \in Writing
  BY DEF Following, Writing, Statements
<1>3. writer = w
  BY <1>1 DEF OneWriter
<1>4. \A v \in Workers \ {w} : pc'[v] = pc[v] /\ pc[v] \notin Writing
  BY <1>1, <1>3 DEF Types, OneWriter
<1>5. pc'[w] = Following(statement)
  BY <1>1 DEF Types
<1>6. Types'
  BY <1>1, <1>2 DEF Types, Writing
<1>7. pc[w] # "idle"
  BY <1>1 DEF Writing, Statements
<1>8. Soundness'
  BY <1>1, <1>4, <1>5, <1>7 DEF Soundness, Sound
<1>9. OneWriter'
  BY <1>1, <1>2, <1>3, <1>4, <1>5 DEF OneWriter
<1>10. \A v \in Workers : pc'[v] \in Writing => HalfWay(v)'
  BY <1>4
<1>11. NothingStored' /\ AuditIsOfSnapshot' /\ AttemptRowsAreCurrent'
  BY <1>1 DEF NothingStored, AuditIsOfSnapshot, AttemptRowsAreCurrent
<1> QED BY <1>6, <1>8, <1>9, <1>10, <1>11

LEMMA UpsertKeeps ==
  ASSUME PInv, NEW w \in Workers, Upsert(w)
  PROVE  PInv'
<1> USE DEF PInv
<1> DEFINE after == [tables EXCEPT !.snapshot = copy[w], !.columns = Columns(copy[w])]
<1>1. /\ pc[w] = "upsert" /\ writer = Nobody /\ writer' = w
      /\ draft' = after /\ pc' = [pc EXCEPT ![w] = "clear"]
      /\ UNCHANGED <<tables, copy, executions, creations>>
  BY DEF Upsert, Counts
<1>2. Sound(copy[w])
  BY <1>1 DEF Soundness
<1>3. Columns(copy[w]) \in [final : Decisions \cup {None}, decision : Decisions \cup {None}]
  BY <1>2, Derived DEF Types
<1>4. /\ after \in Tables /\ after.snapshot = copy[w] /\ after.columns = Columns(copy[w])
      /\ after.attempts = tables.attempts
  BY <1>2, <1>3 DEF Types, Tables, Sound
<1> HIDE DEF after
<1>5. \A v \in Workers \ {w} : pc'[v] = pc[v] /\ pc[v] \notin Writing
  BY <1>1 DEF Types, OneWriter
<1>6. pc'[w] = "clear" /\ "clear" \in Writing
  BY <1>1 DEF Types, Writing, Statements
<1>7. Types'
  BY <1>1, <1>4 DEF Types, Statements
<1>8. Soundness'
  BY <1>1, <1>2, <1>5, <1>6 DEF Soundness, Sound
<1>9. OneWriter'
  BY <1>1, <1>5, <1>6 DEF OneWriter
<1>10. HalfWay(w)'
  BY <1>1, <1>4, <1>6 DEF HalfWay
<1>11. \A v \in Workers : pc'[v] \in Writing => HalfWay(v)'
  BY <1>5, <1>10
<1>12. NothingStored' /\ AuditIsOfSnapshot' /\ AttemptRowsAreCurrent'
  BY <1>1 DEF NothingStored, AuditIsOfSnapshot, AttemptRowsAreCurrent
<1> QED BY <1>7, <1>8, <1>9, <1>11, <1>12

LEMMA StatementKeeps ==
  ASSUME PInv, NEW w \in Workers,
         \/ Clear(w) \/ ProjectAttempts(w) \/ ProjectArtifacts(w) \/ ProjectHandlers(w)
         \/ ProjectDecision(w)
  PROVE  PInv'
<1> USE DEF PInv
<1> DEFINE statement == pc[w]
<1>1. statement \in Writing \ {"commit"}
  BY DEF Clear, ProjectAttempts, ProjectArtifacts, ProjectHandlers, ProjectDecision, Runs,
         Writing, Statements
<1>2. HalfWay(w) /\ Sound(copy[w])
  BY <1>1 DEF Soundness, Writing, Statements
<1>3. draft \in Tables /\ tables.attempts \in [Numbers -> Attempts \cup {None}]
  BY DEF Types, Tables
<1>4. /\ ArtifactsOf(copy[w]) \in SUBSET [attempt : Numbers, execution : Numbers]
      /\ HandlersOf(copy[w]) \in SUBSET Numbers
      /\ DecisionsOf(copy[w]) \in SUBSET Decisions
      /\ Merged(copy[w], tables.attempts) \in [Numbers -> Attempts \cup {None}]
  BY <1>2, <1>3, Derived, MergedIsRows DEF Types
<1>5. SUFFICES ASSUME NEW after \in Tables, Runs(w, statement, after),
                      after.snapshot = draft.snapshot, after.columns = draft.columns,
                      HalfWay(w)'
               PROVE  PInv'
  <2>1. CASE Clear(w)
    <3> DEFINE after == [draft EXCEPT !.artifacts = {}, !.handlers = {}, !.gates = {},
                                      !.decisions = {}]
    <3>1. statement = "clear" /\ Runs(w, statement, after)
      BY <2>1 DEF Clear, Runs
    <3>2. /\ after \in Tables /\ after.snapshot = draft.snapshot
          /\ after.columns = draft.columns /\ after.attempts = draft.attempts
          /\ after.artifacts = {} /\ after.handlers = {} /\ after.gates = {}
          /\ after.decisions = {}
      BY <1>3 DEF Tables
    <3> HIDE DEF after
    <3>3. pc'[w] = "attempts" /\ draft' = after /\ tables' = tables /\ copy' = copy
      BY <3>1 DEF Runs, Following, Types
    <3>4. HalfWay(w)'
      BY <1>2, <3>1, <3>2, <3>3 DEF HalfWay
    <3> QED BY <3>1, <3>2, <3>4, <1>5
  <2>2. CASE ProjectAttempts(w)
    <3> DEFINE after == [draft EXCEPT !.attempts = Merged(copy[w], draft.attempts)]
    <3>1. statement = "attempts" /\ Runs(w, statement, after)
      BY <2>2 DEF ProjectAttempts, Runs, Merged
    <3>2. draft.attempts = tables.attempts
      BY <1>2, <3>1 DEF HalfWay
    <3>3. /\ after \in Tables /\ after.snapshot = draft.snapshot
          /\ after.columns = draft.columns /\ after.artifacts = draft.artifacts
          /\ after.attempts = Merged(copy[w], tables.attempts)
          /\ after.handlers = draft.handlers /\ after.gates = draft.gates
          /\ after.decisions = draft.decisions
      BY <1>3, <1>4, <3>2 DEF Tables
    <3> HIDE DEF after
    <3>4. pc'[w] = "artifacts" /\ draft' = after /\ tables' = tables /\ copy' = copy
      BY <3>1 DEF Runs, Following, Types
    <3>5. HalfWay(w)'
      BY <1>2, <3>1, <3>3, <3>4 DEF HalfWay
    <3> QED BY <3>1, <3>3, <3>5, <1>5
  <2>3. CASE ProjectArtifacts(w)
    <3> DEFINE after == [draft EXCEPT !.artifacts = @ \cup ArtifactsOf(copy[w])]
    <3>1. statement = "artifacts" /\ Runs(w, statement, after)
      BY <2>3 DEF ProjectArtifacts, Runs
    <3>2. draft.artifacts = {}
      BY <1>2, <3>1 DEF HalfWay
    <3>3. /\ after \in Tables /\ after.snapshot = draft.snapshot
          /\ after.columns = draft.columns /\ after.attempts = draft.attempts
          /\ after.artifacts = ArtifactsOf(copy[w])
          /\ after.handlers = draft.handlers /\ after.gates = draft.gates
          /\ after.decisions = draft.decisions
      BY <1>3, <1>4, <3>2 DEF Tables
    <3> HIDE DEF after
    <3>4. pc'[w] = "handlers" /\ draft' = after /\ tables' = tables /\ copy' = copy
      BY <3>1 DEF Runs, Following, Types
    <3>5. HalfWay(w)'
      BY <1>2, <3>1, <3>3, <3>4 DEF HalfWay
    <3> QED BY <3>1, <3>3, <3>5, <1>5
  <2>4. CASE ProjectHandlers(w)
    <3> DEFINE after == [draft EXCEPT !.handlers = @ \cup HandlersOf(copy[w]),
                                      !.gates = @ \cup HandlersOf(copy[w])]
    <3>1. statement = "handlers" /\ Runs(w, statement, after)
      BY <2>4 DEF ProjectHandlers, Runs
    <3>2. draft.handlers = {} /\ draft.gates = {}
      BY <1>2, <3>1 DEF HalfWay
    <3>3. /\ after \in Tables /\ after.snapshot = draft.snapshot
          /\ after.columns = draft.columns /\ after.attempts = draft.attempts
          /\ after.artifacts = draft.artifacts
          /\ after.handlers = HandlersOf(copy[w]) /\ after.gates = HandlersOf(copy[w])
          /\ after.decisions = draft.decisions
      BY <1>3, <1>4, <3>2 DEF Tables
    <3> HIDE DEF after
    <3>4. pc'[w] = "decision" /\ draft' = after /\ tables' = tables /\ copy' = copy
      BY <3>1 DEF Runs, Following, Types
    <3>5. HalfWay(w)'
      BY <1>2, <3>1, <3>3, <3>4 DEF HalfWay
    <3> QED BY <3>1, <3>3, <3>5, <1>5
  <2>5. CASE ProjectDecision(w)
    <3> DEFINE after == [draft EXCEPT !.decisions = @ \cup DecisionsOf(copy[w])]
    <3>1. statement = "decision" /\ Runs(w, statement, after)
      BY <2>5 DEF ProjectDecision, Runs
    <3>2. draft.decisions = {}
      BY <1>2, <3>1 DEF HalfWay
    <3>3. /\ after \in Tables /\ after.snapshot = draft.snapshot
          /\ after.columns = draft.columns /\ after.attempts = draft.attempts
          /\ after.artifacts = draft.artifacts
          /\ after.handlers = draft.handlers /\ after.gates = draft.gates
          /\ after.decisions = DecisionsOf(copy[w])
      BY <1>3, <1>4, <3>2 DEF Tables
    <3> HIDE DEF after
    <3>4. pc'[w] = "commit" /\ draft' = after /\ tables' = tables /\ copy' = copy
      BY <3>1 DEF Runs, Following, Types
    <3>5. HalfWay(w)'
      BY <1>2, <3>1, <3>3, <3>4 DEF HalfWay
    <3> QED BY <3>1, <3>3, <3>5, <1>5
  <2> QED BY <2>1, <2>2, <2>3, <2>4, <2>5
<1>6. after.snapshot = copy[w] /\ after.columns = Columns(copy[w])
  BY <1>2, <1>5 DEF HalfWay
<1> QED BY <1>1, <1>5, <1>6, RunsKeeps

\* A commit makes the draft, which is all done, what there is.
LEMMA CommitKeeps ==
  ASSUME PInv, NEW w \in Workers, Commit(w)
  PROVE  PInv'
<1> USE DEF PInv
<1>1. /\ pc[w] = "commit" /\ tables' = draft /\ draft' = Empty /\ writer' = Nobody
      /\ pc' = [pc EXCEPT ![w] = "idle"] /\ copy' = [copy EXCEPT ![w] = None]
      /\ UNCHANGED <<executions, creations>>
  BY DEF Commit, Counts
<1>2. "commit" \in Writing /\ "idle" \notin Writing
  BY DEF Writing, Statements
<1>3. HalfWay(w) /\ Sound(copy[w]) /\ writer = w
  BY <1>1, <1>2 DEF Soundness, OneWriter
<1>4. \A v \in Workers \ {w} : pc'[v] = pc[v] /\ copy'[v] = copy[v] /\ pc[v] \notin Writing
  BY <1>1, <1>3 DEF Types, OneWriter
<1>5. pc'[w] = "idle"
  BY <1>1 DEF Types
<1>6. Types'
  BY <1>1, EmptyIsTables DEF Types
<1>7. Soundness'
  BY <1>1, <1>3, <1>4, <1>5 DEF Soundness, Sound, HalfWay
<1>8. \A v \in Workers : pc'[v] \notin Writing
  BY <1>2, <1>4, <1>5
<1>9. OneWriter'
  BY <1>1, <1>8 DEF OneWriter
<1>10. NothingStored' /\ AuditIsOfSnapshot'
  BY <1>1, <1>3 DEF NothingStored, AuditIsOfSnapshot, HalfWay, Soundness, Sound
<1>11. draft.attempts = Merged(copy[w], tables.attempts)
  BY <1>1, <1>3 DEF HalfWay
<1>12. AttemptRowsAreCurrent'
  <2>1. tables.attempts \in [Numbers -> Attempts \cup {None}]
    BY DEF Types, Tables
  <2> QED BY <1>1, <1>3, <1>11, <2>1, MergedIsRows DEF AttemptRowsAreCurrent, HalfWay, Types
<1> QED BY <1>6, <1>7, <1>8, <1>9, <1>10, <1>12

LEMMA FailKeeps ==
  ASSUME PInv, NEW w \in Workers, Fail(w)
  PROVE  PInv'
<1> USE DEF PInv
<1>1. /\ pc' = [pc EXCEPT ![w] = "idle"] /\ copy' = [copy EXCEPT ![w] = None]
      /\ UNCHANGED <<tables, executions, creations>>
  BY DEF Fail, Counts
<1>2. \A v \in Workers \ {w} : pc'[v] = pc[v] /\ copy'[v] = copy[v]
  BY <1>1 DEF Types
<1>3. pc'[w] = "idle" /\ "idle" \notin Writing
  BY <1>1 DEF Types, Writing, Statements
<1>4. \/ writer = w /\ writer' = Nobody /\ draft' = Empty
      \/ writer # w /\ writer' = writer /\ draft' = draft
  BY DEF Fail
<1>5. Types'
  BY <1>1, <1>4, EmptyIsTables DEF Types
<1>6. Soundness'
  BY <1>1, <1>2, <1>3 DEF Soundness, Sound
<1>7. OneWriter'
  BY <1>2, <1>3, <1>4 DEF OneWriter
<1>8. ASSUME NEW v \in Workers, pc'[v] \in Writing PROVE HalfWay(v)'
  <2>1. v # w /\ pc'[v] = pc[v] /\ copy'[v] = copy[v]
    BY <1>2, <1>3, <1>8
  <2>2. writer = v /\ draft' = draft
    BY <1>4, <1>8, <2>1 DEF OneWriter
  <2> QED BY <1>1, <1>8, <2>1, <2>2 DEF HalfWay
<1>9. NothingStored' /\ AuditIsOfSnapshot' /\ AttemptRowsAreCurrent'
  BY <1>1 DEF NothingStored, AuditIsOfSnapshot, AttemptRowsAreCurrent
<1> QED BY <1>5, <1>6, <1>7, <1>8, <1>9

LEMMA RestartKeeps == ASSUME PInv, Restart PROVE PInv'
<1> USE DEF PInv
<1>1. /\ pc' = [w \in Workers |-> "idle"] /\ copy' = [w \in Workers |-> None]
      /\ writer' = Nobody /\ draft' = Empty /\ UNCHANGED <<tables, executions, creations>>
  BY DEF Restart, Counts
<1>2. Types'
  BY <1>1, EmptyIsTables DEF Types
<1>3. \A w \in Workers : pc'[w] = "idle"
  BY <1>1
<1>4. Soundness'
  BY <1>1, <1>3 DEF Soundness, Sound
<1>5. OneWriter' /\ \A w \in Workers : pc'[w] \notin Writing
  BY <1>1, <1>3 DEF OneWriter, Writing, Statements
<1>6. NothingStored' /\ AuditIsOfSnapshot' /\ AttemptRowsAreCurrent'
  BY <1>1 DEF NothingStored, AuditIsOfSnapshot, AttemptRowsAreCurrent
<1> QED BY <1>2, <1>4, <1>5, <1>6

------------------------------------------------------------------------------
LEMMA CreateKeeps == ASSUME PInv, NEW w \in Workers, Create(w) PROVE PInv'
<1>1. /\ pc[w] = "idle" /\ creations < MaxCreations /\ ToSave(w, NewRecord)
      /\ creations' = creations + 1 /\ executions' = executions
  BY DEF Create
<1>2. executions \in 0 .. MaxExecutions /\ creations \in 0 .. MaxCreations
  BY DEF PInv, Types
<1>3. NewRecord \in Records /\ Len(NewRecord.attempts) = 0
  BY DEF NewRecord, Records
<1> QED BY <1>1, <1>2, <1>3, ToSaveKeeps

\* A worker that has its copy changes it within what a record may be.
LEMMA WorkKeeps ==
  ASSUME PInv, NEW w \in Workers, Execute(w) \/ Refuse(w) \/ Report(w) \/ Touch(w)
  PROVE  PInv'
<1>1. pc[w] = "working"
  BY DEF Execute, Refuse, Report, Touch
<1>2. /\ copy[w] \in Records /\ Len(copy[w].attempts) <= executions
      /\ executions \in 0 .. MaxExecutions /\ creations \in 0 .. MaxCreations
  BY <1>1 DEF PInv, Types, Soundness, Sound
<1>3. /\ copy[w].attempts \in Seq(Attempts) /\ copy[w].result \in Results \cup {None}
      /\ copy[w].report \in Decisions \cup {None}
  BY <1>2 DEF Records
<1>4. CASE Execute(w)
  <2>1. executions < MaxExecutions /\ executions' = executions + 1 /\ creations' = creations
    BY <1>4 DEF Execute
  <2>2. PICK outcome \in Outcomes :
          ToSave(w, [copy[w] EXCEPT
                       !.attempts = Append(@, [execution |-> executions + 1,
                                               final |-> outcome.final]),
                       !.result = [execution |-> executions + 1, final |-> outcome.final,
                                   decision |-> outcome.decision]])
    BY <1>4 DEF Execute
  <2> DEFINE attempt == [execution |-> executions + 1, final |-> outcome.final]
             result == [execution |-> executions + 1, final |-> outcome.final,
                        decision |-> outcome.decision]
             attempts == Append(copy[w].attempts, attempt)
             record == [copy[w] EXCEPT !.attempts = attempts, !.result = result]
  <2>3. attempt \in Attempts /\ result \in Results
    BY <1>2, <2>1 DEF Attempts, Results, Numbers
  <2>4. ToSave(w, record)
    BY <2>2
  <2> HIDE DEF attempt, result
  <2>5. attempts \in Seq(Attempts) /\ Len(attempts) <= executions'
    BY <1>2, <1>3, <2>1, <2>3
  <2> HIDE DEF attempts
  <2>6. record \in Records /\ record.attempts = attempts
    BY <1>2, <1>3, <2>3, <2>5 DEF Records
  <2> HIDE DEF record
  <2> QED BY <1>1, <1>2, <2>1, <2>4, <2>5, <2>6, ToSaveKeeps
<1>5. CASE Refuse(w)
  <2> DEFINE result == [execution |-> executions + 1, final |-> "BLOCKED",
                        decision |-> "BLOCKED"]
             record == [copy[w] EXCEPT !.result = result]
  <2>1. /\ executions < MaxExecutions /\ executions' = executions + 1
        /\ creations' = creations /\ ToSave(w, record)
    BY <1>5 DEF Refuse
  <2>2. result \in Results
    BY <1>2, <2>1 DEF Results, Numbers, FinalStatuses, Decisions
  <2> HIDE DEF result
  <2>3. record \in Records /\ record.attempts = copy[w].attempts
    BY <1>2, <1>3, <2>2 DEF Records
  <2>4. Len(record.attempts) <= executions'
    BY <1>2, <1>3, <2>1, <2>3
  <2> HIDE DEF record
  <2> QED BY <1>1, <1>2, <2>1, <2>3, <2>4, ToSaveKeeps
<1>6. CASE Report(w)
  <2>1. PICK decision \in Reported : ToSave(w, [copy[w] EXCEPT !.report = decision])
    BY <1>6 DEF Report
  <2> DEFINE record == [copy[w] EXCEPT !.report = decision]
  <2>2. executions' = executions /\ creations' = creations
    BY <1>6 DEF Report, Counts
  <2>3. record \in Records /\ record.attempts = copy[w].attempts
    BY <1>2, <1>3 DEF Records
  <2>4. ToSave(w, record)
    BY <2>1
  <2> HIDE DEF record
  <2> QED BY <1>1, <1>2, <2>2, <2>3, <2>4, ToSaveKeeps
<1>7. CASE Touch(w)
  <2>1. ToSave(w, copy[w]) /\ executions' = executions /\ creations' = creations
    BY <1>7 DEF Touch, Counts
  <2> QED BY <1>1, <1>2, <2>1, ToSaveKeeps
<1> QED BY <1>4, <1>5, <1>6, <1>7

LEMMA GetKeeps == ASSUME PInv, NEW w \in Workers, Get(w) PROVE PInv'
<1> USE DEF PInv
<1>1. /\ pc[w] = "idle" /\ tables.snapshot # None
      /\ copy' = [copy EXCEPT ![w] = tables.snapshot] /\ pc' = [pc EXCEPT ![w] = "working"]
      /\ UNCHANGED <<tables, draft, writer, executions, creations>>
  BY DEF Get, Counts
<1>2. Sound(tables.snapshot)
  BY <1>1 DEF Soundness
<1>3. Types'
  BY <1>1, <1>2 DEF Types, Sound
<1>4. \A v \in Workers \ {w} : pc'[v] = pc[v] /\ copy'[v] = copy[v]
  BY <1>1 DEF Types
<1>5. pc'[w] = "working" /\ copy'[w] = tables.snapshot
  BY <1>1 DEF Types
<1>6. Soundness'
  BY <1>1, <1>2, <1>4, <1>5 DEF Soundness, Sound
<1>7. OneWriter'
  BY <1>1, <1>4, <1>5 DEF OneWriter, Writing, Statements
<1>8. \A v \in Workers : pc'[v] \in Writing => HalfWay(v)'
  BY <1>1, <1>4, <1>5 DEF HalfWay, Writing, Statements, Merged
<1>9. NothingStored' /\ AuditIsOfSnapshot' /\ AttemptRowsAreCurrent'
  BY <1>1 DEF NothingStored, AuditIsOfSnapshot, AttemptRowsAreCurrent
<1> QED BY <1>3, <1>6, <1>7, <1>8, <1>9

LEMMA PInvStep == PInv /\ [Next]_vars => PInv'
<1> SUFFICES ASSUME PInv, [Next]_vars PROVE PInv'
  OBVIOUS
<1>1. CASE Restart
  BY <1>1, RestartKeeps
<1>2. ASSUME NEW w \in Workers, Create(w) PROVE PInv'
  BY <1>2, CreateKeeps
<1>3. ASSUME NEW w \in Workers, Get(w) PROVE PInv'
  BY <1>3, GetKeeps
<1>4. ASSUME NEW w \in Workers, Execute(w) \/ Refuse(w) \/ Report(w) \/ Touch(w)
      PROVE  PInv'
  BY <1>4, WorkKeeps
<1>5. ASSUME NEW w \in Workers, Upsert(w) PROVE PInv'
  BY <1>5, UpsertKeeps
<1>6. ASSUME NEW w \in Workers, Statement(w) PROVE PInv'
  BY <1>6, StatementKeeps, CommitKeeps DEF Statement
<1>7. ASSUME NEW w \in Workers, Fail(w) PROVE PInv'
  BY <1>7, FailKeeps
<1>8. CASE UNCHANGED vars
  BY <1>8 DEF vars, PInv, Types, Soundness, Sound, OneWriter, HalfWay, Merged,
              NothingStored, AuditIsOfSnapshot, AttemptRowsAreCurrent
<1> QED BY <1>1, <1>2, <1>3, <1>4, <1>5, <1>6, <1>7, <1>8 DEF Next

LEMMA PInvHolds == Spec => []PInv
<1> QED BY PInvInit, PInvStep, PTL DEF Spec

------------------------------------------------------------------------------
\* Tables, the open transaction and every thread's copy keep their types: nothing is
\* stored that the schema of the tables would not hold.
THEOREM TypeCorrect == Spec => []TypeOK
<1>1. PInv => TypeOK
  BY DEF PInv, Types, TypeOK
<1> QED BY <1>1, PInvHolds, PTL

\* However many threads save a run, whichever statement fails or whenever the service
\* dies, the columns and the decision, handler, gate and artifact rows that are committed
\* are those of the snapshot committed with them.
THEOREM AuditAgrees == Spec => []AuditIsOfSnapshot
<1>1. PInv => AuditIsOfSnapshot
  BY DEF PInv
<1> QED BY <1>1, PInvHolds, PTL

\* Neither a report on a run that passed nor an execution after one leaves a final status
\* PASS next to a decision that is another; with a report stored, columns and decision row
\* are one.  A chain passes only on its verifier's PASS (the assumption on Outcomes).
THEOREM ColumnsAreOne == Spec => []ColumnsAgree
<1>1. ASSUME PInv PROVE ColumnsAgree
  <2>1. CASE tables.snapshot = None
    BY <1>1, <2>1 DEF PInv, NothingStored, ColumnsAgree, Empty
  <2>2. CASE tables.snapshot # None
    <3> DEFINE record == tables.snapshot
    <3>1. /\ record.result \in Results \cup {None}
          /\ tables.columns = Columns(record) /\ tables.decisions = DecisionsOf(record)
      BY <1>1, <2>2 DEF PInv, Soundness, Sound, Records, AuditIsOfSnapshot
    <3>2. CASE record.report # None
      BY <3>1, <3>2 DEF Columns, DecisionsOf, ColumnsAgree
    <3>3. CASE record.report = None /\ record.result # None
      <4>1. tables.columns = [final |-> record.result.final, decision |-> record.result.decision]
        BY <3>1, <3>3 DEF Columns
      <4> QED BY <3>1, <3>3, <4>1 DEF Results, ColumnsAgree
    <3>4. CASE record.report = None /\ record.result = None
      <4>1. tables.columns = [final |-> None, decision |-> None]
        BY <3>1, <3>4 DEF Columns
      <4> QED BY <3>4, <4>1 DEF ColumnsAgree, Decisions
    <3> QED BY <3>2, <3>3, <3>4
  <2> QED BY <2>1, <2>2
<1> QED BY <1>1, PInvHolds, PTL

\* Every attempt of the stored record has its own row, not the row of an attempt that
\* bore its number in a record that was replaced.
THEOREM RowsAreCurrent == Spec => []AttemptRowsAreCurrent
<1>1. PInv => AttemptRowsAreCurrent
  BY DEF PInv
<1> QED BY <1>1, PInvHolds, PTL

\* When a save comes to its artifacts, the attempts they refer to have their rows: the
\* foreign key refuses no save.
THEOREM ForeignKeyHolds == Spec => []NoSaveRefused
<1>1. ASSUME PInv PROVE NoSaveRefused
  <2> SUFFICES ASSUME NEW w \in Workers, pc[w] = "artifacts" PROVE Linked(w)
    BY DEF NoSaveRefused
  <2>1. HalfWay(w) /\ Sound(copy[w]) /\ executions \in 0 .. MaxExecutions
    BY <1>1 DEF PInv, Types, Soundness, Writing, Statements
  <2>2. draft.attempts = Merged(copy[w], tables.attempts)
    BY <2>1 DEF HalfWay
  <2>3. tables.attempts \in [Numbers -> Attempts \cup {None}]
    BY <1>1 DEF PInv, Types, Tables
  <2>4. \A n \in DOMAIN copy[w].attempts :
          /\ draft.attempts[n] = copy[w].attempts[n] /\ copy[w].attempts[n] \in Attempts
    BY <2>1, <2>2, <2>3, MergedIsRows, Derived
  <2>5. \A artifact \in ArtifactsOf(copy[w]) : artifact.attempt \in DOMAIN copy[w].attempts
    BY DEF ArtifactsOf
  <2> QED BY <2>4, <2>5 DEF Linked
<1> QED BY <1>1, PInvHolds, PTL

\* What each step does to the tables: a commit puts a whole draft in their place, every
\* other step leaves them alone.
LEMMA TablesChange ==
  ASSUME PInv, [Next]_vars
  PROVE  \/ tables' = tables
         \/ \E w \in Workers : Commit(w) /\ HalfWay(w) /\ Sound(copy[w]) /\ pc[w] = "commit"
<1>1. ASSUME NEW w \in Workers, Commit(w)
      PROVE  HalfWay(w) /\ Sound(copy[w]) /\ pc[w] = "commit"
  BY <1>1 DEF PInv, Soundness, Commit, Writing, Statements
<1>2. ASSUME NEW w \in Workers, Statement(w), ~Commit(w) PROVE tables' = tables
  BY <1>2 DEF Statement, Clear, ProjectAttempts, ProjectArtifacts, ProjectHandlers,
              ProjectDecision, Runs
<1> QED BY <1>1, <1>2 DEF Next, Restart, Create, Get, Execute, Refuse, Report, Touch, Upsert,
                          Fail, ToSave, vars

\* An attempt that was once recorded has a row ever after, even when a stale save or a run
\* created anew drops it from the record.
THEOREM RowsStay == Spec => AttemptRowsStay
<1>1. ASSUME PInv, [Next]_vars
      PROVE  \A n \in Numbers : tables.attempts[n] # None => tables'.attempts[n] # None
  <2> SUFFICES ASSUME NEW w \in Workers, Commit(w), HalfWay(w), Sound(copy[w]),
                      pc[w] = "commit", NEW n \in Numbers, tables.attempts[n] # None
               PROVE  tables'.attempts[n] # None
    BY <1>1, TablesChange
  <2>1. tables'.attempts = Merged(copy[w], tables.attempts)
    BY DEF Commit, HalfWay
  <2>2. \A m \in DOMAIN copy[w].attempts : copy[w].attempts[m] # None
    BY <1>1, Derived DEF PInv, Types
  <2> QED BY <2>1, <2>2 DEF Merged
<1>2. PInv /\ [Next]_vars
        => [\A n \in Numbers : tables.attempts[n] # None => tables'.attempts[n] # None]_vars
  BY <1>1
<1> QED BY <1>2, PInvHolds, PTL DEF Spec, AttemptRowsStay

------------------------------------------------------------------------------
\* The commit is the store's Put, whatever else was committed since the copy was got.
LEMMA CommitPuts ==
  ASSUME PInv, NEW w \in Workers, Commit(w)
  PROVE  Store!Put(w)
<1>1. HalfWay(w) /\ Sound(copy[w]) /\ pc[w] = "commit"
  BY DEF PInv, Soundness, Commit, Writing, Statements
<1>2. tables' = draft /\ copy' = [copy EXCEPT ![w] = None]
  BY DEF Commit
<1>3. copy[w] # None
  BY <1>1 DEF Sound
<1>4. tables'.snapshot = copy[w]
  BY <1>1, <1>2 DEF HalfWay
<1>5. [columns |-> tables'.columns, artifacts |-> tables'.artifacts,
       handlers |-> tables'.handlers, gates |-> tables'.gates,
       decisions |-> tables'.decisions] = AuditOf(copy[w])
  BY <1>1, <1>2, <1>3 DEF HalfWay, AuditOf
<1>6. tables.attempts \in [Numbers -> Attempts \cup {None}]
  BY DEF PInv, Types, Tables
<1>7. \A n \in DOMAIN copy[w].attempts : copy[w].attempts[n] # None
  BY <1>1, Derived DEF PInv, Types
<1>8. tables'.attempts = [n \in DOMAIN tables.attempts |->
                           IF RowOf(copy[w], n) = None THEN tables.attempts[n]
                           ELSE RowOf(copy[w], n)]
  BY <1>1, <1>2, <1>6, <1>7 DEF HalfWay, Merged, RowOf
<1>9. \A v \in Workers \ {w} : copy'[v] = copy[v]
  BY <1>2 DEF PInv, Types
<1> QED BY <1>3, <1>4, <1>5, <1>8, <1>9 DEF Store!Put, Store!OnlyOf

\* A save of many statements, which waits and fails, is to its callers a store of whole
\* records: each step is one of RecordStore's or none.
THEOREM SavesAreSteps == Spec => SavesAsOneStep
<1>1. Init => Store!Init
  <2> SUFFICES ASSUME Init PROVE Store!Init
    OBVIOUS
  <2>1. /\ tables.snapshot = None
        /\ [columns |-> tables.columns, artifacts |-> tables.artifacts,
            handlers |-> tables.handlers, gates |-> tables.gates,
            decisions |-> tables.decisions] = AuditOf(None)
        /\ tables.attempts = [n \in DOMAIN tables.attempts |-> None]
        /\ copy = [w \in Workers |-> None]
    BY DEF Init, Empty, AuditOf
  <2> QED BY <2>1 DEF Store!Init
<1>2. PInv /\ [Next]_vars => [Store!Next]_(Store!vars)
  <2> SUFFICES ASSUME PInv, [Next]_vars PROVE [Store!Next]_(Store!vars)
    OBVIOUS
  <2>1. \A w, v \in Workers : w # v =>
          \A record : [copy EXCEPT ![w] = record][v] = copy[v]
    BY DEF PInv, Types
  <2>2. CASE Restart
    BY <2>2 DEF Restart, Store!Next, Store!Forget
  <2>3. ASSUME NEW w \in Workers, NEW record, ToSave(w, record) PROVE Store!Edit(w)
    BY <2>1, <2>3 DEF ToSave, Store!Edit, Store!OnlyOf
  <2>4. ASSUME NEW w \in Workers,
               Create(w) \/ Execute(w) \/ Refuse(w) \/ Report(w) \/ Touch(w)
        PROVE  Store!Edit(w)
    BY <2>3, <2>4 DEF Create, Execute, Refuse, Report, Touch
  <2>5. ASSUME NEW w \in Workers, Get(w) PROVE Store!GetCopy(w)
    BY <2>5 DEF Get, Store!GetCopy
  <2>6. ASSUME NEW w \in Workers, Fail(w) PROVE Store!Edit(w)
    BY <2>1, <2>6 DEF Fail, Store!Edit, Store!OnlyOf
  <2>7. ASSUME NEW w \in Workers, Upsert(w) \/ Statement(w), ~Commit(w)
        PROVE  UNCHANGED <<tables, copy>>
    BY <2>7 DEF Upsert, Statement, Clear, ProjectAttempts, ProjectArtifacts, ProjectHandlers,
                ProjectDecision, Runs
  <2>8. ASSUME UNCHANGED <<tables, copy>> PROVE UNCHANGED Store!vars
    BY <2>8 DEF Store!vars
  <2>9. CASE UNCHANGED vars
    BY <2>8, <2>9 DEF vars
  <2>10. ASSUME NEW w \in Workers, Commit(w) PROVE Store!Put(w)
    BY <2>10, CommitPuts
  <2>11. ASSUME NEW w \in Workers, Store!GetCopy(w) \/ Store!Edit(w) \/ Store!Put(w)
         PROVE  Store!Next
    BY <2>11 DEF Store!Next
  <2> QED BY <2>2, <2>4, <2>5, <2>6, <2>7, <2>8, <2>9, <2>10, <2>11 DEF Next
<1> QED BY <1>1, <1>2, PInvHolds, PTL DEF Spec, SavesAsOneStep, Store!Spec
==============================================================================
