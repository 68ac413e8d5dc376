------------------------- MODULE ChainExecutorProofs -------------------------
(***************************************************************************)
(* Proofs about ChainExecutor, for every chain, every handler registry and *)
(* every set of answers.                                                   *)
(***************************************************************************)
EXTENDS ChainExecutor, TLAPS

Live == phase \in {"dispatch", "running"}

\* While the loop goes on nobody has objected, and nothing is final.
OpenRun ==
  /\ Live => \A i \in 1 .. Len(results) : ~Objects(results[i])
  /\ phase # "done" <=> final_status = "none"

\* What a final PASS was granted on.
ClosedRun ==
  final_status = "PASS" =>
    /\ verifier_decision = "PASS"
    /\ \A i \in 1 .. Len(results) : ~Objects(results[i])
    /\ RanToTheEnd

\* The inductive invariant.
IInv ==
  /\ TypeOK
  /\ VerdictAfter(Len(results), verifier_decision)
  /\ RanInOrder
  /\ OpenRun
  /\ ClosedRun

\* A record a step may append: of the handler the loop has reached.
Recordable(result) ==
  /\ result \in HandlerResult
  /\ Index <= Len(Chain)
  /\ result.handler_name = Current

\* The chain is a sequence of names of handlers with types, and no step changes it.
LEMMA ChainType ==
  ASSUME task \in Tasks
  PROVE  /\ Chain \in Seq(STRING)
         /\ \A i \in 1 .. Len(Chain) : TypeOf[Chain[i]] \in HandlerTypes
BY ChainAssumption DEF Chain

LEMMA ChainFixed == task' = task => Chain' = Chain
BY DEF Chain

LEMMA TaskFixed == [Next]_vars => task' = task
BY DEF vars, Next, Step, Deferred, NotApplicable, Invoke, Return, Finish, Touch, Raise

LEMMA AnswersAreOutcomes ==
  BlockedAnswer \in HandlerOutcome /\ NotApplicableAnswer \in HandlerOutcome
BY DEF BlockedAnswer, NotApplicableAnswer, Answer, HandlerOutcome, HandlerStatuses,
       HandlerDecisions, Unset

\* Every result the executor makes or lets through is of its type.
LEMMA ResultType ==
  ASSUME NEW name \in STRING, NEW type \in HandlerTypes,
         NEW outcome \in HandlerOutcome, NEW author \in {"handler", "executor"}
  PROVE  /\ Result(name, type, outcome, author) \in HandlerResult
         /\ Result(name, type, outcome, author).handler_name = name
BY DEF Result, HandlerResult, HandlerOutcome

LEMMA CurrentType ==
  ASSUME TypeOK, Index <= Len(Chain)
  PROVE  Current \in STRING /\ TypeOf[Current] \in HandlerTypes
BY ChainType DEF TypeOK, Index, Current

LEMMA EnforcedType ==
  ASSUME TypeOK, Index <= Len(Chain), NEW outcome \in Outcomes
  PROVE  Recordable(Enforced(outcome))
<1>1. outcome \in HandlerOutcome
  BY ChainAssumption
<1>2. QED
  BY <1>1, CurrentType, ResultType, AnswersAreOutcomes DEF Enforced, Recordable

\* A vote appended to the results becomes the verdict, anything else leaves it.
LEMMA VerdictOfAppend ==
  ASSUME TypeOK, VerdictAfter(Len(results), verifier_decision),
         NEW result \in HandlerResult, Record(result)
  PROVE  VerdictAfter(Len(results), verifier_decision)'
<1> DEFINE n == Len(results)
<1>1. /\ n \in Nat
      /\ Len(results') = n + 1
      /\ results'[n + 1] = result
      /\ \A i \in 1 .. n : results'[i] = results[i]
  BY DEF TypeOK, Record
<1>2. CASE IsVote(result)
  <2>1. verifier_decision' = result.status
    BY <1>2 DEF Record
  <2>2. \A j \in n + 2 .. n + 1 : FALSE
    BY <1>1
  <2>3. /\ n + 1 \in 1 .. n + 1
        /\ IsVote(results'[n + 1])
        /\ verifier_decision' = results'[n + 1].status
        /\ \A j \in (n + 1) + 1 .. n + 1 : ~IsVote(results'[j])
    BY <1>1, <1>2, <2>1, <2>2
  <2>4. QED
    BY <1>1, <2>3 DEF VerdictAfter
<1>3. CASE ~IsVote(result)
  <2>1. verifier_decision' = verifier_decision
    BY <1>3 DEF Record
  <2>2. CASE verifier_decision = "PENDING" /\ \A i \in 1 .. n : ~IsVote(results[i])
    <3>1. \A i \in 1 .. n + 1 : ~IsVote(results'[i])
      BY <1>1, <1>3, <2>2
    <3>2. QED
      BY <1>1, <2>1, <2>2, <3>1 DEF VerdictAfter
  <2>3. ASSUME NEW i \in 1 .. n, IsVote(results[i]),
               verifier_decision = results[i].status,
               \A j \in i + 1 .. n : ~IsVote(results[j])
        PROVE  VerdictAfter(Len(results), verifier_decision)'
    <3>1. \A j \in i + 1 .. n + 1 : ~IsVote(results'[j])
      BY <1>1, <1>3, <2>3
    <3>2. i \in 1 .. n + 1 /\ IsVote(results'[i]) /\ verifier_decision' = results'[i].status
      BY <1>1, <2>1, <2>3
    <3>3. QED
      BY <1>1, <3>1, <3>2 DEF VerdictAfter
  <2>4. QED
    BY <2>2, <2>3 DEF VerdictAfter
<1>4. QED
  BY <1>2, <1>3

LEMMA RecordPreserves ==
  ASSUME IInv, Live, NEW result, Recordable(result), Record(result),
         UNCHANGED <<task, tree, baseline, seen>>
  PROVE  IInv'
<1> USE DEF IInv
<1> DEFINE n == Len(results)
<1>c. task' = task /\ Chain' = Chain
  BY ChainFixed
<1>1. /\ n \in Nat
      /\ Len(results') = n + 1
      /\ results'[n + 1] = result
      /\ \A i \in 1 .. n : results'[i] = results[i]
      /\ results' \in Seq(HandlerResult)
  BY DEF TypeOK, Record, Recordable
<1>2. TypeOK'
  <2>1. verifier_decision' \in Decisions \cup {"PENDING"}
    BY DEF TypeOK, Record, IsVote
  <2>2. pr_status' \in PrStatuses
    BY DEF TypeOK, Record, Recordable, HandlerResult
  <2>3. final_status' \in Decisions \cup {"none"}
    BY DEF TypeOK, Record, Objects, Conclusion, Decisions
  <2>4. checkpoints' \in Seq([next_action : STRING,
                              verifier_decision : Decisions \cup {"PENDING"}])
    BY <2>1 DEF TypeOK, Record, Recordable, HandlerResult
  <2>5. phase' \in {"dispatch", "done"} /\ Len(results') <= Len(Chain)
    BY <1>1, ChainType DEF TypeOK, Record, Recordable, Index
  <2>6. QED
    BY <1>1, <1>c, <2>1, <2>2, <2>3, <2>4, <2>5 DEF TypeOK
<1>3. VerdictAfter(Len(results), verifier_decision)'
  BY VerdictOfAppend DEF Recordable
<1>4. RanInOrder'
  BY <1>1, <1>c DEF RanInOrder, Recordable, Current, Index
<1>5. OpenRun'
  <2>1. CASE Objects(result)
    BY <2>1, <1>1 DEF OpenRun, Live, Record, Objects
  <2>2. CASE ~Objects(result)
    BY <2>2, <1>1 DEF OpenRun, Live, Record, Conclusion, Objects
  <2>3. QED
    BY <2>1, <2>2
<1>6. ClosedRun'
  <2>1. CASE Objects(result)
    BY <2>1 DEF ClosedRun, Record, Objects
  <2>2. CASE ~Objects(result) /\ result.decision = "STOP"
    BY <2>2, <1>1, <1>c DEF ClosedRun, Record, Conclusion, OpenRun, RanToTheEnd, Live
  <2>3. CASE ~Objects(result) /\ result.decision # "STOP"
    BY <2>3 DEF ClosedRun, Record, OpenRun, Live
  <2>4. QED
    BY <2>1, <2>2, <2>3
<1>7. QED
  BY <1>2, <1>3, <1>4, <1>5, <1>6

LEMMA InitIInv == Init => IInv
<1> SUFFICES ASSUME Init PROVE IInv
  OBVIOUS
<1>1. results = <<>> /\ Len(results) = 0
  BY DEF Init
<1>2. TypeOK
  BY <1>1, ChainAssumption DEF Init, TypeOK, Snapshot, PrStatuses
<1>3. VerdictAfter(Len(results), verifier_decision)
  BY <1>1 DEF Init, VerdictAfter
<1>4. RanInOrder /\ OpenRun /\ ClosedRun
  BY <1>1 DEF Init, RanInOrder, OpenRun, ClosedRun, Live
<1>5. QED
  BY <1>2, <1>3, <1>4 DEF IInv

\* A step that appends nothing and decides nothing.
LEMMA QuietPreserves ==
  ASSUME IInv, UNCHANGED <<task, results, verifier_decision, final_status>>, TypeOK',
         phase' # "done" <=> phase # "done", Live' => Live
  PROVE  IInv'
<1>1. VerdictAfter(Len(results), verifier_decision)'
  BY DEF IInv, VerdictAfter
<1>2. RanInOrder' /\ OpenRun' /\ ClosedRun'
  BY ChainFixed DEF IInv, RanInOrder, OpenRun, ClosedRun, RanToTheEnd, Objects, Live
<1>3. QED
  BY <1>1, <1>2 DEF IInv

\* The three steps that record a result record one of the handler reached.
LEMMA StepRecords ==
  ASSUME IInv, Deferred \/ NotApplicable \/ Return
  PROVE  /\ Live /\ UNCHANGED <<task, tree, baseline, seen>>
         /\ \E result : Recordable(result) /\ Record(result)
<1>t. TypeOK
  BY DEF IInv
<1>1. CASE Deferred
  <2>1. Recordable(Result(Current, "PURE_CHECK", BlockedAnswer, "executor"))
    BY <1>1, <1>t, CurrentType, ResultType, AnswersAreOutcomes
       DEF Deferred, Recordable, HandlerTypes
  <2>2. QED
    BY <1>1, <2>1 DEF Deferred, Live
<1>2. CASE NotApplicable
  <2>1. Recordable(Result(Current, TypeOf[Current], NotApplicableAnswer, "executor"))
    BY <1>2, <1>t, CurrentType, ResultType, AnswersAreOutcomes
       DEF NotApplicable, Recordable
  <2>2. QED
    BY <1>2, <2>1 DEF NotApplicable, Live
<1>3. CASE Return
  <2>1. PICK outcome \in Outcomes : Record(Enforced(outcome))
    BY <1>3 DEF Return
  <2>2. Recordable(Enforced(outcome))
    BY <1>3, <1>t, EnforcedType DEF Return, TypeOK
  <2>3. QED
    BY <1>3, <2>1, <2>2 DEF Return, Live
<1>4. QED
  BY <1>1, <1>2, <1>3

LEMMA NextIInv == IInv /\ [Next]_vars => IInv'
<1> SUFFICES ASSUME IInv, [Next]_vars PROVE IInv'
  OBVIOUS
<1>t. TypeOK
  BY DEF IInv
<1>c. task' = task /\ Chain' = Chain
  BY TaskFixed, ChainFixed
<1>1. CASE Deferred \/ NotApplicable \/ Return
  BY <1>1, StepRecords, RecordPreserves
<1>3. CASE Invoke
  <2>1. TypeOK'
    BY <1>3, <1>t, <1>c, ChainAssumption DEF Invoke, TypeOK, Snapshot, Index
  <2>2. QED
    BY <1>3, <1>c, <2>1, QuietPreserves DEF Invoke, Live
<1>4. CASE Touch
  <2>1. TypeOK'
    BY <1>4, <1>t, <1>c DEF Touch, TypeOK, Index
  <2>2. QED
    BY <1>4, <1>c, <2>1, QuietPreserves DEF Touch, Live
<1>6. CASE Raise
  <2>1. TypeOK'
    BY <1>6, <1>t, <1>c DEF Raise, TypeOK
  <2>2. QED
    BY <1>6, <1>c, <2>1, QuietPreserves DEF Raise, Live
<1>7. CASE Finish
  <2>1. TypeOK'
    BY <1>7, <1>t, <1>c DEF Finish, TypeOK, Conclusion, Decisions
  <2>2. Len(results) = Len(Chain)
    BY <1>7, <1>t, ChainType DEF Finish, TypeOK, Index
  <2>3. VerdictAfter(Len(results), verifier_decision)' /\ RanInOrder'
    BY <1>7, <1>c DEF IInv, Finish, VerdictAfter, RanInOrder
  <2>4. OpenRun'
    BY <1>7 DEF IInv, Finish, OpenRun, Live, Conclusion
  <2>5. ClosedRun'
    BY <1>7, <1>c, <2>2 DEF IInv, Finish, ClosedRun, OpenRun, Live, RanToTheEnd, Conclusion
  <2>6. QED
    BY <2>1, <2>3, <2>4, <2>5 DEF IInv
<1>8. CASE UNCHANGED vars
  <2>1. TypeOK'
    BY <1>8, <1>t, <1>c DEF vars, TypeOK, Index
  <2>2. QED
    BY <1>8, <2>1, QuietPreserves DEF vars, Live
<1>9. QED
  BY <1>1, <1>3, <1>4, <1>6, <1>7, <1>8 DEF Next, Step

LEMMA IInvAlways == Spec => []IInv
BY InitIInv, NextIInv, PTL DEF Spec

\* Every variable keeps its type: results and checkpoints stay sequences of
\* well-formed records however many handlers the chain has.
THEOREM TypeCorrect == Spec => []TypeOK
<1>1. IInv => TypeOK
  BY DEF IInv
<1>2. QED
  BY <1>1, IInvAlways, PTL

\* A PASS is earned, for every chain, handler registry and set of answers.
THEOREM PassEarned == Spec => []PassIsEarned
<1>1. IInv => PassIsEarned
  BY DEF IInv, ClosedRun, PassIsEarned
<1>2. QED
  BY <1>1, IInvAlways, PTL

------------------------------------------------------------------------------
(***************************************************************************)
(* Changes of the repository.                                              *)
(***************************************************************************)

LEMMA InitChange == Init => ChangeNeedsWriter
BY ChainAssumption DEF Init, ChangeNeedsWriter, Snapshot

\* The mutation check leaves a changed repository only behind a write handler
\* or a BLOCKED run.
LEMMA ReturnChange ==
  ASSUME IInv, Return
  PROVE  ChangeNeedsWriter'
<1>1. PICK outcome \in Outcomes : Record(Enforced(outcome))
  BY DEF Return
<1> DEFINE n == Len(results)
<1>2. /\ n \in Nat
      /\ Len(results') = n + 1
      /\ results'[n + 1] = Enforced(outcome)
  BY <1>1 DEF Record, IInv, TypeOK
<1>3. tree' = tree /\ baseline' = baseline
  BY DEF Return
<1>4. CASE CanModifyRepo(TypeOf[Current])
  <2>1. CanModifyRepo(results'[n + 1].handler_type)
    BY <1>2, <1>4 DEF Enforced, Result
  <2>2. \A j \in (n + 1) + 1 .. n + 1 : FALSE
    BY <1>2
  <2>3. QED
    BY <1>2, <2>1, <2>2 DEF ChangeNeedsWriter
<1>5. CASE tree \in {baseline, Absent}
  BY <1>3, <1>5 DEF ChangeNeedsWriter
<1>6. CASE ~CanModifyRepo(TypeOf[Current]) /\ tree \notin {baseline, Absent}
  <2>1. Enforced(outcome).decision = "BLOCKED"
    BY <1>6 DEF Enforced, Result, BlockedAnswer, Answer
  <2>2. final_status' = "BLOCKED"
    BY <1>1, <2>1 DEF Record, Objects
  <2>3. QED
    BY <2>2 DEF ChangeNeedsWriter
<1>7. QED
  BY <1>4, <1>5, <1>6

\* A handler skipped unrun changes nothing, and is no write handler either.
LEMMA SkipChange ==
  ASSUME IInv, ChangeNeedsWriter, NotApplicable
  PROVE  ChangeNeedsWriter'
<1> DEFINE n == Len(results)
           r == Result(Current, TypeOf[Current], NotApplicableAnswer, "executor")
<1>1. /\ n \in Nat
      /\ Len(results') = n + 1
      /\ results'[n + 1] = r
      /\ \A i \in 1 .. n : results'[i] = results[i]
  BY DEF NotApplicable, Record, IInv, TypeOK
<1>2. r.decision = "SKIP_NOT_APPLICABLE"
  BY DEF Result, NotApplicableAnswer, Answer
<1>3. tree' = tree /\ baseline' = baseline
  BY DEF NotApplicable
<1>4. phase = "dispatch" /\ final_status # "BLOCKED"
  BY DEF NotApplicable, IInv, OpenRun
<1>5. CASE tree \in {baseline, Absent}
  BY <1>3, <1>5 DEF ChangeNeedsWriter
<1>6. ASSUME NEW i \in 1 .. n, CanModifyRepo(results[i].handler_type),
             \A j \in i + 1 .. n : results[j].decision = "SKIP_NOT_APPLICABLE"
      PROVE  ChangeNeedsWriter'
  <2>1. \A j \in i + 1 .. n + 1 : results'[j].decision = "SKIP_NOT_APPLICABLE"
    BY <1>1, <1>2, <1>6
  <2>2. i \in 1 .. n + 1 /\ CanModifyRepo(results'[i].handler_type)
    BY <1>1, <1>6
  <2>3. QED
    BY <1>1, <2>1, <2>2 DEF ChangeNeedsWriter
<1>7. QED
  BY <1>4, <1>5, <1>6 DEF ChangeNeedsWriter

LEMMA NextChange == IInv /\ ChangeNeedsWriter /\ [Next]_vars => ChangeNeedsWriter'
<1> SUFFICES ASSUME IInv, ChangeNeedsWriter, [Next]_vars PROVE ChangeNeedsWriter'
  OBVIOUS
<1>1. CASE Deferred
  BY <1>1 DEF Deferred, Record, Result, BlockedAnswer, Answer, Objects, ChangeNeedsWriter
<1>2. CASE NotApplicable
  BY <1>2, SkipChange
<1>3. CASE Return
  BY <1>3, ReturnChange
<1>4. CASE Invoke \/ Touch \/ Raise
  BY <1>4 DEF Invoke, Touch, Raise, ChangeNeedsWriter
<1>5. CASE Finish
  BY <1>5 DEF Finish, ChangeNeedsWriter, IInv, OpenRun
<1>6. CASE UNCHANGED vars
  BY <1>6 DEF vars, ChangeNeedsWriter
<1>7. QED
  BY <1>1, <1>2, <1>3, <1>4, <1>5, <1>6 DEF Next, Step

\* Whoever changes the repository under a non-write handler, the run is BLOCKED.
THEOREM ChangesNeedWriters == Spec => []ChangeNeedsWriter
BY InitChange, NextChange, IInvAlways, PTL DEF Spec

------------------------------------------------------------------------------
(***************************************************************************)
(* Checkpoints.                                                            *)
(***************************************************************************)

LEMMA InitCheckpoints == Init => CheckpointsReplay
BY DEF Init, CheckpointsReplay

LEMMA RecordCheckpoints ==
  ASSUME IInv, CheckpointsReplay, Live, NEW result, Recordable(result), Record(result),
         UNCHANGED <<task, tree, baseline, seen>>
  PROVE  CheckpointsReplay'
<1> DEFINE n == Len(results)
<1>1. /\ n \in Nat
      /\ Len(results') = n + 1
      /\ results'[n + 1] = result
      /\ \A i \in 1 .. n : results'[i] = results[i]
  BY DEF IInv, TypeOK, Record
<1>2. /\ Len(checkpoints') = n + 1
      /\ checkpoints'[n + 1] = [next_action |-> result.handler_name,
                                verifier_decision |-> verifier_decision']
      /\ \A i \in 1 .. n : checkpoints'[i] = checkpoints[i]
  BY DEF CheckpointsReplay, IInv, TypeOK, Record
<1>3. VerdictAfter(Len(results), verifier_decision)'
  BY VerdictOfAppend DEF IInv, Recordable
<1>4. SUFFICES ASSUME NEW i \in 1 .. n + 1
               PROVE  /\ checkpoints'[i].next_action = results'[i].handler_name
                      /\ VerdictAfter(i, checkpoints[i].verifier_decision)'
  BY <1>1, <1>2 DEF CheckpointsReplay
<1>5. CASE i = n + 1
  <2>1. Len(results)' = i /\ checkpoints'[i].verifier_decision = verifier_decision'
    BY <1>1, <1>2, <1>5
  <2>2. VerdictAfter(i, checkpoints[i].verifier_decision)'
    BY <1>3, <2>1 DEF VerdictAfter
  <2>3. QED
    BY <1>1, <1>2, <1>5, <2>2
<1>6. CASE i \in 1 .. n
  <2>1. VerdictAfter(i, checkpoints[i].verifier_decision)
    BY <1>6 DEF CheckpointsReplay
  <2>2. \A j \in 1 .. i : results'[j] = results[j]
    BY <1>1, <1>6
  <2>3. VerdictAfter(i, checkpoints[i].verifier_decision)'
    BY <1>2, <1>6, <2>1, <2>2 DEF VerdictAfter
  <2>4. QED
    BY <1>1, <1>2, <1>6, <2>3 DEF CheckpointsReplay
<1>7. QED
  BY <1>1, <1>5, <1>6

LEMMA NextCheckpoints == IInv /\ CheckpointsReplay /\ [Next]_vars => CheckpointsReplay'
<1> SUFFICES ASSUME IInv, CheckpointsReplay, [Next]_vars PROVE CheckpointsReplay'
  OBVIOUS
<1>1. ASSUME NEW result, Recordable(result), Record(result), Live,
             UNCHANGED <<task, tree, baseline, seen>>
      PROVE  CheckpointsReplay'
  BY <1>1, RecordCheckpoints
<1>2. CASE Deferred \/ NotApplicable \/ Return
  BY <1>1, <1>2, StepRecords
<1>3. CASE Invoke \/ Touch \/ Raise \/ Finish \/ UNCHANGED vars
  BY <1>3 DEF Invoke, Touch, Raise, Finish, vars, CheckpointsReplay, VerdictAfter
<1>4. QED
  BY <1>2, <1>3 DEF Next, Step

\* The checkpoint files a crash leaves behind replay the run.
THEOREM CheckpointsAreFaithful == Spec => []CheckpointsReplay
BY InitCheckpoints, NextCheckpoints, IInvAlways, PTL DEF Spec

------------------------------------------------------------------------------
(***************************************************************************)
(* The executor implements HarnessVerdict.                                 *)
(***************************************************************************)

Objected == \E i \in 1 .. Len(results) : Objects(results[i])

Outcome == CASE phase = "done" -> final_status
             [] phase = "raised" -> "lost"
             [] OTHER -> "open"

\* The three expressions the mapping gives the promise's variables, by name.
LEMMA Mapping ==
  /\ Verdict!Init <=> /\ verifier_decision = "PENDING"
                      /\ Objected = FALSE
                      /\ Outcome = "open"
  /\ Verdict!Vote <=> /\ Outcome = "open"
                      /\ verifier_decision' \in Decisions
                      /\ UNCHANGED <<Objected, Outcome>>
  /\ Verdict!Close <=> /\ Outcome = "open"
                       /\ Outcome' \in Decisions \cup {"lost"}
                       /\ verifier_decision' \in Decisions \cup {verifier_decision}
                       /\ Objected' \in {TRUE, Objected}
                       /\ Outcome' = "PASS" => verifier_decision' = "PASS" /\ ~Objected'
  /\ UNCHANGED Verdict!vars <=> UNCHANGED <<verifier_decision, Objected, Outcome>>
BY DEF Verdict!Init, Verdict!Vote, Verdict!Close, Verdict!vars, Verdict!Decisions,
       Decisions, Objected, Outcome

LEMMA InitPromise == Init => Verdict!Init
<1> SUFFICES ASSUME Init PROVE Verdict!Init
  OBVIOUS
<1>1. Len(results) = 0
  BY DEF Init
<1>2. Objected = FALSE
  BY <1>1 DEF Objected
<1>3. Outcome = "open" /\ verifier_decision = "PENDING"
  BY DEF Init, Outcome
<1>4. QED
  BY <1>2, <1>3, Mapping

\* Recording a result is a vote, an ending, or nothing to the promise.
LEMMA RecordPromise ==
  ASSUME IInv, Live, NEW result, Recordable(result), Record(result)
  PROVE  Verdict!Next \/ UNCHANGED Verdict!vars
<1> DEFINE n == Len(results)
<1>1. /\ n \in Nat
      /\ Len(results') = n + 1
      /\ results'[n + 1] = result
      /\ \A i \in 1 .. n : results'[i] = results[i]
  BY DEF IInv, TypeOK, Record
<1>2. Objected = FALSE /\ Outcome = "open"
  BY DEF IInv, OpenRun, Live, Objected, Outcome
<1>3. Objected' <=> Objects(result)
  <2>1. ASSUME NEW i \in 1 .. n + 1, Objects(results'[i]) PROVE Objects(result)
    <3>1. ~Objects(results[i]) \/ i = n + 1
      BY <1>1, <1>2 DEF Objected
    <3>2. QED
      BY <1>1, <2>1, <3>1
  <2>2. n + 1 \in 1 .. n + 1
    BY <1>1
  <2>3. QED
    BY <1>1, <2>1, <2>2 DEF Objected
<1>4. verifier_decision' \in Decisions \cup {verifier_decision}
  BY DEF Record, IsVote
<1>5. Objected' \in {TRUE, FALSE}
  BY DEF Objected
<1>6. CASE Objects(result)
  <2>1. Outcome' = result.decision
    BY <1>6 DEF Record, Outcome, Objects
  <2>2. Outcome' \in {"FAIL", "BLOCKED"}
    BY <1>6, <2>1 DEF Objects
  <2>3. Outcome' \in Decisions \cup {"lost"} /\ Outcome' # "PASS"
    BY <2>2 DEF Decisions
  <2>4. QED
    BY <1>2, <1>4, <1>5, <2>3, Mapping DEF Verdict!Next
<1>7. CASE ~Objects(result) /\ result.decision = "STOP"
  <2>1. Outcome' = Conclusion(verifier_decision')
    BY <1>7 DEF Record, Outcome
  <2>2. Outcome' \in Decisions \cup {"lost"}
    BY <2>1 DEF Conclusion, Decisions
  <2>3. Outcome' = "PASS" => verifier_decision' = "PASS"
    BY <2>1 DEF Conclusion
  <2>4. ~Objected'
    BY <1>3, <1>7
  <2>5. QED
    BY <1>2, <1>4, <1>5, <2>2, <2>3, <2>4, Mapping DEF Verdict!Next
<1>8. CASE ~Objects(result) /\ result.decision # "STOP"
  <2>1. Outcome' = "open"
    BY <1>8 DEF Record, Outcome
  <2>2. Objected' = FALSE
    BY <1>3, <1>5, <1>8
  <2>3. UNCHANGED <<Objected, Outcome>>
    BY <1>2, <2>1, <2>2
  <2>4. CASE verifier_decision' \in Decisions
    BY <1>2, <2>3, <2>4, Mapping DEF Verdict!Next
  <2>5. CASE verifier_decision' = verifier_decision
    BY <2>3, <2>5, Mapping
  <2>6. QED
    BY <1>4, <2>4, <2>5
<1>9. QED
  BY <1>6, <1>7, <1>8

LEMMA NextPromise == IInv /\ [Next]_vars => [Verdict!Next]_Verdict!vars
<1> SUFFICES ASSUME IInv, [Next]_vars PROVE Verdict!Next \/ UNCHANGED Verdict!vars
  OBVIOUS
<1>1. CASE Deferred \/ NotApplicable \/ Return
  BY <1>1, StepRecords, RecordPromise
<1>2. CASE Invoke \/ Touch \/ UNCHANGED vars
  <2>1. UNCHANGED <<verifier_decision, results, final_status>> /\ Outcome' = Outcome
    BY <1>2 DEF Invoke, Touch, vars, Outcome
  <2>2. Objected' = Objected
    BY <2>1 DEF Objected
  <2>3. QED
    BY <2>1, <2>2, Mapping
<1>3. CASE Raise
  <2>1. Outcome = "open" /\ Outcome' = "lost" /\ verifier_decision' = verifier_decision
    BY <1>3 DEF Raise, Outcome
  <2>2. Objected' = Objected
    BY <1>3 DEF Raise, Objected
  <2>3. QED
    BY <2>1, <2>2, Mapping DEF Verdict!Next
<1>4. CASE Finish
  <2>1. Objected = FALSE /\ Outcome = "open"
    BY <1>4 DEF IInv, OpenRun, Finish, Live, Objected, Outcome
  <2>2. Objected' = FALSE
    BY <1>4, <2>1 DEF Finish, Objected
  <2>3. Outcome' = Conclusion(verifier_decision) /\ verifier_decision' = verifier_decision
    BY <1>4 DEF Finish, Outcome
  <2>4. /\ Outcome' \in Decisions \cup {"lost"}
        /\ Outcome' = "PASS" => verifier_decision' = "PASS"
    BY <2>3 DEF Conclusion, Decisions
  <2>5. QED
    BY <2>1, <2>2, <2>3, <2>4, Mapping DEF Verdict!Next
<1>5. QED
  BY <1>1, <1>2, <1>3, <1>4 DEF Next, Step

\* execute implements the harness's promise, for every chain and all handlers.
THEOREM ExecutorKeepsPromise == Spec => KeepsPromise
BY InitPromise, NextPromise, IInvAlways, PTL DEF Spec, KeepsPromise, Verdict!Spec
==============================================================================
