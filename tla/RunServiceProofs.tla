-------------------------- MODULE RunServiceProofs ---------------------------
(***************************************************************************)
(* The attempts of a run, for every number of threads, of executions and   *)
(* of runs created under the id, on either repository.                     *)
(*                                                                         *)
(* What the stored record is like is inductive only together with what is  *)
(* known of the records the threads hold, because each of them may be the  *)
(* stored one next, and of the attempts that are running, which are in no  *)
(* record yet.                                                             *)
(***************************************************************************)
EXTENDS RunService, FiniteSetTheorems, TLAPS

Started == {"running", "ran"}
InTurn == Durable \/ Sequential

\* A record's attempts are of executions there were, each of one of its own, and none has
\* a number beyond its place, or, where nobody interferes, but its place.
Good(record) ==
  \A i \in DOMAIN record.attempts :
    /\ record.attempts[i].number <= i
    /\ InTurn => record.attempts[i].number = i
    /\ record.attempts[i].execution <= executions
    /\ \A j \in DOMAIN record.attempts :
         record.attempts[i].execution = record.attempts[j].execution => i = j

Lacks(record, e) == \A i \in DOMAIN record.attempts : record.attempts[i].execution # e

\* An attempt that runs is in no record, and fits on the end of the one it will join.
Fits(w) ==
  /\ execution[w] \in 1 .. executions
  /\ attempt[w] \in 1 .. MaxExecutions
  /\ attempt[w] <= Len(heap[held[w]].attempts) + 1
  /\ InTurn => attempt[w] = Len(heap[held[w]].attempts) + 1
  /\ \A o \in Objects : Lacks(heap[o], execution[w])
  /\ \A v \in Workers : pc[v] \in Started /\ execution[v] = execution[w] => v = w

Holding ==
  \A w \in Workers :
    /\ pc[w] = "idle" <=> held[w] = Nobody
    /\ pc[w] # "idle" => bound # Nobody

\* With the durable repository everybody works on a copy of his own.
Apart ==
  Durable =>
    \A w \in Workers :
      /\ held[w] # Nobody => held[w] # bound
      /\ \A v \in Workers : held[w] # Nobody /\ held[v] = held[w] => v = w

OneAtATime ==
  Sequential => \A w, v \in Workers : pc[w] # "idle" /\ pc[v] # "idle" => v = w

AInv ==
  /\ TypeOK
  /\ Holding
  /\ Apart
  /\ OneAtATime
  /\ \A o \in Objects : Good(heap[o])
  /\ \A w \in Workers : pc[w] \in Started => Fits(w)

------------------------------------------------------------------------------
LEMMA GarbageFacts ==
  ASSUME NEW n \in 1 .. MaxCreations
  PROVE  /\ Fresh(n) \in Record /\ Fresh(n).attempts = <<>> /\ Fresh(n).creation = n
         /\ Garbage \in Record /\ Garbage.attempts = <<>>
<1>1. \A k \in 1 .. MaxCreations : Fresh(k) \in Record /\ Fresh(k).attempts = <<>>
                                   /\ Fresh(k).creation = k
  BY DEF Fresh, Record, States, Verdicts
<1>2. 1 \in 1 .. MaxCreations
  BY ServiceAssumption DEF ServiceAssumption
<1> QED BY <1>1, <1>2 DEF Garbage

\* What the heap is like after the unreachable is collected.
LEMMA BecomeFacts ==
  ASSUME NEW h \in [Objects -> Record], NEW b \in Objects \cup {Nobody},
         NEW refs \in [Workers -> Objects \cup {Nobody}], Become(h, b, refs)
  PROVE  /\ heap' \in [Objects -> Record] /\ bound' = b /\ held' = refs
         /\ \A o \in Objects : heap'[o] = h[o] \/ heap'[o] = Garbage
         /\ b # Nobody => heap'[b] = h[b]
         /\ \A w \in Workers : refs[w] # Nobody => heap'[refs[w]] = h[refs[w]]
<1>1. Garbage \in Record
  BY GarbageFacts, ServiceAssumption DEF ServiceAssumption
<1> QED BY <1>1 DEF Become

\* Most edits of a record leave its attempts and its creation alone.
LEMMA StateEdit ==
  ASSUME NEW r \in Record, NEW state \in States
  PROVE  /\ [r EXCEPT !.state = state] \in Record
         /\ [r EXCEPT !.state = state].attempts = r.attempts
         /\ [r EXCEPT !.state = state].creation = r.creation
  BY DEF Record

LEMMA VerdictEdit ==
  ASSUME NEW r \in Record, NEW verdict \in Verdicts, NEW state \in States
  PROVE  /\ [r EXCEPT !.verdict = verdict, !.state = state] \in Record
         /\ [r EXCEPT !.verdict = verdict, !.state = state].attempts = r.attempts
         /\ [r EXCEPT !.verdict = verdict, !.state = state].creation = r.creation
  BY DEF Record

LEMMA SeqEntries ==
  ASSUME NEW record \in Record
  PROVE  /\ Len(record.attempts) \in Nat
         /\ DOMAIN record.attempts = 1 .. Len(record.attempts)
         /\ \A i \in DOMAIN record.attempts :
              /\ record.attempts[i].execution \in 1 .. MaxExecutions
              /\ record.attempts[i].number \in 1 .. MaxExecutions
<1> DEFINE entries == [number : 1 .. MaxExecutions, execution : 1 .. MaxExecutions]
           n == Len(record.attempts)
<1>1. record.attempts \in Seq(entries)
  BY DEF Record
<1>2. \A e \in entries : e.execution \in 1 .. MaxExecutions /\ e.number \in 1 .. MaxExecutions
  OBVIOUS
<1> HIDE DEF entries
<1>3. n \in Nat /\ DOMAIN record.attempts = 1 .. n /\ record.attempts \in [1 .. n -> entries]
  BY <1>1
<1> QED BY <1>2, <1>3

\* A record has no more attempts than there were executions.
LEMMA AttemptsAreExecutions ==
  ASSUME NEW record \in Record, Good(record), executions \in Nat
  PROVE  Len(record.attempts) <= executions
<1> DEFINE n == Len(record.attempts)
           f == [i \in 1 .. n |-> record.attempts[i].execution]
<1>1. /\ n \in Nat /\ DOMAIN record.attempts = 1 .. n
      /\ \A i \in 1 .. n : record.attempts[i].execution \in 1 .. MaxExecutions
  BY SeqEntries
<1>2. f \in [1 .. n -> 1 .. executions]
  BY <1>1 DEF Good
<1>3. \A i, j \in 1 .. n : f[i] = f[j] => i = j
  BY <1>1 DEF Good
<1> HIDE DEF f, n
<1>4. f \in Injection(1 .. n, 1 .. executions)
  BY <1>2, <1>3 DEF Injection, IsInjective
<1>5. IsFiniteSet(1 .. executions) /\ Cardinality(1 .. executions) = executions
  <2>1. /\ IsFiniteSet(1 .. executions)
        /\ Cardinality(1 .. executions) = IF 1 > executions THEN 0 ELSE executions - 1 + 1
    BY FS_Interval
  <2> QED BY <2>1
<1>6. Cardinality(1 .. n) = n
  <2>1. Cardinality(1 .. n) = IF 1 > n THEN 0 ELSE n - 1 + 1
    BY <1>1, FS_Interval
  <2> QED BY <1>1, <2>1
<1>7. Cardinality(1 .. n) <= Cardinality(1 .. executions)
  BY <1>4, <1>5, FS_Injection
<1> QED BY <1>5, <1>6, <1>7 DEF n

\* Who is let in where there is one thread finds nobody at work.
LEMMA FreeIsAlone ==
  ASSUME Sequential, NEW w \in Workers, Free(w), NEW v \in Workers
  PROVE  pc[v] = "idle"
<1> DEFINE busy == {u \in Workers : pc[u] # "idle"}
<1>1. IsFiniteSet(Workers) /\ busy \in SUBSET Workers
  BY ServiceAssumption DEF ServiceAssumption
<1>2. IsFiniteSet(busy)
  BY <1>1, FS_Subset
<1>3. Cardinality(busy) \in Nat /\ Cardinality(busy) < 1
  BY <1>2, FS_CardinalityType DEF Free, Sequential
<1>4. busy = {}
  BY <1>2, <1>3, FS_EmptySet
<1> QED BY <1>4

LEMMA AInvInit == Init => AInv
<1> SUFFICES ASSUME Init PROVE AInv
  OBVIOUS
<1>1. Garbage \in Record /\ Garbage.attempts = <<>>
  BY GarbageFacts, ServiceAssumption DEF ServiceAssumption
<1>2. TypeOK
  BY <1>1, ServiceAssumption DEF Init, TypeOK, Places, ServiceAssumption
<1>3. \A o \in Objects : Good(heap[o])
  BY <1>1 DEF Init, Good
<1>4. \A w \in Workers : pc[w] = "idle" /\ held[w] = Nobody
  BY DEF Init
<1> QED BY <1>2, <1>3, <1>4 DEF AInv, Holding, Apart, OneAtATime, Started

------------------------------------------------------------------------------
\* A step in which no record gains an attempt and no attempt begins: what each record has
\* it has from one that was there before, or it is new, and those whose attempts run hold
\* what they held.
Quiet ==
  /\ deployment' = deployment /\ executions' = executions
  /\ \A o \in Objects :
       \/ heap'[o].attempts = <<>>
       \/ \E p \in Objects : heap'[o].attempts = heap[p].attempts
  /\ \A w \in Workers : pc'[w] \in Started =>
       /\ pc[w] \in Started /\ held'[w] = held[w]
       /\ execution'[w] = execution[w] /\ attempt'[w] = attempt[w]
       /\ heap'[held[w]].attempts = heap[held[w]].attempts

LEMMA QuietKeeps ==
  ASSUME AInv, Quiet
  PROVE  /\ \A o \in Objects : Good(heap[o])'
         /\ \A w \in Workers : pc'[w] \in Started => Fits(w)'
<1>1. /\ executions' = executions /\ (InTurn' <=> InTurn)
  BY DEF Quiet, InTurn, Durable, Sequential
<1>2. ASSUME NEW o \in Objects PROVE Good(heap[o])' /\ \A e : 
        (\A p \in Objects : Lacks(heap[p], e)) => Lacks(heap'[o], e)
  <2>1. CASE heap'[o].attempts = <<>>
    BY <2>1 DEF Good, Lacks
  <2>2. CASE \E p \in Objects : heap'[o].attempts = heap[p].attempts
    <3>1. PICK p \in Objects : heap'[o].attempts = heap[p].attempts
      BY <2>2
    <3>2. Good(heap[p])
      BY DEF AInv
    <3> QED BY <1>1, <3>1, <3>2 DEF Good, Lacks
  <2> QED BY <2>1, <2>2 DEF Quiet
<1>3. ASSUME NEW w \in Workers, pc'[w] \in Started PROVE Fits(w)'
  <2>1. Fits(w) /\ \A v \in Workers : pc'[v] \in Started => pc[v] \in Started
    BY <1>3 DEF AInv, Quiet
  <2>2. /\ held'[w] = held[w] /\ execution'[w] = execution[w] /\ attempt'[w] = attempt[w]
        /\ heap'[held[w]].attempts = heap[held[w]].attempts
        /\ \A v \in Workers : pc'[v] \in Started => execution'[v] = execution[v]
    BY <1>3 DEF Quiet
  <2>3. (\A o \in Objects : Lacks(heap[o], execution[w]))'
    BY <1>2, <2>1, <2>2 DEF Fits
  <2> QED BY <1>1, <2>1, <2>2, <2>3 DEF Fits
<1> QED BY <1>2, <1>3

\* The parts of the invariant that are known of every step.
LEMMA WorkerFacts ==
  ASSUME AInv, NEW w \in Workers
  PROVE  /\ held[w] \in Objects \cup {Nobody} /\ (pc[w] # "idle" => held[w] \in Objects)
         /\ heap \in [Objects -> Record] /\ bound \in Objects \cup {Nobody}
         /\ Nobody \notin Objects
         /\ pc \in [Workers -> Places] /\ held \in [Workers -> Objects \cup {Nobody}]
         /\ bound # Nobody => heap[bound] \in Record
         /\ executions \in 0 .. MaxExecutions /\ creations \in 0 .. MaxCreations
  BY ServiceAssumption DEF AInv, TypeOK, Holding, ServiceAssumption

LEMMA CreateKeeps ==
  ASSUME AInv, NEW w \in Workers, CreateRun(w), deployment' = deployment
  PROVE  AInv'
<1>1. PICK o \in Objects :
        /\ o \in IF Durable /\ bound # Nobody THEN {bound} ELSE Unused
        /\ Become([heap EXCEPT ![o] = Fresh(creations + 1)], o, held)
  BY WorkerFacts DEF CreateRun, Unused
<1> DEFINE h == [heap EXCEPT ![o] = Fresh(creations + 1)]
<1>2. /\ creations + 1 \in 1 .. MaxCreations /\ creations' = creations + 1
      /\ UNCHANGED <<pc, attempt, evidence, execution, executions>>
  BY WorkerFacts, ServiceAssumption DEF CreateRun, ServiceAssumption
<1>3. Fresh(creations + 1) \in Record /\ Fresh(creations + 1).attempts = <<>>
  BY <1>2, GarbageFacts
<1>4. h \in [Objects -> Record] /\ h[o].attempts = <<>> /\ \A p \in Objects \ {o} : h[p] = heap[p]
  BY <1>3, WorkerFacts
<1>5. \A v \in Workers : held[v] # o
  BY <1>1 DEF AInv, Apart, Unused
<1> HIDE DEF h
<1>6. Become(h, o, held)
  BY <1>1 DEF h
<1>7. /\ heap' \in [Objects -> Record] /\ bound' = o /\ held' = held
      /\ \A p \in Objects : heap'[p] = h[p] \/ heap'[p] = Garbage
      /\ \A v \in Workers : held[v] # Nobody => heap'[held[v]] = h[held[v]]
  BY <1>4, <1>6, BecomeFacts, WorkerFacts
<1>8. TypeOK'
  BY <1>2, <1>7 DEF AInv, TypeOK
<1>9. Holding'
  BY <1>2, <1>7, WorkerFacts DEF AInv, Holding
<1>10. Apart'
  BY <1>5, <1>7 DEF AInv, Apart, Durable
<1>11. OneAtATime'
  BY <1>2 DEF AInv, OneAtATime, Sequential
<1>12. Quiet
  <2>1. \A p \in Objects : heap'[p].attempts = <<>> \/ heap'[p].attempts = heap[p].attempts
    BY <1>2, <1>4, <1>7, GarbageFacts
  <2>2. \A v \in Workers : held[v] # Nobody => heap'[held[v]] = heap[held[v]]
    BY <1>4, <1>5, <1>7, WorkerFacts
  <2>3. \A v \in Workers : pc[v] \in Started => held[v] # Nobody
    BY DEF AInv, Holding, Started
  <2> QED BY <1>2, <1>7, <2>1, <2>2, <2>3 DEF Quiet
<1> QED BY <1>8, <1>9, <1>10, <1>11, <1>12, QuietKeeps DEF AInv

LEMMA GetKeeps ==
  ASSUME AInv, NEW w \in Workers, NEW next \in Places \ (Started \cup {"idle"}), Get(w, next),
         deployment' = deployment
  PROVE  AInv'
<1>1. /\ Free(w) /\ pc[w] = "idle" /\ pc' = [pc EXCEPT ![w] = next] /\ bound # Nobody
      /\ UNCHANGED <<attempt, evidence, execution, executions, creations>>
  BY DEF Get, Moves, History
<1>2. \E o \in Objects, h \in [Objects -> Record] :
        /\ Become(h, bound, [held EXCEPT ![w] = o])
        /\ \A p \in Objects \ {o} : h[p] = heap[p]
        /\ h[o] = heap[bound]
        /\ IF Durable THEN o \in Unused ELSE o = bound
  <2>1. CASE Durable
    <3>1. PICK o \in Unused : Become([heap EXCEPT ![o] = heap[bound]], bound,
                                     [held EXCEPT ![w] = o])
      BY <2>1 DEF Get
    <3> DEFINE h == [heap EXCEPT ![o] = heap[bound]]
    <3>2. o \in Objects /\ heap[bound] \in Record /\ heap \in [Objects -> Record]
      BY <1>1, WorkerFacts DEF Unused
    <3>3. h \in [Objects -> Record] /\ h[o] = heap[bound] /\ \A p \in Objects \ {o} : h[p] = heap[p]
      BY <3>2
    <3> HIDE DEF h
    <3>4. Become(h, bound, [held EXCEPT ![w] = o])
      BY <3>1 DEF h
    <3> QED BY <2>1, <3>1, <3>2, <3>3, <3>4
  <2>2. CASE ~Durable
    BY <1>1, <2>2, WorkerFacts DEF Get
  <2> QED BY <2>1, <2>2
<1>3. PICK o \in Objects, h \in [Objects -> Record] :
        /\ Become(h, bound, [held EXCEPT ![w] = o])
        /\ \A p \in Objects \ {o} : h[p] = heap[p]
        /\ h[o] = heap[bound]
        /\ IF Durable THEN o \in Unused ELSE o = bound
  BY <1>2
<1> DEFINE refs == [held EXCEPT ![w] = o]
<1>4. refs \in [Workers -> Objects \cup {Nobody}] /\ refs[w] = o
      /\ \A v \in Workers \ {w} : refs[v] = held[v]
  BY WorkerFacts
<1> HIDE DEF refs
<1>5. /\ heap' \in [Objects -> Record] /\ bound' = bound /\ held' = refs
      /\ \A p \in Objects : heap'[p] = h[p] \/ heap'[p] = Garbage
      /\ \A v \in Workers : refs[v] # Nobody => heap'[refs[v]] = h[refs[v]]
  <2>1. Become(h, bound, refs)
    BY <1>3 DEF refs
  <2>2. bound \in Objects \cup {Nobody}
    BY WorkerFacts
  <2> QED BY <1>4, <2>1, <2>2, BecomeFacts
<1>6. \A v \in Workers \ {w} : pc'[v] = pc[v]
  BY <1>1, WorkerFacts
<1>7. pc'[w] = next /\ pc' \in [Workers -> Places]
  BY <1>1, WorkerFacts
<1>8. TypeOK'
  BY <1>1, <1>4, <1>5, <1>7 DEF AInv, TypeOK
<1>9. Holding'
  BY <1>1, <1>4, <1>5, <1>6, <1>7, WorkerFacts DEF AInv, Holding
<1>10. Apart'
  BY <1>3, <1>4, <1>5 DEF AInv, Apart, Durable, Unused
<1>11. OneAtATime'
  BY <1>1, <1>6, FreeIsAlone DEF OneAtATime, Sequential
<1>12. Quiet
  <2>1. \A p \in Objects : \/ heap'[p].attempts = <<>>
                           \/ \E q \in Objects : heap'[p].attempts = heap[q].attempts
    BY <1>1, <1>3, <1>5, GarbageFacts, WorkerFacts, ServiceAssumption DEF ServiceAssumption
  <2>2. \A v \in Workers \ {w} : held[v] # Nobody => heap'[held[v]].attempts = heap[held[v]].attempts
    BY <1>3, <1>4, <1>5, WorkerFacts DEF Unused
  <2>3. \A v \in Workers : pc'[v] \in Started => v # w /\ pc[v] \in Started /\ held[v] # Nobody
    BY <1>6, <1>7 DEF AInv, Holding, Started
  <2> QED BY <1>1, <1>4, <1>5, <2>1, <2>2, <2>3 DEF Quiet
<1> QED BY <1>8, <1>9, <1>10, <1>11, <1>12, QuietKeeps DEF AInv

\* Nothing changes hands while a worker goes on from one place to the next.
LEMMA StayKeeps ==
  ASSUME AInv, NEW w \in Workers, NEW next \in Places \ {"idle"}, pc[w] # "idle",
         pc' = [pc EXCEPT ![w] = next], bound' = bound, held' = held,
         deployment' = deployment
  PROVE  /\ Holding' /\ Apart' /\ OneAtATime'
         /\ pc' \in [Workers -> Places] /\ pc'[w] = next
         /\ \A v \in Workers \ {w} : pc'[v] = pc[v]
<1>1. pc' \in [Workers -> Places] /\ pc'[w] = next /\ \A v \in Workers \ {w} : pc'[v] = pc[v]
  BY WorkerFacts
<1>2. Holding'
  BY <1>1 DEF AInv, Holding
<1>3. Apart'
  BY DEF AInv, Apart, Durable
<1>4. OneAtATime'
  BY <1>1 DEF AInv, OneAtATime, Sequential
<1> QED BY <1>1, <1>2, <1>3, <1>4

\* A worker that neither records an attempt nor begins one.
LEMMA BusyKeeps ==
  ASSUME AInv, NEW w \in Workers, NEW next \in Places \ {"idle"}, pc[w] # "idle",
         pc' = [pc EXCEPT ![w] = next], bound' = bound, held' = held,
         deployment' = deployment, executions' = executions, TypeOK',
         \A o \in Objects : heap'[o].attempts = heap[o].attempts,
         \A v \in Workers \ {w} : attempt'[v] = attempt[v] /\ execution'[v] = execution[v],
         next \in Started => /\ pc[w] \in Started
                             /\ attempt'[w] = attempt[w] /\ execution'[w] = execution[w]
  PROVE  AInv'
<1>1. /\ Holding' /\ Apart' /\ OneAtATime' /\ pc'[w] = next
      /\ \A v \in Workers \ {w} : pc'[v] = pc[v]
  BY StayKeeps
<1>2. \A v \in Workers : pc[v] \in Started => held[v] \in Objects
  BY WorkerFacts DEF Started
<1>3. Quiet
  BY <1>1, <1>2 DEF Quiet
<1> QED BY <1>1, <1>3, QuietKeeps DEF AInv

\* What a change to the record it holds leaves alone.
LEMMA MutateFacts ==
  ASSUME AInv, NEW w \in Workers, pc[w] # "idle", NEW record \in Record, Mutate(w, record)
  PROVE  /\ heap' \in [Objects -> Record] /\ heap'[held[w]] = record
         /\ \A o \in Objects \ {held[w]} : heap'[o] = heap[o]
         /\ bound' = bound /\ held' = held
  BY WorkerFacts DEF Mutate

LEMMA PlanKeeps ==
  ASSUME AInv, NEW w \in Workers, Plan(w), deployment' = deployment
  PROVE  AInv'
<1>1. /\ pc[w] = "planning" /\ pc' = [pc EXCEPT ![w] = "saving"]
      /\ UNCHANGED <<heap, bound, held, attempt, evidence, execution, executions, creations>>
  BY DEF Plan, Moves, History
<1>2. TypeOK'
  BY <1>1, WorkerFacts DEF AInv, TypeOK, Places
<1> QED BY <1>1, <1>2, BusyKeeps DEF Places, Started

LEMMA AllowKeeps ==
  ASSUME AInv, NEW w \in Workers, AllowPr(w), deployment' = deployment
  PROVE  AInv'
<1>1. /\ pc[w] = "gating" /\ pc' = [pc EXCEPT ![w] = "gated"]
      /\ UNCHANGED <<heap, bound, held, attempt, evidence, execution, executions, creations>>
  BY DEF AllowPr, Moves, History
<1>2. TypeOK'
  BY <1>1, WorkerFacts DEF AInv, TypeOK, Places
<1> QED BY <1>1, <1>2, BusyKeeps DEF Places, Started

LEMMA RunChainKeeps ==
  ASSUME AInv, NEW w \in Workers, RunChain(w), deployment' = deployment
  PROVE  AInv'
<1>1. /\ pc[w] = "running" /\ pc' = [pc EXCEPT ![w] = "ran"]
      /\ evidence' = [evidence EXCEPT ![attempt[w]] = execution[w]]
      /\ UNCHANGED <<heap, bound, held, attempt, execution, executions, creations>>
  BY DEF RunChain, Moves
<1>2. evidence' \in [1 .. MaxExecutions -> 0 .. MaxExecutions]
  BY <1>1 DEF AInv, TypeOK
<1>3. TypeOK'
  BY <1>1, <1>2, WorkerFacts DEF AInv, TypeOK, Places
<1> QED BY <1>1, <1>3, BusyKeeps DEF Places, Started

LEMMA VerifyKeeps ==
  ASSUME AInv, NEW w \in Workers, Verify(w), deployment' = deployment
  PROVE  AInv'
<1>1. /\ pc[w] = "verifying" /\ pc' = [pc EXCEPT ![w] = "saving"]
      /\ UNCHANGED <<attempt, evidence, execution, executions, creations>>
  BY DEF Verify, Moves, History
<1>2. PICK verdict \in Verdicts :
        Mutate(w, [heap[held[w]] EXCEPT !.verdict = verdict, !.state = "VERIFY"])
  BY DEF Verify, Verdicts
<1> DEFINE record == [heap[held[w]] EXCEPT !.verdict = verdict, !.state = "VERIFY"]
<1>3. record \in Record /\ record.attempts = heap[held[w]].attempts
  <2>1. heap[held[w]] \in Record
    BY <1>1, WorkerFacts
  <2> QED BY <2>1, VerdictEdit DEF States
<1>4. Mutate(w, record)
  BY <1>2
<1> HIDE DEF record
<1>5. /\ heap' \in [Objects -> Record] /\ bound' = bound /\ held' = held
      /\ \A o \in Objects : heap'[o].attempts = heap[o].attempts
  BY <1>1, <1>3, <1>4, MutateFacts
<1>6. TypeOK'
  BY <1>1, <1>5, WorkerFacts DEF AInv, TypeOK, Places
<1> QED BY <1>1, <1>5, <1>6, BusyKeeps DEF Places, Started

LEMMA MarkKeeps ==
  ASSUME AInv, NEW w \in Workers, MarkPr(w), deployment' = deployment
  PROVE  AInv'
<1>1. /\ pc[w] = "gated" /\ pc' = [pc EXCEPT ![w] = "saving"]
      /\ UNCHANGED <<attempt, evidence, execution, executions, creations>>
  BY DEF MarkPr, Moves, History
<1> DEFINE record == [heap[held[w]] EXCEPT !.state = "PR_GATE"]
<1>3. record \in Record /\ record.attempts = heap[held[w]].attempts
  <2>1. heap[held[w]] \in Record
    BY <1>1, WorkerFacts
  <2> QED BY <2>1, StateEdit DEF States
<1>4. Mutate(w, record)
  BY DEF MarkPr
<1> HIDE DEF record
<1>5. /\ heap' \in [Objects -> Record] /\ bound' = bound /\ held' = held
      /\ \A o \in Objects : heap'[o].attempts = heap[o].attempts
  BY <1>1, <1>3, <1>4, MutateFacts
<1>6. TypeOK'
  BY <1>1, <1>5, WorkerFacts DEF AInv, TypeOK, Places
<1> QED BY <1>1, <1>5, <1>6, BusyKeeps DEF Places, Started

\* What RefuseWorkspace and RecordAttempt forget.
LEMMA ForgetFacts ==
  ASSUME AInv, NEW w \in Workers, attempt' = [attempt EXCEPT ![w] = 0],
         execution' = [execution EXCEPT ![w] = 0]
  PROVE  /\ attempt' \in [Workers -> 0 .. MaxExecutions]
         /\ execution' \in [Workers -> 0 .. MaxExecutions]
         /\ \A v \in Workers \ {w} : attempt'[v] = attempt[v] /\ execution'[v] = execution[v]
<1>1. 0 \in 0 .. MaxExecutions
  BY ServiceAssumption DEF ServiceAssumption
<1> QED BY <1>1 DEF AInv, TypeOK

LEMMA RefuseKeeps ==
  ASSUME AInv, NEW w \in Workers, RefuseWorkspace(w), deployment' = deployment
  PROVE  AInv'
<1>1. /\ pc[w] \in {"executing", "running"} /\ pc' = [pc EXCEPT ![w] = "saving"]
      /\ UNCHANGED <<evidence, executions, creations>>
  BY DEF RefuseWorkspace, Moves
<1>2. /\ attempt' \in [Workers -> 0 .. MaxExecutions]
      /\ execution' \in [Workers -> 0 .. MaxExecutions]
      /\ \A v \in Workers \ {w} : attempt'[v] = attempt[v] /\ execution'[v] = execution[v]
  BY ForgetFacts DEF RefuseWorkspace
<1> DEFINE record == [heap[held[w]] EXCEPT !.state = "EXECUTE_CHAIN"]
<1>3. record \in Record /\ record.attempts = heap[held[w]].attempts
  <2>1. heap[held[w]] \in Record
    BY <1>1, WorkerFacts
  <2> QED BY <2>1, StateEdit DEF States
<1>4. Mutate(w, record)
  BY DEF RefuseWorkspace
<1> HIDE DEF record
<1>5. /\ heap' \in [Objects -> Record] /\ bound' = bound /\ held' = held
      /\ \A o \in Objects : heap'[o].attempts = heap[o].attempts
  BY <1>1, <1>3, <1>4, MutateFacts
<1>6. TypeOK'
  BY <1>1, <1>2, <1>5, WorkerFacts DEF AInv, TypeOK, Places
<1> QED BY <1>1, <1>2, <1>5, <1>6, BusyKeeps DEF Places, Started

\* A worker that lets go of its record. What it has is the only change to what is stored.
LEMMA DropKeeps ==
  ASSUME AInv, NEW w \in Workers, pc[w] # "idle", pc' = [pc EXCEPT ![w] = "idle"],
         NEW h \in [Objects -> Record], NEW b \in Objects, bound # Nobody,
         Become(h, b, [held EXCEPT ![w] = Nobody]),
         \A o \in Objects : h[o] = heap[o] \/ h[o] = heap[held[w]],
         \A o \in Objects : o # bound => h[o] = heap[o],
         h[bound] = heap[bound] \/ Durable,
         Durable => b = bound,
         deployment' = deployment, executions' = executions, creations' = creations,
         evidence' = evidence,
         attempt' \in [Workers -> 0 .. MaxExecutions],
         execution' \in [Workers -> 0 .. MaxExecutions],
         \A v \in Workers \ {w} : attempt'[v] = attempt[v] /\ execution'[v] = execution[v]
  PROVE  AInv'
<1> DEFINE refs == [held EXCEPT ![w] = Nobody]
<1>1. refs \in [Workers -> Objects \cup {Nobody}] /\ refs[w] = Nobody
      /\ \A v \in Workers \ {w} : refs[v] = held[v]
  BY WorkerFacts
<1> HIDE DEF refs
<1>2. /\ heap' \in [Objects -> Record] /\ bound' = b /\ held' = refs
      /\ \A o \in Objects : heap'[o] = h[o] \/ heap'[o] = Garbage
      /\ \A v \in Workers : refs[v] # Nobody => heap'[refs[v]] = h[refs[v]]
  <2>1. Become(h, b, refs)
    BY DEF refs
  <2> QED BY <1>1, <2>1, BecomeFacts
<1>3. /\ pc' \in [Workers -> Places] /\ pc'[w] = "idle"
      /\ \A v \in Workers \ {w} : pc'[v] = pc[v]
  BY WorkerFacts DEF Places
<1>4. TypeOK'
  BY <1>1, <1>2, <1>3 DEF AInv, TypeOK
<1>5. Holding'
  BY <1>1, <1>2, <1>3, WorkerFacts DEF AInv, Holding
<1>6. Apart'
  BY <1>1, <1>2 DEF AInv, Apart, Durable
<1>7. OneAtATime'
  BY <1>3 DEF AInv, OneAtATime, Sequential
<1>8. Quiet
  <2>1. \A o \in Objects : \/ heap'[o].attempts = <<>>
                           \/ \E p \in Objects : heap'[o].attempts = heap[p].attempts
    <3>1. \A o \in Objects : heap'[o] = Garbage \/ heap'[o] = heap[o] \/ heap'[o] = heap[held[w]]
      BY <1>2
    <3>2. Garbage.attempts = <<>> /\ held[w] \in Objects
      BY GarbageFacts, WorkerFacts, ServiceAssumption DEF ServiceAssumption
    <3> QED BY <3>1, <3>2
  <2>2. \A v \in Workers \ {w} : held[v] # Nobody => h[held[v]] = heap[held[v]]
    BY WorkerFacts DEF AInv, Apart
  <2>3. \A v \in Workers \ {w} : held[v] # Nobody => heap'[held[v]] = heap[held[v]]
    BY <1>1, <1>2, <2>2
  <2>4. \A v \in Workers : pc'[v] \in Started => v # w /\ pc[v] \in Started /\ held[v] # Nobody
    BY <1>3 DEF AInv, Holding, Started
  <2> QED BY <1>1, <1>2, <2>1, <2>3, <2>4 DEF Quiet
<1> QED BY <1>4, <1>5, <1>6, <1>7, <1>8, QuietKeeps DEF AInv

LEMMA SaveKeeps ==
  ASSUME AInv, NEW w \in Workers, Save(w), deployment' = deployment
  PROVE  AInv'
<1> DEFINE h == IF Durable THEN [heap EXCEPT ![bound] = heap[held[w]]] ELSE heap
           b == IF Durable THEN bound ELSE held[w]
<1>1. /\ pc[w] = "saving" /\ pc' = [pc EXCEPT ![w] = "idle"]
      /\ UNCHANGED <<attempt, evidence, execution, executions, creations>>
  BY DEF Save, Moves, History
<1>2. bound \in Objects /\ held[w] \in Objects /\ bound # Nobody /\ heap \in [Objects -> Record]
  BY <1>1, WorkerFacts DEF AInv, Holding
<1>3. Become(h, b, [held EXCEPT ![w] = Nobody])
  BY <1>2 DEF Save
<1>4. /\ h \in [Objects -> Record] /\ b \in Objects
      /\ \A o \in Objects : h[o] = heap[o] \/ h[o] = heap[held[w]]
      /\ \A o \in Objects : o # bound => h[o] = heap[o]
      /\ h[bound] = heap[bound] \/ Durable
      /\ Durable => b = bound
  BY <1>2
<1>5. attempt \in [Workers -> 0 .. MaxExecutions] /\ execution \in [Workers -> 0 .. MaxExecutions]
  BY DEF AInv, TypeOK
<1> HIDE DEF h, b
<1> QED BY <1>1, <1>2, <1>3, <1>4, <1>5, DropKeeps

LEMMA AbandonKeeps ==
  ASSUME AInv, NEW w \in Workers, Abandon(w), deployment' = deployment
  PROVE  AInv'
<1>1. /\ pc[w] # "idle" /\ pc' = [pc EXCEPT ![w] = "idle"]
      /\ Become(heap, bound, [held EXCEPT ![w] = Nobody])
      /\ UNCHANGED <<evidence, executions, creations>>
  BY DEF Abandon
<1>2. /\ attempt' \in [Workers -> 0 .. MaxExecutions]
      /\ execution' \in [Workers -> 0 .. MaxExecutions]
      /\ \A v \in Workers \ {w} : attempt'[v] = attempt[v] /\ execution'[v] = execution[v]
  BY ForgetFacts DEF Abandon
<1>3. bound \in Objects /\ bound # Nobody /\ heap \in [Objects -> Record]
  BY <1>1, WorkerFacts DEF AInv, Holding
<1> QED BY <1>1, <1>2, <1>3, DropKeeps

LEMMA RestartKeeps ==
  ASSUME AInv, Restart, deployment' = deployment
  PROVE  AInv'
<1> DEFINE b == IF Durable THEN bound ELSE Nobody
           refs == [w \in Workers |-> Nobody]
<1>1. heap \in [Objects -> Record] /\ b \in Objects \cup {Nobody}
      /\ refs \in [Workers -> Objects \cup {Nobody}] /\ Become(heap, b, refs)
  BY DEF AInv, TypeOK, Restart
<1>2. /\ heap' \in [Objects -> Record] /\ bound' = b /\ held' = refs
      /\ \A o \in Objects : heap'[o] = heap[o] \/ heap'[o] = Garbage
  <2> HIDE DEF b, refs
  <2> QED BY <1>1, BecomeFacts
<1>3. /\ pc' = [w \in Workers |-> "idle"]
      /\ attempt' = [w \in Workers |-> 0] /\ execution' = [w \in Workers |-> 0]
      /\ UNCHANGED <<evidence, executions, creations>>
  BY DEF Restart
<1>4. 0 \in 0 .. MaxExecutions
  BY ServiceAssumption DEF ServiceAssumption
<1>5. TypeOK'
  BY <1>1, <1>2, <1>3, <1>4 DEF AInv, TypeOK, Places
<1>6. \A w \in Workers : pc'[w] = "idle" /\ held'[w] = Nobody
  BY <1>2, <1>3
<1>7. Quiet
  BY <1>2, <1>3, <1>6, GarbageFacts, ServiceAssumption DEF Quiet, Started, ServiceAssumption
<1> QED BY <1>5, <1>6, <1>7, QuietKeeps DEF AInv, Holding, Apart, OneAtATime, Started

LEMMA AllocateKeeps ==
  ASSUME AInv, NEW w \in Workers, Allocate(w), deployment' = deployment
  PROVE  AInv'
<1> DEFINE n == Len(heap[held[w]].attempts)
<1>1. /\ pc[w] = "executing" /\ pc' = [pc EXCEPT ![w] = "running"] /\ executions < MaxExecutions
      /\ attempt' = [attempt EXCEPT ![w] = n + 1]
      /\ executions' = executions + 1
      /\ execution' = [execution EXCEPT ![w] = executions + 1]
      /\ UNCHANGED <<heap, bound, held, evidence, creations>>
  BY DEF Allocate, Moves
<1>2. held[w] \in Objects /\ heap[held[w]] \in Record /\ Good(heap[held[w]])
  BY <1>1, WorkerFacts DEF AInv
<1>3. executions \in Nat /\ MaxExecutions \in Nat
  BY WorkerFacts, ServiceAssumption DEF ServiceAssumption
<1>4. n <= executions
  BY <1>2, <1>3, AttemptsAreExecutions
<1>5. n \in Nat
  BY <1>2 DEF Record
<1> HIDE DEF n
<1>6. /\ n + 1 \in 1 .. MaxExecutions /\ executions + 1 \in 1 .. MaxExecutions
  BY <1>1, <1>3, <1>4, <1>5
<1>7. /\ Holding' /\ Apart' /\ OneAtATime' /\ pc'[w] = "running"
      /\ pc' \in [Workers -> Places]
      /\ \A v \in Workers \ {w} : pc'[v] = pc[v]
  BY <1>1, StayKeeps DEF Places
<1>8. /\ attempt' \in [Workers -> 0 .. MaxExecutions] /\ execution' \in [Workers -> 0 .. MaxExecutions]
      /\ attempt'[w] = n + 1 /\ execution'[w] = executions + 1
      /\ \A v \in Workers \ {w} : attempt'[v] = attempt[v] /\ execution'[v] = execution[v]
  BY <1>1, <1>6 DEF AInv, TypeOK
<1>9. TypeOK'
  BY <1>1, <1>6, <1>7, <1>8 DEF AInv, TypeOK
<1>10. InTurn' <=> InTurn
  BY DEF InTurn, Durable, Sequential
<1>11. ASSUME NEW o \in Objects
       PROVE  Good(heap[o])' /\ Lacks(heap[o], executions + 1)
  <2>1. Good(heap[o]) /\ heap' = heap
    BY <1>1 DEF AInv
  <2>2. \A i \in DOMAIN heap[o].attempts : heap[o].attempts[i].execution \in 1 .. MaxExecutions
    BY WorkerFacts, SeqEntries
  <2> QED BY <1>1, <1>3, <1>10, <2>1, <2>2 DEF Good, Lacks
<1>12. ASSUME NEW v \in Workers, v # w, pc'[v] \in Started
       PROVE  Fits(v)'
  <2>1. Fits(v)
    BY <1>7, <1>12 DEF AInv
  <2>2. execution[v] # executions + 1
    BY <1>3, <2>1 DEF Fits
  <2>3. \A u \in Workers : pc'[u] \in Started /\ execution'[u] = execution'[v] => u = v
    BY <1>7, <1>8, <1>12, <2>1, <2>2 DEF Fits
  <2>4. execution[v] \in 1 .. (executions + 1)
    BY <1>3, <2>1 DEF Fits
  <2>5. \A o \in Objects : Lacks(heap[o], execution[v])
    BY <2>1 DEF Fits
  <2> QED BY <1>1, <1>8, <1>10, <1>12, <2>1, <2>3, <2>4, <2>5 DEF Fits, Lacks
<1>13. Fits(w)'
  <2>1. \A u \in Workers : pc'[u] \in Started /\ execution'[u] = execution'[w] => u = w
    <3>1. SUFFICES ASSUME NEW u \in Workers, pc'[u] \in Started, execution'[u] = execution'[w], u # w
                   PROVE  FALSE
      OBVIOUS
    <3>2. Fits(u)
      BY <1>7, <3>1 DEF AInv
    <3> QED BY <1>3, <1>8, <3>1, <3>2 DEF Fits
  <2>2. /\ (executions + 1 \in 1 .. executions + 1)
        /\ \A o \in Objects : Lacks(heap[o], executions + 1)
    BY <1>3, <1>11
  <2>3. (\A o \in Objects : Lacks(heap[o], execution[w]))'
    BY <1>1, <1>8, <2>2 DEF Lacks
  <2>4. Len(heap'[held'[w]].attempts) = n
    BY <1>1 DEF n
  <2> QED BY <1>1, <1>6, <1>8, <2>1, <2>2, <2>3, <2>4 DEF Fits
<1> QED BY <1>7, <1>9, <1>11, <1>12, <1>13 DEF AInv

LEMMA RecordEdit ==
  ASSUME NEW r \in Record,
         NEW a \in Seq([number : 1 .. MaxExecutions, execution : 1 .. MaxExecutions])
  PROVE  /\ [r EXCEPT !.attempts = a, !.state = "EXECUTE_CHAIN"] \in Record
         /\ [r EXCEPT !.attempts = a, !.state = "EXECUTE_CHAIN"].attempts = a
         /\ [r EXCEPT !.attempts = a, !.state = "EXECUTE_CHAIN"].creation = r.creation
<1>1. "EXECUTE_CHAIN" \in States
  BY DEF States
<1> QED BY <1>1 DEF Record

\* What RecordAttempt makes of the record.
LEMMA RecordFacts ==
  ASSUME AInv, NEW w \in Workers, RecordAttempt(w)
  PROVE  LET old == heap[held[w]].attempts
             new == heap'[held[w]].attempts
             entry == [number |-> attempt[w], execution |-> execution[w]]
         IN  /\ heap' \in [Objects -> Record]
             /\ heap'[held[w]].creation = heap[held[w]].creation
             /\ \A o \in Objects \ {held[w]} : heap'[o] = heap[o]
             /\ bound' = bound /\ held' = held
             /\ new = Append(old, entry)
             /\ Len(old) \in Nat /\ DOMAIN old = 1 .. Len(old)
             /\ Len(new) = Len(old) + 1 /\ DOMAIN new = 1 .. Len(old) + 1
             /\ new[Len(old) + 1] = entry
             /\ \A i \in 1 .. Len(old) : new[i] = old[i]
<1> DEFINE old == heap[held[w]]
           entry == [number |-> attempt[w], execution |-> execution[w]]
           s == old.attempts
           entries == [number : 1 .. MaxExecutions, execution : 1 .. MaxExecutions]
           record == [old EXCEPT !.attempts = Append(@, entry), !.state = "EXECUTE_CHAIN"]
<1>1. pc[w] = "ran"
  BY DEF RecordAttempt, Moves
<1>2. /\ held[w] \in Objects /\ old \in Record /\ Fits(w)
      /\ executions \in 0 .. MaxExecutions /\ MaxExecutions \in Nat
  BY <1>1, WorkerFacts, ServiceAssumption DEF AInv, Started, ServiceAssumption
<1>3. attempt[w] \in 1 .. MaxExecutions /\ execution[w] \in 1 .. MaxExecutions
  BY <1>2 DEF Fits
<1>4. entry \in entries
  BY <1>3
<1> HIDE DEF entry
<1>5. s \in Seq(entries)
  BY <1>2 DEF Record
<1> HIDE DEF entries
<1>6. Append(s, entry) \in Seq(entries)
  BY <1>4, <1>5
<1>7. record \in Record /\ record.attempts = Append(s, entry) /\ record.creation = old.creation
  BY <1>2, <1>6, RecordEdit DEF entries
<1>8. Mutate(w, record)
  BY DEF RecordAttempt, entry
<1> HIDE DEF record
<1>9. /\ heap' \in [Objects -> Record] /\ heap'[held[w]] = record
      /\ \A o \in Objects \ {held[w]} : heap'[o] = heap[o]
      /\ bound' = bound /\ held' = held
  BY <1>1, <1>7, <1>8, MutateFacts
<1>10. /\ Len(s) \in Nat /\ DOMAIN s = 1 .. Len(s)
       /\ Len(Append(s, entry)) = Len(s) + 1
       /\ DOMAIN Append(s, entry) = 1 .. Len(s) + 1
       /\ Append(s, entry)[Len(s) + 1] = entry
       /\ \A i \in 1 .. Len(s) : Append(s, entry)[i] = s[i]
  <2> HIDE DEF s
  <2> QED BY <1>4, <1>5
<1> QED BY <1>7, <1>9, <1>10 DEF entry

LEMMA RecordKeeps ==
  ASSUME AInv, NEW w \in Workers, RecordAttempt(w), deployment' = deployment
  PROVE  AInv'
<1> DEFINE old == heap[held[w]]
           entry == [number |-> attempt[w], execution |-> execution[w]]
           new == heap'[held[w]]
<1>1. /\ pc[w] = "ran" /\ pc' = [pc EXCEPT ![w] = "saving"]
      /\ UNCHANGED <<evidence, executions, creations>>
  BY DEF RecordAttempt, Moves
<1>2. /\ attempt' \in [Workers -> 0 .. MaxExecutions]
      /\ execution' \in [Workers -> 0 .. MaxExecutions]
      /\ \A v \in Workers \ {w} : attempt'[v] = attempt[v] /\ execution'[v] = execution[v]
  BY ForgetFacts DEF RecordAttempt
<1>3. /\ held[w] \in Objects /\ old \in Record /\ Good(old) /\ Fits(w)
      /\ executions \in 0 .. MaxExecutions /\ MaxExecutions \in Nat
  BY <1>1, WorkerFacts, ServiceAssumption DEF AInv, Started, ServiceAssumption
<1>4. /\ entry.number = attempt[w] /\ entry.execution = execution[w]
      /\ attempt[w] \in 1 .. MaxExecutions /\ execution[w] \in 1 .. executions
  BY <1>3 DEF Fits
<1>6. /\ Len(old.attempts) \in Nat /\ DOMAIN old.attempts = 1 .. Len(old.attempts)
      /\ Len(new.attempts) = Len(old.attempts) + 1
      /\ DOMAIN new.attempts = 1 .. Len(old.attempts) + 1
      /\ new.attempts[Len(old.attempts) + 1] = entry
      /\ \A i \in DOMAIN old.attempts : new.attempts[i] = old.attempts[i]
  <2> DEFINE e == [number |-> attempt[w], execution |-> execution[w]]
  <2> HIDE DEF e
  <2>1. /\ Len(old.attempts) \in Nat /\ DOMAIN old.attempts = 1 .. Len(old.attempts)
        /\ Len(new.attempts) = Len(old.attempts) + 1
        /\ DOMAIN new.attempts = 1 .. Len(old.attempts) + 1
        /\ new.attempts[Len(old.attempts) + 1] = e
        /\ \A i \in 1 .. Len(old.attempts) : new.attempts[i] = old.attempts[i]
    BY RecordFacts, Zenon DEF e
  <2> QED BY <2>1, Zenon DEF e
<1>8. /\ heap' \in [Objects -> Record]
      /\ \A o \in Objects \ {held[w]} : heap'[o] = heap[o]
      /\ bound' = bound /\ held' = held
  BY RecordFacts
<1> HIDE DEF entry, new
<1>9. /\ Holding' /\ Apart' /\ OneAtATime' /\ pc'[w] = "saving"
      /\ pc' \in [Workers -> Places]
      /\ \A v \in Workers \ {w} : pc'[v] = pc[v]
  BY <1>1, <1>8, StayKeeps DEF Places
<1>10. TypeOK'
  BY <1>1, <1>2, <1>8, <1>9 DEF AInv, TypeOK
<1>11. InTurn' <=> InTurn
  BY DEF InTurn, Durable, Sequential
<1>12. Good(heap[held[w]])'
  <2> DEFINE n == Len(old.attempts)
  <2>1. /\ entry.number <= n + 1
        /\ InTurn => entry.number = n + 1
        /\ entry.execution <= executions
        /\ \A i \in 1 .. n : old.attempts[i].execution # entry.execution
    BY <1>3, <1>4, <1>6 DEF Fits, Lacks
  <2>2. \A i \in 1 .. n : /\ old.attempts[i].number <= i
                          /\ InTurn => old.attempts[i].number = i
                          /\ old.attempts[i].execution <= executions
                          /\ \A j \in 1 .. n : old.attempts[i].execution = old.attempts[j].execution => i = j
    BY <1>3, <1>6 DEF Good
  <2>3. /\ n \in Nat /\ DOMAIN new.attempts = 1 .. n + 1
        /\ new.attempts[n + 1] = entry
        /\ \A i \in 1 .. n : new.attempts[i] = old.attempts[i]
    BY <1>6
  <2> HIDE DEF n, old
  <2>4. \A i \in 1 .. n + 1 : i \in 1 .. n \/ i = n + 1
    BY <2>3
  <2>5. \A i \in 1 .. n + 1 :
          /\ new.attempts[i].number <= i
          /\ InTurn => new.attempts[i].number = i
          /\ new.attempts[i].execution <= executions
    BY <2>1, <2>2, <2>3, <2>4
  <2>6. \A i, j \in 1 .. n + 1 :
          new.attempts[i].execution = new.attempts[j].execution => i = j
    BY <2>1, <2>2, <2>3, <2>4
  <2>7. Good(new)
    BY <2>3, <2>5, <2>6 DEF Good
  <2>8. heap'[held'[w]] = new /\ executions' = executions
    BY <1>1, <1>8 DEF new
  <2> QED BY <1>11, <2>7, <2>8 DEF Good
<1>13. \A o \in Objects : Good(heap[o])'
  <2>1. ASSUME NEW o \in Objects, o # held[w] PROVE Good(heap[o])'
    <3>1. Good(heap[o]) /\ heap'[o] = heap[o] /\ executions' = executions
      BY <1>1, <1>8, <2>1 DEF AInv
    <3> QED BY <1>11, <3>1 DEF Good
  <2>2. held'[w] = held[w]
    BY <1>8
  <2> QED BY <1>12, <2>1, <2>2
<1>14. ASSUME NEW v \in Workers, pc'[v] \in Started
       PROVE  Fits(v)'
  <2>1. v # w /\ pc[v] \in Started /\ Fits(v) /\ held[v] \in Objects
    BY <1>9, <1>14, WorkerFacts DEF AInv, Started
  <2>2. attempt'[v] = attempt[v] /\ execution'[v] = execution[v] /\ held'[v] = held[v]
    BY <1>2, <1>8, <2>1
  <2>3. \A u \in Workers : pc'[u] \in Started => u # w /\ pc[u] \in Started /\ execution'[u] = execution[u]
    BY <1>2, <1>9 DEF Started
  <2>4. \A o \in Objects : Lacks(heap'[o], execution[v])
    <3>1. execution[v] # execution[w]
      BY <1>1, <1>3, <2>1 DEF Fits, Started
    <3>2. Lacks(new, execution[v])
      <4>1. \A i \in DOMAIN new.attempts : i \in DOMAIN old.attempts \/ new.attempts[i] = entry
        BY <1>6
      <4>2. Lacks(old, execution[v]) /\ entry.execution = execution[w]
        BY <1>3, <2>1 DEF Fits, entry
      <4> QED BY <1>6, <3>1, <4>1, <4>2 DEF Lacks
    <3> QED BY <1>8, <2>1, <3>2 DEF Fits, new
  <2>5. /\ Len(heap[held[v]].attempts) \in Nat
        /\ Len(heap'[held[v]].attempts) \in Nat
        /\ Len(heap[held[v]].attempts) <= Len(heap'[held[v]].attempts)
        /\ InTurn => Len(heap[held[v]].attempts) = Len(heap'[held[v]].attempts)
    <3>1. CASE held[v] # held[w]
      <4>1. heap'[held[v]] = heap[held[v]] /\ heap[held[v]] \in Record
        BY <1>8, <2>1, <3>1, WorkerFacts
      <4>2. Len(heap[held[v]].attempts) \in Nat
        BY <4>1, SeqEntries
      <4> QED BY <4>1, <4>2
    <3>2. CASE held[v] = held[w]
      <4>1. ~InTurn
        BY <1>1, <1>3, <2>1, <3>2, WorkerFacts
           DEF AInv, Apart, OneAtATime, InTurn, Started
      <4> QED BY <1>6, <1>8, <3>2, <4>1 DEF new
    <3> QED BY <3>1, <3>2
  <2>6. (\A o \in Objects : Lacks(heap[o], execution[v]))'
    BY <2>2, <2>4 DEF Lacks
  <2>7. attempt[v] \in Nat /\ attempt[v] <= Len(heap'[held[v]].attempts) + 1
        /\ (InTurn => attempt[v] = Len(heap'[held[v]].attempts) + 1)
    <3>1. /\ attempt[v] \in 1 .. MaxExecutions
          /\ attempt[v] <= Len(heap[held[v]].attempts) + 1
          /\ InTurn => attempt[v] = Len(heap[held[v]].attempts) + 1
      BY <2>1 DEF Fits
    <3>2. attempt[v] \in Nat
      BY <1>3, <3>1
    <3> HIDE DEF old
    <3> QED BY <2>5, <3>1, <3>2
  <2>8. \A u \in Workers : pc'[u] \in Started /\ execution'[u] = execution'[v] => u = v
    BY <2>1, <2>2, <2>3 DEF Fits
  <2>9. execution[v] \in 1 .. executions /\ attempt[v] \in 1 .. MaxExecutions
    BY <2>1 DEF Fits
  <2> QED BY <1>1, <1>11, <2>2, <2>6, <2>7, <2>8, <2>9 DEF Fits
<1> QED BY <1>9, <1>10, <1>13, <1>14 DEF AInv

LEMMA AInvStep == AInv /\ [Next]_vars => AInv'
<1> SUFFICES ASSUME AInv, [Next]_vars PROVE AInv'
  OBVIOUS
<1>1. CASE UNCHANGED vars
  <2>1. /\ UNCHANGED <<deployment, heap, bound, held, pc, attempt, evidence>>
        /\ UNCHANGED <<execution, executions, creations>>
    BY <1>1 DEF vars
  <2>2. TypeOK' /\ Holding' /\ Apart' /\ OneAtATime'
    BY <2>1 DEF AInv, TypeOK, Holding, Apart, OneAtATime, Durable, Sequential
  <2>3. Quiet
    BY <2>1 DEF Quiet
  <2> QED BY <2>2, <2>3, QuietKeeps DEF AInv
<1>2. CASE Next
  <2>1. deployment' = deployment
    BY <1>2 DEF Next
  <2>2. CASE Restart
    BY <2>1, <2>2, RestartKeeps
  <2>3. ASSUME NEW w \in Workers, Serve(w) PROVE AInv'
    <3>1. CASE CreateRun(w)
      BY <2>1, <3>1, CreateKeeps
    <3>2. CASE BeginPlan(w) \/ BeginExecute(w) \/ BeginVerify(w) \/ BeginPr(w)
      <4>1. PICK next \in {"planning", "executing", "verifying", "gating"} : Get(w, next)
        BY <3>2 DEF BeginPlan, BeginExecute, BeginVerify, BeginPr
      <4>2. next \in Places \ (Started \cup {"idle"})
        BY DEF Places, Started
      <4> QED BY <2>1, <4>1, <4>2, GetKeeps
    <3>3. CASE Plan(w)
      BY <2>1, <3>3, PlanKeeps
    <3>4. CASE Allocate(w)
      BY <2>1, <3>4, AllocateKeeps
    <3>5. CASE RefuseWorkspace(w)
      BY <2>1, <3>5, RefuseKeeps
    <3>6. CASE RunChain(w)
      BY <2>1, <3>6, RunChainKeeps
    <3>7. CASE RecordAttempt(w)
      BY <2>1, <3>7, RecordKeeps
    <3>8. CASE Verify(w)
      BY <2>1, <3>8, VerifyKeeps
    <3>9. CASE AllowPr(w)
      BY <2>1, <3>9, AllowKeeps
    <3>10. CASE MarkPr(w)
      BY <2>1, <3>10, MarkKeeps
    <3>11. CASE Save(w)
      BY <2>1, <3>11, SaveKeeps
    <3>12. CASE Abandon(w)
      BY <2>1, <3>12, AbandonKeeps
    <3> QED BY <2>3, <3>1, <3>2, <3>3, <3>4, <3>5, <3>6, <3>7, <3>8, <3>9, <3>10, <3>11,
               <3>12 DEF Serve
  <2> QED BY <1>2, <2>2, <2>3 DEF Next
<1> QED BY <1>1, <1>2

THEOREM AInvHolds == Spec => []AInv
<1> QED BY AInvInit, AInvStep, PTL DEF Spec

\* TypeOK, for every deployment and any number of threads and attempts.
THEOREM TypeCorrect == Spec => []TypeOK
<1>1. AInv => TypeOK
  BY DEF AInv
<1> QED BY <1>1, AInvHolds, PTL

\* An attempt is never numbered beyond its place (WorkspaceAllocator.allocate), whatever
\* overlaps, fails or restarts.
THEOREM NumberedWithin == Spec => []NumberedWithinPlace
<1>1. AInv => NumberedWithinPlace
  BY DEF AInv, TypeOK, NumberedWithinPlace, Stored, Good
<1> QED BY <1>1, AInvHolds, PTL

\* The attempts are numbered 1, 2, ... on the durable repository, and in memory one
\* request at a time.
THEOREM Numbered == Spec => []AttemptsAreNumbered
<1>1. AInv => AttemptsAreNumbered
  BY DEF AInv, TypeOK, AttemptsAreNumbered, Stored, Good, InTurn
<1> QED BY <1>1, AInvHolds, PTL

------------------------------------------------------------------------------
(***************************************************************************)
(* One request at a time, what is on disk under an attempt's number is what *)
(* the record says of it.  Inductive with what is known of the request at  *)
(* work: until it saves, its record has the attempts that are stored.      *)
(***************************************************************************)
Intact(record) ==
  \A i \in DOMAIN record.attempts :
    evidence[record.attempts[i].number] = record.attempts[i].execution

EInv ==
  Sequential /\ bound # Nobody =>
    /\ Intact(heap[bound])
    /\ \A w \in Workers : pc[w] # "idle" =>
         /\ Intact(heap[held[w]])
         /\ IsPrefixOf(heap[bound].attempts, heap[held[w]].attempts)
         /\ pc[w] # "saving" => heap[held[w]].attempts = heap[bound].attempts
         /\ pc[w] = "ran" => evidence[attempt[w]] = execution[w]

LEMMA PrefixOfItself ==
  ASSUME NEW record \in Record
  PROVE  IsPrefixOf(record.attempts, record.attempts)
  BY SeqEntries DEF IsPrefixOf

\* A step after which nobody is at work keeps it if what is stored was in the record of
\* the one who was, or was stored before, or is nothing.
LEMMA IdleKeeps ==
  ASSUME AInv, EInv, deployment' = deployment, evidence' = evidence,
         Sequential => \A w \in Workers : pc'[w] = "idle",
         bound' # Nobody =>
           \/ heap'[bound'].attempts = <<>>
           \/ bound # Nobody /\ heap'[bound'].attempts = heap[bound].attempts
           \/ \E w \in Workers : /\ pc[w] # "idle" /\ bound # Nobody
                                 /\ heap'[bound'].attempts = heap[held[w]].attempts
  PROVE  EInv'
<1> SUFFICES ASSUME Sequential', bound' # Nobody
             PROVE  Intact(heap[bound])' /\ \A w \in Workers : pc'[w] = "idle"
  BY DEF EInv
<1>1. Sequential
  BY DEF Sequential
<1>2. CASE heap'[bound'].attempts = <<>>
  BY <1>1, <1>2 DEF Intact
<1>3. CASE bound # Nobody /\ heap'[bound'].attempts = heap[bound].attempts
  BY <1>1, <1>3 DEF EInv, Intact
<1>4. CASE \E w \in Workers : /\ pc[w] # "idle" /\ bound # Nobody
                              /\ heap'[bound'].attempts = heap[held[w]].attempts
  <2>1. PICK w \in Workers : /\ pc[w] # "idle" /\ bound # Nobody
                             /\ heap'[bound'].attempts = heap[held[w]].attempts
    BY <1>4
  <2>2. Intact(heap[held[w]])
    BY <1>1, <2>1 DEF EInv
  <2>3. Intact(heap[bound])'
    BY <2>1, <2>2 DEF Intact
  <2> QED BY <1>1, <2>3
<1>5. \/ heap'[bound'].attempts = <<>>
      \/ bound # Nobody /\ heap'[bound'].attempts = heap[bound].attempts
      \/ \E w \in Workers : /\ pc[w] # "idle" /\ bound # Nobody
                            /\ heap'[bound'].attempts = heap[held[w]].attempts
  OBVIOUS
<1> QED BY <1>2, <1>3, <1>4, <1>5

\* A step of the one at work that changes no attempts of any record.
LEMMA WorkKeeps ==
  ASSUME AInv, EInv, AInv', NEW w \in Workers, pc[w] # "idle", pc'[w] # "idle",
         deployment' = deployment, evidence' = evidence, bound' = bound, held' = held,
         pc'[w] # "ran", pc'[w] # "saving" => pc[w] # "saving",
         \A o \in Objects : heap'[o].attempts = heap[o].attempts
  PROVE  EInv'
<1> SUFFICES ASSUME Sequential, bound # Nobody, NEW v \in Workers, pc'[v] # "idle"
             PROVE  /\ Intact(heap[bound])' /\ Intact(heap[held[v]])'
                    /\ IsPrefixOf(heap[bound].attempts, heap[held[v]].attempts)'
                    /\ pc'[v] # "saving" => heap'[held[v]].attempts = heap'[bound].attempts
                    /\ pc'[v] # "ran"
  <2>1. Sequential' <=> Sequential
    BY DEF Sequential
  <2> QED BY <2>1 DEF EInv
<1>1. v = w
  BY DEF AInv, OneAtATime, Sequential
<1>2. bound \in Objects /\ held[w] \in Objects
  BY WorkerFacts
<1>3. Intact(heap[bound])' /\ Intact(heap[held[w]])'
  BY <1>2 DEF EInv, Intact
<1>4. IsPrefixOf(heap[bound].attempts, heap[held[w]].attempts)'
  <2>1. IsPrefixOf(heap[bound].attempts, heap[held[w]].attempts)
    BY DEF EInv
  <2>2. /\ heap'[bound'].attempts = heap[bound].attempts
        /\ heap'[held'[w]].attempts = heap[held[w]].attempts
    BY <1>2
  <2> QED BY <2>1, <2>2 DEF IsPrefixOf
<1> QED BY <1>1, <1>2, <1>3, <1>4 DEF EInv

\* repo.get leaves what is stored alone, and gives the same or a copy of it.
LEMMA GetFacts ==
  ASSUME AInv, NEW w \in Workers, NEW next, Get(w, next)
  PROVE  /\ bound # Nobody /\ bound' = bound /\ heap'[bound] = heap[bound]
         /\ held'[w] \in Objects /\ heap'[held'[w]] = heap[bound]
         /\ \A v \in Workers \ {w} : held'[v] = held[v]
         /\ \A v \in Workers : held[v] # Nobody => heap'[held[v]] = heap[held[v]]
         /\ ~Durable => held'[w] = bound
<1>1. bound # Nobody /\ bound \in Objects /\ heap \in [Objects -> Record]
      /\ heap[bound] \in Record
  BY WorkerFacts DEF Get
<1>2. CASE Durable
  <2>1. PICK o \in Unused : Become([heap EXCEPT ![o] = heap[bound]], bound,
                                   [held EXCEPT ![w] = o])
    BY <1>2 DEF Get
  <2> DEFINE h == [heap EXCEPT ![o] = heap[bound]]
             refs == [held EXCEPT ![w] = o]
  <2>2. o \in Objects /\ o # bound /\ \A v \in Workers : held[v] # o
    BY <2>1 DEF Unused
  <2>3. /\ h \in [Objects -> Record] /\ h[o] = heap[bound]
        /\ \A p \in Objects \ {o} : h[p] = heap[p]
    BY <1>1, <2>2
  <2>4. /\ refs \in [Workers -> Objects \cup {Nobody}] /\ refs[w] = o
        /\ \A v \in Workers \ {w} : refs[v] = held[v]
    BY <2>2, WorkerFacts
  <2> HIDE DEF h, refs
  <2>5. Become(h, bound, refs)
    BY <2>1 DEF h, refs
  <2>6. /\ bound' = bound /\ held' = refs /\ heap'[bound] = h[bound]
        /\ \A v \in Workers : refs[v] # Nobody => heap'[refs[v]] = h[refs[v]]
    BY <1>1, <2>3, <2>4, <2>5, BecomeFacts
  <2>7. held[w] = Nobody /\ \A v \in Workers : held[v] \in Objects \cup {Nobody}
    BY WorkerFacts DEF AInv, Holding, Get, Moves
  <2>8. o # Nobody
    BY <2>2, WorkerFacts
  <2> QED BY <1>1, <1>2, <2>2, <2>3, <2>4, <2>6, <2>7, <2>8
<1>3. CASE ~Durable
  <2> DEFINE refs == [held EXCEPT ![w] = bound]
  <2>1. /\ refs \in [Workers -> Objects \cup {Nobody}] /\ refs[w] = bound
        /\ \A v \in Workers \ {w} : refs[v] = held[v]
    BY <1>1, WorkerFacts
  <2> HIDE DEF refs
  <2>2. Become(heap, bound, refs)
    BY <1>1, <1>3 DEF Get, refs
  <2>3. /\ bound' = bound /\ held' = refs /\ heap'[bound] = heap[bound]
        /\ \A v \in Workers : refs[v] # Nobody => heap'[refs[v]] = heap[refs[v]]
    BY <1>1, <2>1, <2>2, BecomeFacts
  <2>4. held[w] = Nobody
    BY DEF AInv, Holding, Get, Moves
  <2> QED BY <1>1, <1>3, <2>1, <2>3, <2>4
<1> QED BY <1>2, <1>3

LEMMA GetTurn ==
  ASSUME AInv, EInv, NEW w \in Workers, NEW next \in Places \ {"idle", "ran", "saving"},
         Get(w, next), deployment' = deployment
  PROVE  EInv'
<1>1. /\ bound # Nobody /\ bound' = bound /\ heap'[bound] = heap[bound]
      /\ heap'[held'[w]] = heap[bound]
  BY GetFacts
<1>2. evidence' = evidence /\ pc' = [pc EXCEPT ![w] = next] /\ Free(w)
  BY DEF Get, History, Moves
<1>3. pc'[w] = next /\ \A v \in Workers \ {w} : pc'[v] = pc[v]
  BY <1>2, WorkerFacts
<1>4. Sequential => \A v \in Workers : pc'[v] # "idle" => v = w
  BY <1>2, <1>3, FreeIsAlone
<1>5. Sequential' <=> Sequential
  BY DEF Sequential
<1>6. Sequential => Intact(heap[bound])
  BY <1>1 DEF EInv
<1>7. Sequential => Intact(heap[bound])' /\ Intact(heap[held[w]])'
  BY <1>1, <1>2, <1>6 DEF Intact
<1>8. IsPrefixOf(heap[bound].attempts, heap[held[w]].attempts)'
  <2>1. heap[bound] \in Record
    BY <1>1, WorkerFacts
  <2>2. IsPrefixOf(heap[bound].attempts, heap[bound].attempts)
    BY <2>1, PrefixOfItself
  <2> QED BY <1>1, <2>2 DEF IsPrefixOf
<1> QED BY <1>1, <1>3, <1>4, <1>5, <1>7, <1>8 DEF EInv

\* What is stored once a run is created, under which object, and who holds it: nobody.
LEMMA CreateFacts ==
  ASSUME AInv, NEW w \in Workers, CreateRun(w)
  PROVE  /\ heap'[bound'].attempts = <<>> /\ heap'[bound'].creation = creations + 1
         /\ bound' \in Objects /\ held' = held
         /\ \A v \in Workers : held[v] # bound'
         /\ \A v \in Workers : held[v] # Nobody => heap'[held[v]] = heap[held[v]]
<1>1. PICK o \in Objects :
        /\ o \in IF Durable /\ bound # Nobody THEN {bound} ELSE Unused
        /\ Become([heap EXCEPT ![o] = Fresh(creations + 1)], o, held)
  BY WorkerFacts DEF CreateRun, Unused
<1> DEFINE h == [heap EXCEPT ![o] = Fresh(creations + 1)]
<1>2. creations + 1 \in 1 .. MaxCreations
  BY WorkerFacts, ServiceAssumption DEF CreateRun, ServiceAssumption
<1>3. /\ Fresh(creations + 1) \in Record /\ Fresh(creations + 1).attempts = <<>>
      /\ Fresh(creations + 1).creation = creations + 1
  BY <1>2, GarbageFacts
<1>4. /\ h \in [Objects -> Record] /\ h[o] = Fresh(creations + 1)
      /\ \A p \in Objects \ {o} : h[p] = heap[p]
  BY <1>3, WorkerFacts
<1>5. \A v \in Workers : held[v] # o
  BY <1>1 DEF AInv, Apart, Unused
<1> HIDE DEF h
<1>6. Become(h, o, held)
  BY <1>1 DEF h
<1>7. /\ bound' = o /\ held' = held /\ (o # Nobody => heap'[o] = h[o])
      /\ \A v \in Workers : held[v] # Nobody => heap'[held[v]] = h[held[v]]
  BY <1>4, <1>6, BecomeFacts, WorkerFacts
<1>8. o # Nobody
  BY WorkerFacts
<1> QED BY <1>3, <1>4, <1>5, <1>7, <1>8, WorkerFacts

\* Verify, MarkPr and RefuseWorkspace change neither attempts nor which creation it is.
LEMMA EditFacts ==
  ASSUME AInv, NEW w \in Workers, Verify(w) \/ MarkPr(w) \/ RefuseWorkspace(w)
  PROVE  /\ bound' = bound /\ held' = held
         /\ \A o \in Objects : /\ heap'[o].attempts = heap[o].attempts
                               /\ heap'[o].creation = heap[o].creation
<1>1. PICK verdict \in Verdicts, state \in States :
        Mutate(w, [heap[held[w]] EXCEPT !.verdict = verdict, !.state = state])
  <2>1. pc[w] # "idle"
    BY DEF Verify, MarkPr, RefuseWorkspace, Moves
  <2>2. heap[held[w]] \in Record
    BY <2>1, WorkerFacts
  <2>3. heap[held[w]].verdict \in Verdicts
    BY <2>2 DEF Record
  <2>4. \A st \in States :
          [heap[held[w]] EXCEPT !.state = st]
            = [heap[held[w]] EXCEPT !.verdict = heap[held[w]].verdict, !.state = st]
    BY <2>2 DEF Record
  <2>5. CASE Verify(w)
    BY <2>5 DEF Verify, Verdicts, States
  <2>6. CASE MarkPr(w)
    BY <2>3, <2>4, <2>6 DEF MarkPr, States
  <2>7. CASE RefuseWorkspace(w)
    BY <2>3, <2>4, <2>7 DEF RefuseWorkspace, States
  <2> QED BY <2>5, <2>6, <2>7
<1>2. pc[w] # "idle" /\ heap[held[w]] \in Record
  <2>1. pc[w] # "idle"
    BY DEF Verify, MarkPr, RefuseWorkspace, Moves
  <2> QED BY <2>1, WorkerFacts
<1> DEFINE record == [heap[held[w]] EXCEPT !.verdict = verdict, !.state = state]
<1>3. /\ record \in Record /\ record.attempts = heap[held[w]].attempts
      /\ record.creation = heap[held[w]].creation
  BY <1>2 DEF Record
<1>4. Mutate(w, record)
  BY <1>1
<1> HIDE DEF record
<1> QED BY <1>2, <1>3, <1>4, MutateFacts

\* After Save and Abandon what is stored is what was, or what the worker held.
LEMMA EndFacts ==
  ASSUME AInv, NEW w \in Workers, Save(w) \/ Abandon(w)
  PROVE  /\ bound # Nobody /\ bound' \in Objects /\ held[w] \in Objects
         /\ heap'[bound'] = heap[bound] \/ (heap'[bound'] = heap[held[w]] /\ Save(w))
         /\ Durable => bound' = bound
         /\ ~Durable => /\ bound' \in {bound, held[w]}
                        /\ heap'[bound'] = heap[bound']
         /\ held'[w] = Nobody /\ \A v \in Workers \ {w} : held'[v] = held[v]
         /\ \A v \in Workers \ {w} : held[v] # Nobody => heap'[held[v]] = heap[held[v]]
<1> DEFINE h == IF Save(w) /\ Durable THEN [heap EXCEPT ![bound] = heap[held[w]]] ELSE heap
           b == IF Save(w) /\ ~Durable THEN held[w] ELSE bound
           refs == [held EXCEPT ![w] = Nobody]
<1>1. pc[w] # "idle"
  BY DEF Save, Abandon, Moves
<1>2. /\ bound \in Objects /\ held[w] \in Objects /\ bound # Nobody
      /\ heap \in [Objects -> Record] /\ heap[bound] \in Record /\ heap[held[w]] \in Record
  BY <1>1, WorkerFacts DEF AInv, Holding
<1>3. Become(h, b, refs)
  <2>1. CASE Save(w)
    BY <1>2, <2>1 DEF Save
  <2>2. CASE ~Save(w)
    BY <2>2 DEF Abandon
  <2> QED BY <2>1, <2>2
<1>4. /\ h \in [Objects -> Record] /\ b \in Objects
      /\ \A o \in Objects : o # bound => h[o] = heap[o]
      /\ h[b] = heap[bound] \/ (h[b] = heap[held[w]] /\ Save(w))
      /\ Durable => b = bound
      /\ ~Durable => b \in {bound, held[w]} /\ h = heap
  BY <1>2
<1>5. /\ refs \in [Workers -> Objects \cup {Nobody}] /\ refs[w] = Nobody
      /\ \A v \in Workers \ {w} : refs[v] = held[v]
  BY WorkerFacts
<1> HIDE DEF h, b, refs
<1>6. /\ bound' = b /\ held' = refs /\ (b # Nobody => heap'[b] = h[b])
      /\ \A v \in Workers : refs[v] # Nobody => heap'[refs[v]] = h[refs[v]]
  BY <1>3, <1>4, <1>5, BecomeFacts
<1>7. b # Nobody
  BY <1>4, WorkerFacts
<1>8. \A v \in Workers \ {w} : held[v] # Nobody => h[held[v]] = heap[held[v]]
  BY <1>4, WorkerFacts DEF AInv, Apart
<1> QED BY <1>2, <1>4, <1>5, <1>6, <1>7, <1>8

\* The directory an execution writes is of a number no recorded attempt has.
LEMMA RunChainTurn ==
  ASSUME AInv, EInv, NEW w \in Workers, RunChain(w), deployment' = deployment
  PROVE  EInv'
<1>1. /\ pc[w] = "running" /\ pc' = [pc EXCEPT ![w] = "ran"]
      /\ evidence' = [evidence EXCEPT ![attempt[w]] = execution[w]]
      /\ UNCHANGED <<heap, bound, held, attempt, execution>>
  BY DEF RunChain, Moves
<1> SUFFICES ASSUME Sequential, bound # Nobody
             PROVE  /\ Intact(heap[bound])'
                    /\ \A v \in Workers : pc'[v] # "idle" =>
                         /\ v = w
                         /\ Intact(heap[held[w]])'
                         /\ IsPrefixOf(heap[bound].attempts, heap[held[w]].attempts)
                         /\ heap[held[w]].attempts = heap[bound].attempts
                         /\ evidence'[attempt[w]] = execution[w]
  <2>1. Sequential' <=> Sequential
    BY DEF Sequential
  <2> QED BY <1>1, <2>1 DEF EInv, IsPrefixOf
<1>2. \A v \in Workers : pc'[v] # "idle" => v = w
  BY <1>1, WorkerFacts DEF AInv, OneAtATime
<1>3. /\ Fits(w) /\ bound \in Objects /\ held[w] \in Objects
      /\ heap[held[w]] \in Record /\ Good(heap[held[w]])
  BY <1>1, WorkerFacts DEF AInv, Started
<1>4. /\ heap[held[w]].attempts = heap[bound].attempts /\ Intact(heap[held[w]])
      /\ IsPrefixOf(heap[bound].attempts, heap[held[w]].attempts)
  BY <1>1 DEF EInv
<1>5. /\ evidence \in [1 .. MaxExecutions -> 0 .. MaxExecutions]
      /\ attempt[w] \in 1 .. MaxExecutions
      /\ attempt[w] = Len(heap[held[w]].attempts) + 1
  BY <1>3 DEF AInv, TypeOK, Fits, InTurn
<1>6. evidence'[attempt[w]] = execution[w]
      /\ \A n \in 1 .. MaxExecutions : n # attempt[w] => evidence'[n] = evidence[n]
  BY <1>1, <1>5
<1>7. ASSUME NEW i \in DOMAIN heap[held[w]].attempts
      PROVE  /\ heap[held[w]].attempts[i].number \in 1 .. MaxExecutions
             /\ heap[held[w]].attempts[i].number # attempt[w]
  <2>1. /\ Len(heap[held[w]].attempts) \in Nat
        /\ DOMAIN heap[held[w]].attempts = 1 .. Len(heap[held[w]].attempts)
        /\ heap[held[w]].attempts[i].number \in 1 .. MaxExecutions
    BY <1>3, SeqEntries
  <2>2. heap[held[w]].attempts[i].number = i
    BY <1>3 DEF Good, InTurn
  <2>3. i \in 1 .. Len(heap[held[w]].attempts)
    BY <2>1
  <2> QED BY <1>5, <2>1, <2>2, <2>3
<1>8. \A i \in DOMAIN heap[held[w]].attempts :
        evidence'[heap[held[w]].attempts[i].number] = heap[held[w]].attempts[i].execution
  BY <1>4, <1>6, <1>7 DEF Intact
<1>9. Intact(heap[bound])' /\ Intact(heap[held[w]])'
  BY <1>1, <1>4, <1>8 DEF Intact
<1> QED BY <1>2, <1>4, <1>6, <1>9

LEMMA RecordTurn ==
  ASSUME AInv, EInv, NEW w \in Workers, RecordAttempt(w), deployment' = deployment
  PROVE  EInv'
<1> DEFINE old == heap[held[w]]
           entry == [number |-> attempt[w], execution |-> execution[w]]
           n == Len(old.attempts)
<1>1. /\ pc[w] = "ran" /\ pc' = [pc EXCEPT ![w] = "saving"] /\ evidence' = evidence
  BY DEF RecordAttempt, Moves
<1>2. /\ heap' \in [Objects -> Record]
      /\ heap'[held[w]].attempts = Append(old.attempts, entry)
      /\ \A o \in Objects \ {held[w]} : heap'[o] = heap[o]
      /\ bound' = bound /\ held' = held
  BY <1>1, RecordFacts
<1>3. /\ held[w] \in Objects /\ old \in Record /\ bound \in Objects \cup {Nobody}
      /\ \A v \in Workers : v # w => pc'[v] = pc[v]
      /\ pc'[w] = "saving"
  BY <1>1, WorkerFacts DEF Places
<1>4. /\ n \in Nat /\ DOMAIN old.attempts = 1 .. n
      /\ Len(heap'[held[w]].attempts) = n + 1
      /\ DOMAIN heap'[held[w]].attempts = 1 .. n + 1
      /\ heap'[held[w]].attempts[n + 1] = entry
      /\ \A i \in 1 .. n : heap'[held[w]].attempts[i] = old.attempts[i]
  BY <1>1, RecordFacts
<1> SUFFICES ASSUME Sequential, bound # Nobody
             PROVE  /\ Intact(heap[bound])'
                    /\ \A v \in Workers : pc'[v] # "idle" =>
                         /\ v = w
                         /\ Intact(heap[held[w]])'
                         /\ IsPrefixOf(heap[bound].attempts, heap[held[w]].attempts)'
  <2>1. Sequential' <=> Sequential
    BY DEF Sequential
  <2> QED BY <1>2, <1>3, <2>1 DEF EInv
<1>5. \A v \in Workers : pc'[v] # "idle" => v = w
  BY <1>1, <1>3 DEF AInv, OneAtATime
<1>6. /\ Intact(heap[bound]) /\ Intact(old) /\ old.attempts = heap[bound].attempts
      /\ evidence[attempt[w]] = execution[w]
  BY <1>1 DEF EInv
<1>7. entry.number = attempt[w] /\ entry.execution = execution[w]
  OBVIOUS
<1> HIDE DEF entry, old, n
<1>8. \A i \in 1 .. n + 1 :
        evidence[heap'[held[w]].attempts[i].number] = heap'[held[w]].attempts[i].execution
  <2>1. \A i \in 1 .. n + 1 : i \in 1 .. n \/ i = n + 1
    BY <1>4
  <2> QED BY <1>4, <1>6, <1>7, <2>1 DEF Intact
<1>9. Intact(heap[held[w]])'
  BY <1>1, <1>2, <1>4, <1>8 DEF Intact
<1>10. Intact(heap[bound])'
  <2>1. CASE bound = held[w]
    BY <1>2, <1>9, <2>1 DEF Intact
  <2>2. CASE bound # held[w]
    BY <1>1, <1>2, <1>3, <1>6, <2>2 DEF Intact
  <2> QED BY <2>1, <2>2
<1>11. IsPrefixOf(heap[bound].attempts, heap[held[w]].attempts)'
  <2>1. CASE bound = held[w]
    <3>1. heap'[bound] \in Record /\ bound' = bound /\ held' = held
      BY <1>2, <1>3, <2>1
    <3>2. IsPrefixOf(heap'[bound].attempts, heap'[bound].attempts)
      BY <1>4, <2>1 DEF IsPrefixOf
    <3> QED BY <2>1, <3>1, <3>2 DEF IsPrefixOf
  <2>2. CASE bound # held[w]
    <3>1. heap'[bound] = heap[bound]
      BY <1>2, <1>3, <2>2
    <3>2. /\ Len(heap'[bound].attempts) = n /\ n <= n + 1
          /\ \A i \in 1 .. n : heap'[bound].attempts[i] = heap'[held[w]].attempts[i]
          /\ DOMAIN heap'[bound].attempts = 1 .. n
      BY <1>4, <1>6, <3>1 DEF n, old
    <3> QED BY <1>2, <1>4, <3>2 DEF IsPrefixOf
  <2> QED BY <2>1, <2>2
<1> QED BY <1>5, <1>9, <1>10, <1>11

LEMMA EInvInit == Init => EInv
  BY DEF Init, EInv

LEMMA EInvStep == AInv /\ EInv /\ AInv' /\ [Next]_vars => EInv'
<1> SUFFICES ASSUME AInv, EInv, AInv', [Next]_vars PROVE EInv'
  OBVIOUS
<1>1. CASE UNCHANGED vars
  BY <1>1 DEF vars, EInv, Intact, IsPrefixOf, Sequential
<1>2. CASE Next
  <2>1. deployment' = deployment
    BY <1>2 DEF Next
  <2>2. CASE Restart
    <3>1. \A w \in Workers : pc'[w] = "idle"
      BY <2>2 DEF Restart
    <3>2. evidence' = evidence /\ (bound' # Nobody => bound' = bound)
          /\ (bound # Nobody => heap'[bound].attempts = heap[bound].attempts \/ bound' = Nobody)
      BY <2>2, WorkerFacts DEF Restart, Become, AInv, TypeOK
    <3> QED BY <2>1, <3>1, <3>2, IdleKeeps
  <2>3. ASSUME NEW w \in Workers, Serve(w) PROVE EInv'
    <3>1. CASE CreateRun(w)
      <4>1. evidence' = evidence /\ pc' = pc /\ Free(w) /\ creations' = creations + 1
        BY <3>1 DEF CreateRun
      <4>2. heap'[bound'].attempts = <<>>
        BY <3>1, CreateFacts
      <4>3. Sequential => \A v \in Workers : pc'[v] = "idle"
        BY <4>1, FreeIsAlone
      <4> QED BY <2>1, <4>1, <4>2, <4>3, IdleKeeps
    <3>2. CASE BeginPlan(w) \/ BeginExecute(w) \/ BeginVerify(w) \/ BeginPr(w)
      <4>1. PICK next \in {"planning", "executing", "verifying", "gating"} : Get(w, next)
        BY <3>2 DEF BeginPlan, BeginExecute, BeginVerify, BeginPr
      <4>2. next \in Places \ {"idle", "ran", "saving"}
        BY DEF Places
      <4> QED BY <2>1, <4>1, <4>2, GetTurn
    <3>3. CASE Plan(w) \/ AllowPr(w) \/ Allocate(w)
      <4>1. /\ pc[w] \in {"planning", "gating", "executing"} /\ pc'[w] \in {"saving", "gated", "running"}
            /\ evidence' = evidence /\ bound' = bound /\ held' = held /\ heap' = heap
        BY <3>3, WorkerFacts DEF Plan, AllowPr, Allocate, Moves, History
      <4> QED BY <2>1, <4>1, WorkKeeps
    <3>4. CASE Verify(w) \/ MarkPr(w) \/ RefuseWorkspace(w)
      <4>1. /\ pc[w] \in {"verifying", "gated", "executing", "running"} /\ pc'[w] = "saving"
            /\ evidence' = evidence
        BY <3>4, WorkerFacts DEF Verify, MarkPr, RefuseWorkspace, Moves, History
      <4>2. /\ bound' = bound /\ held' = held
            /\ \A o \in Objects : heap'[o].attempts = heap[o].attempts
        BY <3>4, <4>1, EditFacts
      <4> QED BY <2>1, <4>1, <4>2, WorkKeeps
    <3>5. CASE RunChain(w)
      BY <2>1, <3>5, RunChainTurn
    <3>6. CASE RecordAttempt(w)
      BY <2>1, <3>6, RecordTurn
    <3>7. CASE Save(w) \/ Abandon(w)
      <4>1. /\ pc[w] # "idle" /\ pc'[w] = "idle" /\ evidence' = evidence
            /\ \A v \in Workers \ {w} : pc'[v] = pc[v]
        BY <3>7, WorkerFacts DEF Save, Abandon, Moves, History
      <4>2. Sequential => \A v \in Workers : pc'[v] = "idle"
        BY <4>1 DEF AInv, OneAtATime
      <4>3. /\ bound # Nobody
            /\ heap'[bound'] = heap[bound] \/ heap'[bound'] = heap[held[w]]
        BY <3>7, EndFacts
      <4> QED BY <2>1, <4>1, <4>2, <4>3, IdleKeeps
    <3> QED BY <2>3, <3>1, <3>2, <3>3, <3>4, <3>5, <3>6, <3>7 DEF Serve
  <2> QED BY <1>2, <2>2, <2>3 DEF Next
<1> QED BY <1>1, <1>2

\* EvidenceIntactInTurn: the hashes recorded of an attempt are those of the artifacts on
\* disk, as long as requests come one at a time.
THEOREM EvidenceStays == Spec => []EvidenceIntactInTurn
<1>1. AInv /\ EInv => EvidenceIntactInTurn
  BY DEF EInv, EvidenceIntactInTurn, EvidenceIntact, Intact, Stored
<1> QED BY <1>1, AInvHolds, EInvInit, EInvStep, PTL DEF Spec

------------------------------------------------------------------------------
(***************************************************************************)
(* Retries accumulate.  Two objects in use are never of the same creation  *)
(* of the run in memory, so that a save of one the repository no longer    *)
(* has is no loss of attempts.                                             *)
(***************************************************************************)
Referenced(o) == o = bound \/ \E w \in Workers : held[w] = o

CInv ==
  /\ \A o \in Objects : Referenced(o) => heap[o].creation <= creations
  /\ ~Durable =>
       \A o, p \in Objects :
         Referenced(o) /\ Referenced(p) /\ heap[o].creation = heap[p].creation => o = p

LEMMA CreationIsNat == AInv => \A o \in Objects : heap[o].creation \in Nat
  BY DEF AInv, TypeOK, Record

\* A step in which every object in use is, or in a durable deployment comes from, one that
\* was in use.
LEMMA SourcedKeeps ==
  ASSUME CInv, deployment' = deployment, creations' = creations,
         \A o \in Objects : Referenced(o)' =>
           \E p \in Objects : /\ Referenced(p) /\ heap'[o].creation = heap[p].creation
                              /\ ~Durable => p = o
  PROVE  CInv'
<1>1. Durable' <=> Durable
  BY DEF Durable
<1> QED BY <1>1 DEF CInv

LEMMA CreateCount ==
  ASSUME AInv, CInv, NEW w \in Workers, CreateRun(w), deployment' = deployment
  PROVE  CInv'
<1>1. /\ bound' \in Objects /\ heap'[bound'].creation = creations + 1 /\ held' = held
      /\ \A v \in Workers : held[v] # bound'
      /\ \A v \in Workers : held[v] # Nobody => heap'[held[v]] = heap[held[v]]
  BY CreateFacts
<1>2. creations' = creations + 1 /\ creations \in Nat /\ Nobody \notin Objects
  BY WorkerFacts DEF CreateRun
<1>3. \A o \in Objects : Referenced(o)' =>
        o = bound' \/ (Referenced(o) /\ heap'[o] = heap[o])
  BY <1>1, <1>2 DEF Referenced
<1>4. \A o \in Objects : Referenced(o) => heap[o].creation <= creations
  BY DEF CInv
<1>5. Durable' <=> Durable
  BY DEF Durable
<1> QED BY <1>1, <1>2, <1>3, <1>4, <1>5, CreationIsNat DEF CInv

LEMMA CInvInit == Init => CInv
<1> SUFFICES ASSUME Init PROVE CInv
  OBVIOUS
<1>1. \A o \in Objects : ~Referenced(o)
  BY ServiceAssumption DEF Init, Referenced, ServiceAssumption
<1> QED BY <1>1 DEF CInv

\* Both the count of creations and what the stored record keeps, step by step.
LEMMA KeptStep ==
  ASSUME AInv, CInv, EInv, [Next]_vars
  PROVE  CInv' /\ (~Durable \/ Sequential => AttemptsKept)
<1>0. ASSUME bound # Nobody, heap'[bound].attempts = heap[bound].attempts, bound' = bound
      PROVE  AttemptsKept
  <2>1. IsPrefixOf(heap[bound].attempts, heap[bound].attempts)
    BY <1>0, WorkerFacts, PrefixOfItself DEF AInv, TypeOK
  <2> QED BY <1>0, <2>1 DEF AttemptsKept
<1>1. CASE UNCHANGED vars
  <2>1. CInv'
    BY <1>1 DEF vars, CInv, Referenced, Durable
  <2> QED BY <1>0, <1>1, <2>1 DEF vars, AttemptsKept
<1>2. CASE Next
  <2>1. deployment' = deployment
    BY <1>2 DEF Next
  <2>2. CASE Restart
    <3>1. creations' = creations /\ (bound' # Nobody => bound' = bound)
          /\ (bound' # Nobody => heap'[bound] = heap[bound])
          /\ \A w \in Workers : held'[w] = Nobody
      BY <2>2, WorkerFacts DEF Restart, Become, AInv, TypeOK
    <3>2. CInv'
      BY <2>1, <3>1, SourcedKeeps, ServiceAssumption DEF Referenced, ServiceAssumption
    <3> QED BY <1>0, <3>1, <3>2 DEF AttemptsKept
  <2>3. ASSUME NEW w \in Workers, Serve(w)
        PROVE  CInv' /\ (~Durable \/ Sequential => AttemptsKept)
    <3>1. CASE CreateRun(w)
      <4>1. bound # Nobody => heap[bound].creation <= creations
        BY WorkerFacts DEF CInv, Referenced
      <4>2. heap'[bound'].creation = creations + 1 /\ creations \in Nat
        BY <3>1, CreateFacts, WorkerFacts
      <4>3. AttemptsKept
        BY <4>1, <4>2, WorkerFacts, CreationIsNat DEF AttemptsKept
      <4> QED BY <2>1, <3>1, <4>3, CreateCount
    <3>2. CASE BeginPlan(w) \/ BeginExecute(w) \/ BeginVerify(w) \/ BeginPr(w)
      <4>1. PICK next \in {"planning", "executing", "verifying", "gating"} : Get(w, next)
        BY <3>2 DEF BeginPlan, BeginExecute, BeginVerify, BeginPr
      <4>2. /\ bound # Nobody /\ bound' = bound /\ heap'[bound] = heap[bound]
            /\ held'[w] \in Objects /\ heap'[held'[w]] = heap[bound]
            /\ \A v \in Workers \ {w} : held'[v] = held[v]
            /\ \A v \in Workers : held[v] # Nobody => heap'[held[v]] = heap[held[v]]
            /\ ~Durable => held'[w] = bound
        BY <4>1, GetFacts
      <4>3. creations' = creations /\ bound \in Objects /\ Nobody \notin Objects
        BY <4>1, <4>2, WorkerFacts DEF Get, History
      <4>4. \A o \in Objects : Referenced(o)' =>
              \E p \in Objects : /\ Referenced(p) /\ heap'[o].creation = heap[p].creation
                                 /\ ~Durable => p = o
        <5>1. SUFFICES ASSUME NEW o \in Objects, Referenced(o)'
                       PROVE  \E p \in Objects :
                                /\ Referenced(p) /\ heap'[o].creation = heap[p].creation
                                /\ ~Durable => p = o
          OBVIOUS
        <5>2. CASE o = bound
          BY <4>2, <4>3, <5>2 DEF Referenced
        <5>3. CASE o = held'[w]
          BY <4>2, <4>3, <5>3 DEF Referenced
        <5>4. CASE \E v \in Workers \ {w} : held'[v] = o
          BY <4>2, <4>3, <5>4 DEF Referenced
        <5> QED BY <4>2, <5>1, <5>2, <5>3, <5>4 DEF Referenced
      <4>5. CInv'
        BY <2>1, <4>3, <4>4, SourcedKeeps
      <4> QED BY <1>0, <4>2, <4>5
    <3>3. CASE Plan(w) \/ AllowPr(w) \/ Allocate(w) \/ RunChain(w)
      <4>1. creations' = creations /\ bound' = bound /\ held' = held /\ heap' = heap
        BY <3>3 DEF Plan, AllowPr, Allocate, RunChain, History
      <4>2. CInv'
        BY <2>1, <4>1 DEF CInv, Referenced, Durable
      <4> QED BY <1>0, <4>1, <4>2 DEF AttemptsKept
    <3>4. CASE Verify(w) \/ MarkPr(w) \/ RefuseWorkspace(w)
      <4>1. /\ bound' = bound /\ held' = held
            /\ \A o \in Objects : /\ heap'[o].attempts = heap[o].attempts
                                  /\ heap'[o].creation = heap[o].creation
        BY <3>4, EditFacts
      <4>2. creations' = creations
        BY <3>4 DEF Verify, MarkPr, RefuseWorkspace, History
      <4>3. CInv'
        BY <2>1, <4>1, <4>2 DEF CInv, Referenced, Durable
      <4>4. bound # Nobody => bound \in Objects
        BY WorkerFacts
      <4> QED BY <1>0, <4>1, <4>3, <4>4 DEF AttemptsKept
    <3>5. CASE RecordAttempt(w)
      <4> DEFINE old == heap[held[w]].attempts
                 new == heap'[held[w]].attempts
      <4>1. /\ heap'[held[w]].creation = heap[held[w]].creation
            /\ \A o \in Objects \ {held[w]} : heap'[o] = heap[o]
            /\ bound' = bound /\ held' = held
            /\ Len(old) \in Nat /\ DOMAIN old = 1 .. Len(old) /\ Len(new) = Len(old) + 1
            /\ \A i \in 1 .. Len(old) : new[i] = old[i]
        BY <3>5, RecordFacts
      <4>2. creations' = creations /\ (bound # Nobody => bound \in Objects)
        BY <3>5, WorkerFacts DEF RecordAttempt
      <4>3. \A o \in Objects : heap'[o].creation = heap[o].creation
        BY <4>1
      <4>4. CInv'
        BY <2>1, <4>1, <4>2, <4>3 DEF CInv, Referenced, Durable
      <4>5. CASE bound = held[w]
        <5> HIDE DEF old, new
        <5>1. IsPrefixOf(old, new)
          BY <4>1 DEF IsPrefixOf
        <5> QED BY <4>1, <4>4, <4>5, <5>1 DEF AttemptsKept, old, new
      <4>6. CASE bound # held[w]
        BY <1>0, <4>1, <4>2, <4>4, <4>6 DEF AttemptsKept
      <4> QED BY <4>5, <4>6
    <3>6. CASE Save(w) \/ Abandon(w)
      <4>1. /\ bound # Nobody /\ bound' \in Objects /\ held[w] \in Objects
            /\ heap'[bound'] = heap[bound] \/ (heap'[bound'] = heap[held[w]] /\ Save(w))
            /\ Durable => bound' = bound
            /\ ~Durable => /\ bound' \in {bound, held[w]}
                           /\ heap'[bound'] = heap[bound']
            /\ held'[w] = Nobody /\ \A v \in Workers \ {w} : held'[v] = held[v]
            /\ \A v \in Workers \ {w} : held[v] # Nobody => heap'[held[v]] = heap[held[v]]
        BY <3>6, EndFacts
      <4>2. /\ creations' = creations /\ bound \in Objects /\ Nobody \notin Objects
            /\ heap[bound] \in Record
        BY <3>6, <4>1, WorkerFacts DEF Save, Abandon, History
      <4>3. CInv'
        <5>1. ASSUME NEW o \in Objects, Referenced(o)'
              PROVE  \E p \in Objects : /\ Referenced(p) /\ heap'[o].creation = heap[p].creation
                                        /\ ~Durable => p = o
          <6>1. CASE o = bound'
            BY <4>1, <4>2, <6>1 DEF Referenced
          <6>2. CASE \E v \in Workers \ {w} : held'[v] = o
            BY <4>1, <4>2, <6>2 DEF Referenced
          <6> QED BY <4>1, <4>2, <5>1, <6>1, <6>2 DEF Referenced
        <5> QED BY <2>1, <4>2, <5>1, SourcedKeeps
      <4>4. ASSUME heap'[bound'].attempts = heap[bound].attempts PROVE AttemptsKept
        <5>1. IsPrefixOf(heap[bound].attempts, heap[bound].attempts)
          BY <4>2, PrefixOfItself
        <5> QED BY <4>4, <5>1 DEF AttemptsKept
      <4>5. CASE ~Durable
        <5>1. SUFFICES ASSUME heap[bound].creation = heap'[bound'].creation
                       PROVE  heap'[bound'].attempts = heap[bound].attempts
          BY <4>3, <4>4 DEF AttemptsKept
        <5>2. bound' = bound
          BY <4>1, <4>2, <4>5, <5>1 DEF CInv, Referenced
        <5> QED BY <4>1, <4>5, <5>2
      <4>6. CASE Sequential
        <5>1. IsPrefixOf(heap[bound].attempts, heap[held[w]].attempts)
          <6>1. pc[w] # "idle"
            BY <3>6 DEF Save, Abandon, Moves
          <6> QED BY <4>1, <4>6, <6>1 DEF EInv
        <5>2. CASE heap'[bound'] = heap[held[w]]
          BY <4>3, <5>1, <5>2 DEF AttemptsKept
        <5> QED BY <4>1, <4>3, <4>4, <5>2
      <4> QED BY <4>3, <4>5, <4>6
    <3> QED BY <2>3, <3>1, <3>2, <3>3, <3>4, <3>5, <3>6 DEF Serve
  <2> QED BY <1>2, <2>2, <2>3 DEF Next
<1> QED BY <1>1, <1>2

\* AttemptsAccumulateUnlessStale: no request loses an attempt another has stored, in memory
\* whatever overlaps, and on the durable repository one request at a time.
THEOREM AttemptsStay == Spec => AttemptsAccumulateUnlessStale
<1>1. AInv /\ EInv /\ CInv /\ [Next]_vars => CInv' /\ [~Durable \/ Sequential => AttemptsKept]_vars
  BY KeptStep
<1>2. AInv /\ EInv /\ AInv' /\ [Next]_vars => EInv'
  BY EInvStep
<1>3. Spec => [](AInv /\ EInv /\ CInv)
  BY <1>1, <1>2, AInvHolds, EInvInit, CInvInit, PTL DEF Spec
<1> QED BY <1>1, <1>3, PTL DEF Spec, AttemptsAccumulateUnlessStale
==============================================================================
