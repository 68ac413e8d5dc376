-------------------------- MODULE ModelRouterProofs --------------------------
(***************************************************************************)
(* The router keeps to its models' limits and policy, for every set of     *)
(* manifests, any number of calls and a stack of any depth that reaches    *)
(* over the models of a manifest.                                          *)
(*                                                                         *)
(* The limits are the limiter's theorem, once the router is shown to use   *)
(* it by nothing but allow.  The rest follows from what the path of a call *)
(* is: each model on it is the one the model before falls back to.         *)
(***************************************************************************)
EXTENDS ModelRouter, RateLimiterProofs, FiniteSetTheorems, WellFoundedInduction

\* What there is of the types, but for the limiters'.
Shape ==
  /\ manifest \in Manifests
  /\ phase \in Phases
  /\ path \in Seq(DOMAIN Models) /\ Len(path) <= StackDepth
  /\ records \in Seq([model : DOMAIN Models, status : Answers])
  /\ result \in [status : Statuses \cup {"NONE", "RecursionError"},
                 model : {0} \cup DOMAIN Models]

\* Each model asked is the one that the model before it falls back to.
Chained == \A i \in 1 .. Len(path) - 1 : path[i + 1] = Fallback(path[i])

\* What the result of a call says of its path and of the record kept of it.
ResultTells ==
  /\ phase # "idle" => path # <<>> /\ result = NoResult
  /\ result.status \in Answers =>
       /\ result.model \in DOMAIN Models
       /\ records[Len(records)] = [model |-> result.model, status |-> result.status]
  /\ result.status = "THROTTLED" =>
       path # <<>> /\ result.model = At /\ Fallback(At) = 0
  /\ result.status = "RecursionError" =>
       path # <<>> /\ Len(path) = StackDepth /\ Fallback(At) # 0

MInv == Shape /\ Chained /\ ResultTells

------------------------------------------------------------------------------
LEMMA LeastOf ==
  ASSUME NEW T \in SUBSET Nat, T # {}
  PROVE  \E i \in T : \A j \in T : i <= j
<1>1. PICK i \in T : \A j \in T : <<j, i>> \notin OpToRel(<, Nat)
  BY WFMin, NatLessThanWellFounded, Zenon
<1>2. \A j \in T : ~(j < i)
  BY <1>1, Zenon DEF OpToRel
<1> QED BY <1>2

LEMMA GreatestOf ==
  ASSUME NEW n \in Nat, NEW T \in SUBSET (1 .. n), T # {}
  PROVE  \E i \in T : \A j \in T : i >= j
<1> DEFINE U == {m \in Nat : n - m \in T}
<1>1. U # {}
  <2>1. PICK i \in T : TRUE
    OBVIOUS
  <2>2. n - i \in Nat /\ n - (n - i) = i
    OBVIOUS
  <2> QED BY <2>1, <2>2
<1>2. PICK m \in U : \A k \in U : m <= k
  BY <1>1, LeastOf
<1>3. \A j \in T : n - j \in U
  OBVIOUS
<1>4. n - m \in T /\ \A j \in T : n - m >= j
  BY <1>2, <1>3
<1> QED BY <1>4

\* What the router takes as the place of a model is one, or 0.
LEMMA PlaceFacts ==
  ASSUME NEW n \in Nat, NEW places \in SUBSET (1 .. n)
  PROVE  FirstOf(places) \in {0} \cup places /\ LastOf(places) \in {0} \cup places
<1>1. CASE places = {}
  BY <1>1 DEF FirstOf, LastOf
<1>2. CASE places # {}
  <2>1. \E i \in places : \A j \in places : i <= j
    BY <1>2, LeastOf
  <2>2. \E i \in places : \A j \in places : i >= j
    BY <1>2, GreatestOf
  <2> QED BY <1>2, <2>1, <2>2 DEF FirstOf, LastOf
<1> QED BY <1>1, <1>2

LEMMA ModelFacts ==
  ASSUME NEW m \in Manifests
  PROVE  /\ Len(m.models) \in Nat /\ DOMAIN m.models = 1 .. Len(m.models)
         /\ \A i \in DOMAIN m.models :
              /\ m.models[i].model_id \in ModelIds
              /\ m.models[i].requests_per_min \in 0 .. MaxRate
         /\ \A id : LastWithId(m.models, id) \in {0} \cup DOMAIN m.models
<1>1. m.models \in Seq(Range(m.models)) /\ \A spec \in Range(m.models) :
        spec.model_id \in ModelIds /\ spec.requests_per_min \in 0 .. MaxRate
  BY RouterAssumption DEF RouterAssumption
<1>2. Len(m.models) \in Nat /\ DOMAIN m.models = 1 .. Len(m.models)
  BY <1>1
<1>3. \A i \in DOMAIN m.models : m.models[i] \in Range(m.models)
  BY DEF Range
<1>4. ASSUME NEW id PROVE LastWithId(m.models, id) \in {0} \cup DOMAIN m.models
  <2> DEFINE places == {i \in DOMAIN m.models : m.models[i].model_id = id}
  <2>1. places \in SUBSET (1 .. Len(m.models))
    BY <1>2
  <2>2. LastOf(places) \in {0} \cup places
    BY <1>2, <2>1, PlaceFacts
  <2> QED BY <2>2 DEF LastWithId
<1> QED BY <1>1, <1>2, <1>3, <1>4

LEMMA FallbackFacts ==
  ASSUME manifest \in Manifests
  PROVE  /\ \A i : Fallback(i) \in {0} \cup DOMAIN Models
         /\ 0 \notin DOMAIN Models
         /\ \A role : Select(role) \in {0} \cup DOMAIN Models
<1>1. Len(Models) \in Nat /\ DOMAIN Models = 1 .. Len(Models)
  BY ModelFacts DEF Models
<1>2. \A i : Fallback(i) \in {0} \cup DOMAIN Models
  BY ModelFacts DEF Fallback, Models
<1>3. ASSUME NEW role PROVE Select(role) \in {0} \cup DOMAIN Models
  <2> DEFINE places == {i \in DOMAIN Models : Models[i].role = role}
  <2>1. places \in SUBSET (1 .. Len(Models))
    BY <1>1
  <2>2. FirstOf(places) \in {0} \cup places
    BY <1>1, <2>1, PlaceFacts
  <2> QED BY <2>2 DEF Select
<1> QED BY <1>1, <1>2, <1>3

------------------------------------------------------------------------------
LEMMA MInvInit == Init => MInv
<1> SUFFICES ASSUME Init PROVE MInv
  OBVIOUS
<1>1. path = <<>> /\ records = <<>> /\ result = [status |-> "NONE", model |-> 0]
  BY DEF Init, NoResult
<1>2. StackDepth \in Nat
  BY RouterAssumption DEF RouterAssumption
<1> QED BY <1>1, <1>2 DEF Init, MInv, Shape, Phases, Chained, ResultTells, Answers

\* The last model asked, while a call is under way.
LEMMA AtFacts ==
  ASSUME MInv, path # <<>>
  PROVE  /\ At \in DOMAIN Models /\ Len(path) \in Nat \ {0}
         /\ At = path[Len(path)] /\ path \in [1 .. Len(path) -> DOMAIN Models]
  BY DEF MInv, Shape, At

\* A model is put on the path: the role's own as the first, or what the last falls back to.
LEMMA CallKeeps ==
  ASSUME MInv, NEW role \in ModelRoles, NEW permission \in Asked, Call(role, permission)
  PROVE  MInv'
<1> DEFINE i == Select(role)
<1>1. /\ UNCHANGED <<manifest, records>> /\ Models' = Models
      /\ manifest \in Manifests /\ StackDepth \in Nat
  BY RouterAssumption DEF Call, MInv, Shape, RouterAssumption, Models
<1>2. i \in {0} \cup DOMAIN Models
  BY <1>1, FallbackFacts
<1>3. \/ /\ path' = <<>> /\ phase' = "idle"
         /\ \E status \in {"NO_MODEL_FOR_ROLE", "PERMISSION_DENIED"} :
              result' = [status |-> status, model |-> 0]
      \/ /\ path' = <<i>> /\ i # 0 /\ phase' = "asking" /\ result' = NoResult
  BY DEF Call, Conclude
<1> HIDE DEF i
<1>4. i # 0 => 1 <= StackDepth
  <2>1. i # 0 => Len(Models) >= 1
    BY <1>1, <1>2, ModelFacts DEF Models
  <2> QED BY <1>1, <2>1, ModelFacts, RouterAssumption DEF RouterAssumption, Models
<1>5. path' \in Seq(DOMAIN Models) /\ Len(path') \in {0, 1} /\ Len(path') <= StackDepth
  <2>1. CASE path' = <<>>
    BY <1>1, <2>1
  <2>2. CASE i # 0 /\ path' = <<i>>
    <3>1. i \in DOMAIN Models /\ 1 <= StackDepth
      BY <1>2, <1>4, <2>2
    <3>2. <<i>> \in Seq(DOMAIN Models) /\ Len(<<i>>) = 1
      BY <3>1
    <3> QED BY <2>2, <3>1, <3>2
  <2> QED BY <1>3, <2>1, <2>2
<1>6. Shape'
  BY <1>1, <1>3, <1>5 DEF MInv, Shape, Phases, Statuses, NoResult
<1>7. Chained'
  <2>1. Len(path') = 0 \/ Len(path') = 1
    BY <1>5
  <2>2. 1 .. 0 - 1 = {} /\ 1 .. 1 - 1 = {}
    OBVIOUS
  <2>3. 1 .. Len(path') - 1 = {}
    BY <2>1, <2>2, Zenon
  <2> QED BY <2>3, Zenon DEF Chained
<1>8. ResultTells'
  <2>1. \/ phase' = "idle" /\ result'.status \in {"NO_MODEL_FOR_ROLE", "PERMISSION_DENIED"}
        \/ path' = <<i>> /\ result' = NoResult /\ result'.status = "NONE"
    BY <1>3 DEF NoResult
  <2>2. <<i>> # <<>>
    OBVIOUS
  <2>3. /\ result'.status \notin Answers
        /\ result'.status # "THROTTLED" /\ result'.status # "RecursionError"
    BY <2>1 DEF Answers
  <2> QED BY <2>1, <2>2, <2>3, Zenon DEF ResultTells
<1> QED BY <1>6, <1>7, <1>8 DEF MInv

LEMMA RouteKeeps == ASSUME MInv, Route PROVE MInv'
<1> USE DEF MInv
<1>1. UNCHANGED manifest /\ Models' = Models /\ manifest \in Manifests
  BY DEF Route, Ask, Answer, AdapterFails, FallBack, Shape, Models
<1>2. phase # "idle" /\ path # <<>> /\ result = NoResult
  BY DEF Route, Ask, Answer, AdapterFails, FallBack, ResultTells
<1>3. /\ At \in DOMAIN Models /\ Len(path) \in Nat \ {0}
      /\ At = path[Len(path)] /\ path \in [1 .. Len(path) -> DOMAIN Models]
  BY <1>2, AtFacts
<1>4. Fallback(At) \in {0} \cup DOMAIN Models /\ 0 \notin DOMAIN Models
  BY <1>1, FallbackFacts
<1>5. \A i : Fallback(i)' = Fallback(i)
  BY <1>1 DEF Fallback, Models
<1>6. CASE Ask \/ AdapterFails
  <2>1. UNCHANGED <<path, result, records>> /\ phase' \in {"calling", "failed"}
    BY <1>6 DEF Ask, AdapterFails
  <2> QED BY <1>1, <1>2, <1>5, <2>1 DEF Shape, Phases, Chained, ResultTells, NoResult, Answers, At
<1>7. CASE Answer
  <2>1. PICK status \in Answers :
          /\ records' = Append(records, [model |-> At, status |-> status])
          /\ phase' = "idle" /\ result' = [status |-> status, model |-> At] /\ path' = path
    BY <1>7 DEF Answer, Conclude, Answers
  <2> DEFINE record == [model |-> At, status |-> status]
  <2>2. record \in [model : DOMAIN Models, status : Answers]
    BY <1>3
  <2>3. /\ records' \in Seq([model : DOMAIN Models, status : Answers])
        /\ records'[Len(records')] = record
    <3>1. records \in Seq([model : DOMAIN Models, status : Answers])
      BY DEF Shape
    <3> HIDE DEF record
    <3>2. records' = Append(records, record)
      BY <2>1 DEF record
    <3> QED BY <2>2, <3>1, <3>2
  <2>4. Shape'
    BY <1>1, <1>3, <2>1, <2>3 DEF Shape, Phases, Statuses, Answers
  <2>5. Chained'
    BY <1>5, <2>1 DEF Chained
  <2>6. ResultTells'
    BY <1>1, <1>3, <2>1, <2>3 DEF ResultTells, Answers
  <2> QED BY <2>4, <2>5, <2>6
<1>8. CASE FallBack
  <2> DEFINE next == Fallback(At)
  <2>1. UNCHANGED records /\
        \/ next = 0 /\ phase' = "idle" /\ result' = [status |-> "THROTTLED", model |-> At]
           /\ path' = path
        \/ next # 0 /\ Len(path) < StackDepth /\ phase' = "asking"
           /\ path' = Append(path, next) /\ result' = result
        \/ next # 0 /\ Len(path) = StackDepth /\ phase' = "idle"
           /\ result' = [status |-> "RecursionError", model |-> 0] /\ path' = path
    BY <1>8 DEF FallBack, Conclude
  <2>2. CASE path' = path /\ phase' = "idle"
    <3>1. At' = At /\ Fallback(At)' = Fallback(At)
      BY <1>5, <2>2 DEF At
    <3>2. Shape'
      BY <1>1, <1>3, <2>1, <2>2 DEF Shape, Phases, Statuses
    <3>3. Chained'
      BY <1>5, <2>2 DEF Chained
    <3>4. ResultTells'
      BY <1>2, <2>1, <2>2, <3>1 DEF ResultTells, Answers, NoResult
    <3> QED BY <3>2, <3>3, <3>4
  <2>3. CASE next # 0 /\ path' = Append(path, next) /\ phase' = "asking" /\ result' = result
             /\ Len(path) < StackDepth
    <3>1. next \in DOMAIN Models
      BY <1>4, <2>3
    <3>2. path \in Seq(DOMAIN Models) /\ StackDepth \in Nat
      BY RouterAssumption DEF Shape, RouterAssumption
    <3> HIDE DEF next
    <3>3. /\ path' \in Seq(DOMAIN Models) /\ Len(path') = Len(path) + 1
          /\ \A i \in 1 .. Len(path) : path'[i] = path[i]
          /\ path'[Len(path) + 1] = next
      BY <2>3, <3>1, <3>2
    <3>4. Shape'
      BY <1>1, <1>3, <2>1, <2>3, <3>2, <3>3 DEF Shape, Phases
    <3>5. Chained'
      <4>1. \A i \in 1 .. Len(path) : path'[i + 1] = Fallback(path'[i])
        BY <1>3, <3>3 DEF Chained, next
      <4> QED BY <1>3, <1>5, <3>3, <4>1 DEF Chained
    <3>6. ResultTells'
      BY <1>2, <1>3, <2>3, <3>3 DEF ResultTells, NoResult, Answers
    <3> QED BY <3>4, <3>5, <3>6
  <2> QED BY <2>1, <2>2, <2>3
<1> QED BY <1>6, <1>7, <1>8 DEF Route

LEMMA MInvStep == MInv /\ [Next]_vars => MInv'
<1> SUFFICES ASSUME MInv, [Next]_vars PROVE MInv'
  OBVIOUS
<1>1. ASSUME UNCHANGED rvars PROVE MInv'
  BY <1>1 DEF rvars, MInv, Shape, Chained, ResultTells, At, Fallback, Models
<1>2. CASE UNCHANGED vars
  BY <1>1, <1>2 DEF vars
<1> QED BY <1>1, <1>2, CallKeeps, RouteKeeps DEF Next

LEMMA MInvHolds == Spec => []MInv
<1> QED BY MInvInit, MInvStep, PTL DEF Spec

------------------------------------------------------------------------------
\* The router uses its limiters by nothing but allow, whatever its adapters do: its steps
\* are steps of the limiters.
THEOREM RouterKeepsLimits == Spec => KeepsLimits
<1>1. Init => \E rates \in [ModelIds -> 0 .. MaxRate] : LimiterInit(rates)
  <2> SUFFICES ASSUME Init PROVE \E rates \in [ModelIds -> 0 .. MaxRate] : LimiterInit(rates)
    OBVIOUS
  <2> DEFINE rates == [m \in ModelIds |-> RateOf(manifest.models, m)]
  <2>1. manifest \in Manifests /\ LimiterInit(rates)
    BY DEF Init
  <2>2. \A id : RateOf(manifest.models, id) \in 0 .. MaxRate
    BY <2>1, ModelFacts, LimiterAssumption DEF RateOf, LimiterAssumption
  <2>3. rates \in [ModelIds -> 0 .. MaxRate]
    BY <2>2
  <2> HIDE DEF rates
  <2> QED BY <2>1, <2>3
<1>2. MInv /\ [Next]_vars => [LimiterNext]_lvars
  <2> SUFFICES ASSUME MInv, [Next]_vars PROVE [LimiterNext]_lvars
    OBVIOUS
  <2>1. CASE Ask
    <3>1. path # <<>> /\ manifest \in Manifests
      BY <2>1 DEF Ask, MInv, ResultTells, Shape
    <3>2. Models[At].model_id \in ModelIds
      BY <3>1, AtFacts, ModelFacts DEF Models
    <3> QED BY <2>1, <3>2 DEF Ask, LimiterNext
  <2>2. CASE Tick
    BY <2>2 DEF LimiterNext
  <2>3. ASSUME ~Ask, ~Tick PROVE UNCHANGED lvars
    BY <2>3 DEF Next, Route, Call, Answer, AdapterFails, FallBack, vars
  <2> QED BY <2>1, <2>2, <2>3
<1> QED BY <1>1, <1>2, MInvHolds, PTL DEF Spec, KeepsLimits, LimiterSpec

\* So no model is asked beyond its rate in any interval, however often calls fall back to it.
THEOREM RouterWithinRate == Spec => []WithinRate
<1> QED BY RouterKeepsLimits, RateIsKept, PTL DEF KeepsLimits

\* On a manifest that the policy gate admits, whoever answers after however many failures
\* is on the allowlist, and the last record is of that answer.
THEOREM AllowedAnswer == Spec => []AnswersAreAllowed
<1>1. ASSUME MInv PROVE AnswersAreAllowed
  <2> SUFFICES ASSUME result.status \in Answers
               PROVE  /\ Admitted =>
                            Models[result.model].model_id \in manifest.allowed_model_ids
                      /\ records[Len(records)] =
                           [model |-> result.model, status |-> result.status]
    BY DEF AnswersAreAllowed
  <2>1. /\ result.model \in DOMAIN Models
        /\ records[Len(records)] = [model |-> result.model, status |-> result.status]
    BY <1>1 DEF MInv, ResultTells
  <2>2. Models[result.model] \in Range(manifest.models)
    BY <2>1 DEF Models, Range
  <2> QED BY <2>1, <2>2 DEF Admitted, PolicyPasses, Admissible, Models
<1> QED BY <1>1, MInvHolds, PTL

\* A call comes back unanswered only after every model it could fall back to was asked.
THEOREM AllAsked == Spec => []NobodyLeftToAsk
<1>1. ASSUME MInv PROVE NobodyLeftToAsk
  <2> SUFFICES ASSUME result.status = "THROTTLED"
               PROVE  /\ result.model = At
                      /\ \A i \in DOMAIN path :
                           Fallback(path[i]) # 0 =>
                             \E j \in DOMAIN path : path[j] = Fallback(path[i])
    BY DEF NobodyLeftToAsk
  <2>1. path # <<>> /\ result.model = At /\ Fallback(At) = 0
    BY <1>1 DEF MInv, ResultTells
  <2>2. At = path[Len(path)] /\ Len(path) \in Nat \ {0} /\ DOMAIN path = 1 .. Len(path)
    BY <1>1, <2>1, AtFacts
  <2>3. ASSUME NEW i \in DOMAIN path, Fallback(path[i]) # 0
        PROVE  \E j \in DOMAIN path : path[j] = Fallback(path[i])
    <3>1. i # Len(path)
      BY <2>1, <2>2, <2>3
    <3>2. i \in 1 .. Len(path) - 1 /\ i + 1 \in DOMAIN path
      BY <2>2, <3>1
    <3>3. path[i + 1] = Fallback(path[i])
      BY <1>1, <3>2 DEF MInv, Chained
    <3> QED BY <3>2, <3>3
  <2> QED BY <2>1, <2>3
<1> QED BY <1>1, MInvHolds, PTL

\* The stack is exhausted only where fallbacks lead back to a model of the path: it reaches
\* over all models, so that either one was asked twice, and from there on the path repeats
\* itself, or all were asked.
THEOREM CirclesOverflow == Spec => []OverflowsOnlyInCircles
<1>1. ASSUME MInv PROVE OverflowsOnlyInCircles
  <2> DEFINE n == Len(path)
             next == Fallback(At)
  <2> SUFFICES ASSUME result.status = "RecursionError" PROVE \E i \in DOMAIN path : path[i] = next
    BY DEF OverflowsOnlyInCircles
  <2>1. path # <<>> /\ n = StackDepth /\ next # 0 /\ manifest \in Manifests
    BY <1>1 DEF MInv, ResultTells, Shape
  <2>2. /\ n \in Nat \ {0} /\ At = path[n] /\ path \in [1 .. n -> DOMAIN Models]
    BY <1>1, <2>1, AtFacts
  <2>3. next \in DOMAIN Models
    BY <2>1, FallbackFacts
  <2>4. \A i \in 1 .. n - 1 : path[i + 1] = Fallback(path[i])
    BY <1>1 DEF MInv, Chained
  <2>5. /\ Len(Models) \in Nat /\ DOMAIN Models = 1 .. Len(Models) /\ Len(Models) <= n
    BY <2>1, ModelFacts, RouterAssumption DEF Models, RouterAssumption
  <2> HIDE DEF n
  <2>6. CASE \E i, j \in 1 .. n : i < j /\ path[i] = path[j]
    <3> DEFINE Again == {j \in 1 .. n : \E i \in 1 .. n : i < j /\ path[i] = path[j]}
    <3>1. PICK j \in Again : \A k \in Again : j >= k
      <4>1. n \in Nat /\ Again \in SUBSET (1 .. n) /\ Again # {}
        BY <2>2, <2>6
      <4> HIDE DEF Again
      <4> QED BY <4>1, GreatestOf
    <3>2. PICK i \in 1 .. n : i < j /\ path[i] = path[j]
      OBVIOUS
    <3>3. j = n
      <4> SUFFICES ASSUME j # n PROVE FALSE
        OBVIOUS
      <4>1. path[i + 1] = path[j + 1]
        BY <2>2, <2>4, <3>2
      <4>2. j + 1 \in Again
        BY <2>2, <3>2, <4>1
      <4> QED BY <3>1, <4>2
    <3>4. path[i + 1] = next /\ i + 1 \in 1 .. n
      BY <2>2, <2>4, <3>2, <3>3
    <3> QED BY <2>2, <3>4
  <2>7. CASE \A i, j \in 1 .. n : i < j => path[i] # path[j]
    <3>1. path \in Injection(1 .. n, DOMAIN Models)
      BY <2>2, <2>7 DEF Injection, IsInjective
    <3>2. /\ IsFiniteSet(DOMAIN Models) /\ Cardinality(DOMAIN Models) = Len(Models)
          /\ Cardinality(1 .. n) = n
      <4>1. IsFiniteSet(1 .. Len(Models)) /\ Cardinality(1 .. Len(Models)) = Len(Models)
        <5>1. /\ IsFiniteSet(1 .. Len(Models))
              /\ Cardinality(1 .. Len(Models)) =
                   IF 1 > Len(Models) THEN 0 ELSE Len(Models) - 1 + 1
          BY <2>5, FS_Interval
        <5> QED BY <2>5, <5>1
      <4>2. Cardinality(1 .. n) = n
        <5>1. Cardinality(1 .. n) = IF 1 > n THEN 0 ELSE n - 1 + 1
          BY <2>2, FS_Interval
        <5> QED BY <2>2, <5>1
      <4> QED BY <2>5, <4>1, <4>2
    <3>3. Cardinality(1 .. n) <= Cardinality(DOMAIN Models)
      BY <3>1, <3>2, FS_Injection
    <3>4. path \in Surjection(1 .. n, DOMAIN Models)
      BY <2>5, <2>2, <3>1, <3>2, <3>3, FS_Injection
    <3> QED BY <2>2, <2>3, <3>4 DEF Surjection
  <2> QED BY <2>6, <2>7
<1> QED BY <1>1, MInvHolds, PTL

------------------------------------------------------------------------------
\* What is asked, and how often.
Calling ==
  /\ call \in [role : ModelRoles, permission : Asked]
  /\ calls \in 0 .. MaxCalls

\* Whatever adapters do, the router's state stays of its types: the places on the path and
\* in the results and records are those of models of the manifest, and the path no longer
\* than the stack is deep.
THEOREM RouterTypeCorrect == Spec => []RTypeOK
<1>1. Init => Calling
  BY RouterAssumption DEF Init, Calling, RouterAssumption, ModelRoles
<1>2. Calling /\ [Next]_vars => Calling'
  <2> SUFFICES ASSUME Calling, [Next]_vars PROVE Calling'
    OBVIOUS
  <2>1. ASSUME NEW role \in ModelRoles, NEW permission \in Asked, Call(role, permission)
        PROVE  Calling'
    BY <2>1, RouterAssumption DEF Call, Calling, RouterAssumption
  <2>2. CASE Route
    BY <2>2 DEF Route, Ask, Answer, AdapterFails, FallBack, Calling
  <2>3. CASE UNCHANGED rvars
    BY <2>3 DEF rvars, Calling
  <2> QED BY <2>1, <2>2, <2>3 DEF Next, vars
<1>3. MInv /\ Calling /\ LimiterTypeOK => RTypeOK
  BY DEF MInv, Shape, Calling, RTypeOK
<1> QED
  BY <1>1, <1>2, <1>3, MInvHolds, RouterKeepsLimits, LimiterTypeCorrect, PTL
     DEF Spec, KeepsLimits
==============================================================================
