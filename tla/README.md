# A verification project for Agent-Analysis

Agent-Analysis is a harness around coding agents. A task type selects a fixed
chain of handlers; the handlers gather evidence, ask gates, and one of them, a
verifier, decides; the harness alone says PASS, FAIL or BLOCKED. A control API
creates runs, executes their chains, takes verifier decisions and lets a PR be
gated. What must never happen is a PASS nobody earned: by the agent's own word,
by a step left out, by evidence that is not of the tree under review, or by two
requests that overlap. This directory holds TLA+ models of that machinery, the
TLC runs that check them and the proofs TLAPS checks.

Paths below are relative to `src/`; `app/` is `backend/app/`.

## Parts of the system

| Part | State | Operations | What makes it correct | Module |
|---|---|---|---|---|
| Chain executor, `app/chains/` | results, verifier decision, PR status, final status, checkpoints, the repository snapshot | `execute`: resolve, dispatch, enforce, record, stop | PASS only on a standing verifier PASS with no objection and nothing left out; checkpoints that replay the run; no unauthorised change goes on; it ends | `ChainExecutor`, abstractly `HarnessVerdict` |
| Registry and authority, `app/chains/registry.py`, `app/handlers/authority.py` | none (tables) | `resolve_chain`, `can_*` | every chain as registered | `ChainRegistry` |
| Handlers, `app/handlers/` | the `ChainContext` they share, the artifacts and ledger, the request's metadata | one `handle` each | evidence kept, of one tree, in scope; independent verdict; records that agree; tests run and passed; failure reproduced first | `ChainHandlers` |
| Change capture, `app/runners/git_runner.py`, `app/chains/context.py` | commit, index, working tree; two snapshots; the captured diff and names | five git commands, `snapshot_repo` file by file | the diff is of the tree that was hashed, and is the whole change | `ChangeReview` |
| Hard gates, `app/gates/` | none | pure functions | each denies what its document says | as operators of the modules that ask them |
| Control API and run repository, `app/api/`, `app/storage/run_*.py`, `app/runtime/workspace_allocator.py` | run records (state, verdict, attempts), evidence directories | create, plan, execute, verify, PR | evidence never overwritten, attempts accumulate and are numbered | `RunService` |
| Identities, `app/api/routes_*.py` | which run, task and agents each record and ledger names | the same, over several runs | evidence and ledgers belong to the run they support; PR only under PASS | `RunIdentity` |
| Durable repository, `app/storage/postgres_run_repository.py` | `runs` row and five projected tables, transactions, the lock on the row | `save` statement by statement, `get` | projection and snapshot agree, nothing half-written, no refusal, no deadlock | `Persistence`, abstractly `RecordStore` |
| Command runner, sandbox, `app/runners/` | none | run a command | exit code or timeout, never a guess | outcomes, in `ChainHandlers` |
| Agent runtime, tools, parsing, `app/agents/`, `app/tools/`, `app/parsing/` | invocation counter | invoke, run a tool, quarantine | words never evidence | as the analyst step uses them |
| Model router, rate limiter, policy gate, `app/llm/`, `app/gates/model_policy_gate.py` | tokens, clock, invocation records | `invoke_role`, `_fallback`, `allow` | bounded rate, only allowed models, comes back | `RateLimiter`, `ModelPolicy`, `ModelRouter` |
| State machine, retry budget, `app/state_machine.py`, `app/retry_budget.py` | attempts used | guard a transition, consume | | not modelled |
| Schemas, model API, legacy analysis workflow | none | field declarations, a straight line of writes | | not modelled |

How they interact: an API endpoint gets a record from the repository,
`execute_chain` allocates an attempt, builds an `ArtifactStore` under the attempt's
id and calls `ChainExecutor.execute` synchronously in the endpoint's thread; the
executor calls the handlers one by one over one `ChainContext`; the handlers
call gates (pure), runners (subprocesses over the checkout), the store and the
ledger. The endpoints are plain functions, which FastAPI serves from a pool of
threads: requests about one run do overlap, and nothing in the code keeps them
apart. The checkout is a directory other processes can write.

## Hard behaviours

`PROJECT.json` lists every hazard at its line. They come in four families:

1. **Sequences of answers.** A handler may answer any pair of status and
   decision; only the executor keeps the combinations from making a PASS.
2. **The tree moves.** Evidence is gathered by many commands at many times, and
   the only guard is a comparison of hashes after each handler.
3. **Requests overlap.** Read-modify-write of a run's record, with a shared
   object in memory and a stale copy on the durable store; an attempt's number
   is derived from what it will later change.
4. **Things stop half-way.** A handler raises, a command times out, a statement of
   a transaction fails, the server dies between the files and the record.

## Modules

`ChainRegistry` — the constant tables. A handler is named as in the source less the
suffix `Handler`.

`HarnessVerdict` — the abstract specification of one run: a standing verdict that
may be replaced, objections, and one closing, PASS only while the verdict is PASS
and nobody objected. Nothing of handlers or chains.

`ChainExecutor` — `ChainExecutor.execute` for arbitrary task types with arbitrary chains
(`ChainOf`), arbitrary `Outcomes` and an arbitrary repository. The variable `task` is the
request's task type and `Chain` the chain it resolves to; a run considers every task
type in `Tasks`. `Deferred`, `NotApplicable`, `Invoke` then
`Return`, and `Finish` are the branches of the loop; `Record` is all it does with a
result (append, vote, PR status, checkpoint, stop or go on); `Enforced` is
`_enforce_no_repo_mutation`. Between `Invoke` and `Return` the repository may change
any number of times (`Touch`), and `Raise` ends the run at any point, for an
exception or a crash. `Verdict` is the refinement mapping to `HarnessVerdict`, and
`KeepsPromise` is the abstract specification. That the loop ends is not in question: it is
a `for` over a fixed chain.

`ChainHandlers` — extends `ChainExecutor`: each handler is an action with its own
reads of the request, the context (`ctx`) and the tree, and its own artifacts
(`store`), in place of the executor's arbitrary `Return`. `Respond` is the common
shape. The gates several handlers aggregate are operators named for them.
`seen` is a history of the contents the tree has had while the handler at hand
runs: whatever the handler reads, it may read from any of those, one per command it
runs, which is how `DiffCapture` may see a diff of one tree and a file list of
another. Git's list of changed files (`GitLists`) is against the index and from a command
whose return code nobody looks at: the history field `whole` of `ctx` says whether it is
what has changed against HEAD, and if not, the list may be any; how it comes to be
partial is `ChangeReview`'s. `AgentWords` are the names under which the agent's words are
stored, those the gates know (`QuarantinedNames`) and those only the recorder and the
parser do. An exit code passes through what the test runner makes of it (`OutcomeOf`)
before the test gate sees it. `RunsAsExecutor` says that all this is still an execution of
`ChainExecutor`. A fact of the request only one handler looks at (are the
acceptance criteria testable? do the scans find something?) is a choice where it is
looked at; those that several look at are in `req`.

`ChangeReview` — one capture and review in detail: `GitRunner.capture` as the
commands it runs (HEAD at the start of the attempt, `add -N`, `diff`, `diff --check`,
`diff --name-only`), each over commit, index and working tree as they are at that
moment; `snapshot_repo` before and after, one file at a time; the diff capture's own
verdict and the scope gate. Contents are versions: what is written is newer than all
before it, and `Return` alone brings an old one back. Others edit, stage, commit
and take back at any moment, and each command but HEAD may go unheard, because nobody
looks at its return code. `history` records what of this has happened, so that the
properties can say under what circumstances they hold. `ChainHandlers` has the same
handler against whole trees; here a tree is files and git has an index.

`RunService` — the endpoints over one run id, cut where another thread can come
between: get, the steps of the endpoint, save. `deployment` says which repository
there is and how many requests are served at a time: the in-memory repository hands
out the object it stores, so that a change is visible before it is saved, and the
durable one hands out copies and replaces the record. Objects nobody refers to any
more are reset to `Garbage`, which keeps the state space finite. `execution`
identifies the chain execution whose bytes are in an attempt's directory; a recorded
attempt holds the execution whose hashes it records. An execution may fail anywhere,
and the service may restart, which ends every request and, in memory, the record.

`RunIdentity` — the same endpoints over several run and task ids, one request at a
time: which run, task and agents each manifest, request, report and ledger names or
leaves out, and what the service makes of it (the checks of `execute_chain`, the identity it adopts,
the made-up run id, the manifest, evidence, verifier-independence and PR
gates with the rules that concern identities).

`RecordStore` — the abstract specification of a repository: a record that is replaced
in one step. `Persistence` — `PostgresRunRepository.save` as the statements it executes:
upsert of the `runs` row, which takes the row's lock (`writer`), attempts, and the
delete and insert of artifacts, handler results, gate results and decisions, into a
draft that a commit publishes and a failure discards. `Store` is the refinement mapping,
and `SavesAsOneStep` says that whoever reads sees whole records only.

`RateLimiter` — the token buckets of `llm/rate_limit.py` in whole parts of a token, over
a clock that only moves forward; `watched` is a history variable that counts what one
model was allowed since one moment. `ModelPolicy` — `model_policy_gate`. `ModelRouter` —
`invoke_role`, `_invoke` and `_fallback` over both: `path`, the models asked, stands for
the stack of the recursion, and `StackDepth` for the interpreter's limit on it. The
router takes any manifest; that the gate admitted it is a premise of the properties that
need it, because the router does not ask.

`MC*` — the instances for TLC (`ChangeReview` needs none). `*Proofs` — the theorems
and their proofs.

Operators whose comment begins with `Mutant:` are deliberately wrong variants, each of
the definition that follows it. No specification uses them. With one in the place
of its definition, the property `PROJECT.json` names beside it fails, which shows that
the property watches that code.

## Runs

All behaviours but the service's come to an end, because a chain does or because what
the environment may do is bounded, so those runs do not check for deadlock. The service
can always restart and its runs check it.

| Run | Asks | Bound |
|---|---|---|
| `MCChainExecutor` | Can any order of answers, votes, edits of the tree and ends make an unearned PASS, a checkpoint that misleads, or a change that slips through? Is the promise kept? | one chain with a write handler, a check, two verifiers, a stop and an unregistered handler, and a shorter one that can run out of handlers; nine answers; three contents |
| `Chains` | The seven registered chains in full: is the evidence of one tree, not overwritten and free of the agent's words, is the verdict independent and do report, ledger and run say it together, is no failed scan passed over, is the listed change in scope and the real one, were tests run and did none fail, did the failure come first, is every handler's step one of the executor's? | two contents and a missing directory, two files, one command, two run ids per task |
| `ChangeReview` | Is the diff of the tree the snapshots hashed? Does a review that passed cover the whole change? Did the scope gate see all of the diff, whichever other command failed? | two files, one out of scope; two edits, one staging, commit or return; any initial commit, index and tree |
| `RunService` | Where are evidence, attempts and numbers what the record says, and what is left where requests collide? | both repositories, each with one and with two requests at a time; three objects, three executions, two creations |
| `RunIdentity` | Is evidence the run's and its task's, a ledger one run's, PR_GATE always under a PASS? | three run ids, one of them made up; two tasks, three agents, one attempt per run |
| `Persistence` | Are the audit rows the snapshot's, does no final PASS stand beside another decision, is nothing refused, is a save one step, does it end? | two threads, two executions, two creations; three chain outcomes, two reported decisions |
| `ModelRouter` | Is a model's rate kept, are answers by allowed models, has everybody been asked, does every call come back? | two calls of any role; three models with fallbacks to one another, to themselves and to nowhere; registries the gate refuses for each of its reasons; a minute of two ticks, rates up to two, a clock of three; a stack of three |

Why the bounds suffice. The executor looks at answers one at a time and keeps only
the last vote, so two verifiers and one handler of each kind give every pattern of
replaced vote, objection and stop; contents are only compared for equality, and
three distinguish start, edit and second edit. The handlers are run on the chains as
registered, so there the length is not a bound; two contents and two files separate
in scope, out of scope and denied, one command with four exits separates every
branch of the gates over lists, and the run ids are the empty one and, for each chain,
either an agent's or the one its verifier takes by default, which is the only coincidence
a caller can bring about (`MCRunIds`). The longer chains take the requests that bear on
the question (`AuditRequests`, `UpdateRequests` …; the dependency chain, the longest,
those with one file in scope).
REFACTOR and TEST_COVERAGE_EXPANSION resolve to the implementation chain, and no
handler tells them from IMPLEMENTATION. `Reverts` is FALSE in the handlers' runs: an edit
that is written and put back between two hashes is not seen by the program, and the
properties about trees do not hold under it; the executor's runs allow it, and so do the
proofs of all but those two properties, which assume `~Reverts` by name.

Two requests are enough for every pairwise race of get and save, and three executions
let a race be followed by a retry. A file is hashed twice and shown twice, so two edits
can fall on either side of any of these, and a second file lets one be early where the
other is late. A bucket holds one token per call and minute and both watched intervals
(none, and longer than it takes to fill) occur with rates one and two. A fallback chain
longer than the models must come back to one, which a stack of three over three models
shows. Where a bound looks tight there is a theorem without it (below).

What they show, besides that the properties hold:

- A repository edited by somebody else under a chain never leads to a pass on mixed
  evidence (`OneTree`, `RealChangesInScope`, and in detail `DiffIsOfOneTree`), because
  the comparison after every handler catches it, as long as the directory is there at
  the end (once it is deleted the executor compares nothing) and no file is put back
  in between.
- The only write handler, AgentInvocation, gains nothing by its permission: the next
  handler that really runs is compared with the start of the run and stops it
  (`ChangeNeedsWriter`), with a message that names itself and not the one before.
- A review covers the whole change (`WholeChangeReviewed`) only if nothing is staged or
  committed, no command fails unheard and no new file is hidden from `git add`.
- In memory, overlapping executions lose no attempt but may give two the same number; on
  the durable store numbers stay in order but attempts may be lost. On neither is a
  number ever beyond its place (`NumberedWithinPlace`).
- A save of many statements is one step to whoever reads, and two saves cannot wait for
  each other, because every one begins with the row of `runs`.
- The fallbacks of an admitted registry may go round: such a call may end in
  the interpreter's RecursionError, and no other does (`OverflowsOnlyInCircles`).

Five runs expect a violation. Each checks one sentence the repository says of the
program, and TLC shows a behaviour of the code that contradicts it:

| Run | The repository says | The code does |
|---|---|---|
| `ChainDependencyBuild` | BuildHandler mirrors TestRunnerHandler (`app/handlers/dependency.py:14`) | a build that timed out passes (`app/handlers/dependency.py:186`) |
| `RunServiceCollision` | evidence of different attempts never collides (`app/storage/artifact_store.py:29-30`) | overlapping executions share an attempt id (`app/runtime/workspace_allocator.py:63`) |
| `ModelRouterIndependence` | the verifier's model is independent from the coding agent's (`app/gates/model_policy_gate.py:3-6`) | an admitted registry may let the verifier fall back to the coding agent's model, which then answers (`app/llm/base.py:95`) |
| `CaptureStaged` | the diff is against HEAD (`app/runners/git_runner.py:64`) | it is against the index, so that a staged change is in no diff (`app/runners/git_runner.py:71`) |
| `ChainMissingExit` | a missing exit code fails the test gate (`app/gates/test_gate.py:65-66`) | an outcome supplied without one enters the gate as 0 and passes, its own log a FAIL (`app/handlers/implementation.py:212`) |

The last one is the other side of `TestsPassed`, which leaves such outcomes out.

Noticed while modelling, visible in the definitions, and checked by no run:

- `RunsReproduction`: what the reproduction stores, nobody reads again, although the
  comment at `app/handlers/implementation.py:330` has the verifier confirm that it
  flipped to passing.
- The documentation chain's evidence gate requires a TEST artifact
  (`app/handlers/control.py:100`), where `docs/chain_of_responsibility.md:69` says that
  tests are NOT_APPLICABLE.
- `Abandon`: an execution that raises is in no record (`app/api/routes_chains.py:223`),
  so the retry takes its number and writes over its files, where
  `docs/workspace_isolation.md:7` says that a retry mints the next attempt.
- On the durable store a stale save drops an attempt another request has stored
  (`app/storage/postgres_run_repository.py:90`), where `app/api/routes_chains.py:226`
  says that retries accumulate.
- Two requests at a time, a PASS can be overturned between the check of `POST /pr` and
  its write (`app/api/routes_runs.py:150-166`); `AtPrGateUnderPass` is of one at a time.
- `StopOrLoop`: the ledger is finalized "with the run decision" (`app/handlers/control.py:117`)
  before the executor vets the handler's answer: the ledger of a run that is BLOCKED then
  says PASS. This is `Overruled`, the exception `VerdictIsRecorded` names.
- `Enforced`: once the repository's directory is gone the executor compares nothing
  (`app/chains/chain_executor.py:154`) and the run may pass, on whatever mixture it has
  read, where `docs/chain_of_responsibility.md:37-38` says that it blocks whoever
  modifies the repository. And a change is reported under the name of the handler
  at which it is found, which need not be the one under which it was made.
- `Columns`: a chain that ended BLOCKED or FAIL after its verifier's PASS stands beside a
  verifier decision PASS in the columns of `runs`, which
  `app/storage/postgres_run_repository.py:68-69` says never disagree (`ColumnsAgree` is
  of a final PASS, the case that comment describes, and of records with a report). A stored
  report goes on to hide a later execution that failed, in the columns and from `POST /pr`.
- `VerifyRun` compares the two run ids the report names and never the manifest's
  (`app/api/routes_runs.py:105`): a run's coding agent passes its own work with a report
  that names somebody else as the coding agent, where `app/api/routes_runs.py:94-95` says
  that no self-certified report stands as PASS.
- Rows of `run_attempts` outlive a record that was created anew
  (`AttemptRowsStay`, proved).
- `Unheard`: a failing `git diff --name-only` gives an empty list of changed files, on
  which the scope gate has nothing to say (`app/runners/git_runner.py:73`), so that the
  diff may have anything; a failing `git add -N` leaves new files out of both.
- `DiffCapture`: a candidate diff supplied with a request is never compared with the tree,
  nor its list of files with its diff.
- `EvidencePasses`: an empty ledger passes, a ledger can be sent again for a run created
  anew under its id, and the endpoint that runs a chain without a run binds no identity.
- `Call` asks for the permission of the first model only; a call an adapter failed
  leaves no invocation record; the gate admits fallbacks that go round.

## Refinement

| Property | Says |
|---|---|
| `ChainExecutor.KeepsPromise` | the executor implements `HarnessVerdict` |
| `ChainHandlers.RunsAsExecutor` | the handlers' chains implement `ChainExecutor` |
| `Persistence.SavesAsOneStep` | the transactions implement `RecordStore` |
| `ModelRouter.KeepsLimits` (proved, in no run) | the router uses the limiters by `allow` alone |

## Fairness

- `EveryCallReturns`: every call of the router comes back, under weak fairness of `Route`,
  the calling thread's steps, of which one is that an adapter answers or raises.
- `SavesEnd`: every save commits or fails, under weak fairness of each transaction's
  statements (the thread is scheduled, the database answers) and strong fairness of
  `Upsert`, the one statement that waits: the database grants a row's lock to those in
  line for it, so one that is free again and again is not always another's.

No fairness is assumed of the environment: nobody is made to edit the tree, to raise,
to fail or to crash, nor the clock to go on. The service is not checked for liveness:
a request that fails is not retried by the code.

## Proofs

Each theorem is from its module's named assumption on the constants only
(`ChainAssumption`, `HandlersAssumption`, `RegistryAssumption`, `ReviewAssumption`,
`ServiceAssumption`, `IdentityAssumption`, `PersistenceAssumption`, `LimiterAssumption`,
`RouterAssumption`): for any number of threads, files, ids, models, executions and
whatever else the runs bound. TLC evaluates each of them on the instances of the runs.
`RegistryAssumption` says that the chains and the handlers' types are the tables of
`ChainRegistry`, which are the code's; two theorems, `EvidenceIsOfOneTree` and
`ChangesAreInScope`, assume `~Reverts` besides.

`ChainExecutorProofs`: `TypeCorrect`, `PassEarned` (`PassIsEarned`),
`CheckpointsAreFaithful` (`CheckpointsReplay`), `ChangesNeedWriters`
(`ChangeNeedsWriter`), `ExecutorKeepsPromise` (`KeepsPromise`). `PassIsEarned` is not
inductive: it speaks of the results only when the run has passed, and the step that
passes it needs to know of the open run that the verifier's decision is the last vote
among the results, that nobody has objected so far, and that the results are the chain's
handlers in order. `IInv` is these facts: type correctness,
`VerdictAfter(Len(results), verifier_decision)`, `RanInOrder`, `OpenRun` (while open: no
objection, no stop, no final status) and `ClosedRun` (what holds after). Every branch of
the loop that records goes through `Record`, so the work is one lemma, `RecordPreserves`,
whose only hard part is that appending a result moves the last vote as
`verifier_decision` moves (`VerdictOfAppend`). The checkpoints and the tree have
invariants of their own over `IInv`. The refinement maps each recording step to `Vote`,
`Close` or a stutter.

`ChainHandlersProofs`: every handler's action is the executor's `Return`, hence
`HandlersRunAsExecutor`, for any chain of these handlers and any requests, and so the
theorems above for the repository's own handlers (`HandlersPassEarned` and its two
companions). The other theorems are about the registered chains and state every invariant
of the handlers' run: `HandlersTypeCorrect` (`HTypeOK`), `EvidenceIsKept`
(`EvidenceKept`), `VerdictsAreIndependent` (`IndependentVerdict`), `VerdictsAreRecorded`
(`VerdictIsRecorded`), `FailuresAreNotPassedOver` (`NoFailedEvidence`), `TestsArePassed`
(`TestsPassed`), `FailuresComeFirst` (`FailureFirst`), `EvidenceIsOfOneTree` (`OneTree`)
and `ChangesAreInScope` (`RealChangesInScope`). They hold for any requests, files,
contents, commands and run ids. The argument has three layers.

- *The order of the chains.* `ChainsOrdered` is all that is ever used of the seven
  sequences: a handler, and likewise an agent or a verifier, occurs once (`Group`); what a
  verdict depends on comes before the verifier; the agent comes before the diff; the
  verifier of a chain with tests is the one that looks at tests; a repair reproduces
  before the diff. A new chain with this order keeps every theorem, and the lemma fails
  for one without it.
- *The contract of the handlers.* `Handles` says what a handler may do when it answers:
  store artifacts of its own names (`Writer`), answer FAIL or BLOCKED if one of them is a
  failure that is not a test's, read only what the tree held meanwhile, and leave alone
  the fields of the context that are not its to write; and what more the diff capture,
  the reproductions and the verifiers do. `StepCases` proves that every action of every
  handler keeps to it, `StopOrLoop` apart, so the handlers' code is looked at once.
- *The invariant.* `HInv` is inductive under that contract. None of the properties is so
  by itself: nearly all say something only once the run has passed, when the handlers
  they are about are long done. `Written` ties each artifact to a handler that has run,
  so that a later one cannot use its name, and the presence of a diff tells that the diff
  capture ran. `NothingFailed` speaks of the run while it is open. `Stands` keeps, for a
  standing PASS, what its verifier looked at, because everything that could change it
  comes earlier in the chain. `Stops` knows the ledger to be open while the run is, and
  what it says after; `Ended` how the last answer closed the run; `Reported` that a
  report of PASS is the standing verdict's, unless it was overruled.
  `Reproduced` has the failure in the store as soon as the run went on after a
  reproduction. `OneRead` says that as long as the tree is what it was it has been
  nothing else, which is where `~Reverts` is needed.

The limits of these theorems are those of the code. The listed files are in scope, whoever
listed them; that they are the real changes is said of a `whole` list only, not of a
diff supplied with the request, of changes staged or committed or of a git command that
failed. A tree that is gone at the end is exempt from both theorems about trees, an outcome
supplied without its exit code from `TestsPassed`, and an overruled last answer
(`Overruled`) from `VerdictIsRecorded`, which is otherwise an equivalence.

`ChangeReviewProofs`: `OneTreeReviewed` (`DiffIsOfOneTree`), `WholeReviewed`
(`WholeChangeReviewed`), `ReviewedInScope` (`DiffInScope`). Neither snapshot is of one moment. The argument is that
versions only grow while nobody takes one back, so that at every command a file either
is what the first snapshot has of it or has `Moved` beyond that for good; in the latter
case the second snapshot differs from the first, and the review is not reached.

`RunServiceProofs`: `NumberedWithin`, `Numbered` (`AttemptsAreNumbered`), `EvidenceStays`
(`EvidenceIntactInTurn`), `AttemptsStay` (`AttemptsAccumulateUnlessStale`). Any record a
thread holds may be the stored one next, and an attempt that runs is in no record yet,
so `AInv` says of every record that it is `Good` and of every running attempt that it
`Fits` on the end of the record it will join; and who holds what (on the durable store
nobody shares an object). `EInv` adds what holds one request at a time: the held record
extends the stored one, and both have their evidence. `CInv` counts creations: in memory
two records in use at a time are of different creations.

`RunIdentityProofs`: `EvidenceIsOwn` (`EvidenceIsTheRuns`), `LedgerOfOneRun`
(`OneRunPerLedger`), `GateUnderPass` (`AtPrGateUnderPass`). The properties are about
pairs of requests that may be far apart; `Sound` is what each record keeps of them (its
PASS has a ledger that names this run, its state PR_GATE a PASS, its artifacts this run).

`PersistenceProofs`: `AuditAgrees` (`AuditIsOfSnapshot`), `ColumnsAreOne` (`ColumnsAgree`,
where the assumption on `Outcomes` says what `PassEarned` proves of the executor, that a
chain passes only on its verifier's PASS), `RowsAreCurrent`
(`AttemptRowsAreCurrent`), `SavesAreSteps`
(`SavesAsOneStep`), and two that no run checks, `RowsStay` (`AttemptRowsStay`) and
`ForeignKeyHolds` (`NoSaveRefused`, without which `SavesEnd`, which is checked, would fail). What is
committed is right because the draft was, so `PInv` says for each statement what the
draft has of the record when it is reached (`HalfWay`), and that only the holder of the
lock is past the first one (`OneWriter`).

`RateLimiterProofs`: `RateIsKept` (`WithinRate`): over every interval a model is allowed
at most a full bucket and what the interval refills. Tokens left are calls still to
come, so `LInv` counts both, and counts the refill only up to the bucket's last one.
`LimiterTypeCorrect` adds that rates stay the manifest's (`LRates`).

`ModelRouterProofs`: `RouterKeepsLimits` (`KeepsLimits`), hence `RouterWithinRate`;
`AllowedAnswer` (`AnswersAreAllowed`), `AllAsked` (`NobodyLeftToAsk`), `CirclesOverflow`
(`OverflowsOnlyInCircles`). All rest on `MInv`: each model on the path is the one the
model before falls back to. The last adds a counting argument: a path longer than the
models repeats one, and from a repetition on it repeats. `RouterTypeCorrect` (`RTypeOK`)
adds to it what was asked and how often (`Calling`); its assumption, like the code, lets a
call be made without a permission (`None \in Asked`).

Every invariant and action property of the passing runs is stated by a theorem. Only
model-checked are the liveness properties (`EveryCallReturns`, `SavesEnd`),
because fairness and ENABLED are beyond the prover. The runs remain the check that the
theorems are not empty: they reach the states the properties speak of, and the
assumptions on the constants hold in them.

## Not modelled

- What a handler had written before it raised (`Raise` leaves the store as it was).
- A model without a limiter (`app/llm/base.py:78-79`): the limiters the router makes itself
  cover every model of the manifest, and only a caller's own map could leave one out.
- The contents of reports, scores and findings; patterns, advisories and licence
  lists; the rules of manifests, scrum mappings and strategic reviews that relate to
  nothing else here. Each is a choice of pass or fail where the code asks.
- `PRCreationHandler`, which no chain names, and `Deferred`, `NotApplicable` and
  `Finish` for the registered chains, which cannot reach them: all their handlers are
  registered and applicable, and they end in StopOrLoop. `ChainExecutor` has all three.
- `app/state_machine.py` and `app/retry_budget.py`: no part of the program calls them
  outside their tests, so there is no behaviour that drives them; a model would have to
  invent one.
- The legacy analysis workflow: a straight line of writes by one thread, which the audit
  chain has replaced. Schemas, the model catalog and the model API: declarations,
  tables and stateless reads.
- The sandbox's and the workspace policy's rules for command lines and paths, which are
  about the shell's words and the file system's links; whether they refuse is a choice.
- The record's encoding as JSON: `Persistence` keeps what the projection reads of it.
- Rounding: the limiter's tokens are floating-point numbers in the code and exact
  fractions here. Its lock-free `allow` is one step: only tests make a router
  so far, and nothing shares one between threads.
- Requests that overlap over several run ids: records, directories and saves are per run
  id, so `RunService` has the overlap and `RunIdentity` the ids.

What would come next: the safety half of the liveness properties (that each step of a
call, a chain or a save brings its end nearer, for chains, registries and records of any
length), the gates' remaining rules against reference definitions, and the sandbox's
allowlist over a small grammar of command lines.
