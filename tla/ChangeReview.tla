---------------------------- MODULE ChangeReview -----------------------------
(***************************************************************************)
(* What a chain reviews of a working tree: GitRunner.capture, which asks   *)
(* git five times; DiffCaptureHandler, which makes of it the diff and the  *)
(* changed files; the executor's snapshots of the tree around it; and the  *)
(* scope gate over the changed files.  The coding agent works out of band: *)
(* whoever has the tree may edit, stage and commit at any moment.          *)
(***************************************************************************)
EXTENDS Integers, FiniteSets

CONSTANTS Files,     \* the files there can be
          InScope,   \* those the request has in scope
          OutScope,  \* those it has expressly out of scope
          Spaced,    \* the versions whose change git diff --check objects to
          MaxEdits,  \* bound on the versions written after the beginning
          MaxMoves   \* bound on staging, committing and restoring

ASSUME ReviewAssumption ==
  /\ IsFiniteSet(Files)
  /\ InScope \subseteq Files /\ OutScope \subseteq Files
  /\ MaxEdits \in Nat /\ MaxMoves \in Nat

Absent == -1    \* no such file
Intended == -2  \* in the index, with the intent to add it and no content

Versions == 0 .. MaxEdits
Commands == {"add", "diff", "check", "names"}

VARIABLES
  head,     \* the version of each file in the commit
  index,    \* in the index
  tree,     \* in the working tree
  hidden,   \* files git add would not find: ignored, or not below the path
  pc,       \* where the chain is
  base,     \* the commit the attempt was recorded against
  first,    \* the executor's snapshot, as far as it is taken
  second,   \* the one it compares with it
  diff,     \* the captured diff: for each file in it, from what to what
  clean,    \* git diff --check found nothing
  changed,  \* the captured file names
  edits,    \* versions written since the beginning
  moves,    \* times somebody staged, committed or restored
  history   \* what has happened that a capture can miss

vars == <<head, index, tree, hidden, pc, base, first, second, diff, clean, changed,
          edits, moves, history>>

Repo == <<head, index, tree, hidden>>
Captured == <<base, first, second, diff, clean, changed>>
Others == <<edits, moves, history>>

Places == {"idle", "hashing", "add", "diff", "check", "names", "rehashing", "review",
           "passed", "failed", "blocked", "raised"}

None == [f \in {} |-> Absent]

\* The files git diff shows: what the index has and the working tree has otherwise.
\* What is staged is the same in both, and what is not in the index is not looked at.
Shown == {f \in Files : index[f] # Absent /\ tree[f] # index[f]}

------------------------------------------------------------------------------
\* A tree with files that are committed, staged, edited or new.
Init ==
  /\ head \in [Files -> {0, Absent}]
  /\ index \in [Files -> {0, Absent, Intended}]
  /\ \A f \in Files : index[f] = Intended => head[f] = Absent
  /\ tree \in [Files -> {0, Absent}]
  /\ hidden \in {h \in SUBSET Files : \A f \in h : head[f] = Absent /\ index[f] = Absent}
  /\ pc = "idle"
  /\ base = None /\ first = None /\ second = None
  /\ diff = None
  /\ clean = FALSE
  /\ changed = {}
  /\ edits = 0 /\ moves = 0
  /\ history = [staged |-> \E f \in Files : index[f] # head[f] /\ index[f] # Intended,
                returned |-> FALSE, unheard |-> {}]

\* WorkspaceAllocator records HEAD, the executor goes on to its snapshot.
Begin ==
  /\ pc = "idle"
  /\ base' = head
  /\ pc' = "hashing"
  /\ UNCHANGED <<Repo, first, second, diff, clean, changed, Others>>

\* Mutant: the snapshot is of what is staged.
HashStaged(snapshot, f) ==
  [g \in DOMAIN snapshot \cup {f} |-> IF g = f THEN index[f] ELSE snapshot[g]]

\* snapshot_repo hashes one file after the other, as it is just then.
Hash(snapshot, f) ==
  [g \in DOMAIN snapshot \cup {f} |-> IF g = f THEN tree[f] ELSE snapshot[g]]

HashFirst(f) ==
  /\ pc = "hashing"
  /\ f \notin DOMAIN first
  /\ first' = Hash(first, f)
  /\ pc' = IF DOMAIN first' = Files THEN "add" ELSE pc
  /\ UNCHANGED <<Repo, base, second, diff, clean, changed, Others>>

\* git add -N .
AddIntent ==
  /\ pc = "add"
  /\ index' = [f \in Files |-> IF index[f] = Absent /\ tree[f] # Absent /\ f \notin hidden
                                 THEN Intended ELSE index[f]]
  /\ pc' = "diff"
  /\ UNCHANGED <<head, tree, hidden, Captured, Others>>

\* git diff
Diff ==
  /\ pc = "diff"
  /\ diff' = [f \in Shown |-> [from |-> index[f], to |-> tree[f]]]
  /\ pc' = "check"
  /\ UNCHANGED <<Repo, base, first, second, clean, changed, Others>>

\* git diff --check
Check ==
  /\ pc = "check"
  /\ clean' = \A f \in Shown : tree[f] \notin Spaced
  /\ pc' = "names"
  /\ UNCHANGED <<Repo, base, first, second, diff, changed, Others>>

\* Mutant: the names of new files are left out.
NamesOfOld ==
  /\ pc = "names"
  /\ changed' = {f \in Shown : index[f] # Intended}
  /\ pc' = "rehashing"
  /\ UNCHANGED <<Repo, base, first, second, diff, clean, Others>>

\* git diff --name-only
Names ==
  /\ pc = "names"
  /\ changed' = Shown
  /\ pc' = "rehashing"
  /\ UNCHANGED <<Repo, base, first, second, diff, clean, Others>>

\* A command fails, git add if another git has the index: only that of git diff --check is
\* noticed, the others' output is simply empty.
Unheard(command, next) ==
  /\ pc = command
  /\ pc' = next
  /\ history' = [history EXCEPT !.unheard = @ \cup {command}]
  /\ clean' = IF command = "check" THEN FALSE ELSE clean
  /\ UNCHANGED <<Repo, base, first, second, diff, changed, edits, moves>>

\* A command takes longer than the runner waits: the chain ends with an exception.
TimeOut ==
  /\ pc \in Commands
  /\ pc' = "raised"
  /\ UNCHANGED <<Repo, Captured, Others>>

Rehash(f) ==
  /\ pc = "rehashing"
  /\ DOMAIN second # Files
  /\ f \notin DOMAIN second
  /\ second' = Hash(second, f)
  /\ UNCHANGED <<Repo, pc, base, first, diff, clean, changed, Others>>

\* Mutant: the tree after the capture is not compared.
ConcludeUncompared ==
  /\ pc = "rehashing"
  /\ DOMAIN second = Files
  /\ pc' = CASE diff = None -> "blocked"
             [] diff # None /\ ~clean -> "failed"
             [] OTHER -> "review"
  /\ UNCHANGED <<Repo, Captured, Others>>

\* DiffCaptureHandler's answer, and the executor's if the tree has changed meanwhile.
Conclude ==
  /\ pc = "rehashing"
  /\ DOMAIN second = Files
  /\ pc' = CASE diff = None \/ second # first -> "blocked"
             [] diff # None /\ second = first /\ ~clean -> "failed"
             [] OTHER -> "review"
  /\ UNCHANGED <<Repo, Captured, Others>>

\* Mutant: what is expressly out of scope is not looked at.
ScopeGateAllows(files) == files \subseteq InScope

\* scope_gate as ScopeDiffHandler calls it: nothing approved, nothing protected.
ScopeGate(files) == files \cap OutScope = {} /\ files \subseteq InScope

ReviewScope ==
  /\ pc = "review"
  /\ pc' = IF ScopeGate(changed) THEN "passed" ELSE "failed"
  /\ UNCHANGED <<Repo, Captured, Others>>

------------------------------------------------------------------------------
\* Somebody else at work, from before the chain begins until it has its answer.
Open == pc \notin {"passed", "failed", "blocked", "raised"}

Edit(f) ==
  /\ Open
  /\ edits < MaxEdits
  /\ edits' = edits + 1
  /\ tree' = [tree EXCEPT ![f] = edits + 1]
  /\ UNCHANGED <<head, index, hidden, pc, Captured, moves, history>>

\* The file is taken back to what the index has, or removed: what it was may return.
Return(f) ==
  /\ Open
  /\ moves < MaxMoves
  /\ moves' = moves + 1
  /\ tree' \in {[tree EXCEPT ![f] = Absent],
                [tree EXCEPT ![f] = IF index[f] = Intended THEN @ ELSE index[f]]}
  /\ tree' # tree
  /\ history' = [history EXCEPT !.returned = TRUE]
  /\ UNCHANGED <<head, index, hidden, pc, Captured, edits>>

Stage(f) ==
  /\ Open
  /\ moves < MaxMoves
  /\ moves' = moves + 1
  /\ index' = [index EXCEPT ![f] = tree[f]]
  /\ history' = [history EXCEPT !.staged = TRUE]
  /\ UNCHANGED <<head, tree, hidden, pc, Captured, edits>>

\* A commit takes what is staged and leaves what is only intended.
CommitStaged ==
  /\ Open
  /\ moves < MaxMoves
  /\ moves' = moves + 1
  /\ head' = [f \in Files |-> IF index[f] = Intended THEN head[f] ELSE index[f]]
  /\ head' # head
  /\ history' = [history EXCEPT !.staged = TRUE]
  /\ UNCHANGED <<index, tree, hidden, pc, Captured, edits>>

GitFails ==
  \/ Unheard("add", "diff") \/ Unheard("diff", "check")
  \/ Unheard("check", "names") \/ Unheard("names", "rehashing")

Next ==
  \/ Begin \/ (\E f \in Files : HashFirst(f) \/ Rehash(f))
  \/ AddIntent \/ Diff \/ Check \/ Names \/ GitFails \/ TimeOut
  \/ Conclude \/ ReviewScope
  \/ (\E f \in Files : Edit(f) \/ Return(f) \/ Stage(f)) \/ CommitStaged

Spec == Init /\ [][Next]_vars

------------------------------------------------------------------------------
Partial(values) == UNION {[D -> values] : D \in SUBSET Files}

CTypeOK ==
  /\ head \in [Files -> Versions \cup {Absent}]
  /\ index \in [Files -> Versions \cup {Absent, Intended}]
  /\ tree \in [Files -> Versions \cup {Absent}]
  /\ hidden \subseteq Files
  /\ pc \in Places
  /\ base \in Partial(Versions \cup {Absent})
  /\ {first, second} \subseteq Partial(Versions \cup {Absent})
  /\ diff \in Partial([from : Versions \cup {Absent, Intended}, to : Versions \cup {Absent}])
  /\ clean \in BOOLEAN
  /\ changed \subseteq Files
  /\ edits \in 0 .. MaxEdits /\ moves \in 0 .. MaxMoves
  /\ history \in [staged : BOOLEAN, returned : BOOLEAN, unheard : SUBSET Commands]

\* A review that passed while nobody took a file back reviewed one tree: what the diff
\* shows of a file is what the executor's first snapshot has of it, though neither the
\* snapshots nor the commands are taken at one time and files are written all the while.
DiffIsOfOneTree ==
  pc \in {"review", "passed"} /\ ~history.returned =>
    \A f \in DOMAIN diff : diff[f].to = first[f]

\* The files that differ between the commit the attempt is recorded against and the tree.
Differing == {f \in Files : base[f] # first[f]}

\* A review that passed covers the change: if nothing was staged or committed, git was
\* heard every time and no new file was hidden from it, every file the tree has changed
\* against the attempt's commit is in the diff, was clean and in scope.
WholeChangeReviewed ==
  pc = "passed" /\ ~history.staged /\ ~history.returned /\ history.unheard = {}
    => /\ Differing \ hidden \subseteq DOMAIN diff
       /\ changed = DOMAIN diff
       /\ Differing \ hidden \subseteq InScope \ OutScope
       /\ \A f \in DOMAIN diff : diff[f].to \notin Spaced

\* The diff of a review that passed has no file that is not in scope, whichever other
\* command failed unheard, if the one that asked for the changed files did not: the names
\* the scope gate looks at are asked for after the diff, of a tree that is edited meanwhile.
DiffInScope ==
  pc = "passed" /\ ~history.staged /\ ~history.returned /\ "names" \notin history.unheard
    => DOMAIN diff \subseteq InScope \ OutScope

\* The diff that was just captured is the diff against HEAD, with the new files
\* (git_runner.py:64), as it is while nobody interferes.
CapturedAgainstHead ==
  pc = "check" /\ edits = 0 /\ moves = 0 /\ history.unheard = {} /\ hidden = {} =>
    \A f \in Files : head[f] # tree[f] => f \in DOMAIN diff
==============================================================================
