------------------------- MODULE ChangeReviewProofs --------------------------
(***************************************************************************)
(* What a review that passed is a review of, for every set of files, every *)
(* scope and every number of edits and other moves.                        *)
(*                                                                         *)
(* Neither snapshot is of one moment, nor are the commands between them.   *)
(* But while nobody takes a file back each version of it is later than     *)
(* those before, so a file either was, at every command, what it was in    *)
(* the first snapshot, or has moved on, and the second snapshot will tell. *)
(***************************************************************************)
EXTENDS ChangeReview, TLAPS

USE ReviewAssumption DEF ReviewAssumption

AfterNames == {"rehashing", "review", "passed"}
AfterCheck == AfterNames \cup {"names"}
AfterDiff == AfterCheck \cup {"check"}
AfterAdd == AfterDiff \cup {"diff"}

\* The first snapshot is complete.
Seen == pc \notin {"idle", "hashing"}

\* File f is not what it was in the first snapshot any more, and if it is in the second,
\* it is there as something later.
Moved(f) == first[f] < tree[f] /\ (f \in DOMAIN second => first[f] < second[f])

\* Which snapshots and captures there are yet.
Taken ==
  /\ Seen => DOMAIN first = Files
  /\ pc \notin AfterNames \cup {"failed", "blocked"} => DOMAIN second = {}
  /\ pc \in {"idle", "hashing", "add", "diff"} => DOMAIN diff = {}
  /\ pc \in {"review", "passed"} => second = first /\ clean
  /\ pc = "passed" => ScopeGate(changed)

\* Nobody has taken a file back: versions only grow.
Growing ==
  /\ \A f \in Files : tree[f] <= edits
  /\ \A f \in DOMAIN first : first[f] <= tree[f]

\* What the diff shows of a file.
DiffShows == pc \in AfterDiff => \A f \in DOMAIN diff : diff[f].to = first[f] \/ Moved(f)

\* Nothing is staged: the index is the commit, but for the intents.
Unstaged ==
  /\ \A f \in Files : index[f] = head[f] \/ (index[f] = Intended /\ head[f] = Absent)
  /\ pc # "idle" => base = head

\* A new file that can be found is in the index.
IntentShows ==
  pc \in AfterAdd =>
    \A f \in Files \ hidden : index[f] = Absent => first[f] = Absent \/ Moved(f)

\* The diff has the files that the first snapshot has otherwise than the index.
DiffHas ==
  pc \in AfterDiff =>
    \A f \in Files :
      \/ f \in DOMAIN diff <=> index[f] # Absent /\ first[f] # index[f]
      \/ Moved(f)

CheckTells ==
  pc \in AfterCheck /\ clean => \A f \in DOMAIN diff : diff[f].to \notin Spaced \/ Moved(f)

NamesAreOfDiff ==
  pc \in AfterNames => \A f \in Files : (f \in changed <=> f \in DOMAIN diff) \/ Moved(f)

\* A file of the diff is in the index, and otherwise there than in the first snapshot.
DiffIndexed ==
  pc \in AfterDiff =>
    \A f \in DOMAIN diff : (index[f] # Absent /\ first[f] # index[f]) \/ Moved(f)

NamesCover == pc \in AfterNames => \A f \in DOMAIN diff : f \in changed \/ Moved(f)

RInv ==
  /\ CTypeOK
  /\ Taken
  /\ ~history.returned /\ ~history.staged => DiffIndexed
  /\ ~history.returned /\ ~history.staged /\ "names" \notin history.unheard => NamesCover
  /\ ~history.returned => Growing /\ DiffShows
  /\ ~history.staged => Unstaged
  /\ ~history.returned /\ ~history.staged /\ history.unheard = {} =>
       IntentShows /\ DiffHas /\ CheckTells /\ NamesAreOfDiff

------------------------------------------------------------------------------
LEMMA PartialFacts ==
  ASSUME NEW values
  PROVE  /\ \A p \in Partial(values) : DOMAIN p \subseteq Files /\ p \in [DOMAIN p -> values]
         /\ \A D \in SUBSET Files : \A p \in [D -> values] : p \in Partial(values)
  BY DEF Partial

LEMMA HashFacts ==
  ASSUME NEW values, NEW p \in Partial(values), NEW f \in Files, tree[f] \in values
  PROVE  /\ Hash(p, f) \in Partial(values)
         /\ DOMAIN Hash(p, f) = DOMAIN p \cup {f}
         /\ Hash(p, f)[f] = tree[f]
         /\ \A g \in DOMAIN p \ {f} : Hash(p, f)[g] = p[g]
<1>1. DOMAIN p \subseteq Files /\ p \in [DOMAIN p -> values]
  BY PartialFacts
<1>2. Hash(p, f) \in [DOMAIN p \cup {f} -> values]
  BY <1>1 DEF Hash
<1>3. Hash(p, f) \in Partial(values)
  BY <1>1, <1>2, PartialFacts
<1> QED BY <1>2, <1>3 DEF Hash

\* The state by its parts, without the sets of partial functions.
LEMMA TypeFacts ==
  ASSUME CTypeOK
  PROVE  /\ \A f \in Files : head[f] \in Int /\ index[f] \in Int /\ tree[f] \in Int
         /\ \A f \in Files : tree[f] # Intended /\ head[f] # Intended
         /\ DOMAIN first \subseteq Files /\ \A f \in DOMAIN first : first[f] \in Int
         /\ DOMAIN second \subseteq Files /\ \A f \in DOMAIN second : second[f] \in Int
         /\ DOMAIN diff \subseteq Files /\ \A f \in DOMAIN diff : diff[f].to \in Int
<1> DEFINE values == Versions \cup {Absent}
           changes == [from : Versions \cup {Absent, Intended}, to : Versions \cup {Absent}]
<1>1. /\ first \in Partial(values) /\ second \in Partial(values)
      /\ diff \in Partial(changes)
  BY DEF CTypeOK
<1>2. /\ DOMAIN first \subseteq Files /\ first \in [DOMAIN first -> values]
      /\ DOMAIN second \subseteq Files /\ second \in [DOMAIN second -> values]
      /\ DOMAIN diff \subseteq Files /\ diff \in [DOMAIN diff -> changes]
  BY <1>1, PartialFacts
<1>3. values \subseteq Int /\ Intended \notin values
  BY DEF Versions, Absent, Intended
<1>4. /\ head \in [Files -> values] /\ tree \in [Files -> values]
      /\ index \in [Files -> values \cup {Intended}] /\ Intended \in Int
  BY DEF CTypeOK, Versions, Absent, Intended
<1>5. \A c \in changes : c.to \in values
  OBVIOUS
<1> HIDE DEF values, changes
<1>6. \A f \in Files : head[f] \in values /\ tree[f] \in values
  BY <1>4
<1>7. \A f \in Files : index[f] \in Int
  BY <1>3, <1>4
<1>8. \A f \in DOMAIN diff : diff[f].to \in Int
  BY <1>2, <1>3, <1>5
<1>9. /\ \A f \in DOMAIN first : first[f] \in Int
      /\ \A f \in DOMAIN second : second[f] \in Int
  BY <1>2, <1>3
<1> QED BY <1>2, <1>3, <1>6, <1>7, <1>8, <1>9

LEMMA NoneIsPartial == ASSUME NEW values PROVE None \in Partial(values) /\ DOMAIN None = {}
<1>1. None \in [{} -> values] /\ DOMAIN None = {}
  BY DEF None
<1> QED BY <1>1, PartialFacts

------------------------------------------------------------------------------
LEMMA RInvInit == Init => RInv
<1> SUFFICES ASSUME Init PROVE RInv
  OBVIOUS
<1>1. pc = "idle" /\ first = None /\ second = None /\ diff = None /\ base = None
  BY DEF Init
<1>2. DOMAIN first = {} /\ DOMAIN second = {} /\ DOMAIN diff = {}
  BY <1>1, NoneIsPartial
<1>3. CTypeOK
  <2>1. /\ base \in Partial(Versions \cup {Absent})
        /\ {first, second} \subseteq Partial(Versions \cup {Absent})
        /\ diff \in Partial([from : Versions \cup {Absent, Intended},
                             to : Versions \cup {Absent}])
    BY <1>1, NoneIsPartial
  <2>2. 0 \in Versions
    BY DEF Versions
  <2>3. /\ head \in [Files -> Versions \cup {Absent}]
        /\ index \in [Files -> Versions \cup {Absent, Intended}]
        /\ tree \in [Files -> Versions \cup {Absent}]
    BY <2>2 DEF Init
  <2>4. hidden \subseteq Files /\ changed \subseteq Files /\ pc \in Places /\ clean \in BOOLEAN
    BY DEF Init, Places
  <2>5. edits \in 0 .. MaxEdits /\ moves \in 0 .. MaxMoves
    BY DEF Init
  <2>6. history \in [staged : BOOLEAN, returned : BOOLEAN, unheard : SUBSET Commands]
    <3> DEFINE staged == \E f \in Files : index[f] # head[f] /\ index[f] # Intended
    <3>1. staged \in BOOLEAN /\ history = [staged |-> staged, returned |-> FALSE, unheard |-> {}]
      BY DEF Init
    <3> HIDE DEF staged
    <3> QED BY <3>1
  <2> QED BY <2>1, <2>3, <2>4, <2>5, <2>6 DEF CTypeOK
<1>4. Taken
  BY <1>1, <1>2 DEF Taken, Seen, AfterNames
<1>5. Growing
  BY <1>2 DEF Growing, Init, Absent
<1>6. /\ DiffShows /\ IntentShows /\ DiffHas /\ CheckTells /\ NamesAreOfDiff
      /\ DiffIndexed /\ NamesCover
  BY <1>1 DEF DiffShows, IntentShows, DiffHas, CheckTells, NamesAreOfDiff, DiffIndexed,
              NamesCover, AfterAdd, AfterDiff, AfterCheck, AfterNames
<1>7. ~history.staged => Unstaged
  BY DEF Init, Unstaged
<1> QED BY <1>3, <1>4, <1>5, <1>6, <1>7 DEF RInv

------------------------------------------------------------------------------
LEMMA TypeStep == ASSUME CTypeOK, Next PROVE CTypeOK'
<1> USE DEF CTypeOK, Repo, Captured, Others, Places
<1> DEFINE values == Versions \cup {Absent}
<1>1. /\ \A f \in Files : tree[f] \in values /\ head[f] \in values
      /\ first \in Partial(values) /\ second \in Partial(values)
  OBVIOUS
<1>2. CASE Begin
  <2>1. head \in Partial(values)
    BY PartialFacts
  <2> QED BY <1>2, <2>1 DEF Begin
<1>3. ASSUME NEW f \in Files, HashFirst(f) PROVE CTypeOK'
  <2>1. first' \in Partial(values)
    BY <1>1, <1>3, HashFacts DEF HashFirst
  <2> QED BY <1>3, <2>1 DEF HashFirst
<1>4. ASSUME NEW f \in Files, Rehash(f) PROVE CTypeOK'
  <2>1. second' \in Partial(values)
    BY <1>1, <1>4, HashFacts DEF Rehash
  <2> QED BY <1>4, <2>1 DEF Rehash
<1>5. CASE AddIntent
  <2>1. index' \in [Files -> Versions \cup {Absent, Intended}]
    BY <1>5 DEF AddIntent
  <2> QED BY <1>5, <2>1 DEF AddIntent
<1>6. CASE Diff
  <2> DEFINE changes == [from : Versions \cup {Absent, Intended}, to : values]
  <2>1. Shown \in SUBSET Files
    BY DEF Shown
  <2>2. diff' \in [Shown -> changes]
    BY <1>6, <2>1 DEF Diff
  <2>3. diff' \in Partial(changes)
    BY <2>1, <2>2, PartialFacts
  <2> QED BY <1>6, <2>3 DEF Diff
<1>7. CASE Check
  <2>1. clean' \in BOOLEAN
    BY <1>7 DEF Check
  <2> QED BY <1>7, <2>1 DEF Check
<1>8. CASE Names
  BY <1>8 DEF Names, Shown
<1>9. CASE GitFails
  <2> SUFFICES ASSUME NEW command \in Commands, NEW next \in {"diff", "check", "names", "rehashing"},
                      Unheard(command, next)
               PROVE  CTypeOK'
    BY <1>9 DEF GitFails, Commands
  <2>1. history' \in [staged : BOOLEAN, returned : BOOLEAN, unheard : SUBSET Commands]
    BY DEF Unheard
  <2> QED BY <2>1 DEF Unheard
<1>10. CASE TimeOut \/ Conclude \/ ReviewScope
  BY <1>10 DEF TimeOut, Conclude, ReviewScope
<1>11. ASSUME NEW f \in Files, Edit(f) PROVE CTypeOK'
  <2>1. edits + 1 \in Versions /\ edits' \in 0 .. MaxEdits
    BY <1>11 DEF Edit, Versions
  <2> QED BY <1>11, <2>1 DEF Edit
<1>12. ASSUME NEW f \in Files, Return(f) PROVE CTypeOK'
  <2>1. tree' \in [Files -> values]
    BY <1>12 DEF Return
  <2>2. history' \in [staged : BOOLEAN, returned : BOOLEAN, unheard : SUBSET Commands]
    BY <1>12 DEF Return
  <2>3. moves' \in 0 .. MaxMoves
    BY <1>12 DEF Return
  <2> QED BY <1>12, <2>1, <2>2, <2>3 DEF Return
<1>13. ASSUME NEW f \in Files, Stage(f) PROVE CTypeOK'
  <2>1. history' \in [staged : BOOLEAN, returned : BOOLEAN, unheard : SUBSET Commands]
    BY <1>13 DEF Stage
  <2>2. moves' \in 0 .. MaxMoves
    BY <1>13 DEF Stage
  <2> QED BY <1>1, <1>13, <2>1, <2>2 DEF Stage
<1>14. CASE CommitStaged
  <2>1. head' \in [Files -> values]
    BY <1>14 DEF CommitStaged
  <2>2. history' \in [staged : BOOLEAN, returned : BOOLEAN, unheard : SUBSET Commands]
    BY <1>14 DEF CommitStaged
  <2>3. moves' \in 0 .. MaxMoves
    BY <1>14 DEF CommitStaged
  <2> QED BY <1>14, <2>1, <2>2, <2>3 DEF CommitStaged
<1> QED BY <1>2, <1>3, <1>4, <1>5, <1>6, <1>7, <1>8, <1>9, <1>10, <1>11, <1>12, <1>13, <1>14
        DEF Next

LEMMA TakenStep == ASSUME RInv, Next PROVE Taken'
<1> USE DEF Taken, Seen, AfterNames, Repo, Captured, Others
<1>1. Taken
  BY DEF RInv
<1>2. CASE Begin
  BY <1>1, <1>2 DEF Begin
<1>3. ASSUME NEW f \in Files, HashFirst(f) PROVE Taken'
  BY <1>1, <1>3 DEF HashFirst
<1>4. ASSUME NEW f \in Files, Rehash(f) PROVE Taken'
  BY <1>1, <1>4 DEF Rehash
<1>5. CASE AddIntent \/ Diff \/ Check \/ Names \/ TimeOut
  BY <1>1, <1>5 DEF AddIntent, Diff, Check, Names, TimeOut, Commands
<1>6. CASE GitFails
  BY <1>1, <1>6 DEF GitFails, Unheard
<1>7. CASE Conclude
  BY <1>1, <1>7 DEF Conclude
<1>8. CASE ReviewScope
  BY <1>1, <1>8 DEF ReviewScope
<1>9. CASE \/ \E f \in Files : Edit(f) \/ Return(f) \/ Stage(f)
           \/ CommitStaged
  BY <1>1, <1>9 DEF Edit, Return, Stage, CommitStaged
<1> QED BY <1>2, <1>3, <1>4, <1>5, <1>6, <1>7, <1>8, <1>9 DEF Next

\* Who is at work may edit, but as long as nobody takes a file back its versions grow, and
\* what has moved on stays so.
LEMMA MovesOn ==
  ASSUME RInv, Next, ~history'.returned
  PROVE  /\ ~history.returned
         /\ Growing'
         /\ Seen => first' = first
         /\ Seen => \A f \in Files : Moved(f) => Moved(f)'
<1> USE DEF Repo, Captured, Others
<1>1. CTypeOK /\ Taken /\ history \in [staged : BOOLEAN, returned : BOOLEAN,
                                       unheard : SUBSET Commands]
  BY DEF RInv, CTypeOK
<1>2. /\ \A f \in Files : tree[f] \in Int
      /\ DOMAIN first \subseteq Files /\ \A f \in DOMAIN first : first[f] \in Int
      /\ DOMAIN second \subseteq Files /\ \A f \in DOMAIN second : second[f] \in Int
  BY <1>1, TypeFacts
<1>3. /\ tree \in [Files -> Versions \cup {Absent}] /\ edits \in Nat
  BY <1>1 DEF CTypeOK
<1>4. Growing
  <2>1. ~history.returned
    BY <1>1 DEF Next, Begin, HashFirst, Rehash, AddIntent, Diff, Check, Names, GitFails, Unheard,
                TimeOut, Conclude, ReviewScope, Edit, Return, Stage, CommitStaged
  <2> QED BY <2>1 DEF RInv
<1>5. ~history.returned /\ \A f \in Files : ~Return(f)
  BY <1>1 DEF Next, Begin, HashFirst, Rehash, AddIntent, Diff, Check, Names, GitFails, Unheard,
              TimeOut, Conclude, ReviewScope, Edit, Return, Stage, CommitStaged
<1>6. ASSUME NEW g \in Files, Edit(g) PROVE
        /\ Growing' /\ first' = first /\ \A f \in Files : Seen /\ Moved(f) => Moved(f)'
  <2>1. /\ tree'[g] = edits + 1 /\ tree[g] <= edits /\ edits' = edits + 1
        /\ \A f \in Files \ {g} : tree'[f] = tree[f]
        /\ first' = first /\ second' = second
    BY <1>3, <1>4, <1>6 DEF Edit, Growing
  <2>2. Growing'
    BY <1>2, <1>3, <1>4, <2>1 DEF Growing
  <2>3. Seen => DOMAIN first = Files
    BY <1>1 DEF Taken
  <2>4. \A f \in Files : Seen /\ Moved(f) => Moved(f)'
    BY <1>2, <1>3, <2>1, <2>3 DEF Moved
  <2> QED BY <2>1, <2>2, <2>4
<1>7. ASSUME NEW g \in Files, HashFirst(g) PROVE Growing' /\ ~Seen
  <2>1. /\ DOMAIN first' = DOMAIN first \cup {g} /\ first'[g] = tree[g]
        /\ \A f \in DOMAIN first \ {g} : first'[f] = first[f]
    BY <1>7 DEF HashFirst, Hash
  <2> QED BY <1>2, <1>4, <1>7, <2>1 DEF HashFirst, Growing, Seen
<1>8. ASSUME NEW g \in Files, Rehash(g) PROVE
        /\ Growing' /\ first' = first /\ \A f \in Files : Seen /\ Moved(f) => Moved(f)'
  <2>1. /\ DOMAIN second' = DOMAIN second \cup {g} /\ second'[g] = tree[g]
        /\ \A f \in DOMAIN second \ {g} : second'[f] = second[f]
    BY <1>8 DEF Rehash, Hash
  <2>2. first' = first /\ tree' = tree /\ edits' = edits
    BY <1>8 DEF Rehash
  <2> QED BY <1>2, <1>4, <2>1, <2>2 DEF Growing, Moved
<1>9. ASSUME \A f \in Files : ~Edit(f) /\ ~HashFirst(f) /\ ~Rehash(f)
      PROVE  UNCHANGED <<tree, first, second, edits>>
  BY <1>5, <1>9 DEF Next, Begin, AddIntent, Diff, Check, Names, GitFails, Unheard, TimeOut,
                    Conclude, ReviewScope, Stage, CommitStaged
<1>10. ASSUME UNCHANGED <<tree, first, second, edits>>
       PROVE  /\ Growing' /\ first' = first /\ \A f \in Files : Moved(f) => Moved(f)'
  BY <1>4, <1>10 DEF Growing, Moved
<1> QED BY <1>5, <1>6, <1>7, <1>8, <1>9, <1>10

\* A file that has not moved on is what the first snapshot has.
LEMMA Standing ==
  ASSUME RInv, ~history.returned, Seen, DOMAIN second = {}, NEW f \in Files, ~Moved(f)
  PROVE  tree[f] = first[f]
<1>1. first[f] <= tree[f] /\ f \in DOMAIN first
  BY DEF RInv, Taken, Growing
<1>2. first[f] \in Int /\ tree[f] \in Int
  BY <1>1, TypeFacts DEF RInv
<1> QED BY <1>1, <1>2 DEF Moved

LEMMA DiffShowsStep == ASSUME RInv, Next, ~history'.returned PROVE DiffShows'
<1> USE DEF Repo, Captured, Others
<1>1. /\ ~history.returned
      /\ Seen => first' = first
      /\ Seen => \A f \in Files : Moved(f) => Moved(f)'
  BY MovesOn
<1>2. CTypeOK /\ Taken /\ DiffShows
  BY <1>1 DEF RInv
<1>3. DOMAIN diff \subseteq Files
  BY <1>2, TypeFacts
<1>4. CASE Diff
  <2>1. pc = "diff" /\ DOMAIN second = {} /\ Seen
    BY <1>2, <1>4 DEF Diff, Taken, Seen, AfterNames
  <2>2. \A f \in Files : tree[f] = first[f] \/ Moved(f)
    BY <1>1, <2>1, Standing
  <2>3. diff' = [f \in Shown |-> [from |-> index[f], to |-> tree[f]]] /\ Shown \subseteq Files
    BY <1>4 DEF Diff, Shown
  <2> QED BY <1>1, <2>1, <2>2, <2>3 DEF DiffShows
<1>5. ASSUME ~Diff PROVE diff' = diff /\ (pc' \in AfterDiff => pc \in AfterDiff \/ DOMAIN diff = {})
  BY <1>2, <1>5 DEF Next, Begin, HashFirst, Rehash, AddIntent, Check, Names, GitFails, Unheard,
                    TimeOut, Conclude, ReviewScope, Edit, Return, Stage, CommitStaged,
                    AfterDiff, AfterCheck, AfterNames, Taken
<1>6. pc \in AfterDiff => Seen
  BY DEF AfterDiff, AfterCheck, AfterNames, Seen
<1>7. CASE ~Diff
  BY <1>1, <1>2, <1>3, <1>5, <1>6, <1>7 DEF DiffShows
<1> QED BY <1>4, <1>7

LEMMA UnstagedStep == ASSUME RInv, Next, ~history'.staged PROVE Unstaged'
<1> USE DEF Repo, Captured, Others
<1>1. history \in [staged : BOOLEAN, returned : BOOLEAN, unheard : SUBSET Commands]
  BY DEF RInv, CTypeOK
<1>2. ~history.staged /\ (\A f \in Files : ~Stage(f)) /\ ~CommitStaged
  BY <1>1 DEF Next, Begin, HashFirst, Rehash, AddIntent, Diff, Check, Names, GitFails, Unheard,
              TimeOut, Conclude, ReviewScope, Edit, Return, Stage, CommitStaged
<1>3. Unstaged
  BY <1>2 DEF RInv
<1>4. CASE AddIntent
  BY <1>3, <1>4 DEF AddIntent, Unstaged, Absent, Intended
<1>5. CASE Begin
  BY <1>3, <1>5 DEF Begin, Unstaged
<1>6. ASSUME ~AddIntent, ~Begin
      PROVE  UNCHANGED <<head, index, base>> /\ (pc' # "idle" => pc # "idle")
  BY <1>2, <1>6 DEF Next, HashFirst, Rehash, Diff, Check, Names, GitFails, Unheard,
                    TimeOut, Conclude, ReviewScope, Edit, Return, Commands
<1> QED BY <1>3, <1>4, <1>5, <1>6 DEF Unstaged

Claims == IntentShows /\ DiffHas /\ CheckTells /\ NamesAreOfDiff

\* Nothing has happened that a capture can miss.
Undisturbed == ~history.returned /\ ~history.staged /\ history.unheard = {}

LEMMA ClaimsStep == ASSUME RInv, Next, Undisturbed' PROVE Claims'
<1> USE DEF Repo, Captured, Others
<1>1. CTypeOK /\ Taken
  BY DEF RInv
<1>2. /\ ~history.returned
      /\ Seen => first' = first
      /\ Seen => \A f \in Files : Moved(f) => Moved(f)'
  BY MovesOn DEF Undisturbed
<1>3. history \in [staged : BOOLEAN, returned : BOOLEAN, unheard : SUBSET Commands]
  BY <1>1 DEF CTypeOK
<1>4. /\ Undisturbed /\ ~CommitStaged /\ ~GitFails
      /\ \A f \in Files : ~Stage(f) /\ ~Return(f)
  BY <1>3 DEF Undisturbed, Next, Begin, HashFirst, Rehash, AddIntent, Diff, Check, Names, GitFails,
              Unheard, TimeOut, Conclude, ReviewScope, Edit, Return, Stage, CommitStaged
<1>5. Claims /\ Unstaged /\ DiffShows
  BY <1>4 DEF RInv, Undisturbed, Claims
<1>6. /\ \A f \in Files : index[f] \in Int /\ tree[f] # Intended
      /\ DOMAIN diff \subseteq Files
  BY <1>1, TypeFacts
<1>7. pc \in AfterAdd \cup {"add"} => Seen
  BY DEF AfterAdd, AfterDiff, AfterCheck, AfterNames, Seen
<1>8. pc \in {"add", "diff", "check", "names"} =>
        \A f \in Files : tree[f] = first[f] \/ Moved(f)
  BY <1>1, <1>2, Standing DEF Seen, Taken, AfterNames
<1>9. CASE AddIntent
  <2>1. /\ pc = "add" /\ pc' = "diff" /\ hidden' = hidden
        /\ index' = [f \in Files |-> IF index[f] = Absent /\ tree[f] # Absent /\ f \notin hidden
                                       THEN Intended ELSE index[f]]
    BY <1>9 DEF AddIntent
  <2>2. IntentShows'
    <3> SUFFICES ASSUME NEW f \in Files \ hidden, index'[f] = Absent
                 PROVE  first'[f] = Absent \/ Moved(f)'
      BY <2>1 DEF IntentShows
    <3>1. tree[f] = Absent
      BY <2>1 DEF Absent, Intended
    <3> QED BY <1>2, <1>7, <1>8, <2>1, <3>1
  <2>3. DiffHas' /\ CheckTells' /\ NamesAreOfDiff'
    BY <2>1 DEF DiffHas, CheckTells, NamesAreOfDiff, AfterDiff, AfterCheck, AfterNames
  <2> QED BY <2>2, <2>3 DEF Claims
<1>10. CASE Diff
  <2>1. /\ pc = "diff" /\ pc' = "check" /\ DOMAIN diff' = Shown
        /\ UNCHANGED <<index, hidden>>
    BY <1>10 DEF Diff
  <2>2. "diff" \in AfterAdd /\ Seen
    BY <1>7, <2>1 DEF AfterAdd
  <2>3. IntentShows'
    BY <1>2, <1>5, <2>1, <2>2 DEF Claims, IntentShows
  <2>4. DiffHas'
    <3> SUFFICES ASSUME NEW f \in Files, ~Moved(f)
                 PROVE  f \in Shown <=> index[f] # Absent /\ first[f] # index[f]
      BY <1>2, <2>1, <2>2 DEF DiffHas
    <3> QED BY <1>8, <2>1 DEF Shown
  <2>5. CheckTells' /\ NamesAreOfDiff'
    BY <2>1 DEF CheckTells, NamesAreOfDiff, AfterCheck, AfterNames
  <2> QED BY <2>3, <2>4, <2>5 DEF Claims
<1>11. CASE Check
  <2>1. /\ pc = "check" /\ pc' = "names" /\ clean' = \A f \in Shown : tree[f] \notin Spaced
        /\ UNCHANGED <<index, hidden, diff>>
    BY <1>11 DEF Check
  <2>2. pc \in AfterDiff /\ pc \in AfterAdd /\ Seen
    BY <1>7, <2>1 DEF AfterAdd, AfterDiff
  <2>3. IntentShows' /\ DiffHas'
    BY <1>2, <1>5, <2>1, <2>2 DEF Claims, IntentShows, DiffHas
  <2>4. CheckTells'
    <3> SUFFICES ASSUME clean', NEW f \in DOMAIN diff, ~Moved(f) PROVE diff[f].to \notin Spaced
      BY <1>2, <1>6, <2>1, <2>2 DEF CheckTells
    <3>1. f \in Files /\ tree[f] = first[f] /\ diff[f].to = first[f]
      BY <1>5, <1>6, <1>8, <2>1, <2>2 DEF DiffShows
    <3>2. f \in Shown
      BY <1>5, <2>2, <3>1 DEF Claims, DiffHas, Shown
    <3> QED BY <2>1, <3>1, <3>2
  <2>5. NamesAreOfDiff'
    BY <2>1 DEF NamesAreOfDiff, AfterNames
  <2> QED BY <2>3, <2>4, <2>5 DEF Claims
<1>12. CASE Names
  <2>1. /\ pc = "names" /\ pc' = "rehashing" /\ changed' = Shown
        /\ UNCHANGED <<index, hidden, diff, clean>>
    BY <1>12 DEF Names
  <2>2. pc \in AfterCheck /\ pc \in AfterDiff /\ pc \in AfterAdd /\ Seen
    BY <1>7, <2>1 DEF AfterAdd, AfterDiff, AfterCheck
  <2>3. IntentShows' /\ DiffHas' /\ CheckTells'
    BY <1>2, <1>5, <1>6, <2>1, <2>2 DEF Claims, IntentShows, DiffHas, CheckTells
  <2>4. NamesAreOfDiff'
    <3> SUFFICES ASSUME NEW f \in Files, ~Moved(f) PROVE f \in Shown <=> f \in DOMAIN diff
      BY <1>2, <2>1, <2>2 DEF NamesAreOfDiff
    <3> QED BY <1>5, <1>8, <2>1, <2>2 DEF Claims, DiffHas, Shown
  <2> QED BY <2>3, <2>4 DEF Claims
<1>13. ASSUME ~AddIntent, ~Diff, ~Check, ~Names
       PROVE  /\ UNCHANGED <<index, hidden, diff, clean, changed>>
              /\ pc' \in AfterAdd => pc \in AfterAdd
              /\ pc' \in AfterDiff => pc \in AfterDiff
              /\ pc' \in AfterCheck => pc \in AfterCheck
              /\ pc' \in AfterNames => pc \in AfterNames
  BY <1>4, <1>13 DEF Next, Begin, HashFirst, Rehash, TimeOut, Conclude, ReviewScope, Edit,
                     AfterAdd, AfterDiff, AfterCheck, AfterNames
<1>14. CASE ~AddIntent /\ ~Diff /\ ~Check /\ ~Names
  <2>1. pc' \in AfterAdd => Seen
    BY <1>7, <1>13, <1>14
  <2>2. /\ AfterNames \subseteq AfterCheck /\ AfterCheck \subseteq AfterDiff
        /\ AfterDiff \subseteq AfterAdd
    BY DEF AfterAdd, AfterDiff, AfterCheck
  <2>3. IntentShows' /\ DiffHas' /\ CheckTells' /\ NamesAreOfDiff'
    BY <1>2, <1>5, <1>6, <1>13, <1>14, <2>1, <2>2
       DEF Claims, IntentShows, DiffHas, CheckTells, NamesAreOfDiff
  <2> QED BY <2>3 DEF Claims
<1> QED BY <1>9, <1>10, <1>11, <1>12, <1>14

LEMMA CoverStep ==
  ASSUME RInv, Next, ~history'.returned, ~history'.staged
  PROVE  DiffIndexed' /\ ("names" \notin history'.unheard => NamesCover')
<1> USE DEF Repo, Captured, Others
<1>1. CTypeOK /\ Taken
  BY DEF RInv
<1>2. /\ ~history.returned
      /\ Seen => first' = first
      /\ Seen => \A f \in Files : Moved(f) => Moved(f)'
  BY MovesOn
<1>3. history \in [staged : BOOLEAN, returned : BOOLEAN, unheard : SUBSET Commands]
  BY <1>1 DEF CTypeOK
<1>4. /\ ~history.staged /\ ~CommitStaged
      /\ \A f \in Files : ~Stage(f) /\ ~Return(f)
      /\ "names" \notin history'.unheard => ~Unheard("names", "rehashing")
      /\ "names" \notin history'.unheard => "names" \notin history.unheard
  BY <1>3 DEF Next, Begin, HashFirst, Rehash, AddIntent, Diff, Check, Names, GitFails, Unheard,
              TimeOut, Conclude, ReviewScope, Edit, Return, Stage, CommitStaged, Commands
<1>5. DiffIndexed /\ ("names" \notin history'.unheard => NamesCover)
  BY <1>2, <1>4 DEF RInv
<1>6. DOMAIN diff \subseteq Files
  BY <1>1, TypeFacts
<1>7. /\ AfterNames \subseteq AfterDiff /\ "names" \in AfterDiff
      /\ pc \in AfterDiff \cup {"diff"} => Seen
  BY DEF AfterDiff, AfterCheck, AfterNames, Seen
<1>8. pc \in {"diff", "names"} => \A f \in Files : tree[f] = first[f] \/ Moved(f)
  BY <1>1, <1>2, Standing DEF Seen, Taken, AfterNames
<1>9. CASE Diff
  <2>1. /\ pc = "diff" /\ pc' = "check" /\ DOMAIN diff' = Shown /\ index' = index
    BY <1>9 DEF Diff
  <2>2. DiffIndexed'
    BY <1>2, <1>7, <1>8, <2>1 DEF DiffIndexed, Shown
  <2>3. NamesCover'
    BY <2>1 DEF NamesCover, AfterNames
  <2> QED BY <2>2, <2>3
<1>10. CASE Names
  <2>1. /\ pc = "names" /\ changed' = Shown /\ UNCHANGED <<index, diff>>
    BY <1>10 DEF Names
  <2>2. \A f \in DOMAIN diff : f \in Shown \/ Moved(f)
    BY <1>5, <1>6, <1>7, <1>8, <2>1 DEF DiffIndexed, Shown
  <2>3. DiffIndexed'
    BY <1>2, <1>5, <1>6, <1>7, <2>1 DEF DiffIndexed
  <2>4. NamesCover'
    BY <1>2, <1>6, <1>7, <2>1, <2>2 DEF NamesCover
  <2> QED BY <2>3, <2>4
<1>11. ASSUME ~Diff, ~Names
       PROVE  /\ UNCHANGED <<diff, changed>>
              /\ pc' \in AfterDiff =>
                   (pc \in AfterDiff /\ index' = index) \/ DOMAIN diff = {}
              /\ "names" \notin history'.unheard /\ pc' \in AfterNames => pc \in AfterNames
  <2>1. CASE AddIntent \/ Unheard("add", "diff")
    BY <1>11, <2>1 DEF AddIntent, Unheard, AfterDiff, AfterCheck, AfterNames
  <2>2. CASE Unheard("diff", "check")
    BY <1>1, <1>11, <2>2 DEF Unheard, Taken, AfterNames
  <2>3. CASE Unheard("check", "names") \/ Unheard("names", "rehashing")
    BY <1>4, <1>11, <2>3 DEF Unheard, AfterDiff, AfterCheck, AfterNames
  <2>4. ASSUME ~AddIntent, ~GitFails
        PROVE  /\ UNCHANGED <<index, diff, changed>>
               /\ pc' \in AfterDiff => pc \in AfterDiff
               /\ pc' \in AfterNames => pc \in AfterNames
    BY <1>4, <1>11, <2>4 DEF Next, Begin, HashFirst, Rehash, Check, TimeOut, Conclude,
                             ReviewScope, Edit, AfterDiff, AfterCheck, AfterNames
  <2> QED BY <2>1, <2>2, <2>3, <2>4 DEF GitFails
<1>12. CASE ~Diff /\ ~Names
  <2>1. DiffIndexed'
    BY <1>2, <1>5, <1>6, <1>7, <1>11, <1>12 DEF DiffIndexed
  <2>2. "names" \notin history'.unheard => NamesCover'
    BY <1>2, <1>5, <1>6, <1>7, <1>11, <1>12 DEF NamesCover
  <2> QED BY <2>1, <2>2
<1> QED BY <1>9, <1>10, <1>12

LEMMA RInvStep == RInv /\ [Next]_vars => RInv'
<1> SUFFICES ASSUME RInv, [Next]_vars PROVE RInv'
  OBVIOUS
<1>1. CASE Next
  <2>1. CTypeOK' /\ Taken'
    BY <1>1, TypeStep, TakenStep DEF RInv
  <2>2. ~history'.returned => Growing' /\ DiffShows'
    BY <1>1, MovesOn, DiffShowsStep
  <2>3. ~history'.staged => Unstaged'
    BY <1>1, UnstagedStep
  <2>4. Undisturbed' => Claims'
    BY <1>1, ClaimsStep
  <2>5. /\ ~history'.returned /\ ~history'.staged => DiffIndexed'
        /\ ~history'.returned /\ ~history'.staged /\ "names" \notin history'.unheard
             => NamesCover'
    BY <1>1, CoverStep
  <2> QED BY <2>1, <2>2, <2>3, <2>4, <2>5 DEF RInv, Undisturbed, Claims
<1>2. CASE UNCHANGED vars
  BY <1>2 DEF vars, Repo, Captured, Others, RInv, CTypeOK, Taken, Seen, Growing, DiffShows,
              Unstaged, IntentShows, DiffHas, CheckTells, NamesAreOfDiff, Moved,
              DiffIndexed, NamesCover
<1> QED BY <1>1, <1>2

LEMMA RInvHolds == Spec => []RInv
<1> QED BY RInvInit, RInvStep, PTL DEF Spec

------------------------------------------------------------------------------
\* Tree, index, commit, snapshots and captures keep their types.
THEOREM TypeCorrect == Spec => []CTypeOK
<1>1. RInv => CTypeOK
  BY DEF RInv
<1> QED BY <1>1, RInvHolds, PTL

\* Equal snapshots around it vouch for the diff: unless somebody took a file back, every
\* file in it is what it was in the first snapshot, however many edits came in between the
\* files of a snapshot and between the commands.
THEOREM OneTreeReviewed == Spec => []DiffIsOfOneTree
<1>1. ASSUME RInv PROVE DiffIsOfOneTree
  <2> SUFFICES ASSUME pc \in {"review", "passed"}, ~history.returned, NEW f \in DOMAIN diff
               PROVE  diff[f].to = first[f]
    BY DEF DiffIsOfOneTree
  <2>1. second = first /\ DOMAIN first = Files
    BY <1>1 DEF RInv, Taken, Seen
  <2>2. f \in Files /\ first[f] \in Int
    BY <1>1, <2>1, TypeFacts DEF RInv
  <2>3. ~Moved(f)
    BY <2>1, <2>2 DEF Moved
  <2> QED BY <1>1, <2>3 DEF RInv, DiffShows, AfterDiff, AfterCheck, AfterNames
<1> QED BY <1>1, RInvHolds, PTL

\* A review that passed, undisturbed by staging, taking back and failing commands, had
\* every file that differs from the attempt's commit and that git could find: in the diff,
\* among the names, in scope and without spacing errors.
THEOREM WholeReviewed == Spec => []WholeChangeReviewed
<1>1. ASSUME RInv PROVE WholeChangeReviewed
  <2> SUFFICES ASSUME pc = "passed", Undisturbed
               PROVE  /\ Differing \ hidden \subseteq DOMAIN diff
                      /\ changed = DOMAIN diff
                      /\ Differing \ hidden \subseteq InScope \ OutScope
                      /\ \A f \in DOMAIN diff : diff[f].to \notin Spaced
    BY DEF WholeChangeReviewed, Undisturbed
  <2>1. second = first /\ DOMAIN first = Files /\ clean /\ ScopeGate(changed)
    BY <1>1 DEF RInv, Taken, Seen
  <2>2. DOMAIN diff \subseteq Files /\ changed \subseteq Files
    BY <1>1, TypeFacts DEF RInv, CTypeOK
  <2>3. \A f \in Files : first[f] \in Int /\ head[f] # Intended
    BY <1>1, <2>1, TypeFacts DEF RInv
  <2>4. \A f \in Files : ~Moved(f)
    BY <2>1, <2>3 DEF Moved
  <2>5. Unstaged /\ Claims
    BY <1>1 DEF RInv, Undisturbed, Claims
  <2>6. \A f \in Files : f \in DOMAIN diff <=> index[f] # Absent /\ first[f] # index[f]
    BY <2>4, <2>5 DEF Claims, DiffHas, AfterDiff, AfterCheck, AfterNames
  <2>7. \A f \in Files \ hidden : index[f] = Absent => first[f] = Absent
    BY <2>4, <2>5 DEF Claims, IntentShows, AfterAdd, AfterDiff, AfterCheck, AfterNames
  <2>8. Differing \ hidden \subseteq DOMAIN diff
    <3> SUFFICES ASSUME NEW f \in Files \ hidden, base[f] # first[f] PROVE f \in DOMAIN diff
      BY DEF Differing
    <3>1. /\ base[f] = head[f]
          /\ index[f] = head[f] \/ (index[f] = Intended /\ head[f] = Absent)
      BY <2>5 DEF Unstaged
    <3>2. first[f] # Intended
      <4>1. first \in Partial(Versions \cup {Absent})
        BY <1>1 DEF RInv, CTypeOK
      <4>2. first[f] \in Versions \cup {Absent}
        BY <2>1, <4>1, PartialFacts
      <4> QED BY <4>2 DEF Versions, Absent, Intended
    <3> QED BY <2>6, <2>7, <3>1, <3>2 DEF Absent, Intended
  <2>9. changed = DOMAIN diff
    BY <2>2, <2>4, <2>5 DEF Claims, NamesAreOfDiff, AfterNames
  <2>10. \A f \in DOMAIN diff : diff[f].to \notin Spaced
    BY <2>1, <2>2, <2>4, <2>5 DEF Claims, CheckTells, AfterCheck, AfterNames
  <2> QED BY <2>1, <2>8, <2>9, <2>10 DEF ScopeGate
<1> QED BY <1>1, RInvHolds, PTL

\* Unless a file is taken back, staged or committed, or git failed to name the changed
\* files, the scope gate saw every file of the diff it passed: the names are of a later
\* moment than the diff, and equal snapshots say that the tree was the same.
THEOREM ReviewedInScope == Spec => []DiffInScope
<1>1. ASSUME RInv PROVE DiffInScope
  <2> SUFFICES ASSUME pc = "passed", ~history.staged, ~history.returned,
                      "names" \notin history.unheard, NEW f \in DOMAIN diff
               PROVE  f \in InScope \ OutScope
    BY DEF DiffInScope
  <2>1. second = first /\ DOMAIN first = Files /\ ScopeGate(changed)
    BY <1>1 DEF RInv, Taken, Seen
  <2>2. f \in Files /\ first[f] \in Int
    BY <1>1, <2>1, TypeFacts DEF RInv
  <2>3. ~Moved(f)
    BY <2>1, <2>2 DEF Moved
  <2>4. f \in changed
    BY <1>1, <2>3 DEF RInv, NamesCover, AfterNames
  <2> QED BY <2>1, <2>4 DEF ScopeGate
<1> QED BY <1>1, RInvHolds, PTL
==============================================================================
