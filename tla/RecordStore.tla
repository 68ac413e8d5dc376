----------------------------- MODULE RecordStore -----------------------------
(***************************************************************************)
(* What the run repository promises its callers for one run id             *)
(* (storage/run_repository.py): a get is a copy of the record stored last, *)
(* a save replaces it at once, and whoever queries the audit sees that     *)
(* record's audit and no other.  The attempts' rows alone outlive the      *)
(* record they came from: a save puts its own over those of the same       *)
(* numbers and leaves the rest.                                            *)
(***************************************************************************)
CONSTANTS Workers,    \* who gets and saves
          None,       \* no record
          Audit(_),   \* what a stored record's audit shows of it
          Row(_, _)   \* a record's row for an attempt number, None if it has none

VARIABLES stored,     \* the record stored last
          audit,      \* its audit
          attempts,   \* the attempts' rows, by number
          copies      \* the record each worker works on

vars == <<stored, audit, attempts, copies>>

Init ==
  /\ stored = None
  /\ audit = Audit(None)
  /\ attempts = [n \in DOMAIN attempts |-> None]
  /\ copies = [w \in Workers |-> None]

OnlyOf(w) == \A v \in Workers \ {w} : copies'[v] = copies[v]

GetCopy(w) ==
  /\ stored # None
  /\ copies' = [copies EXCEPT ![w] = stored]
  /\ UNCHANGED <<stored, audit, attempts>>

\* A worker changes, makes or drops a copy of its own: nobody sees it.
Edit(w) ==
  /\ OnlyOf(w)
  /\ UNCHANGED <<stored, audit, attempts>>

Put(w) ==
  /\ copies[w] # None
  /\ stored' = copies[w]
  /\ audit' = Audit(copies[w])
  /\ attempts' = [n \in DOMAIN attempts |->
                    IF Row(copies[w], n) = None THEN attempts[n] ELSE Row(copies[w], n)]
  /\ OnlyOf(w)

\* The service is started anew.
Forget == copies' = [w \in Workers |-> None] /\ UNCHANGED <<stored, audit, attempts>>

Next == Forget \/ \E w \in Workers : GetCopy(w) \/ Edit(w) \/ Put(w)

Spec == Init /\ [][Next]_vars
==============================================================================
