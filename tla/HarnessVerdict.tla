---------------------------- MODULE HarnessVerdict ----------------------------
(***************************************************************************)
(* What the outer harness promises of one chain run, and nothing of how it *)
(* gets there: handlers object or do not, an independent verifier's        *)
(* verdict may arrive and be replaced, and the run is closed exactly once. *)
(* It closes as PASS only while the standing verdict is PASS and nobody    *)
(* has objected.  ChainExecutor implements it.                             *)
(***************************************************************************)

VARIABLES verdict,   \* the standing decision of the independent verifier
          objected,  \* some handler has answered FAIL or BLOCKED
          outcome    \* "open" until the run ends; "lost" if it ends unreported

vars == <<verdict, objected, outcome>>

Decisions == {"PASS", "FAIL", "BLOCKED"}

Init == /\ verdict = "PENDING"
        /\ objected = FALSE
        /\ outcome = "open"

\* The verifier's decision becomes, or replaces, the standing verdict.
Vote == /\ outcome = "open"
        /\ verdict' \in Decisions
        /\ UNCHANGED <<objected, outcome>>

\* The run is closed by its verdict, by an objection, or is lost.  The step that
\* closes it may carry the vote or the objection it is closed for.
Close == /\ outcome = "open"
         /\ outcome' \in Decisions \cup {"lost"}
         /\ verdict' \in Decisions \cup {verdict}
         /\ objected' \in {TRUE, objected}
         /\ outcome' = "PASS" => verdict' = "PASS" /\ ~objected'

Next == Vote \/ Close

Spec == Init /\ [][Next]_vars
==============================================================================
