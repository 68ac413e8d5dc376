---------------------------- MODULE MCPersistence ----------------------------
(***************************************************************************)
(* Two threads on one run, over chains that pass, are turned down after    *)
(* the verifier's PASS, or fail before it.                                 *)
(***************************************************************************)
EXTENDS Persistence, TLC

CONSTANTS w1, w2

MCOutcomes == {[final |-> "PASS", decision |-> "PASS"],
               [final |-> "BLOCKED", decision |-> "PASS"],
               [final |-> "FAIL", decision |-> "PENDING"]}
==============================================================================
