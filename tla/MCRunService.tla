---------------------------- MODULE MCRunService -----------------------------
(***************************************************************************)
(* Instances of RunService for TLC: two workers, each with an object to    *)
(* spare beside the stored one.  Objects and workers are interchangeable.  *)
(***************************************************************************)
EXTENDS RunService, TLC

InMemory(n) == [durable |-> FALSE, threads |-> n]
OnPostgres(n) == [durable |-> TRUE, threads |-> n]

EveryDeployment == {InMemory(1), InMemory(2), OnPostgres(1), OnPostgres(2)}
InMemoryOnly == {InMemory(2)}

Symmetry == Permutations(Objects) \cup Permutations(Workers)
==============================================================================
