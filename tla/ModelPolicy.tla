----------------------------- MODULE ModelPolicy -----------------------------
(***************************************************************************)
(* The models a run's manifest declares (schemas/model_policy.py) and the  *)
(* gate that admits them (gates/model_policy_gate.py).                     *)
(***************************************************************************)
EXTENDS Integers, Sequences, Functions

None == ""  \* the empty string: not given

ModelRoles == {"CODING_AGENT", "VERIFIER", "EVALUATOR", "ANALYST", "ROUTER"}

RequiredRoles(run_type) ==
  IF run_type = "IMPLEMENTATION" THEN {"CODING_AGENT", "VERIFIER"} ELSE {"VERIFIER"}

RunIdsOf(models, role) ==
  {m.model_run_id : m \in {n \in Range(models) : n.role = role}} \ {None}

IsSet(m) == m.requests_per_min > 0 \/ m.tokens_per_min > 0

\* Mutant: any model may be declared.
AdmissibleUnlisted(m, manifest) ==
  /\ None \notin {m.model_id, m.provider, m.model_run_id}
  /\ IsSet(m)
  /\ m.permissions # {}
  /\ m.pinned

\* The rules for one model and for the model it falls back to.
Admissible(m, manifest) ==
  /\ None \notin {m.model_id, m.provider, m.model_run_id}
  /\ m.model_id \in manifest.allowed_model_ids
  /\ IsSet(m)
  /\ m.permissions # {}
  /\ m.pinned
  /\ m.fallback_model_id # None =>
       m.fallback_model_id \in {n.model_id : n \in Range(manifest.models)}
                                 \cap manifest.allowed_model_ids

\* model_policy_gate: no models at all is no matter of this gate.
PolicyPasses(manifest) ==
  \/ manifest.models = <<>>
  \/ /\ \A m \in Range(manifest.models) : Admissible(m, manifest)
     /\ RequiredRoles(manifest.run_type) \subseteq {m.role : m \in Range(manifest.models)}
     /\ RunIdsOf(manifest.models, "CODING_AGENT")
          \cap RunIdsOf(manifest.models, "VERIFIER") = {}
==============================================================================
