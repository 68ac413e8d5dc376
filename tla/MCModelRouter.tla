---------------------------- MODULE MCModelRouter ----------------------------
(***************************************************************************)
(* Registries of a coding and a verifying model, of which each may fall    *)
(* back to the other, to itself, to a third or to one that is not there,   *)
(* and registries the policy gate turns down for each of its reasons.      *)
(***************************************************************************)
EXTENDS ModelRouter

MCModelIds == {"sonnet", "gpt", "spare"}

Sonnet ==
  [model_id |-> "sonnet", provider |-> "anthropic", role |-> "CODING_AGENT",
   model_run_id |-> "ca", permissions |-> {"code"}, requests_per_min |-> 1,
   tokens_per_min |-> 0, pinned |-> TRUE, fallback_model_id |-> "gpt"]
Gpt ==
  [Sonnet EXCEPT !.model_id = "gpt", !.provider = "openai", !.role = "VERIFIER",
                 !.model_run_id = "vr", !.permissions = {"code", "verify"},
                 !.requests_per_min = 2, !.fallback_model_id = None]
Spare ==
  [Gpt EXCEPT !.model_id = "spare", !.role = "EVALUATOR", !.model_run_id = "ev",
              !.requests_per_min = 0, !.tokens_per_min = 1]

Run(run_type, models) ==
  [run_type |-> run_type, allowed_model_ids |-> MCModelIds, models |-> models]

FallsBackTo(model, id) == [model EXCEPT !.fallback_model_id = id]

Pairs ==
  {Run(run_type, <<FallsBackTo(Sonnet, a), FallsBackTo(Gpt, b)>>) :
     run_type \in {"IMPLEMENTATION"},
     a \in {None, "gpt", "sonnet", "other"}, b \in {None, "gpt", "sonnet"}}

Triples ==
  {Run("IMPLEMENTATION", <<FallsBackTo(Sonnet, a), FallsBackTo(Gpt, b),
                           FallsBackTo(Spare, c)>>) :
     a \in {"gpt", "spare"}, b \in {None, "spare"}, c \in {None, "gpt"}}

\* One id declared for two roles, and one role for two ids.
Twice ==
  {Run("IMPLEMENTATION", <<Sonnet, [Gpt EXCEPT !.model_id = "sonnet"]>>),
   Run("IMPLEMENTATION", <<Sonnet, [Spare EXCEPT !.role = "CODING_AGENT"], Gpt>>)}

Refused ==
  {Run("READ_ONLY_ANALYSIS", <<>>), Run("READ_ONLY_ANALYSIS", <<Gpt>>),
   Run("READ_ONLY_ANALYSIS", <<FallsBackTo(Sonnet, None)>>), Run("IMPLEMENTATION", <<Gpt>>),
   [Run("IMPLEMENTATION", <<FallsBackTo(Sonnet, None), Gpt>>)
      EXCEPT !.allowed_model_ids = {"gpt"}],
   [Run("IMPLEMENTATION", <<Sonnet, Gpt>>) EXCEPT !.allowed_model_ids = {"sonnet"}],
   [Run("IMPLEMENTATION", <<FallsBackTo(Sonnet, "spare"), Gpt, Spare>>)
      EXCEPT !.allowed_model_ids = {"sonnet", "gpt"}],
   Run("IMPLEMENTATION", <<Sonnet, [Gpt EXCEPT !.model_run_id = "ca"]>>),
   Run("IMPLEMENTATION", <<Sonnet, [Gpt EXCEPT !.permissions = {}]>>),
   Run("IMPLEMENTATION", <<Sonnet, [Gpt EXCEPT !.requests_per_min = 0]>>),
   Run("IMPLEMENTATION", <<[Sonnet EXCEPT !.pinned = FALSE], Gpt>>),
   Run("IMPLEMENTATION", <<[Sonnet EXCEPT !.provider = None], Gpt>>)}

MCManifests == Pairs \cup Triples \cup Twice \cup Refused

\* A full bucket's calls at once, and those after a pause that would fill it twice.
MCWatched == {<<"gpt", 0>>, <<"sonnet", 2>>}

MCAsked == {None, "verify"}
==============================================================================
