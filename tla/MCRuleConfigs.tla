----------------------------- MODULE MCRuleConfigs -----------------------------
(* Small instances of RuleConfigs for TLC. *)
EXTENDS RuleConfigs, TLC

\* Clients, query types and bodies are interchangeable: none is named by the
\* specification.
Interchangeable ==
  Permutations(Clients) \cup Permutations(Types) \cup Permutations(Bodies)

=============================================================================
