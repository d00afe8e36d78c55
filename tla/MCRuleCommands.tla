--------------------------- MODULE MCRuleCommands ---------------------------
(* Model values and bounds for checking RuleCommands with TLC. *)
EXTENDS RuleCommands, TLC

CONSTANTS k1, k2, s1, auoms, other

MCMergeKeys == {k1, k2}
MCSyscalls == {s1}
MCTags == {auoms, other}

\* Rules that differ in merge key and in keys: a rule of another tool, one
\* tagged by it, and one carrying both tags.
MCRuleSpace == [mkey : MCMergeKeys, cov : {{s1}}, keys : {{}, {other}, {auoms, other}}]

Symmetry == Permutations(MCMergeKeys)
=============================================================================
