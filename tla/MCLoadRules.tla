---------------------------- MODULE MCLoadRules ----------------------------
(* Model values and bounds for checking LoadRules with TLC. *)
EXTENDS LoadRules, TLC

CONSTANTS k1, k2, s1, s2, auoms, other

MCMergeKeys == {k1, k2}
MCSyscalls == {s1, s2}
MCTags == {auoms, other}

\* A rules.d line: one merge key, one or both syscalls; or a line the host
\* does not support.
MCConfigRules ==
    [mkey : {k1, k2}, cov : {{s1}, {s1, s2}}, supported : {TRUE}]
        \cup [mkey : {k1, k2}, cov : {{s2}}, supported : {FALSE}]

Symmetry == Permutations(MCMergeKeys)
=============================================================================
