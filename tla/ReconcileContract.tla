-------------------------- MODULE ReconcileContract --------------------------
(***************************************************************************)
(* What one reconciliation cycle of `auomsctl loadrules' promises the      *)
(* other users of the kernel's audit rules (spec.md 4.4), with none of the *)
(* listing, merging and diffing that achieves it.  While a cycle runs the  *)
(* tool changes the kernel only by                                         *)
(*   - deleting a rule it owns (tagged AUOMS_RULE_KEY) or one whose        *)
(*     syscalls a desired rule with the same merge key also audits, and    *)
(*   - adding a rule it owns that audits part of a desired rule;           *)
(* it changes nothing once the rules are locked (enabled = 2).  Other      *)
(* tools change the rules as they like.  A cycle may be cut short and      *)
(* begun again.                                                            *)
(***************************************************************************)
EXTENDS AuditRules

VARIABLES
    kernel,     \* the set of rules loaded in the kernel
    enabled,    \* the kernel's enabled flag: 0, 1, or 2 (locked)
    phase,      \* "idle" (no run of the cycle yet), "running" or "done"
    desired,    \* the desired rules of the running cycle
    others      \* how many changes other tools have made

vars == <<kernel, enabled, phase, desired, others>>

\* A desired rule: a rule of rules.d, tagged as owned by auoms.
Owned == { r \in Rule : r.keys = {AUOMS_RULE_KEY} }

\* r audits nothing a desired rule with its merge key does not also audit.
CoveredByDesired(r) ==
    \E d \in desired : CanonicalMergeKey(d) = CanonicalMergeKey(r) /\ r.cov \subseteq d.cov

SafeToDelete(r) == AUOMS_RULE_KEY \in r.keys \/ CoveredByDesired(r)

\* A part of a desired rule: its merge key and tags, some of its syscalls.
PartOfDesired(r) ==
    \E d \in desired : /\ CanonicalMergeKey(d) = CanonicalMergeKey(r)
                       /\ r.keys = d.keys
                       /\ r.cov \subseteq d.cov

Init ==
    /\ kernel \subseteq Rule
    /\ enabled \in {0, 1}
    /\ phase = "idle"
    /\ desired = {}
    /\ others = 0

\* A run reads rules.d; it may return at once.
Begin ==
    /\ phase = "idle"
    /\ desired' \in SUBSET Owned
    /\ phase' \in {"running", "done"}
    /\ UNCHANGED <<kernel, enabled, others>>

Delete(r) ==
    /\ phase = "running"
    /\ enabled # 2
    /\ r \in kernel /\ SafeToDelete(r)
    /\ kernel' = kernel \ {r}
    /\ UNCHANGED <<enabled, phase, desired, others>>

Add(r) ==
    /\ phase = "running"
    /\ enabled # 2
    /\ r \notin kernel /\ PartOfDesired(r)
    /\ kernel' = kernel \cup {r}
    /\ UNCHANGED <<enabled, phase, desired, others>>

Return ==
    /\ phase = "running"
    /\ phase' = "done"
    /\ UNCHANGED <<kernel, enabled, desired, others>>

\* The process dies; the cycle starts over with the next run.
Abort ==
    /\ phase = "running"
    /\ phase' = "idle" /\ desired' = {}
    /\ UNCHANGED <<kernel, enabled, others>>

Other ==
    /\ phase # "done"
    /\ enabled # 2
    /\ kernel' \subseteq Rule
    /\ enabled' \in {0, 1, 2}
    /\ others' = others + 1
    /\ UNCHANGED <<phase, desired>>

Next ==
    \/ Begin \/ Return \/ Abort \/ Other
    \/ \E r \in Rule : Delete(r) \/ Add(r)

Spec == Init /\ [][Next]_vars

=============================================================================
