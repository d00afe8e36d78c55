----------------------------- MODULE AuditRules -----------------------------
(***************************************************************************)
(* The audit rule model and the pure rule-set operations that auomsctl     *)
(* calls: CanonicalMergeKey, MergeRules and DiffRules.  Their code lives   *)
(* in AuditRules.cpp, which is not part of the sources given here, so they *)
(* are written from spec.md sections 3, 4.2 and 4.3.                       *)
(*                                                                         *)
(* A rule is abstracted to the three things reconciliation tells apart:    *)
(*   mkey - its CanonicalMergeKey (filter, action, sorted fields, watch    *)
(*          path), a model value;                                          *)
(*   cov  - the syscalls of a syscall rule or the perms of a watch rule;   *)
(*          the code treats both alike, only the field differs;            *)
(*   keys - its key tags (-k).                                             *)
(***************************************************************************)
EXTENDS FiniteSets, Sequences, SequencesExt

CONSTANTS
    MergeKeys,      \* canonical merge keys of the rules in the model
    Syscalls,       \* syscalls (or watch perms) a rule can cover
    Tags,           \* key tags a rule can carry
    AUOMS_RULE_KEY  \* the tag auoms puts on the rules it owns

ASSUME AUOMS_RULE_KEY \in Tags

Rule == [mkey : MergeKeys, cov : SUBSET Syscalls \ {{}}, keys : SUBSET Tags]

CanonicalMergeKey(r) == r.mkey

\* Every (merge key, syscall) pair some rule of the set R audits.
Coverage(R) == UNION { {r.mkey} \X r.cov : r \in R }

\* MergeRules: one rule per merge key present in R, covering the union of
\* the syscalls and carrying the union of the keys of the rules sharing it.
MergeRules(R) ==
    LET Group(k) == { r \in R : CanonicalMergeKey(r) = k }
    IN  { [mkey |-> k,
           cov  |-> UNION { r.cov : r \in Group(k) },
           keys |-> UNION { r.keys : r \in Group(k) }]
          : k \in { CanonicalMergeKey(r) : r \in R } }

\* The syscalls of desired rule d that no rule of current with the same
\* merge key covers; with a non-empty keyFilter only current rules carrying
\* that tag are subtracted.
Missing(current, d, keyFilter) ==
    d.cov \ UNION { c.cov : c \in { c \in current :
                        /\ CanonicalMergeKey(c) = CanonicalMergeKey(d)
                        /\ keyFilter = "" \/ keyFilter \in c.keys } }

\* DiffRules: for each desired rule with a gap, a rule like it carrying only
\* the missing syscalls; rules with nothing missing are omitted.
DiffRules(current, desired, keyFilter) ==
    LET gaps == SelectSeq(desired, LAMBDA d : Missing(current, d, keyFilter) # {})
    IN  [i \in 1..Len(gaps) |->
            [gaps[i] EXCEPT !.cov = Missing(current, gaps[i], keyFilter)]]

=============================================================================
