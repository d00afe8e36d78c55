----------------------------- MODULE LoadRules ------------------------------
(***************************************************************************)
(* `auomsctl loadrules' (load_rules() in src/auomsctl.cpp): reconcile the  *)
(* kernel's audit rules with the desired rules of                          *)
(* /etc/opt/microsoft/auoms/rules.d.  The driver is one process issuing    *)
(* blocking netlink requests; every request is one atomic step, so other   *)
(* tools (auditctl, augenrules, auditd) may change the kernel's rules or   *)
(* lock them between any two of its requests.  Any request may fail       *)
(* (NetlinkRetry gave up, EINTR, EPERM, ENOENT, EEXIST).                   *)
(***************************************************************************)
EXTENDS Naturals, FiniteSets, Sequences, SequencesExt, AuditRules

CONSTANTS
    ConfigRules,    \* rules the rules.d files can hold (before tagging)
    MaxConfig,      \* most rules in rules.d
    MaxKernel,      \* most rules loaded in the kernel initially
    MaxFailures,    \* netlink requests that may fail in one behaviour
    MaxExternal,    \* rule changes other tools may make in one behaviour
    MaxCrashes,     \* times auomsctl is killed mid-cycle and run again
    MaxFaults       \* failures, other tools' changes and crashes together

VARIABLES
    kernel,     \* the set of rules loaded in the kernel
    conf,       \* the rules of rules.d, as ReadAuditRulesFromDir parses them
    enabled,    \* the kernel's audit enabled flag: 0, 1, or 2 (locked)
    pc,         \* where load_rules() is
    desired,    \* desired_rules: the supported rules.d rules, tagged
    rules,      \* rules: the kernel rules as listed first
    todo,       \* rules the current delete or add loop has yet to send
    exitCode,   \* load_rules()'s return value once pc = "done"
    failures,   \* netlink requests that have failed so far
    external,   \* changes other tools have made so far
    crashes,    \* times the process was killed mid-cycle so far
    \* history, read only by the properties
    foreign0,   \* coverage of the non-auoms rules when the cycle started
    failed,     \* some request of the cycle failed
    disturbed   \* another tool changed the kernel during the cycle

vars == <<kernel, conf, enabled, pc, desired, rules, todo, exitCode, failures,
          external, crashes, foreign0, failed, disturbed>>

ConfigRule == [mkey : MergeKeys, cov : SUBSET Syscalls \ {{}}, supported : BOOLEAN]
ASSUME ConfigRules \subseteq ConfigRule

ForeignRules(R) == { r \in R : AUOMS_RULE_KEY \notin r.keys }

\* A variant that forgets rule.AddKey(AUOMS_RULE_KEY), for mutation testing
\* of ImplementsContract.
DesiredRulesUntagged(cfg) ==
    LET sup == SelectSeq(cfg, LAMBDA c : c.supported)
    IN  [i \in 1..Len(sup) |-> [mkey |-> sup[i].mkey, cov |-> sup[i].cov, keys |-> {}]]

(***************************************************************************)
(* Lines 1159-1167: keep only the supported rules, tag each with AUOMS.    *)
(***************************************************************************)
DesiredRules(cfg) ==
    LET sup == SelectSeq(cfg, LAMBDA c : c.supported)
    IN  [i \in 1..Len(sup) |->
            [mkey |-> sup[i].mkey, cov |-> sup[i].cov, keys |-> {AUOMS_RULE_KEY}]]

(***************************************************************************)
(* Lines 1217-1220: _dmap.emplace keeps the FIRST desired rule of each     *)
(* merge key.                                                              *)
(***************************************************************************)
DMap(d) ==
    [k \in { CanonicalMergeKey(d[i]) : i \in 1..Len(d) } |->
        d[CHOOSE i \in 1..Len(d) :
             /\ CanonicalMergeKey(d[i]) = k
             /\ \A j \in 1..i-1 : CanonicalMergeKey(d[j]) # k]]

\* A variant that reads the helper's name literally, testing the arguments
\* the other way round, for mutation testing of ForeignCoverageKept.
is_set_intersect_swapped(a, b) == a \subseteq b

\* is_set_intersect(a, b), lines 1148-1156: every element of b is in a.
is_set_intersect(a, b) == b \subseteq a

(***************************************************************************)
(* Lines 1224-1245: delete a listed rule if it carries AUOMS_RULE_KEY, or  *)
(* if its syscalls (perms, for a watch) are a subset of those of the       *)
(* desired rule with its merge key.                                        *)
(***************************************************************************)
DeleteIt(r, dmap) ==
    \/ AUOMS_RULE_KEY \in r.keys
    \/ /\ CanonicalMergeKey(r) \in DOMAIN dmap
       /\ is_set_intersect(dmap[CanonicalMergeKey(r)].cov, r.cov)

\* Faults so far: failed requests, other tools' changes and crashes.
Faults == failures + external + crashes

\* A netlink request fails on its own (retry budget spent, EINTR, ...).
CanFail == failures < MaxFailures /\ Faults < MaxFaults

Init ==
    /\ kernel \in { K \in SUBSET Rule : Cardinality(K) <= MaxKernel }
    /\ conf \in BoundedSeq(ConfigRules, MaxConfig)
    /\ enabled \in {0, 1}
    /\ pc = "start"
    /\ desired = <<>>
    /\ rules = {}
    /\ todo = {}
    /\ exitCode = 0
    /\ failures = 0
    /\ external = 0
    /\ crashes = 0
    /\ foreign0 = {}
    /\ failed = FALSE
    /\ disturbed = FALSE

Finish(code) == pc' = "done" /\ exitCode' = code

(***************************************************************************)
(* Lines 1159-1196: read rules.d, open netlink, list the kernel's rules    *)
(* (NetlinkRetry), merge them and diff; stop with 0 when nothing is        *)
(* missing, with 1 when opening or listing failed.  foreign0 records the  *)
(* other tools' coverage when the first run of the cycle starts.           *)
(***************************************************************************)
Start ==
    /\ pc = "start"
    /\ LET d == DesiredRules(conf) IN
         /\ desired' = d
         /\ foreign0' = IF crashes = 0 THEN Coverage(ForeignRules(kernel)) ELSE foreign0
         /\ \/ /\ CanFail
               /\ failures' = failures + 1
               /\ failed' = TRUE
               /\ Finish(1)
               /\ UNCHANGED rules
            \/ /\ rules' = kernel
               /\ UNCHANGED <<failures, failed>>
               /\ IF DiffRules(MergeRules(kernel), d, "") = <<>>
                    THEN Finish(0)
                    ELSE pc' = "get_enabled" /\ UNCHANGED exitCode
    /\ UNCHANGED <<kernel, enabled, todo, external, crashes, conf, disturbed>>

\* A variant of GetEnabled that returns 2 on locked rules, as delete_rules()
\* does at line 187, for mutation testing of TypeOK.
GetEnabledReturns2 ==
    /\ pc = "get_enabled"
    /\ \/ /\ CanFail
          /\ failures' = failures + 1
          /\ failed' = TRUE
          /\ Finish(0)
          /\ UNCHANGED todo
       \/ /\ enabled = 2
          /\ Finish(2)
          /\ UNCHANGED <<todo, failures, failed>>
       \/ /\ enabled # 2
          /\ todo' = { r \in rules : DeleteIt(r, DMap(desired)) }
          /\ pc' = "delete"
          /\ UNCHANGED <<exitCode, failures, failed>>
    /\ UNCHANGED <<kernel, enabled, desired, rules, external, crashes, conf, foreign0, disturbed>>

(***************************************************************************)
(* Lines 1198-1220: get the enabled flag; a failure returns false (0), a   *)
(* locked kernel (2) returns 0; otherwise start the delete loop over the   *)
(* listed rules.                                                           *)
(***************************************************************************)
GetEnabled ==
    /\ pc = "get_enabled"
    /\ \/ /\ CanFail
          /\ failures' = failures + 1
          /\ failed' = TRUE
          /\ Finish(0)
          /\ UNCHANGED todo
       \/ /\ enabled = 2
          /\ Finish(0)
          /\ UNCHANGED <<todo, failures, failed>>
       \/ /\ enabled # 2
          /\ todo' = { r \in rules : DeleteIt(r, DMap(desired)) }
          /\ pc' = "delete"
          /\ UNCHANGED <<exitCode, failures, failed>>
    /\ UNCHANGED <<kernel, enabled, desired, rules, external, crashes, conf, foreign0, disturbed>>

(***************************************************************************)
(* Lines 1246-1251: AuditDelRule; the kernel refuses a rule it no longer   *)
(* holds (ENOENT) and any change while locked (EPERM).  A failure is only  *)
(* logged.                                                                 *)
(***************************************************************************)
DeleteRule ==
    /\ pc = "delete"
    /\ \E r \in todo :
         /\ todo' = todo \ {r}
         /\ \/ /\ r \in kernel
               /\ enabled # 2
               /\ kernel' = kernel \ {r}
               /\ UNCHANGED <<failures, failed>>
            \/ /\ r \notin kernel \/ enabled = 2
               /\ failed' = TRUE
               /\ UNCHANGED <<kernel, failures>>
            \/ /\ CanFail
               /\ failures' = failures + 1
               /\ failed' = TRUE
               /\ UNCHANGED kernel
    /\ UNCHANGED <<enabled, pc, desired, rules, exitCode, external, crashes, conf, foreign0, disturbed>>

\* A variant of Refresh that re-diffs against the first listing instead of
\* listing the rules again, for mutation testing of Converged.
RefreshStale ==
    /\ pc = "delete"
    /\ todo = {}
    /\ LET diff == DiffRules(MergeRules(rules), desired, "") IN
       /\ IF diff = <<>>
            THEN Finish(1) /\ UNCHANGED todo
            ELSE /\ todo' = ToSet(diff)
                 /\ pc' = "add"
                 /\ UNCHANGED exitCode
    /\ UNCHANGED <<kernel, enabled, desired, rules, external, crashes, conf, foreign0, disturbed,
                   failures, failed>>

(***************************************************************************)
(* Lines 1254-1270: after the delete loop, list the rules again, merge and *)
(* re-diff.  A failed list returns false (0); an empty diff returns true   *)
(* (1); otherwise start the add loop over the diff.                        *)
(***************************************************************************)
Refresh ==
    /\ pc = "delete"
    /\ todo = {}
    /\ \/ /\ CanFail
          /\ failures' = failures + 1
          /\ failed' = TRUE
          /\ Finish(0)
          /\ UNCHANGED todo
       \/ LET diff == DiffRules(MergeRules(kernel), desired, "") IN
          /\ UNCHANGED <<failures, failed>>
          /\ IF diff = <<>>
               THEN Finish(1) /\ UNCHANGED todo
               ELSE /\ todo' = ToSet(diff)
                    /\ pc' = "add"
                    /\ UNCHANGED exitCode
    /\ UNCHANGED <<kernel, enabled, desired, rules, external, crashes, conf, foreign0, disturbed>>

(***************************************************************************)
(* Lines 1273-1278: AuditAddRule; the kernel refuses a rule it already     *)
(* holds (EEXIST) and any change while locked.  A failure is only logged.  *)
(***************************************************************************)
AddRule ==
    /\ pc = "add"
    /\ \E r \in todo :
         /\ todo' = todo \ {r}
         /\ \/ /\ r \notin kernel
               /\ enabled # 2
               /\ kernel' = kernel \cup {r}
               /\ UNCHANGED <<failures, failed>>
            \/ /\ r \in kernel \/ enabled = 2
               /\ failed' = TRUE
               /\ UNCHANGED <<kernel, failures>>
            \/ /\ CanFail
               /\ failures' = failures + 1
               /\ failed' = TRUE
               /\ UNCHANGED kernel
    /\ UNCHANGED <<enabled, pc, desired, rules, exitCode, external, crashes, conf, foreign0, disturbed>>

\* Line 1279: the add loop is over; return 0.
AddDone ==
    /\ pc = "add"
    /\ todo = {}
    /\ Finish(0)
    /\ UNCHANGED <<kernel, enabled, desired, rules, todo, failures, external, crashes, conf,
                   foreign0, failed, disturbed>>

(***************************************************************************)
(* auomsctl is killed (SIGKILL, OOM, a reboot of the service) between two  *)
(* of its requests once it has begun to change the kernel, in the delete   *)
(* loop (lines 1222-1252), before the add loop, or in it; then `auomsctl   *)
(* loadrules' is run again.  What it held in memory is gone; the kernel's  *)
(* rules and rules.d stay as they are.  (Killed before its first delete it *)
(* has changed nothing, which is the same as starting later.)              *)
(***************************************************************************)
Crash ==
    /\ pc \in {"delete", "add"}
    /\ crashes < MaxCrashes /\ Faults < MaxFaults
    /\ crashes' = crashes + 1
    /\ pc' = "start"
    /\ desired' = <<>> /\ rules' = {} /\ todo' = {}
    /\ UNCHANGED <<kernel, conf, enabled, exitCode, failures, external, foreign0,
                   failed, disturbed>>

(***************************************************************************)
(* Other tools: auditctl -a/-d, augenrules, auditd loading audit.rules,    *)
(* and auditctl -e 2, which locks the rules until reboot.                  *)
(***************************************************************************)
\* A cycle is under way from the first Start until a run returns, across
\* the runs a crash interrupted.
InCycle == pc \notin {"start", "done"} \/ crashes > 0

\* Once load_rules() has returned the run is over: later changes are the
\* business of the next run.  A change before the first run starts is the
\* same as another initial kernel, which Init already has.
ExternalChange(k2, e2) ==
    /\ pc # "done" /\ InCycle
    /\ external < MaxExternal /\ Faults < MaxFaults
    /\ enabled # 2
    /\ external' = external + 1
    /\ kernel' = k2
    /\ enabled' = e2
    /\ disturbed' = TRUE
    /\ UNCHANGED <<pc, desired, rules, todo, exitCode, failures, crashes, conf, foreign0, failed>>

ExternalAdd ==
    \E r \in Rule \ kernel : ExternalChange(kernel \cup {r}, enabled)

ExternalDelete ==
    \E r \in kernel : ExternalChange(kernel \ {r}, enabled)

ExternalLock ==
    /\ enabled = 1
    /\ ExternalChange(kernel, 2)

Next ==
    \/ Start \/ GetEnabled \/ DeleteRule \/ Refresh \/ AddRule \/ AddDone
    \/ Crash
    \/ ExternalAdd \/ ExternalDelete \/ ExternalLock

Spec == Init /\ [][Next]_vars

-----------------------------------------------------------------------------

TypeOK ==
    /\ kernel \subseteq Rule
    /\ enabled \in {0, 1, 2}
    /\ pc \in {"start", "get_enabled", "delete", "add", "done"}
    /\ desired \in Seq(Rule)
    /\ rules \subseteq Rule
    /\ todo \subseteq Rule
    /\ exitCode \in {0, 1}
    /\ failures \in 0..MaxFailures
    /\ external \in 0..MaxExternal
    /\ crashes \in 0..MaxCrashes
    /\ failed \in BOOLEAN
    /\ disturbed \in BOOLEAN

DesiredCoverage == Coverage(ToSet(desired))

Clean == ~failed /\ ~disturbed

\* Idempotence (spec.md 8): a cycle that met no failure and no other tool
\* leaves every desired syscall audited, unless the rules were locked; that
\* is, re-running the diff after load_rules() finds nothing to add.  It
\* rests on the re-list at line 1255 before the re-diff.
Converged ==
    (pc = "done" /\ Clean /\ enabled # 2) => DesiredCoverage \subseteq Coverage(kernel)

\* Deleting other tools' rules is safe (spec.md 4.4): after a clean cycle
\* every syscall another tool's rule audited when load_rules() started is
\* still audited, although the delete loop (lines 1222-1252) removed rules
\* that were not auoms's.
ForeignCoverageKept ==
    (pc = "done" /\ Clean) => foreign0 \subseteq Coverage(kernel)

(***************************************************************************)
(* The contract of ReconcileContract, under the mapping: the cycle is idle *)
(* until a run starts, running until one returns; the desired rules are    *)
(* those the current run read.                                             *)
(***************************************************************************)
Contract == INSTANCE ReconcileContract WITH
    phase   <- CASE pc = "start" -> "idle"
                 [] pc = "done"  -> "done"
                 [] OTHER        -> "running",
    desired <- IF pc = "start" THEN {} ELSE ToSet(desired),
    others  <- external

\* Every change load_rules() makes to the kernel's rules, across failed
\* requests, other tools' changes and runs killed part-way, deletes only a
\* rule auoms owns or one a desired rule covers, and adds only owned parts
\* of desired rules (spec.md 4.4: deleting a rule that covers syscalls
\* another tool wants is unsafe).  It rests on DeleteIt (lines 1224-1245),
\* the tag added at line 1163, and the kernel refusing stale requests.
ImplementsContract == Contract!Spec

\* The same promise when requests may fail but no other tool interferes:
\* spec.md 4.4 calls a rule whose syscalls are a subset of a desired rule's
\* "safe to remove without losing coverage", while per-rule add failures
\* (lines 1273-1278) and a failed re-list (lines 1259-1262) are only logged.
ForeignCoverageKeptDespiteFailures ==
    (pc = "done" /\ ~disturbed) => foreign0 \subseteq Coverage(kernel)

\* The exit status of load_rules() tells whether the cycle went wrong
\* (spec.md 4.4: success or failure is reported): it returns 0 exactly when
\* no netlink request of the cycle failed.  The code returns false (0)
\* after errors at lines 1202 and 1261 and true (1) at line 1269.
ExitCodeReflectsErrors ==
    pc = "done" => (exitCode = 0 <=> ~failed)

=============================================================================
