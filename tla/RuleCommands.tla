---------------------------- MODULE RuleCommands ----------------------------
(***************************************************************************)
(* The kernel rule commands of auomsctl (src/auomsctl.cpp lines 74-266):  *)
(*   -s        show_audit_status(): print the kernel's audit status;       *)
(*   -l [key]  list_rules(): print the kernel's rules carrying key;        *)
(*   -D [key]  delete_rules(): delete the kernel's rules carrying key;     *)
(*   -R file   load_rules(path): add every rule of a rules file;           *)
(*   -p file, -m file1 file2, -d file1 file2: print a rules file, or the   *)
(*             merge or the diff of two, without touching the kernel.     *)
(* One command runs, issuing blocking netlink requests; other tools        *)
(* (auditctl, auditd, auoms) may change or lock the kernel's rules between *)
(* any two of them.  The kernel answers a rule listing from one snapshot   *)
(* of its rules, but a listing that times out part-way is retried by       *)
(* NetlinkRetry, which calls the lambda (and its rules.clear()) again.     *)
(* Printed text is abstracted to what it is printed from.                  *)
(***************************************************************************)
EXTENDS Integers, FiniteSets, Sequences, SequencesExt, AuditRules

CONSTANTS
    RuleSpace,      \* the rules the kernel and rules files may hold
    MaxKernel,      \* most rules loaded in the kernel initially
    MaxFile,        \* most rules in a rules file
    MaxFailures,    \* netlink requests or file reads that fail in one behaviour
    MaxTimeouts,    \* listings that time out part-way in one behaviour
    MaxExternal     \* rule changes other tools make in one behaviour

ASSUME RuleSpace \subseteq Rule

Cmds == {"status", "list", "delete", "load", "print", "merge", "diff"}

VARIABLES
    kernel,     \* the set of rules loaded in the kernel
    enabled,    \* the kernel's enabled flag: 0, 1 or 2 (locked)
    isRoot,     \* geteuid() == 0
    cmd,        \* the command run
    key,        \* its key argument ("" when absent)
    file,       \* -R, -p, -m, -d: the rules ParseRules() returns for the file
    file2,      \* -m, -d: those of the second file
    pc,
    listed,     \* the vector rules the listing fills
    i,          \* index of the loop over listed (delete) or file (load)
    exitCode,   \* exit_code, and the return value once pc = "done"
    printed,    \* what the command printed: rules, or the enabled flag
    failures, timeouts, external,
    \* history, read only by the properties
    seen,       \* the kernel's rule sets while the listing ran
    disturbed   \* another tool changed the kernel while the command ran

vars == <<kernel, enabled, isRoot, cmd, key, file, file2, pc, listed, i, exitCode, printed,
          failures, timeouts, external, seen, disturbed>>

args == <<isRoot, cmd, key, file, file2>>

\* The rule is one the key argument selects (lines 148 and 202).
Selected(r) == key = "" \/ key \in r.keys

CanFail == failures < MaxFailures
Fail == failures' = failures + 1

Finish(code) == pc' = "done" /\ exitCode' = code

Init ==
    /\ kernel \in { K \in SUBSET RuleSpace : Cardinality(K) <= MaxKernel }
    /\ enabled \in {0, 1, 2}
    /\ isRoot \in BOOLEAN
    /\ cmd \in Cmds
    /\ key \in IF cmd \in {"list", "delete"} THEN Tags \cup {""} ELSE {""}
    /\ file \in IF cmd \in {"load", "print", "merge", "diff"}
                THEN BoundedSeq(RuleSpace, MaxFile) ELSE {<<>>}
    /\ file2 \in IF cmd \in {"merge", "diff"} THEN BoundedSeq(RuleSpace, MaxFile) ELSE {<<>>}
    /\ pc = cmd
    /\ listed = <<>>
    /\ i = 1
    /\ exitCode = 0
    /\ printed = <<>>
    /\ failures = 0 /\ timeouts = 0 /\ external = 0
    /\ seen = {}
    /\ disturbed = FALSE

\* A variant that returns -1 when netlink does not open, as
\* monitor_auoms_events() does at line 1078, for mutation testing of TypeOK.
OpenNetlinkMinus1(next) ==
    \/ /\ ~isRoot
       /\ Finish(1)
       /\ UNCHANGED failures
    \/ /\ isRoot
       /\ CanFail /\ Fail
       /\ Finish(-1)
    \/ /\ isRoot
       /\ pc' = next
       /\ UNCHANGED <<exitCode, failures>>

(***************************************************************************)
(* Every command: not root returns 1; then (after reading and parsing the *)
(* file, for -R, whose exception returns 1) open netlink, failing with 1.  *)
(***************************************************************************)
OpenNetlink(next) ==
    \/ /\ ~isRoot
       /\ Finish(1)
       /\ UNCHANGED failures
    \/ /\ isRoot
       /\ CanFail /\ Fail
       /\ Finish(1)
    \/ /\ isRoot
       /\ pc' = next
       /\ UNCHANGED <<exitCode, failures>>

\* NetlinkRetry(AuditGetEnabled): it fails (1), or the flag is read.
GetFlag(ok) ==
    \/ CanFail /\ Fail /\ Finish(1)
    \/ ok /\ UNCHANGED failures

\* A variant of ListAttempt that keeps what an earlier attempt listed, as
\* if the lambda had no rules.clear(), for mutation testing of
\* ListIsSnapshot.
ListAttemptNoClear(part) == listed' = listed \o part

\* One try of the NetlinkRetry lambda (lines 191-194): clear the vector,
\* then AuditListRules appends the rules the kernel sends.
ListAttempt(part) == listed' = part

(***************************************************************************)
(* NetlinkRetry(AuditListRules): a try that times out after part of the    *)
(* dump is retried; one that fails otherwise returns 1; a whole dump goes  *)
(* on to next.                                                             *)
(***************************************************************************)
ListRules(next) ==
    /\ \/ /\ timeouts < MaxTimeouts
          /\ timeouts' = timeouts + 1
          /\ \E S \in SUBSET kernel \ {kernel} : ListAttempt(SetToSeq(S))
          /\ UNCHANGED <<pc, exitCode, failures>>
       \/ /\ CanFail /\ Fail
          /\ Finish(1)
          /\ UNCHANGED <<listed, timeouts>>
       \/ /\ ListAttempt(SetToSeq(kernel))
          /\ pc' = next
          /\ UNCHANGED <<exitCode, failures, timeouts>>
    /\ seen' = seen \cup {kernel}

-----------------------------------------------------------------------------
(* show_audit_status(), lines 74-111.                                      *)

StatusOpen ==
    /\ pc = "status"
    /\ OpenNetlink("status_get")
    /\ UNCHANGED <<kernel, enabled, args, listed, i, printed, timeouts, external, seen, disturbed>>

StatusGet ==
    /\ pc = "status_get"
    /\ \/ CanFail /\ Fail /\ Finish(1) /\ UNCHANGED printed
       \/ printed' = <<enabled>> /\ Finish(0) /\ UNCHANGED failures
    /\ UNCHANGED <<kernel, enabled, args, listed, i, timeouts, external, seen, disturbed>>

(* list_rules(), lines 113-158.                                            *)

ListOpen ==
    /\ pc = "list"
    /\ OpenNetlink("list_get")
    /\ UNCHANGED <<kernel, enabled, args, listed, i, printed, timeouts, external, seen, disturbed>>

ListGet ==
    /\ pc = "list_get"
    /\ ListRules("list_print")
    /\ UNCHANGED <<kernel, enabled, args, i, printed, external, disturbed>>

ListPrint ==
    /\ pc = "list_print"
    /\ printed' = SelectSeq(listed, Selected)
    /\ Finish(0)
    /\ UNCHANGED <<kernel, enabled, args, listed, i, failures, timeouts, external, seen, disturbed>>

(* delete_rules(), lines 160-214.                                          *)

DeleteOpen ==
    /\ pc = "delete"
    /\ OpenNetlink("delete_enabled")
    /\ UNCHANGED <<kernel, enabled, args, listed, i, printed, timeouts, external, seen, disturbed>>

\* Lines 179-188: a failure returns 1, locked rules 2.
DeleteGetEnabled ==
    /\ pc = "delete_enabled"
    /\ GetFlag(IF enabled = 2 THEN Finish(2) ELSE pc' = "delete_list" /\ UNCHANGED exitCode)
    /\ UNCHANGED <<kernel, enabled, args, listed, i, printed, timeouts, external, seen, disturbed>>

DeleteList ==
    /\ pc = "delete_list"
    /\ ListRules("delete_loop")
    /\ UNCHANGED <<kernel, enabled, args, i, printed, external, disturbed>>

\* A variant of DeleteRule that does not record a failed delete in
\* exit_code, for mutation testing of ExitZeroMeansDone.
DeleteRuleNoExitCode ==
    /\ pc = "delete_loop"
    /\ i <= Len(listed)
    /\ LET r == listed[i] IN
       \/ /\ Selected(r) /\ r \in kernel /\ enabled # 2
          /\ kernel' = kernel \ {r}
          /\ UNCHANGED failures
       \/ /\ Selected(r)
          /\ \/ (r \notin kernel \/ enabled = 2) /\ UNCHANGED failures
             \/ CanFail /\ Fail
          /\ UNCHANGED kernel
       \/ ~Selected(r) /\ UNCHANGED <<kernel, failures>>
    /\ i' = i + 1
    /\ UNCHANGED <<enabled, args, pc, listed, exitCode, printed, timeouts, external, seen, disturbed>>

\* Lines 200-209: AuditDelRule each selected listed rule; the kernel
\* refuses a rule it no longer holds (ENOENT) and any change while locked
\* (EPERM).  A failure sets exit_code to 1 and the loop goes on.
DeleteRule ==
    /\ pc = "delete_loop"
    /\ i <= Len(listed)
    /\ LET r == listed[i] IN
       \/ /\ Selected(r) /\ r \in kernel /\ enabled # 2
          /\ kernel' = kernel \ {r}
          /\ UNCHANGED <<exitCode, failures>>
       \/ /\ Selected(r)
          /\ \/ (r \notin kernel \/ enabled = 2) /\ UNCHANGED failures
             \/ CanFail /\ Fail
          /\ exitCode' = 1
          /\ UNCHANGED kernel
       \/ ~Selected(r) /\ UNCHANGED <<kernel, exitCode, failures>>
    /\ i' = i + 1
    /\ UNCHANGED <<enabled, args, pc, listed, printed, timeouts, external, seen, disturbed>>

DeleteDone ==
    /\ pc = "delete_loop"
    /\ i > Len(listed)
    /\ pc' = "done"
    /\ UNCHANGED <<kernel, enabled, args, listed, i, exitCode, printed, failures, timeouts,
                   external, seen, disturbed>>

(* load_rules(path), lines 216-266.                                        *)

\* Lines 216-237: ReadFile or ParseRules may throw (caught: 1).
LoadOpen ==
    /\ pc = "load"
    /\ \/ /\ isRoot /\ CanFail /\ Fail
          /\ Finish(1)
       \/ OpenNetlink("load_enabled")
    /\ UNCHANGED <<kernel, enabled, args, listed, i, printed, timeouts, external, seen, disturbed>>

LoadGetEnabled ==
    /\ pc = "load_enabled"
    /\ GetFlag(IF enabled = 2 THEN Finish(2) ELSE pc' = "load_loop" /\ UNCHANGED exitCode)
    /\ UNCHANGED <<kernel, enabled, args, listed, i, printed, timeouts, external, seen, disturbed>>

\* Lines 251-257: AuditAddRule each rule of the file; the kernel refuses a
\* rule it already holds (EEXIST) and any change while locked.
LoadAddRule ==
    /\ pc = "load_loop"
    /\ i <= Len(file)
    /\ LET r == file[i] IN
       \/ /\ r \notin kernel /\ enabled # 2
          /\ kernel' = kernel \cup {r}
          /\ UNCHANGED <<exitCode, failures>>
       \/ /\ \/ (r \in kernel \/ enabled = 2) /\ UNCHANGED failures
             \/ CanFail /\ Fail
          /\ exitCode' = 1
          /\ UNCHANGED kernel
    /\ i' = i + 1
    /\ UNCHANGED <<enabled, args, pc, listed, printed, timeouts, external, seen, disturbed>>

LoadDone ==
    /\ pc = "load_loop"
    /\ i > Len(file)
    /\ pc' = "done"
    /\ UNCHANGED <<kernel, enabled, args, listed, i, exitCode, printed, failures, timeouts,
                   external, seen, disturbed>>

(***************************************************************************)
(* print_rules, merge_rules and diff_rules, lines 268-313: ReadFile or     *)
(* ParseRules may throw (caught: 1); otherwise print the file's rules, the *)
(* merge of both files, or what the second file's merged rules add to the *)
(* first's.                                                                *)
(***************************************************************************)
FileCommand(c, result) ==
    /\ pc = c
    /\ \/ CanFail /\ Fail /\ Finish(1) /\ UNCHANGED printed
       \/ printed' = result /\ Finish(0) /\ UNCHANGED failures
    /\ UNCHANGED <<kernel, enabled, args, listed, i, timeouts, external, seen, disturbed>>

PrintRules == FileCommand("print", file)

MergeRulesCmd == FileCommand("merge", SetToSeq(MergeRules(ToSet(file) \cup ToSet(file2))))

DiffRulesCmd ==
    FileCommand("diff", DiffRules(MergeRules(ToSet(file)), SetToSeq(MergeRules(ToSet(file2))), ""))

-----------------------------------------------------------------------------
(* Other tools: auditctl -a/-d, auditd, auoms, and auditctl -e 2.          *)

ExternalChange(k2, e2) ==
    /\ pc \notin Cmds \cup {"done"}
    /\ external < MaxExternal
    /\ enabled # 2
    /\ external' = external + 1
    /\ kernel' = k2
    /\ enabled' = e2
    /\ disturbed' = TRUE
    /\ seen' = IF pc \in {"list_get", "delete_list"} THEN seen \cup {k2} ELSE seen
    /\ UNCHANGED <<args, pc, listed, i, exitCode, printed, failures, timeouts>>

External ==
    \/ \E r \in RuleSpace \ kernel : ExternalChange(kernel \cup {r}, enabled)
    \/ \E r \in kernel : ExternalChange(kernel \ {r}, enabled)
    \/ enabled = 1 /\ ExternalChange(kernel, 2)

Next ==
    \/ StatusOpen \/ StatusGet
    \/ ListOpen \/ ListGet \/ ListPrint
    \/ DeleteOpen \/ DeleteGetEnabled \/ DeleteList \/ DeleteRule \/ DeleteDone
    \/ LoadOpen \/ LoadGetEnabled \/ LoadAddRule \/ LoadDone
    \/ PrintRules \/ MergeRulesCmd \/ DiffRulesCmd
    \/ External

Spec == Init /\ [][Next]_vars

-----------------------------------------------------------------------------

TypeOK ==
    /\ kernel \subseteq RuleSpace
    /\ enabled \in {0, 1, 2}
    /\ listed \in Seq(RuleSpace)
    /\ exitCode \in {0, 1, 2}
    /\ i \in 1..MaxFile + Cardinality(RuleSpace) + 1

\* The rules the listing hands on (to the delete loop, or to be printed)
\* are the kernel's rules at one instant while it ran, each once, whatever
\* tries NetlinkRetry made before (the rules.clear() of lines 133 and 192).
ListIsSnapshot ==
    pc \in {"list_print", "delete_loop"} =>
        /\ IsInjective(listed)
        /\ ToSet(listed) \in seen

\* A command that returns 0 while no other tool touched the rules did what
\* it was asked: -D left no rule carrying the key, -R left every rule of
\* the file loaded, -l printed exactly the kernel's rules carrying the key,
\* and -d printed rules that, added to the first file's, audit everything
\* the second file's rules audit.
ExitZeroMeansDone ==
    (pc = "done" /\ exitCode = 0 /\ ~disturbed) =>
        /\ cmd = "delete" => ~\E r \in kernel : Selected(r)
        /\ cmd = "load" => ToSet(file) \subseteq kernel
        /\ cmd = "list" => ToSet(printed) = { r \in kernel : Selected(r) }
        /\ cmd = "diff" => Coverage(ToSet(file2)) \subseteq Coverage(ToSet(file) \cup ToSet(printed))

=============================================================================
