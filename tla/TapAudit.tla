------------------------------ MODULE TapAudit ------------------------------
(***************************************************************************)
(* `auomsctl tap' (tap_audit() in src/auomsctl.cpp): make this process the *)
(* kernel's audit collector (the audit pid), enable auditing if it was     *)
(* off, then poll once a second that it is still the collector.  Another   *)
(* collector (auditd, auoms) may register or die at any moment between the *)
(* tap's netlink requests.  Requests may fail; AuditSetPid may time out    *)
(* after or before the kernel applied it.                                  *)
(***************************************************************************)
EXTENDS Integers

CONSTANTS
    Ours, Other,            \* the tap's pid and another collector's pid
    MaxFailures,            \* netlink requests that fail in one behaviour
    MaxTimeouts,            \* AuditSetPid requests that time out in one behaviour
    MaxOther                \* registrations or deaths of the other collector

NoPid == 0
Pids == {NoPid, Ours, Other}

VARIABLES
    refusesReplace, \* the running kernel answers EEXIST to replacing a live
                    \* collector (newer kernels) or replaces it (older ones)
    auditPid,       \* the kernel's audit pid
    enabled,        \* the kernel's enabled flag
    otherAlive,     \* /proc/<Other> exists
    pc,             \* where tap_audit() is
    pid,            \* its local pid
    savedEnabled,   \* its local enabled, read by AuditGet
    retry_count,    \* its set-pid retry counter
    revertArmed,    \* the Defer _revert_enabled is registered
    failures, timeouts, otherSteps,
    takenOver       \* history: another collector took the audit pid since
                    \* the tap left the set-pid loop

vars == <<refusesReplace, auditPid, enabled, otherAlive, pc, pid, savedEnabled, retry_count,
          revertArmed, failures, timeouts, otherSteps, takenOver>>

Alive(p) == (p = Ours /\ pc # "done") \/ (p = Other /\ otherAlive)

\* The kernel's answer to AUDIT_SET pid p: replace unless it refuses to
\* drop a live collector.
KernelSetPid(p) ==
    IF refusesReplace /\ auditPid \notin {NoPid, p} /\ Alive(auditPid)
    THEN auditPid
    ELSE p

CanFail == failures < MaxFailures
Fail == failures' = failures + 1

\* Leaving tap_audit(): the Defer _revert_enabled, once registered, runs
\* AuditSetEnabled(1) when the enabled flag read at the start was 0
\* (lines 945-954); a locked kernel refuses it.
Exit ==
    /\ pc' = "done"
    /\ enabled' = IF revertArmed /\ savedEnabled = 0 /\ enabled # 2 THEN 1 ELSE enabled

Init ==
    /\ refusesReplace \in BOOLEAN
    /\ auditPid \in {NoPid, Other}
    /\ enabled \in {0, 1}
    /\ otherAlive \in BOOLEAN
    /\ pc = "get_status"
    /\ pid = NoPid
    /\ savedEnabled = 0
    /\ retry_count = 0
    /\ revertArmed = FALSE
    /\ failures = 0
    /\ timeouts = 0
    /\ otherSteps = 0
    /\ takenOver = FALSE

(***************************************************************************)
(* Lines 900-913: AuditGet (NetlinkRetry); give up if it fails or if a     *)
(* live process is already the collector.                                  *)
(***************************************************************************)
GetStatus ==
    /\ pc = "get_status"
    /\ \/ /\ CanFail /\ Fail
          /\ Exit
          /\ UNCHANGED <<pid, savedEnabled>>
       \/ /\ pid' = auditPid
          /\ savedEnabled' = enabled
          /\ IF auditPid # NoPid /\ Alive(auditPid)
               THEN Exit
               ELSE pc' = "set_pid" /\ UNCHANGED enabled
          /\ UNCHANGED failures
    /\ UNCHANGED <<refusesReplace, auditPid, otherAlive, retry_count, revertArmed, timeouts, otherSteps,
                   takenOver>>

\* A variant of SetPid that keeps AuditSetPid's return code (-ETIMEDOUT)
\* where the re-fetched pid belongs, for mutation testing of TypeOK.
SetPidKeepsRet ==
    /\ pc = "set_pid"
    /\ timeouts < MaxTimeouts
    /\ timeouts' = timeouts + 1
    /\ pid' = -110
    /\ retry_count' = retry_count + 1
    /\ UNCHANGED <<refusesReplace, auditPid, enabled, pc, otherAlive, savedEnabled,
                   revertArmed, failures, otherSteps, takenOver>>

SetPid ==
    /\ pc = "set_pid"
    /\ \/ /\ KernelSetPid(Ours) = Ours
          /\ auditPid' = Ours
          /\ pc' = "set_enabled"
          /\ takenOver' = FALSE
          /\ UNCHANGED <<enabled, pid, retry_count, failures, timeouts>>
       \/ /\ KernelSetPid(Ours) # Ours
          /\ Exit
          /\ UNCHANGED <<auditPid, pid, retry_count, failures, timeouts, takenOver>>
       \/ /\ CanFail /\ Fail
          /\ Exit
          /\ UNCHANGED <<auditPid, pid, retry_count, timeouts, takenOver>>
       \/ /\ timeouts < MaxTimeouts
          /\ timeouts' = timeouts + 1
          /\ \E applied \in BOOLEAN :
               LET pid2 == IF applied THEN KernelSetPid(Ours) ELSE auditPid IN
               /\ auditPid' = pid2
               /\ \/ /\ CanFail /\ Fail
                     /\ Exit
                     /\ UNCHANGED <<pid, retry_count, takenOver>>
                  \/ /\ pid' = pid2
                     /\ retry_count' = retry_count + 1
                     /\ pc' = IF pid2 = Ours THEN "set_enabled" ELSE "set_pid"
                     /\ takenOver' = (takenOver /\ pc' = "set_pid")
                     /\ UNCHANGED <<enabled, failures>>
    /\ UNCHANGED <<refusesReplace, otherAlive, savedEnabled, revertArmed, otherSteps>>

(***************************************************************************)
(* Lines 937-956: if auditing was off, AuditSetEnabled(1) (NetlinkRetry;   *)
(* failure returns 1 before the Defer is registered), then register the    *)
(* Defer and enter the poll loop.                                          *)
(***************************************************************************)
SetEnabled ==
    /\ pc = "set_enabled"
    /\ \/ /\ savedEnabled = 0
          /\ CanFail /\ Fail
          /\ Exit
          /\ UNCHANGED revertArmed
       \/ /\ enabled' = IF savedEnabled = 0 /\ enabled # 2 THEN 1 ELSE enabled
          /\ revertArmed' = TRUE
          /\ pc' = "monitor"
          /\ UNCHANGED failures
    /\ UNCHANGED <<refusesReplace, auditPid, otherAlive, pid, savedEnabled, retry_count, timeouts, otherSteps,
                   takenOver>>

(***************************************************************************)
(* Lines 958-974: one poll: AuditGetPid (NetlinkRetry); return 1 if it     *)
(* fails or the pid is no longer ours, else wait a second.                 *)
(***************************************************************************)
Poll ==
    /\ pc = "monitor"
    /\ \/ /\ CanFail /\ Fail
          /\ Exit
          /\ UNCHANGED pid
       \/ /\ pid' = auditPid
          /\ auditPid # Ours
          /\ Exit
          /\ UNCHANGED failures
    /\ UNCHANGED <<refusesReplace, auditPid, otherAlive, savedEnabled, retry_count, revertArmed, timeouts, otherSteps,
                   takenOver>>

\* Lines 956-960: SIGINT/SIGTERM opens the stop gate; the loop returns 0.
Stop ==
    /\ pc = "monitor"
    /\ Exit
    /\ UNCHANGED <<refusesReplace, auditPid, otherAlive, pid, savedEnabled, retry_count, revertArmed,
                   failures, timeouts, otherSteps, takenOver>>

(***************************************************************************)
(* The other collector starts and sets its pid, or dies (its pid stays     *)
(* registered until the kernel notices).                                   *)
(***************************************************************************)
OtherRegister ==
    /\ otherSteps < MaxOther
    /\ pc # "done"
    /\ otherSteps' = otherSteps + 1
    /\ otherAlive' = TRUE
    /\ auditPid' = KernelSetPid(Other)
    /\ takenOver' = (takenOver \/ auditPid' # auditPid)
    /\ UNCHANGED <<refusesReplace, enabled, pc, pid, savedEnabled, retry_count, revertArmed, failures, timeouts>>

OtherDie ==
    /\ otherSteps < MaxOther
    /\ pc # "done"
    /\ otherAlive
    /\ otherSteps' = otherSteps + 1
    /\ otherAlive' = FALSE
    /\ UNCHANGED <<refusesReplace, auditPid, enabled, pc, pid, savedEnabled, retry_count, revertArmed,
                   failures, timeouts, takenOver>>

Tap == GetStatus \/ SetPid \/ SetEnabled \/ Poll

Next == Tap \/ Stop \/ OtherRegister \/ OtherDie

\* The tap's own steps are fair, but a netlink failure is the environment's
\* choice, never forced by fairness.
TapProgress == Tap /\ UNCHANGED failures

Spec == Init /\ [][Next]_vars /\ WF_vars(TapProgress)

-----------------------------------------------------------------------------

TypeOK ==
    /\ auditPid \in Pids /\ pid \in Pids
    /\ enabled \in {0, 1, 2} /\ savedEnabled \in {0, 1, 2}
    /\ otherAlive \in BOOLEAN /\ revertArmed \in BOOLEAN
    /\ pc \in {"get_status", "set_pid", "set_enabled", "monitor", "done"}
    /\ retry_count \in Nat

NoStealLiveCollector ==
    [][~(auditPid = Other /\ Alive(Other) /\ auditPid' = Ours)]_vars

=============================================================================
