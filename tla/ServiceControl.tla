--------------------------- MODULE ServiceControl ---------------------------
(***************************************************************************)
(* The service commands of src/auomsctl.cpp: enable, disable, start, stop, *)
(* restart, state, is-enabled and upgrade, run one after another by an     *)
(* operator.                                                               *)
(* Each query of the system (systemctl is-enabled, pgrep, the plugin file) *)
(* and each change (systemctl enable, service start/stop, pkill, writing   *)
(* the plugin file) is one step; between steps the processes react to the *)
(* requests made of the service manager.                                   *)
(*                                                                         *)
(* The helper functions that several commands call (start_service,         *)
(* stop_service, stop_auditd_service, restart_auditd_service) are          *)
(* procedures: a call pushes the return label on stack.  A throw unwinds   *)
(* to the command's catch.                                                 *)
(***************************************************************************)
EXTENDS Naturals, Sequences

CONSTANTS
    PROC_WAIT_TIME, \* polls of a wait loop (10 in the code)
    MaxFailures,    \* commands run by auomsctl that fail, in one behaviour
    MaxCrashes,     \* processes that die unasked, and starts that fail, in
                    \* one behaviour (each)
    MaxCmds         \* auomsctl invocations in one behaviour

Comms == {"auoms", "auditd", "auomscollect"}
Services == {"auoms", "auditd"}
Cmds == {"enable", "disable", "start", "stop", "restart", "state", "is-enabled", "upgrade"}

VARIABLES
    hasAuditd,  \* /sbin/auditd exists
    svcEnabled, \* the auoms service is enabled (systemctl is-enabled)
    plugin,     \* the plugin file says active = yes
    running,    \* Comms -> BOOLEAN: pgrep -x finds the process
    req,        \* Services -> pending request to the service manager:
                \* "start", "stop" or "none"
    loaded,     \* the plugin setting auditd read when it last started
    cmd,        \* the auomsctl command being run
    allArg,     \* the operator typed `all' after start/stop/restart
    all,        \* the flag main() computes from argv
    pc, stack,  \* the command's control point and call stack
    svc,        \* the argument of start_service
    i,          \* the counter of the current wait loop
    ret,        \* the value the last procedure returned
    exitCode,
    failures, crashes, startFailures, ncmds

vars == <<hasAuditd, svcEnabled, plugin, running, req, loaded, cmd, allArg, all,
          pc, stack, svc, i, ret, exitCode, failures, crashes, startFailures, ncmds>>
sys == <<svcEnabled, plugin, running, req, loaded>>
ctl == <<svc, i, ret, exitCode>>
meta == <<hasAuditd, cmd, allArg, all, failures, crashes, startFailures, ncmds>>

\* auomscollect is run by auditd as a plugin when auditd has read an
\* active plugin file, and alongside auoms when there is no auditd.
CollectHost ==
    IF hasAuditd THEN running["auditd"] /\ loaded ELSE running["auoms"]

CanFail == failures < MaxFailures
Fail == failures' = failures + 1

Call(label, back) == pc' = label /\ stack' = <<back>> \o stack
Return == pc' = Head(stack) /\ stack' = Tail(stack)
Finish(code) == pc' = "done" /\ exitCode' = code /\ stack' = <<>>

\* The value each command's catch block returns.
CatchCode == [c \in Cmds |-> CASE c = "state" -> 5
                               [] c = "is-enabled" -> 2
                               [] OTHER -> 1]

\* A failed command (Cmd::Run < 0 or a non-zero status) throws
\* runtime_error, caught by the command's try block.
Throw ==
    /\ CanFail /\ Fail
    /\ Finish(CatchCode[cmd])
    /\ UNCHANGED <<sys, svc, i, ret>>

\* service_cmd(c, name): `service name c' succeeds; the service manager
\* takes the request.
ServiceCmd(c, name) == req' = [req EXCEPT ![name] = c]

\* The queries auomsctl makes: systemctl is-enabled (or the rc*.d links),
\* the plugin file's `active = yes' line, and pgrep -x -U 0.
is_service_enabled == svcEnabled
is_auditd_plugin_enabled == plugin
is_service_proc_running(comm) == running[comm]

\* The changes: systemctl enable / disable (or chkconfig, update-rc.d),
\* and rewriting the plugin file.
enable_service == svcEnabled' = TRUE
disable_service == svcEnabled' = FALSE
set_auditd_plugin_status(b) == plugin' = b

\* kill_service_proc(comm): pkill -KILL.
Kill(comm) == running' = [running EXCEPT ![comm] = FALSE]

(***************************************************************************)
(* start_service() and start_auditd_service(), lines 566-579 and 624-636: *)
(* return true if the process runs; else `service start', then poll      *)
(* PROC_WAIT_TIME times, a second apart.                                   *)
(***************************************************************************)
StartCheck ==
    /\ pc = "ss_check"
    /\ \/ /\ is_service_proc_running(svc)
          /\ ret' = TRUE /\ Return
          /\ UNCHANGED <<sys, i, exitCode, failures>>
       \/ /\ ~is_service_proc_running(svc)
          /\ ServiceCmd("start", svc)
          /\ i' = 0 /\ pc' = "ss_wait"
          /\ UNCHANGED <<svcEnabled, plugin, running, loaded, stack, ret, exitCode, failures>>
       \/ ~is_service_proc_running(svc) /\ Throw
    /\ UNCHANGED <<svc, hasAuditd, cmd, allArg, all, crashes, startFailures, ncmds>>

\* A variant with an off-by-one loop bound, for mutation testing of TypeOK.
StartWaitOffByOne ==
    /\ pc = "ss_wait"
    /\ \/ /\ i <= PROC_WAIT_TIME /\ is_service_proc_running(svc)
          /\ ret' = TRUE /\ Return
          /\ UNCHANGED i
       \/ /\ i <= PROC_WAIT_TIME /\ ~is_service_proc_running(svc)
          /\ i' = i + 1
          /\ UNCHANGED <<pc, stack, ret>>
       \/ /\ i = PROC_WAIT_TIME + 1
          /\ ret' = FALSE /\ Return
          /\ UNCHANGED i
    /\ UNCHANGED <<sys, svc, exitCode, meta>>

StartWait ==
    /\ pc = "ss_wait"
    /\ \/ /\ i < PROC_WAIT_TIME /\ is_service_proc_running(svc)
          /\ ret' = TRUE /\ Return
          /\ UNCHANGED i
       \/ /\ i < PROC_WAIT_TIME /\ ~is_service_proc_running(svc)
          /\ i' = i + 1
          /\ UNCHANGED <<pc, stack, ret>>
       \/ /\ i = PROC_WAIT_TIME
          /\ ret' = FALSE /\ Return
          /\ UNCHANGED i
    /\ UNCHANGED <<sys, svc, exitCode, meta>>

(***************************************************************************)
(* stop_service(), lines 582-615: if auoms runs, `service auoms stop'      *)
(* (errors ignored), wait for it, kill it after PROC_WAIT_TIME polls; with *)
(* no auditd, then wait for auomscollect and kill it.                      *)
(***************************************************************************)
StopCheck ==
    /\ pc = "st_check"
    /\ \/ /\ is_service_proc_running("auoms")
          /\ \/ ServiceCmd("stop", "auoms") /\ UNCHANGED failures
             \/ CanFail /\ Fail /\ UNCHANGED req
          /\ i' = 0 /\ pc' = "st_wait"
       \/ /\ ~is_service_proc_running("auoms")
          /\ pc' = "st_collect"
          /\ UNCHANGED <<req, i, failures>>
    /\ UNCHANGED <<svcEnabled, plugin, running, loaded, stack, svc, ret, exitCode,
                   hasAuditd, cmd, allArg, all, crashes, startFailures, ncmds>>

StopWait ==
    /\ pc = "st_wait"
    /\ \/ /\ i < PROC_WAIT_TIME /\ ~is_service_proc_running("auoms")
          /\ pc' = "st_collect"
          /\ UNCHANGED <<running, i>>
       \/ /\ i < PROC_WAIT_TIME /\ is_service_proc_running("auoms")
          /\ i' = i + 1
          /\ UNCHANGED <<running, pc>>
       \/ /\ i = PROC_WAIT_TIME
          /\ Kill("auoms")
          /\ pc' = "st_collect"
          /\ UNCHANGED i
    /\ UNCHANGED <<svcEnabled, plugin, req, loaded, stack, svc, ret, exitCode, meta>>

StopCollect ==
    /\ pc = "st_collect"
    /\ \/ hasAuditd /\ Return /\ UNCHANGED i
       \/ ~hasAuditd /\ i' = 0 /\ pc' = "st_cwait" /\ UNCHANGED stack
    /\ UNCHANGED <<sys, svc, ret, exitCode, meta>>

\* A variant that polls without counting, for mutation testing of
\* CommandTerminates.
CollectWaitNoCount ==
    /\ pc = "st_cwait"
    /\ \/ ~is_service_proc_running("auomscollect") /\ Return /\ UNCHANGED <<running, i>>
       \/ is_service_proc_running("auomscollect") /\ UNCHANGED <<running, pc, stack, i>>
    /\ UNCHANGED <<svcEnabled, plugin, req, loaded, svc, ret, exitCode, meta>>

\* The wait for auomscollect shared by stop_service (lines 606-613) and
\* stop_auditd_service (lines 649-657): return once it has gone, kill it
\* after PROC_WAIT_TIME polls.
CollectWait ==
    /\ pc = "st_cwait"
    /\ \/ /\ i < PROC_WAIT_TIME /\ ~is_service_proc_running("auomscollect")
          /\ Return
          /\ UNCHANGED <<running, i>>
       \/ /\ i < PROC_WAIT_TIME /\ is_service_proc_running("auomscollect")
          /\ i' = i + 1
          /\ UNCHANGED <<running, pc, stack>>
       \/ /\ i = PROC_WAIT_TIME
          /\ Kill("auomscollect")
          /\ Return
          /\ UNCHANGED i
    /\ UNCHANGED <<svcEnabled, plugin, req, loaded, svc, ret, exitCode, meta>>

(***************************************************************************)
(* stop_auditd_service(), lines 639-661: `service auditd stop' (a failure  *)
(* throws), wait for auditd, then for auomscollect.                        *)
(***************************************************************************)
AuditdStop ==
    /\ pc = "sa_stop"
    /\ \/ /\ ServiceCmd("stop", "auditd")
          /\ i' = 0 /\ pc' = "sa_wait"
          /\ UNCHANGED <<svcEnabled, plugin, running, loaded, stack, svc, ret, exitCode, failures>>
       \/ Throw /\ UNCHANGED req
    /\ UNCHANGED <<hasAuditd, cmd, allArg, all, crashes, startFailures, ncmds>>

AuditdWait ==
    /\ pc = "sa_wait"
    /\ \/ /\ i < PROC_WAIT_TIME /\ is_service_proc_running("auditd")
          /\ i' = i + 1
          /\ UNCHANGED pc
       \/ /\ i = PROC_WAIT_TIME \/ ~is_service_proc_running("auditd")
          /\ i' = 0 /\ pc' = "st_cwait"
    /\ UNCHANGED <<sys, stack, svc, ret, exitCode, meta>>

(***************************************************************************)
(* restart_auditd_service(), lines 663-671: stop it, `service auditd      *)
(* start' (a failure throws), sleep a second, return whether it runs.      *)
(***************************************************************************)
AuditdRestart ==
    /\ pc = "ra_start"
    /\ \/ /\ ServiceCmd("start", "auditd")
          /\ pc' = "ra_check"
          /\ UNCHANGED <<svcEnabled, plugin, running, loaded, stack, ctl, failures>>
       \/ Throw /\ UNCHANGED req
    /\ UNCHANGED <<hasAuditd, cmd, allArg, all, crashes, startFailures, ncmds>>

AuditdCheck ==
    /\ pc = "ra_check"
    /\ ret' = is_service_proc_running("auditd") /\ Return
    /\ UNCHANGED <<sys, svc, i, exitCode, meta>>

\* The call restart_auditd_service() makes: stop_auditd_service, then
\* start.
CallRestartAuditd(back) ==
    pc' = "sa_stop" /\ stack' = <<"ra_start", back>> \o stack

(***************************************************************************)
(* enable_auoms(), lines 673-720.                                          *)
(***************************************************************************)
EnEnabled ==
    /\ pc = "en_enabled"
    /\ \/ is_service_enabled /\ pc' = "en_running" /\ UNCHANGED <<sys, stack, ctl, failures>>
       \/ /\ ~is_service_enabled
          /\ enable_service /\ pc' = "en_running"
          /\ UNCHANGED <<plugin, running, req, loaded, stack, ctl, failures>>
       \/ ~is_service_enabled /\ Throw
    /\ UNCHANGED <<hasAuditd, cmd, allArg, all, crashes, startFailures, ncmds>>

EnRunning ==
    /\ pc = "en_running"
    /\ \/ is_service_proc_running("auoms") /\ pc' = "en_plugin" /\ UNCHANGED <<stack, svc>>
       \/ ~is_service_proc_running("auoms") /\ svc' = "auoms" /\ Call("ss_check", "en_started")
    /\ UNCHANGED <<sys, i, ret, exitCode, meta>>

\* A variant that ignores start_service's result, for mutation testing of
\* EnableSucceeded.
EnStartedIgnoresRet ==
    /\ pc = "en_started"
    /\ pc' = "en_plugin"
    /\ UNCHANGED <<sys, stack, svc, i, ret, exitCode, meta>>

EnStarted ==
    /\ pc = "en_started"
    /\ \/ ~ret /\ Finish(2)
       \/ ret /\ pc' = "en_plugin" /\ UNCHANGED <<stack, exitCode>>
    /\ UNCHANGED <<sys, svc, i, ret, meta>>

EnPlugin ==
    /\ pc = "en_plugin"
    /\ \/ is_auditd_plugin_enabled /\ i' = 0 /\ pc' = "en_collect" /\ UNCHANGED <<plugin, stack>>
       \/ /\ ~is_auditd_plugin_enabled /\ set_auditd_plugin_status(TRUE)
          /\ \/ hasAuditd /\ CallRestartAuditd("en_auditd") /\ UNCHANGED i
             \/ ~hasAuditd /\ i' = 0 /\ pc' = "en_collect" /\ UNCHANGED stack
    /\ UNCHANGED <<svcEnabled, running, req, loaded, svc, ret, exitCode, meta>>

EnAuditd ==
    /\ pc = "en_auditd"
    /\ \/ ~ret /\ Finish(3) /\ UNCHANGED i
       \/ ret /\ i' = 0 /\ pc' = "en_collect" /\ UNCHANGED <<stack, exitCode>>
    /\ UNCHANGED <<sys, svc, ret, meta>>

EnCollect ==
    /\ pc = "en_collect"
    /\ \/ i < PROC_WAIT_TIME /\ is_service_proc_running("auomscollect") /\ Finish(0) /\ UNCHANGED i
       \/ /\ i < PROC_WAIT_TIME /\ ~is_service_proc_running("auomscollect")
          /\ i' = i + 1 /\ UNCHANGED <<pc, stack, exitCode>>
       \/ i = PROC_WAIT_TIME /\ Finish(4) /\ UNCHANGED i
    /\ UNCHANGED <<sys, svc, ret, meta>>

(***************************************************************************)
(* disable_auoms(), lines 736-774 (after its call of stop_service).       *)
(***************************************************************************)
DisEnabled ==
    /\ pc = "dis_enabled"
    /\ \/ /\ is_service_enabled
          /\ disable_service /\ pc' = "dis_plugin"
          /\ UNCHANGED <<plugin, running, req, loaded, stack, ctl, failures>>
       \/ is_service_enabled /\ Throw
       \/ ~is_service_enabled /\ pc' = "dis_plugin" /\ UNCHANGED <<sys, stack, ctl, failures>>
    /\ UNCHANGED <<hasAuditd, cmd, allArg, all, crashes, startFailures, ncmds>>

DisPlugin ==
    /\ pc = "dis_plugin"
    /\ \/ /\ is_auditd_plugin_enabled /\ set_auditd_plugin_status(FALSE)
          /\ \/ hasAuditd /\ CallRestartAuditd("dis_rules")
             \/ ~hasAuditd /\ pc' = "dis_rules" /\ UNCHANGED stack
       \/ ~is_auditd_plugin_enabled /\ pc' = "dis_rules" /\ UNCHANGED <<plugin, stack>>
    /\ UNCHANGED <<svcEnabled, running, req, loaded, ctl, meta>>

\* delete_rules(AUOMS_RULE_KEY) and remove_rules_from_audit_files(): a
\* non-zero result of either makes the command return 1.
DisRules ==
    /\ pc = "dis_rules"
    /\ \/ Finish(0) /\ UNCHANGED failures
       \/ CanFail /\ Fail /\ Finish(1)
    /\ UNCHANGED <<sys, svc, i, ret, hasAuditd, cmd, allArg, all, crashes, startFailures, ncmds>>

(***************************************************************************)
(* start_auoms(all), lines 776-797: exitCode holds the local ret.          *)
(***************************************************************************)
StartAuoms ==
    /\ pc = "start_auoms"
    /\ \/ is_service_proc_running("auoms") /\ pc' = "start_all" /\ UNCHANGED <<stack, svc>>
       \/ ~is_service_proc_running("auoms") /\ svc' = "auoms" /\ Call("ss_check", "start_auoms_ret")
    /\ UNCHANGED <<sys, i, ret, exitCode, meta>>

StartAuomsRet ==
    /\ pc = "start_auoms_ret"
    /\ exitCode' = IF ret THEN 0 ELSE 1
    /\ pc' = "start_all"
    /\ UNCHANGED <<sys, stack, svc, i, ret, meta>>

\* main() never sets all (line 1434), so the branch of lines 786-791 that
\* starts auditd is never taken: with all TRUE no step is defined.
StartAll ==
    /\ pc = "start_all"
    /\ ~(all /\ hasAuditd /\ ~is_service_proc_running("auditd"))
    /\ Finish(exitCode)
    /\ UNCHANGED <<sys, svc, i, ret, meta>>

(***************************************************************************)
(* stop_auoms(all), lines 799-812.                                         *)
(***************************************************************************)
StopAll ==
    /\ pc = "stop_all"
    /\ \/ all /\ hasAuditd /\ Call("sa_stop", "stop_auoms")
       \/ ~(all /\ hasAuditd) /\ pc' = "stop_auoms" /\ UNCHANGED stack
    /\ UNCHANGED <<sys, ctl, meta>>

StopAuoms ==
    /\ pc = "stop_auoms"
    /\ \/ is_service_proc_running("auoms") /\ Call("st_check", "stop_done") /\ UNCHANGED exitCode
       \/ ~is_service_proc_running("auoms") /\ Finish(0)
    /\ UNCHANGED <<sys, svc, i, ret, meta>>

StopDone ==
    /\ pc = "stop_done"
    /\ Finish(0)
    /\ UNCHANGED <<sys, svc, i, ret, meta>>

(***************************************************************************)
(* restart_auoms(all), lines 814-831, with restart_service (lines 618-     *)
(* 622): stop_service, then start_service.                                 *)
(***************************************************************************)
RstStart ==
    /\ pc = "rst_start"
    /\ svc' = "auoms" /\ Call("ss_check", "rst_all")
    /\ UNCHANGED <<sys, i, ret, exitCode, meta>>

\* As in StartAll, the restart_auditd_service branch of lines 821-826 is
\* never taken.
RstAll ==
    /\ pc = "rst_all"
    /\ ~(all /\ hasAuditd)
    /\ Finish(IF ret THEN 0 ELSE 1)
    /\ UNCHANGED <<sys, svc, i, ret, meta>>

(***************************************************************************)
(* show_auoms_state(), lines 842-869: is_service_enabled (systemctl may   *)
(* fail to run, caught as 5), then the plugin file and pgrep.             *)
(***************************************************************************)
StateEnabled ==
    /\ pc = "state_enabled"
    /\ \/ /\ pc' = IF is_service_enabled THEN "state_plugin" ELSE "state_disabled"
          /\ UNCHANGED <<stack, exitCode, failures>>
       \/ Throw
    /\ UNCHANGED <<sys, svc, i, ret, hasAuditd, cmd, allArg, all, crashes, startFailures, ncmds>>

StateDisabled ==
    /\ pc = "state_disabled"
    /\ Finish(IF is_auditd_plugin_enabled \/ is_service_proc_running("auoms") THEN 3 ELSE 2)
    /\ UNCHANGED <<sys, svc, i, ret, meta>>

StatePlugin ==
    /\ pc = "state_plugin"
    /\ \/ ~is_auditd_plugin_enabled /\ Finish(4)
       \/ is_auditd_plugin_enabled /\ pc' = "state_proc" /\ UNCHANGED <<stack, exitCode>>
    /\ UNCHANGED <<sys, svc, i, ret, meta>>

StateProc ==
    /\ pc = "state_proc"
    /\ Finish(IF is_service_proc_running("auoms") THEN 0 ELSE 2)
    /\ UNCHANGED <<sys, svc, i, ret, meta>>

\* `auomsctl is-enabled' (main, lines 1407-1419).
IsEnabled ==
    /\ pc = "is_enabled"
    /\ \/ Finish(IF is_service_enabled THEN 0 ELSE 1) /\ UNCHANGED failures
       \/ Throw
    /\ UNCHANGED <<sys, svc, i, ret, hasAuditd, cmd, allArg, all, crashes, startFailures, ncmds>>

(***************************************************************************)
(* upgrade(), lines 1282-1349: if the plugin file is active, stop auditd   *)
(* and auoms, wait for auoms and auomscollect to be gone (killing them),   *)
(* enable and start auoms, rewrite the plugin file and start auditd; the   *)
(* results of start_service and start_auditd_service are not used.         *)
(***************************************************************************)
UpPlugin ==
    /\ pc = "up_plugin"
    /\ \/ is_auditd_plugin_enabled /\ hasAuditd /\ Call("sa_stop", "up_stop") /\ UNCHANGED exitCode
       \/ is_auditd_plugin_enabled /\ ~hasAuditd /\ pc' = "up_stop" /\ UNCHANGED <<stack, exitCode>>
       \/ ~is_auditd_plugin_enabled /\ Finish(0)
    /\ UNCHANGED <<sys, svc, i, ret, meta>>

UpStop ==
    /\ pc = "up_stop"
    /\ Call("st_check", "up_stopped")
    /\ UNCHANGED <<sys, ctl, meta>>

UpStopped ==
    /\ pc = "up_stopped"
    /\ i' = 0 /\ pc' = "up_wait_auoms"
    /\ UNCHANGED <<sys, stack, svc, ret, exitCode, meta>>

\* The two wait-then-kill loops of lines 1302-1327.
UpWait(comm, label, next) ==
    /\ pc = label
    /\ \/ /\ i < PROC_WAIT_TIME /\ ~running[comm]
          /\ i' = 0 /\ pc' = next
          /\ UNCHANGED running
       \/ /\ i < PROC_WAIT_TIME /\ running[comm]
          /\ i' = i + 1
          /\ UNCHANGED <<running, pc>>
       \/ /\ i = PROC_WAIT_TIME
          /\ Kill(comm)
          /\ i' = 0 /\ pc' = next
    /\ UNCHANGED <<svcEnabled, plugin, req, loaded, stack, svc, ret, exitCode, meta>>

UpWaitAuoms == UpWait("auoms", "up_wait_auoms", "up_wait_collect")
UpWaitCollect == UpWait("auomscollect", "up_wait_collect", "up_enable")

UpEnable ==
    /\ pc = "up_enable"
    /\ \/ /\ enable_service
          /\ svc' = "auoms" /\ Call("ss_check", "up_plugin_on")
          /\ UNCHANGED <<plugin, running, req, loaded, i, ret, exitCode, failures>>
       \/ Throw /\ UNCHANGED svc
    /\ UNCHANGED <<hasAuditd, cmd, allArg, all, crashes, startFailures, ncmds>>

UpPluginOn ==
    /\ pc = "up_plugin_on"
    /\ set_auditd_plugin_status(TRUE)
    /\ \/ hasAuditd /\ svc' = "auditd" /\ Call("ss_check", "up_done") /\ UNCHANGED exitCode
       \/ ~hasAuditd /\ Finish(0) /\ UNCHANGED svc
    /\ UNCHANGED <<svcEnabled, running, req, loaded, i, ret, meta>>

UpDone ==
    /\ pc = "up_done"
    /\ Finish(0)
    /\ UNCHANGED <<sys, svc, i, ret, meta>>

(***************************************************************************)
(* main(), lines 1351-1459: a new auomsctl invocation.  For start, stop    *)
(* and restart, `all' is set when argc > 2 and argv[1] is "all"; argv[1]  *)
(* is the command's own name.                                              *)
(***************************************************************************)
EntryPoint(c) ==
    CASE c = "enable"     -> <<"en_enabled", <<>>>>
      [] c = "disable"    -> <<"st_check", <<"dis_enabled">>>>
      [] c = "start"      -> <<"start_auoms", <<>>>>
      [] c = "stop"       -> <<"stop_all", <<>>>>
      [] c = "restart"    -> <<"st_check", <<"rst_start">>>>
      [] c = "state"      -> <<"state_enabled", <<>>>>
      [] c = "is-enabled" -> <<"is_enabled", <<>>>>
      [] c = "upgrade"    -> <<"up_plugin", <<>>>>

Main ==
    /\ pc \in {"idle", "done"}
    /\ ncmds < MaxCmds
    /\ \E c \in Cmds, extra \in BOOLEAN :
         /\ cmd' = c
         /\ allArg' = (extra /\ c \in {"start", "stop", "restart"})
         /\ all' = (extra /\ c = "all")
         /\ pc' = EntryPoint(c)[1]
         /\ stack' = EntryPoint(c)[2]
    /\ exitCode' = 0 /\ i' = 0
    /\ ncmds' = ncmds + 1
    /\ UNCHANGED <<sys, svc, ret, hasAuditd, failures, crashes, startFailures>>

(***************************************************************************)
(* The rest of the system: the service manager carries out the requests,  *)
(* auditd and auoms run or stop auomscollect, and a process may die or    *)
(* fail to start.  Their steps are observed while a command runs: the      *)
(* state at "done" is the one the command returned in, and the next        *)
(* command meets whatever happened in between.                             *)
(***************************************************************************)
Running == pc \notin {"idle", "done"}

ProcStart(s) ==
    /\ Running
    /\ req[s] = "start"
    /\ req' = [req EXCEPT ![s] = "none"]
    /\ running' = [running EXCEPT ![s] = TRUE]
    /\ loaded' = IF s = "auditd" /\ ~running["auditd"] THEN plugin ELSE loaded
    /\ UNCHANGED <<svcEnabled, plugin, pc, stack, ctl, meta>>

ProcStop(s) ==
    /\ Running
    /\ req[s] = "stop"
    /\ req' = [req EXCEPT ![s] = "none"]
    /\ running' = [running EXCEPT ![s] = FALSE]
    /\ UNCHANGED <<svcEnabled, plugin, loaded, pc, stack, ctl, meta>>

CollectStart ==
    /\ Running
    /\ ~running["auomscollect"] /\ CollectHost
    /\ running' = [running EXCEPT !["auomscollect"] = TRUE]
    /\ UNCHANGED <<svcEnabled, plugin, req, loaded, pc, stack, ctl, meta>>

CollectStop ==
    /\ Running
    /\ running["auomscollect"] /\ ~CollectHost
    /\ running' = [running EXCEPT !["auomscollect"] = FALSE]
    /\ UNCHANGED <<svcEnabled, plugin, req, loaded, pc, stack, ctl, meta>>

\* A started daemon exits at once (bad configuration, say): the service
\* manager has carried out the start and nothing runs.
StartFails(s) ==
    /\ Running
    /\ req[s] = "start" /\ ~running[s]
    /\ startFailures < MaxCrashes
    /\ req' = [req EXCEPT ![s] = "none"]
    /\ startFailures' = startFailures + 1
    /\ UNCHANGED <<svcEnabled, plugin, running, loaded, pc, stack, ctl,
                   hasAuditd, cmd, allArg, all, failures, crashes, ncmds>>

Crash(p) ==
    /\ Running
    /\ running[p] /\ crashes < MaxCrashes
    /\ running' = [running EXCEPT ![p] = FALSE]
    /\ crashes' = crashes + 1
    /\ UNCHANGED <<svcEnabled, plugin, req, loaded, pc, stack, ctl,
                   hasAuditd, cmd, allArg, all, failures, startFailures, ncmds>>

\* A settled system: auditd, if it runs, has read the plugin file as it is.
Init ==
    /\ hasAuditd \in BOOLEAN
    /\ svcEnabled \in BOOLEAN
    /\ plugin \in BOOLEAN
    /\ \E a \in BOOLEAN, d \in BOOLEAN :
         /\ loaded = (d /\ plugin)
         /\ running = [c \in Comms |->
                         CASE c = "auoms" -> a
                           [] c = "auditd" -> d /\ hasAuditd
                           [] c = "auomscollect" ->
                                IF hasAuditd THEN d /\ loaded ELSE a]
    /\ req = [s \in Services |-> "none"]
    /\ cmd = "enable" /\ allArg = FALSE /\ all = FALSE
    /\ pc = "idle" /\ stack = <<>>
    /\ svc = "auoms" /\ i = 0 /\ ret = FALSE /\ exitCode = 0
    /\ failures = 0 /\ crashes = 0 /\ startFailures = 0 /\ ncmds = 0

Helpers == StartCheck \/ StartWait \/ StopCheck \/ StopWait \/ StopCollect
           \/ CollectWait \/ AuditdStop \/ AuditdWait \/ AuditdRestart \/ AuditdCheck

Commands == EnEnabled \/ EnRunning \/ EnStarted \/ EnPlugin \/ EnAuditd \/ EnCollect
            \/ DisEnabled \/ DisPlugin \/ DisRules
            \/ StartAuoms \/ StartAuomsRet \/ StartAll
            \/ StopAll \/ StopAuoms \/ StopDone \/ RstStart \/ RstAll
            \/ StateEnabled \/ StateDisabled \/ StatePlugin \/ StateProc \/ IsEnabled
            \/ UpPlugin \/ UpStop \/ UpStopped \/ UpWaitAuoms \/ UpWaitCollect
            \/ UpEnable \/ UpPluginOn \/ UpDone

Environment ==
    \/ \E s \in Services : ProcStart(s) \/ ProcStop(s) \/ StartFails(s)
    \/ CollectStart \/ CollectStop
    \/ \E p \in Comms : Crash(p)

Next == Main \/ Helpers \/ Commands \/ Environment

\* auomsctl is a running process: a step of its own that it can take is
\* taken.  Neither the operator (Main) nor the other processes are fair.
Spec == Init /\ [][Next]_vars /\ WF_vars(Helpers \/ Commands)

-----------------------------------------------------------------------------

TypeOK ==
    /\ running \in [Comms -> BOOLEAN]
    /\ req \in [Services -> {"start", "stop", "none"}]
    /\ svc \in Services /\ i \in 0..PROC_WAIT_TIME
    /\ exitCode \in 0..5
    /\ Len(stack) <= 2

\* Command c has just returned 0.
Succeeded(c) == pc = "done" /\ cmd = c /\ exitCode = 0

\* No process that auomsctl saw running has died, the service manager has
\* carried out every start and stop asked of it, and auomscollect runs
\* exactly when its host does: the system is at rest.
Settled ==
    /\ crashes = 0
    /\ \A s \in Services : req[s] = "none"
    /\ running["auomscollect"] = CollectHost

\* `auomsctl enable' returns 0 (its comment: "0 on success") only when the
\* service is enabled, the plugin is active, auoms runs and auomscollect
\* runs under a host that has loaded the plugin, whatever state earlier,
\* partly failed commands left behind (enable_auoms, lines 687-716).
EnableSucceeded ==
    (Succeeded("enable") /\ Settled) =>
        svcEnabled /\ plugin /\ running["auoms"] /\ CollectHost

\* `auomsctl disable' returns 0 only when nothing of auoms is left
\* enabled or running: no service, no active plugin, no auoms process and
\* no auditd still hosting the plugin it loaded (disable_auoms, lines
\* 751-769).
DisableSucceeded ==
    (Succeeded("disable") /\ Settled) =>
        ~svcEnabled /\ ~plugin /\ ~running["auoms"] /\ ~CollectHost

\* Every command returns: each wait loop of the helpers gives up after
\* PROC_WAIT_TIME polls, even if a service never starts or stops.
CommandTerminates ==
    [](pc \notin {"idle", "done"} => <>(pc = "done"))

\* `auomsctl stop all' asks auditd to stop as well (stop_auoms(all),
\* lines 801-803, reached from main at lines 1432-1437).
StopAllStopsAuditd ==
    (pc = "done" /\ cmd = "stop" /\ allArg /\ exitCode = 0 /\ hasAuditd) =>
        req["auditd"] = "stop" \/ ~running["auditd"]

=============================================================================
