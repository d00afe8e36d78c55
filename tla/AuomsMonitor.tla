---------------------------- MODULE AuomsMonitor ----------------------------
(***************************************************************************)
(* `auomsctl monitor' (monitor_auoms_events() and reload_auoms() in        *)
(* src/auomsctl.cpp): listen on auomsctl.socket, write an output config    *)
(* into /etc/opt/microsoft/auoms/outconf.d, make auoms reload (pkill -HUP) *)
(* so that it connects, handle the one connection (RawConnection), then    *)
(* remove the config and make auoms reload again.                          *)
(*                                                                         *)
(* auoms is a separate process: it handles a SIGHUP later, re-reading the  *)
(* outconf.d directory, and it connects to the socket while its loaded     *)
(* config has the output.  An exception (WriteFile, or pkill that cannot   *)
(* run) is not caught anywhere in auomsctl: the process aborts.  The exit  *)
(* handler set at line 1078 closes the listener on SIGINT/SIGTERM.         *)
(***************************************************************************)
EXTENDS RawConnection

CONSTANTS
    MaxMonitorFailures, \* failed Open(), WriteFile or pkill runs per behaviour
    MaxSignals,         \* SIGINTs the user sends per behaviour
    MaxAuomsRestarts    \* times auoms stops or starts per behaviour

VARIABLES
    mpc,        \* where monitor_auoms_events() is
    isRoot,     \* geteuid() == 0
    retcode,    \* its return value once mpc = "exit"
    listening,  \* the listener socket is open
    conf,       \* outconf.d/auomsctl.conf exists
    auomsUp,    \* the auoms process runs
    auomsOut,   \* auoms's loaded config has the auomsctl output
    hup,        \* a SIGHUP is pending at auoms
    peer,       \* auoms's end of the accepted connection is open
    mfailures, signals, restarts

mvars == <<mpc, isRoot, retcode, listening, conf, auomsUp, auomsOut, hup, peer,
           mfailures, signals, restarts>>
allvars == <<vars, mvars>>

CanFailM == mfailures < MaxMonitorFailures

\* The process aborts on an uncaught exception.
Abort == mpc' = "aborted" /\ mfailures' = mfailures + 1

MInit ==
    /\ Init
    /\ mpc = "start"
    /\ isRoot \in BOOLEAN
    /\ retcode = 0
    /\ listening = FALSE
    /\ conf = FALSE
    /\ auomsUp \in BOOLEAN
    /\ auomsOut = FALSE
    /\ hup = FALSE
    /\ peer = FALSE
    /\ mfailures = 0 /\ signals = 0 /\ restarts = 0

(***************************************************************************)
(* Lines 1063-1076: not root returns 1; a listener that does not open      *)
(* returns -1.                                                             *)
(***************************************************************************)
MonitorStart ==
    /\ mpc = "start"
    /\ \/ ~isRoot /\ mpc' = "exit" /\ retcode' = 1 /\ UNCHANGED <<listening, mfailures>>
       \/ isRoot /\ CanFailM /\ mfailures' = mfailures + 1
          /\ mpc' = "exit" /\ retcode' = -1 /\ UNCHANGED listening
       \/ isRoot /\ listening' = TRUE /\ mpc' = "write" /\ UNCHANGED <<retcode, mfailures>>
    /\ UNCHANGED <<isRoot, conf, auomsUp, auomsOut, hup, peer, signals, restarts>>

(***************************************************************************)
(* Lines 1080-1087: WriteFile; a failure throws, possibly after creating   *)
(* the file.                                                               *)
(***************************************************************************)
WriteConfig ==
    /\ mpc = "write"
    /\ \/ conf' = TRUE /\ mpc' = "reload1" /\ UNCHANGED mfailures
       \/ CanFailM /\ Abort /\ conf' \in BOOLEAN
    /\ UNCHANGED <<isRoot, retcode, listening, auomsUp, auomsOut, hup, peer, signals, restarts>>

(***************************************************************************)
(* reload_auoms(), lines 1036-1060: run pkill -HUP -x -U 0 auoms.  It      *)
(* signals a running auoms (exit 0, true) or finds none (exit 1, false,    *)
(* ignored by both callers); if it cannot run, Cmd::Run returns < 0 and    *)
(* the function throws.                                                    *)
(***************************************************************************)
ReloadAuoms(at, next) ==
    /\ mpc = at
    /\ \/ mpc' = next /\ hup' = (hup \/ auomsUp) /\ UNCHANGED mfailures
       \/ CanFailM /\ Abort /\ UNCHANGED hup
    /\ UNCHANGED <<isRoot, retcode, listening, conf, auomsUp, auomsOut, peer, signals, restarts>>

\* A variant of Cleanup that forgets unlink(config_path), for mutation
\* testing of AuomsOutputRemoved.
CleanupKeepsConfig ==
    /\ mpc = "cleanup"
    /\ listening' = FALSE
    /\ mpc' = "reload2"
    /\ UNCHANGED <<isRoot, retcode, conf, auomsUp, auomsOut, hup, peer, mfailures, signals, restarts>>

(***************************************************************************)
(* Lines 1089-1098: Accept() returns a connection from auoms, or -1 once   *)
(* the listener is closed; then handle_raw_connection() and close(fd).     *)
(***************************************************************************)
AcceptConn ==
    /\ mpc = "accept"
    /\ listening /\ auomsUp /\ auomsOut
    /\ mpc' = "handle" /\ peer' = TRUE
    /\ UNCHANGED <<isRoot, retcode, listening, conf, auomsUp, auomsOut, hup, mfailures,
                   signals, restarts>>

AcceptFails ==
    /\ mpc = "accept"
    /\ ~listening
    /\ mpc' = "cleanup" /\ retcode' = 1
    /\ UNCHANGED <<isRoot, listening, conf, auomsUp, auomsOut, hup, peer, mfailures, signals, restarts>>

\* handle_raw_connection(): a read returns 0 (the end of the stream, the
\* one step that ends the connection without a failure) only once auoms
\* has closed its end; until then a read with no bytes left blocks.
Handle ==
    /\ mpc = "handle" /\ Next /\ UNCHANGED mvars
    /\ (pc' = "done" /\ errors' = errors) => ~peer

CloseConn ==
    /\ mpc = "handle" /\ pc = "done"
    /\ mpc' = "cleanup"
    /\ UNCHANGED <<isRoot, retcode, listening, conf, auomsUp, auomsOut, hup, peer, mfailures,
                   signals, restarts>>

\* Lines 1100-1101: close the listener, remove the config.
Cleanup ==
    /\ mpc = "cleanup"
    /\ listening' = FALSE /\ conf' = FALSE
    /\ mpc' = "reload2"
    /\ UNCHANGED <<isRoot, retcode, auomsUp, auomsOut, hup, peer, mfailures, signals, restarts>>

(***************************************************************************)
(* The environment: the user's SIGINT runs the exit handler (line 1078),   *)
(* which only closes the listener; auoms handles a pending SIGHUP by       *)
(* loading outconf.d again (closing the output's connection if the config  *)
(* is gone), and may stop (closing it) or start and load outconf.d.        *)
(***************************************************************************)
SigInt ==
    /\ mpc \notin {"start", "exit", "aborted"}
    /\ signals < MaxSignals /\ signals' = signals + 1
    /\ listening' = FALSE
    /\ UNCHANGED <<mpc, isRoot, retcode, conf, auomsUp, auomsOut, hup, peer, mfailures, restarts>>

AuomsReload ==
    /\ hup /\ auomsUp
    /\ hup' = FALSE /\ auomsOut' = conf
    /\ peer' = (peer /\ conf)
    /\ UNCHANGED <<mpc, isRoot, retcode, listening, conf, auomsUp, mfailures, signals, restarts>>

AuomsRestart ==
    /\ restarts < MaxAuomsRestarts /\ restarts' = restarts + 1
    /\ auomsUp' = ~auomsUp
    /\ auomsOut' = (~auomsUp /\ conf)
    /\ hup' = FALSE
    /\ peer' = FALSE
    /\ UNCHANGED <<mpc, isRoot, retcode, listening, conf, mfailures, signals>>

MNext ==
    /\ \/ MonitorStart \/ WriteConfig \/ ReloadAuoms("reload1", "accept")
       \/ AcceptConn \/ AcceptFails \/ CloseConn \/ Cleanup
       \/ ReloadAuoms("reload2", "exit")
       \/ SigInt \/ AuomsReload \/ AuomsRestart
    /\ UNCHANGED vars

\* auomsctl's own steps are scheduled fairly, except failures (a read,
\* write, Open(), WriteFile or pkill that fails).  auoms and the user are
\* the environment.
MonitorSpec ==
    /\ MInit /\ [][Handle \/ MNext]_allvars
    /\ WF_allvars(Handle /\ errors' = errors)
    /\ WF_allvars(CloseConn /\ UNCHANGED vars)
    /\ WF_allvars(Cleanup /\ UNCHANGED vars)
    /\ WF_allvars(ReloadAuoms("reload2", "exit") /\ mfailures' = mfailures /\ UNCHANGED vars)

-----------------------------------------------------------------------------

\* Once `auomsctl monitor' has returned and auoms has handled the SIGHUP it
\* sent, auoms no longer sends events to auomsctl.socket: the config was
\* removed (line 1101) before the reload (line 1103) that auoms handles
\* asynchronously, whatever the SIGINTs, auoms restarts and connection
\* outcomes before.
AuomsOutputRemoved ==
    (mpc = "exit" /\ ~hup) => ~auomsOut

\* Once auoms has closed its end of the connection (it stopped, or reloaded
\* a config without the output), `auomsctl monitor' reads what is left,
\* closes the connection, removes its config, signals auoms and returns:
\* handle_raw_connection() returns on the read of 0 (lines 986 and 1005).
MonitorReturnsAfterClose ==
    (mpc = "handle" /\ ~peer) ~> mpc \in {"exit", "aborted"}

=============================================================================
