----------------------------- MODULE StatusQuery -----------------------------
(***************************************************************************)
(* `auomsctl status' (show_auoms_status() in src/auomsctl.cpp) composed    *)
(* with the daemon's status listener (OperationalStatus).  Each client      *)
(* connects to /var/run/auoms/status.socket and reads with a 100 ms        *)
(* timeout until Read() returns <= 0, printing what it got; it returns 0   *)
(* once connected, whatever it read.  A connection waits in the socket's   *)
(* backlog until the listener accepts it; the listener may have exited,    *)
(* leaving the socket open, or be stopping.                                *)
(***************************************************************************)
EXTENDS OperationalStatus

VARIABLES
    cpc,    \* client -> "idle", "read" (connected) or "done"
    cout,   \* client -> the report it printed (as written), or None
    cret,   \* client -> its return value once done
    since   \* history: client -> how many updates preceded its connect

qvars == <<cpc, cout, cret, since>>
allvars == <<vars, qvars>>

QInit ==
    /\ Init
    /\ cpc = [c \in Clients |-> "idle"]
    /\ cout = [c \in Clients |-> None]
    /\ cret = [c \in Clients |-> 0]
    /\ since = [c \in Clients |-> 0]

\* The version of the table (the number of updates so far) when a client
\* connects.
Remember ==
    since' = [c \in Clients |-> IF cpc[c] = "idle" /\ cpc'[c] = "read" THEN updates ELSE since[c]]

Client(c, A) ==
    /\ A
    /\ UNCHANGED <<errs, owner, pc, copy, idx, snap, cver, stopping, lstop, sockOpen,
                   serving, reply, updates, reports, failures>>
    /\ Remember

(***************************************************************************)
(* Lines 314-327: not root returns 1; so does a connect that fails because *)
(* the socket is closed ("auoms is not running").  A connect to an open    *)
(* socket is queued whether or not a thread still accepts on it.           *)
(***************************************************************************)
StatusOpen(c) ==
    /\ cpc[c] = "idle"
    /\ \/ /\ sockOpen
          /\ backlog' = Append(backlog, c)
          /\ cpc' = [cpc EXCEPT ![c] = "read"]
          /\ UNCHANGED <<cout, cret>>
       \/ /\ cpc' = [cpc EXCEPT ![c] = "done"]
          /\ cret' = [cret EXCEPT ![c] = 1]
          /\ UNCHANGED <<backlog, cout>>

(***************************************************************************)
(* Lines 329-339: the report is read, then the listener's close ends the   *)
(* loop; a Read() that times out after 100 ms (or fails on a reset         *)
(* connection, or on SIGINT) with nothing received ends it with nothing    *)
(* printed.  Both return 0.                                                *)
(***************************************************************************)
StatusRead(c) ==
    /\ cpc[c] = "read"
    /\ reply[c] # None
    /\ cout' = [cout EXCEPT ![c] = reply[c]]
    /\ cpc' = [cpc EXCEPT ![c] = "done"]
    /\ UNCHANGED <<backlog, cret>>

StatusTimeout(c) ==
    /\ cpc[c] = "read"
    /\ reply[c] = None
    /\ cpc' = [cpc EXCEPT ![c] = "done"]
    /\ UNCHANGED <<backlog, cout, cret>>

StatusWait(c) == StatusRead(c) \/ StatusTimeout(c)

\* A step of the daemon, which leaves the clients alone.
Daemon(A) == A /\ UNCHANGED <<cpc, cout, cret>> /\ Remember

QNext ==
    \/ Daemon(Next)
    \/ \E c \in Clients : Client(c, StatusOpen(c) \/ StatusWait(c))

\* The daemon's threads as before; a client that waits is woken by data,
\* by its connection closing or by the 100 ms timer.
QSpec ==
    /\ QInit /\ [][QNext]_allvars
    /\ \A t \in Readers : WF_allvars(Daemon(Reader(t)))
    /\ WF_allvars(Daemon(StatusProgress))
    /\ WF_allvars(Daemon(ListenerProgress))
    /\ WF_allvars(Daemon(StopProgress))
    /\ \A c \in Clients : WF_allvars(Client(c, StatusWait(c)))

-----------------------------------------------------------------------------

QTypeOK ==
    /\ TypeOK
    /\ cpc \in [Clients -> {"idle", "read", "done"}]
    /\ cout \in [Clients -> 0..MaxUpdates \cup {None}]
    /\ cret \in [Clients -> {0, 1}]

\* What `auomsctl status' prints is the error table as it was at some
\* instant after that client connected: never a report built before, for
\* an earlier client, while the listener serves the backlog in turn and
\* other components set and clear conditions.
StatusIsFresh ==
    \A c \in Clients : cout[c] # None => cout[c] >= since[c]

=============================================================================
