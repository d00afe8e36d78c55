-------------------------- MODULE OperationalStatus --------------------------
(***************************************************************************)
(* src/OperationalStatus.cpp: the table of error conditions that auoms'   *)
(* components set and clear, and the two threads that report it:          *)
(*   status   - OperationalStatus::run(): once an hour send_status() puts  *)
(*              an AUOMS_STATUS event with the errors on the output queue; *)
(*   listener - OperationalStatusListener::run(): accepts connections on   *)
(*              the status socket and writes get_status_str() to each.     *)
(* Both read the table through GetErrors(), which copies it entry by entry *)
(* under _run_mutex; SetErrorCondition/ClearErrorCondition take the same   *)
(* mutex.  A third thread (stopper) runs Stop(): RunBase sets the stop     *)
(* flag, then on_stopping() stops the listener under the mutex.            *)
(*                                                                         *)
(* The model starts just after run() started the listener (line 103).     *)
(* Messages are model values; an error report is abstracted to the table   *)
(* it was built from.                                                      *)
(***************************************************************************)
EXTENDS Naturals, Sequences, FiniteSets

CONSTANTS
    Categories,     \* the ErrorCategory values in use
    Msgs,           \* error messages
    None,           \* no entry / no owner
    MaxUpdates,     \* Set/ClearErrorCondition calls in one behaviour
    MaxReports,     \* hourly status events in one behaviour
    Clients,        \* processes that connect to the status socket
    MaxFailures     \* event builder or accept() failures in one behaviour

\* The table's iteration order (the for loop of line 73).
CatSeq == CHOOSE s \in [1..Cardinality(Categories) -> Categories] :
              \A c \in Categories : \E k \in DOMAIN s : s[k] = c

Readers == {"status", "listener"}
Threads == Readers \cup {"stopper"}
Table == [Categories -> Msgs \cup {None}]
NoErrors == [c \in Categories |-> None]

\* Where each reader goes when GetErrors() returns.
Back == [status |-> "send", listener |-> "write"]

VARIABLES
    errs,       \* _error_conditions
    owner,      \* the thread holding _run_mutex, or None
    pc,         \* thread -> label
    copy,       \* reader -> the vector GetErrors() is building
    idx,        \* reader -> the next entry of the table to copy
    snap,       \* history: reader -> the tables errs held while it copied
    cver,       \* history: reader -> how many updates preceded its copy
    stopping,   \* OperationalStatus IsStopping()
    lstop,      \* the listener's IsStopping()
    sockOpen,   \* the listening socket is open
    backlog,    \* connections made to the socket and not yet accepted
    serving,    \* the client whose connection the listener handles
    reply,      \* client -> the report written on its connection, or None;
                \* a report is abstracted to the version of the table it
                \* was copied from (ReportsAreSnapshots relates the two)
    updates, reports, failures

netvars == <<backlog, serving, reply>>
vars == <<errs, owner, pc, copy, idx, snap, cver, stopping, lstop, sockOpen,
          netvars, updates, reports, failures>>

Copying(t) == pc[t] = "ge_copy"

\* Record errs' in the history of every reader in the middle of a copy.
Observe == snap' = [t \in Readers |-> IF Copying(t) THEN snap[t] \cup {errs'} ELSE snap[t]]

Goto(t, l) == pc' = [pc EXCEPT ![t] = l]

CanFail == failures < MaxFailures

Init ==
    /\ errs = NoErrors
    /\ owner = None
    /\ pc = [status |-> "sleep", listener |-> "loop", stopper |-> "idle"]
    /\ copy = [t \in Readers |-> NoErrors]
    /\ idx = [t \in Readers |-> 1]
    /\ snap = [t \in Readers |-> {}]
    /\ cver = [t \in Readers |-> 0]
    /\ stopping = FALSE
    /\ lstop = FALSE
    /\ sockOpen = TRUE
    /\ backlog = <<>> /\ serving = None /\ reply = [c \in Clients |-> None]
    /\ updates = 0 /\ reports = 0 /\ failures = 0

(***************************************************************************)
(* Lines 82-92: set or erase one category's entry under _run_mutex.        *)
(***************************************************************************)
SetErrorCondition(c, m) ==
    /\ owner = None
    /\ updates < MaxUpdates
    /\ errs' = [errs EXCEPT ![c] = m]
    /\ updates' = updates + 1
    /\ Observe
    /\ UNCHANGED <<owner, pc, copy, idx, cver, stopping, lstop, sockOpen, netvars, reports, failures>>

\* A variant that stores an empty message instead of erasing the entry,
\* for mutation testing of TypeOK.
ClearErrorConditionSetsEmpty(c) == SetErrorCondition(c, "")

ClearErrorCondition(c) == SetErrorCondition(c, None)

(***************************************************************************)
(* Lines 68-80: GetErrors() locks _run_mutex, copies the table one entry   *)
(* at a time, sorts the copy by category (the model's copy is indexed by   *)
(* category) and unlocks on return.                                        *)
(***************************************************************************)
\* A variant that reads the table without taking _run_mutex, for mutation
\* testing of ReportsAreSnapshots.
GetErrorsLockNoWait(t) ==
    /\ pc[t] = "ge_lock"
    /\ copy' = [copy EXCEPT ![t] = NoErrors]
    /\ idx' = [idx EXCEPT ![t] = 1]
    /\ snap' = [snap EXCEPT ![t] = {errs}]
    /\ cver' = [cver EXCEPT ![t] = updates]
    /\ Goto(t, "ge_copy")
    /\ UNCHANGED owner

GetErrorsLock(t) ==
    /\ pc[t] = "ge_lock"
    /\ owner = None
    /\ owner' = t
    /\ copy' = [copy EXCEPT ![t] = NoErrors]
    /\ idx' = [idx EXCEPT ![t] = 1]
    /\ snap' = [snap EXCEPT ![t] = {errs}]
    /\ cver' = [cver EXCEPT ![t] = updates]
    /\ Goto(t, "ge_copy")

GetErrorsCopy(t) ==
    /\ Copying(t)
    /\ idx[t] <= Len(CatSeq)
    /\ LET c == CatSeq[idx[t]] IN copy' = [copy EXCEPT ![t][c] = errs[c]]
    /\ idx' = [idx EXCEPT ![t] = idx[t] + 1]
    /\ UNCHANGED <<owner, pc, snap, cver>>

GetErrorsReturn(t) ==
    /\ Copying(t)
    /\ idx[t] > Len(CatSeq)
    /\ owner' = IF owner = t THEN None ELSE owner
    /\ Goto(t, Back[t])
    /\ UNCHANGED <<copy, idx, snap, cver>>

GetErrors(t) == GetErrorsLock(t) \/ GetErrorsCopy(t) \/ GetErrorsReturn(t)

(***************************************************************************)
(* Lines 100-111: _sleep(3600000) returns true once Stop() was called,     *)
(* false when the hour is up; then send_status().                          *)
(***************************************************************************)
SleepWake ==
    /\ pc.status = "sleep"
    /\ stopping
    /\ Goto("status", "exited")
    /\ UNCHANGED <<reports, failures, netvars>>

SleepTimeout ==
    /\ pc.status = "sleep"
    /\ ~stopping
    /\ reports < MaxReports
    /\ Goto("status", "ge_lock")
    /\ UNCHANGED <<reports, failures, netvars>>

(***************************************************************************)
(* Lines 132-210: send_status() builds the event from get_json_status(),   *)
(* whose GetErrors() call is the ge_* steps above.  The builder is this    *)
(* thread's own: any of BeginEvent, BeginRecord, AddField, EndRecord or    *)
(* EndEvent failing cancels the event and run() returns (line 108).        *)
(***************************************************************************)
SendStatus ==
    /\ pc.status = "send"
    /\ \/ /\ reports' = reports + 1
          /\ Goto("status", "sleep")
          /\ UNCHANGED failures
       \/ /\ CanFail /\ failures' = failures + 1
          /\ Goto("status", "exited")
          /\ UNCHANGED reports
    /\ UNCHANGED netvars

(***************************************************************************)
(* Lines 31-47: the listener's loop.  Accept() blocks until a client       *)
(* connects or the socket is closed (-1).  Only newfd > 0 is served: a     *)
(* failed accept() (-1), or a connection given descriptor 0 (when fd 0 is  *)
(* free), ends the loop, the latter without closing that connection.  A    *)
(* connection accepted after Stop() is closed unanswered.                  *)
(***************************************************************************)
ListenerLoop ==
    /\ pc.listener = "loop"
    /\ Goto("listener", IF lstop THEN "exited" ELSE "accept")
    /\ UNCHANGED <<reports, failures, netvars>>

AcceptClosed ==
    /\ pc.listener = "accept"
    /\ ~sockOpen
    /\ Goto("listener", "exited")
    /\ UNCHANGED <<reports, failures, netvars>>

AcceptFails ==
    /\ pc.listener = "accept"
    /\ sockOpen
    /\ CanFail /\ failures' = failures + 1
    /\ \/ UNCHANGED backlog
       \/ backlog # <<>> /\ backlog' = Tail(backlog)
    /\ Goto("listener", "exited")
    /\ UNCHANGED <<serving, reply>>

\* A variant that hands the connection the report built for the previous
\* one instead of calling _status_fn() again, for mutation testing of
\* StatusIsFresh.
AcceptConnCachedReport ==
    /\ pc.listener = "accept"
    /\ sockOpen
    /\ backlog # <<>>
    /\ serving' = Head(backlog) /\ backlog' = Tail(backlog)
    /\ Goto("listener", IF lstop THEN "loop" ELSE "write")
    /\ UNCHANGED <<failures, reply>>

AcceptConn ==
    /\ pc.listener = "accept"
    /\ sockOpen
    /\ backlog # <<>>
    /\ serving' = Head(backlog) /\ backlog' = Tail(backlog)
    /\ Goto("listener", IF lstop THEN "loop" ELSE "ge_lock")
    /\ UNCHANGED <<failures, reply>>

(***************************************************************************)
(* Lines 49-59 and 113-130: handle_connection() writes get_status_str()    *)
(* (built from GetErrors()) with a 100 ms limit, ignores a failed write,   *)
(* and closes the connection.                                              *)
(***************************************************************************)
HandleConnection ==
    /\ pc.listener = "write"
    /\ reply' = [reply EXCEPT ![serving] = cver.listener]
    /\ Goto("listener", "loop")
    /\ UNCHANGED <<reports, failures, backlog, serving>>

(***************************************************************************)
(* Stop(): the stop flag wakes _sleep (RunBase); lines 94-98 then lock     *)
(* _run_mutex and stop the listener: its stop flag, and its on_stopping()  *)
(* (lines 25-29) closes the listening socket.                              *)
(***************************************************************************)
Stop ==
    /\ pc.stopper = "idle"
    /\ stopping' = TRUE
    /\ Goto("stopper", "on_stopping")
    /\ UNCHANGED <<lstop, sockOpen, backlog>>

\* The listener's on_stopping() (lines 25-29): close the listening socket,
\* which makes a blocked Accept() return -1 and resets the connections not
\* yet accepted.
ListenerOnStopping == sockOpen' = FALSE /\ backlog' = <<>>

\* A variant of on_stopping() whose listener stop does not close the
\* socket, for mutation testing of StopTerminates.
OnStoppingNoClose ==
    /\ pc.stopper = "on_stopping"
    /\ owner = None
    /\ lstop' = TRUE
    /\ Goto("stopper", "done")
    /\ UNCHANGED <<stopping, sockOpen, backlog>>

OnStopping ==
    /\ pc.stopper = "on_stopping"
    /\ owner = None
    /\ lstop' = TRUE
    /\ ListenerOnStopping
    /\ Goto("stopper", "done")
    /\ UNCHANGED stopping

StatusThread == SleepWake \/ SleepTimeout \/ SendStatus
ListenerThread == ListenerLoop \/ AcceptClosed \/ (AcceptConn /\ UNCHANGED reports) \/ HandleConnection
Reader(t) == GetErrors(t) /\ UNCHANGED <<errs, stopping, lstop, sockOpen, netvars, updates, reports, failures>>
Own(A) == A /\ UNCHANGED <<errs, owner, copy, idx, snap, cver, stopping, lstop, sockOpen, updates>>
Stopper == (Stop \/ OnStopping) /\ UNCHANGED <<errs, owner, copy, idx, snap, cver, serving, reply, updates, reports, failures>>

\* Other components of auoms, and accept() failing.
Environment ==
    \/ \E c \in Categories, m \in Msgs : SetErrorCondition(c, m)
    \/ \E c \in Categories : ClearErrorCondition(c)
    \/ AcceptFails /\ UNCHANGED <<errs, owner, copy, idx, snap, cver, stopping, lstop, sockOpen, updates, reports>>

Next == (\E t \in Readers : Reader(t)) \/ Own(StatusThread) \/ Own(ListenerThread) \/ Stopper \/ Environment

\* The threads' steps that are scheduled fairly; failures, the hour
\* passing and the signal that starts Stop() are the environment's.
StatusProgress == Own(SleepWake \/ (SendStatus /\ UNCHANGED failures))
ListenerProgress == Own(ListenerThread)
StopProgress ==
    OnStopping /\ UNCHANGED <<errs, owner, copy, idx, snap, cver, serving, reply, updates, reports, failures>>

Spec == Init /\ [][Next]_vars
        /\ \A t \in Readers : WF_vars(Reader(t))
        /\ WF_vars(StatusProgress) /\ WF_vars(ListenerProgress) /\ WF_vars(StopProgress)

-----------------------------------------------------------------------------

TypeOK ==
    /\ errs \in Table
    /\ owner \in Threads \cup {None}
    /\ copy \in [Readers -> Table]
    /\ idx \in [Readers -> 1..Len(CatSeq) + 1]
    /\ backlog \in Seq(Clients)
    /\ reply \in [Clients -> 0..MaxUpdates \cup {None}]
    /\ pc.stopper \in {"idle", "on_stopping", "done"}

\* Every report, the hourly event and each reply on the socket, is built
\* from a table that the error conditions really held at one instant while
\* GetErrors() copied it: Set/ClearErrorCondition calls of other threads
\* never show up half applied (lines 69 and 83-91 share _run_mutex).
ReportsAreSnapshots ==
    \A t \in Readers : pc[t] = Back[t] => copy[t] \in snap[t]

\* Once Stop() is called, both threads return and on_stopping() completes,
\* whatever the listener was doing: blocked in Accept() or in GetErrors().
StopTerminates ==
    stopping ~> (pc.status = "exited" /\ pc.listener = "exited" /\ pc.stopper = "done")

=============================================================================
