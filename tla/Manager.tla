------------------------------- MODULE Manager -------------------------------
(***************************************************************************)
(* ss-manager and the ss-server processes it starts and stops.             *)
(*                                                                         *)
(* ss-manager is single-threaded, but what it does to a port is not        *)
(* atomic for the servers: `add' deletes the entry and the sidecar files,  *)
(* signals the process of the pid file, tries whether the port can be      *)
(* bound and runs ss-server, which writes the pid file before it returns   *)
(* and binds the port later.  A signalled server goes on until its event   *)
(* loop sees the signal, then closes its TCP socket, frees its connections *)
(* one by one (each of them rewrites the status file) and only then frees  *)
(* its UDP socket.                                                         *)
(* Traffic reports of the servers come through the same socket as commands.*)
(*                                                                         *)
(* Both protocols are relayed (`-u', as shadowsocks-manager.service says). *)
(***************************************************************************)
EXTENDS Integers, Sequences, FiniteSets

CONSTANTS
    Port, Password,
    None,
    MaxPid,       \* bound: processes started
    MaxConns,     \* bound: open connections of a server
    MaxCommands,  \* bound: commands sent
    MaxInbox,     \* bound: datagrams waiting
    MaxFaults     \* bound: crashes and servers that fail to start

Pid == 1..MaxPid

\* struct server, as far as it matters here.  The pid is a ghost.
TableEntry == [password : Password, traffic : Pid \cup {None}, pid : Pid \cup {None}]

ASSUME ManagerAssumption ==
    /\ None \notin Nat \cup Password \cup Port \cup {"TERM"} /\ None \notin TableEntry
    /\ MaxPid \in Nat /\ MaxConns \in Nat /\ MaxCommands \in Nat /\ MaxInbox \in Nat /\ MaxFaults \in Nat

VARIABLES
    table,     \* server_table: entry of a port, or None
    pidfile,   \* .shadowsocks_<port>.pid
    status,    \* writer of the status file of a port, or None if there is no file
    proc,      \* ss-server processes
    last,      \* the last pid given out
    inbox,     \* datagrams waiting in the socket of ss-manager
    mgr,       \* where ss-manager is
    commands, faults

vars == <<table, pidfile, status, proc, last, inbox, mgr, commands, faults>>
mgrVars == <<table, pidfile, last, mgr, commands>>

\* A process has forked, serves, is closing down, or is dead; a signalled one
\* has SIGTERM pending (sig).
ProcState == {"forked", "serving", "closing", "dead"}

NoProc == [state |-> "dead", port |-> None, password |-> None, sig |-> None, conns |-> 0]

Alive(i) == proc[i].state # "dead"
Of(p) == {i \in Pid : Alive(i) /\ proc[i].port = p}

\* The listening socket of a port.  Only this one keeps another process from
\* binding the port: the UDP sockets, and the probe of ss-manager, are bound
\* with SO_REUSEADDR on both sides.
TcpHolders(p) == {i \in Of(p) : proc[i].state = "serving"}

Fault == faults < MaxFaults /\ faults' = faults + 1

Running == mgr.at = "idle"
Down == mgr.at \in {"exited", "crashed"}

-----------------------------------------------------------------------------
(* ss-manager *)

\* kill(pid, SIGTERM) for the process the pid file of a port names.
Signal(ports) ==
    proc' = [i \in Pid |-> IF \E p \in ports : pidfile[p] = i /\ Alive(i)
                           THEN [proc[i] EXCEPT !.sig = "TERM"] ELSE proc[i]]

\* Reports are lost while ss-manager is down or its socket is full.
Sent(msg) ==
    inbox' = IF Down \/ Len(inbox) >= MaxInbox THEN inbox ELSE Append(inbox, msg)

Command(act, p, pw) ==
    /\ commands < MaxCommands
    /\ commands' = commands + 1
    /\ inbox' = Append(inbox, [act |-> act, port |-> p, arg |-> pw])
    /\ ~Down /\ Len(inbox) < MaxInbox
    /\ UNCHANGED <<table, pidfile, status, proc, last, mgr, faults>>

\* update_stat
UpdateStat ==
    LET q == Head(inbox)
    IN  /\ Running /\ inbox # <<>> /\ q.act = "stat"
        /\ inbox' = Tail(inbox)
        /\ table' = IF table[q.port] = None THEN table
                    ELSE [table EXCEPT ![q.port].traffic = q.arg]
        /\ UNCHANGED <<pidfile, status, proc, last, mgr, commands, faults>>

\* The first half of remove_server: the entry and the sidecar files.
RemoveEntry ==
    LET q == Head(inbox)
    IN  /\ Running /\ inbox # <<>> /\ q.act \in {"add", "remove"}
        /\ inbox' = Tail(inbox)
        /\ table' = [table EXCEPT ![q.port] = None]
        /\ status' = [status EXCEPT ![q.port] = None]
        /\ mgr' = [at |-> "stop", port |-> q.port, arg |-> q.arg]
        /\ UNCHANGED <<pidfile, proc, last, commands, faults>>

\* Mutant of StopServer: the process is not signalled when the port is about
\* to be added again.
StopServerOnRemove ==
    /\ mgr.at = "stop"
    /\ IF mgr.arg = None THEN Signal({mgr.port}) ELSE UNCHANGED proc
    /\ mgr' = IF mgr.arg = None THEN [at |-> "idle"] ELSE [mgr EXCEPT !.at = "check"]
    /\ UNCHANGED <<table, pidfile, status, last, inbox, commands, faults>>

\* The second half, stop_server.  The pid file stays.
StopServer ==
    /\ mgr.at = "stop"
    /\ Signal({mgr.port})
    /\ mgr' = IF mgr.arg = None THEN [at |-> "idle"] ELSE [mgr EXCEPT !.at = "check"]
    /\ UNCHANGED <<table, pidfile, status, last, inbox, commands, faults>>

\* check_port, and the entry if the port can be bound.
CheckPort ==
    LET p == mgr.port
    IN  /\ mgr.at = "check"
        /\ IF TcpHolders(p) # {}
           THEN mgr' = [at |-> "idle"] /\ UNCHANGED table
           ELSE /\ mgr' = [mgr EXCEPT !.at = "launch"]
                /\ table' = [table EXCEPT ![p] = [password |-> mgr.arg, traffic |-> None, pid |-> None]]
        /\ UNCHANGED <<pidfile, status, proc, last, inbox, commands, faults>>

\* system(): it returns when the parent half of daemonize has written the pid
\* file.  The entry's pid is a ghost: ss-manager does not know it.
Launch ==
    LET p == mgr.port
        i == last + 1
    IN  /\ mgr.at = "launch"
        /\ i \in Pid
        /\ last' = i
        /\ proc' = [proc EXCEPT ![i] = [state |-> "forked", port |-> p, password |-> mgr.arg,
                                        sig |-> None, conns |-> 0]]
        /\ pidfile' = [pidfile EXCEPT ![p] = i]
        /\ table' = [table EXCEPT ![p].pid = i]
        /\ mgr' = [at |-> "idle"]
        /\ UNCHANGED <<status, inbox, commands, faults>>

\* The command cannot be run, or ss-server gives up before it is a daemon; the
\* entry stays.
LaunchFails ==
    /\ Fault
    /\ mgr.at = "launch"
    /\ mgr' = [at |-> "idle"]
    /\ UNCHANGED <<table, pidfile, status, proc, last, inbox, commands>>

\* The end of main: every server of the table is stopped.
MgrExit ==
    /\ Fault
    /\ Running
    /\ Signal({p \in Port : table[p] # None})
    /\ mgr' = [at |-> "exited"]
    /\ table' = [p \in Port |-> None]
    /\ inbox' = <<>>
    /\ UNCHANGED <<pidfile, status, last, commands>>

\* ss-manager dies between two of its steps; the servers go on.
MgrCrash ==
    /\ Fault
    /\ ~Down
    /\ mgr' = [at |-> "crashed"]
    /\ table' = [p \in Port |-> None]
    /\ inbox' = <<>>
    /\ UNCHANGED <<pidfile, status, proc, last, commands>>

\* Mutant of MgrStart: pid files are removed without a signal.
MgrStartForgets ==
    /\ Down
    /\ pidfile' = [p \in Port |-> None]
    /\ mgr' = [at |-> "idle"]
    /\ UNCHANGED <<table, status, proc, last, inbox, commands, faults>>

\* main: kill_server for every pid file of the working directory.
MgrStart ==
    /\ Down
    /\ Signal(Port)
    /\ pidfile' = [p \in Port |-> None]
    /\ mgr' = [at |-> "idle"]
    /\ UNCHANGED <<table, status, last, inbox, commands, faults>>

-----------------------------------------------------------------------------
(* ss-server *)

\* A process that dies takes its connections with it.
Set(i, s) == proc' = [proc EXCEPT ![i].state = s, ![i].conns = IF s = "dead" THEN 0 ELSE @]

WritesStatus(i) == status' = [status EXCEPT ![proc[i].port] = i]

\* Mutant of Bind: the port is bound with SO_REUSEPORT.
BindShared(i) ==
    /\ proc[i].state = "forked"
    /\ Set(i, "serving")
    /\ UNCHANGED <<mgrVars, status, inbox, faults>>

\* create_and_bind and init_udprelay; a server that cannot bind gives up.
Bind(i) ==
    /\ proc[i].state = "forked"
    /\ Set(i, IF TcpHolders(proc[i].port) = {} THEN "serving" ELSE "dead")
    /\ UNCHANGED <<mgrVars, status, inbox, faults>>

\* SIGTERM before main has installed its handlers.
SigDefault(i) ==
    /\ proc[i].state = "forked" /\ proc[i].sig = "TERM"
    /\ Set(i, "dead")
    /\ UNCHANGED <<mgrVars, status, inbox, faults>>

\* accept_cb, which takes or refuses a connection, and the end of one.
Connections(i, d) ==
    /\ proc[i].state = "serving"
    /\ proc[i].conns + d \in 0..MaxConns
    /\ proc' = [proc EXCEPT ![i].conns = @ + d]
    /\ WritesStatus(i)
    /\ UNCHANGED <<mgrVars, inbox, faults>>

\* Mutant of StatUpdate: the status file is left alone.
StatUpdateSends(i) ==
    /\ proc[i].state = "serving" /\ proc[i].sig = None
    /\ Sent([act |-> "stat", port |-> proc[i].port, arg |-> i])
    /\ UNCHANGED <<mgrVars, status, proc, faults>>

\* stat_update_cb.  A server that starts with a signal pending ends before its
\* timer fires; a report of the iteration that sees the signal is one sent
\* just before the signal.
StatUpdate(i) ==
    /\ proc[i].state = "serving" /\ proc[i].sig = None
    /\ Sent([act |-> "stat", port |-> proc[i].port, arg |-> i])
    /\ WritesStatus(i)
    /\ UNCHANGED <<mgrVars, proc, faults>>

\* signal_cb ends the event loop, and the listening socket is closed.
EndLoop(i) ==
    /\ proc[i].state = "serving" /\ proc[i].sig = "TERM"
    /\ Set(i, "closing")
    /\ UNCHANGED <<mgrVars, status, inbox, faults>>

\* One turn of free_connections: close_and_free_server rewrites the status file.
\* The port is free meanwhile, so a successor's writes may come in between.
FreeConnection(i) ==
    /\ proc[i].state = "closing" /\ proc[i].conns > 0
    /\ proc' = [proc EXCEPT ![i].conns = @ - 1]
    /\ WritesStatus(i)
    /\ UNCHANGED <<mgrVars, inbox, faults>>

\* free_udprelay and the end of main
Cleanup(i) ==
    /\ proc[i].state = "closing" /\ proc[i].conns = 0
    /\ Set(i, "dead")
    /\ UNCHANGED <<mgrVars, status, inbox, faults>>

Dies(i) ==
    /\ Fault
    /\ Alive(i)
    /\ Set(i, "dead")
    /\ UNCHANGED <<mgrVars, status, inbox>>

-----------------------------------------------------------------------------
Init ==
    /\ table = [p \in Port |-> None]
    /\ pidfile = [p \in Port |-> None]
    /\ status = [p \in Port |-> None]
    /\ proc = [i \in Pid |-> NoProc]
    /\ last = 0
    /\ inbox = <<>>
    /\ mgr = [at |-> "exited"]
    /\ commands = 0 /\ faults = 0

ManagerStep == UpdateStat \/ RemoveEntry \/ StopServer \/ CheckPort \/ Launch

ServerStep(i) == Bind(i) \/ SigDefault(i) \/ EndLoop(i) \/ FreeConnection(i) \/ Cleanup(i)

Next ==
    \/ ManagerStep \/ LaunchFails \/ MgrExit \/ MgrCrash \/ MgrStart
    \/ \E p \in Port : Command("remove", p, None) \/ \E pw \in Password : Command("add", p, pw)
    \/ \E i \in Pid : \/ ServerStep(i) \/ StatUpdate(i) \/ Dies(i)
                      \/ \E d \in -1..1 : Connections(i, d)

Spec == Init /\ [][Next]_vars

\* ss-manager handles its socket and systemd starts it again after a crash
\* (Restart=on-failure in shadowsocks-manager.service), the timer of a server
\* that has bound its port runs, and a server that was signalled ends.  That a
\* server binds its port at all is not assumed.
Fairness ==
    /\ WF_vars(ManagerStep) /\ WF_vars(mgr.at = "crashed" /\ MgrStart)
    /\ \A i \in Pid : /\ WF_vars(StatUpdate(i))
                      /\ WF_vars(SigDefault(i)) /\ WF_vars(EndLoop(i))
                      /\ WF_vars(FreeConnection(i)) /\ WF_vars(Cleanup(i))

FairSpec == Spec /\ Fairness

-----------------------------------------------------------------------------
(* Properties *)

Proc == [state : ProcState, port : Port \cup {None}, password : Password \cup {None},
         sig : {"TERM", None}, conns : 0..MaxConns]

Msg == [act : {"add"}, port : Port, arg : Password]
       \cup [act : {"remove"}, port : Port, arg : {None}]
       \cup [act : {"stat"}, port : Port, arg : Pid]

TypeOK ==
    /\ table \in [Port -> TableEntry \cup {None}]
    /\ pidfile \in [Port -> Pid \cup {None}]
    /\ status \in [Port -> Pid \cup {None}]
    /\ proc \in [Pid -> Proc]
    /\ \A i \in Pid : Alive(i) => proc[i].port \in Port
    /\ last \in 0..MaxPid
    /\ \A i \in Pid : i > last => proc[i] = NoProc
    /\ inbox \in Seq(Msg)
    /\ mgr \in [at : {"idle", "exited", "crashed"}]
               \cup [at : {"stop"}, port : Port, arg : Password \cup {None}]
               \cup [at : {"check", "launch"}, port : Port, arg : Password]

\* A server that was not told to stop is the one its pid file names, so the
\* next remove, add or start of ss-manager finds it; and while ss-manager is
\* up it runs with the password of its entry, or is just about to be told.
Registered ==
    \A i \in Pid : Alive(i) /\ proc[i].sig = None =>
        /\ pidfile[proc[i].port] = i
        /\ \/ Down
           \/ mgr.at = "stop" /\ mgr.port = proc[i].port
           \/ /\ table[proc[i].port] # None
              /\ table[proc[i].port].password = proc[i].password

\* The status file of a port that is served is written by the process that
\* serves it, or by one that was told to stop and frees a connection with the
\* write.  A server that has left its loop opens no connection and never returns
\* to it, so it writes over the file of its successor at most as often as it had
\* connections when the loop ended.
LateWritesCounted ==
    [][/\ \A p \in Port : status'[p] # None /\ status'[p] # status[p] =>
             \A j \in TcpHolders(p) :
                \/ j = status'[p]
                \/ LET i == status'[p]
                   IN  /\ proc[i].state = "closing" /\ proc[i].sig = "TERM"
                       /\ proc'[i].conns < proc[i].conns
       /\ \A i \in Pid : proc[i].state = "closing" =>
             /\ proc'[i].state \in {"closing", "dead"}
             /\ proc'[i].conns <= proc[i].conns]_vars

\* What ss-manager relies on between two steps of a command: the port has no
\* entry until it is known to be free, and its old servers were told to stop.
Prepared ==
    /\ mgr.at \in {"stop", "check"} => table[mgr.port] = None
    /\ mgr.at \in {"check", "launch"} => \A i \in Of(mgr.port) : proc[i].sig = "TERM"
    /\ mgr.at = "launch" => table[mgr.port] # None /\ table[mgr.port].password = mgr.arg

\* One process listens on a port.
Exclusive == \A p \in Port : \A i, j \in TcpHolders(p) : i = j

\* A port that is out of the table stops being served, or is added again,
\* though ss-manager may crash between forgetting the port and the signal.
RemovedStops ==
    \A p \in Port : table[p] = None ~> table[p] # None \/ TcpHolders(p) = {}

\* The status file and the traffic of a port settle on what the server of the
\* port reports, whatever its predecessors still wrote and whatever report of
\* theirs was read after the port was added again.
ReportsSettle ==
    \A p \in Port : \A i \in Pid :
        <>[](i \in TcpHolders(p)) =>
            <>[](status[p] = i /\ table[p] # None /\ table[p].traffic = i)

\* Between any two steps every server is accounted for: the next command, or the
\* next start of ss-manager, finds it, and add_server finds what it prepared.
Orderly == TypeOK /\ Registered /\ Prepared
=============================================================================
