--------------------------- MODULE ManagerCommands ---------------------------
(***************************************************************************)
(* ss-manager from main to exit, and what it makes of a datagram: the text *)
(* of a command, the table of servers and their memory, the configuration  *)
(* file and the command line an ss-server is started with, and the answers *)
(* that are put together in a buffer of limited size.  Module Manager has  *)
(* the interleaving of these commands with the servers; here a command is  *)
(* one step, and a server is what was started and was not told to stop.    *)
(*                                                                         *)
(* Texts that go through a shell or a JSON file are free of blanks and     *)
(* quotes, port texts are shorter than seven characters.                   *)
(***************************************************************************)
EXTENDS Config, HashTable

CONSTANTS
    Inputs,         \* what it may be started with: a table of [args, file, pidfile, left]
    Commands,       \* what it may receive: a table of [act, spaced, large, data]
    Atoi,           \* the number of a port text
    HostPorts,      \* manager addresses that have a host and a port
    Digits,         \* the length of a number of bytes
    BufSize,        \* BUF_SIZE
    MaxCommands,    \* bound: datagrams
    MaxFaults       \* bound: what goes wrong while servers are started

VARIABLES
    input, set, pc,
    todo,       \* entries of port_password that are still to be started
    sig,        \* SIGINT or SIGTERM is pending
    w,          \* what a command works on: see World
    last, out,  \* the last datagram and the answers it got
    commands, faults

vars == <<input, set, pc, todo, sig, w, last, out, commands, faults>>

Texts == DOMAIN Atoi
Path(text) == ToString(Atoi[text])
Canonical(text) == Path(text) = text
Ids == 1..MaxCommands + MaxPorts

\* struct server after memset
Blank == [port |-> "", password |-> "", method |-> NULL, fast_open |-> "", no_delay |-> "", mode |-> NULL,
          plugin |-> NULL, plugin_opts |-> NULL, traffic |-> 0, locked_ip |-> ""]

Item(n, t, v) == [name |-> n, value |-> [type |-> t, v |-> v]]
Free == [port |-> NULL]
NoFile == [state |-> "missing", entries |-> << >>]
NoCommand == [act |-> "none"]

\* The table, the memory of its servers, the files of a port by their names,
\* and the servers that were started, by process number.
World == [table |-> NewTable(MaxPorts), heap |-> [i \in Ids |-> Free],
          conf |-> [t \in Texts |-> NoFile], pid |-> [t \in Texts |-> 0],
          lock |-> [t \in Texts |-> ""], status |-> [t \in Texts |-> ""], procs |-> << >>]

\* What an earlier ss-manager may have left: a server, its files and its lock.
LeftBy(t) ==
    LET s == [Blank EXCEPT !.port = t, !.password = "old"]
    IN  [World EXCEPT !.pid[t] = 1, !.lock[t] = "old",
                      !.conf[t] = [state |-> "object", entries |-> <<Item("server_port", "integer", Atoi[t]),
                                                                     Item("password", "string", "old")>>],
                      !.procs = <<[text |-> t, of |-> s, set |-> Nothing, fresh |-> FALSE, told |-> FALSE]>>]

Init ==
    /\ \E i \in DOMAIN Inputs : input = Inputs[i]
    /\ set = Nothing /\ pc = "options" /\ todo = << >> /\ sig = FALSE
    /\ w = IF input.left = NULL THEN World ELSE LeftBy(input.left)
    /\ last = NoCommand /\ out = << >> /\ commands = 0 /\ faults = 0

Gone == {"help", "usage", "fatal", "crashed", "ended"}

-----------------------------------------------------------------------------
(* Starting a server *)

When(given, x) == IF given THEN <<x>> ELSE << >>
Arg(n, v) == [name |-> n, value |-> v]
Flag(text) == IF text = "true" THEN 1 ELSE 0

\* build_config: the file of the port text.
ServerConf(s) ==
    <<Item("server_port", "integer", Atoi[s.port]), Item("password", "string", s.password)>>
    \o (IF s.method # NULL THEN <<Item("method", "string", s.method)>>
        ELSE When(set.method # NULL, Item("method", "string", set.method)))
    \o (IF s.fast_open # "" THEN <<Item("fast_open", "boolean", Flag(s.fast_open))>>
        ELSE When(set.fast_open # 0, Item("fast_open", "boolean", 1)))
    \o (IF s.no_delay # "" THEN <<Item("no_delay", "boolean", Flag(s.no_delay))>>
        ELSE When(set.no_delay # 0, Item("no_delay", "boolean", 1)))
    \o When(set.reuse_port # 0, Item("reuse_port", "boolean", 1))
    \o When(s.mode # NULL, Item("mode", "string", s.mode))
    \o When(s.plugin # NULL, Item("plugin", "string", s.plugin))
    \o When(s.plugin_opts # NULL, Item("plugin_opts", "string", s.plugin_opts))
BuildConfig(v, s) == [v EXCEPT !.conf[s.port] = [state |-> "object", entries |-> ServerConf(s)]]

\* Mutant of ModeArg: the mode of ss-manager is passed on in any case.
ModeArgAlways(s) == When(set.mode \in {UDP_ONLY, TCP_AND_UDP}, Arg("mode", set.mode))

ModeArg(s) == When(s.mode = NULL /\ set.mode \in {UDP_ONLY, TCP_AND_UDP}, Arg("mode", set.mode))

\* construct_command_line: an option goes to the command line or to the file.
ServerArgs(s) ==
    <<Arg("manager_address", set.manager_address), Arg("pid_file", Path(s.port))>>
    \o When(set.acl # NULL, Arg("acl", set.acl))
    \o When(set.timeout # NULL, Arg("timeout", set.timeout))
    \o When(set.nofile # 0, Arg("nofile", set.nofile))
    \o When(set.user # NULL, Arg("user", set.user))
    \o ModeArg(s)
    \o When(set.iface # NULL, Arg("iface", set.iface))
    \o When(s.fast_open = "" /\ set.fast_open # 0, Arg("fast_open", 1))
    \o When(s.no_delay = "" /\ set.no_delay # 0, Arg("no_delay", 1))
    \o When(set.ipv6_first # 0, Arg("ipv6_first", 1))
    \o When(set.mtu # 0, Arg("mtu", set.mtu))
    \o When(s.plugin = NULL /\ set.plugin # NULL, Arg("plugin", set.plugin))
    \o When(s.plugin_opts = NULL /\ set.plugin_opts # NULL, Arg("plugin_opts", set.plugin_opts))
    \o When(set.nameserver # NULL, Arg("nameserver", set.nameserver))
    \o [i \in 1..Len(set.server) |-> Arg("server", set.server[i])]

\* What ss-server makes of it; without a file it can use it does not start.
\* Its files are those of the number.
Starts(v, s) ==
    /\ Readable(v.conf[Path(s.port)])
    /\ ServerCheck(Fill(CommandLine(ServerArgs(s)), ReadJconf(v.conf[Path(s.port)]), ServerTakes))
Started(v, s, fresh) ==
    LET took == Fill(CommandLine(ServerArgs(s)), ReadJconf(v.conf[Path(s.port)]), ServerTakes)
    IN  [v EXCEPT !.procs = Append(@, [text |-> s.port, of |-> s, set |-> took, fresh |-> fresh, told |-> FALSE]),
                  !.pid[Path(s.port)] = Len(v.procs) + 1]

Malloc(heap) == CHOOSE i \in Ids : heap[i] = Free /\ \A j \in Ids : heap[j] = Free => i <= j

\* check_port binds a TCP socket unless only UDP is wanted; a server that was
\* told to stop may still have the port.
Serves(text, p) == Atoi[p.text] = Atoi[text]
Taken(v, text) ==
    set.mode # UDP_ONLY /\ \E p \in Range(v.procs) : Serves(text, p) /\ ~p.told /\ p.set.mode # UDP_ONLY
MayBeTaken(v, text) == \E p \in Range(v.procs) : Serves(text, p)

\* add_server.  A server whose port is taken is neither put nor freed.  A
\* configuration file that cannot be written stays as it was.
AddServer(v, s, how) ==
    LET id == Malloc(v.heap)
        put == [v EXCEPT !.heap[id] = s, !.table = Put(@, s.port, id, id)]
        told == BuildConfig(put, s)
    IN  CASE how = "taken" -> [v EXCEPT !.heap[id] = s]
          [] how = "system" -> told
          [] how = "unwritable" -> IF Starts(put, s) THEN Started(put, s, FALSE) ELSE put
          [] how = "started" -> IF Starts(told, s) THEN Started(told, s, TRUE) ELSE told

\* The ways a start can go, and those that count as faults.
Faulty(v, text, how) == how \in {"system", "unwritable"} \/ (how = "taken" /\ ~MayBeTaken(v, text))
Outcomes(v, text) ==
    {how \in {"taken", "system", "unwritable", "started"} :
        /\ how # "taken" => ~Taken(v, text)
        /\ Faulty(v, text, how) => faults < MaxFaults}
Costs(v, text, how) == faults' = IF Faulty(v, text, how) THEN faults + 1 ELSE faults

-----------------------------------------------------------------------------
(* Stopping a server *)

Told(procs, pid) == IF pid = 0 THEN procs ELSE [procs EXCEPT ![pid].told = TRUE]
StopServer(v, text) == [v EXCEPT !.procs = Told(@, v.pid[text])]
KillServer(v, text) == [v EXCEPT !.procs = Told(@, v.pid[text]), !.pid[text] = 0]

\* remove_server, with destroy_server of what was in the table.
RemoveServer(v, text) ==
    StopServer([v EXCEPT !.table = Delete(@, text),
                         !.heap = IF Has(v.table, text) THEN [@ EXCEPT ![Get(v.table, text).value] = Free] ELSE @,
                         !.lock[text] = "", !.status[text] = ""], text)

-----------------------------------------------------------------------------
(* Reading a command *)

\* get_data: get_action has ended the action with a NUL, which is also the
\* first character of the data if nothing is in between.
GetData(d) == IF d.data.state = "none" THEN d.data
              ELSE IF d.spaced THEN d.data ELSE [state |-> "broken", entries |-> << >>]
Parsed(d) == GetData(d).state \in {"object", "other"}
Entries(d) == IF GetData(d).state = "object" THEN GetData(d).entries ELSE << >>

PortText(value, old) ==
    CASE value.type = "string" -> value.v [] value.type = "integer" -> ToString(value.v) [] OTHER -> old

\* get_server: the names are read until one is unknown.
Fields == {"server_port", "password", "method", "fast_open", "no_delay", "plugin", "plugin_opts", "mode"}
Field(s, e) ==
    CASE e.name = "server_port" -> [s EXCEPT !.port = PortText(e.value, @)]
      [] e.name \in {"fast_open", "no_delay"} /\ e.value.type = "boolean" ->
            [s EXCEPT ![e.name] = IF e.value.v = 1 THEN "true" ELSE "false"]
      [] e.name \in {"password", "method", "plugin", "plugin_opts", "mode"} /\ e.value.type = "string" ->
            [s EXCEPT ![e.name] = e.value.v]
      [] OTHER -> s
GetServer(d) ==
    LET es == Entries(d)
        known == {n \in 0..Len(es) : \A j \in 1..n : es[j].name \in Fields}
    IN  FoldLeft(Field, Blank, SubSeq(es, 1, CHOOSE n \in known : \A k \in known : k <= n))

\* parse_port_ip: all names are read.
PortIp(a, e) ==
    CASE e.name = "server_port" -> [a EXCEPT !.port = PortText(e.value, @)]
      [] e.name = "ip" /\ e.value.type = "string" -> [a EXCEPT !.ip = e.value.v]
      [] OTHER -> a
ParsePortIp(d) == FoldLeft(PortIp, [port |-> "", ip |-> ""], Entries(d))

\* parse_traffic: the last number counts; without one the port is what was on
\* the stack, and the traffic zero.
ParseTraffic(d) ==
    LET numbers == SelectSeq(Entries(d), LAMBDA e : e.value.type = "integer")
    IN  IF numbers # << >> THEN {[port |-> numbers[Len(numbers)].name, traffic |-> numbers[Len(numbers)].value.v]}
        ELSE {[port |-> t, traffic |-> 0] : t \in Texts}

-----------------------------------------------------------------------------
(* Answers *)

Answer(msg) == [msg |-> msg, items |-> << >>, len |-> 3]
Server(e) == w.heap[e.value]

\* One turn of the loop of list: a full buffer is sent, and the entry starts
\* the next one.  The text around the three values has 47 characters.
ListPart(a, e) ==
    LET s == Server(e)
        method == IF s.method # NULL THEN s.method ELSE set.method
        entry == Len(s.port) + Len(s.password) + Len(method)
        b == IF a.pos > BufSize - entry - 50
             THEN [parts |-> Append(a.parts, [msg |-> "list", items |-> a.items, len |-> a.pos]), items |-> << >>, pos |-> 0]
             ELSE a
    IN  [b EXCEPT !.items = Append(@, <<s.port, s.password, method>>), !.pos = @ + 47 + entry]

\* The last comma makes room for the end, the opening bracket does not.
ListAnswer ==
    LET a == FoldLeft(ListPart, [parts |-> << >>, items |-> << >>, pos |-> 1], Iterate(w.table))
    IN  Append(a.parts, [msg |-> "list", items |-> a.items, len |-> (IF a.pos > 2 THEN a.pos - 1 ELSE 1) + 2])

\* Mutant of PingPart: the buffer is not emptied.
PingPartKeeps(a, e) ==
    LET s == Server(e)
    IN  IF a.pos > BufSize \div 2
        THEN [a EXCEPT !.parts = Append(@, [msg |-> "stat", items |-> a.items, len |-> a.pos])]
        ELSE [a EXCEPT !.items = Append(@, <<s.port, s.traffic>>), !.pos = @ + Len(s.port) + 4 + Digits[s.traffic]]

\* One turn of the loop of ping: the entry that finds the buffer half full is
\* left out, and the next part has no header.
PingPart(a, e) ==
    LET s == Server(e)
    IN  IF a.pos > BufSize \div 2
        THEN [parts |-> Append(a.parts, [msg |-> "stat", items |-> a.items, len |-> a.pos]), items |-> << >>, pos |-> 0]
        ELSE [a EXCEPT !.items = Append(@, <<s.port, s.traffic>>), !.pos = @ + Len(s.port) + 4 + Digits[s.traffic]]
PingAnswer ==
    LET a == FoldLeft(PingPart, [parts |-> << >>, items |-> << >>, pos |-> 7], Iterate(w.table))
    IN  Append(a.parts, [msg |-> "stat", items |-> a.items, len |-> IF a.pos > 7 THEN a.pos ELSE a.pos + 1])

\* read_port_status
PortStatus(text) == IF w.status[text] # "" THEN w.status[text] ELSE w.lock[text]

-----------------------------------------------------------------------------
(* manager_recv_cb, one action per command *)

Receives(act, d) ==
    /\ pc = "loop" /\ commands < MaxCommands
    /\ d.act = act /\ ~d.large
    /\ commands' = commands + 1 /\ last' = d
    /\ UNCHANGED <<input, set, pc, todo, sig>>
Says(msg) == out' = <<Answer(msg)>>
Refused == Says("err") /\ UNCHANGED <<w, faults>>

Invalid(d) == ~Parsed(d) \/ GetServer(d).port = ""

AddPort(d) ==
    LET s == GetServer(d)
        v == RemoveServer(w, s.port)
    IN  /\ Receives("add", d)
        /\ \/ (Invalid(d) \/ s.password = "") /\ Refused
           \/ /\ ~Invalid(d) /\ s.password # ""
              /\ \E how \in Outcomes(v, s.port) :
                    /\ Costs(v, s.port, how)
                    /\ w' = AddServer(v, s, how)
                    /\ Says(IF how \in {"taken", "system"} THEN "port is not available" ELSE "ok")

RemovePort(d) ==
    /\ Receives("remove", d)
    /\ \/ Invalid(d) /\ Refused
       \/ ~Invalid(d) /\ w' = RemoveServer(w, GetServer(d).port) /\ Says("ok") /\ UNCHANGED faults

List(d) == Receives("list", d) /\ out' = ListAnswer /\ UNCHANGED <<w, faults>>
Ping(d) == Receives("ping", d) /\ out' = PingAnswer /\ UNCHANGED <<w, faults>>

\* update_stat of what parse_traffic found.
Stat(d) ==
    /\ Receives("stat", d) /\ out' = << >> /\ UNCHANGED faults
    /\ \/ ~Parsed(d) /\ UNCHANGED w
       \/ /\ Parsed(d)
          /\ \E r \in ParseTraffic(d) :
                w' = IF r.port \in Texts /\ Has(w.table, r.port)
                     THEN [w EXCEPT !.heap[Get(w.table, r.port).value].traffic = r.traffic] ELSE w

\* The lock of a port: the file, and the copy in the table.
Locked(v, text, ip) ==
    [v EXCEPT !.lock[text] = ip,
              !.heap = IF Has(v.table, text) THEN [@ EXCEPT ![Get(v.table, text).value].locked_ip = ip] ELSE @]
SetIp(d) ==
    LET r == ParsePortIp(d)
    IN  /\ Receives("set_ip", d) /\ UNCHANGED faults
        /\ \/ (r.port = "" \/ r.ip = "") /\ Says("err") /\ UNCHANGED w
           \/ r.port # "" /\ r.ip # "" /\ Says("ok") /\ w' = Locked(w, r.port, r.ip)
ClearIp(d) ==
    LET r == ParsePortIp(d)
    IN  /\ Receives("clear_ip", d) /\ UNCHANGED faults
        /\ \/ r.port = "" /\ Says("err") /\ UNCHANGED w
           \/ r.port # "" /\ Says("ok") /\ w' = Locked(w, r.port, "")
IpStatus(d) ==
    LET r == ParsePortIp(d)
    IN  /\ Receives("ip_status", d) /\ UNCHANGED <<w, faults>>
        /\ Says(IF r.port = "" THEN "err" ELSE PortStatus(r.port))

\* The lock file cannot be written.
SetIpFails(d) ==
    /\ faults < MaxFaults /\ faults' = faults + 1
    /\ Receives("set_ip", d)
    /\ ParsePortIp(d).port # "" /\ ParsePortIp(d).ip # ""
    /\ Says("err") /\ UNCHANGED w

\* More than half of the buffer, blank, or unknown: not answered.
Ignored(d) ==
    /\ pc = "loop" /\ commands < MaxCommands
    /\ d.large \/ d.act \notin {"add", "remove", "list", "ping", "stat", "set_ip", "clear_ip", "ip_status"}
    /\ commands' = commands + 1 /\ last' = d /\ out' = << >>
    /\ UNCHANGED <<input, set, pc, todo, sig, w, faults>>

Command(d) == \/ AddPort(d) \/ RemovePort(d) \/ List(d) \/ Ping(d) \/ Stat(d)
              \/ SetIp(d) \/ SetIpFails(d) \/ ClearIp(d) \/ IpStatus(d) \/ Ignored(d)

-----------------------------------------------------------------------------
(* main *)

GoTo(step) == pc' = step /\ UNCHANGED <<input, commands, last, out>>
Fails(step) == GoTo(step) /\ UNCHANGED <<set, todo, sig, w, faults>>

ManagerOptions ==
    {"fast_open", "no_delay", "reuse_port", "acl", "manager_address", "mtu", "plugin", "plugin_opts", "password",
     "workdir", "server", "pid_file", "timeout", "method", "iface", "nameserver", "user", "mode", "ipv6_first",
     "nofile", "auth", "help"}
ManagerTakes ==
    {"server", "password", "method", "timeout", "user", "fast_open", "no_delay", "reuse_port", "nameserver", "mode",
     "mtu", "plugin", "plugin_opts", "ipv6_first", "workdir", "acl", "manager_address", "nofile"}

\* Hosts of the command line are kept as they are, those of the file have lost
\* their ports; rules are not loaded here.
ManagerArgument(cmd, a) ==
    CASE a.name = "server" -> IF Len(cmd.server) < MaxRemotes THEN [cmd EXCEPT !.server = Append(@, a.value)] ELSE cmd
      [] a.name = "acl" -> [cmd EXCEPT !.acl = a.value]
      [] OTHER -> Argument(cmd, a)
HostText(a) == [NoText EXCEPT !.name = a.host]
Merged ==
    LET cmd == FoldLeft(ManagerArgument, Nothing, input.args)
        conf == IF input.file.state = "none" THEN Nothing ELSE ReadJconf(input.file)
        hosts == IF cmd.server # << >> THEN cmd.server ELSE [i \in 1..Len(conf.server) |-> HostText(conf.server[i])]
    IN  [Fill(cmd, conf, ManagerTakes) EXCEPT
            !.server = IF hosts = << >> THEN <<[NoText EXCEPT !.name = "0.0.0.0"]>> ELSE hosts]
Prepared == Default(Default(Merged, "method", "table"), "timeout", "60")

Ending == {j \in 1..Len(input.args) : input.args[j].name \in {"help", "auth"}}
ReadOptions ==
    /\ pc = "options"
    /\ \/ /\ Ending # {}
          /\ Fails(IF input.args[CHOOSE j \in Ending : \A k \in Ending : j <= k].name = "help" THEN "help" ELSE "fatal")
       \/ /\ Ending = {} /\ \E j \in 1..Len(input.args) : input.args[j].name \notin ManagerOptions
          /\ Fails("usage")
       \/ /\ Ending = {} /\ \A j \in 1..Len(input.args) : input.args[j].name \in ManagerOptions
          /\ IF input.file.state # "none" /\ ~Readable(input.file) THEN Fails("fatal")
             ELSE /\ GoTo("setuid") /\ set' = Prepared
                  /\ todo' = IF input.file.state = "none" THEN << >> ELSE ReadJconf(input.file).port_password
                  /\ UNCHANGED <<sig, w, faults>>

\* daemonize and run_as
Setuid ==
    /\ pc = "setuid"
    /\ \/ GoTo("workdir") /\ UNCHANGED <<set, todo, sig, w, faults>>
       \/ set.user # NULL /\ Fails("fatal")

\* The working directory, and the socket in the directory it is made from;
\* the signals are handled from here on.
Workdir ==
    /\ pc = "workdir"
    /\ \/ /\ GoTo("clean")
          /\ set' = Default([set EXCEPT !.workdir = IF @ \in {NULL, ""} THEN "home" ELSE @], "manager_address", "socket")
          /\ UNCHANGED <<todo, sig, w, faults>>
       \/ Fails("fatal")

\* kill_server of every pid file in the working directory, which is the own
\* one too if it is there.
Clean ==
    /\ pc = "clean"
    /\ \/ /\ GoTo("ports") /\ w' = FoldLeft(KillServer, w, SetToSeq(Texts))
          /\ sig' = (input.pidfile = "inside") /\ UNCHANGED <<set, todo, faults>>
       \/ Fails("fatal")

\* One entry of port_password.  A hole in the table is a null pointer.
StartPort ==
    /\ pc = "ports" /\ todo # << >>
    /\ IF Head(todo).port = NULL THEN Fails("crashed")
       ELSE LET s == [Blank EXCEPT !.port = Head(todo).port, !.password = Head(todo).password]
            IN  \E how \in Outcomes(w, s.port) :
                    /\ Costs(w, s.port, how)
                    /\ w' = AddServer(w, s, how)
                    /\ todo' = Tail(todo) /\ GoTo("ports") /\ UNCHANGED <<set, sig>>

\* A socket with a name, after a file of that name was removed, or one with a
\* port.  The servers that were started go on without ss-manager.
Socket ==
    /\ pc = "ports" /\ todo = << >>
    /\ \/ GoTo("loop") /\ UNCHANGED <<set, todo, sig, w, faults>>
       \/ Fails(IF set.manager_address \in HostPorts THEN "fatal" ELSE "usage")

\* signal_cb ends the loop, and main stops what is in the table.
Signalled == pc = "loop" /\ ~sig /\ sig' = TRUE /\ GoTo("loop") /\ UNCHANGED <<set, todo, w, faults>>
StopEntry(v, e) == StopServer(v, w.heap[e.value].port)
End ==
    /\ pc = "loop" /\ sig
    /\ w' = FoldLeft(StopEntry, w, Iterate(w.table))
    /\ GoTo("ended") /\ UNCHANGED <<set, todo, sig, faults>>

\* A server that runs writes its status.
ServerReports ==
    /\ pc = "loop"
    /\ \E p \in Range(w.procs) : ~p.told /\ w' = [w EXCEPT !.status[Path(p.text)] = "live"]
    /\ UNCHANGED <<input, set, pc, todo, sig, last, out, commands, faults>>

Finished == pc \in Gone /\ UNCHANGED vars

Next == \/ ReadOptions \/ Setuid \/ Workdir \/ Clean \/ StartPort \/ Socket
        \/ (\E i \in DOMAIN Commands : Command(Commands[i]))
        \/ ServerReports \/ Signalled \/ End \/ Finished

Spec == Init /\ [][Next]_vars

-----------------------------------------------------------------------------
(* Properties *)

TypeOK ==
    /\ pc \in Gone \union {"options", "setuid", "workdir", "clean", "ports", "loop"}
    /\ sig \in BOOLEAN /\ commands \in 0..MaxCommands /\ faults \in 0..MaxFaults
    /\ \A i \in Ids : w.heap[i] = Free \/ w.heap[i].port \in Texts
    /\ \A t \in Texts : w.pid[t] \in 0..Len(w.procs)
    /\ w.table.count \in Nat

\* The table of servers is a table: every entry is in the bin of its text, also
\* after the bins were doubled, once in the list that list, ping and the end of
\* main go through, and the count is right (hash-table.c).
TableExact == Exact(w.table)

\* Key and value of an entry are the memory of one server that was not freed,
\* whatever order add, remove and the failures of add_server come in.
NoDangling ==
    \A e \in Range(w.table.order) :
        e.key = e.value /\ w.heap[e.value] # Free /\ w.heap[e.value].port = e.text

\* ss-server reads from its command line and its file together exactly what the
\* command asked for, and what ss-manager was told for the rest: an option that
\* the file holds is not overruled by the command line (build_config,
\* construct_command_line, and the chains of main in server.c).  This is so
\* when the file could be written and the port is written as a number is.
Wanted(s) ==
    [o \in Options |->
        CASE o = "server_port" -> Path(s.port)
          [] o = "password" -> s.password
          [] o = "server" -> [i \in 1..Len(set.server) |-> ParseAddr(set.server[i])]
          [] o = "plugin" /\ s.plugin = "" -> NULL
          [] o \in {"method", "plugin", "plugin_opts"} /\ s[o] # NULL -> s[o]
          [] o \in {"fast_open", "no_delay"} /\ s[o] # "" -> Flag(s[o])
          [] o = "mode" /\ s.mode # NULL ->
                IF s.mode = "tcp_and_udp" THEN TCP_AND_UDP ELSE IF s.mode = "udp_only" THEN UDP_ONLY ELSE TCP_ONLY
          [] o \in (ManagerTakes \union {"iface"}) \ {"workdir", "password"} -> set[o]
          [] OTHER -> NotGiven(o)]
SettingsReach == \A p \in Range(w.procs) : p.fresh /\ Canonical(p.text) => p.set = Wanted(p.of)

\* The parts of the answer to list are the whole table in its order, and fit
\* the buffer with the NUL behind them.
AllItems == FlattenSeq([i \in 1..Len(out) |-> out[i].items])
ListComplete ==
    last.act = "list" /\ out # << >> =>
        /\ [i \in 1..Len(AllItems) |-> AllItems[i][1]] = [i \in 1..Len(w.table.order) |-> w.table.order[i].text]
        /\ \A i \in 1..Len(out) : out[i].len < BufSize

\* The traffic of every port (doc/ss-manager.asciidoc), and where the last entry
\* would start if all were written to one buffer.
Statistics == [i \in 1..Len(w.table.order) |->
                  <<Server(w.table.order[i]).port, Server(w.table.order[i]).traffic>>]
LastStarts == FoldLeft(LAMBDA n, x : n + Len(x[1]) + 4 + Digits[x[2]], 7,
                       IF Statistics = << >> THEN << >> ELSE Front(Statistics))

\* The answer to ping is the traffic of every port, in one part, if the last
\* entry starts in the first half of the buffer.  With more ports than that
\* some are missing (the entry that finds the buffer half full is dropped), but
\* no port is reported twice or with another's traffic, and every part fits.
PingAnswers ==
    last.act = "ping" /\ out # << >> =>
        /\ LastStarts <= BufSize \div 2 => Len(out) = 1 /\ AllItems = Statistics
        /\ Range(AllItems) \subseteq Range(Statistics)
        /\ \A i, j \in 1..Len(AllItems) : i # j => AllItems[i][1] # AllItems[j][1]
        /\ \A i \in 1..Len(out) : out[i].len < BufSize

\* A server that was started and not told to stop is found again: its entry is
\* in the table and its pid file names it, so that remove, the next add and the
\* end of main reach it; the servers of an earlier ss-manager were told before
\* the first one is started.  This is so while ports are written as numbers are.
Reached ==
    pc \in {"ports", "loop", "ended"} /\ (\A p \in Range(w.procs) : Canonical(p.text)) =>
        \A i \in 1..Len(w.procs) :
            ~w.procs[i].told =>
                /\ pc # "ended"
                /\ w.pid[w.procs[i].text] = i /\ Has(w.table, w.procs[i].text)

\* The table of servers is sound, holds no server that was freed, and with the
\* pid files leads to every server that was not told to stop.
TableTrue == TypeOK /\ TableExact /\ NoDangling /\ Reached

\* The answers to list and ping.
AnswersWhole == ListComplete /\ PingAnswers
=============================================================================
