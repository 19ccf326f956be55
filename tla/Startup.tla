------------------------------ MODULE Startup ------------------------------
(***************************************************************************)
(* From main to exit: how ss-local, ss-tunnel, ss-redir and ss-server read *)
(* their options, get their ports, start a plugin, install their signal    *)
(* handlers, listen, give up root, run the event loop and stop.  The steps *)
(* are the same, their order is not: each program has a list of its own.   *)
(* The plugin and the signals go on between any two steps.                 *)
(***************************************************************************)
EXTENDS Plugin

CONSTANTS
    Inputs,         \* what the program may be started with: a table of [prog, args, file]
    V6Hosts,        \* hosts that resolve to an IPv6 address
    Methods,        \* ciphers crypto_init knows
    Privileged      \* ports that only root may bind

VARIABLES
    input,      \* what it was started with
    set,        \* the options in force
    pc,         \* the step the program is at
    me,         \* the process that runs it: daemonize forks
    uid, keys, handlers, pending, ret,
    ports,      \* the local ports still to be bound
    remotes,    \* listen_ctx.remote_addr: where connections go
    tcp, udp,   \* what is listened on: sets of [slot, addr, tos], slot the entry of listen_ctx_list
    cause       \* why the program gave up: "settings", "fault" or "privilege"

procVars == <<input, set, me, uid, keys, handlers, ret, ports, remotes, tcp, udp>>
startupVars == <<procVars, subVars, pc, pending, cause>>

\* The programs, and that the arguments and the entries of a file are sequences.
Programs == {"ss-local", "ss-tunnel", "ss-redir", "ss-server"}
ASSUME InputsAssumption ==
    \A i \in DOMAIN Inputs :
        /\ Inputs[i].prog \in Programs
        /\ Inputs[i].args \in Seq(Range(Inputs[i].args))
        /\ Inputs[i].file.entries \in Seq(Range(Inputs[i].file.entries))

Prog == input.prog
IsServer == Prog = "ss-server"
Gone == {"help", "usage", "fatal", "killed", "ended"}
NoAddress == Address(NULL, NULL)

StartupInit ==
    /\ \E i \in DOMAIN Inputs : input = Inputs[i]
    /\ set = Nothing /\ pc = "options" /\ me = 0 /\ uid = "root" /\ keys = FALSE
    /\ handlers = {} /\ pending = {} /\ ret = 0
    /\ ports = << >> /\ remotes = << >> /\ tcp = {} /\ udp = {} /\ cause = ""
    /\ SubprocessInit

-----------------------------------------------------------------------------
(* Options: which ones a program knows, which ones it takes from the file, *)
(* which ones it cannot do without, and what it makes of them              *)

LocalOptions == Common \union Always \union {"local_address", "local_port", "ipv6_first", "acl", "iface"}
TunnelOptions == Common \union Always \union {"local_address", "local_port", "ipv6_first", "tunnel_address", "iface"}
RedirOptions == Common \union Always \union {"local_address", "local_port", "ipv6_first", "tcp_tproxy"}

LocalTakes == Common \union {"local_address", "local_port", "ipv6_first", "acl"}
TunnelTakes == Common \union {"local_address", "local_port", "tunnel_address"}
RedirTakes == Common \union {"local_address", "local_port", "ipv6_first", "tcp_tproxy", "dscp"}

LocalCheck(s) == s.server # << >> /\ s.server_port # NULL /\ s.local_port # NULL /\ Keyed(s)
TunnelCheck(s) == s.server # << >> /\ s.server_port # NULL /\ s.tunnel_address # NoText /\ s.local_port # NULL
                    /\ Keyed(s)
RedirCheck(s) == s.server # << >> /\ s.server_port # NULL /\ s.local_port # NULL /\ Keyed(s)

\* is_ipv6only and the address of the machine itself that goes with it
Loopback(s) == IF \A i \in 1..Len(s.server) : s.server[i].host \in V6Hosts THEN "::1" ELSE "127.0.0.1"

LocalPrepare(s) ==
    LET d == Default(Default(Sizes(s), "method", "chacha20-ietf-poly1305"), "timeout", "60")
    IN  Default(d, "local_address", Loopback(d))
TunnelPrepare(s) ==
    LET d == Default(Default(Sizes(s), "method", "chacha20-ietf-poly1305"), "timeout", "60")
    IN  Default(d, "local_address", Loopback(d))
RedirPrepare(s) ==
    LET d == Default(Default(Sizes(s), "method", "chacha20-ietf-poly1305"), "timeout", "600")
    IN  Default(d, "local_address", Loopback(d))
ServerPrepare(s) ==
    LET d == Default(Default(Sizes(s), "method", "chacha20-ietf-poly1305"), "timeout", "60")
    IN  IF d.server = << >> THEN [d EXCEPT !.server = <<Address("0.0.0.0", NULL)>>] ELSE d

Knows == CASE Prog = "ss-local" -> LocalOptions [] Prog = "ss-tunnel" -> TunnelOptions
           [] Prog = "ss-redir" -> RedirOptions [] OTHER -> ServerOptions
Takes == CASE Prog = "ss-local" -> LocalTakes [] Prog = "ss-tunnel" -> TunnelTakes
           [] Prog = "ss-redir" -> RedirTakes [] OTHER -> ServerTakes
Check(s) == CASE Prog = "ss-local" -> LocalCheck(s) [] Prog = "ss-tunnel" -> TunnelCheck(s)
              [] Prog = "ss-redir" -> RedirCheck(s) [] OTHER -> ServerCheck(s)
Prepare(s) == CASE Prog = "ss-local" -> LocalPrepare(s) [] Prog = "ss-tunnel" -> TunnelPrepare(s)
                [] Prog = "ss-redir" -> RedirPrepare(s) [] OTHER -> ServerPrepare(s)

\* What is in force before defaults are filled in.
Merged == IF input.file.state = "none" THEN CommandLine(input.args)
          ELSE Fill(CommandLine(input.args), ReadJconf(input.file), Takes)

-----------------------------------------------------------------------------
(* The order of the steps *)

LocalMain ==
    <<"options", "port", "daemonize", "plugin", "crypto", "remotes", "signals", "tcp", "udp", "setuid", "loop">>

TunnelMain ==
    <<"options", "port", "daemonize", "target", "plugin", "signals", "crypto", "remotes", "tcp", "udp", "setuid",
      "loop">>

RedirMain ==
    <<"options", "port", "daemonize", "plugin", "signals", "crypto", "remotes", "tcp", "udp", "setuid", "loop">>

ServerMain ==
    <<"options", "port", "daemonize", "signals", "crypto", "resolver", "plugin", "tcp", "udp", "setuid", "loop">>

Steps == CASE Prog = "ss-local" -> LocalMain [] Prog = "ss-tunnel" -> TunnelMain
           [] Prog = "ss-redir" -> RedirMain [] OTHER -> ServerMain
After(step) == Steps[(CHOOSE i \in 1..Len(Steps) : Steps[i] = step) + 1]

GoOn == pc' = After(pc) /\ UNCHANGED <<pending, cause>>
Fatal(why) == pc' = "fatal" /\ cause' = why /\ UNCHANGED <<pending, procVars>>

-----------------------------------------------------------------------------
(* The steps *)

\* Arguments are taken in order; -h and -A end the program at once.
Ending == {j \in 1..Len(input.args) : input.args[j].name \in {"help", "auth"}}
ReadOptions ==
    /\ pc = "options"
    /\ UNCHANGED <<subVars, input, me, uid, keys, handlers, pending, ret, remotes, tcp, udp>>
    /\ \/ /\ Ending # {}
          /\ LET first == input.args[CHOOSE j \in Ending : \A k \in Ending : j <= k]
             IN  pc' = IF first.name = "help" THEN "help" ELSE "fatal"
          /\ cause' = "settings"
          /\ UNCHANGED <<set, ports>>
       \/ /\ Ending = {}
          /\ \E j \in 1..Len(input.args) : input.args[j].name \notin Knows
          /\ pc' = "usage" /\ cause' = "settings" /\ UNCHANGED <<set, ports>>
       \/ /\ Ending = {}
          /\ \A j \in 1..Len(input.args) : input.args[j].name \in Knows
          /\ \/ /\ input.file.state # "none" /\ ~Readable(input.file)
                /\ pc' = "fatal" /\ cause' = "settings" /\ UNCHANGED <<set, ports>>
             \/ /\ input.file.state = "none" \/ Readable(input.file)
                /\ IF Check(Merged)
                   THEN /\ set' = Prepare(Merged)
                        /\ ports' = <<set'.local_port>> \o [j \in 1..Len(set'.dscp) |-> Reverse(set'.dscp)[j].port]
                        /\ pc' = After(pc) /\ UNCHANGED cause
                   ELSE pc' = "usage" /\ cause' = "settings" /\ UNCHANGED <<set, ports>>

HasPlugin == set.plugin # NULL

\* get_local_port: bound and closed again, so that the plugin can have it.
\* is_ipv6only has to resolve the servers.
PluginAddress == Address(Loopback(set), "free")
FreePort ==
    /\ pc = "port"
    /\ UNCHANGED <<subVars, procVars>>
    /\ \/ GoOn
       \/ (HasPlugin \/ IsServer \/ Merged.local_address = NULL) /\ Fatal("fault")

Daemonize ==
    /\ pc = "daemonize" /\ UNCHANGED subVars
    /\ IF \E j \in 1..Len(input.args) : input.args[j].name = "pid_file"
       THEN \/ GoOn /\ me' = me + 1 /\ UNCHANGED <<input, set, uid, keys, handlers, ret, ports, remotes, tcp, udp>>
            \/ Fatal("fault")
       ELSE GoOn /\ UNCHANGED procVars

Target ==
    /\ pc = "target" /\ UNCHANGED <<subVars, procVars>>
    /\ IF ParseAddr(set.tunnel_address).port # NULL THEN GoOn ELSE Fatal("settings")

\* The names of the servers, joined.  ss-tunnel and ss-redir write the second
\* over the first.
LocalHosts == [i \in 1..Len(set.server) |-> set.server[i].host]
TunnelHosts == [i \in 1..Len(set.server) |-> IF i = 1 /\ Len(set.server) > 1 THEN "" ELSE set.server[i].host]

PluginCommand ==
    IF IsServer
    THEN PluginExec(set.plugin, set.plugin_opts, LocalHosts, set.server_port, PluginAddress.host, PluginAddress.port,
                    "server")
    ELSE PluginExec(set.plugin, set.plugin_opts, IF Prog = "ss-local" THEN LocalHosts ELSE TunnelHosts,
                    set.server_port, PluginAddress.host, PluginAddress.port, "client")

StartPlugin ==
    /\ pc = "plugin" /\ UNCHANGED procVars
    /\ \/ ~HasPlugin /\ GoOn /\ UNCHANGED subVars
       \/ HasPlugin /\ StartNothing(set.plugin) /\ GoOn
       \/ HasPlugin /\ StartWorks(set.plugin, PluginCommand, me, handlers) /\ GoOn
       \/ HasPlugin /\ StartFails(set.plugin, PluginCommand) /\ Fatal("fault")

Signals ==
    /\ pc = "signals" /\ GoOn
    /\ handlers' = {"INT", "TERM", "CHLD"}
    /\ UNCHANGED <<subVars, input, set, me, uid, keys, ret, ports, remotes, tcp, udp>>

Crypto ==
    /\ pc = "crypto" /\ UNCHANGED subVars
    /\ IF set.method \in Methods
       THEN GoOn /\ keys' = TRUE /\ UNCHANGED <<input, set, me, uid, handlers, ret, ports, remotes, tcp, udp>>
       ELSE Fatal("settings")

\* resolv_init of ss-server: c-ares does not come up or refuses the nameservers.
Resolver == pc = "resolver" /\ UNCHANGED <<subVars, procVars>> /\ (GoOn \/ Fatal("fault"))

\* With a plugin only the first address is set.  ss-local counts it, the others
\* keep the number of servers, with NULL in the rest of the table.
Own(a) == IF a.port = NULL THEN Address(a.host, set.server_port) ELSE a
LocalRemotes == IF HasPlugin THEN <<PluginAddress>> ELSE [i \in 1..Len(set.server) |-> Own(set.server[i])]
TunnelRemotes == [i \in 1..Len(set.server) |->
                    IF ~HasPlugin THEN Own(set.server[i]) ELSE IF i = 1 THEN PluginAddress ELSE NoAddress]
Remotes ==
    /\ pc = "remotes" /\ UNCHANGED subVars
    /\ \/ /\ GoOn /\ remotes' = IF Prog = "ss-local" THEN LocalRemotes ELSE TunnelRemotes
          /\ UNCHANGED <<input, set, me, uid, keys, handlers, ret, ports, tcp, udp>>
       \/ Fatal("fault")

MayBind(port) == port \in Privileged => uid = "root"
Listener(slot, host, port, tos) == [slot |-> slot, addr |-> Address(host, port), tos |-> tos]

\* The marking that goes with the port at the head of ports (ss-redir).
Tos == IF Len(ports) > Len(set.dscp) THEN 0 ELSE Reverse(set.dscp)[Len(set.dscp) - Len(ports) + 1].dscp * 4

\* create_and_bind and listen of a client.
ClientTcp ==
    /\ pc = "tcp" /\ ~IsServer /\ UNCHANGED subVars
    /\ \/ set.mode = UDP_ONLY /\ GoOn /\ UNCHANGED procVars
       \/ /\ set.mode # UDP_ONLY /\ MayBind(Head(ports)) /\ GoOn
          /\ tcp' = tcp \union {Listener(1, set.local_address, Head(ports), Tos)}
          /\ UNCHANGED <<input, set, me, uid, keys, handlers, ret, ports, remotes, udp>>
       \/ set.mode # UDP_ONLY /\ Fatal(IF MayBind(Head(ports)) THEN "fault" ELSE "privilege")

\* init_udprelay of a client, whose result nobody looks at; ss-redir goes on
\* with the next marked port.
ClientUdp ==
    /\ pc = "udp" /\ ~IsServer /\ UNCHANGED subVars
    /\ \/ /\ pc' = IF Len(ports) > 1 THEN "tcp" ELSE After(pc)
          /\ ports' = Tail(ports)
          /\ \/ set.mode # TCP_ONLY /\ MayBind(Head(ports)) /\ udp' = udp \union {Listener(1, set.local_address, Head(ports), 0)}
             \/ UNCHANGED udp
          /\ UNCHANGED <<pending, cause, input, set, me, uid, keys, handlers, ret, remotes, tcp>>
       \/ set.mode # TCP_ONLY /\ Fatal("fault")

ServerPort(i) == IF set.server[i].port # NULL THEN set.server[i].port
                 ELSE IF HasPlugin THEN PluginAddress.port ELSE set.server_port

\* ss-server binds what it can.  With a plugin it is on the plugin's port, or
\* on the port of the address, and stops at the first.
ServerTcp ==
    /\ pc = "tcp" /\ IsServer /\ UNCHANGED subVars
    /\ \/ set.mode = UDP_ONLY /\ GoOn /\ UNCHANGED procVars
       \/ /\ set.mode # UDP_ONLY
          /\ \E bound \in SUBSET {i \in 1..Len(set.server) : MayBind(ServerPort(i))} :
                IF bound = {} THEN Fatal(IF \A i \in 1..Len(set.server) : MayBind(ServerPort(i)) THEN "fault" ELSE "privilege")
                ELSE /\ HasPlugin => \E i \in bound : bound = {i}
                     /\ tcp' = {Listener(i, IF HasPlugin THEN PluginAddress.host ELSE set.server[i].host, ServerPort(i), 0) :
                                i \in bound}
                     /\ GoOn
                     /\ UNCHANGED <<input, set, me, uid, keys, handlers, ret, ports, remotes, udp>>

UdpPort(i) == IF HasPlugin THEN set.server_port
              ELSE IF set.server[i].port # NULL THEN set.server[i].port ELSE set.server_port
ServerUdp ==
    /\ pc = "udp" /\ IsServer /\ UNCHANGED subVars
    /\ \/ set.mode = TCP_ONLY /\ GoOn /\ UNCHANGED procVars
       \/ /\ set.mode # TCP_ONLY
          /\ \E bound \in SUBSET {i \in 1..Len(set.server) : MayBind(UdpPort(i))} :
                IF bound = {} THEN Fatal(IF \A i \in 1..Len(set.server) : MayBind(UdpPort(i)) THEN "fault" ELSE "privilege")
                ELSE /\ udp' = {Listener(i, set.server[i].host, UdpPort(i), 0) : i \in bound}
                     /\ GoOn
                     /\ UNCHANGED <<input, set, me, uid, keys, handlers, ret, ports, remotes, tcp>>

\* run_as: the group, the groups and then the user.
Setuid ==
    /\ pc = "setuid" /\ UNCHANGED subVars
    /\ \/ /\ GoOn /\ uid' = IF set.user = NULL THEN uid ELSE set.user
          /\ UNCHANGED <<input, set, me, keys, handlers, ret, ports, remotes, tcp, udp>>
       \/ set.user # NULL /\ Fatal("fault")

-----------------------------------------------------------------------------
(* The loop and the end *)

\* The loop waits for its children before it calls anybody (childcb of libev):
\* the plugin is waited for, but sub keeps its number.
Childcb(sigs) ==
    child' = IF "CHLD" \in sigs /\ child.state = "zombie" /\ child.parent = me THEN [child EXCEPT !.state = "reaped"]
             ELSE child

\* Stopping the watchers drops what is pending for them; the handler of SIGCHLD
\* stays with libev.
Unloop(r) == ret' = r /\ pc' = "stop" /\ handlers' = {"CHLD"} /\ pending' = {}

\* signal_cb: SIGCHLD goes on like the others once the plugin counts as gone.
SignalCb ==
    /\ pc = "loop" /\ pending # {}
    /\ Childcb(pending)
    /\ \E sig \in pending :
          IF sig = "CHLD" /\ IsPluginRunning
          THEN pending' = pending \ {sig} /\ UNCHANGED <<ret, pc, handlers>>
          ELSE Unloop(IF sig = "CHLD" THEN -1 ELSE ret)
    /\ UNCHANGED <<sub, spins, input, set, me, uid, keys, ports, remotes, tcp, udp, cause>>

Turn(step) == pc' = step /\ UNCHANGED <<procVars, pending, cause>>

\* stop_plugin: abort, wait, free.
Abort ==
    /\ pc = "stop"
    /\ \/ HasPlugin /\ AbortTerm /\ Turn("spin")
       \/ ~(HasPlugin /\ sub.pid > 0) /\ Turn("wait") /\ UNCHANGED subVars
Spin ==
    /\ pc = "spin"
    /\ \/ AbortReaps(me) /\ Turn("wait")
       \/ AbortSpins(me) /\ Turn("spin")
       \/ AbortKill(me) /\ Turn("wait")

\* Mutant of Wait: the program does not wait.
WaitNot == pc = "wait" /\ Turn("free") /\ UNCHANGED subVars

Wait ==
    /\ pc = "wait"
    /\ \/ WaitReaps(me) /\ Turn("wait")
       \/ WaitFails(me) /\ Turn("free")
       \/ IsFinished(sub) /\ Turn("free") /\ UNCHANGED subVars

\* ss-server cleans up every entry of listen_ctx_list (the first one, with a
\* plugin).  An entry that was never bound was never set: stopping a watcher
\* that is not one may end the program there.
Unset == {i \in 1..(IF HasPlugin THEN 1 ELSE Len(set.server)) : \A l \in tcp : l.slot # i}
Free ==
    /\ pc = "free"
    /\ sub' = Freed(sub)
    /\ \/ pc' = "ended"
       \/ IsServer /\ set.mode # UDP_ONLY /\ Unset # {} /\ pc' = "killed"
    /\ tcp' = {} /\ udp' = {}
    /\ UNCHANGED <<child, spins, input, set, me, uid, keys, handlers, pending, ret, ports, remotes, cause>>

Main == \/ ReadOptions \/ FreePort \/ Daemonize \/ Target \/ StartPlugin \/ Signals \/ Crypto \/ Resolver \/ Remotes
        \/ ClientTcp \/ ClientUdp \/ ServerTcp \/ ServerUdp \/ Setuid \/ SignalCb \/ Abort \/ Spin \/ Wait \/ Free

-----------------------------------------------------------------------------
(* The world *)

\* SIGINT or SIGTERM; without a handler it ends the program.
Arrives(sig) ==
    /\ pc \notin Gone
    /\ IF sig \in handlers THEN pending' = pending \union {sig} /\ UNCHANGED pc
                           ELSE pc' = "killed" /\ UNCHANGED pending
    /\ UNCHANGED <<procVars, subVars, cause>>

\* What the plugin does is told to its parent, if that is still there and has
\* a handler.
Noticed ==
    IF child.parent = me /\ pc \notin Gone /\ "CHLD" \in handlers
    THEN pending' = pending \union {"CHLD"} ELSE UNCHANGED pending
Unseen == child.parent = me /\ pc \notin Gone /\ "CHLD" \notin handlers

PluginFails == PluginEnds(1, Unseen) /\ Noticed /\ UNCHANGED <<procVars, sub, spins, pc, cause>>
PluginSignalled == PluginKilled(Unseen) /\ Noticed /\ UNCHANGED <<procVars, sub, spins, pc, cause>>
PluginSuspended == (PluginStops \/ PluginContinues) /\ Noticed /\ UNCHANGED <<procVars, sub, spins, pc, cause>>
PluginStarts == ChildExec /\ UNCHANGED <<procVars, pc, pending, cause>>

Finished == pc \in Gone /\ UNCHANGED startupVars

StartupNext == Main \/ Arrives("INT") \/ Arrives("TERM") \/ PluginFails \/ PluginSignalled \/ PluginSuspended
          \/ PluginStarts \/ Finished

\* The program runs, the plugin is executed once it is forked, and a process
\* that is sent a signal it does not ignore ends.
StartupFairness == WF_startupVars(Main) /\ WF_startupVars(PluginStarts) /\ WF_startupVars(PluginSignalled)
StartupSpec == StartupInit /\ [][StartupNext]_startupVars /\ StartupFairness
-----------------------------------------------------------------------------
(* Properties *)

StartupTypeOK ==
    /\ pc \in Gone \union {Steps[i] : i \in 1..Len(Steps)} \union {"stop", "spin", "wait", "free"}
    /\ me \in 0..1 /\ ret \in {0, -1} /\ spins \in 0..Spins /\ keys \in BOOLEAN
    /\ pending \subseteq handlers /\ handlers \subseteq {"INT", "TERM", "CHLD"}
    /\ sub.pid \in {0, 1} /\ sub.there \in BOOLEAN
    /\ child.state \in {"none", "forked", "running", "stopped", "zombie", "reaped"}
    /\ cause \in {"", "settings", "fault", "privilege"}

\* An option has the last value the command line gives it; without one, the
\* last value of the file, for the options the program takes from there (the
\* chains of "if (x == NULL) x = conf->x" in the main functions).  A value that
\* means "not given", such as an MTU of 0, counts as none.
LastOf(s, o) == LET at == {j \in 1..Len(s) : s[j].name = o} IN s[CHOOSE j \in at : \A k \in at : k <= j]
Names(s, o) == \E j \in 1..Len(s) : s[j].name = o
FileValue(e) == IF e.name \notin StringOptions THEN e.value.v
                ELSE IF e.name = "plugin" /\ ToText(e.value) = "" THEN NULL ELSE ToText(e.value)
Given(o) == Names(input.args, o) /\ LastOf(input.args, o).value # NotGiven(o)
InFile(o) == input.file.state = "object" /\ Names(input.file.entries, o)
               /\ FileValue(LastOf(input.file.entries, o)) # NotGiven(o)
OptionsExact ==
    pc = "port" =>
        \A o \in (Takes \ {"server", "mode", "dscp", "acl", "tunnel_address"}) \ SizeOptions :
            /\ Given(o) => set[o] = LastOf(input.args, o).value
            /\ ~Given(o) /\ InFile(o) => set[o] = FileValue(LastOf(input.file.entries, o))

\* In the loop the program has its keys and its handlers, listens on what its
\* mode asks for (a client does without UDP when the port is taken) and is
\* nobody else than the user it was told to be.
LoopReady ==
    pc = "loop" =>
        /\ keys /\ handlers = {"INT", "TERM", "CHLD"}
        /\ (tcp # {}) = (set.mode # UDP_ONLY)
        /\ udp # {} => set.mode # TCP_ONLY
        /\ IsServer /\ set.mode # TCP_ONLY => udp # {}
        /\ uid = IF set.user = NULL THEN "root" ELSE set.user

\* A program that is started as root never fails to bind for want of rights:
\* the ports are bound before run_as.
BindsAsRoot == cause # "privilege"

\* The plugin and the program meet: where the plugin was told to listen the
\* client connects to, where it was told to connect to the server listens, and
\* it knows the servers.  ss-tunnel and ss-redir do so with one server only,
\* ss-server when its address has no port of its own.
ToldLocal ==
    IF set.plugin # "obfsproxy"
    THEN <<sub.env.vars["SS_LOCAL_HOST"], sub.env.vars["SS_LOCAL_PORT"]>>
    ELSE sub.env.argv[Len(sub.env.argv) - (IF IsServer THEN 2 ELSE 0)]
ToldRemote ==
    IF set.plugin # "obfsproxy"
    THEN <<sub.env.vars["SS_REMOTE_HOST"], sub.env.vars["SS_REMOTE_PORT"]>>
    ELSE sub.env.argv[Len(sub.env.argv) - (IF IsServer THEN 0 ELSE 2)]
Meets ==
    pc = "loop" /\ sub.there /\ (Prog \in {"ss-local", "ss-server"} \/ Len(set.server) = 1) =>
        /\ ToldRemote = <<[i \in 1..Len(set.server) |-> set.server[i].host], set.server_port>>
        /\ \A i \in 1..Len(remotes) : <<remotes[i].host, remotes[i].port>> = ToldLocal
        /\ IsServer /\ (\A i \in 1..Len(set.server) : set.server[i].port = NULL) =>
              \A l \in tcp : <<l.addr.host, l.addr.port>> = ToldLocal

\* stop_plugin leaves nothing behind: when the program ends by itself, the
\* plugin was waited for, whether it obeys SIGTERM, ignores it, was stopped or
\* died first.
PluginGone == pc = "ended" => child.state \in {"none", "reaped"}

\* No end of a pipe is left: not in the program, and not in the plugin, which
\* would never see the end of its input if it held the other end itself.
PipesClosed ==
    /\ pc = "ended" => sub.ends = {}
    /\ child.state \in {"running", "stopped"} => child.ends = {<<"in", "r">>}

\* ss-server has its handlers before it starts the plugin and cannot miss the
\* plugin's death.  The clients can, if the plugin dies at once.
ServerMissesNothing == IsServer => ~child.missed

\* A plugin that dies while the program runs takes it along.
DeathNoticed == (pc = "loop" /\ child.state = "zombie" /\ ~child.missed) ~> pc \in Gone

\* A program that is told to stop does stop, also when its plugin ignores
\* SIGTERM.
Stops == (pc = "loop" /\ pending \intersect {"INT", "TERM"} # {}) ~> pc \in Gone

\* A program that comes up has the options it was given and, in the loop, all it
\* needs; it binds its ports while it still has the rights.
ComesUp == StartupTypeOK /\ OptionsExact /\ BindsAsRoot /\ LoopReady

\* Nothing of the plugin is left when the program has ended, no end of a pipe is
\* left open, and ss-server cannot miss the death of its plugin.
NothingLeft == PluginGone /\ PipesClosed /\ ServerMissesNothing

\* A program that is told to stop, or whose plugin died, does stop.
ProgramStops == Stops /\ DeathNoticed
=============================================================================
