------------------------------- MODULE Config -------------------------------
(***************************************************************************)
(* What a program is told: the arguments of the command line (the loops    *)
(* over getopt_long in the main functions) and the configuration file      *)
(* (jconf.c).  An argument or an entry of the file is a record of a name   *)
(* and a value.  Both give a table of the options, in which NULL, 0 and    *)
(* the empty sequence mean "not given".                                    *)
(*                                                                         *)
(* The text of an address is [name, ip, colons, bracketed, closed, after]: *)
(* name is what is left without brackets and port, ip says whether the     *)
(* whole text is an IP address, closed whether a "]" is in front of the    *)
(* last colon and after is what is behind it.                              *)
(***************************************************************************)
EXTENDS Integers, Sequences, SequencesExt

CONSTANTS
    MaxRemotes,     \* MAX_REMOTE_NUM
    MaxDscp,        \* MAX_DSCP_NUM
    MaxPorts,       \* MAX_PORT_NUM
    SocketBuf       \* SOCKET_BUF_SIZE

ASSUME ConfigAssumption == MaxRemotes \in Nat \ {0} /\ MaxDscp \in Nat \ {0}
                             /\ MaxPorts \in Nat \ {0} /\ SocketBuf \in Nat \ {0}

NULL == "NULL"
TCP_ONLY == 0
TCP_AND_UDP == 1
UDP_ONLY == 3

StringOptions ==
    {"server_port", "local_address", "local_port", "password", "key", "method", "timeout", "user",
     "plugin", "plugin_opts", "acl", "nameserver", "manager_address", "workdir"}
SizeOptions == {"tcp_incoming_sndbuf", "tcp_incoming_rcvbuf", "tcp_outgoing_sndbuf", "tcp_outgoing_rcvbuf"}
IntegerOptions == SizeOptions \union {"mtu", "nofile"}
BooleanOptions == {"fast_open", "reuse_port", "no_delay", "mptcp", "ipv6_first", "tcp_tproxy"}
Options == StringOptions \union IntegerOptions \union BooleanOptions
             \union {"server", "mode", "tunnel_address", "dscp", "port_password", "iface"}

\* memset in read_jconf and the initialisers in main
NoText == [name |-> NULL, ip |-> FALSE, colons |-> 0, bracketed |-> FALSE, closed |-> FALSE, after |-> ""]
NotGiven(o) ==
    CASE o \in StringOptions \union {"iface"} -> NULL
      [] o \in {"server", "dscp", "port_password"} -> << >>
      [] o = "tunnel_address" -> NoText
      [] OTHER -> 0
Nothing == [o \in Options |-> NotGiven(o)]

-----------------------------------------------------------------------------
(* Addresses and code points *)

Address(h, p) == [host |-> h, port |-> p]

\* A text with several colons that is no address loses its first and its last
\* character, as if they were brackets.
ParseAddr(t) ==
    IF t.ip \/ t.colons = 0 THEN Address(t.name, NULL)
    ELSE IF t.colons > 1 /\ ~t.closed THEN Address(IF t.bracketed THEN t.name ELSE "stripped", NULL)
    ELSE Address(t.name, IF t.after = "" THEN NULL ELSE t.after)

\* The text of a code point is <<"EF">>, <<"CS", x>>, <<"AF", x, y>> or <<"number", n>>.
ParseDscp(t) ==
    CASE t[1] = "EF" -> 46
      [] t[1] = "CS" /\ t[2] \in 0..7 -> t[2] * 8
      [] t[1] = "AF" /\ t[2] \in 1..4 /\ t[3] \in 1..3 -> t[2] * 8 + t[3] * 2
      [] t[1] = "number" /\ t[2] \in 0..63 -> t[2]
      [] OTHER -> 0

-----------------------------------------------------------------------------
(* The configuration file: entries of a name and a typed value, in order *)

IsText(v) == v.type \in {"string", "integer", "null"}
ToText(v) == IF v.type = "string" THEN v.v ELSE IF v.type = "integer" THEN ToString(v.v) ELSE NULL

\* The slots of an array that are null keep what they held, which is nothing
\* in the first array.
Servers(old, vs) ==
    [j \in 1..(IF Len(vs) < MaxRemotes THEN Len(vs) ELSE MaxRemotes) |->
        IF vs[j].type = "string" THEN ParseAddr(vs[j].v)
        ELSE IF vs[j].type = "integer" THEN Address(ToString(vs[j].v), NULL)
        ELSE IF j <= Len(old) THEN old[j] ELSE Address(NULL, NULL)]

\* An entry of a table whose value is not a string leaves a hole behind it.
Strings(vs, max) == {j \in 1..Len(vs) : j <= max /\ vs[j].value.type = "string"}
LastString(js) == IF js = {} THEN 0 ELSE CHOOSE m \in js : \A k \in js : k <= m
DscpTable(vs) ==
    [j \in 1..LastString(Strings(vs, MaxDscp)) |->
        IF vs[j].value.type = "string" THEN [port |-> vs[j].port, dscp |-> ParseDscp(vs[j].value.v)]
        ELSE [port |-> NULL, dscp |-> 0]]
PortPassword(vs) ==
    [j \in 1..LastString(Strings(vs, MaxPorts)) |->
        IF vs[j].value.type = "string" THEN [port |-> vs[j].port, password |-> vs[j].value.v]
        ELSE [port |-> NULL, password |-> NULL]]

Mode(v, old) ==
    CASE ToText(v) \in {NULL, "tcp_only"} -> TCP_ONLY
      [] ToText(v) = "tcp_and_udp" -> TCP_AND_UDP
      [] ToText(v) = "udp_only" -> UDP_ONLY
      [] OTHER -> old

\* Whether the entry lets read_jconf go on.
WellTyped(e) ==
    CASE e.name \in StringOptions \union {"mode", "tunnel_address"} -> IsText(e.value)
      [] e.name \in IntegerOptions -> e.value.type = "integer"
      [] e.name \in BooleanOptions -> e.value.type = "boolean"
      [] e.name = "server" /\ e.value.type = "array" ->
            \A j \in 1..Len(e.value.v) : j <= MaxRemotes => IsText(e.value.v[j])
      [] e.name = "auth" -> FALSE
      [] OTHER -> TRUE

\* What the entry sets, one branch of the chain over the names.
Entry(conf, e) ==
    CASE e.name = "plugin" -> [conf EXCEPT !.plugin = IF ToText(e.value) = "" THEN NULL ELSE ToText(e.value)]
      [] e.name \in StringOptions \ {"plugin"} -> [conf EXCEPT ![e.name] = ToText(e.value)]
      [] e.name \in IntegerOptions \union BooleanOptions -> [conf EXCEPT ![e.name] = e.value.v]
      [] e.name = "mode" -> [conf EXCEPT !.mode = Mode(e.value, @)]
      [] e.name = "tunnel_address" ->
            [conf EXCEPT !.tunnel_address = IF e.value.type = "string" THEN e.value.v
                                            ELSE [NoText EXCEPT !.name = ToText(e.value)]]
      [] e.name = "server" /\ e.value.type = "array" /\ e.value.v # << >> ->
            [conf EXCEPT !.server = Servers(@, e.value.v)]
      [] e.name = "server" /\ e.value.type = "string" -> [conf EXCEPT !.server = <<ParseAddr(e.value.v)>>]
      [] e.name = "dscp" /\ e.value.type = "object" -> [conf EXCEPT !.dscp = DscpTable(e.value.v)]
      [] e.name = "port_password" /\ e.value.type = "object" ->
            [conf EXCEPT !.port_password = PortPassword(e.value.v)]
      [] OTHER -> conf

\* read_jconf of a file that is there and holds an object; FATAL otherwise.
Readable(file) == file.state = "object" /\ \A j \in 1..Len(file.entries) : WellTyped(file.entries[j])
ReadJconf(file) ==
    LET conf[k \in 0..Len(file.entries)] == IF k = 0 THEN Nothing ELSE Entry(conf[k - 1], file.entries[k])
    IN  conf[Len(file.entries)]

-----------------------------------------------------------------------------
(* The command line *)

\* -s adds an address, -u and -U choose a mode, the others set their option;
\* a list of rules counts as given when init_acl could load it.
Argument(cmd, a) ==
    CASE a.name = "server" ->
            IF Len(cmd.server) < MaxRemotes THEN [cmd EXCEPT !.server = Append(@, ParseAddr(a.value))] ELSE cmd
      [] a.name = "acl" -> [cmd EXCEPT !.acl = IF a.value = "unreadable" THEN NULL ELSE a.value]
      [] a.name \in Options \ {"server", "dscp", "port_password", "acl"} -> [cmd EXCEPT ![a.name] = a.value]
      [] OTHER -> cmd
CommandLine(args) ==
    LET cmd[k \in 0..Len(args)] == IF k = 0 THEN Nothing ELSE Argument(cmd[k - 1], args[k])
    IN  cmd[Len(args)]

\* Mutant of Fill: the file wins.
FillFileFirst(cmd, conf, takes) ==
    [o \in Options |-> IF o \in takes /\ conf[o] # NotGiven(o) THEN conf[o] ELSE cmd[o]]

\* The file fills in what the command line left out.
Fill(cmd, conf, takes) == [o \in Options |-> IF o \in takes /\ cmd[o] = NotGiven(o) THEN conf[o] ELSE cmd[o]]

\* Buffers below SOCKET_BUF_SIZE are left to the system.
Sizes(s) == [o \in Options |-> IF o \in SizeOptions /\ s[o] < SocketBuf THEN 0 ELSE s[o]]
Default(s, o, value) == IF s[o] = NULL THEN [s EXCEPT ![o] = value] ELSE s
Keyed(s) == s.password # NULL \/ s.key # NULL

-----------------------------------------------------------------------------
(* What the programs know, take from the file and cannot do without; the     *)
(* part of ss-server is here because ss-manager writes for it.               *)

Common == {"server", "server_port", "password", "key", "method", "timeout", "user", "plugin", "plugin_opts",
           "mode", "mtu", "mptcp", "no_delay", "reuse_port", "fast_open", "nofile"} \union SizeOptions
Always == {"pid_file", "auth", "help"}
ServerOptions == Common \union Always \union {"local_address", "ipv6_first", "acl", "nameserver", "iface", "manager_address"}
ServerTakes == Common \union {"local_address", "ipv6_first", "acl", "nameserver"}
ServerCheck(s) == s.server_port # NULL /\ Keyed(s)
=============================================================================
