------------------------- MODULE MCManagerCommands -------------------------
(* ManagerCommands with a few command lines, files and datagrams.  The bins  *)
(* are doubled when a third port is added.  The buffer is so small that two  *)
(* entries of list do not fit, and one large number is too much for ping.    *)
EXTENDS ManagerCommands

MCAtoi == [t \in {"8381", "8382", "8383", "08381"} |->
            CASE t = "8382" -> 8382 [] t = "8383" -> 8383 [] OTHER -> 8381]
MCHash(t) == CASE t = "8381" -> 1 [] t = "8382" -> 2 [] t = "8383" -> 3 [] OTHER -> 4
MCDigits == [n \in {0, 7, 99} |-> IF n = 99 THEN 20 ELSE 1]

Name == [NoText EXCEPT !.name = "a"]
V6 == [name |-> "v6", ip |-> TRUE, colons |-> 2, bracketed |-> FALSE, closed |-> FALSE, after |-> "1"]
In(as, f, p, l) == [args |-> as, file |-> f, pidfile |-> p, left |-> l]
NotThere == [state |-> "none", entries |-> << >>]
File(es) == [state |-> "object", entries |-> es]
Ports(ps) == [name |-> "port_password", value |-> [type |-> "object", v |-> ps]]
P(port, pw) == [port |-> port, value |-> [type |-> "string", v |-> pw]]

Unit == <<Arg("mode", TCP_AND_UDP), Arg("manager_address", "h:6001"), Arg("workdir", "dir"), Arg("server", Name),
          Arg("method", "aes")>>
Three == Ports(<<P("8381", "a"), P("8382", "b"), P("8383", "c")>>)
Everything ==
    <<Item("server", "array", <<[type |-> "string", v |-> Name], [type |-> "string", v |-> V6]>>),
      Item("timeout", "integer", 5), Item("user", "string", "nobody"), Item("fast_open", "boolean", 1),
      Item("no_delay", "boolean", 1), Item("reuse_port", "boolean", 1), Item("nameserver", "string", "ns"),
      Item("mode", "string", "udp_only"), Item("mtu", "integer", 9), Item("plugin", "string", "p"),
      Item("plugin_opts", "string", "o"), Item("ipv6_first", "boolean", 1), Item("acl", "string", "rules"),
      Item("nofile", "integer", 3), Item("workdir", "string", "")>>

MCInputs ==
    <<In(Unit, NotThere, "none", "8381"),
      In(Unit, File(<<Three>>), "outside", NULL),
      In(<<Arg("iface", "eth"), Arg("password", "unused")>>, File(Everything), "none", NULL),
      In(<< >>, File(<<Three, Ports(<<P("8381", "a"), P("8381", "b")>>)>>), "inside", "8382"),
      In(<< >>, File(<<Ports(<<[port |-> "8381", value |-> [type |-> "integer", v |-> 1]], P("8382", "b")>>)>>),
         "none", NULL),
      In(<<Arg("help", 0)>>, NotThere, "none", NULL), In(<<Arg("auth", 0)>>, NotThere, "none", NULL),
      In(<<Arg("key", "k")>>, NotThere, "none", NULL), In(<< >>, NoFile, "none", NULL)>>

Cmd(act, state, es) == [act |-> act, spaced |-> TRUE, large |-> FALSE, data |-> [state |-> state, entries |-> es]]
Port(t) == Item("server_port", "string", t)
Pass(t) == Item("password", "string", t)
MCCommands ==
    <<Cmd("add", "object", <<Port("8381"), Pass("x")>>),
      Cmd("add", "object", <<Item("server_port", "integer", 8382), Pass("y"), Item("method", "string", "rc4"),
                             Item("mode", "string", "tcp_only"), Item("fast_open", "boolean", 0)>>),
      Cmd("add", "object", <<Port("8383"), Pass("z"), Item("plugin", "string", ""), Item("plugin_opts", "string", "q"),
                             Item("no_delay", "boolean", 1), Item("mode", "string", "both")>>),
      Cmd("add", "object", <<Port("08381"), Pass("x")>>),
      Cmd("add", "object", <<Port("8381"), Item("name", "string", "n"), Pass("x")>>),
      [Cmd("add", "object", <<Port("8381"), Pass("x")>>) EXCEPT !.spaced = FALSE],
      Cmd("remove", "object", <<Port("8381")>>), Cmd("remove", "other", << >>), Cmd("remove", "none", << >>),
      Cmd("list", "none", << >>), Cmd("ping", "none", << >>),
      Cmd("stat", "object", <<Item("8381", "integer", 99)>>), Cmd("stat", "object", <<Item("8382", "integer", 99)>>),
      Cmd("stat", "object", <<Item("8383", "string", "7")>>), Cmd("stat", "broken", << >>),
      Cmd("set_ip", "object", <<Port("8381"), Item("ip", "string", "i")>>), Cmd("set_ip", "object", <<Port("8381")>>),
      Cmd("clear_ip", "object", <<Port("8381")>>), Cmd("clear_ip", "broken", << >>),
      Cmd("ip_status", "object", <<Port("8381")>>), Cmd("ip_status", "object", <<Item("server_port", "null", NULL)>>),
      [Cmd("list", "none", << >>) EXCEPT !.large = TRUE], Cmd("", "none", << >>)>>
=============================================================================
