----------------------------- MODULE MCStartup -----------------------------
(* Startup with a base of options on the command line or in the file and one *)
(* or two more on either side.                                               *)
EXTENDS Startup

Text(name, ip, colons, bracketed, closed, after) ==
    [name |-> name, ip |-> ip, colons |-> colons, bracketed |-> bracketed, closed |-> closed, after |-> after]
Name == Text("a", FALSE, 0, FALSE, FALSE, "")
NamePort == Text("b", FALSE, 1, FALSE, FALSE, "443")
V6 == Text("v6", TRUE, 2, FALSE, FALSE, "1")
V6Port == Text("v6", FALSE, 3, TRUE, TRUE, "443")
V6Bracketed == Text("v6", FALSE, 2, TRUE, FALSE, "1]")

Arg(n, v) == [name |-> n, value |-> v]
Json(t, v) == [type |-> t, v |-> v]
String(v) == Json("string", v)
Ent(n, v) == [name |-> n, value |-> v]

BaseArgs(p) == <<Arg("server", Name), Arg("server_port", "80"), Arg("password", "k")>>
    \o (IF p = "ss-server" THEN << >> ELSE <<Arg("local_port", "80")>>)
    \o (IF p = "ss-tunnel" THEN <<Arg("tunnel_address", NamePort)>> ELSE << >>)
BaseEntries == <<Ent("server", Json("array", <<String(Name), String(V6Port)>>)), Ent("server_port", Json("integer", 80)),
                 Ent("local_port", String("1080")), Ent("password", String("k")),
                 Ent("tunnel_address", String(NamePort))>>

NoFile == [state |-> "none", entries |-> << >>]
File(es) == [state |-> "object", entries |-> es]
In(p, as, f) == [prog |-> p, args |-> as, file |-> f]

\* Command lines that matter to the steps: plugins, users, a pid file; modes.
Plugins == << << >>, <<Arg("plugin", "p")>>, <<Arg("plugin", "obfsproxy"), Arg("plugin_opts", "o")>>,
              <<Arg("plugin", "p"), Arg("user", "nobody")>>, <<Arg("plugin", "p"), Arg("pid_file", "f")>>,
              <<Arg("plugin", "")>> >>
Ways == << << >>, <<Arg("mode", TCP_AND_UDP), Arg("user", "nobody")>>, <<Arg("mode", UDP_ONLY)>> >>

\* A second server of any shape, with and without a plugin.
Shapes == <<NamePort, V6, V6Port, V6Bracketed>>

\* Options given here, there, twice, wrongly or not at all.
Extras == << << >>, <<Arg("timeout", "5")>>, <<Arg("method", "none")>>, <<Arg("mtu", 1)>>, <<Arg("mtu", 1), Arg("mtu", 0)>>,
             <<Arg("acl", "unreadable")>>,
             <<Arg("tcp_incoming_sndbuf", 1), Arg("tcp_incoming_rcvbuf", 9)>>, <<Arg("help", 0)>>, <<Arg("auth", 0)>>,
             <<Arg("no_delay", 1)>>, <<Arg("unknown", 0)>> >>
MoreEntries ==
    << << >>, <<Ent("timeout", Json("integer", 7))>>, <<Ent("timeout", String("7")), Ent("timeout", String("8"))>>,
       <<Ent("method", Json("boolean", 1))>>, <<Ent("mtu", String("2"))>>, <<Ent("mtu", Json("integer", 2))>>,
       <<Ent("mode", String("udp_only")), Ent("mode", String("both"))>>, <<Ent("mode", Json("null", NULL))>>,
       <<Ent("plugin", String(""))>>, <<Ent("plugin", String("p")), Ent("plugin_opts", String("o"))>>,
       <<Ent("no_delay", Json("boolean", 1)), Ent("no_delay", Json("boolean", 0))>>, <<Ent("auth", Json("boolean", 0))>>,
       <<Ent("server", Json("array", << >>))>>, <<Ent("server", String(NamePort))>>,
       <<Ent("server", Json("array", <<Json("null", NULL), Json("integer", 3), String(Name)>>))>>,
       <<Ent("dscp", Json("object", <<[port |-> "81", value |-> String(<<"AF", 4, 1>>)],
                                     [port |-> "82", value |-> Json("integer", 3)],
                                     [port |-> "83", value |-> String(<<"CS", 8>>)]>>)),
         Ent("mode", String("tcp_and_udp"))>>,
       <<Ent("dscp", Json("object", <<[port |-> "81", value |-> Json("null", NULL)],
                                     [port |-> "82", value |-> String(<<"CS", 3>>)]>>))>> >>
BadFiles == <<[state |-> "missing", entries |-> << >>], [state |-> "array", entries |-> << >>],
              File(<<Ent("server", String(Name))>>), File(<<Ent("workdir", String("w"))>>)>>

Index == {"started"} \X Programs \X (1..Len(Plugins)) \X (1..Len(Ways))
           \union {"several"} \X Programs \X (1..Len(Shapes)) \X (1..2)
           \union {"filed"} \X Programs \X (1..Len(Extras)) \X (1..Len(MoreEntries))
           \union {"bad"} \X Programs \X (1..Len(BadFiles)) \X {1}
MCInputs ==
    [x \in Index |->
        CASE x[1] = "started" -> In(x[2], BaseArgs(x[2]) \o Plugins[x[3]] \o Ways[x[4]], NoFile)
          [] x[1] = "several" -> In(x[2], BaseArgs(x[2]) \o <<Arg("server", Shapes[x[3]])>> \o Plugins[x[4]], NoFile)
          [] x[1] = "filed" -> In(x[2], Extras[x[3]], File(BaseEntries \o MoreEntries[x[4]]))
          [] OTHER -> In(x[2], << >>, BadFiles[x[3]])]
MCEnviron == [PATH |-> "path", SS_LOCAL_HOST |-> "outer"]
=============================================================================
