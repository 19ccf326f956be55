------------------------------- MODULE Plugin -------------------------------
(***************************************************************************)
(* The SIP003 plugin host (plugin.c): a plugin runs beside the program     *)
(* and carries its TCP connections.  On the client side it listens where   *)
(* the program connects to; on the server side it takes the public port    *)
(* and connects to the program.                                            *)
(***************************************************************************)
EXTENDS Subprocess, Config

CONSTANT Environ    \* the environment of the program: names and values

\* start_ss_plugin: the addresses are in the environment.
SsPlugin(plugin, opts, hosts, rport, lhost, lport) ==
    [argv |-> <<plugin>>,
     vars |-> [n \in DOMAIN Environ \union {"SS_REMOTE_HOST", "SS_REMOTE_PORT", "SS_LOCAL_HOST", "SS_LOCAL_PORT"}
                       \union (IF opts = NULL THEN {} ELSE {"SS_PLUGIN_OPTIONS"}) |->
                 CASE n = "SS_REMOTE_HOST" -> hosts
                   [] n = "SS_REMOTE_PORT" -> rport
                   [] n = "SS_LOCAL_HOST" -> lhost
                   [] n = "SS_LOCAL_PORT" -> lport
                   [] n = "SS_PLUGIN_OPTIONS" /\ opts # NULL -> opts
                   [] n = "PATH" -> <<"cwd", Environ[n]>>
                   [] OTHER -> Environ[n]]]

\* Mutant of Obfsproxy: the destination has the port of the program.
ObfsproxyOnePort(plugin, opts, hosts, rport, lhost, lport, mode) ==
    [argv |-> <<plugin, "--data-dir">> \o (IF opts = NULL THEN << >> ELSE <<opts>>)
                \o (IF mode = "client" THEN <<"--dest", <<hosts, lport>>, "client", <<lhost, lport>>>>
                                       ELSE <<"--dest", <<lhost, lport>>, "server", <<hosts, lport>>>>),
     vars |-> [n \in DOMAIN Environ |-> IF n = "PATH" THEN <<"cwd", Environ[n]>> ELSE Environ[n]]]

\* start_obfsproxy: they are parameters, the destination first and then where
\* to listen.
Obfsproxy(plugin, opts, hosts, rport, lhost, lport, mode) ==
    [argv |-> <<plugin, "--data-dir">> \o (IF opts = NULL THEN << >> ELSE <<opts>>)
                \o (IF mode = "client" THEN <<"--dest", <<hosts, rport>>, "client", <<lhost, lport>>>>
                                       ELSE <<"--dest", <<lhost, lport>>, "server", <<hosts, rport>>>>),
     vars |-> [n \in DOMAIN Environ |-> IF n = "PATH" THEN <<"cwd", Environ[n]>> ELSE Environ[n]]]

\* start_plugin returns what cork_subprocess_start returns; an empty name
\* starts nothing.
PluginExec(plugin, opts, hosts, rport, lhost, lport, mode) ==
    IF plugin = "obfsproxy" THEN Obfsproxy(plugin, opts, hosts, rport, lhost, lport, mode)
    ELSE SsPlugin(plugin, opts, hosts, rport, lhost, lport)

StartNothing(plugin) == plugin = "" /\ UNCHANGED subVars
StartFails(plugin, exec) ==
    plugin # "" /\ (PipeFails(NewExec(exec, {})) \/ ForkFails(NewExec(exec, {})))
StartWorks(plugin, exec, me, handlers) == plugin # "" /\ Forks(NewExec(exec, {}), me, handlers)

\* is_plugin_running says whether the plugin was waited for.
IsPluginRunning == sub.there /\ IsFinished(sub)

\* The plugin ends of its own accord, when its stdin ends, or because the
\* program cannot be executed.
PluginEnds(code, unseen) == child.state \in {"forked", "running"} /\ child' = Died(child, code, unseen)
\* ... or because of a signal.
PluginKilled(unseen) ==
    /\ \/ child.state \in {"forked", "running", "stopped"} /\ child.kill
       \/ child.state = "forked" /\ child.term
       \/ child.state = "running" /\ child.term /\ ~child.stubborn
    /\ child' = Died(child, 0, unseen)
PluginStops == child.state = "running" /\ child' = [child EXCEPT !.state = "stopped"]
PluginContinues == child.state = "stopped" /\ child' = [child EXCEPT !.state = "running"]
=============================================================================
