---------------------------- MODULE ClientRelay ----------------------------
(***************************************************************************)
(* The TCP side of a client program: ss-local, ss-tunnel or ss-redir with  *)
(* the connections of its event loop, which calls one callback at a time,  *)
(* of any watcher that runs.  The connections share the setting fast_open, *)
(* which is turned off for all when the kernel refuses it to one.          *)
(***************************************************************************)
EXTENDS LocalRelay, TunnelRelay, RedirRelay

CONSTANT Conn   \* places for connections: the number that exist at a time

ASSUME ConnAssumption == IsFiniteSet(Conn)

VARIABLES
    program,   \* which of the three programs runs
    fastOpen,  \* fast_open
    conn       \* the connection at each place

vars == <<program, fastOpen, conn>>

Program == {"local", "tunnel", "redir"}

Init ==
    /\ program \in Program
    /\ fastOpen \in BOOLEAN
    /\ conn = [c \in Conn |-> NoConn]

Becomes(c, S) ==
    /\ \E k \in S : conn' = [conn EXCEPT ![c] = k]
    /\ UNCHANGED <<program, fastOpen>>

-----------------------------------------------------------------------------
(* The callbacks, as each program defines them *)

Accept(c) ==
    /\ conn[c] = NoConn
    /\ Becomes(c, CASE program = "local"  -> LocalAccept
                    [] program = "tunnel" -> TunnelAccept(fastOpen)
                    [] program = "redir"  -> RedirAccept(fastOpen))

ServerRecv(c) ==
    /\ On(conn[c], "serverRecv")
    /\ Becomes(c, CASE program = "local"  -> LocalServerRecv(conn[c], fastOpen)
                    [] program = "tunnel" -> TunnelServerRecv(conn[c])
                    [] program = "redir"  -> RedirServerRecv(conn[c]))

ServerSend(c) ==
    /\ On(conn[c], "serverSend")
    /\ Becomes(c, CASE program = "local"  -> LocalServerSend(conn[c])
                    [] program = "tunnel" -> TunnelServerSend(conn[c])
                    [] program = "redir"  -> RedirServerSend(conn[c]))

RemoteRecv(c) ==
    /\ On(conn[c], "remoteRecv")
    /\ Becomes(c, CASE program = "local"  -> LocalRemoteRecv(conn[c])
                    [] program = "tunnel" -> TunnelRemoteRecv(conn[c])
                    [] program = "redir"  -> RedirRemoteRecv(conn[c]))

RemoteSend(c) ==
    /\ On(conn[c], "remoteSend")
    /\ Becomes(c, CASE program = "local"  -> LocalRemoteSend(conn[c])
                    [] program = "tunnel" -> TunnelRemoteSend(conn[c])
                    [] program = "redir"  -> RedirRemoteSend(conn[c]))

ConnectTimeout(c) ==
    /\ On(conn[c], "connectTimer")
    /\ Becomes(c, CASE program = "local"  -> LocalTimeout(conn[c])
                    [] program = "tunnel" -> TunnelTimeout(conn[c])
                    [] program = "redir"  -> RedirTimeout(conn[c]))

DelayedConnect(c) ==
    /\ On(conn[c], "delayTimer")
    /\ Becomes(c, IF program = "local" THEN LocalDelayed(conn[c], fastOpen) ELSE RedirDelayed(conn[c]))

\* The kernel refuses a fast open.  ss-local tries one when it connects, the
\* others when they write for the first time.
FastOpenRefused(c) ==
    /\ fastOpen
    /\ IF program = "local"
       THEN /\ conn[c].on \cap {"serverRecv", "delayTimer"} # {}
            /\ conn[c].mark \cap {"connected", "direct"} = {}
       ELSE On(conn[c], "remoteSend") /\ Is(conn[c], "addr")
    /\ fastOpen' = FALSE
    /\ conn' = [conn EXCEPT ![c] = CASE program = "local"  -> LocalHungUp(conn[c])
                                     [] program = "tunnel" -> TunnelHungUp(conn[c])
                                     [] program = "redir"  -> RedirHungUp(conn[c])]
    /\ UNCHANGED program

\* A signal ends the program: ss-local frees its connections, the others leave
\* them to the exit.  It is started again with the setting it had or another.
Restart ==
    /\ conn' = [c \in Conn |-> IF program = "local" THEN LocalShutDown(conn[c]) ELSE NoConn]
    /\ fastOpen' \in BOOLEAN
    /\ UNCHANGED program

Next ==
    \/ \E c \in Conn : \/ Accept(c)
                       \/ ServerRecv(c) \/ ServerSend(c) \/ RemoteRecv(c) \/ RemoteSend(c)
                       \/ ConnectTimeout(c) \/ DelayedConnect(c) \/ FastOpenRefused(c)
    \/ Restart

\* The kernel takes all data in the end or reports an error.
RemoteSendEnds(c) == RemoteSend(c) /\ conn'[c].up = {}

Spec == Init /\ [][Next]_vars /\ \A c \in Conn : WF_vars(RemoteSendEnds(c)) /\ WF_vars(DelayedConnect(c))

-----------------------------------------------------------------------------
(* Properties *)

\* Types of the connection records, after local.h, tunnel.h and redir.h; where
\* the objects were freed nothing is left, a socket nobody closed excepted.
TypeOK ==
    /\ program \in Program
    /\ fastOpen \in BOOLEAN
    /\ conn \in [Conn -> State]
    /\ \A c \in Conn : conn[c].heap = {} => conn[c] \in {NoConn, Mark(NoConn, {"leaked"})}

\* No watcher runs and no pointer is kept for a server or a remote that was
\* freed, whichever callback freed it; a remote is never left without server.
NoDangling ==
    \A c \in Conn : LET k == conn[c]
        IN  /\ k.on \cap {"serverRecv", "serverSend", "delayTimer"} # {} => Has(k, "server")
            /\ k.on \cap {"remoteRecv", "remoteSend", "connectTimer"} # {} => Has(k, "remote")
            /\ k.ptr # {} => k.heap = Object
            /\ Has(k, "remote") => k.ptr = Pointer

\* Every callback finds what it takes for granted: a remote to read into
\* (server_recv_cb of ss-redir), an empty buffer for the header (the assertion
\* in remote_send_cb of ss-tunnel), a destination for the delayed connect, and
\* something to send, without which it would close the connection.
HandlersReady ==
    \A c \in Conn : LET k == conn[c]
        IN  /\ On(k, "serverRecv") /\ (program # "local" \/ k.stage = "STREAM") => Points(k, "server.remote")
            /\ program = "tunnel" /\ On(k, "remoteSend") /\ ~Is(k, "connected") => k.up = {}
            /\ On(k, "delayTimer") => Points(k, "server.remote") /\ ~Is(k, "connected") /\ ~On(k, "remoteSend")
            /\ On(k, "delayTimer") /\ program = "redir" => Is(k, "addr")
            /\ On(k, "remoteSend") /\ Is(k, "connected") => k.up # {}
            /\ On(k, "serverSend") => k.down

\* The callbacks stop and start each other's watchers by hand.  A connection
\* always has a watcher that carries it on: one that reads or writes for each
\* direction once it is connected, and before that one that connects it.  The
\* exceptions are a delayed connect that a read without data called off, and
\* ss-redir's first write that the kernel had no room for.
NoStall ==
    \A c \in Conn : LET k == conn[c]
        IN  k.heap # {} =>
            /\ Is(k, "connected") => /\ On(k, "remoteRecv") # On(k, "serverSend")
                                     /\ On(k, "serverRecv") # On(k, "remoteSend") \/ Is(k, "stranded")
            /\ ~Is(k, "connected") => /\ k.on \cap {"serverRecv", "remoteSend"} # {}
                                      /\ Has(k, "remote") => \/ k.on \cap {"remoteSend", "delayTimer"} # {}
                                                             \/ Is(k, "calledOff")
            /\ k.up # {} => On(k, "remoteSend") \/ Is(k, "stranded")
            /\ k.down => On(k, "serverSend")

\* What a connection has in remote->buf is sent in the end, or the connection
\* with it is closed.
Delivered ==
    \A c \in Conn : conn[c].up # {} ~> (conn[c].up = {} \/ Is(conn[c], "stranded"))

\* A connection as the abstract relay sees it.  A buffer that was read into
\* before it was sent is neither empty nor full there, and a connection that
\* has not had exactly one header is not open.
RelayPhase(k) ==
    IF k.heap = {} THEN "none" ELSE IF ~Is(k, "connected") THEN "asked"
    ELSE IF k.heads = (IF Is(k, "direct") THEN 0 ELSE 1) THEN "open" ELSE "astray"

RelayUp(k)   == IF Is(k, "garbled") THEN "garbled" ELSE IF k.up = {} THEN "empty" ELSE "full"
RelayDown(k) == IF Is(k, "garbled") THEN "garbled" ELSE IF k.down THEN "full" ELSE "empty"

\* The abstract relay, for the connection at place c.
R(c) == INSTANCE Relay WITH
    phase <- RelayPhase(conn[c]), up <- RelayUp(conn[c]), down <- RelayDown(conn[c])

\* Each of the three programs implements the abstract relay, on every one of
\* its connections: nothing overtakes or overwrites, and the address header
\* comes once, before everything else.
RelayKept ==
    /\ \A c \in Conn : R(c)!Init
    /\ [][\A c \in Conn : R(c)!Next \/ UNCHANGED R(c)!vars]_vars

\* No callback meets freed memory or misses what it takes for granted, and no
\* connection is left without a watcher that carries it on.
CallbacksSafe == TypeOK /\ NoDangling /\ HandlersReady /\ NoStall
=============================================================================
