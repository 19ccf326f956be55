------------------------------ MODULE TcpRelay ------------------------------
(***************************************************************************)
(* A TCP connection of ss-server: the callbacks of the event loop between  *)
(* a client and the host it asked for.                                     *)
(*                                                                         *)
(* A connection is up to three objects that point at each other and are    *)
(* freed apart: the server (the client's side), the remote (the host's     *)
(* side) and the query of the resolver.  The callbacks start and stop each *)
(* other's watchers instead of blocking, so whether data still flows, and  *)
(* whether a callback finds its objects, depends on every earlier one.     *)
(*                                                                         *)
(* Data is abstracted to whether a buffer still holds something to send.   *)
(* Which clients are accepted is the matter of IpLock, what decryption     *)
(* accepts that of AeadReplay.                                             *)
(***************************************************************************)
EXTENDS Integers, FiniteSets

CONSTANTS
    Conn,
    IdleTimer   \* BOOLEAN: the idle timers run, that is, there is no IP lock

ASSUME TcpRelayAssumption == IdleTimer \in BOOLEAN

Object  == {"server", "remote", "query"}
Pointer == {"server.remote", "remote.server", "server.query", "query.server"}
Watcher == {"serverRecv", "serverSend", "remoteRecv", "remoteSend", "timer"}
Stage   == {"INIT", "RESOLVE", "STREAM", "STOP"}

\* `up' is remote->buf and `down' server->buf with something left to send.
\* connected is that of remote->send_ctx; a garbled connection has received
\* into a buffer that was not sent yet.
State == [heap : SUBSET Object, ptr : SUBSET Pointer, on : SUBSET Watcher, stage : Stage,
          unsent : SUBSET {"up", "down"}, mark : SUBSET {"connected", "garbled"}]

NoConn == [heap |-> {}, ptr |-> {}, on |-> {}, stage |-> "INIT", unsent |-> {}, mark |-> {}]

VARIABLE conn

vars == <<conn>>

Has(k, x) == x \in k.heap
Points(k, x) == x \in k.ptr
On(k, x) == x \in k.on

If(b, S) == IF b THEN S ELSE {}

-----------------------------------------------------------------------------
(* Freeing *)

\* Mutant of ClosedServer: the query is not told.
ClosedServerQuietly(k) ==
    [k EXCEPT !.heap = k.heap \ {"server"},
              !.ptr  = k.ptr \ ({"server.remote", "server.query"}
                                \cup If(Points(k, "server.remote"), {"remote.server"})),
              !.on   = k.on \ {"serverRecv", "serverSend", "timer"}]

\* close_and_free_server
ClosedServer(k) ==
    [k EXCEPT !.heap = k.heap \ {"server"},
              !.ptr  = k.ptr \ ({"server.remote", "server.query"}
                                \cup If(Points(k, "server.remote"), {"remote.server"})
                                \cup If(Points(k, "server.query"), {"query.server"})),
              !.on   = k.on \ {"serverRecv", "serverSend", "timer"}]

\* close_and_free_remote
ClosedRemote(k) ==
    [k EXCEPT !.heap = k.heap \ {"remote"},
              !.ptr  = k.ptr \ ({"remote.server"}
                                \cup If(Points(k, "remote.server"), {"server.remote"})),
              !.on   = k.on \ {"remoteRecv", "remoteSend"}]

\* Both, as most error paths do.
HungUp(k) == ClosedServer(IF Points(k, "server.remote") THEN ClosedRemote(k) ELSE k)

\* resolv_free_cb
FreedQuery(k) ==
    [k EXCEPT !.heap = k.heap \ {"query"},
              !.ptr  = k.ptr \ ({"query.server"}
                                \cup If(Points(k, "query.server"), {"server.query"}))]

-----------------------------------------------------------------------------
(* Opening *)

\* new_server, and what accept_cb starts.
Accepted ==
    [NoConn EXCEPT !.heap = {"server"}, !.on = {"serverRecv"} \cup If(IdleTimer, {"timer"})]

\* Mutant of Connecting: nobody waits for the connection.
ConnectingSleeps(k, payload) ==
    [k EXCEPT !.heap   = k.heap \cup {"remote"},
              !.ptr    = k.ptr \cup {"server.remote", "remote.server"},
              !.on     = k.on \ {"serverRecv"},
              !.unsent = If(payload, {"up"}),
              !.mark   = k.mark \ {"connected"}]

\* connect_to_remote and what follows it: the rest of the first packet moves to
\* remote->buf, and the remote waits to be connected.
Connecting(k, payload) ==
    [k EXCEPT !.heap   = k.heap \cup {"remote"},
              !.ptr    = k.ptr \cup {"server.remote", "remote.server"},
              !.on     = (k.on \ {"serverRecv"}) \cup {"remoteSend"},
              !.unsent = If(payload, {"up"}),
              !.mark   = k.mark \ {"connected"}]

\* The name is looked up, and the client waits.
Resolving(k) ==
    [k EXCEPT !.heap  = k.heap \cup {"query"},
              !.ptr   = k.ptr \cup {"server.query", "query.server"},
              !.on    = k.on \ {"serverRecv"},
              !.stage = "RESOLVE"]

\* recv into a buffer.
Received(k, b) == [k EXCEPT !.mark = k.mark \cup If(b \in k.unsent, {"garbled"})]

Step(c, k) == conn' = [conn EXCEPT ![c] = k]

-----------------------------------------------------------------------------
(* accept_cb *)

Accept(c) ==
    /\ conn[c].heap = {}
    /\ Step(c, Accepted)

-----------------------------------------------------------------------------
(* server_recv_cb.  It receives into remote->buf in STREAM and into          *)
(* server->buf otherwise.  A packet that is decrypted and sent at once, and  *)
(* one that needs more data, leave everything as it is.                      *)

ServerBuf(k) == IF k.stage = "STREAM" THEN "up" ELSE "down"

\* The client has closed, or recv fails.
ClientCloses(c) ==
    LET k == conn[c]
    IN  /\ On(k, "serverRecv")
        /\ Step(c, IF k.stage = "STREAM" THEN HungUp(k) ELSE ClosedServer(k))

\* Ignore any new packet if the server is stopped.
ServerRecvStopped(c) ==
    LET k == conn[c]
    IN  /\ On(k, "serverRecv") /\ k.stage = "STOP"
        /\ Step(c, Received(k, ServerBuf(k)))

\* A packet that is not authentic, or whose header does not parse.
ServerStop(c) ==
    LET k == conn[c]
    IN  /\ On(k, "serverRecv") /\ k.stage \in {"INIT", "STREAM"}
        /\ Step(c, [Received(k, ServerBuf(k)) EXCEPT !.stage = "STOP"])

\* Mutant of ServerRelayPart: the client is read on while data is unsent.
ServerRelayPartReadsOn(c) ==
    LET k == conn[c]
    IN  /\ On(k, "serverRecv") /\ k.stage = "STREAM"
        /\ Step(c, [Received(k, ServerBuf(k)) EXCEPT !.unsent = k.unsent \cup {"up"},
                                                     !.on = k.on \cup {"remoteSend"}])

\* The host takes only a part, or nothing yet.
ServerRelayPart(c) ==
    LET k == conn[c]
    IN  /\ On(k, "serverRecv") /\ k.stage = "STREAM"
        /\ Step(c, [Received(k, ServerBuf(k)) EXCEPT
                       !.unsent = k.unsent \cup {"up"},
                       !.on     = (k.on \ {"serverRecv"}) \cup {"remoteSend"}])

ServerRelayFails(c) ==
    LET k == conn[c]
    IN  /\ On(k, "serverRecv") /\ k.stage = "STREAM"
        /\ Step(c, HungUp(k))

\* The destination is blocked, or connect fails at once.
Refused(c) ==
    LET k == conn[c]
    IN  /\ On(k, "serverRecv") /\ k.stage = "INIT"
        /\ Step(c, ClosedServer(k))

ConnectTo(c, payload) ==
    LET k == conn[c]
    IN  /\ On(k, "serverRecv") /\ k.stage = "INIT"
        /\ Step(c, Connecting(k, payload))

Query(c) ==
    LET k == conn[c]
    IN  /\ On(k, "serverRecv") /\ k.stage = "INIT"
        /\ Step(c, Resolving(k))

-----------------------------------------------------------------------------
(* resolv_cb, then resolv_free_cb *)

ResolvedLate(c) ==
    LET k == conn[c]
    IN  /\ Has(k, "query") /\ ~Points(k, "query.server")
        /\ Step(c, FreedQuery(k))

\* No address, or connect fails at once.
ResolveFails(c) ==
    LET k == conn[c]
    IN  /\ Has(k, "query") /\ Points(k, "query.server")
        /\ Step(c, FreedQuery(ClosedServer(k)))

Resolved(c, payload) ==
    LET k == conn[c]
    IN  /\ Has(k, "query") /\ Points(k, "query.server")
        /\ Step(c, FreedQuery(Connecting(k, payload)))

-----------------------------------------------------------------------------
(* remote_send_cb and remote_recv_cb *)

\* Not connected after all, or send fails.
RemoteSendFails(c) ==
    LET k == conn[c]
    IN  /\ On(k, "remoteSend")
        /\ Step(c, IF Points(k, "remote.server") THEN HungUp(k) ELSE ClosedRemote(k))

RemoteSendPart(c) ==
    LET k == conn[c]
    IN  /\ On(k, "remoteSend") /\ "up" \in k.unsent
        /\ Step(c, [k EXCEPT !.mark = k.mark \cup {"connected"}])

\* Nothing is left to send: the client is read again, and the stream starts.
Flowing(k) ==
    [k EXCEPT !.stage = "STREAM", !.unsent = k.unsent \ {"up"}, !.mark = k.mark \cup {"connected"},
              !.on = (k.on \ {"remoteSend"}) \cup {"serverRecv"}
                     \cup If(k.stage # "STREAM", {"remoteRecv"})]

\* Connected with nothing to send, or everything is sent.  A connected remote
\* that is called with nothing to send hangs up.
RemoteSendAll(c) ==
    LET k == conn[c]
    IN  /\ On(k, "remoteSend")
        /\ Step(c, IF ~Points(k, "remote.server") THEN ClosedRemote(k)
                   ELSE IF "connected" \in k.mark /\ "up" \notin k.unsent THEN HungUp(k)
                   ELSE Flowing(k))

\* The host has closed, or recv, encryption or send fails, or the remote finds
\* itself without a server.
RemoteEnds(c) ==
    LET k == conn[c]
    IN  /\ On(k, "remoteRecv")
        /\ Step(c, IF Points(k, "remote.server") THEN HungUp(k) ELSE ClosedRemote(k))

\* The client takes only a part, or nothing yet.
RemoteRelayPart(c) ==
    LET k == conn[c]
    IN  /\ On(k, "remoteRecv") /\ Points(k, "remote.server") /\ k.stage # "STOP"
        /\ Step(c, [Received(k, "down") EXCEPT
                       !.unsent = k.unsent \cup {"down"},
                       !.on     = (k.on \ {"remoteRecv"}) \cup {"serverSend"}])

-----------------------------------------------------------------------------
(* server_send_cb and server_timeout_cb *)

ServerSendFails(c) ==
    LET k == conn[c]
    IN  /\ On(k, "serverSend")
        /\ Step(c, HungUp(k))

\* Mutant of ServerSendAll: the host is not read again.
ServerSendAllSleeps(c) ==
    LET k == conn[c]
    IN  /\ On(k, "serverSend")
        /\ Step(c, [k EXCEPT !.unsent = k.unsent \ {"down"}, !.on = k.on \ {"serverSend"}])

ServerSendAll(c) ==
    LET k == conn[c]
    IN  /\ On(k, "serverSend")
        /\ Step(c, IF Points(k, "server.remote") /\ "down" \in k.unsent
                   THEN [k EXCEPT !.unsent = k.unsent \ {"down"},
                                  !.on     = (k.on \ {"serverSend"}) \cup {"remoteRecv"}]
                   ELSE HungUp(k))

TimesOut(c) ==
    LET k == conn[c]
    IN  /\ On(k, "timer")
        /\ Step(c, HungUp(k))

-----------------------------------------------------------------------------
Init == conn = [c \in Conn |-> NoConn]

ServerRecv(c) ==
    \/ ClientCloses(c) \/ ServerRecvStopped(c) \/ ServerStop(c)
    \/ ServerRelayPart(c) \/ ServerRelayFails(c) \/ Refused(c) \/ Query(c)
    \/ \E payload \in BOOLEAN : ConnectTo(c, payload)

Resolv(c) ==
    \/ ResolvedLate(c) \/ ResolveFails(c)
    \/ \E payload \in BOOLEAN : Resolved(c, payload)

Remote(c) ==
    \/ RemoteSendFails(c) \/ RemoteSendPart(c) \/ RemoteSendAll(c)
    \/ RemoteEnds(c) \/ RemoteRelayPart(c)

ServerSend(c) == ServerSendFails(c) \/ ServerSendAll(c)

Next ==
    \E c \in Conn : Accept(c) \/ ServerRecv(c) \/ Resolv(c) \/ Remote(c) \/ ServerSend(c) \/ TimesOut(c)

Spec == Init /\ [][Next]_vars

\* The resolver answers (c-ares gives up after its tries), and a host that is
\* sent data takes it or goes away.
Fairness ==
    \A c \in Conn : /\ WF_vars(Resolv(c))
                    /\ WF_vars(RemoteSendAll(c) \/ RemoteSendFails(c))

FairSpec == Spec /\ Fairness

-----------------------------------------------------------------------------
(* Properties *)

\* The types; and a server has its idle timer as long as it lives, where idle
\* timers run.
TypeOK ==
    /\ conn \in [Conn -> State]
    /\ \A c \in Conn : On(conn[c], "timer") <=> IdleTimer /\ Has(conn[c], "server")

\* Whoever is pointed at is alive and points back, and watchers run for live
\* objects only: no callback of the event loop or of the resolver meets memory
\* that was freed.
Sound(k) ==
    /\ \A p \in {"server.remote", "remote.server"} :
          Points(k, p) <=> Has(k, "server") /\ Points(k, "server.remote") /\ Points(k, "remote.server")
    /\ Points(k, "server.remote") => Has(k, "remote")
    /\ \A p \in {"server.query", "query.server"} :
          Points(k, p) <=> Has(k, "server") /\ Points(k, "server.query") /\ Points(k, "query.server")
    /\ Points(k, "server.query") => Has(k, "query")
    /\ k.on \cap {"serverRecv", "serverSend", "timer"} # {} => Has(k, "server")
    /\ k.on \cap {"remoteRecv", "remoteSend"} # {} => Has(k, "remote")

NoDangling == \A c \in Conn : Sound(conn[c])

\* The callbacks find what they use without asking: server_recv_cb is not
\* called while a name is resolved, which is its `server context error', a
\* stream has its remote, and a writer has something to write, or it would
\* take the connection down.
Expected(k) ==
    /\ On(k, "serverRecv") => k.stage # "RESOLVE"
    /\ Has(k, "server") /\ k.stage = "STREAM" => Points(k, "server.remote")
    /\ On(k, "serverSend") => Points(k, "server.remote") /\ "down" \in k.unsent
    /\ On(k, "remoteSend") => /\ Points(k, "remote.server") /\ k.stage # "STOP"
                              /\ "connected" \in k.mark => "up" \in k.unsent

HandlersReady == \A c \in Conn : Expected(conn[c])

\* Each direction of a connection is driven by exactly one watcher, a reader
\* when its buffer is empty and a writer when it is not, or by the resolver:
\* no data is forgotten in a buffer and no side waits for ever.
Driven(k) ==
    Has(k, "server") =>
        /\ \/ On(k, "serverRecv") /\ ~On(k, "remoteSend") /\ ~Points(k, "server.query") /\ "up" \notin k.unsent
           \/ ~On(k, "serverRecv") /\ On(k, "remoteSend") /\ ~Points(k, "server.query")
           \/ ~On(k, "serverRecv") /\ ~On(k, "remoteSend") /\ Points(k, "server.query") /\ "up" \notin k.unsent
        /\ Points(k, "server.remote") /\ k.stage \in {"STREAM", "STOP"} =>
              \/ On(k, "remoteRecv") /\ ~On(k, "serverSend") /\ "down" \notin k.unsent
              \/ ~On(k, "remoteRecv") /\ On(k, "serverSend") /\ "down" \in k.unsent

NoStall == \A c \in Conn : Driven(conn[c])

\* As long as every packet was authentic, nothing is received into a buffer
\* that still holds data for the other side.
IntactUntilStop == \A c \in Conn : "garbled" \in conn[c].mark => conn[c].stage = "STOP"

\* A connection that was stopped is not taken up again, though remote_send_cb
\* sets the stage without looking at it.
StopIsFinal ==
    [][\A c \in Conn : conn[c].stage = "STOP" /\ Has(conn[c], "server") /\ Has(conn'[c], "server")
          => conn'[c].stage = "STOP"]_vars

\* Data for the host, the first packet and whatever a lookup kept waiting
\* included, is sent, or the connection ends.
Delivered ==
    \A c \in Conn : Points(conn[c], "server.query") \/ On(conn[c], "remoteSend")
                        ~> On(conn[c], "serverRecv") \/ ~Has(conn[c], "server")

\* A remote that has lost its server still reads, and so will find out and close
\* itself; except for one: the client of a stopped connection may close it while
\* a reply is half sent, and that remote is left to nobody.
OrphansEnd ==
    \A c \in Conn : Has(conn[c], "remote") /\ ~Has(conn[c], "server")
                        => On(conn[c], "remoteRecv") \/ (conn[c].stage = "STOP" /\ "down" \in conn[c].unsent)

\* No callback of the event loop or the resolver meets freed memory, a missing
\* remote, or a stage in which it would end the process.
CallbacksSafe == TypeOK /\ NoDangling /\ HandlersReady

\* The two buffers of a connection: each always has the one watcher that drains
\* or fills it, and none is filled over data that was not sent.
BuffersServed == NoStall /\ IntactUntilStop
=============================================================================
