----------------------------- MODULE LocalRelay -----------------------------
(***************************************************************************)
(* The callbacks of ss-local (local.c), a SOCKS5 server: the application   *)
(* selects a method and asks for a destination, and what it sends then     *)
(* goes to ss-server, or straight to the destination if the access control *)
(* list says so.                                                           *)
(***************************************************************************)
EXTENDS ClientConn

-----------------------------------------------------------------------------
(* Freeing *)

\* close_and_free_remote
FreedRemote(k) ==
    [k EXCEPT !.heap = @ \ {"remote"},
              !.ptr  = @ \ ({"remote.server"} \cup If(Points(k, "remote.server"), {"server.remote"})),
              !.on   = @ \ {"remoteRecv", "remoteSend", "connectTimer"},
              !.up   = {}]

\* close_and_free_server
FreedServer(k) ==
    [k EXCEPT !.heap = @ \ {"server"},
              !.ptr  = @ \ ({"server.remote"} \cup If(Points(k, "server.remote"), {"remote.server"})),
              !.on   = @ \ {"serverRecv", "serverSend", "delayTimer"},
              !.down = FALSE]

LocalHungUp(k) == Gone(FreedServer(IF Points(k, "server.remote") THEN FreedRemote(k) ELSE k))

\* free_connections, for one of them: the server goes first.
LocalShutDown(k) ==
    Gone(IF Points(k, "server.remote") THEN FreedRemote(FreedServer(k)) ELSE FreedServer(k))

-----------------------------------------------------------------------------
(* accept_cb *)

LocalNewServer == [NoConn EXCEPT !.heap = {"server"}]

LocalAccept == {Switch(LocalNewServer, {}, {"serverRecv"})}

-----------------------------------------------------------------------------
(* server_stream *)

\* The first call, when the remote is not connected.  A fast open that is in
\* progress has no timer.
LocalConnect(k, fastOpen) ==
    LET waits == Switch(k, {"serverRecv"}, {"remoteSend"})
    IN  IF ~fastOpen \/ Is(k, "direct")
        THEN {Switch(waits, {}, {"connectTimer"})}
        ELSE {waits} \cup {Switch(r, {}, {"connectTimer"}) : r \in Rest(waits) \cup {[waits EXCEPT !.up = {}]}}

\* Mutant of LocalHeaded: the header is put before every packet.
LocalHeadedAll(k) == IF Is(k, "direct") THEN k ELSE Headed(k)

\* abuf, the header, is freed once it was put before the first packet.
LocalHeaded(k) == IF Is(k, "direct") \/ k.heads > 0 THEN k ELSE Headed(k)

\* A later call, which sends at once what it can.
LocalSend(k) == {[k EXCEPT !.up = {}]} \cup {Switch(r, {"serverRecv"}, {"remoteSend"}) : r \in Rest(k)}

LocalStream(k, fastOpen) ==
    IF ~Points(k, "server.remote") THEN {Gone(FreedServer(k))}
    ELSE LET m == LocalHeaded(k)
         IN  {LocalHungUp(k)} \cup IF ~Is(k, "connected") THEN LocalConnect(m, fastOpen) ELSE LocalSend(m)

-----------------------------------------------------------------------------
(* server_handshake *)

\* What becomes of a request.  An incomplete one waits for more, a UDP
\* association for the end of the connection.  An unsupported command or
\* address, or a reply that cannot be sent at once, ends the connection.
LocalRequest == {"incomplete", "udp association", "refused", "connect"}

\* server_handshake_reply, for a reply that cannot be sent or that can.
LocalReply(k, request) ==
    CASE request = "incomplete"             -> {k}
      [] request = "udp association"        -> {k, LocalHungUp(k)}
      [] request \in {"refused", "connect"} -> {LocalHungUp(k)}

\* Whether the access control list lets a destination pass by the proxy.  For
\* a name, name and then address are looked up; a match is positive in the
\* list of what is bypassed and negative in that of what is not.
LocalBypass(isName, hostMatch, resolves, ipMatch, mode) ==
    IF isName /\ hostMatch # 0 THEN hostMatch > 0
    ELSE IF isName /\ ~resolves THEN FALSE
    ELSE IF mode = "BLACK_LIST" THEN ipMatch > 0 ELSE ~(ipMatch < 0)

\* A remote of either kind; the proxy is used when that of a bypass cannot be
\* made.
LocalDirect ==
    {{}} \cup
    UNION {If(LocalBypass(isName, h, resolves, i, mode), {{"direct"}})
           : isName, resolves \in BOOLEAN, h, i \in -1..1, mode \in {"BLACK_LIST", "WHITE_LIST"}}

\* create_remote
LocalCreateRemote(k, direct) == Mark(Linked([k EXCEPT !.stage = "STREAM"]), direct)

\* Data that came with the request is passed on at once; without any,
\* connecting waits a little for it.
LocalHandshake(k, fastOpen) ==
    (UNION {LocalReply(k, request) : request \in LocalRequest}) \cup
    UNION {LET r == LocalCreateRemote(k, direct)
           IN  LocalStream(ReceivedUp(r), fastOpen) \cup {Switch(r, {}, {"delayTimer"})}
           : direct \in LocalDirect}

-----------------------------------------------------------------------------
(* server_recv_cb *)

\* The delayed connect is called off before anything was read.  In STAGE_INIT
\* the rest of the packet may be the request already.
LocalServerRecv(k, fastOpen) ==
    LET s == Switch(k, {"delayTimer"}, {})
        h == [s EXCEPT !.stage = "HANDSHAKE"]
    IN  {LocalHungUp(s), Mark(s, If(On(k, "delayTimer"), {"calledOff"}))} \cup
        CASE k.stage = "INIT"      -> {s, h} \cup LocalHandshake(h, fastOpen)
          [] k.stage = "HANDSHAKE" -> LocalHandshake(s, fastOpen)
          [] k.stage = "STREAM"    -> LocalStream(ReceivedUp([s EXCEPT !.mark = @ \ {"calledOff"}]), fastOpen)

\* delayed_connect_cb: server_recv_cb without reading.
LocalDelayed(k, fastOpen) == LocalStream(Switch(k, {"delayTimer"}, {}), fastOpen)

-----------------------------------------------------------------------------
(* The other callbacks *)

LocalServerSend(k) ==
    IF ~k.down THEN {LocalHungUp(k)}
    ELSE {LocalHungUp(k), k, Switch([k EXCEPT !.down = FALSE], {"serverSend"}, {"remoteRecv"})}

LocalRemoteRecv(k) ==
    {LocalHungUp(k), k, Switch(ReceivedDown(k), {"remoteRecv"}, {"serverSend"})}

\* A remote that has just been connected may have nothing to send; one that
\* has been for longer is closed then.
LocalRemoteSend(k) ==
    LET m    == IF Is(k, "connected") THEN k
                ELSE Switch(Mark(k, {"connected"}), {"connectTimer"}, {"remoteRecv"})
        flow == Switch([m EXCEPT !.up = {}], {"remoteSend"}, {"serverRecv"})
    IN  {LocalHungUp(k)} \cup
        IF m.up # {} THEN {flow} \cup Rest(m) ELSE If(~Is(k, "connected"), {flow})

\* remote_timeout_cb
LocalTimeout(k) == {LocalHungUp(k)}
=============================================================================
