----------------------------- MODULE RedirRelay -----------------------------
(***************************************************************************)
(* The callbacks of ss-redir (redir.c): the destination of a connection is *)
(* the one it had before the firewall redirected it.  The client is read   *)
(* while the remote is connected, so that a fast open has data to carry.   *)
(***************************************************************************)
EXTENDS ClientConn

-----------------------------------------------------------------------------
(* close_and_free_remote and close_and_free_server, one after the other *)

RedirHungUp(k) ==
    Gone([k EXCEPT !.heap = {}, !.ptr = {}, !.up = {}, !.down = FALSE, !.on = {}])

-----------------------------------------------------------------------------
(* accept_cb and delayed_connect_cb *)

\* The accepted socket is closed by nobody when its destination is not known.
RedirDestination == {"known", "unknown"}

\* new_server and new_remote, who are made to know each other.
RedirPair == Linked([NoConn EXCEPT !.stage = "STREAM"])

RedirAccept(fastOpen) ==
    LET pair == Switch(RedirPair, {}, {"serverRecv"})
        link == IF fastOpen THEN {Switch(Mark(pair, {"addr"}), {}, {"delayTimer"})}
                ELSE {Switch(pair, {}, {"remoteSend", "connectTimer"}), NoConn}
    IN  UNION {IF d = "known" THEN link \cup {Mark(NoConn, {"leaked"})} ELSE {Mark(NoConn, {"leaked"})}
               : d \in RedirDestination}

\* No data came in time: connect without any.
RedirDelayed(k) ==
    LET a == Switch([k EXCEPT !.mark = @ \ {"addr"}], {"delayTimer"}, {})
    IN  {RedirHungUp(k), Switch(a, {}, {"remoteSend", "connectTimer"})}

-----------------------------------------------------------------------------
(* Reading and writing *)

\* The delayed connect is called off before anything was read.
RedirServerRecv(k) ==
    LET s == Switch(k, {"delayTimer"}, {})
        m == ReceivedUp([s EXCEPT !.mark = @ \ {"calledOff"}])
    IN  {RedirHungUp(k), Mark(s, If(On(k, "delayTimer"), {"calledOff"}))} \cup
        IF ~Is(k, "connected") THEN {Switch(m, {"serverRecv"}, {"remoteSend"})}
        ELSE {[m EXCEPT !.up = {}]} \cup {Switch(r, {"serverRecv"}, {"remoteSend"}) : r \in Rest(m)}

RedirServerSend(k) ==
    IF ~k.down THEN {RedirHungUp(k)}
    ELSE {RedirHungUp(k), k, Switch([k EXCEPT !.down = FALSE], {"serverSend"}, {"remoteRecv"})}

RedirRemoteRecv(k) ==
    {RedirHungUp(k), k, Switch(ReceivedDown(k), {"remoteRecv"}, {"serverSend"})}

\* The connection is there.  The header goes before what was read meanwhile,
\* and both directions start anew.
RedirConnected(k) ==
    Switch(Headed(Mark(k, {"connected"})), {"remoteSend", "serverRecv"}, {"remoteRecv"})

\* Mutant of RedirSend: a part that was sent does not start the watcher again.
RedirSendSleeps(m) ==
    LET all(r) == Switch([r EXCEPT !.up = {}], {"remoteSend"}, {"serverRecv"})
        a      == [m EXCEPT !.mark = @ \ {"addr"}]
    IN  IF Is(m, "addr")
        THEN {Switch(a, {}, {"remoteSend", "connectTimer"}), all(a)} \cup Rest(a)
        ELSE {all(m), Mark(m, If(~On(m, "remoteSend"), {"stranded"}))} \cup Rest(m)

\* A send that has to wait does not start the watcher that RedirConnected
\* stopped; a part that was sent does.
RedirSend(m) ==
    LET all(r)  == Switch([r EXCEPT !.up = {}], {"remoteSend"}, {"serverRecv"})
        rest(r) == {Switch(x, {}, {"remoteSend"}) : x \in Rest(r)}
        a       == [m EXCEPT !.mark = @ \ {"addr"}]
    IN  IF Is(m, "addr")
        THEN {Switch(a, {}, {"remoteSend", "connectTimer"}), all(a)} \cup rest(a)
        ELSE {all(m), Mark(m, If(~On(m, "remoteSend"), {"stranded"}))} \cup rest(m)

\* remote_send_cb
RedirRemoteSend(k) ==
    LET s == Switch(k, {"connectTimer"}, {})
        m == IF Is(k, "connected") THEN s ELSE RedirConnected(s)
    IN  {RedirHungUp(k)} \cup If(m.up # {}, RedirSend(m))

\* remote_timeout_cb
RedirTimeout(k) == {RedirHungUp(k)}
=============================================================================
