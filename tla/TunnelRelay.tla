---------------------------- MODULE TunnelRelay ----------------------------
(***************************************************************************)
(* The callbacks of ss-tunnel (tunnel.c): every connection goes to the one *)
(* destination of the command line.  The remote is connected as soon as a  *)
(* client was accepted, and the client is read only after the header, with *)
(* the address of the destination, was sent.                               *)
(***************************************************************************)
EXTENDS ClientConn

-----------------------------------------------------------------------------
(* close_and_free_remote and close_and_free_server, one after the other *)

TunnelHungUp(k) ==
    Gone([k EXCEPT !.heap = {}, !.ptr = {}, !.up = {}, !.down = FALSE,
                   !.on = @ \ {"connectTimer", "remoteSend", "remoteRecv", "serverSend", "serverRecv"}])

\* Without a remote, close_and_free_remote does nothing.
TunnelServerGone(k) ==
    Gone([k EXCEPT !.heap = @ \ {"server"}, !.ptr = @ \ {"server.remote"}, !.down = FALSE,
                   !.on = @ \ {"serverSend", "serverRecv"}])

-----------------------------------------------------------------------------
(* accept_cb *)

\* new_server and new_remote, who are made to know each other.
TunnelPair == Linked([NoConn EXCEPT !.stage = "STREAM"])

\* The accepted socket is closed by nobody when none can be made for the
\* remote.  A fast open waits for the header, as a plain connect does.
TunnelAccept(fastOpen) ==
    LET pair == Switch(TunnelPair, {}, {"remoteSend", "connectTimer"})
    IN  {Mark(NoConn, {"leaked"})} \cup
        IF fastOpen THEN {Mark(pair, {"addr"})} ELSE {pair, TunnelHungUp(pair)}

-----------------------------------------------------------------------------
(* Reading and writing *)

TunnelServerRecv(k) ==
    IF ~Points(k, "server.remote") THEN {TunnelServerGone(k)}
    ELSE LET m == ReceivedUp(k)
         IN  {TunnelHungUp(k), k, [m EXCEPT !.up = {}]} \cup
             {Switch(r, {"serverRecv"}, {"remoteSend"}) : r \in Rest(m)}

TunnelServerSend(k) ==
    LET sent == Switch([k EXCEPT !.down = FALSE], {"serverSend"}, {"remoteRecv"})
    IN  IF ~k.down THEN {TunnelHungUp(k)}
        ELSE {TunnelHungUp(k), k} \cup
             IF Points(k, "server.remote") THEN {sent} ELSE {TunnelServerGone(k)}

TunnelRemoteRecv(k) ==
    {TunnelHungUp(k), k, Switch(ReceivedDown(k), {"remoteRecv"}, {"serverSend"})}

\* The connection is there: the header is put into remote->buf, which has to
\* be empty (an assertion of the code).
TunnelConnected(k) == Switch(Headed(Mark(k, {"connected"})), {}, {"remoteRecv"})

\* Mutant of TunnelSend: the client is not read again.
TunnelSendSleeps(m) ==
    LET all == Switch([m EXCEPT !.up = {}], {"remoteSend"}, {})
    IN  IF Is(m, "addr")
        THEN LET a == [m EXCEPT !.mark = @ \ {"addr"}]
             IN  {Switch(a, {}, {"remoteSend", "connectTimer"}), [all EXCEPT !.mark = @ \ {"addr"}]} \cup Rest(a)
        ELSE {all} \cup Rest(m)

\* With an address left the send is the fast open; one that is in progress is
\* waited for like a connect.
TunnelSend(m) ==
    LET all == Switch([m EXCEPT !.up = {}], {"remoteSend"}, {"serverRecv"})
    IN  IF Is(m, "addr")
        THEN LET a == [m EXCEPT !.mark = @ \ {"addr"}]
             IN  {Switch(a, {}, {"remoteSend", "connectTimer"}), [all EXCEPT !.mark = @ \ {"addr"}]} \cup Rest(a)
        ELSE {all} \cup Rest(m)

\* remote_send_cb
TunnelRemoteSend(k) ==
    LET s == Switch(k, {"connectTimer"}, {})
        m == IF Is(k, "connected") THEN s ELSE TunnelConnected(s)
    IN  {TunnelHungUp(k)} \cup If(m.up # {}, TunnelSend(m))

\* remote_timeout_cb
TunnelTimeout(k) == {TunnelHungUp(k)}
=============================================================================
