----------------------------- MODULE ClientConn -----------------------------
(***************************************************************************)
(* A TCP connection of a client program, as the callbacks of ss-local,     *)
(* ss-tunnel and ss-redir see it: a server (the side of the application)   *)
(* and a remote (the side of ss-server) that point at each other, the      *)
(* watchers that run for them and the data that waits in their buffers.    *)
(*                                                                         *)
(* A callback is described by the set of states it may leave behind.       *)
(***************************************************************************)
EXTENDS Integers, FiniteSets

Object  == {"server", "remote"}
Pointer == {"server.remote", "remote.server"}

\* `connectTimer' is the timer of remote->send_ctx, `delayTimer' the
\* delayed_connect_watcher of the server.
Watcher == {"serverRecv", "serverSend", "remoteRecv", "remoteSend", "connectTimer", "delayTimer"}

\* up is what is left to send in remote->buf and down whether server->buf has
\* something left.  heads counts the address headers put into the stream (2
\* stands for more).  Of the marks, `connected' is that of remote->send_ctx,
\* `direct' is remote->direct, `addr' says that remote->addr still waits for a
\* fast open; the others are ghosts: data was received over unsent data, the
\* delayed connect was called off by a read that found nothing, the writer was
\* stopped with data left, the socket was never given to an object.
State == [heap : SUBSET Object, ptr : SUBSET Pointer, on : SUBSET Watcher,
          stage : {"INIT", "HANDSHAKE", "STREAM"},
          up : SUBSET {"header", "data"}, down : BOOLEAN, heads : 0..2,
          mark : SUBSET {"connected", "direct", "addr", "garbled", "calledOff", "stranded", "leaked"}]

NoConn == [heap |-> {}, ptr |-> {}, on |-> {}, stage |-> "INIT",
           up |-> {}, down |-> FALSE, heads |-> 0, mark |-> {}]

Has(k, x) == x \in k.heap
Points(k, x) == x \in k.ptr
On(k, x) == x \in k.on
Is(k, x) == x \in k.mark

If(b, S) == IF b THEN S ELSE {}

\* ev_io_stop, ev_timer_stop, ev_io_start and ev_timer_start.
Switch(k, off, on) == [k EXCEPT !.on = (@ \ off) \cup on]

Mark(k, S) == [k EXCEPT !.mark = @ \cup S]

\* A pair of objects that know each other.
Linked(k) == [k EXCEPT !.heap = Object, !.ptr = Pointer]

\* The header goes to the front of remote->buf.
Headed(k) == [k EXCEPT !.up = @ \cup {"header"}, !.heads = IF @ < 2 THEN @ + 1 ELSE 2]

\* What a send may leave of a buffer that it does not send completely.
Rest(k) == {[k EXCEPT !.up = k.up \ S] : S \in {{}, {"header"}} \ {k.up}}

\* Nothing is left of a connection whose objects are gone.
Gone(k) == IF k.heap = {} /\ k.on = {} THEN NoConn ELSE k

\* recv into remote->buf, and into server->buf.
ReceivedUp(k) ==
    Mark([k EXCEPT !.up = @ \cup {"data"}], If(k.up # {} /\ (k.heads > 0 \/ Is(k, "direct")), {"garbled"}))

ReceivedDown(k) == Mark([k EXCEPT !.down = TRUE], If(k.down, {"garbled"}))
=============================================================================
