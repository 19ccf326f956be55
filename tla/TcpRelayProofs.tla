--------------------------- MODULE TcpRelayProofs ---------------------------
(***************************************************************************)
(* The invariants of TcpRelay for any number of connections, with and      *)
(* without idle timers.  What a callback does is a function of the state   *)
(* of its connection, so there is one lemma per callback about one record, *)
(* and the theorems only lift them to all connections.                     *)
(***************************************************************************)
EXTENDS TcpRelay, TLAPS

\* Before the stream: the only one who may act for the remote waits for it to
\* be connected, and nothing is under way to the client.
Early(k) ==
    /\ Points(k, "server.query") => k.stage = "RESOLVE"
    /\ Has(k, "server") /\ k.stage \in {"INIT", "RESOLVE"} =>
          /\ ~On(k, "remoteRecv") /\ "down" \notin k.unsent
          /\ Points(k, "server.remote") => On(k, "remoteSend")

\* OrphansEnd, of one connection, and what it rests on: a remote that has not
\* lost its server is known to it.
Orphaned(k) ==
    Has(k, "remote") => IF Has(k, "server") THEN Points(k, "server.remote")
                        ELSE On(k, "remoteRecv") \/ (k.stage = "STOP" /\ "down" \in k.unsent)

\* What holds of one connection.  None of the parts is inductive alone: that a
\* stream has its remote needs the back pointers of Sound, that a writer has
\* something to write needs the exclusion of Driven, and that a direction is
\* driven from the start of the stream on needs Early.
Good(k) ==
    /\ k \in State
    /\ On(k, "timer") <=> IdleTimer /\ Has(k, "server")
    /\ Sound(k) /\ Expected(k) /\ Driven(k) /\ Early(k)
    /\ "garbled" \in k.mark => k.stage = "STOP"
    /\ Orphaned(k)

IInv == conn \in [Conn -> State] /\ \A c \in Conn : Good(conn[c])

USE DEF State, Object, Pointer, Watcher, Stage, Has, Points, On, If

-----------------------------------------------------------------------------
(* What the functions that free and open return *)

\* Init: a connection that was never opened.
LEMMA NoConnGood ==
    ASSUME NEW k, k = NoConn
    PROVE  Good(k)
BY DEF Good, Sound, Expected, Driven, Early, Orphaned, NoConn

\* accept_cb and new_server.
LEMMA AcceptedGood ==
    ASSUME NEW k, k = Accepted
    PROVE  Good(k)
BY DEF Good, Sound, Expected, Driven, Early, Orphaned, Accepted, NoConn

\* A connection without its server: only a remote that is read, or a query.
LEMMA ServerGone ==
    ASSUME NEW k, NEW n \in State, Good(k),
           "server" \notin n.heap, n.ptr \cap Pointer = {}, n.mark = k.mark, n.stage = k.stage,
           n.on \cap {"serverRecv", "serverSend", "timer", "remoteSend"} = {},
           On(n, "remoteRecv") => Has(n, "remote"), Orphaned(n)
    PROVE  Good(n)
<1>1. ~On(n, "timer") /\ Sound(n) /\ Driven(n) /\ Early(n) /\ Expected(n)
  BY DEF Sound, Driven, Early, Expected
<1> QED
  BY <1>1 DEF Good

\* close_and_free_server.
LEMMA ClosedServerGood ==
    ASSUME NEW k, Good(k), ~On(k, "remoteSend"), Has(k, "server") => k.stage # "STREAM"
    PROVE  Good(ClosedServer(k))
<1>1. PICK n : n = ClosedServer(k)
  OBVIOUS
<1>2. k \in State
  BY DEF Good
<1>3. n \in State
  BY <1>1, <1>2 DEF ClosedServer
<1>4. /\ "server" \notin n.heap /\ n.mark = k.mark /\ n.stage = k.stage
      /\ n.on \cap {"serverRecv", "serverSend", "timer", "remoteSend"} = {}
  BY <1>1, <1>2 DEF ClosedServer
<1>5. n.ptr \cap Pointer = {}
  BY <1>1, <1>2 DEF ClosedServer, Good, Sound
<1>6. On(n, "remoteRecv") => Has(n, "remote")
  BY <1>1, <1>2 DEF ClosedServer, Good, Sound
<1>7. Orphaned(n)
  <2>1. n.unsent = k.unsent /\ n.stage = k.stage /\ ~Has(n, "server")
        /\ (Has(n, "remote") <=> Has(k, "remote")) /\ (On(n, "remoteRecv") <=> On(k, "remoteRecv"))
    BY <1>1, <1>2 DEF ClosedServer
  <2> QED
    BY <1>2, <2>1 DEF Good, Orphaned, Driven, Early
<1> QED
  BY <1>1, <1>3, <1>4, <1>5, <1>6, <1>7, ServerGone

\* Both are freed.
LEMMA HungUpGood ==
    ASSUME NEW k, Good(k)
    PROVE  Good(HungUp(k))
<1>1. CASE ~Points(k, "server.remote")
  <2>1. ~On(k, "remoteSend") /\ (Has(k, "server") => k.stage # "STREAM")
    BY <1>1 DEF Good, Sound, Expected
  <2> QED
    BY <1>1, <2>1, ClosedServerGood DEF HungUp
<1>2. CASE Points(k, "server.remote")
  <2>1. PICK n : n = ClosedServer(ClosedRemote(k))
    OBVIOUS
  <2>2. k \in State
    BY DEF Good
  <2>3. PICK r : r = ClosedRemote(k)
    OBVIOUS
  <2>4. /\ r \in State /\ r.mark = k.mark /\ r.stage = k.stage
        /\ r.on \cap {"remoteRecv", "remoteSend"} = {} /\ "remote" \notin r.heap
        /\ r.ptr \cap {"server.remote", "remote.server"} = {}
        /\ "server.query" \in r.ptr <=> "query.server" \in r.ptr
    BY <1>2, <2>2, <2>3 DEF ClosedRemote, Good, Sound
  <2>5. n \in State
    BY <2>1, <2>3, <2>4 DEF ClosedServer
  <2>6. /\ "server" \notin n.heap /\ n.mark = k.mark /\ n.stage = k.stage
        /\ n.on \cap {"serverRecv", "serverSend", "timer", "remoteSend"} = {}
        /\ ~On(n, "remoteRecv")
    BY <2>1, <2>3, <2>4 DEF ClosedServer
  <2>7. n.ptr \cap Pointer = {}
    BY <2>1, <2>3, <2>4 DEF ClosedServer
  <2>8. Orphaned(n)
    BY <2>1, <2>3, <2>4 DEF ClosedServer, Orphaned
  <2> QED
    BY <1>2, <2>1, <2>5, <2>6, <2>7, <2>8, ServerGone DEF HungUp
<1> QED
  BY <1>1, <1>2

\* close_and_free_remote, of a remote that has lost its server.
LEMMA ClosedRemoteGood ==
    ASSUME NEW k, Good(k), ~Points(k, "remote.server")
    PROVE  Good(ClosedRemote(k))
BY DEF Good, Sound, Expected, Driven, Early, Orphaned, ClosedRemote

-----------------------------------------------------------------------------
(* One lemma per callback that goes on *)

\* A packet for a stopped connection is received and dropped.
LEMMA StoppedGood ==
    ASSUME NEW k, Good(k), On(k, "serverRecv"), k.stage = "STOP"
    PROVE  Good(Received(k, ServerBuf(k)))
BY DEF Good, Sound, Expected, Driven, Early, Orphaned, Received, ServerBuf

\* stop_server, in server_recv_cb.
LEMMA StopGood ==
    ASSUME NEW k, Good(k), On(k, "serverRecv"), k.stage \in {"INIT", "STREAM"}
    PROVE  Good([Received(k, ServerBuf(k)) EXCEPT !.stage = "STOP"])
BY DEF Good, Sound, Expected, Driven, Early, Orphaned, Received, ServerBuf

\* server_recv_cb hands over to remote_send_cb.
LEMMA ServerRelayPartGood ==
    ASSUME NEW k, Good(k), On(k, "serverRecv"), k.stage = "STREAM"
    PROVE  Good([Received(k, ServerBuf(k)) EXCEPT
                       !.unsent = k.unsent \cup {"up"},
                       !.on     = (k.on \ {"serverRecv"}) \cup {"remoteSend"}])
BY DEF Good, Sound, Expected, Driven, Early, Orphaned, Received, ServerBuf

\* connect_to_remote, from server_recv_cb.
LEMMA ConnectingGood ==
    ASSUME NEW k, Good(k), NEW payload \in BOOLEAN, On(k, "serverRecv"), k.stage = "INIT"
    PROVE  Good(Connecting(k, payload))
BY DEF Good, Sound, Expected, Driven, Early, Orphaned, Connecting

\* server_recv_cb starts a query.
LEMMA ResolvingGood ==
    ASSUME NEW k, Good(k), On(k, "serverRecv"), k.stage = "INIT"
    PROVE  Good(Resolving(k))
BY DEF Good, Sound, Expected, Driven, Early, Orphaned, Resolving

\* resolv_free_cb, of a query whose server is gone.
LEMMA ResolvedLateGood ==
    ASSUME NEW k, Good(k), ~Points(k, "query.server")
    PROVE  Good(FreedQuery(k))
BY DEF Good, Sound, Expected, Driven, Early, Orphaned, FreedQuery

\* resolv_cb without an address.
LEMMA ResolveFailsGood ==
    ASSUME NEW k, Good(k), Points(k, "query.server")
    PROVE  Good(FreedQuery(ClosedServer(k)))
<1>1. ~On(k, "remoteSend") /\ Points(k, "server.query") /\ k.stage = "RESOLVE"
  BY DEF Good, Sound, Driven, Early
<1>2. PICK n : n = ClosedServer(k)
  OBVIOUS
<1>3. ~Points(n, "query.server")
  BY <1>1, <1>2 DEF ClosedServer, Good
<1> QED
  BY <1>1, <1>2, <1>3, ClosedServerGood, ResolvedLateGood

\* resolv_cb with an address.
LEMMA ResolvedGood ==
    ASSUME NEW k, NEW payload \in BOOLEAN, Good(k), Points(k, "query.server")
    PROVE  Good(FreedQuery(Connecting(k, payload)))
<1>1. PICK r : r = Connecting(k, payload)
  OBVIOUS
<1>2. PICK n : n = FreedQuery(r)
  OBVIOUS
<1>3. /\ k \in State /\ Has(k, "server") /\ Points(k, "server.query") /\ k.stage = "RESOLVE"
      /\ ~On(k, "serverRecv") /\ ~On(k, "serverSend") /\ ~On(k, "remoteRecv")
      /\ On(k, "timer") <=> IdleTimer
      /\ "garbled" \notin k.mark
  BY DEF Good, Sound, Driven, Early, Orphaned, Expected
<1>4. r \in State /\ Points(r, "query.server")
  BY <1>1, <1>3 DEF Connecting
<1>5. n \in State
  BY <1>2, <1>4 DEF FreedQuery
<1>6. /\ Has(n, "server") /\ Has(n, "remote") /\ n.stage = "RESOLVE"
      /\ n.mark = k.mark \ {"connected"} /\ "down" \notin n.unsent
  BY <1>1, <1>2, <1>3, <1>4 DEF Connecting, FreedQuery
<1>7. /\ Points(n, "server.remote") /\ Points(n, "remote.server")
      /\ ~Points(n, "server.query") /\ ~Points(n, "query.server")
  BY <1>1, <1>2, <1>3, <1>4 DEF Connecting, FreedQuery
<1>8. /\ On(n, "remoteSend") /\ ~On(n, "serverRecv") /\ ~On(n, "serverSend") /\ ~On(n, "remoteRecv")
      /\ On(n, "timer") <=> IdleTimer
  BY <1>1, <1>2, <1>3, <1>4 DEF Connecting, FreedQuery
<1>9. Sound(n) /\ Expected(n) /\ Driven(n) /\ Early(n) /\ Orphaned(n)
  BY <1>3, <1>6, <1>7, <1>8 DEF Sound, Expected, Driven, Early, Orphaned
<1> QED
  BY <1>1, <1>2, <1>3, <1>5, <1>6, <1>8, <1>9 DEF Good

\* remote_send_cb, with more to send.
LEMMA RemoteSendPartGood ==
    ASSUME NEW k, Good(k), On(k, "remoteSend"), "up" \in k.unsent
    PROVE  Good([k EXCEPT !.mark = k.mark \cup {"connected"}])
BY DEF Good, Sound, Expected, Driven, Early, Orphaned

\* remote_send_cb, with nothing more to send.
LEMMA FlowingGood ==
    ASSUME NEW k, Good(k), On(k, "remoteSend")
    PROVE  Good(Flowing(k))
BY DEF Good, Sound, Expected, Driven, Early, Orphaned, Flowing

\* remote_recv_cb hands over to server_send_cb.
LEMMA RemoteRelayPartGood ==
    ASSUME NEW k, Good(k), On(k, "remoteRecv"), Points(k, "remote.server"), k.stage # "STOP"
    PROVE  Good([Received(k, "down") EXCEPT
                       !.unsent = k.unsent \cup {"down"},
                       !.on     = (k.on \ {"remoteRecv"}) \cup {"serverSend"}])
BY DEF Good, Sound, Expected, Driven, Early, Orphaned, Received

\* server_send_cb, with nothing more to send.
LEMMA ServerSendAllGood ==
    ASSUME NEW k, Good(k), On(k, "serverSend")
    PROVE  Good([k EXCEPT !.unsent = k.unsent \ {"down"},
                            !.on     = (k.on \ {"serverSend"}) \cup {"remoteRecv"}])
BY DEF Good, Sound, Expected, Driven, Early, Orphaned

-----------------------------------------------------------------------------
(* The invariant *)

\* A step of one connection leaves the others alone.
LEMMA StepGood ==
    ASSUME IInv, NEW c \in Conn, NEW n, Good(n), Step(c, n)
    PROVE  IInv'
BY DEF IInv, Step, Good

LEMMA NextGood ==
    ASSUME IInv, NEW c \in Conn,
           Accept(c) \/ ServerRecv(c) \/ Resolv(c) \/ Remote(c) \/ ServerSend(c) \/ TimesOut(c)
    PROVE  IInv'
<1> DEFINE k == conn[c]
<1>1. Good(k)
  BY DEF IInv
<1> HIDE DEF k
<1>2. CASE Accept(c)
  BY <1>2, AcceptedGood, StepGood DEF Accept
<1>3. CASE ServerRecv(c)
  <2>0. On(k, "serverRecv") => ~On(k, "remoteSend")
    BY <1>1 DEF Good, Driven, Sound
  <2>1. CASE ClientCloses(c)
    BY <1>1, <2>0, <2>1, HungUpGood, ClosedServerGood, StepGood DEF ClientCloses, k
  <2>2. CASE ServerRecvStopped(c)
    BY <1>1, <2>2, StoppedGood, StepGood DEF ServerRecvStopped, k
  <2>3. CASE ServerStop(c)
    BY <1>1, <2>3, StopGood, StepGood DEF ServerStop, k
  <2>4. CASE ServerRelayPart(c)
    BY <1>1, <2>4, ServerRelayPartGood, StepGood DEF ServerRelayPart, k
  <2>5. CASE ServerRelayFails(c)
    BY <1>1, <2>5, HungUpGood, StepGood DEF ServerRelayFails, k
  <2>6. CASE Refused(c)
    BY <1>1, <2>0, <2>6, ClosedServerGood, StepGood DEF Refused, k
  <2>7. CASE Query(c)
    BY <1>1, <2>7, ResolvingGood, StepGood DEF Query, k
  <2>8. CASE \E payload \in BOOLEAN : ConnectTo(c, payload)
    BY <1>1, <2>8, ConnectingGood, StepGood DEF ConnectTo, k
  <2> QED
    BY <1>3, <2>1, <2>2, <2>3, <2>4, <2>5, <2>6, <2>7, <2>8 DEF ServerRecv
<1>4. CASE Resolv(c)
  <2>1. CASE ResolvedLate(c)
    BY <1>1, <2>1, ResolvedLateGood, StepGood DEF ResolvedLate, k
  <2>2. CASE ResolveFails(c)
    BY <1>1, <2>2, ResolveFailsGood, StepGood DEF ResolveFails, k
  <2>3. CASE \E payload \in BOOLEAN : Resolved(c, payload)
    BY <1>1, <2>3, ResolvedGood, StepGood DEF Resolved, k
  <2> QED
    BY <1>4, <2>1, <2>2, <2>3 DEF Resolv
<1>5. CASE Remote(c)
  <2>1. CASE RemoteSendFails(c)
    BY <1>1, <2>1, HungUpGood, ClosedRemoteGood, StepGood DEF RemoteSendFails, k
  <2>2. CASE RemoteSendPart(c)
    BY <1>1, <2>2, RemoteSendPartGood, StepGood DEF RemoteSendPart, k
  <2>3. CASE RemoteSendAll(c)
    BY <1>1, <2>3, HungUpGood, ClosedRemoteGood, FlowingGood, StepGood DEF RemoteSendAll, k
  <2>4. CASE RemoteEnds(c)
    BY <1>1, <2>4, HungUpGood, ClosedRemoteGood, StepGood DEF RemoteEnds, k
  <2>5. CASE RemoteRelayPart(c)
    BY <1>1, <2>5, RemoteRelayPartGood, StepGood DEF RemoteRelayPart, k
  <2> QED
    BY <1>5, <2>1, <2>2, <2>3, <2>4, <2>5 DEF Remote
<1>6. CASE ServerSend(c)
  <2>1. CASE ServerSendFails(c)
    BY <1>1, <2>1, HungUpGood, StepGood DEF ServerSendFails, k
  <2>2. CASE ServerSendAll(c)
    BY <1>1, <2>2, HungUpGood, ServerSendAllGood, StepGood DEF ServerSendAll, k
  <2> QED
    BY <1>6, <2>1, <2>2 DEF ServerSend
<1>7. CASE TimesOut(c)
  BY <1>1, <1>7, HungUpGood, StepGood DEF TimesOut, k
<1> QED
  BY <1>2, <1>3, <1>4, <1>5, <1>6, <1>7

\* The connections stay good, whatever callbacks run in whatever order.
THEOREM Invariance == Spec => []IInv
<1>1. Init => IInv
  <2> SUFFICES ASSUME Init
               PROVE  IInv
    OBVIOUS
  <2>1. Good(NoConn)
    BY NoConnGood
  <2> QED
    BY <2>1 DEF Init, IInv, Good
<1>2. IInv /\ [Next]_vars => IInv'
  <2> SUFFICES ASSUME IInv, [Next]_vars
               PROVE  IInv'
    OBVIOUS
  <2>1. CASE Next
    BY <2>1, NextGood DEF Next
  <2>2. CASE UNCHANGED vars
    BY <2>2 DEF vars, IInv, Good, Sound, Expected, Driven, Early, Orphaned
  <2> QED
    BY <2>1, <2>2
<1> QED
  BY <1>1, <1>2, PTL DEF Spec

\* Types, and an idle timer for every live server where idle timers run.
THEOREM TypeCorrect == Spec => []TypeOK
<1>1. IInv => TypeOK
  BY DEF IInv, Good, TypeOK
<1> QED
  BY <1>1, Invariance, PTL

\* No callback of the event loop or of the resolver meets memory that
\* close_and_free_server or close_and_free_remote has freed.
THEOREM NoDanglingAlways == Spec => []NoDangling
<1>1. IInv => NoDangling
  BY DEF IInv, Good, NoDangling
<1> QED
  BY <1>1, Invariance, PTL

\* No callback runs in a stage that it does not expect; in particular the
\* FATAL at the end of server_recv_cb is never reached.
THEOREM HandlersReadyAlways == Spec => []HandlersReady
<1>1. IInv => HandlersReady
  BY DEF IInv, Good, HandlersReady
<1> QED
  BY <1>1, Invariance, PTL

\* Each direction of every connection always has exactly one watcher, or the
\* resolver, that drives it.
THEOREM NoStallAlways == Spec => []NoStall
<1>1. IInv => NoStall
  BY DEF IInv, Good, NoStall
<1> QED
  BY <1>1, Invariance, PTL

\* recv never overwrites unsent data of a connection that was not stopped.
THEOREM IntactUntilStopAlways == Spec => []IntactUntilStop
<1>1. IInv => IntactUntilStop
  BY DEF IInv, Good, IntactUntilStop
<1> QED
  BY <1>1, Invariance, PTL

\* A remote without a server goes on reading, but for one case.
THEOREM OrphansEndAlways == Spec => []OrphansEnd
<1>1. IInv => OrphansEnd
  BY DEF IInv, Good, Orphaned, OrphansEnd
<1> QED
  BY <1>1, Invariance, PTL

\* A callback that sets the stage finds a connection that is not stopped.
LEMMA StageKept ==
    ASSUME NEW c \in Conn, Good(conn[c]), Has(conn[c], "server"), conn[c].stage = "STOP", NEW n,
           Step(c, n), conn \in [Conn -> State],
           Accept(c) \/ ServerRecv(c) \/ Resolv(c) \/ Remote(c) \/ ServerSend(c) \/ TimesOut(c)
    PROVE  conn'[c].stage = "STOP"
<1> DEFINE k == conn[c]
<1>1. k \in State /\ ~On(k, "remoteSend") /\ ~Points(k, "query.server") /\ k.stage = "STOP" /\ k.heap # {}
  BY DEF Good, Sound, Expected, Early
<1>2. ClosedServer(k).stage = "STOP" /\ HungUp(k).stage = "STOP" /\ ClosedRemote(k).stage = "STOP"
  BY <1>1 DEF HungUp, ClosedServer, ClosedRemote
<1>3. Received(k, ServerBuf(k)).stage = "STOP" /\ FreedQuery(k).stage = "STOP"
  BY <1>1 DEF Received, FreedQuery
<1> HIDE DEF k
<1>4. CASE ServerRecv(c)
  BY <1>1, <1>2, <1>3, <1>4 DEF ServerRecv, ClientCloses, ServerRecvStopped, ServerStop, ServerRelayPart,
     ServerRelayFails, Refused, ConnectTo, Query, Step, k
<1>5. CASE Resolv(c)
  BY <1>1, <1>3, <1>5 DEF Resolv, ResolvedLate, ResolveFails, Resolved, Step, k
<1>6. CASE Remote(c)
  BY <1>1, <1>2, <1>6 DEF Remote, RemoteSendFails, RemoteSendPart, RemoteSendAll, RemoteEnds,
     RemoteRelayPart, Step, k
<1>7. CASE ServerSend(c)
  <2>1. [k EXCEPT !.unsent = k.unsent \ {"down"}, !.on = (k.on \ {"serverSend"}) \cup {"remoteRecv"}].stage = "STOP"
    BY <1>1
  <2> QED
    BY <1>1, <1>2, <1>7, <2>1 DEF ServerSend, ServerSendFails, ServerSendAll, Step, k
<1>8. CASE TimesOut(c)
  BY <1>1, <1>2, <1>8 DEF TimesOut, Step, k
<1>9. CASE Accept(c)
  BY <1>1, <1>9 DEF Accept, k
<1> QED
  BY <1>4, <1>5, <1>6, <1>7, <1>8, <1>9

\* A connection that was stopped is never taken up again.
THEOREM StopIsFinalHolds == Spec => StopIsFinal
<1>1. IInv /\ [Next]_vars =>
         [\A c \in Conn : conn[c].stage = "STOP" /\ Has(conn[c], "server") /\ Has(conn'[c], "server")
             => conn'[c].stage = "STOP"]_vars
  <2> SUFFICES ASSUME IInv, Next, NEW c \in Conn, conn[c].stage = "STOP", Has(conn[c], "server")
               PROVE  conn'[c].stage = "STOP"
    OBVIOUS
  <2>1. PICK d \in Conn : Accept(d) \/ ServerRecv(d) \/ Resolv(d) \/ Remote(d) \/ ServerSend(d) \/ TimesOut(d)
    BY DEF Next
  <2>2. PICK n : Step(d, n)
    BY <2>1 DEF Accept, ServerRecv, ClientCloses, ServerRecvStopped, ServerStop, ServerRelayPart,
       ServerRelayFails, Refused, ConnectTo, Query, Resolv, ResolvedLate, ResolveFails, Resolved, Remote,
       RemoteSendFails, RemoteSendPart, RemoteSendAll, RemoteEnds, RemoteRelayPart, ServerSend,
       ServerSendFails, ServerSendAll, TimesOut
  <2>3. CASE d # c
    BY <2>2, <2>3 DEF Step, IInv
  <2>4. CASE d = c
    BY <2>1, <2>2, <2>4, StageKept DEF IInv
  <2> QED
    BY <2>3, <2>4
<1> QED
  BY <1>1, Invariance, PTL DEF Spec, StopIsFinal

\* The callbacks of server.c are safe to call whenever the event loop or the
\* resolver may call them.
THEOREM CallbacksSafeAlways == Spec => []CallbacksSafe
<1>1. TypeOK /\ NoDangling /\ HandlersReady => CallbacksSafe
  BY DEF CallbacksSafe
<1> QED BY <1>1, TypeCorrect, NoDanglingAlways, HandlersReadyAlways, PTL

\* The buffers of a connection of server.c are drained, and not written over
\* before that.
THEOREM BuffersServedAlways == Spec => []BuffersServed
<1>1. NoStall /\ IntactUntilStop => BuffersServed
  BY DEF BuffersServed
<1> QED BY <1>1, NoStallAlways, IntactUntilStopAlways, PTL
=============================================================================
