------------------------- MODULE ClientRelayProofs -------------------------
(***************************************************************************)
(* CallbacksSafe and RelayKept of the three client programs, for any       *)
(* number of connections.  A callback is a set of records that a           *)
(* connection may become, so there is one lemma per callback about one     *)
(* record, and the theorems only lift them to all connections.             *)
(***************************************************************************)
EXTENDS ClientRelay, TLAPS

-----------------------------------------------------------------------------
(* The life of a connection *)

Closed(k) == k = NoConn \/ k = Mark(NoConn, {"leaked"})

\* Both objects are there and know each other, and no data was overwritten.
Paired(k) ==
    /\ k \in State /\ k.heap = Object /\ k.ptr = Pointer /\ k.stage = "STREAM"
    /\ ~Is(k, "garbled") /\ ~Is(k, "leaked")

\* One reader or writer for each direction, told by the buffer of the direction.
Established(k) ==
    /\ Paired(k) /\ Is(k, "connected")
    /\ k.heads = IF Is(k, "direct") THEN 0 ELSE 1
    /\ ~On(k, "delayTimer") /\ ~Is(k, "calledOff") /\ ~Is(k, "addr")
    /\ (On(k, "serverSend") <=> k.down) /\ (On(k, "remoteRecv") <=> ~k.down)
    /\ On(k, "serverRecv") <=> k.up = {}
    /\ On(k, "remoteSend") <=> k.up # {} /\ ~Is(k, "stranded")
    /\ Is(k, "stranded") => k.up # {}

\* Not connected yet, so nothing came back.
Dialling(k) ==
    /\ Paired(k) /\ ~Is(k, "connected") /\ ~Is(k, "stranded")
    /\ ~k.down /\ ~On(k, "remoteRecv") /\ ~On(k, "serverSend")
    /\ On(k, "remoteSend") => ~On(k, "delayTimer") /\ ~Is(k, "calledOff")
    /\ ~On(k, "remoteSend") => /\ On(k, "serverRecv") /\ ~On(k, "connectTimer") /\ k.up = {}
                               /\ On(k, "delayTimer") <=> ~Is(k, "calledOff")

\* ss-local before the destination is known, and while it connects: the header
\* is there once the writer was started.
LocalGreeting(k) ==
    /\ k \in State /\ k.heap = {"server"} /\ k.ptr = {} /\ k.on = {"serverRecv"} /\ k.stage # "STREAM"
    /\ k.up = {} /\ ~k.down /\ k.heads = 0 /\ k.mark = {}

LocalDialling(k) ==
    /\ Dialling(k) /\ ~Is(k, "addr")
    /\ On(k, "serverRecv") <=> ~On(k, "remoteSend")
    /\ k.heads = IF On(k, "serverRecv") \/ Is(k, "direct") THEN 0 ELSE 1

TunnelDialling(k) ==
    /\ Dialling(k) /\ On(k, "remoteSend") /\ ~On(k, "serverRecv")
    /\ k.up = {} /\ k.heads = 0 /\ ~Is(k, "direct")

RedirDialling(k) ==
    /\ Dialling(k) /\ (~On(k, "remoteSend") => Is(k, "addr"))
    /\ On(k, "serverRecv") <=> k.up = {}
    /\ k.heads = 0 /\ ~Is(k, "direct")

\* What holds of one connection of each program.  CallbacksSafe is not
\* inductive: that a callback finds its buffers as it expects them needs to be
\* told which watchers run in which part of a connection's life, and what was
\* put into the stream by then.
Good(p, k) ==
    \/ p = "local" /\ (k = NoConn \/ LocalGreeting(k) \/ LocalDialling(k) \/ (Established(k) /\ ~Is(k, "stranded")))
    \/ p = "tunnel" /\ (Closed(k) \/ TunnelDialling(k) \/ (Established(k) /\ ~Is(k, "stranded") /\ ~Is(k, "direct")))
    \/ p = "redir" /\ (Closed(k) \/ RedirDialling(k) \/ (Established(k) /\ ~Is(k, "direct")))

IInv ==
    /\ program \in Program /\ fastOpen \in BOOLEAN
    /\ conn \in [Conn -> State]
    /\ \A c \in Conn : Good(program, conn[c])

\* From k to m the abstract relay makes a step or none.
Moves(k, m) ==
    \/ RelayPhase(m) = RelayPhase(k) /\ RelayUp(m) = RelayUp(k) /\ RelayDown(m) = RelayDown(k)
    \/ RelayPhase(m) = "none" /\ RelayPhase(k) # "none" /\ RelayUp(m) = "empty" /\ RelayDown(m) = "empty"
    \/ RelayPhase(k) = "none" /\ RelayPhase(m) = "asked" /\ RelayUp(m) = "empty" /\ RelayDown(m) = "empty"
    \/ RelayPhase(k) = "asked" /\ RelayPhase(m) = "open" /\ RelayUp(m) \in {"empty", "full"} /\ RelayDown(m) = RelayDown(k)
    \/ /\ RelayPhase(k) = "asked" /\ RelayPhase(m) = "asked"
       /\ RelayUp(k) = "empty" /\ RelayUp(m) = "full" /\ RelayDown(m) = RelayDown(k)
    \/ /\ RelayPhase(k) = "open" /\ RelayPhase(m) = "open" /\ RelayDown(m) = RelayDown(k)
       /\ {RelayUp(k), RelayUp(m)} = {"empty", "full"}
    \/ /\ RelayPhase(k) = "open" /\ RelayPhase(m) = "open" /\ RelayUp(m) = RelayUp(k)
       /\ {RelayDown(k), RelayDown(m)} = {"empty", "full"}

USE DEF State, Object, Pointer, Watcher, Has, Points, On, Is, If

-----------------------------------------------------------------------------
(* What each part of a life is to the abstract relay *)

LEMMA ClosedMaps ==
    ASSUME NEW k, Closed(k)
    PROVE  RelayPhase(k) = "none" /\ RelayUp(k) = "empty" /\ RelayDown(k) = "empty"
BY DEF Closed, NoConn, Mark, RelayPhase, RelayUp, RelayDown

LEMMA DiallingMaps ==
    ASSUME NEW k, Dialling(k) \/ LocalGreeting(k)
    PROVE  /\ RelayPhase(k) = "asked" /\ RelayUp(k) = (IF k.up = {} THEN "empty" ELSE "full")
           /\ RelayDown(k) = "empty"
BY DEF Dialling, Paired, LocalGreeting, RelayPhase, RelayUp, RelayDown

LEMMA EstablishedMaps ==
    ASSUME NEW k, Established(k)
    PROVE  /\ RelayPhase(k) = "open" /\ RelayUp(k) = (IF k.up = {} THEN "empty" ELSE "full")
           /\ RelayDown(k) = (IF k.down THEN "full" ELSE "empty")
BY DEF Established, Paired, RelayPhase, RelayUp, RelayDown

\* A connection ends, opens, takes its first data, and flows.
LEMMA Ends ==
    ASSUME NEW p, NEW k, Good(p, k)
    PROVE  Moves(k, NoConn)
<1>1. Closed(NoConn)
  BY DEF Closed
<1>2. Closed(k) \/ Dialling(k) \/ LocalGreeting(k) \/ Established(k)
  BY DEF Good, Closed, LocalDialling, TunnelDialling, RedirDialling
<1> QED
  BY <1>1, <1>2, ClosedMaps, DiallingMaps, EstablishedMaps DEF Moves

LEMMA Stays ==
    ASSUME NEW k, NEW m, Closed(k), Closed(m)
    PROVE  Moves(k, m)
BY ClosedMaps DEF Moves

LEMMA Same ==
    ASSUME NEW p, NEW k, Good(p, k), NEW m, m = k
    PROVE  Good(p, m) /\ Moves(k, m)
BY DEF Good, Moves

LEMMA Asks ==
    ASSUME NEW k, NEW m, Closed(k), Dialling(m) \/ LocalGreeting(m), m.up = {}
    PROVE  Moves(k, m)
BY ClosedMaps, DiallingMaps DEF Moves

LEMMA Keeps ==
    ASSUME NEW k, NEW m, Dialling(k) \/ LocalGreeting(k), Dialling(m) \/ LocalGreeting(m), k.up = {}
    PROVE  Moves(k, m)
BY DiallingMaps DEF Moves

LEMMA Opens ==
    ASSUME NEW k, NEW m, Dialling(k), Established(m), ~m.down
    PROVE  Moves(k, m)
BY DiallingMaps, EstablishedMaps DEF Moves

LEMMA FlowsUp ==
    ASSUME NEW k, NEW m, Established(k), Established(m), k.down = m.down
    PROVE  Moves(k, m)
BY EstablishedMaps DEF Moves

LEMMA FlowsDown ==
    ASSUME NEW k, NEW m, Established(k), Established(m), k.up = m.up
    PROVE  Moves(k, m)
BY EstablishedMaps DEF Moves

\* ev_io_stop and the like touch nothing else.
LEMMA SwitchParts ==
    ASSUME NEW k \in State, NEW off, NEW on \in SUBSET Watcher, NEW m, m = Switch(k, off, on)
    PROVE  /\ m \in State /\ m.heap = k.heap /\ m.ptr = k.ptr /\ m.stage = k.stage /\ m.up = k.up
           /\ m.down = k.down /\ m.heads = k.heads /\ m.mark = k.mark /\ m.on = (k.on \ off) \cup on
BY DEF Switch

\* recv into an empty buffer.
LEMMA GotParts ==
    ASSUME NEW k \in State, k.up = {}, NEW m, m = ReceivedUp(k)
    PROVE  /\ m \in State /\ m.heap = k.heap /\ m.ptr = k.ptr /\ m.stage = k.stage /\ m.up = {"data"}
           /\ m.down = k.down /\ m.heads = k.heads /\ m.mark = k.mark /\ m.on = k.on
<1>1. PICK n : n = [k EXCEPT !.up = k.up \cup {"data"}]
  OBVIOUS
<1>2. /\ n \in State /\ n.heap = k.heap /\ n.ptr = k.ptr /\ n.stage = k.stage /\ n.up = {"data"}
      /\ n.down = k.down /\ n.heads = k.heads /\ n.mark = k.mark /\ n.on = k.on
  BY <1>1
<1>3. m = Mark(n, {})
  BY <1>1 DEF ReceivedUp
<1> QED
  BY <1>2, <1>3 DEF Mark

\* What is left by a send that does not send everything.
LEMMA RestLeft ==
    ASSUME NEW k \in State, k.up # {}, NEW m \in Rest(k)
    PROVE  /\ m \in State /\ m.up # {}
           /\ m.heap = k.heap /\ m.ptr = k.ptr /\ m.on = k.on /\ m.stage = k.stage
           /\ m.down = k.down /\ m.heads = k.heads /\ m.mark = k.mark
<1>1. PICK S \in {{}, {"header"}} \ {k.up} : m = [k EXCEPT !.up = k.up \ S]
  BY DEF Rest
<1>2. k.up \ S # {}
  BY <1>1
<1> QED
  BY <1>1, <1>2

\* What is left of a connection that was closed.
LEMMA ClosedParts ==
    ASSUME NEW k, Closed(k)
    PROVE  /\ k \in State /\ k.heap = {} /\ k.ptr = {} /\ k.on = {} /\ k.up = {} /\ ~k.down
           /\ k.heads = 0 /\ k.mark \subseteq {"leaked"}
<1>1. CASE k = NoConn
  BY <1>1 DEF NoConn
<1>2. CASE k = Mark(NoConn, {"leaked"})
  <2>1. PICK n : n = NoConn
    OBVIOUS
  <2>2. /\ n \in State /\ n.heap = {} /\ n.ptr = {} /\ n.on = {} /\ n.up = {} /\ ~n.down
        /\ n.heads = 0 /\ n.mark = {}
    BY <2>1 DEF NoConn
  <2>3. k = [n EXCEPT !.mark = n.mark \cup {"leaked"}]
    BY <1>2, <2>1 DEF Mark
  <2> QED
    BY <2>2, <2>3
<1> QED
  BY <1>1, <1>2 DEF Closed

\* Nothing runs for it.
LEMMA Runs ==
    ASSUME NEW k, NEW w, On(k, w)
    PROVE  ~Closed(k)
<1> SUFFICES ASSUME Closed(k) PROVE FALSE
  OBVIOUS
<1>1. k.on = {}
  BY ClosedParts
<1> QED
  BY <1>1

\* The parts of a life, and the type of what has one.
LEMMA Parts ==
    ASSUME NEW k
    PROVE  /\ Good("local", k) => k = NoConn \/ LocalGreeting(k) \/ LocalDialling(k) \/ (Established(k) /\ ~Is(k, "stranded"))
           /\ Good("tunnel", k) => Closed(k) \/ TunnelDialling(k) \/ (Established(k) /\ ~Is(k, "stranded") /\ ~Is(k, "direct"))
           /\ Good("redir", k) => Closed(k) \/ RedirDialling(k) \/ (Established(k) /\ ~Is(k, "direct"))
           /\ Established(k) \/ Dialling(k) => Paired(k) /\ k \in State
           /\ LocalGreeting(k) => k \in State
           /\ LocalDialling(k) \/ TunnelDialling(k) \/ RedirDialling(k) => Dialling(k)
           /\ Closed(NoConn)
<1>1. Closed(NoConn)
  BY DEF Closed
<1>2. LocalGreeting(k) => k \in State
  BY DEF LocalGreeting
<1>3. Established(k) \/ Dialling(k) => Paired(k) /\ k \in State
  BY DEF Established, Dialling, Paired
<1>4. LocalDialling(k) \/ TunnelDialling(k) \/ RedirDialling(k) => Dialling(k)
  BY DEF LocalDialling, TunnelDialling, RedirDialling
<1> QED
  BY <1>1, <1>2, <1>3, <1>4 DEF Good

\* close_and_free_remote and close_and_free_server, in either order.
LEMMA LocalPairGone ==
    ASSUME NEW k \in State, k.heap = Object, k.ptr = Pointer
    PROVE  LocalHungUp(k) = NoConn /\ LocalShutDown(k) = NoConn
<1>1. PICK f, g : f = FreedRemote(k) /\ g = FreedServer(k)
  OBVIOUS
<1>2. /\ f \in State /\ f.heap = {"server"} /\ f.ptr = {}
      /\ f.on \cap {"remoteRecv", "remoteSend", "connectTimer"} = {}
  BY <1>1 DEF FreedRemote
<1>3. FreedServer(f).heap = {} /\ FreedServer(f).on = {}
  BY <1>2 DEF FreedServer
<1>4. /\ g \in State /\ g.heap = {"remote"} /\ g.ptr = {}
      /\ g.on \cap {"serverRecv", "serverSend", "delayTimer"} = {}
  BY <1>1 DEF FreedServer
<1>5. FreedRemote(g).heap = {} /\ FreedRemote(g).on = {}
  BY <1>4 DEF FreedRemote
<1> QED
  BY <1>1, <1>3, <1>5 DEF LocalHungUp, LocalShutDown, Gone

\* Every callback may close the connection.
LEMMA HungUps ==
    ASSUME NEW k
    PROVE  /\ Good("local", k) => LocalHungUp(k) = NoConn /\ LocalShutDown(k) = NoConn
           /\ Good("tunnel", k) => TunnelHungUp(k) = NoConn
           /\ Good("redir", k) => RedirHungUp(k) = NoConn
<1>1. ASSUME Good("redir", k) PROVE RedirHungUp(k) = NoConn
  <2>1. k \in State
    BY <1>1, Parts, ClosedParts
  <2> QED
    BY <2>1 DEF RedirHungUp, Gone
<1>2. ASSUME Good("tunnel", k) PROVE TunnelHungUp(k) = NoConn
  <2>1. k \in State
    BY <1>2, Parts, ClosedParts
  <2>2. "delayTimer" \notin k.on
    BY <1>2, Parts, ClosedParts DEF TunnelDialling, Dialling, Established
  <2> QED
    BY <2>1, <2>2 DEF TunnelHungUp, Gone
<1>3. ASSUME Good("local", k) PROVE LocalHungUp(k) = NoConn /\ LocalShutDown(k) = NoConn
  <2>1. k \in State
    BY <1>3, Parts, ClosedParts
  <2>2. \/ k.heap = {"server"} /\ k.ptr = {} /\ k.on = {"serverRecv"}
        \/ k.heap = {} /\ k.ptr = {} /\ k.on = {}
        \/ k.heap = Object /\ k.ptr = Pointer
    BY <1>3, Parts, ClosedParts DEF LocalGreeting, Paired
  <2>4. PICK g : g = FreedServer(k)
    OBVIOUS
  <2>5. CASE k.heap = Object /\ k.ptr = Pointer
    BY <2>1, <2>5, LocalPairGone
  <2>6. CASE k.heap \in {{}, {"server"}} /\ k.ptr = {} /\ k.on \subseteq {"serverRecv"}
    <3>1. g.heap = {} /\ g.on = {}
      BY <2>1, <2>4, <2>6 DEF FreedServer
    <3> QED
      BY <2>4, <2>6, <3>1 DEF LocalHungUp, LocalShutDown, Gone
  <2> QED
    BY <2>2, <2>5, <2>6
<1> QED
  BY <1>1, <1>2, <1>3

\* In every program, a connection may close in every step.
LEMMA ClosesGood ==
    ASSUME NEW p \in Program, NEW k, Good(p, k)
    PROVE  Good(p, NoConn) /\ Moves(k, NoConn)
BY Ends DEF Good, Closed, Program

-----------------------------------------------------------------------------
(* Established connections: what the programs do alike *)

\* server_send_cb sends everything to the client.
LEMMA SentDown ==
    ASSUME NEW k, Established(k), k.down, NEW m,
           m = Switch([k EXCEPT !.down = FALSE], {"serverSend"}, {"remoteRecv"})
    PROVE  Established(m) /\ m.mark = k.mark /\ Moves(k, m)
<1>1. /\ m \in State /\ m.heap = k.heap /\ m.ptr = k.ptr /\ m.stage = k.stage /\ m.up = k.up /\ ~m.down
      /\ m.heads = k.heads /\ m.mark = k.mark /\ m.on = (k.on \ {"serverSend"}) \cup {"remoteRecv"}
  BY DEF Switch, Established, Paired
<1>2. Established(m)
  BY <1>1 DEF Established, Paired
<1> QED
  BY <1>1, <1>2, FlowsDown

\* remote_recv_cb receives something for the client.
LEMMA GotDown ==
    ASSUME NEW k, Established(k), On(k, "remoteRecv"), NEW m,
           m = Switch(ReceivedDown(k), {"remoteRecv"}, {"serverSend"})
    PROVE  Established(m) /\ m.mark = k.mark /\ Moves(k, m)
<1>1. k \in State /\ ~k.down
  BY DEF Established, Paired
<1>2. /\ m \in State /\ m.heap = k.heap /\ m.ptr = k.ptr /\ m.stage = k.stage /\ m.up = k.up /\ m.down
      /\ m.heads = k.heads /\ m.mark = k.mark /\ m.on = (k.on \ {"remoteRecv"}) \cup {"serverSend"}
  BY <1>1 DEF Switch, ReceivedDown, Mark
<1>3. Established(m)
  BY <1>2 DEF Established, Paired
<1> QED
  BY <1>2, <1>3, FlowsDown

\* A writer that has something left goes on.
LEMMA SentSome ==
    ASSUME NEW k, Established(k), On(k, "remoteSend"), NEW m \in State, m.up # {},
           m.heap = k.heap, m.ptr = k.ptr, m.stage = k.stage, m.down = k.down, m.heads = k.heads,
           m.mark = k.mark, m.on \ {"connectTimer"} = k.on \ {"connectTimer"}
    PROVE  Established(m) /\ Moves(k, m)
<1>1. \A w \in Watcher \ {"connectTimer"} : On(m, w) <=> On(k, w)
  OBVIOUS
<1>2. Established(m)
  BY <1>1 DEF Established, Paired
<1> QED
  BY <1>2, FlowsUp

\* A writer that sent everything gives way to the reader.
LEMMA SentAll ==
    ASSUME NEW k, Established(k), On(k, "remoteSend"), NEW m \in State, m.up = {},
           m.heap = k.heap, m.ptr = k.ptr, m.stage = k.stage, m.down = k.down, m.heads = k.heads,
           m.mark = k.mark, m.on \ {"connectTimer"} = ((k.on \ {"remoteSend"}) \cup {"serverRecv"}) \ {"connectTimer"}
    PROVE  Established(m) /\ Moves(k, m)
<1>1. /\ \A w \in Watcher \ {"connectTimer", "remoteSend", "serverRecv"} : On(m, w) <=> On(k, w)
      /\ On(m, "serverRecv") /\ ~On(m, "remoteSend")
  OBVIOUS
<1>2. Established(m)
  BY <1>1 DEF Established, Paired
<1> QED
  BY <1>2, FlowsUp

\* A reader whose data could not be sent completely gives way to the writer.
LEMMA GotUp ==
    ASSUME NEW k, Established(k), On(k, "serverRecv"), NEW m \in State, m.up # {},
           m.heap = k.heap, m.ptr = k.ptr, m.stage = k.stage, m.down = k.down, m.heads = k.heads,
           m.mark = k.mark, m.on = (k.on \ {"serverRecv"}) \cup {"remoteSend"}
    PROVE  Established(m) /\ Moves(k, m)
<1>1. Established(m)
  BY DEF Established, Paired
<1> QED
  BY <1>1, FlowsUp

\* The connection is there: reader or writer follow what is left to send.
LEMMA Connects ==
    ASSUME NEW k, Dialling(k), On(k, "remoteSend"), NEW m \in State,
           m.heap = k.heap, m.ptr = k.ptr, m.stage = k.stage, m.down = k.down,
           m.heads = IF Is(k, "direct") THEN 0 ELSE 1,
           m.mark \ {"stranded"} = (k.mark \ {"addr"}) \cup {"connected"},
           On(m, "remoteRecv"), ~On(m, "serverSend"), ~On(m, "delayTimer"),
           On(m, "serverRecv") <=> m.up = {},
           On(m, "remoteSend") <=> m.up # {} /\ ~Is(m, "stranded"), Is(m, "stranded") => m.up # {}
    PROVE  Established(m) /\ Moves(k, m) /\ (Is(m, "direct") <=> Is(k, "direct"))
<1>1. /\ \A x \in {"garbled", "leaked", "calledOff", "direct"} : Is(m, x) <=> Is(k, x)
      /\ Is(m, "connected") /\ ~Is(m, "addr")
  OBVIOUS
<1>2. Established(m)
  BY <1>1 DEF Dialling, Paired, Established
<1>3. ~m.down
  BY DEF Dialling
<1> QED
  BY <1>1, <1>2, <1>3, Opens

\* The header of a connection that has just come about.
LEMMA HeadedParts ==
    ASSUME NEW k \in State, k.heads = 0, NEW n, n = Mark(k, {"connected"}), NEW m, m = Headed(n)
    PROVE  /\ m \in State /\ m.heap = k.heap /\ m.ptr = k.ptr /\ m.stage = k.stage /\ m.on = k.on
           /\ m.down = k.down /\ m.heads = 1 /\ m.mark = k.mark \cup {"connected"} /\ m.up = k.up \cup {"header"}
<1>1. /\ n \in State /\ n.heap = k.heap /\ n.ptr = k.ptr /\ n.stage = k.stage /\ n.on = k.on
      /\ n.down = k.down /\ n.heads = 0 /\ n.mark = k.mark \cup {"connected"} /\ n.up = k.up
  BY DEF Mark
<1>2. PICK a : a = [n EXCEPT !.up = n.up \cup {"header"}]
  OBVIOUS
<1>3. /\ a \in State /\ a.heap = n.heap /\ a.ptr = n.ptr /\ a.stage = n.stage /\ a.on = n.on
      /\ a.down = n.down /\ a.heads = 0 /\ a.mark = n.mark /\ a.up = n.up \cup {"header"}
  BY <1>1, <1>2
<1>4. m = [a EXCEPT !.heads = IF n.heads < 2 THEN n.heads + 1 ELSE 2]
  BY <1>2 DEF Headed
<1>5. m = [a EXCEPT !.heads = 1]
  BY <1>1, <1>4
<1>6. /\ m \in State /\ m.heap = a.heap /\ m.ptr = a.ptr /\ m.stage = a.stage /\ m.on = a.on
      /\ m.down = a.down /\ m.heads = 1 /\ m.mark = a.mark /\ m.up = a.up
  BY <1>3, <1>5
<1> QED
  BY <1>1, <1>3, <1>6

\* A new pair, of ss-tunnel or of ss-redir.
LEMMA NewPair ==
    ASSUME NEW w \in SUBSET Watcher, NEW k,
           k = Switch(Linked([NoConn EXCEPT !.stage = "STREAM"]), {}, w)
    PROVE  /\ k \in State /\ k.heap = Object /\ k.ptr = Pointer /\ k.stage = "STREAM"
           /\ k.on = w /\ k.up = {} /\ ~k.down /\ k.heads = 0 /\ k.mark = {}
<1>1. PICK n : n = NoConn
  OBVIOUS
<1>2. /\ n \in State /\ n.on = {} /\ n.up = {} /\ ~n.down /\ n.heads = 0 /\ n.mark = {}
  BY <1>1 DEF NoConn
<1>3. PICK l : l = Linked([n EXCEPT !.stage = "STREAM"])
  OBVIOUS
<1>4. /\ l \in State /\ l.heap = Object /\ l.ptr = Pointer /\ l.stage = "STREAM"
      /\ l.on = {} /\ l.up = {} /\ ~l.down /\ l.heads = 0 /\ l.mark = {}
  BY <1>2, <1>3 DEF Linked
<1>5. k = Switch(l, {}, w)
  BY <1>1, <1>3
<1>6. /\ k \in State /\ k.heap = l.heap /\ k.ptr = l.ptr /\ k.stage = l.stage /\ k.up = l.up
      /\ k.down = l.down /\ k.heads = l.heads /\ k.mark = l.mark /\ k.on = (l.on \ {}) \cup w
  <2>1. l \in State
    BY <1>4
  <2> QED
    BY <1>5, <2>1, SwitchParts
<1> QED
  BY <1>4, <1>6

-----------------------------------------------------------------------------
(* ss-tunnel *)

LEMMA TunnelAcceptGood ==
    ASSUME NEW fo \in BOOLEAN, NEW m \in TunnelAccept(fo)
    PROVE  Good("tunnel", m) /\ Moves(NoConn, m)
<1>1. PICK pair : pair = Switch(TunnelPair, {}, {"remoteSend", "connectTimer"})
  OBVIOUS
<1>2. /\ pair \in State /\ pair.heap = Object /\ pair.ptr = Pointer /\ pair.stage = "STREAM"
      /\ pair.on = {"remoteSend", "connectTimer"} /\ pair.up = {} /\ ~pair.down /\ pair.heads = 0 /\ pair.mark = {}
  BY <1>1, NewPair DEF TunnelPair
<1>3. TunnelDialling(pair)
  BY <1>2 DEF TunnelDialling, Dialling, Paired
<1>4. CASE m = Mark(NoConn, {"leaked"}) \/ m = NoConn
  <2>1. Closed(m) /\ Closed(NoConn)
    BY <1>4 DEF Closed
  <2> QED
    BY <2>1, Stays DEF Good
<1>5. CASE m = pair \/ m = Mark(pair, {"addr"})
  <2>1. TunnelDialling(m)
    BY <1>2, <1>3, <1>5 DEF TunnelDialling, Dialling, Paired, Mark
  <2>2. Dialling(m) /\ m.up = {} /\ Closed(NoConn)
    BY <2>1, Parts DEF TunnelDialling
  <2> QED
    BY <2>1, <2>2, Asks DEF Good
<1>6. TunnelHungUp(pair) = NoConn
  BY <1>3, HungUps DEF Good
<1> QED
  BY <1>1, <1>4, <1>5, <1>6 DEF TunnelAccept

LEMMA TunnelServerRecvGood ==
    ASSUME NEW k, Good("tunnel", k), On(k, "serverRecv"), NEW m \in TunnelServerRecv(k)
    PROVE  Good("tunnel", m) /\ Moves(k, m)
<1>1. Established(k) /\ ~Is(k, "stranded") /\ ~Is(k, "direct") /\ k \in State /\ k.ptr = Pointer /\ k.up = {}
  BY Parts, ClosedParts DEF TunnelDialling, Established, Paired
<1>2. PICK d : d = ReceivedUp(k)
  OBVIOUS
<1>3. /\ d \in State /\ d.heap = k.heap /\ d.ptr = k.ptr /\ d.stage = k.stage /\ d.down = k.down
      /\ d.heads = k.heads /\ d.mark = k.mark /\ d.on = k.on /\ d.up = {"data"}
  BY <1>1, <1>2, GotParts
<1>4. TunnelServerRecv(k) = {TunnelHungUp(k), k, [d EXCEPT !.up = {}]} \cup {Switch(r, {"serverRecv"}, {"remoteSend"}) : r \in Rest(d)}
  BY <1>1, <1>2 DEF TunnelServerRecv
<1>5. CASE m = TunnelHungUp(k)
  BY <1>5, HungUps, ClosesGood DEF Program
<1>6. CASE m = k
  BY <1>6, Same
<1>7. CASE m = [d EXCEPT !.up = {}]
  <2>1. m = k
    BY <1>1, <1>3, <1>7
  <2> QED
    BY <2>1, Same
<1>8. ASSUME NEW r \in Rest(d), m = Switch(r, {"serverRecv"}, {"remoteSend"})
      PROVE  Good("tunnel", m) /\ Moves(k, m)
  <2>1. /\ r \in State /\ r.up # {} /\ r.heap = d.heap /\ r.ptr = d.ptr /\ r.on = d.on /\ r.stage = d.stage
        /\ r.down = d.down /\ r.heads = d.heads /\ r.mark = d.mark
    BY <1>3, RestLeft
  <2>2. /\ m \in State /\ m.up # {} /\ m.heap = k.heap /\ m.ptr = k.ptr /\ m.stage = k.stage /\ m.down = k.down
        /\ m.heads = k.heads /\ m.mark = k.mark /\ m.on = (k.on \ {"serverRecv"}) \cup {"remoteSend"}
    BY <1>3, <1>8, <2>1 DEF Switch
  <2>3. Established(m) /\ Moves(k, m)
    BY <1>1, <2>2, GotUp
  <2> QED
    BY <1>1, <2>2, <2>3 DEF Good
<1> QED
  BY <1>4, <1>5, <1>6, <1>7, <1>8

LEMMA TunnelServerSendGood ==
    ASSUME NEW k, Good("tunnel", k), On(k, "serverSend"), NEW m \in TunnelServerSend(k)
    PROVE  Good("tunnel", m) /\ Moves(k, m)
<1>1. Established(k) /\ ~Is(k, "stranded") /\ ~Is(k, "direct") /\ k.ptr = Pointer /\ k.down
  BY Parts, ClosedParts DEF TunnelDialling, Dialling, Established, Paired
<1>2. \/ m = TunnelHungUp(k) \/ m = k
      \/ m = Switch([k EXCEPT !.down = FALSE], {"serverSend"}, {"remoteRecv"})
  BY <1>1 DEF TunnelServerSend
<1>3. CASE m = TunnelHungUp(k)
  BY <1>3, HungUps, ClosesGood DEF Program
<1>4. CASE m = k
  BY <1>4, Same
<1>5. CASE m = Switch([k EXCEPT !.down = FALSE], {"serverSend"}, {"remoteRecv"})
  BY <1>1, <1>5, SentDown DEF Good
<1> QED
  BY <1>2, <1>3, <1>4, <1>5

LEMMA TunnelRemoteRecvGood ==
    ASSUME NEW k, Good("tunnel", k), On(k, "remoteRecv"), NEW m \in TunnelRemoteRecv(k)
    PROVE  Good("tunnel", m) /\ Moves(k, m)
<1>1. Established(k) /\ ~Is(k, "stranded") /\ ~Is(k, "direct")
  BY Parts, ClosedParts DEF TunnelDialling, Dialling
<1>2. CASE m = TunnelHungUp(k)
  BY <1>2, HungUps, ClosesGood DEF Program
<1>3. CASE m = k
  BY <1>3, Same
<1>4. CASE m = Switch(ReceivedDown(k), {"remoteRecv"}, {"serverSend"})
  BY <1>1, <1>4, GotDown DEF Good
<1> QED
  BY <1>2, <1>3, <1>4 DEF TunnelRemoteRecv

\* remote_send_cb, of a connection that is there.
LEMMA TunnelRemoteSendOn ==
    ASSUME NEW k, Good("tunnel", k), On(k, "remoteSend"), Is(k, "connected"), NEW m \in TunnelRemoteSend(k)
    PROVE  Good("tunnel", m) /\ Moves(k, m)
<1>1. Established(k) /\ ~Is(k, "stranded") /\ ~Is(k, "direct") /\ k \in State /\ k.up # {} /\ ~Is(k, "addr")
  BY Parts, ClosedParts DEF TunnelDialling, Dialling, Established, Paired
<1>2. PICK s : s = Switch(k, {"connectTimer"}, {})
  OBVIOUS
<1>3. /\ s \in State /\ s.heap = k.heap /\ s.ptr = k.ptr /\ s.stage = k.stage /\ s.up = k.up
      /\ s.down = k.down /\ s.heads = k.heads /\ s.mark = k.mark /\ s.on = k.on \ {"connectTimer"}
  BY <1>1, <1>2 DEF Switch
<1>4. TunnelRemoteSend(k) = {TunnelHungUp(k)} \cup {Switch([s EXCEPT !.up = {}], {"remoteSend"}, {"serverRecv"})} \cup Rest(s)
  BY <1>1, <1>2, <1>3 DEF TunnelRemoteSend, TunnelSend
<1>5. CASE m = TunnelHungUp(k)
  BY <1>5, HungUps, ClosesGood DEF Program
<1>6. CASE m = Switch([s EXCEPT !.up = {}], {"remoteSend"}, {"serverRecv"})
  <2>1. /\ m \in State /\ m.up = {} /\ m.heap = k.heap /\ m.ptr = k.ptr /\ m.stage = k.stage /\ m.down = k.down
        /\ m.heads = k.heads /\ m.mark = k.mark
        /\ m.on \ {"connectTimer"} = ((k.on \ {"remoteSend"}) \cup {"serverRecv"}) \ {"connectTimer"}
    BY <1>3, <1>6 DEF Switch
  <2>2. Established(m) /\ Moves(k, m)
    BY <1>1, <2>1, SentAll
  <2> QED
    BY <1>1, <2>1, <2>2 DEF Good
<1>7. CASE m \in Rest(s)
  <2>1. /\ m \in State /\ m.up # {} /\ m.heap = k.heap /\ m.ptr = k.ptr /\ m.stage = k.stage /\ m.down = k.down
        /\ m.heads = k.heads /\ m.mark = k.mark /\ m.on = s.on
    BY <1>1, <1>3, <1>7, RestLeft
  <2>2. m.on \ {"connectTimer"} = k.on \ {"connectTimer"}
    BY <1>3, <2>1
  <2>3. Established(m) /\ Moves(k, m)
    BY <1>1, <2>1, <2>2, SentSome
  <2> QED
    BY <1>1, <2>1, <2>3 DEF Good
<1> QED
  BY <1>4, <1>5, <1>6, <1>7

\* remote_send_cb, of a connection that has just come about: the header is all
\* there is to send.
LEMMA TunnelRemoteSendFirst ==
    ASSUME NEW k, Good("tunnel", k), On(k, "remoteSend"), ~Is(k, "connected"), NEW m \in TunnelRemoteSend(k)
    PROVE  Good("tunnel", m) /\ Moves(k, m)
<1>1. TunnelDialling(k) /\ Dialling(k) /\ k \in State
  BY Parts, ClosedParts DEF Established
<1>2. /\ k.up = {} /\ k.heads = 0 /\ ~k.down /\ ~On(k, "serverRecv") /\ ~On(k, "serverSend") /\ ~On(k, "delayTimer")
      /\ ~Is(k, "direct") /\ ~Is(k, "stranded")
  BY <1>1 DEF TunnelDialling, Dialling
<1>3. PICK s : s = Switch(k, {"connectTimer"}, {})
  OBVIOUS
<1>4. /\ s \in State /\ s.heap = k.heap /\ s.ptr = k.ptr /\ s.stage = k.stage /\ s.up = {}
      /\ s.down = k.down /\ s.heads = 0 /\ s.mark = k.mark /\ s.on = k.on \ {"connectTimer"}
  BY <1>1, <1>2, <1>3 DEF Switch
<1>5. PICK n : n = TunnelConnected(s)
  OBVIOUS
<1>6. /\ n \in State /\ n.heap = k.heap /\ n.ptr = k.ptr /\ n.stage = k.stage /\ n.up = {"header"}
      /\ n.down = k.down /\ n.heads = 1 /\ n.mark = k.mark \cup {"connected"}
      /\ n.on = (k.on \ {"connectTimer"}) \cup {"remoteRecv"}
  <2>1. PICK c, h : c = Mark(s, {"connected"}) /\ h = Headed(c)
    OBVIOUS
  <2>2. /\ h \in State /\ h.heap = s.heap /\ h.ptr = s.ptr /\ h.stage = s.stage /\ h.on = s.on
        /\ h.down = s.down /\ h.heads = 1 /\ h.mark = s.mark \cup {"connected"} /\ h.up = s.up \cup {"header"}
    BY <1>4, <2>1, HeadedParts
  <2>3. n = Switch(h, {}, {"remoteRecv"})
    BY <1>5, <2>1 DEF TunnelConnected
  <2>4. /\ n \in State /\ n.heap = h.heap /\ n.ptr = h.ptr /\ n.stage = h.stage /\ n.up = h.up
        /\ n.down = h.down /\ n.heads = h.heads /\ n.mark = h.mark /\ n.on = h.on \cup {"remoteRecv"}
    BY <2>2, <2>3 DEF Switch
  <2> QED
    BY <1>4, <2>2, <2>4
<1>7. PICK a : a = [n EXCEPT !.mark = n.mark \ {"addr"}]
  OBVIOUS
<1>8. /\ a \in State /\ a.heap = k.heap /\ a.ptr = k.ptr /\ a.stage = k.stage /\ a.up = {"header"}
      /\ a.down = k.down /\ a.heads = 1 /\ a.mark = (k.mark \ {"addr"}) \cup {"connected"} /\ a.on = n.on
  BY <1>6, <1>7
<1>9. \/ m = TunnelHungUp(k)
      \/ m = Switch(a, {}, {"remoteSend", "connectTimer"})
      \/ m = Switch([a EXCEPT !.up = {}], {"remoteSend"}, {"serverRecv"})
      \/ m \in Rest(a)
  <2>1. TunnelRemoteSend(k) = {TunnelHungUp(k)} \cup TunnelSend(n)
    BY <1>3, <1>5, <1>6 DEF TunnelRemoteSend
  <2>2. CASE ~Is(n, "addr")
    <3>1. a = n
      BY <1>6, <1>7, <2>2
    <3> QED
      BY <2>1, <2>2, <3>1 DEF TunnelSend
  <2>3. CASE Is(n, "addr")
    <3>1. PICK all : all = Switch([n EXCEPT !.up = {}], {"remoteSend"}, {"serverRecv"})
      OBVIOUS
    <3>2. [all EXCEPT !.mark = all.mark \ {"addr"}] = Switch([a EXCEPT !.up = {}], {"remoteSend"}, {"serverRecv"})
      BY <1>6, <1>7, <3>1 DEF Switch
    <3>3. TunnelSend(n) = {Switch(a, {}, {"remoteSend", "connectTimer"}), [all EXCEPT !.mark = all.mark \ {"addr"}]} \cup Rest(a)
      BY <1>7, <2>3, <3>1 DEF TunnelSend
    <3> QED
      BY <2>1, <3>2, <3>3
  <2> QED
    BY <2>2, <2>3
<1>10. CASE m = TunnelHungUp(k)
  BY <1>10, HungUps, ClosesGood DEF Program
<1>11. ASSUME /\ m \in State /\ m.heap = k.heap /\ m.ptr = k.ptr /\ m.stage = k.stage /\ m.down = k.down
              /\ m.heads = 1 /\ m.mark = (k.mark \ {"addr"}) \cup {"connected"}
              /\ On(m, "remoteRecv") /\ ~On(m, "serverSend") /\ ~On(m, "delayTimer")
              /\ (On(m, "serverRecv") <=> m.up = {}) /\ (On(m, "remoteSend") <=> m.up # {})
       PROVE  Good("tunnel", m) /\ Moves(k, m)
  <2>1. ~Is(m, "stranded") /\ m.mark \ {"stranded"} = (k.mark \ {"addr"}) \cup {"connected"}
    BY <1>2, <1>11
  <2>2. Established(m) /\ Moves(k, m) /\ ~Is(m, "direct")
    BY <1>1, <1>2, <1>11, <2>1, Connects
  <2> QED
    BY <2>1, <2>2 DEF Good
<1>12. CASE m = Switch(a, {}, {"remoteSend", "connectTimer"})
  <2>1. /\ m \in State /\ m.heap = a.heap /\ m.ptr = a.ptr /\ m.stage = a.stage /\ m.down = a.down
        /\ m.heads = a.heads /\ m.mark = a.mark /\ m.up = a.up /\ m.on = a.on \cup {"remoteSend", "connectTimer"}
    BY <1>8, <1>12 DEF Switch
  <2> QED
    BY <1>2, <1>6, <1>8, <1>11, <2>1
<1>13. CASE m = Switch([a EXCEPT !.up = {}], {"remoteSend"}, {"serverRecv"})
  <2>1. /\ m \in State /\ m.heap = a.heap /\ m.ptr = a.ptr /\ m.stage = a.stage /\ m.down = a.down
        /\ m.heads = a.heads /\ m.mark = a.mark /\ m.up = {} /\ m.on = (a.on \ {"remoteSend"}) \cup {"serverRecv"}
    BY <1>8, <1>13 DEF Switch
  <2> QED
    BY <1>2, <1>6, <1>8, <1>11, <2>1
<1>14. CASE m \in Rest(a)
  <2>1. /\ m \in State /\ m.heap = a.heap /\ m.ptr = a.ptr /\ m.stage = a.stage /\ m.down = a.down
        /\ m.heads = a.heads /\ m.mark = a.mark /\ m.up # {} /\ m.on = a.on
    BY <1>8, <1>14, RestLeft
  <2> QED
    BY <1>2, <1>6, <1>8, <1>11, <2>1
<1> QED
  BY <1>9, <1>10, <1>12, <1>13, <1>14

-----------------------------------------------------------------------------
(* ss-redir *)

LEMMA RedirAcceptGood ==
    ASSUME NEW fo \in BOOLEAN, NEW m \in RedirAccept(fo)
    PROVE  Good("redir", m) /\ Moves(NoConn, m)
<1>1. PICK pair : pair = Switch(RedirPair, {}, {"serverRecv"})
  OBVIOUS
<1>2. /\ pair \in State /\ pair.heap = Object /\ pair.ptr = Pointer /\ pair.stage = "STREAM"
      /\ pair.on = {"serverRecv"} /\ pair.up = {} /\ ~pair.down /\ pair.heads = 0 /\ pair.mark = {}
  BY <1>1, NewPair DEF RedirPair
<1>3. PICK a : a = Mark(pair, {"addr"})
  OBVIOUS
<1>4. /\ a \in State /\ a.heap = Object /\ a.ptr = Pointer /\ a.stage = "STREAM"
      /\ a.on = {"serverRecv"} /\ a.up = {} /\ ~a.down /\ a.heads = 0 /\ a.mark = {"addr"}
  BY <1>2, <1>3 DEF Mark
<1>5. \/ m = NoConn \/ m = Mark(NoConn, {"leaked"})
      \/ m = Switch(a, {}, {"delayTimer"}) \/ m = Switch(pair, {}, {"remoteSend", "connectTimer"})
  BY <1>1, <1>3 DEF RedirAccept
<1>6. CASE m = Mark(NoConn, {"leaked"}) \/ m = NoConn
  <2>1. Closed(m) /\ Closed(NoConn)
    BY <1>6 DEF Closed
  <2> QED
    BY <2>1, Stays DEF Good
<1>7. ASSUME RedirDialling(m), m.up = {} PROVE Good("redir", m) /\ Moves(NoConn, m)
  <2>1. Dialling(m) /\ Closed(NoConn)
    BY <1>7, Parts
  <2> QED
    BY <1>7, <2>1, Asks DEF Good
<1>8. CASE m = Switch(a, {}, {"delayTimer"})
  <2>1. /\ m \in State /\ m.heap = Object /\ m.ptr = Pointer /\ m.stage = "STREAM"
        /\ m.on = {"serverRecv", "delayTimer"} /\ m.up = {} /\ ~m.down /\ m.heads = 0 /\ m.mark = {"addr"}
    BY <1>4, <1>8 DEF Switch
  <2>2. RedirDialling(m)
    BY <2>1 DEF RedirDialling, Dialling, Paired
  <2> QED
    BY <1>7, <2>1, <2>2
<1>9. CASE m = Switch(pair, {}, {"remoteSend", "connectTimer"})
  <2>1. /\ m \in State /\ m.heap = Object /\ m.ptr = Pointer /\ m.stage = "STREAM"
        /\ m.on = {"serverRecv", "remoteSend", "connectTimer"} /\ m.up = {} /\ ~m.down /\ m.heads = 0 /\ m.mark = {}
    BY <1>2, <1>9 DEF Switch
  <2>2. RedirDialling(m)
    BY <2>1 DEF RedirDialling, Dialling, Paired
  <2> QED
    BY <1>7, <2>1, <2>2
<1> QED
  BY <1>5, <1>6, <1>8, <1>9

\* delayed_connect_cb: nothing was read until then.
LEMMA RedirDelayedGood ==
    ASSUME NEW k, Good("redir", k), On(k, "delayTimer"), NEW m \in RedirDelayed(k)
    PROVE  Good("redir", m) /\ Moves(k, m)
<1>1. RedirDialling(k) /\ Dialling(k) /\ k \in State
  BY Parts, ClosedParts DEF Established
<1>2. ~On(k, "remoteSend") /\ On(k, "serverRecv") /\ k.up = {}
  BY <1>1 DEF RedirDialling, Dialling
<1>3. PICK n, a : n = [k EXCEPT !.mark = k.mark \ {"addr"}] /\ a = Switch(n, {"delayTimer"}, {})
  OBVIOUS
<1>4. /\ n \in State /\ n.heap = k.heap /\ n.ptr = k.ptr /\ n.stage = k.stage /\ n.up = k.up
      /\ n.down = k.down /\ n.heads = k.heads /\ n.mark = k.mark \ {"addr"} /\ n.on = k.on
  BY <1>1, <1>3
<1>5. /\ a \in State /\ a.heap = k.heap /\ a.ptr = k.ptr /\ a.stage = k.stage /\ a.up = k.up
      /\ a.down = k.down /\ a.heads = k.heads /\ a.mark = k.mark \ {"addr"} /\ a.on = k.on \ {"delayTimer"}
  BY <1>3, <1>4 DEF Switch
<1>6. m = RedirHungUp(k) \/ m = Switch(a, {}, {"remoteSend", "connectTimer"})
  BY <1>3 DEF RedirDelayed
<1>7. CASE m = RedirHungUp(k)
  BY <1>7, HungUps, ClosesGood DEF Program
<1>8. CASE m = Switch(a, {}, {"remoteSend", "connectTimer"})
  <2>1. /\ m \in State /\ m.heap = k.heap /\ m.ptr = k.ptr /\ m.stage = k.stage /\ m.up = k.up
        /\ m.down = k.down /\ m.heads = k.heads /\ m.mark = k.mark \ {"addr"}
        /\ m.on = (k.on \ {"delayTimer"}) \cup {"remoteSend", "connectTimer"}
    BY <1>5, <1>8 DEF Switch
  <2>2. RedirDialling(m)
    BY <1>1, <1>2, <2>1 DEF RedirDialling, Dialling, Paired
  <2>3. Moves(k, m)
    BY <1>1, <1>2, <2>2, Parts, Keeps
  <2> QED
    BY <2>2, <2>3 DEF Good
<1> QED
  BY <1>6, <1>7, <1>8

LEMMA RedirServerRecvGood ==
    ASSUME NEW k, Good("redir", k), On(k, "serverRecv"), NEW m \in RedirServerRecv(k)
    PROVE  Good("redir", m) /\ Moves(k, m)
<1>1. (RedirDialling(k) /\ Dialling(k)) \/ (Established(k) /\ ~Is(k, "direct"))
  <2>1. ~Closed(k)
    BY Runs
  <2>2. RedirDialling(k) \/ (Established(k) /\ ~Is(k, "direct"))
    BY <2>1, Parts
  <2> QED
    BY <2>2, Parts
<1>2. k \in State /\ k.up = {} /\ ~Is(k, "stranded") /\ ~Is(k, "garbled")
  BY <1>1 DEF RedirDialling, Dialling, Established, Paired
<1>3. PICK s, t, d : /\ s = Switch(k, {"delayTimer"}, {}) /\ t = [s EXCEPT !.mark = s.mark \ {"calledOff"}]
                     /\ d = ReceivedUp(t)
  OBVIOUS
<1>4. /\ s \in State /\ s.heap = k.heap /\ s.ptr = k.ptr /\ s.stage = k.stage /\ s.up = k.up
      /\ s.down = k.down /\ s.heads = k.heads /\ s.mark = k.mark /\ s.on = k.on \ {"delayTimer"}
  BY <1>2, <1>3 DEF Switch
<1>5. /\ t \in State /\ t.heap = k.heap /\ t.ptr = k.ptr /\ t.stage = k.stage /\ t.up = k.up
      /\ t.down = k.down /\ t.heads = k.heads /\ t.mark = k.mark \ {"calledOff"} /\ t.on = k.on \ {"delayTimer"}
  BY <1>3, <1>4
<1>6. /\ d \in State /\ d.heap = k.heap /\ d.ptr = k.ptr /\ d.stage = k.stage /\ d.up = {"data"}
      /\ d.down = k.down /\ d.heads = k.heads /\ d.mark = k.mark \ {"calledOff"} /\ d.on = k.on \ {"delayTimer"}
  BY <1>2, <1>3, <1>5, GotParts
<1>7. CASE m = RedirHungUp(k)
  BY <1>7, HungUps, ClosesGood DEF Program
<1>8. CASE m = Mark(s, If(On(k, "delayTimer"), {"calledOff"}))
  <2>1. /\ m \in State /\ m.heap = k.heap /\ m.ptr = k.ptr /\ m.stage = k.stage /\ m.up = k.up
        /\ m.down = k.down /\ m.heads = k.heads /\ m.on = k.on \ {"delayTimer"}
        /\ m.mark = k.mark \cup If(On(k, "delayTimer"), {"calledOff"})
    BY <1>4, <1>8 DEF Mark
  <2>2. CASE RedirDialling(k) /\ Dialling(k)
    <3>1. RedirDialling(m)
      BY <2>1, <2>2 DEF RedirDialling, Dialling, Paired
    <3>2. Moves(k, m)
      BY <1>2, <2>2, <3>1, Parts, Keeps
    <3> QED
      BY <3>1, <3>2 DEF Good
  <2>3. CASE Established(k) /\ ~Is(k, "direct")
    <3>1. m = k
      BY <1>2, <2>1, <2>3 DEF Established
    <3> QED
      BY <3>1, Same
  <2> QED
    BY <1>1, <2>2, <2>3
<1>9. CASE RedirDialling(k) /\ Dialling(k) /\ m = Switch(d, {"serverRecv"}, {"remoteSend"})
  <2>1. /\ m \in State /\ m.heap = k.heap /\ m.ptr = k.ptr /\ m.stage = k.stage /\ m.up = {"data"}
        /\ m.down = k.down /\ m.heads = k.heads /\ m.mark = k.mark \ {"calledOff"}
        /\ m.on = (k.on \ {"delayTimer", "serverRecv"}) \cup {"remoteSend"}
    BY <1>6, <1>9 DEF Switch
  <2>2. RedirDialling(m)
    BY <1>9, <2>1 DEF RedirDialling, Dialling, Paired
  <2>3. Moves(k, m)
    BY <1>2, <1>9, <2>2, Parts, Keeps
  <2> QED
    BY <2>2, <2>3 DEF Good
<1>10. CASE Established(k) /\ ~Is(k, "direct") /\ m = [d EXCEPT !.up = {}]
  <2>1. ~On(k, "delayTimer") /\ ~Is(k, "calledOff")
    BY <1>10 DEF Established
  <2>2. m = k
    BY <1>2, <1>6, <1>10, <2>1
  <2> QED
    BY <2>2, Same
<1>11. ASSUME Established(k), ~Is(k, "direct"), NEW r \in Rest(d), m = Switch(r, {"serverRecv"}, {"remoteSend"})
       PROVE  Good("redir", m) /\ Moves(k, m)
  <2>1. k.on \ {"delayTimer"} = k.on /\ k.mark \ {"calledOff"} = k.mark
    BY <1>2, <1>11 DEF Established
  <2>2. /\ r \in State /\ r.up # {} /\ r.heap = d.heap /\ r.ptr = d.ptr /\ r.on = d.on /\ r.stage = d.stage
        /\ r.down = d.down /\ r.heads = d.heads /\ r.mark = d.mark
    BY <1>6, RestLeft
  <2>3. /\ m \in State /\ m.up # {} /\ m.heap = k.heap /\ m.ptr = k.ptr /\ m.stage = k.stage /\ m.down = k.down
        /\ m.heads = k.heads /\ m.mark = k.mark /\ m.on = (k.on \ {"serverRecv"}) \cup {"remoteSend"}
    BY <1>6, <1>11, <2>1, <2>2 DEF Switch
  <2>4. Established(m) /\ Moves(k, m)
    BY <1>11, <2>3, GotUp
  <2> QED
    BY <1>11, <2>3, <2>4 DEF Good
<1>12. \/ m = RedirHungUp(k) \/ m = Mark(s, If(On(k, "delayTimer"), {"calledOff"}))
       \/ ~Is(k, "connected") /\ m = Switch(d, {"serverRecv"}, {"remoteSend"})
       \/ Is(k, "connected") /\ m = [d EXCEPT !.up = {}]
       \/ Is(k, "connected") /\ \E r \in Rest(d) : m = Switch(r, {"serverRecv"}, {"remoteSend"})
  BY <1>3 DEF RedirServerRecv
<1>13. Established(k) => Is(k, "connected")
  BY DEF Established
<1>14. Dialling(k) => ~Is(k, "connected")
  BY DEF Dialling
<1> QED
  BY <1>1, <1>7, <1>8, <1>9, <1>10, <1>11, <1>12, <1>13, <1>14

LEMMA RedirServerSendGood ==
    ASSUME NEW k, Good("redir", k), On(k, "serverSend"), NEW m \in RedirServerSend(k)
    PROVE  Good("redir", m) /\ Moves(k, m)
<1>1. Established(k) /\ ~Is(k, "direct") /\ k.down
  BY Runs, Parts DEF RedirDialling, Dialling, Established
<1>2. \/ m = RedirHungUp(k) \/ m = k
      \/ m = Switch([k EXCEPT !.down = FALSE], {"serverSend"}, {"remoteRecv"})
  BY <1>1 DEF RedirServerSend
<1>3. CASE m = RedirHungUp(k)
  BY <1>3, HungUps, ClosesGood DEF Program
<1>4. CASE m = k
  BY <1>4, Same
<1>5. CASE m = Switch([k EXCEPT !.down = FALSE], {"serverSend"}, {"remoteRecv"})
  BY <1>1, <1>5, SentDown DEF Good
<1> QED
  BY <1>2, <1>3, <1>4, <1>5

LEMMA RedirRemoteRecvGood ==
    ASSUME NEW k, Good("redir", k), On(k, "remoteRecv"), NEW m \in RedirRemoteRecv(k)
    PROVE  Good("redir", m) /\ Moves(k, m)
<1>1. Established(k) /\ ~Is(k, "direct")
  BY Runs, Parts DEF RedirDialling, Dialling
<1>2. CASE m = RedirHungUp(k)
  BY <1>2, HungUps, ClosesGood DEF Program
<1>3. CASE m = k
  BY <1>3, Same
<1>4. CASE m = Switch(ReceivedDown(k), {"remoteRecv"}, {"serverSend"})
  BY <1>1, <1>4, GotDown DEF Good
<1> QED
  BY <1>2, <1>3, <1>4 DEF RedirRemoteRecv

\* remote_send_cb, of a connection that is there.
LEMMA RedirRemoteSendOn ==
    ASSUME NEW k, Good("redir", k), On(k, "remoteSend"), Is(k, "connected"), NEW m \in RedirRemoteSend(k)
    PROVE  Good("redir", m) /\ Moves(k, m)
<1>1. Established(k) /\ ~Is(k, "direct") /\ k \in State /\ k.up # {} /\ ~Is(k, "addr")
  BY Runs, Parts DEF RedirDialling, Dialling, Established
<1>2. PICK s : s = Switch(k, {"connectTimer"}, {})
  OBVIOUS
<1>3. /\ s \in State /\ s.heap = k.heap /\ s.ptr = k.ptr /\ s.stage = k.stage /\ s.up = k.up
      /\ s.down = k.down /\ s.heads = k.heads /\ s.mark = k.mark /\ s.on = k.on \ {"connectTimer"}
  BY <1>1, <1>2 DEF Switch
<1>4. \/ m = RedirHungUp(k) \/ m = Switch([s EXCEPT !.up = {}], {"remoteSend"}, {"serverRecv"})
      \/ m = Mark(s, {}) \/ \E r \in Rest(s) : m = Switch(r, {}, {"remoteSend"})
  BY <1>1, <1>2, <1>3 DEF RedirRemoteSend, RedirSend
<1>5. CASE m = RedirHungUp(k)
  BY <1>5, HungUps, ClosesGood DEF Program
<1>6. CASE m = Switch([s EXCEPT !.up = {}], {"remoteSend"}, {"serverRecv"})
  <2>1. /\ m \in State /\ m.up = {} /\ m.heap = k.heap /\ m.ptr = k.ptr /\ m.stage = k.stage /\ m.down = k.down
        /\ m.heads = k.heads /\ m.mark = k.mark
        /\ m.on \ {"connectTimer"} = ((k.on \ {"remoteSend"}) \cup {"serverRecv"}) \ {"connectTimer"}
    BY <1>3, <1>6 DEF Switch
  <2>2. Established(m) /\ Moves(k, m)
    BY <1>1, <2>1, SentAll
  <2> QED
    BY <1>1, <2>1, <2>2 DEF Good
<1>7. ASSUME /\ m \in State /\ m.up # {} /\ m.heap = k.heap /\ m.ptr = k.ptr /\ m.stage = k.stage /\ m.down = k.down
             /\ m.heads = k.heads /\ m.mark = k.mark /\ m.on = s.on
      PROVE  Good("redir", m) /\ Moves(k, m)
  <2>1. m.on \ {"connectTimer"} = k.on \ {"connectTimer"}
    BY <1>3, <1>7
  <2>2. Established(m) /\ Moves(k, m)
    BY <1>1, <1>7, <2>1, SentSome
  <2> QED
    BY <1>1, <1>7, <2>2 DEF Good
<1>8. CASE m = Mark(s, {})
  <2>1. m = s
    BY <1>3, <1>8 DEF Mark
  <2> QED
    BY <1>1, <1>3, <1>7, <2>1
<1>9. ASSUME NEW r \in Rest(s), m = Switch(r, {}, {"remoteSend"}) PROVE Good("redir", m) /\ Moves(k, m)
  <2>1. /\ r \in State /\ r.up # {} /\ r.heap = s.heap /\ r.ptr = s.ptr /\ r.on = s.on /\ r.stage = s.stage
        /\ r.down = s.down /\ r.heads = s.heads /\ r.mark = s.mark
    BY <1>1, <1>3, RestLeft
  <2>2. m = r
    BY <1>3, <1>9, <2>1 DEF Switch
  <2> QED
    BY <1>3, <1>7, <2>1, <2>2
<1> QED
  BY <1>4, <1>5, <1>6, <1>8, <1>9

\* remote_send_cb, of a connection that has just come about: header and data
\* go out, or the writer is stranded.
LEMMA RedirRemoteSendFirst ==
    ASSUME NEW k, Good("redir", k), On(k, "remoteSend"), ~Is(k, "connected"), NEW m \in RedirRemoteSend(k)
    PROVE  Good("redir", m) /\ Moves(k, m)
<1>1. RedirDialling(k) /\ Dialling(k) /\ k \in State
  BY Runs, Parts DEF Established
<1>2. /\ k.heads = 0 /\ ~k.down /\ ~On(k, "serverSend") /\ ~On(k, "delayTimer")
      /\ ~Is(k, "direct") /\ ~Is(k, "stranded")
  BY <1>1 DEF RedirDialling, Dialling
<1>3. PICK s : s = Switch(k, {"connectTimer"}, {})
  OBVIOUS
<1>4. /\ s \in State /\ s.heap = k.heap /\ s.ptr = k.ptr /\ s.stage = k.stage /\ s.up = k.up
      /\ s.down = k.down /\ s.heads = 0 /\ s.mark = k.mark /\ s.on = k.on \ {"connectTimer"}
  BY <1>1, <1>2, <1>3 DEF Switch
<1>5. PICK n : n = RedirConnected(s)
  OBVIOUS
<1>6. /\ n \in State /\ n.heap = k.heap /\ n.ptr = k.ptr /\ n.stage = k.stage /\ n.up # {}
      /\ n.down = k.down /\ n.heads = 1 /\ n.mark = k.mark \cup {"connected"}
      /\ n.on = (k.on \ {"connectTimer", "remoteSend", "serverRecv"}) \cup {"remoteRecv"}
  <2>1. PICK c, h : c = Mark(s, {"connected"}) /\ h = Headed(c)
    OBVIOUS
  <2>2. /\ h \in State /\ h.heap = s.heap /\ h.ptr = s.ptr /\ h.stage = s.stage /\ h.on = s.on
        /\ h.down = s.down /\ h.heads = 1 /\ h.mark = s.mark \cup {"connected"} /\ h.up = s.up \cup {"header"}
    BY <1>4, <2>1, HeadedParts
  <2>3. n = Switch(h, {"remoteSend", "serverRecv"}, {"remoteRecv"})
    BY <1>5, <2>1 DEF RedirConnected
  <2>4. /\ n \in State /\ n.heap = h.heap /\ n.ptr = h.ptr /\ n.stage = h.stage /\ n.up = h.up
        /\ n.down = h.down /\ n.heads = h.heads /\ n.mark = h.mark
        /\ n.on = (h.on \ {"remoteSend", "serverRecv"}) \cup {"remoteRecv"}
    BY <2>2, <2>3 DEF Switch
  <2> QED
    BY <1>4, <2>2, <2>4
<1>7. PICK a : a = [n EXCEPT !.mark = n.mark \ {"addr"}]
  OBVIOUS
<1>8. /\ a \in State /\ a.heap = k.heap /\ a.ptr = k.ptr /\ a.stage = k.stage /\ a.up = n.up
      /\ a.down = k.down /\ a.heads = 1 /\ a.mark = (k.mark \ {"addr"}) \cup {"connected"} /\ a.on = n.on
  BY <1>6, <1>7
<1>9. \/ m = RedirHungUp(k)
      \/ m = Switch(a, {}, {"remoteSend", "connectTimer"})
      \/ m = Switch([a EXCEPT !.up = {}], {"remoteSend"}, {"serverRecv"})
      \/ m = Mark(a, {"stranded"})
      \/ \E r \in Rest(a) : m = Switch(r, {}, {"remoteSend"})
  <2>1. RedirRemoteSend(k) = {RedirHungUp(k)} \cup RedirSend(n)
    BY <1>3, <1>5, <1>6 DEF RedirRemoteSend
  <2>2. CASE ~Is(n, "addr")
    <3>1. a = n
      BY <1>6, <1>7, <2>2
    <3>2. ~On(n, "remoteSend")
      BY <1>6
    <3> QED
      BY <2>1, <2>2, <3>1, <3>2 DEF RedirSend
  <2>3. CASE Is(n, "addr")
    BY <1>7, <2>1, <2>3 DEF RedirSend
  <2> QED
    BY <2>2, <2>3
<1>10. CASE m = RedirHungUp(k)
  BY <1>10, HungUps, ClosesGood DEF Program
<1>11. ASSUME /\ m \in State /\ m.heap = k.heap /\ m.ptr = k.ptr /\ m.stage = k.stage /\ m.down = k.down
              /\ m.heads = 1 /\ m.mark \ {"stranded"} = (k.mark \ {"addr"}) \cup {"connected"}
              /\ On(m, "remoteRecv") /\ ~On(m, "serverSend") /\ ~On(m, "delayTimer")
              /\ (On(m, "serverRecv") <=> m.up = {}) /\ (On(m, "remoteSend") <=> m.up # {} /\ ~Is(m, "stranded"))
              /\ (Is(m, "stranded") => m.up # {})
       PROVE  Good("redir", m) /\ Moves(k, m)
  <2>1. Established(m) /\ Moves(k, m) /\ ~Is(m, "direct")
    BY <1>1, <1>2, <1>11, Connects
  <2> QED
    BY <2>1 DEF Good
<1>12. (k.mark \ {"addr"}) \cup {"connected"} = a.mark \ {"stranded"} /\ ~Is(a, "stranded")
  BY <1>2, <1>8
<1>13. CASE m = Switch(a, {}, {"remoteSend", "connectTimer"})
  <2>1. /\ m \in State /\ m.heap = a.heap /\ m.ptr = a.ptr /\ m.stage = a.stage /\ m.down = a.down
        /\ m.heads = a.heads /\ m.mark = a.mark /\ m.up = a.up /\ m.on = a.on \cup {"remoteSend", "connectTimer"}
    BY <1>8, <1>13 DEF Switch
  <2> QED
    BY <1>2, <1>6, <1>8, <1>11, <1>12, <2>1
<1>14. CASE m = Switch([a EXCEPT !.up = {}], {"remoteSend"}, {"serverRecv"})
  <2>1. /\ m \in State /\ m.heap = a.heap /\ m.ptr = a.ptr /\ m.stage = a.stage /\ m.down = a.down
        /\ m.heads = a.heads /\ m.mark = a.mark /\ m.up = {} /\ m.on = (a.on \ {"remoteSend"}) \cup {"serverRecv"}
    BY <1>8, <1>14 DEF Switch
  <2> QED
    BY <1>2, <1>6, <1>8, <1>11, <1>12, <2>1
<1>15. CASE m = Mark(a, {"stranded"})
  <2>1. /\ m \in State /\ m.heap = a.heap /\ m.ptr = a.ptr /\ m.stage = a.stage /\ m.down = a.down
        /\ m.heads = a.heads /\ m.mark = a.mark \cup {"stranded"} /\ m.up = a.up /\ m.on = a.on
    BY <1>8, <1>15 DEF Mark
  <2>2. m.mark \ {"stranded"} = a.mark \ {"stranded"} /\ Is(m, "stranded")
    BY <2>1
  <2> QED
    BY <1>2, <1>6, <1>8, <1>11, <1>12, <2>1, <2>2
<1>16. ASSUME NEW r \in Rest(a), m = Switch(r, {}, {"remoteSend"}) PROVE Good("redir", m) /\ Moves(k, m)
  <2>1. /\ r \in State /\ r.up # {} /\ r.heap = a.heap /\ r.ptr = a.ptr /\ r.on = a.on /\ r.stage = a.stage
        /\ r.down = a.down /\ r.heads = a.heads /\ r.mark = a.mark
    BY <1>6, <1>8, RestLeft
  <2>2. /\ m \in State /\ m.heap = a.heap /\ m.ptr = a.ptr /\ m.stage = a.stage /\ m.down = a.down
        /\ m.heads = a.heads /\ m.mark = a.mark /\ m.up # {} /\ m.on = a.on \cup {"remoteSend"}
    BY <1>16, <2>1 DEF Switch
  <2> QED
    BY <1>2, <1>6, <1>8, <1>11, <1>12, <2>2
<1> QED
  BY <1>9, <1>10, <1>13, <1>14, <1>15, <1>16

-----------------------------------------------------------------------------
(* ss-local *)

LEMMA LocalAcceptGood ==
    ASSUME NEW m \in LocalAccept
    PROVE  Good("local", m) /\ Moves(NoConn, m)
<1>1. PICK n : n = LocalNewServer
  OBVIOUS
<1>2. /\ n \in State /\ n.heap = {"server"} /\ n.ptr = {} /\ n.on = {} /\ n.stage = "INIT"
      /\ n.up = {} /\ ~n.down /\ n.heads = 0 /\ n.mark = {}
  <2>1. PICK z : z = NoConn
    OBVIOUS
  <2>2. /\ z \in State /\ z.ptr = {} /\ z.on = {} /\ z.stage = "INIT"
        /\ z.up = {} /\ ~z.down /\ z.heads = 0 /\ z.mark = {}
    BY <2>1 DEF NoConn
  <2>3. n = [z EXCEPT !.heap = {"server"}]
    BY <1>1, <2>1 DEF LocalNewServer
  <2> QED
    BY <2>2, <2>3
<1>3. m = Switch(n, {}, {"serverRecv"})
  BY <1>1 DEF LocalAccept
<1>4. LocalGreeting(m)
  BY <1>2, <1>3 DEF Switch, LocalGreeting
<1>5. Closed(NoConn) /\ m.up = {}
  BY <1>4 DEF Closed, LocalGreeting
<1> QED
  BY <1>4, <1>5, Asks DEF Good

\* A remote is there and shall be connected now.
LocalReady(k) ==
    /\ Paired(k) /\ k.mark \subseteq {"direct"} /\ ~k.down /\ k.heads = 0 /\ k.on = {"serverRecv"}

\* server_stream, the first call.
LEMMA LocalConnects ==
    ASSUME NEW k, LocalReady(k), NEW fo \in BOOLEAN, NEW m \in LocalStream(k, fo)
    PROVE  m = NoConn \/ LocalDialling(m)
<1>1. /\ k \in State /\ k.heap = Object /\ k.ptr = Pointer /\ k.stage = "STREAM"
      /\ k.mark \subseteq {"direct"} /\ ~k.down /\ k.heads = 0 /\ k.on = {"serverRecv"}
  BY DEF LocalReady, Paired
<1>2. LocalHungUp(k) = NoConn
  BY <1>1, LocalPairGone
<1>3. PICK h : h = LocalHeaded(k)
  OBVIOUS
<1>4. /\ h \in State /\ h.heap = k.heap /\ h.ptr = k.ptr /\ h.stage = k.stage /\ h.down = k.down
      /\ h.mark = k.mark /\ h.on = k.on /\ h.heads = IF Is(k, "direct") THEN 0 ELSE 1
  <2>1. CASE Is(k, "direct")
    BY <1>1, <1>3, <2>1 DEF LocalHeaded
  <2>2. CASE ~Is(k, "direct")
    <3>1. h = Headed(k)
      BY <1>1, <1>3, <2>2 DEF LocalHeaded
    <3>2. PICK a : a = [k EXCEPT !.up = k.up \cup {"header"}]
      OBVIOUS
    <3>3. /\ a \in State /\ a.heap = k.heap /\ a.ptr = k.ptr /\ a.stage = k.stage /\ a.down = k.down
          /\ a.mark = k.mark /\ a.on = k.on /\ a.heads = 0
      BY <1>1, <3>2
    <3>4. h = [a EXCEPT !.heads = IF k.heads < 2 THEN k.heads + 1 ELSE 2]
      BY <3>1, <3>2 DEF Headed
    <3>5. h = [a EXCEPT !.heads = 1]
      BY <1>1, <3>4
    <3> QED
      BY <2>2, <3>3, <3>5
  <2> QED
    BY <2>1, <2>2
<1>5. LocalStream(k, fo) = {NoConn} \cup LocalConnect(h, fo)
  BY <1>1, <1>2, <1>3 DEF LocalStream
<1>6. PICK w : w = Switch(h, {"serverRecv"}, {"remoteSend"})
  OBVIOUS
<1>7. /\ w \in State /\ w.heap = k.heap /\ w.ptr = k.ptr /\ w.stage = k.stage /\ w.down = k.down
      /\ w.mark = k.mark /\ w.heads = h.heads /\ w.on = {"remoteSend"}
  BY <1>1, <1>4, <1>6 DEF Switch
<1>8. ASSUME NEW n \in State, n.heap = k.heap, n.ptr = k.ptr, n.stage = k.stage, n.down = k.down,
             n.mark = k.mark, n.heads = h.heads, n.on = {"remoteSend"} \/ n.on = {"remoteSend", "connectTimer"}
      PROVE  LocalDialling(n)
  <2>1. Paired(n)
    BY <1>1, <1>8 DEF Paired
  <2>2. Dialling(n)
    BY <1>1, <1>8, <2>1 DEF Dialling
  <2> QED
    BY <1>1, <1>4, <1>8, <2>2 DEF LocalDialling
<1>9. ASSUME NEW r \in State, r.heap = k.heap, r.ptr = k.ptr, r.stage = k.stage, r.down = k.down,
             r.mark = k.mark, r.heads = h.heads, r.on = {"remoteSend"}, m = Switch(r, {}, {"connectTimer"})
      PROVE  LocalDialling(m)
  <2>1. /\ m \in State /\ m.heap = r.heap /\ m.ptr = r.ptr /\ m.stage = r.stage /\ m.down = r.down
        /\ m.mark = r.mark /\ m.heads = r.heads /\ m.on = {"remoteSend", "connectTimer"}
    BY <1>9 DEF Switch
  <2> QED
    BY <1>8, <1>9, <2>1
<1>10. \/ m = NoConn \/ m = w \/ m = Switch(w, {}, {"connectTimer"})
       \/ \E r \in Rest(w) \cup {[w EXCEPT !.up = {}]} : m = Switch(r, {}, {"connectTimer"})
  BY <1>5, <1>6 DEF LocalConnect
<1>11. ASSUME NEW r \in Rest(w) \cup {[w EXCEPT !.up = {}]}
       PROVE  /\ r \in State /\ r.heap = k.heap /\ r.ptr = k.ptr /\ r.stage = k.stage /\ r.down = k.down
              /\ r.mark = k.mark /\ r.heads = h.heads /\ r.on = {"remoteSend"}
  <2>1. PICK S : S \subseteq {"header", "data"} /\ r = [w EXCEPT !.up = S]
    BY <1>7 DEF Rest
  <2> QED
    BY <1>7, <2>1
<1> QED
  BY <1>7, <1>8, <1>9, <1>10, <1>11

\* server_handshake, of a connection that is not in its stream yet.
LEMMA LocalHandshakeGood ==
    ASSUME NEW k, LocalGreeting(k), NEW fo \in BOOLEAN, NEW m \in LocalHandshake(k, fo)
    PROVE  m = NoConn \/ LocalGreeting(m) \/ LocalDialling(m)
<1>1. /\ k \in State /\ k.heap = {"server"} /\ k.on = {"serverRecv"}
      /\ k.up = {} /\ ~k.down /\ k.heads = 0 /\ k.mark = {}
  BY DEF LocalGreeting
<1>2. LocalHungUp(k) = NoConn
  BY HungUps DEF Good
<1>3. ASSUME NEW request \in LocalRequest, m \in LocalReply(k, request)
      PROVE  m = NoConn \/ m = k
  <2>1. CASE request = "incomplete"
    BY <1>2, <1>3, <2>1 DEF LocalReply
  <2>2. CASE request = "udp association"
    BY <1>2, <1>3, <2>2 DEF LocalReply
  <2>3. CASE request \in {"refused", "connect"}
    BY <1>2, <1>3, <2>3 DEF LocalReply
  <2> QED
    BY <2>1, <2>2, <2>3 DEF LocalRequest
<1>4. ASSUME NEW direct \in LocalDirect,
             m \in LocalStream(ReceivedUp(LocalCreateRemote(k, direct)), fo)
                     \cup {Switch(LocalCreateRemote(k, direct), {}, {"delayTimer"})}
      PROVE  m = NoConn \/ LocalDialling(m)
  <2>1. direct \subseteq {"direct"}
    BY DEF LocalDirect
  <2>2. PICK z, l, r, d : /\ z = [k EXCEPT !.stage = "STREAM"] /\ l = Linked(z)
                          /\ r = Mark(l, direct) /\ d = ReceivedUp(r)
    OBVIOUS
  <2>3. r = LocalCreateRemote(k, direct)
    BY <2>2 DEF LocalCreateRemote
  <2>4. /\ z \in State /\ z.stage = "STREAM" /\ z.on = {"serverRecv"}
        /\ z.up = {} /\ ~z.down /\ z.heads = 0 /\ z.mark = {}
    BY <1>1, <2>2
  <2>5. /\ l \in State /\ l.heap = Object /\ l.ptr = Pointer /\ l.stage = "STREAM" /\ l.on = {"serverRecv"}
        /\ l.up = {} /\ ~l.down /\ l.heads = 0 /\ l.mark = {}
    BY <2>2, <2>4 DEF Linked
  <2>6. /\ r \in State /\ r.heap = Object /\ r.ptr = Pointer /\ r.stage = "STREAM" /\ r.on = {"serverRecv"}
        /\ r.up = {} /\ ~r.down /\ r.heads = 0 /\ r.mark = direct
    BY <2>1, <2>2, <2>5 DEF Mark
  <2>7. /\ d \in State /\ d.heap = Object /\ d.ptr = Pointer /\ d.stage = "STREAM" /\ d.on = {"serverRecv"}
        /\ ~d.down /\ d.heads = 0 /\ d.mark = direct
    BY <2>2, <2>6, GotParts
  <2>8. LocalReady(d)
    BY <2>1, <2>7 DEF LocalReady, Paired
  <2>9. CASE m \in LocalStream(d, fo)
    BY <2>8, <2>9, LocalConnects
  <2>10. CASE m = Switch(r, {}, {"delayTimer"})
    <3>1. /\ m \in State /\ m.heap = Object /\ m.ptr = Pointer /\ m.stage = "STREAM"
          /\ m.on = {"serverRecv", "delayTimer"} /\ m.up = {} /\ ~m.down /\ m.heads = 0 /\ m.mark = direct
      BY <2>6, <2>10 DEF Switch
    <3>2. Dialling(m)
      BY <2>1, <3>1 DEF Dialling, Paired
    <3> QED
      BY <2>1, <3>1, <3>2 DEF LocalDialling
  <2> QED
    BY <1>4, <2>2, <2>3, <2>9, <2>10
<1>5. \/ \E request \in LocalRequest : m \in LocalReply(k, request)
      \/ \E direct \in LocalDirect : m \in LocalStream(ReceivedUp(LocalCreateRemote(k, direct)), fo)
                                             \cup {Switch(LocalCreateRemote(k, direct), {}, {"delayTimer"})}
  <2> DEFINE A(request) == LocalReply(k, request)
             B(direct) == LocalStream(ReceivedUp(LocalCreateRemote(k, direct)), fo)
                            \cup {Switch(LocalCreateRemote(k, direct), {}, {"delayTimer"})}
  <2>1. m \in (UNION {A(request) : request \in LocalRequest}) \cup UNION {B(direct) : direct \in LocalDirect}
    BY DEF LocalHandshake
  <2> HIDE DEF A, B
  <2>2. (\E request \in LocalRequest : m \in A(request)) \/ (\E direct \in LocalDirect : m \in B(direct))
    BY <2>1
  <2> QED
    BY <2>2 DEF A, B
<1>6. m = NoConn \/ m = k \/ LocalDialling(m)
  BY <1>3, <1>4, <1>5
<1>7. m = k => LocalGreeting(m)
  BY DEF LocalGreeting
<1> QED
  BY <1>6, <1>7

\* server_recv_cb before the stream.
LEMMA LocalServerRecvGreeting ==
    ASSUME NEW k, LocalGreeting(k), NEW fo \in BOOLEAN, NEW m \in LocalServerRecv(k, fo)
    PROVE  Good("local", m) /\ Moves(k, m)
<1>1. /\ k \in State /\ k.heap = {"server"} /\ k.ptr = {} /\ k.on = {"serverRecv"} /\ k.stage \in {"INIT", "HANDSHAKE"}
      /\ k.up = {} /\ ~k.down /\ k.heads = 0 /\ k.mark = {}
  BY DEF LocalGreeting
<1>2. PICK s, h : s = Switch(k, {"delayTimer"}, {}) /\ h = [s EXCEPT !.stage = "HANDSHAKE"]
  OBVIOUS
<1>3. s = k
  BY <1>1, <1>2 DEF Switch
<1>4. LocalGreeting(s) /\ LocalGreeting(h)
  <2>1. LocalGreeting(s)
    BY <1>1, <1>3 DEF LocalGreeting
  <2>2. /\ h \in State /\ h.heap = k.heap /\ h.ptr = k.ptr /\ h.on = k.on /\ h.stage = "HANDSHAKE"
        /\ h.up = k.up /\ h.down = k.down /\ h.heads = k.heads /\ h.mark = k.mark
    BY <1>1, <1>2, <1>3
  <2>3. LocalGreeting(h)
    BY <1>1, <2>2 DEF LocalGreeting
  <2> QED
    BY <2>1, <2>3
<1>5. LocalHungUp(s) = NoConn
  BY <1>4, HungUps DEF Good
<1>6. Mark(s, If(On(k, "delayTimer"), {"calledOff"})) = s
  BY <1>1, <1>3 DEF Mark
<1>7. m = NoConn \/ LocalGreeting(m) \/ LocalDialling(m)
  <2>1. CASE k.stage = "INIT"
    <3>1. LocalServerRecv(k, fo) = {LocalHungUp(s), Mark(s, If(On(k, "delayTimer"), {"calledOff"}))}
                                     \cup ({s, h} \cup LocalHandshake(h, fo))
      BY <1>2, <2>1 DEF LocalServerRecv
    <3>2. m = NoConn \/ m = s \/ m = h \/ m \in LocalHandshake(h, fo)
      BY <1>5, <1>6, <3>1
    <3>3. CASE m = s \/ m = h
      BY <1>4, <3>3 DEF LocalGreeting
    <3> QED
      BY <1>4, <3>2, <3>3, LocalHandshakeGood
  <2>2. CASE k.stage = "HANDSHAKE"
    <3>1. LocalServerRecv(k, fo) = {LocalHungUp(s), Mark(s, If(On(k, "delayTimer"), {"calledOff"}))}
                                     \cup LocalHandshake(s, fo)
      BY <1>2, <2>2 DEF LocalServerRecv
    <3>2. m = NoConn \/ m = s \/ m \in LocalHandshake(s, fo)
      BY <1>5, <1>6, <3>1
    <3>3. CASE m = s
      BY <1>4, <3>3 DEF LocalGreeting
    <3> QED
      BY <1>4, <3>2, <3>3, LocalHandshakeGood
  <2> QED
    BY <1>1, <2>1, <2>2
<1>8. CASE m = NoConn
  <2>1. Good("local", k)
    BY DEF Good
  <2> QED
    BY <1>8, <2>1, ClosesGood DEF Program
<1>9. CASE LocalGreeting(m) \/ LocalDialling(m)
  BY <1>1, <1>9, Parts, Keeps DEF Good
<1> QED
  BY <1>7, <1>8, <1>9

\* server_recv_cb while the remote is not connected: the delayed connect is
\* called off, for the data that came or for nothing.
LEMMA LocalServerRecvDialling ==
    ASSUME NEW k, LocalDialling(k), On(k, "serverRecv"), NEW fo \in BOOLEAN, NEW m \in LocalServerRecv(k, fo)
    PROVE  Good("local", m) /\ Moves(k, m)
<1>1. Dialling(k) /\ Paired(k)
  BY Parts
<1>2. /\ k \in State /\ k.heap = Object /\ k.ptr = Pointer /\ k.stage = "STREAM" /\ k.up = {} /\ ~k.down /\ k.heads = 0
      /\ k.on \subseteq {"serverRecv", "delayTimer"} /\ k.mark \subseteq {"direct", "calledOff"}
      /\ On(k, "delayTimer") <=> ~Is(k, "calledOff")
  BY <1>1 DEF LocalDialling, Dialling, Paired
<1>3. PICK s, t, d : /\ s = Switch(k, {"delayTimer"}, {}) /\ t = [s EXCEPT !.mark = s.mark \ {"calledOff"}]
                     /\ d = ReceivedUp(t)
  OBVIOUS
<1>4. /\ s \in State /\ s.heap = k.heap /\ s.ptr = k.ptr /\ s.stage = k.stage /\ s.up = k.up
      /\ s.down = k.down /\ s.heads = k.heads /\ s.mark = k.mark /\ s.on = {"serverRecv"}
  BY <1>2, <1>3 DEF Switch
<1>5. /\ t \in State /\ t.heap = k.heap /\ t.ptr = k.ptr /\ t.stage = k.stage /\ t.up = k.up
      /\ t.down = k.down /\ t.heads = k.heads /\ t.mark = k.mark \ {"calledOff"} /\ t.on = {"serverRecv"}
  BY <1>3, <1>4
<1>6. /\ d \in State /\ d.heap = k.heap /\ d.ptr = k.ptr /\ d.stage = k.stage
      /\ d.down = k.down /\ d.heads = k.heads /\ d.mark = k.mark \ {"calledOff"} /\ d.on = {"serverRecv"}
  BY <1>2, <1>3, <1>5, GotParts
<1>7. LocalReady(d)
  BY <1>2, <1>6 DEF LocalReady, Paired
<1>8. LocalHungUp(s) = NoConn
  BY <1>2, <1>4, LocalPairGone
<1>9. LocalServerRecv(k, fo) = {LocalHungUp(s), Mark(s, If(On(k, "delayTimer"), {"calledOff"}))} \cup LocalStream(d, fo)
  BY <1>2, <1>3 DEF LocalServerRecv
<1>10. ASSUME m = Mark(s, If(On(k, "delayTimer"), {"calledOff"})) PROVE LocalDialling(m)
  <2>1. /\ m \in State /\ m.heap = k.heap /\ m.ptr = k.ptr /\ m.stage = k.stage /\ m.up = k.up /\ m.on = {"serverRecv"}
        /\ m.down = k.down /\ m.heads = k.heads /\ m.mark = k.mark \cup If(On(k, "delayTimer"), {"calledOff"})
    BY <1>4, <1>10 DEF Mark
  <2>2. Is(m, "calledOff") /\ m.mark \subseteq {"direct", "calledOff"}
    BY <1>2, <2>1
  <2>3. Dialling(m)
    BY <1>2, <2>1, <2>2 DEF Dialling, Paired
  <2>4. On(m, "serverRecv") /\ ~On(m, "remoteSend") /\ m.up = {} /\ m.heads = 0 /\ ~Is(m, "addr")
    BY <1>2, <2>1, <2>2
  <2> QED
    BY <2>3, <2>4 DEF LocalDialling
<1>11. m = NoConn \/ LocalDialling(m)
  <2>1. CASE m \in LocalStream(d, fo)
    BY <1>7, <2>1, LocalConnects
  <2> QED
    BY <1>8, <1>9, <1>10, <2>1
<1>12. CASE m = NoConn
  <2>1. Good("local", k)
    BY DEF Good
  <2> QED
    BY <1>12, <2>1, ClosesGood DEF Program
<1>13. CASE LocalDialling(m)
  BY <1>1, <1>2, <1>13, Parts, Keeps DEF Good
<1> QED
  BY <1>11, <1>12, <1>13

\* server_recv_cb of a connection that is there.
LEMMA LocalServerRecvStream ==
    ASSUME NEW k, Established(k), ~Is(k, "stranded"), On(k, "serverRecv"), NEW fo \in BOOLEAN,
           NEW m \in LocalServerRecv(k, fo)
    PROVE  Good("local", m) /\ Moves(k, m)
<1>1. /\ k \in State /\ k.heap = Object /\ k.ptr = Pointer /\ k.stage = "STREAM" /\ k.up = {}
      /\ ~On(k, "delayTimer") /\ ~Is(k, "calledOff") /\ Is(k, "connected") /\ (Is(k, "direct") \/ k.heads > 0)
  BY DEF Established, Paired
<1>2. PICK s, t, d : /\ s = Switch(k, {"delayTimer"}, {}) /\ t = [s EXCEPT !.mark = s.mark \ {"calledOff"}]
                     /\ d = ReceivedUp(t)
  OBVIOUS
<1>3. s = k
  BY <1>1, <1>2 DEF Switch
<1>4. t = k
  BY <1>1, <1>2, <1>3
<1>5. /\ d \in State /\ d.heap = k.heap /\ d.ptr = k.ptr /\ d.stage = k.stage /\ d.up = {"data"}
      /\ d.down = k.down /\ d.heads = k.heads /\ d.mark = k.mark /\ d.on = k.on
  <2>1. k \in State /\ k.up = {}
    BY <1>1
  <2>2. d = ReceivedUp(k)
    BY <1>2, <1>4
  <2> QED BY <2>1, <2>2, GotParts
<1>6. LocalHungUp(s) = NoConn /\ LocalHungUp(d) = NoConn
  BY <1>1, <1>3, <1>5, LocalPairGone
<1>7. Mark(s, If(On(k, "delayTimer"), {"calledOff"})) = k
  BY <1>1, <1>3 DEF Mark
<1>8. LocalHeaded(d) = d
  BY <1>1, <1>5 DEF LocalHeaded
<1>9. LocalStream(d, fo) = {NoConn} \cup LocalSend(d)
  BY <1>1, <1>5, <1>6, <1>8 DEF LocalStream
<1>10. LocalServerRecv(k, fo) = {LocalHungUp(s), Mark(s, If(On(k, "delayTimer"), {"calledOff"}))} \cup LocalStream(d, fo)
  BY <1>1, <1>2 DEF LocalServerRecv
<1>11. \/ m = NoConn \/ m = k \/ m = [d EXCEPT !.up = {}]
       \/ \E r \in Rest(d) : m = Switch(r, {"serverRecv"}, {"remoteSend"})
  BY <1>6, <1>7, <1>9, <1>10 DEF LocalSend
<1>12. Good("local", k)
  BY DEF Good
<1>13. CASE m = NoConn
  BY <1>12, <1>13, ClosesGood DEF Program
<1>14. CASE m = k \/ m = [d EXCEPT !.up = {}]
  <2>1. m = k
    BY <1>1, <1>5, <1>14
  <2> QED
    BY <1>12, <2>1, Same
<1>15. ASSUME NEW r \in Rest(d), m = Switch(r, {"serverRecv"}, {"remoteSend"})
       PROVE  Good("local", m) /\ Moves(k, m)
  <2>1. /\ r \in State /\ r.up # {} /\ r.heap = d.heap /\ r.ptr = d.ptr /\ r.on = d.on /\ r.stage = d.stage
        /\ r.down = d.down /\ r.heads = d.heads /\ r.mark = d.mark
    BY <1>5, RestLeft
  <2>2. /\ m \in State /\ m.up # {} /\ m.heap = k.heap /\ m.ptr = k.ptr /\ m.stage = k.stage /\ m.down = k.down
        /\ m.heads = k.heads /\ m.mark = k.mark /\ m.on = (k.on \ {"serverRecv"}) \cup {"remoteSend"}
    BY <1>5, <1>15, <2>1 DEF Switch
  <2>3. Established(m) /\ Moves(k, m)
    BY <2>2, GotUp
  <2> QED
    BY <2>2, <2>3 DEF Good
<1> QED
  BY <1>11, <1>13, <1>14, <1>15

LEMMA LocalServerRecvGood ==
    ASSUME NEW k, Good("local", k), On(k, "serverRecv"), NEW fo \in BOOLEAN, NEW m \in LocalServerRecv(k, fo)
    PROVE  Good("local", m) /\ Moves(k, m)
<1>1. k # NoConn
  BY DEF NoConn
<1> QED
  BY <1>1, Parts, LocalServerRecvGreeting, LocalServerRecvDialling, LocalServerRecvStream

\* delayed_connect_cb: nothing was read until then.
LEMMA LocalDelayedGood ==
    ASSUME NEW k, Good("local", k), On(k, "delayTimer"), NEW fo \in BOOLEAN, NEW m \in LocalDelayed(k, fo)
    PROVE  Good("local", m) /\ Moves(k, m)
<1>1. LocalDialling(k) /\ Dialling(k)
  <2>1. k # NoConn /\ ~LocalGreeting(k) /\ ~Established(k)
    BY DEF NoConn, LocalGreeting, Established
  <2> QED
    BY <2>1, Parts
<1>2. PICK s : s = Switch(k, {"delayTimer"}, {})
  OBVIOUS
<1>3. /\ k \in State /\ k.heap = Object /\ k.ptr = Pointer /\ k.stage = "STREAM" /\ k.up = {} /\ ~k.down /\ k.heads = 0
      /\ k.on \subseteq {"serverRecv", "delayTimer"} /\ On(k, "serverRecv") /\ k.mark \subseteq {"direct"}
  BY <1>1 DEF LocalDialling, Dialling, Paired
<1>4. /\ s \in State /\ s.heap = k.heap /\ s.ptr = k.ptr /\ s.stage = k.stage
      /\ s.down = k.down /\ s.heads = k.heads /\ s.mark = k.mark /\ s.on = {"serverRecv"}
  BY <1>2, <1>3 DEF Switch
<1>5. LocalReady(s)
  BY <1>3, <1>4 DEF LocalReady, Paired
<1>6. m = NoConn \/ LocalDialling(m)
  BY <1>2, <1>5, LocalConnects DEF LocalDelayed
<1>7. CASE m = NoConn
  BY <1>7, ClosesGood DEF Program
<1>8. CASE LocalDialling(m)
  BY <1>1, <1>3, <1>8, Parts, Keeps DEF Good
<1> QED
  BY <1>6, <1>7, <1>8

LEMMA LocalServerSendGood ==
    ASSUME NEW k, Good("local", k), On(k, "serverSend"), NEW m \in LocalServerSend(k)
    PROVE  Good("local", m) /\ Moves(k, m)
<1>1. Established(k) /\ ~Is(k, "stranded") /\ k.down
  BY Parts DEF NoConn, LocalGreeting, LocalDialling, Dialling, Established
<1>2. \/ m = LocalHungUp(k) \/ m = k
      \/ m = Switch([k EXCEPT !.down = FALSE], {"serverSend"}, {"remoteRecv"})
  BY <1>1 DEF LocalServerSend
<1>3. CASE m = LocalHungUp(k)
  BY <1>3, HungUps, ClosesGood DEF Program
<1>4. CASE m = k
  BY <1>4, Same
<1>5. CASE m = Switch([k EXCEPT !.down = FALSE], {"serverSend"}, {"remoteRecv"})
  BY <1>1, <1>5, SentDown DEF Good
<1> QED
  BY <1>2, <1>3, <1>4, <1>5

LEMMA LocalRemoteRecvGood ==
    ASSUME NEW k, Good("local", k), On(k, "remoteRecv"), NEW m \in LocalRemoteRecv(k)
    PROVE  Good("local", m) /\ Moves(k, m)
<1>1. Established(k) /\ ~Is(k, "stranded")
  BY Parts DEF NoConn, LocalGreeting, LocalDialling, Dialling
<1>2. CASE m = LocalHungUp(k)
  BY <1>2, HungUps, ClosesGood DEF Program
<1>3. CASE m = k
  BY <1>3, Same
<1>4. CASE m = Switch(ReceivedDown(k), {"remoteRecv"}, {"serverSend"})
  BY <1>1, <1>4, GotDown DEF Good
<1> QED
  BY <1>2, <1>3, <1>4 DEF LocalRemoteRecv

\* remote_send_cb, of a connection that is there.
LEMMA LocalRemoteSendOn ==
    ASSUME NEW k, Good("local", k), On(k, "remoteSend"), Is(k, "connected"), NEW m \in LocalRemoteSend(k)
    PROVE  Good("local", m) /\ Moves(k, m)
<1>1. Established(k) /\ ~Is(k, "stranded") /\ k \in State /\ k.up # {}
  BY Parts DEF NoConn, LocalGreeting, LocalDialling, Dialling, Established
<1>2. LocalRemoteSend(k) = {LocalHungUp(k)} \cup ({Switch([k EXCEPT !.up = {}], {"remoteSend"}, {"serverRecv"})} \cup Rest(k))
  BY <1>1 DEF LocalRemoteSend
<1>3. CASE m = LocalHungUp(k)
  BY <1>3, HungUps, ClosesGood DEF Program
<1>4. CASE m = Switch([k EXCEPT !.up = {}], {"remoteSend"}, {"serverRecv"})
  <2>1. /\ m \in State /\ m.up = {} /\ m.heap = k.heap /\ m.ptr = k.ptr /\ m.stage = k.stage /\ m.down = k.down
        /\ m.heads = k.heads /\ m.mark = k.mark
        /\ m.on = (k.on \ {"remoteSend"}) \cup {"serverRecv"}
    BY <1>1, <1>4 DEF Switch
  <2>2. Established(m) /\ Moves(k, m)
    BY <1>1, <2>1, SentAll
  <2> QED
    BY <1>1, <2>1, <2>2 DEF Good
<1>5. CASE m \in Rest(k)
  <2>1. /\ m \in State /\ m.up # {} /\ m.heap = k.heap /\ m.ptr = k.ptr /\ m.stage = k.stage /\ m.down = k.down
        /\ m.heads = k.heads /\ m.mark = k.mark /\ m.on = k.on
    BY <1>1, <1>5, RestLeft
  <2>2. Established(m) /\ Moves(k, m)
    BY <1>1, <2>1, SentSome
  <2> QED
    BY <1>1, <2>1, <2>2 DEF Good
<1> QED
  BY <1>2, <1>3, <1>4, <1>5

\* remote_send_cb, of a connection that has just come about.
LEMMA LocalRemoteSendFirst ==
    ASSUME NEW k, Good("local", k), On(k, "remoteSend"), ~Is(k, "connected"), NEW m \in LocalRemoteSend(k)
    PROVE  Good("local", m) /\ Moves(k, m)
<1>1. LocalDialling(k) /\ Dialling(k) /\ k \in State
  <2>1. k # NoConn /\ ~LocalGreeting(k) /\ ~Established(k)
    BY DEF NoConn, LocalGreeting, Established
  <2> QED
    BY <2>1, Parts
<1>2. /\ ~k.down /\ ~On(k, "serverSend") /\ ~On(k, "delayTimer") /\ ~On(k, "serverRecv")
      /\ ~Is(k, "stranded") /\ ~Is(k, "addr") /\ k.heads = IF Is(k, "direct") THEN 0 ELSE 1
  BY <1>1 DEF LocalDialling, Dialling
<1>3. PICK c, n : c = Mark(k, {"connected"}) /\ n = Switch(c, {"connectTimer"}, {"remoteRecv"})
  OBVIOUS
<1>4. /\ c \in State /\ c.heap = k.heap /\ c.ptr = k.ptr /\ c.stage = k.stage /\ c.up = k.up
      /\ c.down = k.down /\ c.heads = k.heads /\ c.mark = k.mark \cup {"connected"} /\ c.on = k.on
  BY <1>1, <1>3 DEF Mark
<1>5. /\ n \in State /\ n.heap = k.heap /\ n.ptr = k.ptr /\ n.stage = k.stage /\ n.up = k.up
      /\ n.down = k.down /\ n.heads = k.heads /\ n.mark = k.mark \cup {"connected"}
      /\ n.on = (k.on \ {"connectTimer"}) \cup {"remoteRecv"}
  BY <1>3, <1>4 DEF Switch
<1>6. \/ m = LocalHungUp(k) \/ m = Switch([n EXCEPT !.up = {}], {"remoteSend"}, {"serverRecv"})
      \/ n.up # {} /\ m \in Rest(n)
  BY <1>3 DEF LocalRemoteSend
<1>7. CASE m = LocalHungUp(k)
  BY <1>7, HungUps, ClosesGood DEF Program
<1>8. ASSUME /\ m \in State /\ m.heap = k.heap /\ m.ptr = k.ptr /\ m.stage = k.stage /\ m.down = k.down
             /\ m.heads = k.heads /\ m.mark = k.mark \cup {"connected"}
             /\ On(m, "remoteRecv") /\ ~On(m, "serverSend") /\ ~On(m, "delayTimer")
             /\ (On(m, "serverRecv") <=> m.up = {}) /\ (On(m, "remoteSend") <=> m.up # {})
      PROVE  Good("local", m) /\ Moves(k, m)
  <2>1. ~Is(m, "stranded") /\ m.mark \ {"stranded"} = (k.mark \ {"addr"}) \cup {"connected"}
    BY <1>2, <1>8
  <2>2. Established(m) /\ Moves(k, m)
    BY <1>1, <1>2, <1>8, <2>1, Connects
  <2> QED
    BY <2>1, <2>2 DEF Good
<1>9. CASE m = Switch([n EXCEPT !.up = {}], {"remoteSend"}, {"serverRecv"})
  <2>1. /\ m \in State /\ m.heap = n.heap /\ m.ptr = n.ptr /\ m.stage = n.stage /\ m.down = n.down
        /\ m.heads = n.heads /\ m.mark = n.mark /\ m.up = {} /\ m.on = (n.on \ {"remoteSend"}) \cup {"serverRecv"}
    BY <1>5, <1>9 DEF Switch
  <2> QED
    BY <1>2, <1>5, <1>8, <2>1
<1>10. CASE n.up # {} /\ m \in Rest(n)
  <2>1. /\ m \in State /\ m.heap = n.heap /\ m.ptr = n.ptr /\ m.stage = n.stage /\ m.down = n.down
        /\ m.heads = n.heads /\ m.mark = n.mark /\ m.up # {} /\ m.on = n.on
    BY <1>5, <1>10, RestLeft
  <2> QED
    BY <1>2, <1>5, <1>8, <2>1
<1> QED
  BY <1>6, <1>7, <1>9, <1>10

-----------------------------------------------------------------------------
(* The callbacks, of any connection of any program *)

AllMove == \A c \in Conn : Moves(conn[c], conn'[c])

LEMMA GoodState ==
    ASSUME NEW p \in Program, NEW k, Good(p, k)
    PROVE  k \in State
<1>1. Closed(k) \/ Dialling(k) \/ LocalGreeting(k) \/ Established(k)
  BY DEF Good, Closed, LocalDialling, TunnelDialling, RedirDialling
<1> QED
  BY <1>1, Parts, ClosedParts

\* One connection changes, the others stay.
LEMMA OneGood ==
    ASSUME IInv, NEW c \in Conn, NEW m, Good(program, m), Moves(conn[c], m),
           conn' = [conn EXCEPT ![c] = m], program' = program, fastOpen' \in BOOLEAN
    PROVE  IInv' /\ AllMove
<1>1. PICK p : p = program
  OBVIOUS
<1>2. p \in Program /\ program' = p /\ Good(p, m) /\ conn \in [Conn -> State] /\ \A d \in Conn : Good(p, conn[d])
  BY <1>1 DEF IInv, Good
<1>3. m \in State
  BY <1>2, GoodState
<1>4. conn' \in [Conn -> State] /\ conn'[c] = m /\ \A d \in Conn \ {c} : conn'[d] = conn[d]
  BY <1>2, <1>3
<1>5. ASSUME NEW d \in Conn PROVE Good(p, conn'[d]) /\ Moves(conn[d], conn'[d])
  <2>1. CASE d = c
    BY <1>2, <1>4, <2>1 DEF Good, Moves
  <2>2. CASE d # c
    <3>1. conn'[d] = conn[d] /\ Good(p, conn[d])
      BY <1>2, <1>4, <2>2
    <3> QED
      BY <3>1, Same
  <2> QED
    BY <2>1, <2>2
<1>6. \A d \in Conn : Good(program', conn'[d])
  BY <1>2, <1>5 DEF Good
<1> QED
  BY <1>2, <1>4, <1>5, <1>6 DEF IInv, AllMove

LEMMA ServerRecvStep ==
    ASSUME IInv, NEW c \in Conn, ServerRecv(c)
    PROVE  IInv' /\ AllMove
<1>1. PICK k, f, p : k = conn[c] /\ f = fastOpen /\ p = program
  OBVIOUS
<1>2. f \in BOOLEAN /\ p \in Program /\ Good(p, k)
  BY <1>1 DEF IInv, Good
<1>3. On(k, "serverRecv") /\ program' = program /\ fastOpen' \in BOOLEAN
  BY <1>1, <1>2 DEF ServerRecv, Becomes
<1>4. ASSUME NEW m, Good(p, m), Moves(k, m), conn' = [conn EXCEPT ![c] = m] PROVE IInv' /\ AllMove
  <2>1. Good(program, m) /\ Moves(conn[c], m)
    BY <1>1, <1>4 DEF Good, Moves
  <2> QED
    BY <1>3, <1>4, <2>1, OneGood
<1>5. CASE p = "local"
  <2>1. PICK m \in LocalServerRecv(k, f) : conn' = [conn EXCEPT ![c] = m]
    BY <1>1, <1>5 DEF ServerRecv, Becomes
  <2>2. Good("local", k)
    BY <1>2, <1>5 DEF Good
  <2>3. Good("local", m) /\ Moves(k, m)
    BY <1>2, <1>3, <2>1, <2>2, LocalServerRecvGood
  <2>4. Good(p, m)
    BY <1>5, <2>3 DEF Good
  <2> QED
    BY <1>4, <2>1, <2>3, <2>4
<1>6. CASE p = "tunnel"
  <2>1. PICK m \in TunnelServerRecv(k) : conn' = [conn EXCEPT ![c] = m]
    BY <1>1, <1>6 DEF ServerRecv, Becomes
  <2>2. Good("tunnel", k)
    BY <1>2, <1>6 DEF Good
  <2>3. Good("tunnel", m) /\ Moves(k, m)
    BY <1>2, <1>3, <2>1, <2>2, TunnelServerRecvGood
  <2>4. Good(p, m)
    BY <1>6, <2>3 DEF Good
  <2> QED
    BY <1>4, <2>1, <2>3, <2>4
<1>7. CASE p = "redir"
  <2>1. PICK m \in RedirServerRecv(k) : conn' = [conn EXCEPT ![c] = m]
    BY <1>1, <1>7 DEF ServerRecv, Becomes
  <2>2. Good("redir", k)
    BY <1>2, <1>7 DEF Good
  <2>3. Good("redir", m) /\ Moves(k, m)
    BY <1>2, <1>3, <2>1, <2>2, RedirServerRecvGood
  <2>4. Good(p, m)
    BY <1>7, <2>3 DEF Good
  <2> QED
    BY <1>4, <2>1, <2>3, <2>4
<1> QED
  BY <1>2, <1>5, <1>6, <1>7 DEF Program

LEMMA ServerSendStep ==
    ASSUME IInv, NEW c \in Conn, ServerSend(c)
    PROVE  IInv' /\ AllMove
<1>1. PICK k, f, p : k = conn[c] /\ f = fastOpen /\ p = program
  OBVIOUS
<1>2. f \in BOOLEAN /\ p \in Program /\ Good(p, k)
  BY <1>1 DEF IInv, Good
<1>3. On(k, "serverSend") /\ program' = program /\ fastOpen' \in BOOLEAN
  BY <1>1, <1>2 DEF ServerSend, Becomes
<1>4. ASSUME NEW m, Good(p, m), Moves(k, m), conn' = [conn EXCEPT ![c] = m] PROVE IInv' /\ AllMove
  <2>1. Good(program, m) /\ Moves(conn[c], m)
    BY <1>1, <1>4 DEF Good, Moves
  <2> QED
    BY <1>3, <1>4, <2>1, OneGood
<1>5. CASE p = "local"
  <2>1. PICK m \in LocalServerSend(k) : conn' = [conn EXCEPT ![c] = m]
    BY <1>1, <1>5 DEF ServerSend, Becomes
  <2>2. Good("local", k)
    BY <1>2, <1>5 DEF Good
  <2>3. Good("local", m) /\ Moves(k, m)
    BY <1>2, <1>3, <2>1, <2>2, LocalServerSendGood
  <2>4. Good(p, m)
    BY <1>5, <2>3 DEF Good
  <2> QED
    BY <1>4, <2>1, <2>3, <2>4
<1>6. CASE p = "tunnel"
  <2>1. PICK m \in TunnelServerSend(k) : conn' = [conn EXCEPT ![c] = m]
    BY <1>1, <1>6 DEF ServerSend, Becomes
  <2>2. Good("tunnel", k)
    BY <1>2, <1>6 DEF Good
  <2>3. Good("tunnel", m) /\ Moves(k, m)
    BY <1>2, <1>3, <2>1, <2>2, TunnelServerSendGood
  <2>4. Good(p, m)
    BY <1>6, <2>3 DEF Good
  <2> QED
    BY <1>4, <2>1, <2>3, <2>4
<1>7. CASE p = "redir"
  <2>1. PICK m \in RedirServerSend(k) : conn' = [conn EXCEPT ![c] = m]
    BY <1>1, <1>7 DEF ServerSend, Becomes
  <2>2. Good("redir", k)
    BY <1>2, <1>7 DEF Good
  <2>3. Good("redir", m) /\ Moves(k, m)
    BY <1>2, <1>3, <2>1, <2>2, RedirServerSendGood
  <2>4. Good(p, m)
    BY <1>7, <2>3 DEF Good
  <2> QED
    BY <1>4, <2>1, <2>3, <2>4
<1> QED
  BY <1>2, <1>5, <1>6, <1>7 DEF Program

LEMMA RemoteRecvStep ==
    ASSUME IInv, NEW c \in Conn, RemoteRecv(c)
    PROVE  IInv' /\ AllMove
<1>1. PICK k, f, p : k = conn[c] /\ f = fastOpen /\ p = program
  OBVIOUS
<1>2. f \in BOOLEAN /\ p \in Program /\ Good(p, k)
  BY <1>1 DEF IInv, Good
<1>3. On(k, "remoteRecv") /\ program' = program /\ fastOpen' \in BOOLEAN
  BY <1>1, <1>2 DEF RemoteRecv, Becomes
<1>4. ASSUME NEW m, Good(p, m), Moves(k, m), conn' = [conn EXCEPT ![c] = m] PROVE IInv' /\ AllMove
  <2>1. Good(program, m) /\ Moves(conn[c], m)
    BY <1>1, <1>4 DEF Good, Moves
  <2> QED
    BY <1>3, <1>4, <2>1, OneGood
<1>5. CASE p = "local"
  <2>1. PICK m \in LocalRemoteRecv(k) : conn' = [conn EXCEPT ![c] = m]
    BY <1>1, <1>5 DEF RemoteRecv, Becomes
  <2>2. Good("local", k)
    BY <1>2, <1>5 DEF Good
  <2>3. Good("local", m) /\ Moves(k, m)
    BY <1>2, <1>3, <2>1, <2>2, LocalRemoteRecvGood
  <2>4. Good(p, m)
    BY <1>5, <2>3 DEF Good
  <2> QED
    BY <1>4, <2>1, <2>3, <2>4
<1>6. CASE p = "tunnel"
  <2>1. PICK m \in TunnelRemoteRecv(k) : conn' = [conn EXCEPT ![c] = m]
    BY <1>1, <1>6 DEF RemoteRecv, Becomes
  <2>2. Good("tunnel", k)
    BY <1>2, <1>6 DEF Good
  <2>3. Good("tunnel", m) /\ Moves(k, m)
    BY <1>2, <1>3, <2>1, <2>2, TunnelRemoteRecvGood
  <2>4. Good(p, m)
    BY <1>6, <2>3 DEF Good
  <2> QED
    BY <1>4, <2>1, <2>3, <2>4
<1>7. CASE p = "redir"
  <2>1. PICK m \in RedirRemoteRecv(k) : conn' = [conn EXCEPT ![c] = m]
    BY <1>1, <1>7 DEF RemoteRecv, Becomes
  <2>2. Good("redir", k)
    BY <1>2, <1>7 DEF Good
  <2>3. Good("redir", m) /\ Moves(k, m)
    BY <1>2, <1>3, <2>1, <2>2, RedirRemoteRecvGood
  <2>4. Good(p, m)
    BY <1>7, <2>3 DEF Good
  <2> QED
    BY <1>4, <2>1, <2>3, <2>4
<1> QED
  BY <1>2, <1>5, <1>6, <1>7 DEF Program

LEMMA RemoteSendStep ==
    ASSUME IInv, NEW c \in Conn, RemoteSend(c)
    PROVE  IInv' /\ AllMove
<1>1. PICK k, f, p : k = conn[c] /\ f = fastOpen /\ p = program
  OBVIOUS
<1>2. f \in BOOLEAN /\ p \in Program /\ Good(p, k)
  BY <1>1 DEF IInv, Good
<1>3. On(k, "remoteSend") /\ program' = program /\ fastOpen' \in BOOLEAN
  BY <1>1, <1>2 DEF RemoteSend, Becomes
<1>4. ASSUME NEW m, Good(p, m), Moves(k, m), conn' = [conn EXCEPT ![c] = m] PROVE IInv' /\ AllMove
  <2>1. Good(program, m) /\ Moves(conn[c], m)
    BY <1>1, <1>4 DEF Good, Moves
  <2> QED
    BY <1>3, <1>4, <2>1, OneGood
<1>5. CASE p = "local"
  <2>1. PICK m \in LocalRemoteSend(k) : conn' = [conn EXCEPT ![c] = m]
    BY <1>1, <1>5 DEF RemoteSend, Becomes
  <2>2. Good("local", k)
    BY <1>2, <1>5 DEF Good
  <2>3. Good("local", m) /\ Moves(k, m)
    BY <1>2, <1>3, <2>1, <2>2, LocalRemoteSendOn, LocalRemoteSendFirst
  <2>4. Good(p, m)
    BY <1>5, <2>3 DEF Good
  <2> QED
    BY <1>4, <2>1, <2>3, <2>4
<1>6. CASE p = "tunnel"
  <2>1. PICK m \in TunnelRemoteSend(k) : conn' = [conn EXCEPT ![c] = m]
    BY <1>1, <1>6 DEF RemoteSend, Becomes
  <2>2. Good("tunnel", k)
    BY <1>2, <1>6 DEF Good
  <2>3. Good("tunnel", m) /\ Moves(k, m)
    BY <1>2, <1>3, <2>1, <2>2, TunnelRemoteSendOn, TunnelRemoteSendFirst
  <2>4. Good(p, m)
    BY <1>6, <2>3 DEF Good
  <2> QED
    BY <1>4, <2>1, <2>3, <2>4
<1>7. CASE p = "redir"
  <2>1. PICK m \in RedirRemoteSend(k) : conn' = [conn EXCEPT ![c] = m]
    BY <1>1, <1>7 DEF RemoteSend, Becomes
  <2>2. Good("redir", k)
    BY <1>2, <1>7 DEF Good
  <2>3. Good("redir", m) /\ Moves(k, m)
    BY <1>2, <1>3, <2>1, <2>2, RedirRemoteSendOn, RedirRemoteSendFirst
  <2>4. Good(p, m)
    BY <1>7, <2>3 DEF Good
  <2> QED
    BY <1>4, <2>1, <2>3, <2>4
<1> QED
  BY <1>2, <1>5, <1>6, <1>7 DEF Program

LEMMA AcceptStep ==
    ASSUME IInv, NEW c \in Conn, Accept(c)
    PROVE  IInv' /\ AllMove
<1>1. PICK k, f, p : k = conn[c] /\ f = fastOpen /\ p = program
  OBVIOUS
<1>2. f \in BOOLEAN /\ p \in Program /\ Good(p, k)
  BY <1>1 DEF IInv, Good
<1>3. k = NoConn /\ program' = program /\ fastOpen' \in BOOLEAN
  BY <1>1, <1>2 DEF Accept, Becomes
<1>4. ASSUME NEW m, Good(p, m), Moves(k, m), conn' = [conn EXCEPT ![c] = m] PROVE IInv' /\ AllMove
  <2>1. Good(program, m) /\ Moves(conn[c], m)
    BY <1>1, <1>4 DEF Good, Moves
  <2> QED
    BY <1>3, <1>4, <2>1, OneGood
<1>5. CASE p = "local"
  <2>1. PICK m \in LocalAccept : conn' = [conn EXCEPT ![c] = m]
    BY <1>1, <1>5 DEF Accept, Becomes
  <2>2. Good("local", k)
    BY <1>2, <1>5 DEF Good
  <2>3. Good("local", m) /\ Moves(k, m)
    BY <1>2, <1>3, <2>1, LocalAcceptGood
  <2>4. Good(p, m)
    BY <1>5, <2>3 DEF Good
  <2> QED
    BY <1>4, <2>1, <2>3, <2>4
<1>6. CASE p = "tunnel"
  <2>1. PICK m \in TunnelAccept(f) : conn' = [conn EXCEPT ![c] = m]
    BY <1>1, <1>6 DEF Accept, Becomes
  <2>2. Good("tunnel", k)
    BY <1>2, <1>6 DEF Good
  <2>3. Good("tunnel", m) /\ Moves(k, m)
    BY <1>2, <1>3, <2>1, <2>2, TunnelAcceptGood
  <2>4. Good(p, m)
    BY <1>6, <2>3 DEF Good
  <2> QED
    BY <1>4, <2>1, <2>3, <2>4
<1>7. CASE p = "redir"
  <2>1. PICK m \in RedirAccept(f) : conn' = [conn EXCEPT ![c] = m]
    BY <1>1, <1>7 DEF Accept, Becomes
  <2>2. Good("redir", k)
    BY <1>2, <1>7 DEF Good
  <2>3. Good("redir", m) /\ Moves(k, m)
    BY <1>2, <1>3, <2>1, <2>2, RedirAcceptGood
  <2>4. Good(p, m)
    BY <1>7, <2>3 DEF Good
  <2> QED
    BY <1>4, <2>1, <2>3, <2>4
<1> QED
  BY <1>2, <1>5, <1>6, <1>7 DEF Program

\* remote_timeout_cb, and a fast open that is refused: the connection closes.
LEMMA HangUpStep ==
    ASSUME IInv, NEW c \in Conn, ConnectTimeout(c) \/ FastOpenRefused(c)
    PROVE  IInv' /\ AllMove
<1>1. PICK k, p : k = conn[c] /\ p = program
  OBVIOUS
<1>2. p \in Program /\ Good(p, k) /\ fastOpen \in BOOLEAN
  BY <1>1 DEF IInv, Good
<1>3. program' = program /\ fastOpen' \in BOOLEAN
  BY <1>2 DEF ConnectTimeout, FastOpenRefused, Becomes
<1>4. conn' = [conn EXCEPT ![c] = NoConn]
  <2>1. CASE p = "local"
    <3>1. Good("local", k)
      BY <1>2, <2>1 DEF Good
    <3>2. conn' = [conn EXCEPT ![c] = LocalHungUp(k)]
      BY <1>1, <2>1 DEF ConnectTimeout, FastOpenRefused, Becomes, LocalTimeout
    <3> QED
      BY <3>1, <3>2, HungUps
  <2>2. CASE p = "tunnel"
    <3>1. Good("tunnel", k)
      BY <1>2, <2>2 DEF Good
    <3>2. conn' = [conn EXCEPT ![c] = TunnelHungUp(k)]
      BY <1>1, <2>2 DEF ConnectTimeout, FastOpenRefused, Becomes, TunnelTimeout
    <3> QED
      BY <3>1, <3>2, HungUps
  <2>3. CASE p = "redir"
    <3>1. Good("redir", k)
      BY <1>2, <2>3 DEF Good
    <3>2. conn' = [conn EXCEPT ![c] = RedirHungUp(k)]
      BY <1>1, <2>3 DEF ConnectTimeout, FastOpenRefused, Becomes, RedirTimeout
    <3> QED
      BY <3>1, <3>2, HungUps
  <2> QED
    BY <1>2, <2>1, <2>2, <2>3 DEF Program
<1>5. Good(p, NoConn) /\ Moves(k, NoConn)
  BY <1>2, ClosesGood
<1>6. Good(program, NoConn) /\ Moves(conn[c], NoConn)
  BY <1>1, <1>5 DEF Good, Moves
<1> QED
  BY <1>3, <1>4, <1>6, OneGood

LEMMA DelayedConnectStep ==
    ASSUME IInv, NEW c \in Conn, DelayedConnect(c)
    PROVE  IInv' /\ AllMove
<1>1. PICK k, f, p : k = conn[c] /\ f = fastOpen /\ p = program
  OBVIOUS
<1>2. f \in BOOLEAN /\ p \in Program /\ Good(p, k)
  BY <1>1 DEF IInv, Good
<1>3. On(k, "delayTimer") /\ program' = program /\ fastOpen' \in BOOLEAN
  BY <1>1, <1>2 DEF DelayedConnect, Becomes
<1>4. ASSUME NEW m, Good(p, m), Moves(k, m), conn' = [conn EXCEPT ![c] = m] PROVE IInv' /\ AllMove
  <2>1. Good(program, m) /\ Moves(conn[c], m)
    BY <1>1, <1>4 DEF Good, Moves
  <2> QED
    BY <1>3, <1>4, <2>1, OneGood
<1>5. CASE p = "local"
  <2>1. PICK m \in LocalDelayed(k, f) : conn' = [conn EXCEPT ![c] = m]
    BY <1>1, <1>5 DEF DelayedConnect, Becomes
  <2>2. Good("local", k)
    BY <1>2, <1>5 DEF Good
  <2>3. Good("local", m) /\ Moves(k, m)
    BY <1>2, <1>3, <2>1, <2>2, LocalDelayedGood
  <2>4. Good(p, m)
    BY <1>5, <2>3 DEF Good
  <2> QED
    BY <1>4, <2>1, <2>3, <2>4
<1>6. CASE p = "redir"
  <2>1. PICK m \in RedirDelayed(k) : conn' = [conn EXCEPT ![c] = m]
    BY <1>1, <1>6 DEF DelayedConnect, Becomes
  <2>2. Good("redir", k)
    BY <1>2, <1>6 DEF Good
  <2>3. Good("redir", m) /\ Moves(k, m)
    BY <1>3, <2>1, <2>2, RedirDelayedGood
  <2>4. Good(p, m)
    BY <1>6, <2>3 DEF Good
  <2> QED
    BY <1>4, <2>1, <2>3, <2>4
\* ss-tunnel has no such timer.
<1>7. CASE p = "tunnel"
  <2>1. Good("tunnel", k)
    BY <1>2, <1>7 DEF Good
  <2>2. ~On(k, "delayTimer")
    BY <2>1, Runs, Parts DEF TunnelDialling, Dialling, Established
  <2> QED
    BY <1>3, <2>2
<1> QED
  BY <1>2, <1>5, <1>6, <1>7 DEF Program

LEMMA RestartStep ==
    ASSUME IInv, Restart
    PROVE  IInv' /\ AllMove
<1>1. PICK p : p = program
  OBVIOUS
<1>2. p \in Program /\ conn \in [Conn -> State] /\ \A d \in Conn : Good(p, conn[d])
  BY <1>1 DEF IInv, Good
<1>3. conn' = [d \in Conn |-> NoConn]
  <2>1. conn' = [d \in Conn |-> IF p = "local" THEN LocalShutDown(conn[d]) ELSE NoConn]
    BY <1>1 DEF Restart
  <2>2. ASSUME NEW d \in Conn, p = "local" PROVE LocalShutDown(conn[d]) = NoConn
    <3>1. Good("local", conn[d])
      BY <1>2, <2>2 DEF Good
    <3> QED
      BY <3>1, HungUps
  <2> QED
    BY <2>1, <2>2
<1>4. program' = p /\ fastOpen' \in BOOLEAN
  BY <1>1 DEF Restart
<1>5. NoConn \in State
  BY DEF NoConn
<1>6. ASSUME NEW d \in Conn PROVE Good(p, conn'[d]) /\ Moves(conn[d], conn'[d])
  <2>1. conn'[d] = NoConn
    BY <1>3
  <2>2. Good(p, NoConn) /\ Moves(conn[d], NoConn)
    BY <1>2, ClosesGood
  <2> QED
    BY <2>1, <2>2 DEF Good, Moves
<1>7. \A d \in Conn : Good(program', conn'[d])
  BY <1>4, <1>6 DEF Good
<1> QED
  BY <1>2, <1>3, <1>4, <1>5, <1>6, <1>7 DEF IInv, AllMove

-----------------------------------------------------------------------------
(* The theorems *)

LEMMA InitInv == Init => IInv
<1> SUFFICES ASSUME Init PROVE IInv
  OBVIOUS
<1>1. NoConn \in State
  BY DEF NoConn
<1>2. ASSUME NEW c \in Conn PROVE Good(program, conn[c])
  <2>1. conn[c] = NoConn
    BY DEF Init
  <2> QED
    BY <2>1 DEF Init, Program, Good, Closed
<1> QED
  BY <1>1, <1>2 DEF Init, IInv

LEMMA NextInv == IInv /\ [Next]_vars => IInv' /\ (vars' = vars \/ AllMove)
<1> SUFFICES ASSUME IInv, [Next]_vars PROVE IInv' /\ (vars' = vars \/ AllMove)
  OBVIOUS
<1>1. ASSUME NEW c \in Conn,
             \/ Accept(c)
             \/ ServerRecv(c) \/ ServerSend(c) \/ RemoteRecv(c) \/ RemoteSend(c)
             \/ ConnectTimeout(c) \/ DelayedConnect(c) \/ FastOpenRefused(c)
      PROVE  IInv' /\ AllMove
  BY <1>1, AcceptStep, ServerRecvStep, ServerSendStep, RemoteRecvStep, RemoteSendStep, HangUpStep, DelayedConnectStep
<1>2. CASE Restart
  BY <1>2, RestartStep
<1>3. CASE UNCHANGED vars
  BY <1>3 DEF vars, IInv, Good
<1> QED
  BY <1>1, <1>2, <1>3 DEF Next

LEMMA Invariant == Spec => []IInv
BY InitInv, NextInv, PTL DEF Spec

\* What the parts of CallbacksSafe need to know of a connection that is closed.
LEMMA ClosedQuiet ==
    ASSUME NEW k, Closed(k)
    PROVE  k.heap = {} /\ k.ptr = {} /\ k.on = {} /\ k.up = {} /\ ~k.down
BY ClosedParts

\* Each part of CallbacksSafe follows from the life a connection has.
LEMMA InvSafe == IInv => CallbacksSafe
<1> SUFFICES ASSUME IInv PROVE CallbacksSafe
  OBVIOUS
<1>1. ASSUME NEW c \in Conn
      PROVE  /\ Closed(conn[c]) \/ LocalGreeting(conn[c]) \/ Dialling(conn[c]) \/ Established(conn[c])
             /\ LocalGreeting(conn[c]) => program = "local"
             /\ Dialling(conn[c]) /\ program = "tunnel" => TunnelDialling(conn[c])
             /\ Dialling(conn[c]) /\ program = "redir" => RedirDialling(conn[c])
  <2>1. PICK k, p : k = conn[c] /\ p = program
    OBVIOUS
  <2>2. Good(p, k) /\ p \in Program
    BY <2>1 DEF IInv, Good
  <2>3. Closed(k) => k.heap = {}
    BY ClosedQuiet
  <2>4. Dialling(k) => k.heap = Object /\ ~Is(k, "connected")
    BY DEF Dialling, Paired
  <2>5. Established(k) => k.heap = Object /\ Is(k, "connected")
    BY DEF Established, Paired
  <2>6. LocalGreeting(k) => k.heap = {"server"}
    BY DEF LocalGreeting
  <2>7. CASE p = "local"
    <3>1. Closed(k) \/ LocalGreeting(k) \/ Dialling(k) \/ Established(k)
      BY <2>2, <2>7 DEF Good, Closed, LocalDialling
    <3> QED
      BY <2>1, <2>7, <3>1 DEF Closed
  <2>8. CASE p = "tunnel"
    <3>1. Closed(k) \/ TunnelDialling(k) \/ Established(k)
      BY <2>2, <2>8 DEF Good
    <3>2. ~LocalGreeting(k) /\ (Dialling(k) => TunnelDialling(k)) /\ (TunnelDialling(k) => Dialling(k))
      BY <2>3, <2>4, <2>5, <2>6, <3>1, Parts
    <3> QED
      BY <2>1, <2>8, <3>1, <3>2
  <2>9. CASE p = "redir"
    <3>1. Closed(k) \/ RedirDialling(k) \/ Established(k)
      BY <2>2, <2>9 DEF Good
    <3>2. ~LocalGreeting(k) /\ (Dialling(k) => RedirDialling(k)) /\ (RedirDialling(k) => Dialling(k))
      BY <2>3, <2>4, <2>5, <2>6, <3>1, Parts
    <3> QED
      BY <2>1, <2>9, <3>1, <3>2
  <2> QED
    BY <2>2, <2>7, <2>8, <2>9 DEF Program
<1>2. TypeOK
  <2>1. ASSUME NEW c \in Conn, conn[c].heap = {} PROVE Closed(conn[c])
    BY <1>1, <2>1 DEF LocalGreeting, Dialling, Established, Paired
  <2> QED
    BY <2>1 DEF IInv, TypeOK, Closed
<1>3. NoDangling
  BY <1>1, ClosedQuiet DEF NoDangling, LocalGreeting, Dialling, Established, Paired
<1>4. NoStall
  BY <1>1, ClosedQuiet DEF NoStall, LocalGreeting, Dialling, Established, Paired
<1>5. HandlersReady
  BY <1>1, ClosedQuiet DEF HandlersReady, LocalGreeting, Dialling, TunnelDialling, RedirDialling, Established, Paired
<1> QED
  BY <1>2, <1>3, <1>4, <1>5 DEF CallbacksSafe

\* What AllMove says of the abstract relay.
LEMMA MovesRelay ==
    ASSUME NEW c \in Conn, Moves(conn[c], conn'[c])
    PROVE  R(c)!Next \/ UNCHANGED R(c)!vars
BY DEF Moves, R!Next, R!vars, R!Ask, R!Open, R!Keep, R!ReceiveUp, R!DeliverUp, R!ReceiveDown,
       R!DeliverDown, R!Refuse, R!End, R!Nothing, R!Channel

\* In each of the three client programs, with any number of connections and
\* whatever the network does, no callback meets freed memory or misses what it
\* takes for granted, and no connection is left without a watcher that carries
\* it on (server_recv_cb, server_send_cb, remote_recv_cb, remote_send_cb and
\* the timers of local.c, tunnel.c and redir.c).
THEOREM CallbacksSafeAlways == Spec => []CallbacksSafe
BY Invariant, InvSafe, PTL

\* Each of the three programs implements the abstract relay on every one of its
\* connections: nothing overtakes or overwrites, and the address header comes
\* once, before everything else (server_stream, remote_send_cb).
THEOREM RelayKeptAlways == Spec => RelayKept
<1>1. Init => \A c \in Conn : R(c)!Init
  <2> SUFFICES ASSUME Init, NEW c \in Conn PROVE R(c)!Init
    OBVIOUS
  <2>1. Closed(conn[c])
    BY DEF Init, Closed
  <2> QED
    BY <2>1, ClosedMaps DEF R!Init
<1>2. IInv /\ [Next]_vars => [\A c \in Conn : R(c)!Next \/ UNCHANGED R(c)!vars]_vars
  BY NextInv, MovesRelay DEF AllMove
<1> QED
  BY <1>1, <1>2, Invariant, PTL DEF Spec, RelayKept
=============================================================================
