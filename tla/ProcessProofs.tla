---------------------------- MODULE ProcessProofs ----------------------------
(***************************************************************************)
(* Proofs about processes: ss-manager and its servers, for any ports,      *)
(* passwords and number of processes, commands and faults; and the life of *)
(* the four programs from main to exit, with their plugin, for any         *)
(* arguments, files, ports, ciphers and number of spins.                   *)
(***************************************************************************)
EXTENDS Manager, Startup, TLAPS, WellFoundedInduction

-----------------------------------------------------------------------------
(* ss-manager and its servers *)

\* The inductive invariant.
IInv == TypeOK /\ Registered /\ Prepared /\ Exclusive

LEMMA NoneApart == None # "TERM" /\ None \notin Pid /\ None \notin Password /\ None \notin Port /\ None \notin TableEntry
BY ManagerAssumption DEF Pid

\* The record of a process and its parts.
LEMMA ProcParts ==
    ASSUME TypeOK, NEW i \in Pid
    PROVE  /\ proc[i] \in Proc
           /\ proc[i].state \in ProcState /\ proc[i].port \in Port \cup {None}
           /\ proc[i].password \in Password \cup {None} /\ proc[i].sig \in {"TERM", None}
           /\ proc[i].conns \in 0..MaxConns
BY DEF TypeOK, Proc

\* What a step that moves a process to another state does to it.
LEMMA SetParts ==
    ASSUME TypeOK, NEW i \in Pid, NEW s \in ProcState, Set(i, s)
    PROVE  /\ proc' \in [Pid -> Proc]
           /\ proc'[i].state = s /\ proc'[i].port = proc[i].port
           /\ proc'[i].password = proc[i].password /\ proc'[i].sig = proc[i].sig
           /\ proc'[i].conns \in {0, proc[i].conns}
           /\ \A j \in Pid : j # i => proc'[j] = proc[j]
<1> DEFINE n == IF s = "dead" THEN 0 ELSE proc[i].conns
           h == [proc[i] EXCEPT !.state = s]
           q == [h EXCEPT !.conns = n]
<1>1. proc[i] \in Proc /\ n \in 0..MaxConns
  BY ProcParts, ManagerAssumption
<1>2. /\ h \in Proc /\ h.state = s /\ h.port = proc[i].port
      /\ h.password = proc[i].password /\ h.sig = proc[i].sig /\ h.conns = proc[i].conns
  BY <1>1 DEF Proc
<1>3. /\ q \in Proc /\ q.state = h.state /\ q.port = h.port
      /\ q.password = h.password /\ q.sig = h.sig /\ q.conns = n
  <2> HIDE DEF h, n
  <2> QED BY <1>1, <1>2 DEF Proc
<1>4. proc' = [proc EXCEPT ![i] = q]
  <2> DEFINE half == [proc EXCEPT ![i] = h]
  <2>1. half[i] = h
    BY DEF TypeOK
  <2>2. proc' = [half EXCEPT ![i] = [half[i] EXCEPT !.conns = IF s = "dead" THEN 0 ELSE half[i].conns]]
    BY DEF Set
  <2>3. proc' = [half EXCEPT ![i] = q]
    BY <1>2, <2>1, <2>2
  <2> QED BY <2>3 DEF TypeOK
<1> HIDE DEF q
<1> QED BY <1>2, <1>3, <1>4 DEF TypeOK

LEMMA InitIInv == Init => IInv
<1> SUFFICES ASSUME Init PROVE IInv
  OBVIOUS
<1>1. \A i \in Pid : ~Alive(i)
  BY DEF Init, Alive, NoProc
<1>2. TypeOK
  <2>1. proc \in [Pid -> Proc]
    BY ManagerAssumption DEF Init, NoProc, Proc, ProcState
  <2> QED
    BY <1>1, <2>1, ManagerAssumption DEF Init, TypeOK
<1>3. Registered /\ Prepared /\ Exclusive
  BY <1>1 DEF Init, Registered, Down, Prepared, Exclusive, TcpHolders, Of
<1> QED BY <1>2, <1>3 DEF IInv

\* kill(2) of the processes of some pid files changes nothing but the pending
\* signal.
LEMMA SignalParts ==
    ASSUME TypeOK, NEW asked, Signal(asked)
    PROVE  /\ proc' \in [Pid -> Proc]
           /\ \A i \in Pid : /\ proc'[i].state = proc[i].state
                             /\ proc'[i].port = proc[i].port
                             /\ proc'[i].password = proc[i].password
                             /\ proc[i].sig = "TERM" => proc'[i].sig = "TERM"
                             /\ (\E p \in asked : pidfile[p] = i) /\ Alive(i) => proc'[i].sig = "TERM"
                             /\ proc[i] = NoProc => proc'[i] = NoProc
<1>1. ASSUME NEW i \in Pid
      PROVE  /\ proc'[i] \in Proc
             /\ proc'[i].state = proc[i].state
             /\ proc'[i].port = proc[i].port
             /\ proc'[i].password = proc[i].password
             /\ proc[i].sig = "TERM" => proc'[i].sig = "TERM"
             /\ (\E p \in asked : pidfile[p] = i) /\ Alive(i) => proc'[i].sig = "TERM"
             /\ proc[i] = NoProc => proc'[i] = NoProc
  <2>1. proc[i] \in Proc
    BY DEF TypeOK
  <2>2. CASE \E p \in asked : pidfile[p] = i /\ Alive(i)
    <3>1. proc'[i] = [proc[i] EXCEPT !.sig = "TERM"]
      BY <2>2 DEF Signal
    <3>2. Alive(i) /\ proc[i] # NoProc
      BY <2>2 DEF Alive, NoProc
    <3> QED BY <2>1, <3>1, <3>2 DEF Proc
  <2>3. CASE ~ \E p \in asked : pidfile[p] = i /\ Alive(i)
    <3>1. proc'[i] = proc[i]
      BY <2>3 DEF Signal
    <3> QED BY <2>1, <2>3, <3>1
  <2> QED BY <2>2, <2>3
<1>2. proc' = [i \in Pid |-> proc'[i]]
  BY DEF Signal
<1> QED BY <1>1, <1>2

\* A step that starts no process and moves none between states keeps the
\* sockets where they are.
LEMMA SameStates ==
    ASSUME TypeOK, Exclusive,
           \A i \in Pid : proc'[i].state = proc[i].state /\ proc'[i].port = proc[i].port
    PROVE  /\ \A i \in Pid : Alive(i)' <=> Alive(i)
           /\ \A p : Of(p)' = Of(p)
           /\ \A p : TcpHolders(p)' = TcpHolders(p)
           /\ Exclusive'
<1>1. \A i \in Pid : Alive(i)' <=> Alive(i)
  BY DEF Alive
<1>2. \A p : Of(p)' = Of(p)
  BY <1>1 DEF Of
<1>3. \A p : TcpHolders(p)' = TcpHolders(p)
  BY <1>2 DEF TcpHolders, Of
<1> QED BY <1>1, <1>2, <1>3 DEF Exclusive

\* Some process ends, or stops listening.
LEMMA LessAlive ==
    ASSUME TypeOK, Exclusive, NEW i \in Pid, NEW s \in {"closing", "dead"},
           Set(i, s), s = "closing" => proc[i].state = "serving"
    PROVE  /\ proc' \in [Pid -> Proc]
           /\ \A j \in Pid : /\ Alive(j)' => Alive(j)
                             /\ proc'[j].port = proc[j].port
                             /\ proc'[j].password = proc[j].password
                             /\ proc'[j].sig = proc[j].sig
                             /\ proc[j] = NoProc => proc'[j] = NoProc
           /\ \A p : Of(p)' \subseteq Of(p)
           /\ Exclusive'
<1>1. ASSUME NEW j \in Pid
      PROVE  /\ proc'[j] \in Proc
             /\ Alive(j)' => Alive(j)
             /\ proc'[j].port = proc[j].port
             /\ proc'[j].password = proc[j].password
             /\ proc'[j].sig = proc[j].sig
             /\ proc'[j].state = "serving" => proc[j].state = "serving"
             /\ proc[j] = NoProc => proc'[j] = NoProc
  <2>1. proc[j] \in Proc /\ proc[i] \in Proc
    BY DEF TypeOK
  <2>2. CASE j = i
    <3>1. /\ proc'[j] \in Proc /\ proc'[j].state = s /\ proc'[j].port = proc[j].port
          /\ proc'[j].password = proc[j].password /\ proc'[j].sig = proc[j].sig
          /\ proc'[j].conns \in {0, proc[j].conns}
      BY <2>2, SetParts DEF ProcState
    <3>2. proc[j] = NoProc => s = "dead"
      BY <2>2 DEF NoProc
    <3>3. proc[j] = NoProc => proc'[j] = NoProc
      BY <3>1, <3>2 DEF Proc, NoProc
    <3> QED BY <2>2, <3>1, <3>3 DEF Alive
  <2>3. CASE j # i
    BY <2>1, <2>3, SetParts DEF Alive, ProcState
  <2> QED BY <2>2, <2>3
<1>2. proc' \in [Pid -> Proc]
  BY SetParts DEF ProcState
<1>3. \A p : Of(p)' \subseteq Of(p)
  BY <1>1 DEF Of
<1>4. \A p : TcpHolders(p)' \subseteq TcpHolders(p)
  BY <1>1, <1>3 DEF TcpHolders, Of
<1> QED BY <1>1, <1>2, <1>3, <1>4 DEF Exclusive

\* Commands and reports that come in, and steps of a process that only touch
\* files, leave the invariant alone.
LEMMA OnlyInbox ==
    ASSUME IInv, UNCHANGED <<table, pidfile, proc, last, mgr>>,
           inbox' \in Seq(Msg), status' \in [Port -> Pid \cup {None}]
    PROVE  IInv'
<1>1. TypeOK'
  BY DEF IInv, TypeOK, Alive
<1>2. Registered' /\ Prepared' /\ Exclusive'
  BY DEF IInv, Registered, Down, Prepared, Exclusive, TcpHolders, Of, Alive
<1> QED BY <1>1, <1>2 DEF IInv

LEMMA HeadTail ==
    ASSUME TypeOK, inbox # <<>>
    PROVE  Head(inbox) \in Msg /\ Tail(inbox) \in Seq(Msg)
BY DEF TypeOK

LEMMA CommandIInv ==
    ASSUME IInv, NEW p \in Port,
           Command("remove", p, None) \/ \E pw \in Password : Command("add", p, pw)
    PROVE  IInv'
<1>1. inbox \in Seq(Msg) /\ status \in [Port -> Pid \cup {None}]
  BY DEF IInv, TypeOK
<1>2. CASE Command("remove", p, None)
  <2>1. [act |-> "remove", port |-> p, arg |-> None] \in Msg
    BY DEF Msg
  <2> QED BY <1>1, <1>2, <2>1, OnlyInbox DEF Command
<1>3. ASSUME NEW pw \in Password, Command("add", p, pw) PROVE IInv'
  <2>1. [act |-> "add", port |-> p, arg |-> pw] \in Msg
    BY DEF Msg
  <2> QED BY <1>1, <1>3, <2>1, OnlyInbox DEF Command
<1> QED BY <1>2, <1>3

LEMMA UpdateStatIInv == ASSUME IInv, UpdateStat PROVE IInv'
<1> DEFINE q == Head(inbox)
<1>1. q \in Msg /\ q.act = "stat" /\ Tail(inbox) \in Seq(Msg)
  BY HeadTail DEF IInv, UpdateStat
<1>2. q.port \in Port /\ q.arg \in Pid
  BY <1>1 DEF Msg
<1>3. mgr \in [at : {"idle", "exited", "crashed"}] /\ mgr.at = "idle" /\ mgr' = mgr
  BY DEF UpdateStat, Running, IInv, TypeOK
<1>4. /\ table' \in [Port -> TableEntry \cup {None}]
      /\ \A p \in Port : /\ table'[p] = None <=> table[p] = None
                         /\ table[p] # None => table'[p].password = table[p].password
  <2>1. CASE table[q.port] = None
    BY <2>1 DEF UpdateStat, IInv, TypeOK
  <2>2. CASE table[q.port] # None
    <3>1. table[q.port] \in TableEntry
      BY <1>2, <2>2 DEF IInv, TypeOK
    <3>2. table' = [table EXCEPT ![q.port] = [table[q.port] EXCEPT !.traffic = q.arg]]
      BY <2>2 DEF UpdateStat
    <3>3. /\ [table[q.port] EXCEPT !.traffic = q.arg] \in TableEntry
          /\ [table[q.port] EXCEPT !.traffic = q.arg].password = table[q.port].password
      BY <1>2, <3>1 DEF TableEntry
    <3>4. [table[q.port] EXCEPT !.traffic = q.arg] # None
      BY <3>3, NoneApart
    <3> QED BY <1>2, <2>2, <3>2, <3>3, <3>4 DEF IInv, TypeOK
  <2> QED BY <2>1, <2>2
<1>5. TypeOK'
  BY <1>1, <1>4 DEF UpdateStat, IInv, TypeOK, Alive
<1>6. Registered'
  BY <1>3, <1>4 DEF UpdateStat, IInv, TypeOK, Registered, Down, Alive
<1>7. Prepared' /\ Exclusive'
  BY <1>3 DEF UpdateStat, IInv, Prepared, Exclusive, TcpHolders, Of, Alive
<1> QED BY <1>5, <1>6, <1>7 DEF IInv

LEMMA RemoveEntryIInv == ASSUME IInv, RemoveEntry PROVE IInv'
<1> DEFINE q == Head(inbox)
<1>1. q \in Msg /\ q.act \in {"add", "remove"} /\ Tail(inbox) \in Seq(Msg)
  BY HeadTail DEF IInv, RemoveEntry
<1>2. q.port \in Port /\ q.arg \in Password \cup {None}
  BY <1>1 DEF Msg
<1>3. mgr' = [at |-> "stop", port |-> q.port, arg |-> q.arg] /\ mgr.at = "idle"
  BY DEF RemoveEntry, Running
<1>4. /\ table' \in [Port -> TableEntry \cup {None}] /\ table'[q.port] = None
      /\ \A p \in Port : p # q.port => table'[p] = table[p]
  BY <1>2 DEF RemoveEntry, IInv, TypeOK
<1>5. TypeOK'
  BY <1>1, <1>2, <1>3, <1>4 DEF RemoveEntry, IInv, TypeOK, Alive
<1>6. Registered'
  BY <1>3, <1>4 DEF RemoveEntry, IInv, TypeOK, Registered, Down, Alive
<1>7. Prepared' /\ Exclusive'
  BY <1>3, <1>4 DEF RemoveEntry, IInv, Prepared, Exclusive, TcpHolders, Of, Alive
<1> QED BY <1>5, <1>6, <1>7 DEF IInv

LEMMA StopServerIInv == ASSUME IInv, StopServer PROVE IInv'
<1>1. PICK p \in Port, a \in Password \cup {None} : mgr = [at |-> "stop", port |-> p, arg |-> a]
  BY DEF StopServer, IInv, TypeOK
<1>2. /\ proc' \in [Pid -> Proc]
      /\ \A i \in Pid : /\ proc'[i].state = proc[i].state
                        /\ proc'[i].port = proc[i].port
                        /\ proc'[i].password = proc[i].password
                        /\ proc[i].sig = "TERM" => proc'[i].sig = "TERM"
                        /\ pidfile[p] = i /\ proc[i].state # "dead" => proc'[i].sig = "TERM"
                        /\ proc[i] = NoProc => proc'[i] = NoProc
  <2>1. Signal({p})
    BY <1>1 DEF StopServer
  <2> QED BY <2>1, SignalParts DEF IInv, Alive
<1>3. Exclusive'
  BY <1>2, SameStates DEF IInv
<1>4. \A i \in Pid : proc[i].state # "dead" /\ proc[i].port = p => proc'[i].sig = "TERM"
  BY <1>1, <1>2, ProcParts DEF IInv, Registered, Down, Alive
<1>5. \/ mgr' = [at |-> "idle"]
      \/ a \in Password /\ mgr' = [at |-> "check", port |-> p, arg |-> a]
  BY <1>1 DEF StopServer
<1>6. TypeOK'
  BY <1>1, <1>2, <1>5 DEF StopServer, IInv, TypeOK, Alive
<1>7. Registered'
  <2>1. ASSUME NEW i \in Pid, proc'[i].state # "dead", proc'[i].sig = None
        PROVE  /\ pidfile[proc[i].port] = i
               /\ table[proc[i].port] # None
               /\ table[proc[i].port].password = proc[i].password
    <3>1. proc[i].state # "dead" /\ proc[i].sig = None /\ proc[i].port # p
      BY <1>2, <1>4, <2>1, NoneApart, ProcParts DEF IInv
    <3> QED BY <1>1, <3>1 DEF IInv, Registered, Down, Alive
  <2> QED BY <1>2, <2>1 DEF Registered, Down, StopServer, Alive
<1>8. Prepared'
  <2>1. table'[p] = None
    BY <1>1 DEF IInv, Prepared, StopServer
  <2>2. CASE mgr' = [at |-> "idle"]
    BY <2>2 DEF Prepared
  <2>3. CASE mgr' = [at |-> "check", port |-> p, arg |-> a]
    <3>1. mgr'.at = "check" /\ mgr'.port = p
      BY <2>3
    <3>2. \A i \in Pid : proc'[i].state # "dead" /\ proc'[i].port = mgr'.port => proc'[i].sig = "TERM"
      BY <1>2, <1>4, <3>1
    <3> QED BY <2>1, <3>1, <3>2 DEF Prepared, Of, Alive
  <2> QED BY <1>5, <2>2, <2>3
<1> QED BY <1>3, <1>6, <1>7, <1>8 DEF IInv

LEMMA CheckPortIInv == ASSUME IInv, CheckPort PROVE IInv'
<1>1. PICK p \in Port, a \in Password : mgr = [at |-> "check", port |-> p, arg |-> a]
  BY DEF CheckPort, IInv, TypeOK
<1> DEFINE e == [password |-> a, traffic |-> None, pid |-> None]
<1>2. e \in TableEntry /\ e # None /\ e.password = a
  BY NoneApart DEF TableEntry
<1>3. \A i \in Pid : proc[i].state # "dead" /\ proc[i].port = p => proc[i].sig = "TERM"
  BY <1>1 DEF IInv, Prepared, Of, Alive
<1>4. \/ mgr' = [at |-> "idle"] /\ table' = table
      \/ mgr' = [at |-> "launch", port |-> p, arg |-> a] /\ table' = [table EXCEPT ![p] = e]
  BY <1>1 DEF CheckPort
<1>5. Exclusive'
  BY DEF CheckPort, IInv, Exclusive, TcpHolders, Of, Alive
<1>6. CASE mgr' = [at |-> "idle"] /\ table' = table
  <2>1. TypeOK'
    BY <1>6 DEF CheckPort, IInv, TypeOK, Alive
  <2>2. Registered'
    BY <1>1, <1>6 DEF CheckPort, IInv, Registered, Down, Alive
  <2>3. Prepared'
    BY <1>6 DEF Prepared
  <2> QED BY <1>5, <2>1, <2>2, <2>3 DEF IInv
<1>7. CASE mgr' = [at |-> "launch", port |-> p, arg |-> a] /\ table' = [table EXCEPT ![p] = e]
  <2>1. TypeOK'
    BY <1>2, <1>7 DEF CheckPort, IInv, TypeOK, Alive
  <2>2. table'[p] = e /\ \A x \in Port : x # p => table'[x] = table[x]
    BY <1>7 DEF IInv, TypeOK
  <2>3. Registered'
    <3>1. ASSUME NEW i \in Pid, proc[i].state # "dead", proc[i].sig = None
          PROVE  /\ pidfile[proc[i].port] = i
                 /\ table'[proc[i].port] # None
                 /\ table'[proc[i].port].password = proc[i].password
      <4>1. proc[i].port # p /\ proc[i].port \in Port
        BY <1>3, <3>1, NoneApart DEF IInv, TypeOK, Alive
      <4> QED BY <1>1, <2>2, <3>1, <4>1 DEF IInv, Registered, Down, Alive
    <3> QED BY <3>1 DEF Registered, Down, CheckPort, Alive
  <2>4. Prepared'
    <3>1. mgr'.at = "launch" /\ mgr'.port = p /\ mgr'.arg = a /\ proc' = proc
      BY <1>7 DEF CheckPort
    <3>2. \A i \in Pid : proc'[i].state # "dead" /\ proc'[i].port = mgr'.port => proc'[i].sig = "TERM"
      BY <1>3, <3>1
    <3> QED BY <1>2, <2>2, <3>1, <3>2 DEF Prepared, Of, Alive
  <2> QED BY <1>5, <2>1, <2>3, <2>4 DEF IInv
<1> QED BY <1>4, <1>6, <1>7

LEMMA LaunchIInv == ASSUME IInv, Launch PROVE IInv'
<1>1. PICK p \in Port, a \in Password : mgr = [at |-> "launch", port |-> p, arg |-> a]
  BY DEF Launch, IInv, TypeOK
<1>2. PICK n \in Pid : n = last + 1
  BY DEF Launch
<1> DEFINE new == [state |-> "forked", port |-> p, password |-> a, sig |-> None, conns |-> 0]
           e == [table[p] EXCEPT !.pid = n]
<1>3. /\ last' = n /\ mgr' = [at |-> "idle"]
      /\ proc' = [proc EXCEPT ![n] = new]
      /\ pidfile' = [pidfile EXCEPT ![p] = n]
      /\ table' = [table EXCEPT ![p] = e]
      /\ UNCHANGED <<status, inbox>>
  BY <1>1, <1>2 DEF Launch
<1>4. new \in Proc
  BY ManagerAssumption DEF Proc, ProcState
<1>5. e \in TableEntry /\ e # None /\ e.password = a
  <2>1. table[p] \in TableEntry /\ table[p].password = a
    BY <1>1 DEF IInv, TypeOK, Prepared
  <2>2. e \in TableEntry /\ e.password = a
    BY <2>1 DEF TableEntry
  <2> QED BY <2>2, NoneApart
<1>6. /\ proc' \in [Pid -> Proc] /\ proc'[n] = new
      /\ \A i \in Pid : i # n => proc'[i] = proc[i]
  BY <1>3, <1>4 DEF IInv, TypeOK
<1>7. TypeOK'
  <2>1. last \in Nat /\ last' \in 0..MaxPid /\ \A i \in Pid : i > last' => i > last /\ i # n
    BY <1>2, <1>3, ManagerAssumption DEF IInv, TypeOK, Pid
  <2>2. /\ \A i \in Pid : i > last' => proc'[i] = NoProc
        /\ \A i \in Pid : Alive(i)' => proc'[i].port \in Port
    BY <1>6, <2>1 DEF IInv, TypeOK, Alive
  <2> QED BY <1>3, <1>5, <1>6, <2>1, <2>2 DEF IInv, TypeOK
<1>8. Registered'
  <2>1. ASSUME NEW i \in Pid, proc'[i].state # "dead", proc'[i].sig = None
        PROVE  /\ pidfile'[proc'[i].port] = i
               /\ table'[proc'[i].port] # None
               /\ table'[proc'[i].port].password = proc'[i].password
    <3>1. CASE i = n
      BY <1>3, <1>5, <1>6, <3>1 DEF IInv, TypeOK
    <3>2. CASE i # n
      <4>1. proc'[i] = proc[i] /\ proc[i].state # "dead" /\ proc[i].sig # "TERM"
        BY <1>6, <2>1, <3>2, NoneApart
      <4>2. proc[i].port # p /\ proc[i].port \in Port
        BY <1>1, <4>1 DEF IInv, TypeOK, Prepared, Of, Alive
      <4> QED BY <1>1, <1>3, <2>1, <4>1, <4>2 DEF IInv, TypeOK, Registered, Down, Alive
    <3> QED BY <3>1, <3>2
  <2> QED BY <2>1 DEF Registered, Down, Alive
<1>9. Prepared'
  BY <1>3 DEF Prepared
<1>10. Exclusive'
  BY <1>6 DEF IInv, Exclusive, TcpHolders, Of, Alive
<1> QED BY <1>7, <1>8, <1>9, <1>10 DEF IInv

LEMMA LaunchFailsIInv == ASSUME IInv, LaunchFails PROVE IInv'
<1>1. mgr.at = "launch" /\ mgr' = [at |-> "idle"]
  BY DEF LaunchFails
<1>2. TypeOK'
  BY <1>1 DEF LaunchFails, IInv, TypeOK, Alive
<1>3. Registered'
  BY <1>1 DEF LaunchFails, IInv, Registered, Down, Alive
<1>4. Prepared' /\ Exclusive'
  BY <1>1 DEF LaunchFails, IInv, Prepared, Exclusive, TcpHolders, Of, Alive
<1> QED BY <1>2, <1>3, <1>4 DEF IInv

LEMMA MgrExitIInv == ASSUME IInv, MgrExit PROVE IInv'
<1>1. /\ proc' \in [Pid -> Proc]
      /\ \A i \in Pid : /\ proc'[i].state = proc[i].state
                        /\ proc'[i].port = proc[i].port
                        /\ proc[i].sig = "TERM" => proc'[i].sig = "TERM"
                        /\ proc[i] = NoProc => proc'[i] = NoProc
  BY SignalParts DEF MgrExit, IInv
<1>2. mgr' = [at |-> "exited"] /\ inbox' \in Seq(Msg)
  BY DEF MgrExit
<1>3. Exclusive'
  BY <1>1, SameStates DEF IInv
<1>4. TypeOK'
  BY <1>1, <1>2 DEF MgrExit, IInv, TypeOK, Alive
<1>5. Registered'
  BY <1>1, <1>2, NoneApart, ProcParts DEF MgrExit, IInv, Registered, Down, Alive
<1>6. Prepared'
  BY <1>2 DEF Prepared
<1> QED BY <1>3, <1>4, <1>5, <1>6 DEF IInv

LEMMA MgrCrashIInv == ASSUME IInv, MgrCrash PROVE IInv'
<1>1. mgr' = [at |-> "crashed"] /\ inbox' \in Seq(Msg)
  BY DEF MgrCrash
<1>2. TypeOK'
  BY <1>1 DEF MgrCrash, IInv, TypeOK, Alive
<1>3. Registered'
  BY <1>1 DEF MgrCrash, IInv, Registered, Down, Alive
<1>4. Prepared' /\ Exclusive'
  BY <1>1 DEF MgrCrash, IInv, Prepared, Exclusive, TcpHolders, Of, Alive
<1> QED BY <1>2, <1>3, <1>4 DEF IInv

\* Every server the pid files name is signalled, so none is left that was not.
LEMMA MgrStartIInv == ASSUME IInv, MgrStart PROVE IInv'
<1>1. /\ proc' \in [Pid -> Proc]
      /\ \A i \in Pid : /\ proc'[i].state = proc[i].state
                        /\ proc'[i].port = proc[i].port
                        /\ proc[i].sig = "TERM" => proc'[i].sig = "TERM"
                        /\ (\E p \in Port : pidfile[p] = i) /\ Alive(i) => proc'[i].sig = "TERM"
                        /\ proc[i] = NoProc => proc'[i] = NoProc
  BY SignalParts DEF MgrStart, IInv
<1>2. mgr' = [at |-> "idle"]
  BY DEF MgrStart
<1>3. Exclusive'
  BY <1>1, SameStates DEF IInv
<1>4. TypeOK'
  BY <1>1, <1>2 DEF MgrStart, IInv, TypeOK, Alive
<1>5. \A i \in Pid : proc'[i].state # "dead" => proc'[i].sig # None
  BY <1>1, NoneApart, ProcParts DEF IInv, TypeOK, Registered, Down, Alive
<1>6. Registered'
  BY <1>5 DEF Registered, Down, Alive
<1>7. Prepared'
  BY <1>2 DEF Prepared
<1> QED BY <1>3, <1>4, <1>6, <1>7 DEF IInv

\* What is left of a set of servers is still registered and prepared.
LEMMA EndIInv ==
    ASSUME IInv, NEW i \in Pid, NEW s \in {"closing", "dead"},
           Set(i, s), s = "closing" => proc[i].state = "serving",
           UNCHANGED <<mgrVars, inbox>>, status' \in [Port -> Pid \cup {None}]
    PROVE  IInv'
<1>1. /\ proc' \in [Pid -> Proc]
      /\ \A j \in Pid : /\ Alive(j)' => Alive(j)
                        /\ proc'[j].port = proc[j].port
                        /\ proc'[j].password = proc[j].password
                        /\ proc'[j].sig = proc[j].sig
                        /\ proc[j] = NoProc => proc'[j] = NoProc
      /\ Exclusive'
  BY LessAlive DEF IInv
<1>2. UNCHANGED <<table, pidfile, last, mgr, inbox>>
  BY DEF mgrVars
<1>3. TypeOK'
  BY <1>1, <1>2 DEF IInv, TypeOK
<1>4. Registered'
  BY <1>1, <1>2 DEF IInv, Registered, Down
<1>5. Prepared'
  BY <1>1, <1>2 DEF IInv, Prepared, Of
<1> QED BY <1>1, <1>3, <1>4, <1>5 DEF IInv

\* A server binds its port only when no other holds its sockets.
LEMMA BindIInv == ASSUME IInv, NEW i \in Pid, Bind(i) PROVE IInv'
<1>1. status' \in [Port -> Pid \cup {None}]
  BY DEF Bind, IInv, TypeOK
<1>2. CASE Set(i, "dead")
  BY <1>1, <1>2, EndIInv DEF Bind
<1>3. CASE Set(i, "serving") /\ TcpHolders(proc[i].port) = {}
  <2>1. UNCHANGED <<table, pidfile, last, mgr, inbox, status>> /\ proc[i].state = "forked"
    BY DEF Bind, mgrVars
  <2>2. ASSUME NEW j \in Pid
        PROVE  /\ proc'[j] \in Proc
               /\ proc'[j].state # "dead" <=> proc[j].state # "dead"
               /\ proc'[j].port = proc[j].port
               /\ proc'[j].password = proc[j].password
               /\ proc'[j].sig = proc[j].sig
               /\ proc[j] = NoProc => proc'[j] = NoProc
               /\ j # i => proc'[j].state = proc[j].state
    <3>1. /\ proc'[i] \in Proc /\ proc'[i].state = "serving" /\ proc'[i].port = proc[i].port
          /\ proc'[i].password = proc[i].password /\ proc'[i].sig = proc[i].sig
          /\ \A k \in Pid : k # i => proc'[k] = proc[k]
      BY <1>3, SetParts DEF ProcState, IInv
    <3>2. proc[i] # NoProc
      BY <2>1 DEF NoProc
    <3> QED BY <2>1, <3>1, <3>2 DEF IInv, TypeOK
  <2>3. proc' \in [Pid -> Proc]
    BY <1>3, SetParts DEF ProcState, IInv
  <2>4. TypeOK'
    BY <2>1, <2>2, <2>3 DEF IInv, TypeOK, Alive
  <2>5. Registered'
    BY <2>1, <2>2 DEF IInv, Registered, Down, Alive
  <2>6. Prepared'
    BY <2>1, <2>2 DEF IInv, Prepared, Of, Alive
  <2>7. Exclusive'
    BY <1>3, <2>2 DEF IInv, Exclusive, TcpHolders, Of, Alive
  <2> QED BY <2>4, <2>5, <2>6, <2>7 DEF IInv
<1> QED BY <1>2, <1>3 DEF Bind

\* The status file a server writes is the one of its port.
LEMMA StatusType ==
    ASSUME IInv, NEW i \in Pid, Alive(i), WritesStatus(i)
    PROVE  status' \in [Port -> Pid \cup {None}]
BY DEF IInv, TypeOK, WritesStatus

LEMMA EndStepIInv ==
    ASSUME IInv, NEW i \in Pid, SigDefault(i) \/ EndLoop(i) \/ Cleanup(i) \/ Dies(i)
    PROVE  IInv'
<1>1. status' \in [Port -> Pid \cup {None}]
  BY DEF SigDefault, EndLoop, Cleanup, Dies, IInv, TypeOK
<1>2. UNCHANGED <<mgrVars, inbox>>
  BY DEF SigDefault, EndLoop, Cleanup, Dies
<1>3. CASE Set(i, "dead")
  BY <1>1, <1>2, <1>3, EndIInv
<1>4. CASE Set(i, "closing") /\ proc[i].state = "serving"
  BY <1>1, <1>2, <1>4, EndIInv
<1> QED BY <1>3, <1>4 DEF SigDefault, EndLoop, Cleanup, Dies

\* A connection comes or goes, while the server serves or closes down.
LEMMA ConnectionsIInv ==
    ASSUME IInv, NEW i \in Pid,
           FreeConnection(i) \/ \E d \in -1..1 : Connections(i, d)
    PROVE  IInv'
<1>1. Alive(i) /\ WritesStatus(i) /\ UNCHANGED <<table, pidfile, last, mgr, inbox>>
  BY DEF FreeConnection, Connections, Alive, mgrVars
<1>2. status' \in [Port -> Pid \cup {None}]
  BY <1>1, StatusType
<1>0. PICK n \in 0..MaxConns : proc' = [proc EXCEPT ![i] = [proc[i] EXCEPT !.conns = n]]
  <2>1. proc[i].conns \in 0..MaxConns
    BY ProcParts DEF IInv
  <2>2. CASE FreeConnection(i)
    <3>1. proc[i].conns - 1 \in 0..MaxConns
      BY <2>1, <2>2, ManagerAssumption DEF FreeConnection
    <3> QED BY <2>2, <3>1 DEF FreeConnection
  <2>3. ASSUME NEW d \in -1..1, Connections(i, d)
        PROVE  \E n \in 0..MaxConns : proc' = [proc EXCEPT ![i] = [proc[i] EXCEPT !.conns = n]]
    BY <2>3 DEF Connections
  <2> QED BY <2>2, <2>3
<1>3. ASSUME NEW j \in Pid
      PROVE  /\ proc'[j] \in Proc
             /\ proc'[j].state = proc[j].state
             /\ proc'[j].port = proc[j].port
             /\ proc'[j].password = proc[j].password
             /\ proc'[j].sig = proc[j].sig
             /\ proc[j] = NoProc => proc'[j] = NoProc
  <2>1. proc[j] \in Proc /\ proc[i] # NoProc
    BY <1>1 DEF IInv, TypeOK, Alive, NoProc
  <2>2. CASE j = i
    <3>1. proc'[j] = [proc[j] EXCEPT !.conns = n]
      BY <1>0, <2>2 DEF IInv, TypeOK
    <3> QED BY <2>1, <2>2, <3>1 DEF Proc
  <2>3. CASE j # i
    BY <1>0, <2>1, <2>3 DEF IInv, TypeOK
  <2> QED BY <2>2, <2>3
<1>4. proc' \in [Pid -> Proc]
  BY <1>0, <1>3 DEF IInv, TypeOK
<1>5. Exclusive'
  BY <1>3, SameStates DEF IInv
<1>6. TypeOK'
  BY <1>1, <1>2, <1>3, <1>4 DEF IInv, TypeOK, Alive
<1>7. Registered'
  BY <1>1, <1>3 DEF IInv, Registered, Down, Alive
<1>8. Prepared'
  BY <1>1, <1>3 DEF IInv, Prepared, Of, Alive
<1> QED BY <1>5, <1>6, <1>7, <1>8 DEF IInv

LEMMA StatUpdateIInv == ASSUME IInv, NEW i \in Pid, StatUpdate(i) PROVE IInv'
<1>1. Alive(i) /\ WritesStatus(i) /\ UNCHANGED <<table, pidfile, proc, last, mgr>>
  BY DEF StatUpdate, Alive, mgrVars
<1>2. status' \in [Port -> Pid \cup {None}]
  BY <1>1, StatusType
<1>3. [act |-> "stat", port |-> proc[i].port, arg |-> i] \in Msg /\ inbox \in Seq(Msg)
  BY <1>1 DEF IInv, TypeOK, Msg
<1>4. inbox' \in Seq(Msg)
  BY <1>3 DEF StatUpdate, Sent
<1> QED BY <1>1, <1>2, <1>4, OnlyInbox

LEMMA NextIInv == ASSUME IInv, [Next]_vars PROVE IInv'
<1>1. CASE ManagerStep
  BY <1>1, UpdateStatIInv, RemoveEntryIInv, StopServerIInv, CheckPortIInv, LaunchIInv DEF ManagerStep
<1>2. CASE LaunchFails \/ MgrExit \/ MgrCrash \/ MgrStart
  BY <1>2, LaunchFailsIInv, MgrExitIInv, MgrCrashIInv, MgrStartIInv
<1>3. CASE \E p \in Port : Command("remove", p, None) \/ \E pw \in Password : Command("add", p, pw)
  BY <1>3, CommandIInv
<1>4. ASSUME NEW i \in Pid,
             ServerStep(i) \/ StatUpdate(i) \/ Dies(i) \/ \E d \in -1..1 : Connections(i, d)
      PROVE  IInv'
  BY <1>4, BindIInv, EndStepIInv, StatUpdateIInv, ConnectionsIInv DEF ServerStep
<1>5. CASE UNCHANGED vars
  <2>1. inbox' \in Seq(Msg) /\ status' \in [Port -> Pid \cup {None}]
    BY <1>5 DEF vars, IInv, TypeOK
  <2> QED BY <1>5, <2>1, OnlyInbox DEF vars
<1> QED BY <1>1, <1>2, <1>3, <1>4, <1>5 DEF Next

LEMMA IInvAlways == Spec => []IInv
BY InitIInv, NextIInv, PTL DEF Spec

\* Types of the tables, pid files and processes.
THEOREM TypeCorrect == Spec => []TypeOK
BY IInvAlways, PTL DEF IInv

\* ss-manager loses no server (remove_server, stop_server, the pid files main
\* reads): for any ports and any number of processes, commands and crashes.
THEOREM RegisteredAlways == Spec => []Registered
BY IInvAlways, PTL DEF IInv

\* What add_server relies on between its steps holds whatever the servers do
\* meanwhile.
THEOREM PreparedAlways == Spec => []Prepared
BY IInvAlways, PTL DEF IInv

\* A closing server was told to stop.
Told == \A i \in Pid : proc[i].state = "closing" => proc[i].sig = "TERM"

\* What one step may do to a process.
LEMMA ProcStep ==
    ASSUME IInv, [Next]_vars, NEW i \in Pid
    PROVE  \/ proc'[i].state = proc[i].state /\ proc'[i].conns = proc[i].conns
              /\ (proc[i].sig = "TERM" => proc'[i].sig = "TERM")
           \/ proc[i].state = "closing" /\ proc'[i].state = "closing"
              /\ proc'[i].conns = proc[i].conns - 1 /\ proc'[i].sig = proc[i].sig
           \/ proc[i].state = "serving" /\ proc'[i].state = "closing"
              /\ proc[i].sig = "TERM" /\ proc'[i].sig = "TERM"
           \/ proc[i].state # "closing" /\ proc'[i].state # "closing"
           \/ proc'[i].state = "dead" /\ proc'[i].conns = 0
<1>1. CASE proc' = proc
  BY <1>1
<1>2. CASE \E asked : Signal(asked)
  <2>1. proc'[i] = proc[i] \/ proc'[i] = [proc[i] EXCEPT !.sig = "TERM"]
    BY <1>2 DEF Signal
  <2> QED BY <2>1, ProcParts DEF Proc, IInv
<1>3. CASE Launch
  <2>1. PICK n \in Pid : n = last + 1 /\ proc'[n].state = "forked"
                       /\ \A j \in Pid : j # n => proc'[j] = proc[j]
    BY <1>3 DEF Launch, IInv, TypeOK
  <2>2. n > last /\ proc[n] = NoProc
    BY <2>1, ManagerAssumption DEF IInv, TypeOK
  <2> QED BY <2>1, <2>2 DEF NoProc
<1>4. ASSUME NEW j \in Pid, NEW s \in ProcState, Set(j, s),
             proc[j].state # "closing" \/ s = "dead",
             s = "closing" => proc[j].state = "serving" /\ proc[j].sig = "TERM"
      PROVE  \/ proc'[i] = proc[i]
             \/ proc[i].state = "serving" /\ proc'[i].state = "closing"
                /\ proc[i].sig = "TERM" /\ proc'[i].sig = "TERM"
             \/ proc[i].state # "closing" /\ proc'[i].state # "closing"
             \/ proc'[i].state = "dead" /\ proc'[i].conns = 0
  <2>1. s = "dead" => proc'[j].conns = 0
    BY <1>4, ProcParts, ManagerAssumption DEF Set, IInv, TypeOK, Proc
  <2> QED BY <1>4, <2>1, SetParts DEF IInv
<1>5. CASE \E j \in Pid : Bind(j) \/ SigDefault(j) \/ EndLoop(j) \/ Cleanup(j) \/ Dies(j)
  <2>1. PICK j \in Pid : Bind(j) \/ SigDefault(j) \/ EndLoop(j) \/ Cleanup(j) \/ Dies(j)
    BY <1>5
  <2>2. \E s \in ProcState : /\ Set(j, s)
                             /\ proc[j].state # "closing" \/ s = "dead"
                             /\ s = "closing" => proc[j].state = "serving" /\ proc[j].sig = "TERM"
    BY <2>1 DEF Bind, SigDefault, EndLoop, Cleanup, Dies, ProcState
  <2> QED BY <1>4, <2>2
<1>6. CASE \E j \in Pid : FreeConnection(j) \/ \E d \in -1..1 : Connections(j, d)
  <2>1. PICK j \in Pid : FreeConnection(j) \/ \E d \in -1..1 : Connections(j, d)
    BY <1>6
  <2>2. CASE j # i
    BY <2>1, <2>2 DEF FreeConnection, Connections, IInv, TypeOK
  <2>3. CASE j = i /\ FreeConnection(i)
    <3>1. proc[i] \in Proc /\ proc[i].state = "closing"
          /\ proc'[i] = [proc[i] EXCEPT !.conns = proc[i].conns - 1]
      BY <2>3 DEF FreeConnection, IInv, TypeOK
    <3> QED BY <3>1 DEF Proc
  <2>4. ASSUME j = i, NEW d \in -1..1, Connections(i, d)
        PROVE  proc[i].state # "closing" /\ proc'[i].state # "closing"
    <3>1. proc[i] \in Proc /\ proc[i].state = "serving"
          /\ proc'[i] = [proc[i] EXCEPT !.conns = proc[i].conns + d]
      BY <2>4 DEF Connections, IInv, TypeOK
    <3> QED BY <3>1 DEF Proc
  <2> QED BY <2>1, <2>2, <2>3, <2>4
<1>7. \/ proc' = proc \/ (\E asked : Signal(asked)) \/ Launch
      \/ \E j \in Pid : Bind(j) \/ SigDefault(j) \/ EndLoop(j) \/ Cleanup(j) \/ Dies(j)
      \/ \E j \in Pid : FreeConnection(j) \/ \E d \in -1..1 : Connections(j, d)
  <2>1. StopServer \/ MgrExit \/ MgrStart => \E asked : Signal(asked)
    BY DEF StopServer, MgrExit, MgrStart
  <2>2. UpdateStat \/ RemoveEntry \/ CheckPort \/ LaunchFails \/ MgrCrash \/ UNCHANGED vars => proc' = proc
    BY DEF UpdateStat, RemoveEntry, CheckPort, LaunchFails, MgrCrash, vars
  <2>3. ASSUME NEW p \in Port, Command("remove", p, None) \/ \E pw \in Password : Command("add", p, pw)
        PROVE  proc' = proc
    BY <2>3 DEF Command
  <2>4. ASSUME NEW j \in Pid, StatUpdate(j) PROVE proc' = proc
    BY <2>4 DEF StatUpdate
  <2> QED BY <2>1, <2>2, <2>3, <2>4 DEF Next, ManagerStep, ServerStep
<1> QED BY <1>1, <1>2, <1>3, <1>5, <1>6, <1>7

LEMMA ToldAlways == Spec => []Told
<1>1. Init => Told
  BY DEF Init, NoProc, Told
<1>2. IInv /\ Told /\ [Next]_vars => Told'
  <2> SUFFICES ASSUME IInv, Told, [Next]_vars, NEW i \in Pid, proc'[i].state = "closing"
               PROVE  proc'[i].sig = "TERM"
    BY DEF Told
  <2> QED BY ProcStep DEF Told
<1> QED BY <1>1, <1>2, IInvAlways, PTL DEF Spec

\* Whoever writes the status file of a port is the process that listens there,
\* or one that was told to stop and has one connection less after the write
\* (free_connections), and such a process never gets another one.
THEOREM LateWritesCountedHolds == Spec => LateWritesCounted
<1> DEFINE Late ==
             \A p \in Port : status'[p] # None /\ status'[p] # status[p] =>
             \A j \in TcpHolders(p) :
                \/ j = status'[p]
                \/ LET i == status'[p]
                   IN  /\ proc[i].state = "closing" /\ proc[i].sig = "TERM"
                       /\ proc'[i].conns < proc[i].conns
           Less ==
             \A i \in Pid : proc[i].state = "closing" =>
             /\ proc'[i].state \in {"closing", "dead"}
             /\ proc'[i].conns <= proc[i].conns
<1>1. ASSUME IInv, Told, [Next]_vars PROVE Late
  <2>1. ASSUME NEW i \in Pid, WritesStatus(i), Alive(i),
               \/ i \in TcpHolders(proc[i].port)
               \/ proc[i].state = "closing" /\ proc'[i].conns < proc[i].conns
        PROVE  Late
    <3>1. \A p \in Port : status'[p] # status[p] => p = proc[i].port /\ status'[p] = i
      BY <1>1, <2>1 DEF WritesStatus, IInv, TypeOK
    <3>2. proc[i].port \in Port
      BY <1>1, <2>1 DEF IInv, TypeOK
    <3>3. CASE i \in TcpHolders(proc[i].port)
      BY <1>1, <3>1, <3>2, <3>3 DEF IInv, Exclusive
    <3>4. CASE proc[i].state = "closing" /\ proc'[i].conns < proc[i].conns
      BY <1>1, <3>1, <3>4 DEF Told
    <3> QED BY <2>1, <3>3, <3>4
  <2>2. CASE \E i \in Pid : StatUpdate(i) \/ \E d \in -1..1 : Connections(i, d)
    <3>1. PICK i \in Pid : proc[i].state = "serving" /\ WritesStatus(i)
      BY <2>2 DEF StatUpdate, Connections
    <3>2. Alive(i) /\ i \in TcpHolders(proc[i].port)
      BY <1>1, <3>1 DEF TcpHolders, Of, Alive
    <3> QED BY <2>1, <3>1, <3>2
  <2>3. CASE \E i \in Pid : FreeConnection(i)
    <3>1. PICK i \in Pid : FreeConnection(i)
      BY <2>3
    <3>2. proc[i] \in Proc /\ proc'[i] = [proc[i] EXCEPT !.conns = proc[i].conns - 1]
      BY <1>1, <3>1 DEF FreeConnection, IInv, TypeOK
    <3>3. proc'[i].conns < proc[i].conns
      BY <3>2 DEF Proc
    <3> QED BY <2>1, <3>1, <3>3 DEF FreeConnection, Alive
  <2>4. CASE RemoveEntry
    <3>1. \A p \in Port : status'[p] = status[p] \/ status'[p] = None
      BY <1>1, <2>4 DEF RemoveEntry, IInv, TypeOK
    <3> QED BY <3>1
  <2>5. CASE status' = status
    BY <2>5
  <2>6. \/ \E i \in Pid : StatUpdate(i) \/ \E d \in -1..1 : Connections(i, d)
        \/ \E i \in Pid : FreeConnection(i)
        \/ RemoveEntry \/ status' = status
    BY <1>1 DEF Next, vars, ManagerStep, UpdateStat, StopServer, CheckPort, Launch, LaunchFails,
           MgrExit, MgrCrash, MgrStart, Command, ServerStep, Bind, SigDefault, EndLoop, Cleanup, Dies
  <2> QED BY <2>2, <2>3, <2>4, <2>5, <2>6
<1>2. ASSUME IInv, [Next]_vars PROVE Less
  <2> SUFFICES ASSUME NEW i \in Pid, proc[i].state = "closing"
               PROVE  proc'[i].state \in {"closing", "dead"} /\ proc'[i].conns <= proc[i].conns
    OBVIOUS
  <2>1. proc[i].conns \in Nat
    BY <1>2, ProcParts, ManagerAssumption DEF IInv
  <2> QED BY <1>2, <2>1, ProcStep
<1>3. IInv /\ Told /\ [Next]_vars => [Late /\ Less]_vars
  BY <1>1, <1>2
<1> QED BY <1>3, IInvAlways, ToldAlways, PTL DEF Spec, LateWritesCounted

\* Every server of ss-manager is accounted for between any two steps of
\* manager.c and of the servers themselves.
THEOREM OrderlyAlways == Spec => []Orderly
<1>1. IInv => Orderly
  BY DEF IInv, Orderly
<1> QED BY <1>1, IInvAlways, PTL

-----------------------------------------------------------------------------
(* A program from main to exit: the inductive invariant *)

StepNames == {"options", "port", "daemonize", "target", "plugin", "signals", "crypto", "resolver", "remotes", "tcp",
              "udp", "setuid", "loop"}
Closing == {"stop", "spin", "wait", "free"}
AllHandlers == {"INT", "TERM", "CHLD"}

\* Which step belongs to which program, and what comes before what.
PcInv ==
    /\ Prog \in Programs
    /\ pc \in Gone \union StepNames \union Closing
    /\ pc = "target" => Prog = "ss-tunnel"
    /\ pc = "remotes" => ~IsServer
    /\ pc = "resolver" => IsServer
    /\ me \in 0..1 /\ (pc \in {"options", "port", "daemonize"} => me = 0)
    /\ ret \in {0, -1} /\ keys \in BOOLEAN
    /\ cause \in {"", "settings", "fault"}

BeforePlugin ==
    \/ pc \in {"options", "port", "daemonize", "target", "plugin"}
    \/ IsServer /\ pc \in {"signals", "crypto", "resolver"}

\* What the loop needs is there from the step on that gets it.
ReadyInv ==
    /\ \/ pc \in {"remotes", "tcp", "udp", "setuid", "loop"}
       \/ Prog = "ss-local" /\ pc = "signals"
       \/ IsServer /\ pc \in {"resolver", "plugin"}
       => keys
    /\ \/ pc \in {"tcp", "udp", "setuid", "loop"}
       \/ Prog \in {"ss-tunnel", "ss-redir"} /\ pc \in {"crypto", "remotes"}
       \/ IsServer /\ pc \in {"crypto", "resolver", "plugin"}
       => handlers = AllHandlers
    /\ pc \in Closing => handlers = {"CHLD"}
    /\ handlers \subseteq AllHandlers /\ pending \subseteq handlers
    /\ pc \in StepNames \ {"loop"} => uid = "root"
    /\ pc = "loop" => uid = IF set.user = NULL THEN "root" ELSE set.user
    /\ set.mode = UDP_ONLY => tcp = {}
    /\ set.mode # UDP_ONLY /\ pc \in {"udp", "setuid", "loop"} => tcp # {}
    /\ udp # {} => set.mode # TCP_ONLY
    /\ IsServer /\ set.mode # TCP_ONLY /\ pc \in {"setuid", "loop"} => udp # {}
    /\ pc = "options" => tcp = {} /\ udp = {}

\* The plugin, as the program and as the system know it.
ChildInv ==
    /\ DOMAIN sub = DOMAIN NoSub /\ DOMAIN child = DOMAIN NoChild
    /\ sub.pid \in {0, 1} /\ sub.there \in BOOLEAN /\ child.missed \in BOOLEAN
    /\ spins \in 0..Spins
    /\ child.state \in {"none", "forked", "running", "stopped", "zombie", "reaped"}
    /\ BeforePlugin => sub = NoSub /\ child = NoChild
    /\ sub.pid = 0 => child.state \in {"none", "reaped"}
    /\ child.state # "none" => child.parent = me
    /\ pc \in {"free", "ended"} => child.state \in {"none", "reaped"}
    /\ pc = "ended" => sub.ends = {}
    /\ child.state = "forked" => child.ends = Ends({"in"})
    /\ child.state \in {"running", "stopped"} => child.ends = {<<"in", "r">>}
    /\ IsServer => ~child.missed

\* What the plugin was told is what the program does.
ToldInv ==
    /\ sub.there => HasPlugin /\ sub.env = PluginCommand
    /\ remotes = << >> \/ remotes = IF Prog = "ss-local" THEN LocalRemotes ELSE TunnelRemotes
    /\ IsServer => remotes = << >>
    /\ IsServer => \A l \in tcp : \E i \in 1..Len(set.server) :
            l = Listener(i, IF HasPlugin THEN PluginAddress.host ELSE set.server[i].host, ServerPort(i), 0)
    /\ pc = "options" => remotes = << >>

StartupInv == PcInv /\ ReadyInv /\ ChildInv /\ ToldInv

-----------------------------------------------------------------------------

\* The order of the steps of ss-local, as a table of who comes after whom.
LEMMA OrderLocal ==
    ASSUME Prog = "ss-local"
    PROVE  /\ After("options") = "port" /\ After("port") = "daemonize" /\ After("daemonize") = "plugin"
           /\ After("plugin") = "crypto" /\ After("crypto") = "remotes" /\ After("remotes") = "signals"
           /\ After("signals") = "tcp" /\ After("tcp") = "udp" /\ After("udp") = "setuid"
           /\ After("setuid") = "loop"
<1>1. Steps = LocalMain /\ Len(LocalMain) = 11
  BY DEF Steps, LocalMain
<1> DEFINE At(x) == CHOOSE i \in 1..11 : LocalMain[i] = x
<1>2. At("options") = 1 /\ At("port") = 2 /\ At("daemonize") = 3 /\ At("plugin") = 4 /\ At("crypto") = 5
  BY DEF LocalMain
<1>3. At("remotes") = 6 /\ At("signals") = 7 /\ At("tcp") = 8 /\ At("udp") = 9 /\ At("setuid") = 10
  BY DEF LocalMain
<1>4. \A x : After(x) = LocalMain[At(x) + 1]
  BY <1>1 DEF After
<1> HIDE DEF At
<1> QED BY <1>2, <1>3, <1>4 DEF LocalMain

\* ... of ss-tunnel,
LEMMA OrderTunnel ==
    ASSUME Prog = "ss-tunnel"
    PROVE  /\ After("options") = "port" /\ After("port") = "daemonize" /\ After("daemonize") = "target"
           /\ After("target") = "plugin" /\ After("plugin") = "signals" /\ After("signals") = "crypto"
           /\ After("crypto") = "remotes" /\ After("remotes") = "tcp" /\ After("tcp") = "udp"
           /\ After("udp") = "setuid" /\ After("setuid") = "loop"
<1>1. Steps = TunnelMain /\ Len(TunnelMain) = 12
  BY DEF Steps, TunnelMain
<1> DEFINE At(x) == CHOOSE i \in 1..12 : TunnelMain[i] = x
<1>2. At("options") = 1 /\ At("port") = 2 /\ At("daemonize") = 3 /\ At("target") = 4 /\ At("plugin") = 5
  BY DEF TunnelMain
<1>3. At("signals") = 6 /\ At("crypto") = 7 /\ At("remotes") = 8 /\ At("tcp") = 9 /\ At("udp") = 10 /\ At("setuid") = 11
  BY DEF TunnelMain
<1>4. \A x : After(x) = TunnelMain[At(x) + 1]
  BY <1>1 DEF After
<1> HIDE DEF At
<1> QED BY <1>2, <1>3, <1>4 DEF TunnelMain

\* ... of ss-redir,
LEMMA OrderRedir ==
    ASSUME Prog = "ss-redir"
    PROVE  /\ After("options") = "port" /\ After("port") = "daemonize" /\ After("daemonize") = "plugin"
           /\ After("plugin") = "signals" /\ After("signals") = "crypto" /\ After("crypto") = "remotes"
           /\ After("remotes") = "tcp" /\ After("tcp") = "udp" /\ After("udp") = "setuid"
           /\ After("setuid") = "loop"
<1>1. Steps = RedirMain /\ Len(RedirMain) = 11
  BY DEF Steps, RedirMain
<1> DEFINE At(x) == CHOOSE i \in 1..11 : RedirMain[i] = x
<1>2. At("options") = 1 /\ At("port") = 2 /\ At("daemonize") = 3 /\ At("plugin") = 4 /\ At("signals") = 5
  BY DEF RedirMain
<1>3. At("crypto") = 6 /\ At("remotes") = 7 /\ At("tcp") = 8 /\ At("udp") = 9 /\ At("setuid") = 10
  BY DEF RedirMain
<1>4. \A x : After(x) = RedirMain[At(x) + 1]
  BY <1>1 DEF After
<1> HIDE DEF At
<1> QED BY <1>2, <1>3, <1>4 DEF RedirMain

\* ... and of ss-server.
LEMMA OrderServer ==
    ASSUME Prog = "ss-server"
    PROVE  /\ After("options") = "port" /\ After("port") = "daemonize" /\ After("daemonize") = "signals"
           /\ After("signals") = "crypto" /\ After("crypto") = "resolver" /\ After("resolver") = "plugin" /\ After("plugin") = "tcp"
           /\ After("tcp") = "udp" /\ After("udp") = "setuid" /\ After("setuid") = "loop"
<1>1. Steps = ServerMain /\ Len(ServerMain) = 11
  BY DEF Steps, ServerMain
<1> DEFINE At(x) == CHOOSE i \in 1..11 : ServerMain[i] = x
<1>2. At("options") = 1 /\ At("port") = 2 /\ At("daemonize") = 3 /\ At("signals") = 4
  BY DEF ServerMain
<1>3. At("crypto") = 5 /\ At("resolver") = 6 /\ At("plugin") = 7 /\ At("tcp") = 8 /\ At("udp") = 9 /\ At("setuid") = 10
  BY DEF ServerMain
<1>4. \A x : After(x) = ServerMain[At(x) + 1]
  BY <1>1 DEF After
<1> HIDE DEF At
<1> QED BY <1>2, <1>3, <1>4 DEF ServerMain

\* The four orders in one.
LEMMA Order ==
    ASSUME Prog \in Programs
    PROVE  /\ After("options") = "port" /\ After("port") = "daemonize"
           /\ After("daemonize") = IF IsServer THEN "signals" ELSE IF Prog = "ss-tunnel" THEN "target" ELSE "plugin"
           /\ Prog = "ss-tunnel" => After("target") = "plugin"
           /\ After("plugin") = IF IsServer THEN "tcp" ELSE IF Prog = "ss-local" THEN "crypto" ELSE "signals"
           /\ After("signals") = IF Prog = "ss-local" THEN "tcp" ELSE "crypto"
           /\ After("crypto") = IF IsServer THEN "resolver" ELSE "remotes"
           /\ IsServer => After("resolver") = "plugin"
           /\ ~IsServer => After("remotes") = IF Prog = "ss-local" THEN "signals" ELSE "tcp"
           /\ After("tcp") = "udp" /\ After("udp") = "setuid" /\ After("setuid") = "loop"
BY OrderLocal, OrderTunnel, OrderRedir, OrderServer DEF Programs, IsServer

-----------------------------------------------------------------------------
(* What does not change *)

\* What the program makes of its options stays as long as they do.
LEMMA Fixed ==
    ASSUME UNCHANGED <<input, set>>
    PROVE  /\ Prog' = Prog /\ (IsServer' <=> IsServer) /\ (HasPlugin' <=> HasPlugin)
           /\ PluginCommand' = PluginCommand /\ PluginAddress' = PluginAddress
           /\ LocalRemotes' = LocalRemotes /\ TunnelRemotes' = TunnelRemotes
           /\ \A i : ServerPort(i)' = ServerPort(i)
BY DEF Prog, IsServer, HasPlugin, PluginCommand, PluginAddress, LocalRemotes, TunnelRemotes, ServerPort, LocalHosts, TunnelHosts, Own

\* A step that leaves the plugin alone keeps what is known of it.
LEMMA ChildStays ==
    ASSUME ChildInv, UNCHANGED <<subVars, input>>, BeforePlugin' => BeforePlugin,
           pc' \notin {"free", "ended"}, me' = me \/ child.state = "none"
    PROVE  ChildInv'
BY DEF ChildInv, subVars, IsServer, Prog

\* A step that leaves the options and the servers alone keeps what the plugin was
\* told in line with them.
LEMMA ToldStays ==
    ASSUME ToldInv, UNCHANGED <<input, set, remotes>>, sub'.there = sub.there, sub'.env = sub.env, pc' # "options",
           tcp' = tcp \/ tcp' = {} \/ ~IsServer
    PROVE  ToldInv'
<1>1. PICK rs : rs = IF Prog = "ss-local" THEN LocalRemotes ELSE TunnelRemotes
  OBVIOUS
<1>2. rs = (IF Prog = "ss-local" THEN LocalRemotes ELSE TunnelRemotes)'
  BY <1>1, Fixed
<1> DEFINE L(i) == Listener(i, IF HasPlugin THEN PluginAddress.host ELSE set.server[i].host, ServerPort(i), 0)
<1>3. \A i : L(i)' = L(i)
  BY Fixed
<1>4. ASSUME IsServer' PROVE \A l \in tcp' : \E i \in 1..Len(set'.server) : l = L(i)'
  <2>1. IsServer
    BY <1>4, Fixed
  <2>2. \A l \in tcp : \E i \in 1..Len(set.server) : l = L(i)
    BY <2>1 DEF ToldInv
  <2> HIDE DEF L
  <2> QED BY <1>3, <2>1, <2>2
<1>5. sub'.there => HasPlugin' /\ sub'.env = PluginCommand'
  BY Fixed DEF ToldInv
<1>6. remotes' = << >> \/ remotes' = (IF Prog = "ss-local" THEN LocalRemotes ELSE TunnelRemotes)'
  BY <1>1, <1>2 DEF ToldInv
<1>7. IsServer' => remotes' = << >>
  BY Fixed DEF ToldInv
<1> QED BY <1>4, <1>5, <1>6, <1>7 DEF ToldInv

\* FATAL ends the program and changes nothing else.
LEMMA FatalKeeps ==
    ASSUME StartupInv, NEW why \in {"settings", "fault"}, Fatal(why), UNCHANGED subVars
    PROVE  StartupInv'
<1>1. pc' = "fatal" /\ cause' = why /\ UNCHANGED <<pending, input, set, me, uid, keys, handlers, ret, ports, remotes, tcp, udp>>
  BY DEF Fatal, procVars
<1>2. Prog' = Prog /\ (IsServer' <=> IsServer)
  BY <1>1 DEF Prog, IsServer
<1>3. PcInv'
  BY <1>1, <1>2 DEF StartupInv, PcInv, Gone
<1>4. ReadyInv'
  BY <1>1, <1>2 DEF StartupInv, ReadyInv, Closing, StepNames
<1>5. ChildInv'
  BY <1>1, ChildStays DEF StartupInv, BeforePlugin
<1>6. ToldInv'
  BY <1>1, ToldStays DEF StartupInv, subVars
<1> QED BY <1>3, <1>4, <1>5, <1>6 DEF StartupInv

\* The options are read before anything else is there.
LEMMA ReadOptionsKeeps ==
    ASSUME StartupInv, ReadOptions
    PROVE  StartupInv'
<1>1. /\ pc = "options" /\ pc' \in {"help", "fatal", "usage", "port"} /\ cause' \in {cause, "settings"}
      /\ UNCHANGED <<subVars, input, me, uid, keys, handlers, pending, ret, remotes, tcp, udp>>
  BY Order DEF ReadOptions, StartupInv, PcInv
<1>2. Prog' = Prog /\ (IsServer' <=> IsServer)
  BY <1>1 DEF Prog, IsServer
<1>3. PcInv'
  BY <1>1, <1>2 DEF StartupInv, PcInv, Gone, StepNames
<1>4. ReadyInv'
  BY <1>1, <1>2 DEF StartupInv, ReadyInv, Closing, StepNames
<1>5. ChildInv'
  BY <1>1, ChildStays DEF StartupInv, BeforePlugin
<1>6. sub = NoSub /\ remotes = << >> /\ tcp = {}
  BY <1>1 DEF StartupInv, ChildInv, BeforePlugin, ToldInv, ReadyInv
<1>7. ToldInv'
  BY <1>1, <1>6 DEF ToldInv, subVars, NoSub
<1> QED BY <1>3, <1>4, <1>5, <1>7 DEF StartupInv

\* get_local_port changes nothing the program keeps.
LEMMA FreePortKeeps ==
    ASSUME StartupInv, FreePort
    PROVE  StartupInv'
<1> DEFINE Goes ==
      /\ pc = "port" /\ pc' = After("port")
      /\ UNCHANGED <<subVars, pending, cause, input, set, me, uid, keys, handlers, ret, ports, remotes, tcp, udp>>
<1>0. Goes \/ (\E why \in {"settings", "fault"} : Fatal(why) /\ UNCHANGED subVars)
  BY DEF FreePort, GoOn, procVars
<1>a. CASE Goes
  <2>1. Goes
    BY <1>a
  <2>2. Prog' = Prog /\ (IsServer' <=> IsServer)
    BY <2>1 DEF Prog, IsServer
  <2>v. pc' = "daemonize"
    BY <2>1, Order DEF StartupInv, PcInv
  <2>3. PcInv'
    BY <2>1, <2>2, <2>v DEF StartupInv, PcInv, Gone, StepNames
  <2>4. ReadyInv'
    BY <2>1, <2>2, <2>v DEF StartupInv, PcInv, ReadyInv, Closing, StepNames, AllHandlers, IsServer
  <2>5. ChildInv'
    BY <2>1, <2>2, <2>v, ChildStays DEF StartupInv, PcInv, BeforePlugin
  <2>6. ToldInv'
    BY <2>1, <2>v, ToldStays DEF StartupInv, PcInv, subVars
  <2> QED BY <2>3, <2>4, <2>5, <2>6 DEF StartupInv
<1> QED BY <1>0, <1>a, FatalKeeps

\* daemonize makes another process the parent of the plugin to be.
LEMMA DaemonizeKeeps ==
    ASSUME StartupInv, Daemonize
    PROVE  StartupInv'
<1> DEFINE Goes ==
      /\ pc = "daemonize" /\ pc' = After("daemonize") /\ me' \in {me, me + 1}
      /\ UNCHANGED <<subVars, pending, cause, input, set, uid, keys, handlers, ret, ports, remotes, tcp, udp>>
<1>0. Goes \/ (\E why \in {"settings", "fault"} : Fatal(why) /\ UNCHANGED subVars)
  BY DEF Daemonize, GoOn, procVars
<1>a. CASE Goes
  <2>1. Goes
    BY <1>a
  <2>2. Prog' = Prog /\ (IsServer' <=> IsServer)
    BY <2>1 DEF Prog, IsServer
  <2>v. pc' = IF IsServer THEN "signals" ELSE IF Prog = "ss-tunnel" THEN "target" ELSE "plugin"
    BY <2>1, Order DEF StartupInv, PcInv
  <2>a. me = 0
    BY <2>1 DEF StartupInv, PcInv
  <2>b. me' \in 0..1
    BY <2>1, <2>a
  <2>m. pc' \notin {"options", "port", "daemonize", "remotes"} /\ pc' \in StepNames
    BY <2>v DEF StepNames
  <2>3. PcInv'
    BY <2>1, <2>2, <2>b, <2>m, <2>v DEF StartupInv, PcInv, Gone, StepNames
  <2>4. ReadyInv'
    BY <2>1, <2>2, <2>v DEF StartupInv, PcInv, ReadyInv, Closing, StepNames, AllHandlers, IsServer
  <2>5. ChildInv'
    <3>1. BeforePlugin /\ child.state = "none"
      BY <2>1 DEF StartupInv, BeforePlugin, ChildInv, NoChild
    <3> QED BY <2>1, <2>2, <2>v, <3>1, ChildStays DEF StartupInv
  <2>6. ToldInv'
    BY <2>1, <2>v, ToldStays DEF StartupInv, PcInv, subVars
  <2> QED BY <2>3, <2>4, <2>5, <2>6 DEF StartupInv
<1> QED BY <1>0, <1>a, FatalKeeps

\* The address of a tunnel is looked at only.
LEMMA TargetKeeps ==
    ASSUME StartupInv, Target
    PROVE  StartupInv'
<1> DEFINE Goes ==
      /\ pc = "target" /\ pc' = After("target")
      /\ UNCHANGED <<subVars, pending, cause, input, set, me, uid, keys, handlers, ret, ports, remotes, tcp, udp>>
<1>0. Goes \/ (\E why \in {"settings", "fault"} : Fatal(why) /\ UNCHANGED subVars)
  BY DEF Target, GoOn, procVars
<1>a. CASE Goes
  <2>1. Goes
    BY <1>a
  <2>2. Prog' = Prog /\ (IsServer' <=> IsServer)
    BY <2>1 DEF Prog, IsServer
  <2>v. pc' = "plugin"
    BY <2>1, Order DEF StartupInv, PcInv
  <2>3. PcInv'
    BY <2>1, <2>2, <2>v DEF StartupInv, PcInv, Gone, StepNames
  <2>4. ReadyInv'
    BY <2>1, <2>2, <2>v DEF StartupInv, PcInv, ReadyInv, Closing, StepNames, AllHandlers, IsServer
  <2>5. ChildInv'
    BY <2>1, <2>2, <2>v, ChildStays DEF StartupInv, PcInv, BeforePlugin
  <2>6. ToldInv'
    BY <2>1, <2>v, ToldStays DEF StartupInv, PcInv, subVars
  <2> QED BY <2>3, <2>4, <2>5, <2>6 DEF StartupInv
<1> QED BY <1>0, <1>a, FatalKeeps

\* From here on the handlers are there.
LEMMA SignalsKeeps ==
    ASSUME StartupInv, Signals
    PROVE  StartupInv'
<1> DEFINE Goes ==
      /\ pc = "signals" /\ pc' = After("signals") /\ handlers' = AllHandlers
      /\ UNCHANGED <<subVars, pending, cause, input, set, me, uid, keys, ret, ports, remotes, tcp, udp>>
<1>1. Goes
  BY DEF Signals, GoOn, AllHandlers
<1>2. Prog' = Prog /\ (IsServer' <=> IsServer)
  BY <1>1 DEF Prog, IsServer
<1>v. pc' = IF Prog = "ss-local" THEN "tcp" ELSE "crypto"
  BY <1>1, Order DEF StartupInv, PcInv
<1>3. PcInv'
  BY <1>1, <1>2, <1>v DEF StartupInv, PcInv, Gone, StepNames
<1>4. ReadyInv'
  BY <1>1, <1>2, <1>v DEF StartupInv, PcInv, ReadyInv, Closing, StepNames, AllHandlers, IsServer
<1>5. ChildInv'
  BY <1>1, <1>2, <1>v, ChildStays DEF StartupInv, PcInv, BeforePlugin
<1>6. ToldInv'
  BY <1>1, <1>v, ToldStays DEF StartupInv, PcInv, subVars
<1> QED BY <1>3, <1>4, <1>5, <1>6 DEF StartupInv

\* From here on the keys are there.
LEMMA CryptoKeeps ==
    ASSUME StartupInv, Crypto
    PROVE  StartupInv'
<1> DEFINE Goes ==
      /\ pc = "crypto" /\ pc' = After("crypto") /\ keys' = TRUE
      /\ UNCHANGED <<subVars, pending, cause, input, set, me, uid, handlers, ret, ports, remotes, tcp, udp>>
<1>0. Goes \/ (\E why \in {"settings", "fault"} : Fatal(why) /\ UNCHANGED subVars)
  BY DEF Crypto, GoOn, procVars
<1>a. CASE Goes
  <2>1. Goes
    BY <1>a
  <2>2. Prog' = Prog /\ (IsServer' <=> IsServer)
    BY <2>1 DEF Prog, IsServer
  <2>v. pc' = IF IsServer THEN "resolver" ELSE "remotes"
    BY <2>1, Order DEF StartupInv, PcInv
  <2>3. PcInv'
    BY <2>1, <2>2, <2>v DEF StartupInv, PcInv, Gone, StepNames
  <2>4. ReadyInv'
    BY <2>1, <2>2, <2>v DEF StartupInv, PcInv, ReadyInv, Closing, StepNames, AllHandlers, IsServer
  <2>5. ChildInv'
    BY <2>1, <2>2, <2>v, ChildStays DEF StartupInv, PcInv, BeforePlugin
  <2>6. ToldInv'
    BY <2>1, <2>v, ToldStays DEF StartupInv, PcInv, subVars
  <2> QED BY <2>3, <2>4, <2>5, <2>6 DEF StartupInv
<1> QED BY <1>0, <1>a, FatalKeeps

\* resolv_init leaves all that is said here alone.
LEMMA ResolverKeeps ==
    ASSUME StartupInv, Resolver
    PROVE  StartupInv'
<1> DEFINE Goes ==
      /\ pc = "resolver" /\ pc' = After("resolver")
      /\ UNCHANGED <<subVars, pending, cause, input, set, me, uid, keys, handlers, ret, ports, remotes, tcp, udp>>
<1>0. Goes \/ (\E why \in {"settings", "fault"} : Fatal(why) /\ UNCHANGED subVars)
  BY DEF Resolver, GoOn, procVars
<1>a. CASE Goes
  <2>1. Goes
    BY <1>a
  <2>2. Prog' = Prog /\ (IsServer' <=> IsServer)
    BY <2>1 DEF Prog, IsServer
  <2>v. IsServer /\ pc' = "plugin"
    BY <2>1, Order DEF StartupInv, PcInv
  <2>3. PcInv'
    BY <2>1, <2>2, <2>v DEF StartupInv, PcInv, Gone, StepNames
  <2>4. ReadyInv'
    BY <2>1, <2>2, <2>v DEF StartupInv, PcInv, ReadyInv, Closing, StepNames, AllHandlers, IsServer
  <2>5. ChildInv'
    BY <2>1, <2>2, <2>v, ChildStays DEF StartupInv, PcInv, BeforePlugin
  <2>6. ToldInv'
    BY <2>1, <2>v, ToldStays DEF StartupInv, PcInv, subVars
  <2> QED BY <2>3, <2>4, <2>5, <2>6 DEF StartupInv
<1> QED BY <1>0, <1>a, FatalKeeps

\* The table of servers goes with what the plugin was told.
LEMMA RemotesKeeps ==
    ASSUME StartupInv, Remotes
    PROVE  StartupInv'
<1> DEFINE Goes ==
      /\ pc = "remotes" /\ pc' = After("remotes") /\ remotes' = IF Prog = "ss-local" THEN LocalRemotes ELSE TunnelRemotes
      /\ UNCHANGED <<subVars, pending, cause, input, set, me, uid, keys, handlers, ret, ports, tcp, udp>>
<1>0. Goes \/ (\E why \in {"settings", "fault"} : Fatal(why) /\ UNCHANGED subVars)
  BY DEF Remotes, GoOn, procVars
<1>a. CASE Goes
  <2>1. Goes
    BY <1>a
  <2>2. Prog' = Prog /\ (IsServer' <=> IsServer)
    BY <2>1 DEF Prog, IsServer
  <2>v. ~IsServer /\ pc' = IF Prog = "ss-local" THEN "signals" ELSE "tcp"
    BY <2>1, Order DEF StartupInv, PcInv
  <2>3. PcInv'
    BY <2>1, <2>2, <2>v DEF StartupInv, PcInv, Gone, StepNames
  <2>4. ReadyInv'
    BY <2>1, <2>2, <2>v DEF StartupInv, PcInv, ReadyInv, Closing, StepNames, AllHandlers, IsServer, Programs
  <2>5. ChildInv'
    BY <2>1, <2>2, <2>v, ChildStays DEF StartupInv, PcInv, BeforePlugin
  <2>6. ToldInv'
    <3>1. remotes' = (IF Prog = "ss-local" THEN LocalRemotes ELSE TunnelRemotes)'
      BY <2>1, Fixed
    <3>2. sub'.there => HasPlugin' /\ sub'.env = PluginCommand'
      BY <2>1, Fixed DEF StartupInv, ToldInv, subVars
    <3> QED BY <2>1, <2>2, <2>v, <3>1, <3>2 DEF ToldInv
  <2> QED BY <2>3, <2>4, <2>5, <2>6 DEF StartupInv
<1> QED BY <1>0, <1>a, FatalKeeps

\* The ports are bound as root.
LEMMA AsRoot ==
    ASSUME StartupInv, pc \in {"tcp", "udp"}
    PROVE  \A port : MayBind(port)
BY DEF StartupInv, ReadyInv, StepNames, MayBind

\* create_and_bind of a client.
LEMMA ClientTcpKeeps ==
    ASSUME StartupInv, ClientTcp
    PROVE  StartupInv'
<1> DEFINE Goes ==
      /\ pc = "tcp" /\ ~IsServer /\ pc' = After("tcp")
      /\ \/ set.mode = UDP_ONLY /\ tcp' = tcp
         \/ set.mode # UDP_ONLY /\ tcp' # {}
      /\ UNCHANGED <<subVars, pending, cause, input, set, me, uid, keys, handlers, ret, ports, remotes, udp>>
<1>0. Goes \/ (\E why \in {"settings", "fault"} : Fatal(why) /\ UNCHANGED subVars)
  BY AsRoot DEF ClientTcp, GoOn, procVars
<1>a. CASE Goes
  <2>1. Goes
    BY <1>a
  <2>2. Prog' = Prog /\ (IsServer' <=> IsServer)
    BY <2>1 DEF Prog, IsServer
  <2>v. pc' = "udp"
    BY <2>1, Order DEF StartupInv, PcInv
  <2>3. PcInv'
    BY <2>1, <2>2, <2>v DEF StartupInv, PcInv, Gone, StepNames
  <2>4. ReadyInv'
    BY <2>1, <2>2, <2>v DEF StartupInv, PcInv, ReadyInv, Closing, StepNames, AllHandlers
  <2>5. ChildInv'
    BY <2>1, <2>2, <2>v, ChildStays DEF StartupInv, PcInv, BeforePlugin
  <2>6. ToldInv'
    BY <2>1, <2>v, ToldStays DEF StartupInv, PcInv, subVars
  <2> QED BY <2>3, <2>4, <2>5, <2>6 DEF StartupInv
<1> QED BY <1>0, <1>a, FatalKeeps

\* init_udprelay of a client, once per marked port.
LEMMA ClientUdpKeeps ==
    ASSUME StartupInv, ClientUdp
    PROVE  StartupInv'
<1> DEFINE Goes ==
      /\ pc = "udp" /\ ~IsServer /\ pc' \in {"tcp", After("udp")}
      /\ udp' = udp \/ set.mode # TCP_ONLY
      /\ UNCHANGED <<subVars, pending, cause, input, set, me, uid, keys, handlers, ret, remotes, tcp>>
<1>0. Goes \/ (\E why \in {"settings", "fault"} : Fatal(why) /\ UNCHANGED subVars)
  BY DEF ClientUdp
<1>a. CASE Goes
  <2>1. Goes
    BY <1>a
  <2>2. Prog' = Prog /\ (IsServer' <=> IsServer)
    BY <2>1 DEF Prog, IsServer
  <2>v. pc' \in {"tcp", "setuid"}
    BY <2>1, Order DEF StartupInv, PcInv
  <2>3. PcInv'
    BY <2>1, <2>2, <2>v DEF StartupInv, PcInv, Gone, StepNames
  <2>4. ReadyInv'
    BY <2>1, <2>2, <2>v DEF StartupInv, PcInv, ReadyInv, Closing, StepNames, AllHandlers
  <2>5. ChildInv'
    BY <2>1, <2>2, <2>v, ChildStays DEF StartupInv, PcInv, BeforePlugin
  <2>6. ToldInv'
    BY <2>1, <2>v, ToldStays DEF StartupInv, PcInv, subVars
  <2> QED BY <2>3, <2>4, <2>5, <2>6 DEF StartupInv
<1> QED BY <1>0, <1>a, FatalKeeps

\* ss-server listens where its plugin connects to.
LEMMA ServerTcpKeeps ==
    ASSUME StartupInv, ServerTcp
    PROVE  StartupInv'
<1> DEFINE L(i) == Listener(i, IF HasPlugin THEN PluginAddress.host ELSE set.server[i].host, ServerPort(i), 0)
           Goes ==
      /\ pc = "tcp" /\ IsServer /\ pc' = After("tcp")
      /\ \/ set.mode = UDP_ONLY /\ tcp' = tcp
         \/ set.mode # UDP_ONLY /\ tcp' # {} /\ \A l \in tcp' : \E i \in 1..Len(set.server) : l = L(i)
      /\ UNCHANGED <<subVars, pending, cause, input, set, me, uid, keys, handlers, ret, ports, remotes, udp>>
<1>0. Goes \/ (\E why \in {"settings", "fault"} : Fatal(why) /\ UNCHANGED subVars)
  <2> HIDE DEF L
  <2>1. pc = "tcp" /\ IsServer /\ UNCHANGED subVars
    BY DEF ServerTcp
  <2>2. CASE set.mode = UDP_ONLY /\ GoOn /\ UNCHANGED procVars
    BY <2>1, <2>2 DEF GoOn, procVars
  <2>3. CASE ~(set.mode = UDP_ONLY /\ GoOn /\ UNCHANGED procVars)
    <3>1. PICK bound \in SUBSET {i \in 1..Len(set.server) : MayBind(ServerPort(i))} :
            IF bound = {} THEN Fatal(IF \A i \in 1..Len(set.server) : MayBind(ServerPort(i)) THEN "fault" ELSE "privilege")
            ELSE /\ tcp' = {L(i) : i \in bound} /\ GoOn
                 /\ UNCHANGED <<input, set, me, uid, keys, handlers, ret, ports, remotes, udp>>
      BY <2>3 DEF ServerTcp, L
    <3>2. CASE bound = {}
      BY <2>1, <3>1, <3>2, AsRoot
    <3>3. CASE bound # {}
      BY <2>1, <2>3, <3>1, <3>3 DEF ServerTcp, GoOn
    <3> QED BY <3>2, <3>3
  <2> QED BY <2>2, <2>3
<1>a. CASE Goes
  <2>1. Goes
    BY <1>a
  <2>2. Prog' = Prog /\ (IsServer' <=> IsServer)
    BY <2>1 DEF Prog, IsServer
  <2>v. pc' = "udp"
    BY <2>1, Order DEF StartupInv, PcInv
  <2>3. PcInv'
    BY <2>1, <2>2, <2>v DEF StartupInv, PcInv, Gone, StepNames
  <2>4. ReadyInv'
    BY <2>1, <2>2, <2>v DEF StartupInv, PcInv, ReadyInv, Closing, StepNames, AllHandlers
  <2>5. ChildInv'
    BY <2>1, <2>2, <2>v, ChildStays DEF StartupInv, PcInv, BeforePlugin
  <2>6. ToldInv'
    <3>1. \A i : L(i)' = L(i)
      BY <2>1, Fixed
    <3>2. \A l \in tcp' : \E i \in 1..Len(set.server) : l = L(i)
      BY <2>1 DEF StartupInv, ToldInv
    <3>3. \A l \in tcp' : \E i \in 1..Len(set'.server) : l = L(i)'
      <4> HIDE DEF L
      <4> QED BY <2>1, <3>1, <3>2
    <3>4. sub'.there => HasPlugin' /\ sub'.env = PluginCommand'
      BY <2>1, Fixed DEF StartupInv, ToldInv, subVars
    <3>5. remotes' = << >>
      BY <2>1 DEF StartupInv, ToldInv
    <3> QED BY <2>1, <2>2, <2>v, <3>3, <3>4, <3>5 DEF ToldInv
  <2> QED BY <2>3, <2>4, <2>5, <2>6 DEF StartupInv
<1> QED BY <1>0, <1>a, FatalKeeps

\* ss-server relays UDP where its mode asks for it.
LEMMA ServerUdpKeeps ==
    ASSUME StartupInv, ServerUdp
    PROVE  StartupInv'
<1> DEFINE Goes ==
      /\ pc = "udp" /\ IsServer /\ pc' = After("udp")
      /\ \/ set.mode = TCP_ONLY /\ udp' = udp
         \/ set.mode # TCP_ONLY /\ udp' # {}
      /\ UNCHANGED <<subVars, pending, cause, input, set, me, uid, keys, handlers, ret, ports, remotes, tcp>>
<1>0. Goes \/ (\E why \in {"settings", "fault"} : Fatal(why) /\ UNCHANGED subVars)
  <2>1. pc = "udp" /\ IsServer /\ UNCHANGED subVars
    BY DEF ServerUdp
  <2>2. CASE set.mode = TCP_ONLY /\ GoOn /\ UNCHANGED procVars
    BY <2>1, <2>2 DEF GoOn, procVars
  <2>3. CASE ~(set.mode = TCP_ONLY /\ GoOn /\ UNCHANGED procVars)
    <3>1. PICK bound \in SUBSET {i \in 1..Len(set.server) : MayBind(UdpPort(i))} :
            IF bound = {} THEN Fatal(IF \A i \in 1..Len(set.server) : MayBind(UdpPort(i)) THEN "fault" ELSE "privilege")
            ELSE /\ udp' = {Listener(i, set.server[i].host, UdpPort(i), 0) : i \in bound} /\ GoOn
                 /\ UNCHANGED <<input, set, me, uid, keys, handlers, ret, ports, remotes, tcp>>
      BY <2>3 DEF ServerUdp
    <3>2. CASE bound = {}
      BY <2>1, <3>1, <3>2, AsRoot
    <3>3. CASE bound # {}
      BY <2>1, <2>3, <3>1, <3>3 DEF ServerUdp, GoOn
    <3> QED BY <3>2, <3>3
  <2> QED BY <2>2, <2>3
<1>a. CASE Goes
  <2>1. Goes
    BY <1>a
  <2>2. Prog' = Prog /\ (IsServer' <=> IsServer)
    BY <2>1 DEF Prog, IsServer
  <2>v. pc' = "setuid"
    BY <2>1, Order DEF StartupInv, PcInv
  <2>3. PcInv'
    BY <2>1, <2>2, <2>v DEF StartupInv, PcInv, Gone, StepNames
  <2>4. ReadyInv'
    BY <2>1, <2>2, <2>v DEF StartupInv, PcInv, ReadyInv, Closing, StepNames, AllHandlers
  <2>5. ChildInv'
    BY <2>1, <2>2, <2>v, ChildStays DEF StartupInv, PcInv, BeforePlugin
  <2>6. ToldInv'
    BY <2>1, <2>v, ToldStays DEF StartupInv, PcInv, subVars
  <2> QED BY <2>3, <2>4, <2>5, <2>6 DEF StartupInv
<1> QED BY <1>0, <1>a, FatalKeeps

\* run_as comes last.
LEMMA SetuidKeeps ==
    ASSUME StartupInv, Setuid
    PROVE  StartupInv'
<1> DEFINE Goes ==
      /\ pc = "setuid" /\ pc' = After("setuid") /\ uid' = IF set.user = NULL THEN uid ELSE set.user
      /\ UNCHANGED <<subVars, pending, cause, input, set, me, keys, handlers, ret, ports, remotes, tcp, udp>>
<1>0. Goes \/ (\E why \in {"settings", "fault"} : Fatal(why) /\ UNCHANGED subVars)
  BY DEF Setuid, GoOn
<1>a. CASE Goes
  <2>1. Goes
    BY <1>a
  <2>2. Prog' = Prog /\ (IsServer' <=> IsServer)
    BY <2>1 DEF Prog, IsServer
  <2>v. pc' = "loop"
    BY <2>1, Order DEF StartupInv, PcInv
  <2>3. PcInv'
    BY <2>1, <2>2, <2>v DEF StartupInv, PcInv, Gone, StepNames
  <2>4. ReadyInv'
    BY <2>1, <2>2, <2>v DEF StartupInv, PcInv, ReadyInv, Closing, StepNames, AllHandlers
  <2>5. ChildInv'
    BY <2>1, <2>2, <2>v, ChildStays DEF StartupInv, PcInv, BeforePlugin
  <2>6. ToldInv'
    BY <2>1, <2>v, ToldStays DEF StartupInv, PcInv, subVars
  <2> QED BY <2>3, <2>4, <2>5, <2>6 DEF StartupInv
<1> QED BY <1>0, <1>a, FatalKeeps

\* A new structure for a subprocess.
LEMMA StartedSub ==
    ASSUME NEW exec
    PROVE  LET s == NewExec(exec, {}) IN
           /\ DOMAIN s = DOMAIN NoSub /\ s.there = TRUE /\ s.pid = 0 /\ s.env = exec /\ s.ends = {}
           /\ Pipes(s) = {"in"}
BY DEF NewExec, NoSub, Pipes

\* A plugin that was started was told where to listen and where to connect to.
LEMMA StartedTold ==
    ASSUME ToldInv, UNCHANGED <<input, set, remotes, tcp>>, HasPlugin, sub'.env = PluginCommand, pc' # "options"
    PROVE  ToldInv'
<1>1. PICK rs : rs = IF Prog = "ss-local" THEN LocalRemotes ELSE TunnelRemotes
  OBVIOUS
<1>2. rs = (IF Prog = "ss-local" THEN LocalRemotes ELSE TunnelRemotes)'
  BY <1>1, Fixed
<1> DEFINE L(i) == Listener(i, IF HasPlugin THEN PluginAddress.host ELSE set.server[i].host, ServerPort(i), 0)
<1>3. \A i : L(i)' = L(i)
  BY Fixed
<1>4. ASSUME IsServer' PROVE \A l \in tcp' : \E i \in 1..Len(set'.server) : l = L(i)'
  <2>1. IsServer
    BY <1>4, Fixed
  <2>2. \A l \in tcp : \E i \in 1..Len(set.server) : l = L(i)
    BY <2>1 DEF ToldInv
  <2> HIDE DEF L
  <2> QED BY <1>3, <2>1, <2>2
<1>5. HasPlugin' /\ sub'.env = PluginCommand'
  BY Fixed
<1>6. remotes' = << >> \/ remotes' = (IF Prog = "ss-local" THEN LocalRemotes ELSE TunnelRemotes)'
  BY <1>1, <1>2 DEF ToldInv
<1>7. IsServer' => remotes' = << >>
  BY Fixed DEF ToldInv
<1> QED BY <1>4, <1>5, <1>6, <1>7 DEF ToldInv

\* start_plugin: nothing, a fork, or a pipe or a fork that fails.
LEMMA StartPluginKeeps ==
    ASSUME StartupInv, StartPlugin
    PROVE  StartupInv'
<1> DEFINE s == NewExec(PluginCommand, {})
<1>1. pc = "plugin" /\ UNCHANGED <<input, set, me, uid, keys, handlers, ret, ports, remotes, tcp, udp>> /\ UNCHANGED pending
  BY DEF StartPlugin, procVars, GoOn, Fatal
<1>2. Prog' = Prog /\ (IsServer' <=> IsServer)
  BY <1>1 DEF Prog, IsServer
<1>3. sub = NoSub /\ child = NoChild
  BY <1>1 DEF StartupInv, ChildInv, BeforePlugin
<1>4. ~("" = NULL)
  BY DEF NULL
<1>p. \/ GoOn /\ UNCHANGED subVars
      \/ GoOn /\ HasPlugin /\ Forks(s, me, handlers)
      \/ Fatal("fault") /\ HasPlugin /\ child' = child /\ spins' = spins /\ sub' \in {s, [s EXCEPT !.ends = Ends(Pipes(s))]}
  BY DEF StartPlugin, StartNothing, StartWorks, StartFails, PipeFails, ForkFails
<1>v. \/ cause' = cause /\ pc' = IF IsServer THEN "tcp" ELSE IF Prog = "ss-local" THEN "crypto" ELSE "signals"
      \/ cause' = "fault" /\ pc' = "fatal"
  BY <1>1, <1>p, Order DEF GoOn, Fatal, StartupInv, PcInv
<1>5. PcInv'
  BY <1>1, <1>2, <1>v DEF StartupInv, PcInv, Gone, StepNames
<1>6. ReadyInv'
  BY <1>1, <1>2, <1>v DEF StartupInv, PcInv, ReadyInv, Closing, StepNames, AllHandlers, IsServer
<1>7. ChildInv' /\ ToldInv'
  <2>0. ~BeforePlugin' /\ pc' \notin {"free", "ended", "options"}
    BY <1>2, <1>v DEF BeforePlugin, IsServer
  <2>1. CASE GoOn /\ UNCHANGED subVars
    <3>1. ChildInv'
      BY <1>1, <2>0, <2>1, ChildStays DEF StartupInv
    <3>2. ToldInv'
      BY <1>1, <2>0, <2>1, ToldStays DEF StartupInv, subVars
    <3> QED BY <3>1, <3>2
  <2>2. CASE GoOn /\ HasPlugin /\ Forks(s, me, handlers)
    <3>1. /\ sub' = [s EXCEPT !.pid = 1, !.ends = Kept(Pipes(s))] /\ spins' = spins
          /\ child' = [NoChild EXCEPT !.state = "forked", !.parent = me, !.mask = handlers, !.ends = Ends({"in"}),
                                !.env = s.env]
      BY <2>2, StartedSub DEF Forks
    <3>2. DOMAIN sub' = DOMAIN NoSub /\ sub'.pid = 1 /\ sub'.there = TRUE /\ sub'.env = PluginCommand
      BY <3>1, StartedSub DEF NoSub
    <3>3. /\ DOMAIN child' = DOMAIN NoChild /\ child'.state = "forked" /\ child'.parent = me /\ child'.ends = Ends({"in"})
          /\ child'.missed = FALSE
      BY <3>1 DEF NoChild
    <3>4. ChildInv'
      <4>1. spins' \in 0..Spins
        BY <3>1 DEF StartupInv, ChildInv
      <4>2. me' = me
        BY <1>1
      <4>3. child'.missed \in BOOLEAN /\ ~child'.missed /\ sub'.there \in BOOLEAN
        BY <3>2, <3>3
      <4> QED BY <2>0, <3>2, <3>3, <4>1, <4>2, <4>3 DEF ChildInv
    <3>5. ToldInv'
      BY <1>1, <2>0, <2>2, <3>2, StartedTold DEF StartupInv
    <3> QED BY <3>4, <3>5
  <2>3. CASE Fatal("fault") /\ HasPlugin /\ child' = child /\ spins' = spins /\ sub' \in {s, [s EXCEPT !.ends = Ends(Pipes(s))]}
    <3>1. DOMAIN s = DOMAIN NoSub /\ s.pid = 0 /\ s.there = TRUE /\ s.env = PluginCommand
      BY StartedSub
    <3> HIDE DEF s
    <3>2. DOMAIN sub' = DOMAIN NoSub /\ sub'.pid = 0 /\ sub'.there = TRUE /\ sub'.env = PluginCommand
      BY <2>3, <3>1 DEF NoSub
    <3>4. ChildInv'
      BY <1>1, <1>3, <2>0, <2>3, <3>2 DEF ChildInv, StartupInv, NoChild
    <3>5. ToldInv'
      BY <1>1, <2>0, <2>3, <3>2, StartedTold DEF StartupInv
    <3> QED BY <3>4, <3>5
  <2> QED BY <1>p, <2>1, <2>2, <2>3
<1> QED BY <1>5, <1>6, <1>7 DEF StartupInv

\* The program moves on to its end: to "stop", "spin", "wait" and "free".
LEMMA ClosingKeeps ==
    ASSUME StartupInv, pc \in {"loop", "stop", "spin", "wait", "free"}, pc' \in Closing \union {"ended", "killed"},
           pc \in Closing => UNCHANGED handlers, pc = "loop" => handlers' = {"CHLD"},
           pending' = {} \/ (pc \in Closing /\ pending' = pending), ret' \in {ret, -1},
           sub'.there = sub.there, sub'.env = sub.env, tcp' \in {tcp, {}}, udp' \in {udp, {}},
           UNCHANGED <<input, set, me, uid, keys, ports, remotes, cause>>,
           ChildInv'
    PROVE  StartupInv'
<1>2. Prog' = Prog /\ (IsServer' <=> IsServer)
  BY DEF Prog, IsServer
<1>3. PcInv'
  BY <1>2 DEF StartupInv, PcInv, Gone, Closing
<1>4. ReadyInv'
  BY <1>2 DEF StartupInv, ReadyInv, Closing, StepNames, AllHandlers
<1>5. ToldInv'
  BY ToldStays DEF StartupInv, Closing
<1> QED BY <1>3, <1>4, <1>5 DEF StartupInv

\* A change of the child that leaves who it belongs to, what was missed and its
\* descriptors alone, and at most makes it reaped.
LEMMA ChildOnlyReaped ==
    ASSUME ChildInv, child.state # "none" \/ child' = child, DOMAIN child' = DOMAIN child, child'.missed = child.missed,
           child'.parent = child.parent, child'.ends = child.ends, child'.state \in {child.state, "reaped"},
           DOMAIN sub' = DOMAIN sub, sub'.pid \in {sub.pid, 0}, sub'.there = sub.there,
           sub'.pid = sub.pid \/ child'.state = "reaped", spins' \in 0..Spins, UNCHANGED <<input, me>>,
           ~BeforePlugin', pc' = "free" => child'.state \in {"none", "reaped"}, pc' = "ended" => pc = "free" /\ sub'.ends = {}
    PROVE  ChildInv'
<1>1. IsServer' <=> IsServer
  BY DEF IsServer, Prog
<1>2. child'.state \in {"none", "forked", "running", "stopped", "zombie", "reaped"}
  BY DEF ChildInv
<1>3. sub'.pid \in {0, 1} /\ sub'.there \in BOOLEAN /\ child'.missed \in BOOLEAN
  BY DEF ChildInv
<1>4. pc' \in {"free", "ended"} => child'.state \in {"none", "reaped"}
  BY DEF ChildInv
<1> QED BY <1>1, <1>2, <1>3, <1>4 DEF ChildInv

\* signal_cb, and the libev code that waits for the plugin before it.
LEMMA SignalCbKeeps ==
    ASSUME StartupInv, SignalCb
    PROVE  StartupInv'
<1>1. pc = "loop" /\ UNCHANGED <<sub, spins, input, set, me, uid, keys, ports, remotes, tcp, udp, cause>>
  BY DEF SignalCb
<1>2. child' = child \/ (child.state = "zombie" /\ child' = [child EXCEPT !.state = "reaped"])
  BY DEF SignalCb, Childcb
<1>3. \/ pc' = pc /\ pending' \subseteq pending /\ UNCHANGED <<ret, handlers>>
      \/ pc' = "stop" /\ ret' \in {ret, -1} /\ handlers' = {"CHLD"} /\ pending' = {}
  BY DEF SignalCb, Unloop
<1>4. /\ DOMAIN child' = DOMAIN child /\ child'.missed = child.missed /\ child'.parent = child.parent
      /\ child'.ends = child.ends /\ child'.state \in {child.state, "reaped"}
  BY <1>2 DEF StartupInv, ChildInv, NoChild
<1>5. pc' \in {"loop", "stop"} /\ ~BeforePlugin'
  BY <1>1, <1>3 DEF BeforePlugin
<1>6. ChildInv'
  BY <1>1, <1>2, <1>4, <1>5, ChildOnlyReaped DEF StartupInv, ChildInv
<1>7. CASE pc' = pc /\ pending' \subseteq pending /\ UNCHANGED <<ret, handlers>>
  <2>1. Prog' = Prog /\ (IsServer' <=> IsServer)
    BY <1>1 DEF Prog, IsServer
  <2>2. PcInv'
    BY <1>1, <1>7, <2>1 DEF StartupInv, PcInv
  <2>3. ReadyInv'
    BY <1>1, <1>7, <2>1 DEF StartupInv, ReadyInv
  <2>4. ToldInv'
    BY <1>1, <1>7, ToldStays DEF StartupInv
  <2> QED BY <1>6, <2>2, <2>3, <2>4 DEF StartupInv
<1>8. CASE pc' = "stop" /\ ret' \in {ret, -1} /\ handlers' = {"CHLD"} /\ pending' = {}
  BY <1>1, <1>6, <1>8, ClosingKeeps DEF Closing
<1> QED BY <1>3, <1>7, <1>8

\* The steps of stop_plugin: what they leave alone.
LEMMA TurnKeeps ==
    ASSUME StartupInv, pc \in Closing, NEW step \in Closing, Turn(step), sub'.there = sub.there, sub'.env = sub.env, ChildInv'
    PROVE  StartupInv'
<1>1. pc' = step /\ UNCHANGED <<input, set, me, uid, keys, handlers, ret, ports, remotes, tcp, udp, pending, cause>>
  BY DEF Turn, procVars
<1> QED BY <1>1, ClosingKeeps DEF Closing

\* A signal that is sent changes only what is pending for the plugin.
LEMMA SignalledChild ==
    ASSUME ChildInv, Sigterm \/ Sigkill
    PROVE  /\ DOMAIN child' = DOMAIN child /\ child'.missed = child.missed /\ child'.parent = child.parent
           /\ child'.ends = child.ends /\ child'.state = child.state /\ (child.state # "none" \/ child' = child)
BY DEF ChildInv, NoChild, Sigterm, Sigkill

\* SIGTERM.
LEMMA AbortKeeps ==
    ASSUME StartupInv, Abort
    PROVE  StartupInv'
<1>1. CASE HasPlugin /\ AbortTerm /\ Turn("spin")
  <2>1. pc = "stop" /\ pc' = "spin" /\ UNCHANGED <<input, me>> /\ sub' = sub /\ spins' = 0 /\ Sigterm
    BY <1>1 DEF Abort, AbortTerm, Turn, procVars
  <2>2. ChildInv'
    BY <2>1, SignalledChild, ChildOnlyReaped, SubprocessAssumption DEF StartupInv, BeforePlugin, ChildInv
  <2> QED BY <1>1, <2>1, <2>2, TurnKeeps DEF Closing
<1>2. CASE Turn("wait") /\ UNCHANGED subVars
  <2>1. pc = "stop" /\ pc' = "wait" /\ UNCHANGED <<input, me>>
    BY <1>2 DEF Abort, Turn, procVars
  <2>2. ChildInv'
    BY <1>2, <2>1, ChildStays DEF StartupInv, BeforePlugin
  <2> QED BY <1>2, <2>1, <2>2, TurnKeeps DEF Closing, subVars
<1> QED BY <1>1, <1>2 DEF Abort

\* waitpid.
LEMMA ReapedChild ==
    ASSUME ChildInv, Reap(me)
    PROVE  /\ DOMAIN child' = DOMAIN child /\ child'.missed = child.missed /\ child'.parent = child.parent
           /\ child'.ends = child.ends /\ child'.state = "reaped" /\ child.state # "none"
           /\ DOMAIN sub' = DOMAIN sub /\ sub'.pid = 0 /\ sub'.there = sub.there /\ sub'.env = sub.env
BY DEF ChildInv, NoChild, NoSub, Reap, CanReap

\* The spins and SIGKILL.
LEMMA SpinKeeps ==
    ASSUME StartupInv, Spin
    PROVE  StartupInv'
<1>0. pc = "spin"
  BY DEF Spin
<1>1. CASE AbortReaps(me) /\ Turn("wait")
  <2>1. pc' = "wait" /\ UNCHANGED <<input, me>> /\ spins' = spins /\ Reap(me)
    BY <1>1 DEF AbortReaps, Turn, procVars
  <2>2. ChildInv'
    BY <2>1, ReapedChild, ChildOnlyReaped DEF StartupInv, BeforePlugin, ChildInv
  <2> QED BY <1>0, <1>1, <2>1, <2>2, ReapedChild, TurnKeeps DEF Closing, StartupInv
<1>2. CASE AbortSpins(me) /\ Turn("spin")
  <2>1. pc' = "spin" /\ UNCHANGED <<input, me>> /\ sub' = sub /\ child' = child /\ spins < Spins /\ spins' = spins + 1
    BY <1>2 DEF AbortSpins, Turn, procVars
  <2>2. spins' \in 0..Spins
    BY <2>1, SubprocessAssumption DEF StartupInv, ChildInv
  <2>3. ChildInv'
    BY <1>0, <2>1, <2>2, ChildOnlyReaped DEF StartupInv, BeforePlugin, ChildInv
  <2> QED BY <1>0, <1>2, <2>1, <2>3, TurnKeeps DEF Closing
<1>3. CASE AbortKill(me) /\ Turn("wait")
  <2>1. pc' = "wait" /\ UNCHANGED <<input, me>> /\ sub' = sub /\ spins' = spins /\ Sigkill
    BY <1>3 DEF AbortKill, Turn, procVars
  <2>2. ChildInv'
    BY <2>1, SignalledChild, ChildOnlyReaped DEF StartupInv, BeforePlugin, ChildInv
  <2> QED BY <1>0, <1>3, <2>1, <2>2, TurnKeeps DEF Closing
<1> QED BY <1>1, <1>2, <1>3 DEF Spin

\* cork_subprocess_wait returns only when there is no plugin any more.
LEMMA WaitKeeps ==
    ASSUME StartupInv, Wait
    PROVE  StartupInv'
<1>0. pc = "wait"
  BY DEF Wait
<1>1. CASE WaitReaps(me) /\ Turn("wait")
  <2>1. pc' = "wait" /\ UNCHANGED <<input, me>> /\ spins' = spins /\ Reap(me)
    BY <1>1 DEF WaitReaps, Turn, procVars
  <2>2. ChildInv'
    BY <2>1, ReapedChild, ChildOnlyReaped DEF StartupInv, BeforePlugin, ChildInv
  <2> QED BY <1>0, <1>1, <2>1, <2>2, ReapedChild, TurnKeeps DEF Closing, StartupInv
<1>2. CASE (WaitFails(me) \/ (IsFinished(sub) /\ UNCHANGED subVars)) /\ Turn("free")
  <2>1. pc' = "free" /\ UNCHANGED <<input, me, sub, child, spins>>
    BY <1>2 DEF WaitFails, Turn, procVars, subVars
  <2>2. child.state \in {"none", "reaped"}
    BY <1>2 DEF WaitFails, IsFinished, NoSuchChild, CanReap, NotYet, StartupInv, ChildInv
  <2>3. ChildInv'
    BY <1>0, <2>1, <2>2, ChildOnlyReaped DEF StartupInv, BeforePlugin, ChildInv
  <2> QED BY <1>0, <1>2, <2>1, <2>3, TurnKeeps DEF Closing
<1> QED BY <1>1, <1>2 DEF Wait

\* cork_subprocess_free and the end of main.
LEMMA FreeKeeps ==
    ASSUME StartupInv, Free
    PROVE  StartupInv'
<1>1. /\ pc = "free" /\ pc' \in {"ended", "killed"} /\ sub' = Freed(sub) /\ tcp' = {} /\ udp' = {}
      /\ UNCHANGED <<child, spins, input, set, me, uid, keys, handlers, pending, ret, ports, remotes, cause>>
  BY DEF Free
<1>2. DOMAIN sub' = DOMAIN sub /\ sub'.pid = sub.pid /\ sub'.there = sub.there /\ sub'.env = sub.env /\ sub'.ends = {}
  BY <1>1 DEF StartupInv, ChildInv, Freed, NoSub
<1>3. ChildInv'
  BY <1>1, <1>2, ChildOnlyReaped DEF StartupInv, BeforePlugin, ChildInv
<1> QED BY <1>1, <1>2, <1>3, ClosingKeeps DEF Closing

\* A signal for the program.
LEMMA ArrivesKeeps ==
    ASSUME StartupInv, NEW sig, Arrives(sig)
    PROVE  StartupInv'
<1>1. /\ UNCHANGED <<input, set, me, uid, keys, handlers, ret, ports, remotes, tcp, udp, subVars, cause>>
      /\ pc \notin Gone
      /\ \/ sig \in handlers /\ pending' = pending \union {sig} /\ pc' = pc
         \/ pc' = "killed" /\ pending' = pending
  BY DEF Arrives, procVars
<1>2. Prog' = Prog /\ (IsServer' <=> IsServer)
  BY <1>1 DEF Prog, IsServer
<1>3. PcInv'
  BY <1>1, <1>2 DEF StartupInv, PcInv, Gone
<1>4. ReadyInv'
  BY <1>1, <1>2 DEF StartupInv, ReadyInv, Closing, StepNames
<1>5. ChildInv'
  <2>1. CASE pc' = pc
    BY <1>1, <1>2, <2>1 DEF StartupInv, ChildInv, BeforePlugin, subVars
  <2>2. CASE pc' = "killed"
    BY <1>1, <2>2, ChildStays DEF StartupInv, BeforePlugin
  <2> QED BY <1>1, <2>1, <2>2
<1>6. ToldInv'
  <2>1. CASE pc' # "options"
    BY <1>1, <2>1, ToldStays DEF StartupInv, subVars
  <2>2. CASE pc' = "options"
    <3>1. pc = "options" /\ sub = NoSub /\ remotes = << >> /\ tcp = {}
      BY <1>1, <2>2 DEF StartupInv, ChildInv, BeforePlugin, ToldInv, ReadyInv
    <3> QED BY <1>1, <3>1 DEF ToldInv, subVars, NoSub
  <2> QED BY <2>1, <2>2
<1> QED BY <1>3, <1>4, <1>5, <1>6 DEF StartupInv

\* What the plugin does is told to the program, or not; the rest is the child.
LEMMA NoticedKeeps ==
    ASSUME StartupInv, UNCHANGED <<procVars, sub, spins, pc, cause>>, pending' \in {pending, pending \union ({"CHLD"} \intersect handlers)},
           child.state # "none", ChildInv'
    PROVE  StartupInv'
<1>1. UNCHANGED <<input, set, me, uid, keys, handlers, ret, ports, remotes, tcp, udp, sub, spins, pc, cause>>
  BY DEF procVars
<1>2. Prog' = Prog /\ (IsServer' <=> IsServer)
  BY <1>1 DEF Prog, IsServer
<1>3. PcInv'
  BY <1>1, <1>2 DEF StartupInv, PcInv
<1>4. ReadyInv'
  BY <1>1, <1>2 DEF StartupInv, ReadyInv
<1>5. pc # "options"
  BY DEF StartupInv, ChildInv, BeforePlugin, NoChild
<1>6. ToldInv'
  BY <1>1, <1>5, ToldStays DEF StartupInv
<1> QED BY <1>3, <1>4, <1>6 DEF StartupInv

\* SIGCHLD is pending only with a handler.
LEMMA NoticedPending ==
    ASSUME Noticed
    PROVE  pending' \in {pending, pending \union ({"CHLD"} \intersect handlers)}
<1>1. CASE "CHLD" \in handlers
  <2>1. {"CHLD"} \intersect handlers = {"CHLD"}
    BY <1>1
  <2> QED BY <2>1 DEF Noticed
<1>2. CASE "CHLD" \notin handlers
  BY <1>2 DEF Noticed
<1> QED BY <1>1, <1>2

\* ss-server has its handlers as long as there is a plugin.
LEMMA ServerHears ==
    ASSUME StartupInv, IsServer, child.state # "none"
    PROVE  ~Unseen
<1>1. ~BeforePlugin
  BY DEF StartupInv, ChildInv, NoChild
<1>2. pc \notin {"options", "port", "daemonize", "target", "plugin", "signals", "crypto", "resolver", "remotes"}
  BY <1>1 DEF StartupInv, PcInv, BeforePlugin
<1>3. pc \in Gone \/ pc \in {"tcp", "udp", "setuid", "loop"} \/ pc \in Closing
  BY <1>2 DEF StartupInv, PcInv, StepNames
<1>4. pc \in {"tcp", "udp", "setuid", "loop"} \/ pc \in Closing => "CHLD" \in handlers
  BY DEF StartupInv, ReadyInv, AllHandlers
<1> QED BY <1>3, <1>4 DEF Unseen

\* The plugin ends.
LEMMA DiedChild ==
    ASSUME StartupInv, child.state \in {"forked", "running", "stopped"}, NEW code, child' = Died(child, code, Unseen),
           UNCHANGED <<procVars, sub, spins, pc, cause>>
    PROVE  ChildInv'
<1>1. UNCHANGED <<input, me, sub, spins, pc>>
  BY DEF procVars
<1>2. IsServer' <=> IsServer
  BY <1>1 DEF Prog, IsServer
<1>3. /\ DOMAIN child' = DOMAIN child /\ child'.state = "zombie" /\ child'.missed = Unseen
      /\ child'.parent = child.parent
  BY DEF StartupInv, ChildInv, NoChild, Died
<1>4. Unseen \in BOOLEAN
  BY DEF Unseen
<1>5. ~BeforePlugin /\ pc \notin {"free", "ended"} /\ sub.pid # 0
  BY DEF StartupInv, ChildInv, NoChild
<1>6. ~BeforePlugin'
  BY <1>1, <1>2, <1>5 DEF BeforePlugin
<1>7. IsServer' => ~child'.missed
  BY <1>2, <1>3, ServerHears
<1> QED BY <1>1, <1>3, <1>4, <1>5, <1>6, <1>7 DEF StartupInv, ChildInv

\* The plugin ends of its own accord or because of a signal.
LEMMA PluginDies ==
    ASSUME StartupInv, PluginFails \/ PluginSignalled
    PROVE  StartupInv'
<1>1. child.state \in {"forked", "running", "stopped"} /\ (\E code : child' = Died(child, code, Unseen))
  BY DEF PluginFails, PluginSignalled, PluginEnds, PluginKilled
<1>2. Noticed /\ UNCHANGED <<procVars, sub, spins, pc, cause>>
  BY DEF PluginFails, PluginSignalled
<1>3. ChildInv'
  BY <1>1, <1>2, DiedChild
<1> QED BY <1>1, <1>2, <1>3, NoticedPending, NoticedKeeps

\* The plugin is stopped or goes on.
LEMMA PluginSuspendedKeeps ==
    ASSUME StartupInv, PluginSuspended
    PROVE  StartupInv'
<1>1. child.state \in {"running", "stopped"} /\ (\E st \in {"running", "stopped"} : child' = [child EXCEPT !.state = st])
  BY DEF PluginSuspended, PluginStops, PluginContinues
<1>2. Noticed /\ UNCHANGED <<procVars, sub, spins, pc, cause>>
  BY DEF PluginSuspended
<1>3. UNCHANGED <<input, me, sub, spins, pc>> /\ (IsServer' <=> IsServer)
  BY <1>2 DEF procVars, Prog, IsServer
<1>4. /\ DOMAIN child' = DOMAIN child /\ child'.state \in {"running", "stopped"} /\ child'.missed = child.missed
      /\ child'.parent = child.parent /\ child'.ends = child.ends
  BY <1>1 DEF StartupInv, ChildInv, NoChild
<1>5. ~BeforePlugin /\ pc \notin {"free", "ended"} /\ sub.pid # 0
  BY <1>1 DEF StartupInv, ChildInv, NoChild
<1>6. ~BeforePlugin'
  BY <1>3, <1>5 DEF BeforePlugin
<1>7. ChildInv'
  BY <1>1, <1>3, <1>4, <1>5, <1>6 DEF StartupInv, ChildInv
<1> QED BY <1>1, <1>2, <1>7, NoticedPending, NoticedKeeps

\* Of the pipe to its standard input the plugin keeps the end it reads from.
LEMMA ReadEndOnly == ChildEnds({e[1] : e \in Ends({"in"})}) = {<<"in", "r">>}
<1>1. Ends({"in"}) = {<<"in", "r">>, <<"in", "w">>}
  BY DEF Ends
<1>2. {e[1] : e \in Ends({"in"})} = {"in"}
  <2>1. \A e \in Ends({"in"}) : e[1] = "in"
    BY <1>1
  <2>2. <<"in", "r">> \in Ends({"in"}) /\ <<"in", "r">>[1] = "in"
    BY <1>1
  <2> QED BY <2>1, <2>2, Zenon
<1>3. Kept({"in"}) = {<<"in", "w">>}
  BY DEF Kept
<1>4. <<"in", "r">> # <<"in", "w">>
  OBVIOUS
<1> QED BY <1>1, <1>2, <1>3, <1>4 DEF ChildEnds

\* The plugin is executed.
LEMMA PluginStartsKeeps ==
    ASSUME StartupInv, PluginStarts
    PROVE  StartupInv'
<1>1. /\ child.state = "forked" /\ UNCHANGED <<sub, spins, pc, pending, cause, procVars>>
      /\ \E stubborn \in BOOLEAN : child' = [child EXCEPT !.state = "running", !.ends = ChildEnds({e[1] : e \in @}), !.mask = {},
                                 !.stubborn = stubborn]
  BY DEF PluginStarts, ChildExec
<1>2. UNCHANGED <<input, me>> /\ (IsServer' <=> IsServer)
  BY <1>1 DEF procVars, Prog, IsServer
<1>3. /\ DOMAIN child' = DOMAIN child /\ child'.state = "running" /\ child'.missed = child.missed
      /\ child'.parent = child.parent /\ child'.ends = ChildEnds({e[1] : e \in child.ends})
  BY <1>1 DEF StartupInv, ChildInv, NoChild
<1>4. child'.ends = {<<"in", "r">>}
  BY <1>1, <1>3, ReadEndOnly DEF StartupInv, ChildInv
<1>5. ~BeforePlugin /\ pc \notin {"free", "ended"} /\ sub.pid # 0
  BY <1>1 DEF StartupInv, ChildInv, NoChild
<1>6. ~BeforePlugin'
  BY <1>1, <1>2, <1>5 DEF BeforePlugin
<1>7. ChildInv'
  BY <1>1, <1>2, <1>3, <1>4, <1>5, <1>6 DEF StartupInv, ChildInv
<1> QED BY <1>1, <1>7, NoticedKeeps

\* The invariant holds when main starts.
LEMMA StartupInvInit ==
    ASSUME StartupInit
    PROVE  StartupInv
<1>1. Prog \in Programs
  BY InputsAssumption DEF StartupInit, Prog
<1>2. set = Nothing /\ pc = "options" /\ me = 0 /\ uid = "root" /\ keys = FALSE
    /\ handlers = {} /\ pending = {} /\ ret = 0 /\ remotes = << >> /\ tcp = {} /\ udp = {} /\ cause = ""
    /\ sub = NoSub /\ child = NoChild /\ spins = 0
  BY DEF StartupInit, SubprocessInit
<1>3. PcInv
  <2>1. keys \in BOOLEAN
    BY <1>2, Zenon
  <2>2. me \in 0..1 /\ ret \in {0, -1}
    <3>1. me = 0 /\ ret = 0
      BY <1>2, Zenon
    <3> QED BY <3>1
  <2> QED BY <1>1, <1>2, <2>1, <2>2 DEF PcInv, StepNames
<1>4. ReadyInv
  BY <1>2 DEF ReadyInv, Closing
<1>5. ChildInv
  <2>1. NoSub.pid = 0 /\ NoSub.there = FALSE /\ NoChild.missed = FALSE /\ NoChild.state = "none"
    BY DEF NoSub, NoChild
  <2>2. spins \in 0..Spins
    <3>1. spins = 0
      BY <1>2, Zenon
    <3> QED BY <3>1, SubprocessAssumption
  <2> QED BY <1>2, <2>1, <2>2 DEF ChildInv
<1>6. ToldInv
  BY <1>2 DEF ToldInv, NoSub
<1> QED BY <1>3, <1>4, <1>5, <1>6 DEF StartupInv

\* Every step keeps it.
LEMMA StartupInvNext ==
    ASSUME StartupInv, [StartupNext]_startupVars
    PROVE  StartupInv'
<1>1. CASE Main
  BY <1>1, ReadOptionsKeeps, FreePortKeeps, DaemonizeKeeps, TargetKeeps, StartPluginKeeps, SignalsKeeps, CryptoKeeps, ResolverKeeps,
     RemotesKeeps, ClientTcpKeeps, ClientUdpKeeps, ServerTcpKeeps, ServerUdpKeeps, SetuidKeeps, SignalCbKeeps,
     AbortKeeps, SpinKeeps, WaitKeeps, FreeKeeps DEF Main
<1>2. CASE Arrives("INT") \/ Arrives("TERM")
  BY <1>2, ArrivesKeeps
<1>3. CASE PluginFails \/ PluginSignalled
  BY <1>3, PluginDies
<1>4. CASE PluginSuspended
  BY <1>4, PluginSuspendedKeeps
<1>5. CASE PluginStarts
  BY <1>5, PluginStartsKeeps
<1>6. CASE UNCHANGED startupVars
  <2>1. UNCHANGED <<input, set, me, uid, keys, handlers, ret, ports, remotes, tcp, udp, sub, child, spins, pc, pending, cause>>
    BY <1>6 DEF startupVars, procVars, subVars
  <2>2. Prog' = Prog /\ (IsServer' <=> IsServer)
    BY <2>1 DEF Prog, IsServer
  <2>3. PcInv'
    BY <2>1, <2>2 DEF StartupInv, PcInv
  <2>4. ReadyInv'
    BY <2>1, <2>2 DEF StartupInv, ReadyInv
  <2>5. ChildInv'
    BY <2>1, <2>2 DEF StartupInv, ChildInv, BeforePlugin
  <2>6. ToldInv'
    <3>1. CASE pc' # "options"
      BY <2>1, <3>1, ToldStays DEF StartupInv
    <3>2. CASE pc' = "options"
      <4>1. sub = NoSub /\ remotes = << >> /\ tcp = {}
        BY <2>1, <3>2 DEF StartupInv, ChildInv, BeforePlugin, ToldInv, ReadyInv
      <4> QED BY <2>1, <4>1 DEF ToldInv, NoSub
    <3> QED BY <3>1, <3>2
  <2> QED BY <2>3, <2>4, <2>5, <2>6 DEF StartupInv
<1> QED BY <1>1, <1>2, <1>3, <1>4, <1>5, <1>6 DEF StartupNext, Finished

\* The invariant of a program from main to exit.
THEOREM StartupInvariant == StartupSpec => []StartupInv
BY StartupInvInit, StartupInvNext, PTL DEF StartupSpec

\* When a program ends by itself its plugin was waited for, no end of a pipe is
\* open in it or, beyond its standard input, in the plugin, and ss-server has missed no
\* death of its plugin (stop_plugin, cork_subprocess_*, the order in main).
THEOREM NothingLeftBehind == StartupSpec => []NothingLeft
<1>1. StartupInv => NothingLeft
  BY DEF StartupInv, ChildInv, NothingLeft, PluginGone, PipesClosed, ServerMissesNothing
<1> QED BY <1>1, StartupInvariant, PTL

\* The environment of a plugin says what it was given, whatever the program inherited.
LEMMA SsPluginTold ==
    ASSUME NEW plugin, NEW opts, NEW hosts, NEW rport, NEW lhost, NEW lport
    PROVE  LET vs == SsPlugin(plugin, opts, hosts, rport, lhost, lport).vars IN
           /\ vs["SS_REMOTE_HOST"] = hosts /\ vs["SS_REMOTE_PORT"] = rport
           /\ vs["SS_LOCAL_HOST"] = lhost /\ vs["SS_LOCAL_PORT"] = lport
BY DEF SsPlugin

\* The last parameters of obfsproxy are its addresses.
LEMMA ObfsproxyTold ==
    ASSUME NEW plugin, NEW opts, NEW hosts, NEW rport, NEW lhost, NEW lport, NEW mode, NEW argv,
           argv = Obfsproxy(plugin, opts, hosts, rport, lhost, lport, mode).argv
    PROVE  /\ Len(argv) \in Nat
           /\ argv[Len(argv)] = IF mode = "client" THEN <<lhost, lport>> ELSE <<hosts, rport>>
           /\ argv[Len(argv) - 2] = IF mode = "client" THEN <<hosts, rport>> ELSE <<lhost, lport>>
<1> DEFINE a == <<plugin, "--data-dir">> \o (IF opts = NULL THEN << >> ELSE <<opts>>)
           b == IF mode = "client" THEN <<"--dest", <<hosts, rport>>, "client", <<lhost, lport>>>>
                                   ELSE <<"--dest", <<lhost, lport>>, "server", <<hosts, rport>>>>
<1>1. argv = a \o b
  BY DEF Obfsproxy
<1>2. PICK S : a \in Seq(S) /\ b \in Seq(S)
  <2> DEFINE S == {plugin, "--data-dir", opts, "--dest", <<hosts, rport>>, <<lhost, lport>>, "client", "server"}
  <2>1. a \in Seq(S)
    <3>1. plugin \in S /\ "--data-dir" \in S /\ opts \in S
      OBVIOUS
    <3> HIDE DEF S
    <3> QED BY <3>1
  <2>2. b \in Seq(S)
    <3>1. <<hosts, rport>> \in S /\ <<lhost, lport>> \in S /\ "--dest" \in S /\ "client" \in S /\ "server" \in S
      OBVIOUS
    <3> HIDE DEF S
    <3> QED BY <3>1
  <2> QED BY <2>1, <2>2
<1>3. Len(b) = 4 /\ b[2] = (IF mode = "client" THEN <<hosts, rport>> ELSE <<lhost, lport>>)
      /\ b[4] = (IF mode = "client" THEN <<lhost, lport>> ELSE <<hosts, rport>>)
  OBVIOUS
<1> HIDE DEF a, b
<1>4. /\ Len(a \o b) = Len(a) + 4 /\ (a \o b)[Len(a) + 4] = b[4] /\ (a \o b)[Len(a) + 2] = b[2] /\ Len(a) \in Nat
  <2>1. Len(b) = 4
    BY <1>3
  <2>2. Len(a) \in Nat /\ Len(a \o b) = Len(a) + Len(b)
    BY <1>2
  <2>3. \A i \in 1..Len(b) : (a \o b)[Len(a) + i] = b[i]
    BY <1>2
  <2> QED BY <2>1, <2>2, <2>3
<1> QED BY <1>1, <1>3, <1>4

\* What PluginCommand passes on can be read off it, whichever kind of plugin it is.
LEMMA CommandTold ==
    ASSUME HasPlugin, sub.env = PluginCommand
    PROVE  /\ ToldLocal = <<PluginAddress.host, PluginAddress.port>>
           /\ ToldRemote = <<IF Prog \in {"ss-server", "ss-local"} THEN LocalHosts ELSE TunnelHosts, set.server_port>>
<1> DEFINE hosts == IF Prog \in {"ss-server", "ss-local"} THEN LocalHosts ELSE TunnelHosts
           mode == IF IsServer THEN "server" ELSE "client"
<1>1. sub.env = PluginExec(set.plugin, set.plugin_opts, hosts, set.server_port, PluginAddress.host, PluginAddress.port, mode)
  BY DEF PluginCommand, IsServer
<1>2. mode \in {"client", "server"} /\ (mode = "client" <=> ~IsServer)
  OBVIOUS
<1> HIDE DEF hosts, mode
<1>3. CASE set.plugin # "obfsproxy"
  <2>1. sub.env = SsPlugin(set.plugin, set.plugin_opts, hosts, set.server_port, PluginAddress.host, PluginAddress.port)
    BY <1>1, <1>3 DEF PluginExec
  <2> QED BY <1>3, <2>1, SsPluginTold DEF ToldLocal, ToldRemote, hosts
<1>4. CASE set.plugin = "obfsproxy"
  <2>1. sub.env = Obfsproxy(set.plugin, set.plugin_opts, hosts, set.server_port, PluginAddress.host, PluginAddress.port, mode)
    BY <1>1, <1>4 DEF PluginExec
  <2> DEFINE argv == sub.env.argv
             fourth == IF mode = "client" THEN <<PluginAddress.host, PluginAddress.port>> ELSE <<hosts, set.server_port>>
             third == IF mode = "client" THEN <<hosts, set.server_port>> ELSE <<PluginAddress.host, PluginAddress.port>>
  <2>2. argv[Len(argv)] = fourth /\ argv[Len(argv) - 2] = third
    BY <2>1, ObfsproxyTold
  <2>3. argv[Len(argv) - 0] = fourth
    <3>1. Len(argv) - 0 = Len(argv)
      BY <2>1, ObfsproxyTold
    <3> QED BY <2>2, <3>1
  <2>4. CASE IsServer
    <3>1. ToldLocal = argv[Len(argv) - 2] /\ ToldRemote = argv[Len(argv) - 0]
      BY <1>4, <2>4 DEF ToldLocal, ToldRemote
    <3> QED BY <1>2, <2>2, <2>3, <2>4, <3>1 DEF hosts
  <2>5. CASE ~IsServer
    <3>1. ToldLocal = argv[Len(argv) - 0] /\ ToldRemote = argv[Len(argv) - 2]
      BY <1>4, <2>5 DEF ToldLocal, ToldRemote
    <3> QED BY <1>2, <2>2, <2>3, <2>5, <3>1 DEF hosts
  <2> QED BY <2>4, <2>5
<1> QED BY <1>3, <1>4

\* What was told and what was set up agree in the loop.
LEMMA MeetsFollows ==
    ASSUME StartupInv
    PROVE  Meets
<1> SUFFICES ASSUME pc = "loop", sub.there, Prog \in {"ss-local", "ss-server"} \/ Len(set.server) = 1
             PROVE  /\ ToldRemote = <<[i \in 1..Len(set.server) |-> set.server[i].host], set.server_port>>
                    /\ \A i \in 1..Len(remotes) : <<remotes[i].host, remotes[i].port>> = ToldLocal
                    /\ IsServer /\ (\A i \in 1..Len(set.server) : set.server[i].port = NULL) =>
                          \A l \in tcp : <<l.addr.host, l.addr.port>> = ToldLocal
  BY DEF Meets
<1>1. HasPlugin /\ sub.env = PluginCommand
  BY DEF StartupInv, ToldInv
<1>2. /\ ToldLocal = <<PluginAddress.host, PluginAddress.port>>
      /\ ToldRemote = <<IF Prog \in {"ss-server", "ss-local"} THEN LocalHosts ELSE TunnelHosts, set.server_port>>
  BY <1>1, CommandTold
<1>3. Prog \notin {"ss-server", "ss-local"} => TunnelHosts = LocalHosts
  <2>1. Len(set.server) = 1 => ~(Len(set.server) > 1)
    OBVIOUS
  <2> QED BY <2>1 DEF TunnelHosts, LocalHosts
<1>4. ToldRemote = <<LocalHosts, set.server_port>>
  BY <1>2, <1>3
<1>5. \A i \in 1..Len(remotes) : remotes[i] = PluginAddress
  <2>1. CASE remotes = << >>
    BY <2>1
  <2>2. CASE Prog = "ss-local" /\ remotes = LocalRemotes
    BY <1>1, <2>2 DEF LocalRemotes
  <2>3. CASE Prog \notin {"ss-local", "ss-server"} /\ remotes = TunnelRemotes
    <3>1. remotes = [i \in 1..1 |-> IF i = 1 THEN PluginAddress ELSE NoAddress]
      BY <1>1, <2>3 DEF TunnelRemotes
    <3> QED BY <3>1
  <2> QED BY <2>1, <2>2, <2>3 DEF StartupInv, ToldInv, IsServer
<1>6. ASSUME IsServer, \A i \in 1..Len(set.server) : set.server[i].port = NULL, NEW l \in tcp
      PROVE  l.addr.host = PluginAddress.host /\ l.addr.port = PluginAddress.port
  <2>1. PICK i \in 1..Len(set.server) :
            l = Listener(i, IF HasPlugin THEN PluginAddress.host ELSE set.server[i].host, ServerPort(i), 0)
    BY <1>6 DEF StartupInv, ToldInv
  <2>2. ServerPort(i) = PluginAddress.port
    BY <1>1, <1>6, <2>1 DEF ServerPort
  <2> QED BY <1>1, <2>1, <2>2 DEF Listener, Address
<1> QED BY <1>2, <1>4, <1>5, <1>6 DEF LocalHosts

\* In the loop, the plugin listens where the client connects to or connects to
\* where ss-server listens, and knows the servers (start_plugin, main).
THEOREM ProgramAndPluginMeet == StartupSpec => []Meets
BY MeetsFollows, StartupInvariant, PTL

-----------------------------------------------------------------------------
(* The options *)

\* A nonempty set of naturals has a least element; the facts about loops over
\* arguments and entries rest on it.
LEMMA LeastNat ==
    ASSUME NEW T, T \subseteq Nat, T # {}
    PROVE  \E x \in T : \A y \in T : x <= y
<1>1. IsWellFoundedOn(OpToRel(<, Nat), Nat)
  BY NatLessThanWellFounded, Zenon
<1>2. PICK x \in T : \A y \in T : ~(<<y, x>> \in OpToRel(<, Nat))
  BY <1>1, WFMin, Zenon
<1>3. ASSUME NEW y \in T PROVE x <= y
  <2>1. ~(<<y, x>> \in OpToRel(<, Nat))
    BY <1>2, Zenon
  <2>2. ~(y < x)
    BY <2>1 DEF OpToRel
  <2> QED BY <2>2
<1> QED BY <1>3

\* The options that have one value, set by one argument or entry.
Plain == (StringOptions \ {"acl"}) \union IntegerOptions \union BooleanOptions

\* One argument or one entry, what it says, and the table after n of them.
Take(isArg, t, x) == IF isArg THEN Argument(t, x) ELSE Entry(t, x)
Says(isArg, x) == IF isArg THEN x.value ELSE FileValue(x)
Taken(f, isArg, xs, n) == f = [k \in 0..n |-> IF k = 0 THEN Nothing ELSE Take(isArg, f[k - 1], xs[k])]

\* The loop over the arguments or the entries computes something.
LEMMA TakenExists ==
    ASSUME NEW isArg, NEW xs, NEW N \in Nat
    PROVE  \E f : Taken(f, isArg, xs, N)
<1> DEFINE Bad == {n \in Nat : ~\E f : Taken(f, isArg, xs, n)}
<1>1. SUFFICES ASSUME Bad # {} PROVE FALSE
  OBVIOUS
<1>2. PICK n \in Bad : \A m \in Bad : n <= m
  BY <1>1, LeastNat
<1>3. n # 0
  <2>1. PICK f : f = [m \in 0..0 |-> Nothing]
    OBVIOUS
  <2>2. Taken(f, isArg, xs, 0)
    BY <2>1 DEF Taken
  <2> QED BY <1>2, <2>2
<1>4. n \in Nat /\ n - 1 \in Nat /\ ~(n <= n - 1)
  BY <1>2, <1>3
<1>5. n - 1 \notin Bad
  BY <1>2, <1>4
<1>6. PICK f : Taken(f, isArg, xs, n - 1)
  BY <1>4, <1>5
<1>7. PICK v : v = Take(isArg, f[n - 1], xs[n])
  OBVIOUS
<1>8. PICK g : g = [m \in 0..n |-> IF m = n THEN v ELSE f[m]]
  OBVIOUS
<1>9. ASSUME NEW m \in 0..n
      PROVE  g[m] = IF m = 0 THEN Nothing ELSE Take(isArg, g[m - 1], xs[m])
  <2>1. CASE m = n
    BY <1>3, <1>4, <1>7, <1>8, <2>1
  <2>2. CASE m # n
    <3>1. m \in 0..(n - 1) /\ (m # 0 => m - 1 \in 0..(n - 1))
      BY <1>4, <2>2
    <3>2. g[m] = f[m] /\ (m # 0 => g[m - 1] = f[m - 1])
      BY <1>4, <1>8, <2>2, <3>1
    <3>3. f[m] = IF m = 0 THEN Nothing ELSE Take(isArg, f[m - 1], xs[m])
      BY <1>6, <3>1 DEF Taken
    <3> QED BY <3>2, <3>3
  <2> QED BY <2>1, <2>2
<1>10. Taken(g, isArg, xs, n)
  BY <1>8, <1>9 DEF Taken
<1> QED BY <1>2, <1>10

\* CommandLine is what it computes for the arguments.
LEMMA CommandLineIs ==
    ASSUME NEW args, Len(args) \in Nat
    PROVE  \E f : Taken(f, TRUE, args, Len(args)) /\ CommandLine(args) = f[Len(args)]
<1> DEFINE R(f) == f = [k \in 0..Len(args) |-> IF k = 0 THEN Nothing ELSE Argument(f[k - 1], args[k])]
<1>1. \A f : R(f) <=> Taken(f, TRUE, args, Len(args))
  BY DEF Taken, Take
<1>2. \E f : R(f)
  BY <1>1, TakenExists
<1>3. CommandLine(args) = (CHOOSE f : R(f))[Len(args)]
  BY Zenon DEF CommandLine
<1> HIDE DEF R
<1> QED BY <1>1, <1>2, <1>3, Zenon

\* ReadJconf is what it computes for the entries.
LEMMA ReadJconfIs ==
    ASSUME NEW file, Len(file.entries) \in Nat
    PROVE  \E f : Taken(f, FALSE, file.entries, Len(file.entries)) /\ ReadJconf(file) = f[Len(file.entries)]
<1> DEFINE R(f) == f = [k \in 0..Len(file.entries) |-> IF k = 0 THEN Nothing ELSE Entry(f[k - 1], file.entries[k])]
<1>1. \A f : R(f) <=> Taken(f, FALSE, file.entries, Len(file.entries))
  BY DEF Taken, Take
<1>2. \E f : R(f)
  BY <1>1, TakenExists
<1>3. ReadJconf(file) = (CHOOSE f : R(f))[Len(file.entries)]
  BY Zenon DEF ReadJconf
<1> HIDE DEF R
<1> QED BY <1>1, <1>2, <1>3, Zenon

\* The options of other shapes are not plain.
LEMMA PlainOptions ==
    /\ Plain \subseteq Options
    /\ Plain \intersect {"server", "mode", "tunnel_address", "dscp", "port_password", "iface", "acl"} = {}
BY DEF Plain, Options, StringOptions, IntegerOptions, BooleanOptions, SizeOptions

\* An argument sets the option it names, and no other plain one.
LEMMA ArgumentSets ==
    ASSUME NEW t, DOMAIN t = Options, NEW x, NEW o \in Plain
    PROVE  /\ DOMAIN Argument(t, x) = Options
           /\ Argument(t, x)[o] = IF x.name = o THEN x.value ELSE t[o]
<1>0. {"server", "acl"} \subseteq Options
  BY DEF Options, StringOptions
<1>1. o \in Options /\ o \notin {"server", "dscp", "port_password", "acl"}
  BY PlainOptions
<1>2. CASE x.name = "server"
  <2>1. Argument(t, x) = IF Len(t.server) < MaxRemotes THEN [t EXCEPT !.server = Append(@, ParseAddr(x.value))] ELSE t
    BY <1>2 DEF Argument
  <2> QED BY <1>0, <1>1, <1>2, <2>1
<1>3. CASE x.name = "acl"
  <2>1. Argument(t, x) = [t EXCEPT !.acl = IF x.value = "unreadable" THEN NULL ELSE x.value]
    BY <1>3 DEF Argument
  <2> QED BY <1>0, <1>1, <1>3, <2>1
<1>4. CASE x.name \in Options \ {"server", "dscp", "port_password", "acl"}
  <2>1. Argument(t, x) = [t EXCEPT ![x.name] = x.value]
    BY <1>4 DEF Argument
  <2> QED BY <1>1, <1>4, <2>1
<1>5. CASE x.name # "server" /\ x.name # "acl" /\ x.name \notin Options \ {"server", "dscp", "port_password", "acl"}
  <2>1. Argument(t, x) = t
    BY <1>5 DEF Argument
  <2> QED BY <1>1, <1>5, <2>1
<1> QED BY <1>2, <1>3, <1>4, <1>5

\* So does an entry of the file.
LEMMA EntrySets ==
    ASSUME NEW t, DOMAIN t = Options, NEW x, NEW o \in Plain
    PROVE  /\ DOMAIN Entry(t, x) = Options
           /\ Entry(t, x)[o] = IF x.name = o THEN FileValue(x) ELSE t[o]
<1>0. {"server", "mode", "tunnel_address", "dscp", "port_password", "plugin"} \subseteq Options
  BY DEF Options, StringOptions
<1>1. o \in Options /\ o \notin {"server", "mode", "tunnel_address", "dscp", "port_password"}
  BY PlainOptions
<1>a. "plugin" \in StringOptions /\ StringOptions \subseteq Options /\ IntegerOptions \subseteq Options /\ BooleanOptions \subseteq Options
  BY DEF Options, StringOptions
<1>b. /\ (IntegerOptions \union BooleanOptions) \intersect StringOptions = {}
      /\ {"server", "mode", "tunnel_address", "dscp", "port_password"}
            \intersect (StringOptions \union IntegerOptions \union BooleanOptions) = {}
  BY DEF StringOptions, IntegerOptions, BooleanOptions, SizeOptions
<1>c. x.name \in StringOptions \union IntegerOptions \union BooleanOptions =>
        x.name # "server" /\ x.name # "mode" /\ x.name # "tunnel_address" /\ x.name # "dscp" /\ x.name # "port_password"
  BY <1>b
<1>2. CASE x.name = "plugin"
  <2>0. x.name \notin StringOptions \ {"plugin"} /\ x.name \notin IntegerOptions \union BooleanOptions
    BY <1>2, <1>a, <1>b
  <2>1. Entry(t, x) = [t EXCEPT !.plugin = IF ToText(x.value) = "" THEN NULL ELSE ToText(x.value)]
    BY <1>2, <1>a, <1>c, <2>0 DEF Entry
  <2>2. FileValue(x) = IF ToText(x.value) = "" THEN NULL ELSE ToText(x.value)
    BY <1>2, <1>a DEF FileValue
  <2> QED BY <1>0, <1>1, <1>2, <2>1, <2>2
<1>3. CASE x.name \in StringOptions \ {"plugin"}
  <2>0. x.name # "plugin" /\ x.name \notin IntegerOptions \union BooleanOptions
    BY <1>3, <1>b
  <2>1. Entry(t, x) = [t EXCEPT ![x.name] = ToText(x.value)]
    BY <1>3, <1>c, <2>0 DEF Entry
  <2>2. FileValue(x) = ToText(x.value)
    BY <1>3 DEF FileValue
  <2> QED BY <1>1, <1>3, <1>a, <2>1, <2>2
<1>4. CASE x.name \in IntegerOptions \union BooleanOptions
  <2>1. x.name \notin StringOptions /\ x.name # "plugin"
    BY <1>4, <1>a, <1>b
  <2>2. Entry(t, x) = [t EXCEPT ![x.name] = x.value.v]
    BY <1>4, <1>c, <2>1 DEF Entry
  <2>3. FileValue(x) = x.value.v
    BY <2>1 DEF FileValue
  <2> QED BY <1>1, <1>4, <1>a, <2>2, <2>3
<1>5. CASE x.name \notin StringOptions \union IntegerOptions \union BooleanOptions
  <2>0. x.name # "plugin" /\ x.name \notin StringOptions \ {"plugin"} /\ x.name \notin IntegerOptions \union BooleanOptions /\ x.name # o
    BY <1>5, <1>a DEF Plain
  <2> DEFINE others == {"server", "mode", "tunnel_address", "dscp", "port_password"}
  <2>1. Entry(t, x) = t \/ (\E p \in others : \E v : Entry(t, x) = [t EXCEPT ![p] = v])
    <3>1. CASE x.name = "mode"
      <4>1. Entry(t, x) = [t EXCEPT !["mode"] = Mode(x.value, t["mode"])]
        BY <2>0, <3>1 DEF Entry
      <4> QED BY <4>1
    <3>2. CASE x.name = "tunnel_address"
      <4>1. Entry(t, x) = [t EXCEPT !["tunnel_address"] = IF x.value.type = "string" THEN x.value.v
                                            ELSE [NoText EXCEPT !.name = ToText(x.value)]]
        BY <2>0, <3>2 DEF Entry
      <4> QED BY <4>1
    <3>3. CASE x.name = "server" /\ x.value.type = "array" /\ x.value.v # << >>
      <4>1. Entry(t, x) = [t EXCEPT !["server"] = Servers(t["server"], x.value.v)]
        BY <2>0, <3>3 DEF Entry
      <4> QED BY <4>1
    <3>4. CASE x.name = "server" /\ x.value.type = "string"
      <4>1. Entry(t, x) = [t EXCEPT !["server"] = <<ParseAddr(x.value.v)>>]
        BY <2>0, <3>4 DEF Entry
      <4> QED BY <4>1
    <3>5. CASE x.name = "dscp" /\ x.value.type = "object"
      <4>1. Entry(t, x) = [t EXCEPT !["dscp"] = DscpTable(x.value.v)]
        BY <2>0, <3>5 DEF Entry
      <4> QED BY <4>1
    <3>6. CASE x.name = "port_password" /\ x.value.type = "object"
      <4>1. Entry(t, x) = [t EXCEPT !["port_password"] = PortPassword(x.value.v)]
        BY <2>0, <3>6 DEF Entry
      <4> QED BY <4>1
    <3>7. CASE /\ x.name # "mode" /\ x.name # "tunnel_address" /\ ~(x.name = "server" /\ x.value.type = "array" /\ x.value.v # << >>)
               /\ ~(x.name = "server" /\ x.value.type = "string") /\ ~(x.name = "dscp" /\ x.value.type = "object")
               /\ ~(x.name = "port_password" /\ x.value.type = "object")
      BY <2>0, <3>7 DEF Entry
    <3> QED BY <3>1, <3>2, <3>3, <3>4, <3>5, <3>6, <3>7
  <2> QED BY <1>0, <1>1, <2>0, <2>1
<1> QED BY <1>2, <1>3, <1>4, <1>5

\* After n arguments or entries a plain option has what the last one that names
\* it says, and nothing when none does.
Holds(t, isArg, xs, n) ==
    /\ DOMAIN t = Options
    /\ \A o \in Plain :
          /\ (\A j \in 1..n : xs[j].name # o) => t[o] = NotGiven(o)
          /\ \A j \in 1..n : xs[j].name = o /\ (\A i \in 1..n : i > j => xs[i].name # o) => t[o] = Says(isArg, xs[j])

\* What the loop over the arguments or the entries leaves in the table.
LEMMA TakenHolds ==
    ASSUME NEW isArg \in BOOLEAN, NEW xs, NEW N \in Nat, NEW f, Taken(f, isArg, xs, N)
    PROVE  \A k \in 0..N : Holds(f[k], isArg, xs, k)
<1> DEFINE Bad == {n \in Nat : n \in 0..N /\ ~Holds(f[n], isArg, xs, n)}
<1>1. SUFFICES ASSUME Bad # {} PROVE FALSE
  OBVIOUS
<1>2. PICK n \in Bad : \A m \in Bad : n <= m
  BY <1>1, LeastNat
<1>3. n \in Nat /\ n \in 0..N /\ ~Holds(f[n], isArg, xs, n)
  BY <1>2
<1>4. CASE n = 0
  <2>1. f[0] = Nothing
    BY <1>3, <1>4 DEF Taken
  <2>2. Holds(Nothing, isArg, xs, 0)
    BY PlainOptions DEF Holds, Nothing
  <2> QED BY <1>3, <1>4, <2>1, <2>2
<1>5. CASE n # 0
  <2>1. n - 1 \in 0..N /\ n - 1 \in Nat /\ ~(n <= n - 1)
    BY <1>3, <1>5
  <2>2. Holds(f[n - 1], isArg, xs, n - 1)
    BY <1>2, <2>1
  <2>3. PICK t : t = f[n - 1]
    OBVIOUS
  <2>4. PICK u : u = f[n]
    OBVIOUS
  <2>5. PICK x : x = xs[n]
    OBVIOUS
  <2>6. u = Take(isArg, t, x)
    BY <1>3, <1>5, <2>3, <2>4, <2>5 DEF Taken
  <2>7. ASSUME NEW o \in Plain PROVE DOMAIN u = Options /\ u[o] = IF x.name = o THEN Says(isArg, x) ELSE t[o]
    <3>1. DOMAIN t = Options
      BY <2>2, <2>3 DEF Holds
    <3>2. CASE isArg
      BY <2>6, <3>1, <3>2, ArgumentSets DEF Take, Says
    <3>3. CASE ~isArg
      BY <2>6, <3>1, <3>3, EntrySets DEF Take, Says
    <3> QED BY <3>2, <3>3
  <2>8. "mtu" \in Plain
    BY DEF Plain, IntegerOptions
  <2>9. ASSUME NEW o \in Plain, \A j \in 1..n : xs[j].name # o PROVE u[o] = NotGiven(o)
    <3>1. n \in 1..n /\ \A j \in 1..(n - 1) : j \in 1..n
      BY <1>3, <1>5
    <3>2. x.name # o /\ \A j \in 1..(n - 1) : xs[j].name # o
      BY <2>5, <2>9, <3>1
    <3> QED BY <2>2, <2>3, <2>7, <3>2 DEF Holds
  <2>10. ASSUME NEW o \in Plain, NEW j \in 1..n, xs[j].name = o, \A i \in 1..n : i > j => xs[i].name # o
         PROVE  u[o] = Says(isArg, xs[j])
    <3>1. CASE j = n
      BY <2>5, <2>7, <2>10, <3>1
    <3>2. CASE j # n
      <4>1. j \in 1..(n - 1) /\ n \in 1..n /\ n > j /\ \A i \in 1..(n - 1) : i \in 1..n
        BY <1>3, <3>2
      <4>2. x.name # o /\ \A i \in 1..(n - 1) : i > j => xs[i].name # o
        BY <2>5, <2>10, <4>1
      <4> QED BY <2>2, <2>3, <2>7, <2>10, <4>1, <4>2 DEF Holds
    <3> QED BY <3>1, <3>2
  <2>11. Holds(u, isArg, xs, n)
    BY <2>7, <2>8, <2>9, <2>10 DEF Holds
  <2> QED BY <1>3, <2>4, <2>11
<1> QED BY <1>4, <1>5

\* LastOf is the entry behind which none names the option.
LEMMA LastIs ==
    ASSUME NEW xs, Len(xs) \in Nat, NEW o, Names(xs, o)
    PROVE  \E j \in 1..Len(xs) : xs[j].name = o /\ LastOf(xs, o) = xs[j] /\ \A i \in 1..Len(xs) : i > j => xs[i].name # o
<1> DEFINE at == {j \in 1..Len(xs) : xs[j].name = o}
           T == {m \in Nat : \A k \in at : k <= m}
<1>1. Len(xs) \in T
  OBVIOUS
<1>2. PICK m \in T : \A y \in T : m <= y
  <2>1. T \subseteq Nat /\ T # {}
    BY <1>1
  <2> HIDE DEF T
  <2> QED BY <2>1, LeastNat
<1>3. m \in at
  <2>1. PICK j \in at : TRUE
    BY DEF Names
  <2>2. m >= 1 /\ m \in Nat
    BY <1>2, <2>1
  <2>3. m - 1 \notin T /\ m - 1 \in Nat
    <3>1. ~(m <= m - 1) /\ m - 1 \in Nat
      BY <2>2
    <3> HIDE DEF T
    <3> QED BY <1>2, <3>1
  <2>4. PICK k \in at : ~(k <= m - 1)
    BY <2>3
  <2>5. k <= m /\ k \in Nat
    BY <1>2, <2>4
  <2>6. k = m
    BY <2>2, <2>4, <2>5
  <2> QED BY <2>4, <2>6
<1>4. m \in at /\ \A k \in at : k <= m
  BY <1>2, <1>3
<1>5. PICK j : j = CHOOSE i \in at : \A k \in at : k <= i
  OBVIOUS
<1>6. j \in at /\ \A k \in at : k <= j
  BY <1>4, <1>5, Zenon
<1>7. LastOf(xs, o) = xs[j]
  BY <1>5, Zenon DEF LastOf
<1>8. ASSUME NEW i \in 1..Len(xs), i > j PROVE xs[i].name # o
  <2>1. ~(i <= j)
    BY <1>6, <1>8
  <2> QED BY <1>6, <2>1
<1> QED BY <1>6, <1>7, <1>8

\* ... for getopt_long,
LEMMA CommandLineHolds ==
    ASSUME NEW args, Len(args) \in Nat
    PROVE  Holds(CommandLine(args), TRUE, args, Len(args))
<1>1. PICK f : Taken(f, TRUE, args, Len(args)) /\ CommandLine(args) = f[Len(args)]
  BY CommandLineIs
<1>2. Len(args) \in 0..Len(args) /\ TRUE \in BOOLEAN
  OBVIOUS
<1>3. \A k \in 0..Len(args) : Holds(f[k], TRUE, args, k)
  BY <1>1, <1>2, TakenHolds
<1> QED BY <1>1, <1>2, <1>3

\* ... and for read_jconf.
LEMMA ReadJconfHolds ==
    ASSUME NEW file, Len(file.entries) \in Nat
    PROVE  Holds(ReadJconf(file), FALSE, file.entries, Len(file.entries))
<1>1. PICK f : Taken(f, FALSE, file.entries, Len(file.entries)) /\ ReadJconf(file) = f[Len(file.entries)]
  BY ReadJconfIs
<1>2. Len(file.entries) \in 0..Len(file.entries) /\ FALSE \in BOOLEAN
  OBVIOUS
<1>3. \A k \in 0..Len(file.entries) : Holds(f[k], FALSE, file.entries, k)
  BY <1>1, <1>2, TakenHolds
<1> QED BY <1>1, <1>2, <1>3

\* What a program takes from its file, but for the options of other shapes.
LEMMA TakesPlain ==
    ASSUME Prog \in Programs, NEW o \in (Takes \ {"server", "mode", "dscp", "acl", "tunnel_address"}) \ SizeOptions
    PROVE  o \in Plain /\ o \in Options /\ o \in Takes /\ o \notin SizeOptions
<1>1. ASSUME NEW c \in Common, c \notin {"server", "mode"} PROVE c \in Plain
  BY <1>1 DEF Common, Plain, StringOptions, IntegerOptions, BooleanOptions
<1>2. {"local_address", "local_port", "ipv6_first", "tcp_tproxy", "nameserver"} \subseteq Plain
  BY DEF Plain, StringOptions, BooleanOptions
<1>3. Takes \subseteq Common \union {"local_address", "local_port", "ipv6_first", "acl", "tunnel_address", "tcp_tproxy", "dscp", "nameserver"}
  BY DEF Takes, LocalTakes, TunnelTakes, RedirTakes, ServerTakes
<1>4. o \in Plain
  BY <1>1, <1>2, <1>3
<1> QED BY <1>4, PlainOptions

\* A default fills one place, if nothing is there.
LEMMA DefaultKeeps ==
    ASSUME NEW d, DOMAIN d = Options, NEW n \in Options, NEW v, NEW o \in Options
    PROVE  DOMAIN Default(d, n, v) = Options /\ (o # n \/ d[o] # NULL => Default(d, n, v)[o] = d[o])
BY DEF Default

\* The defaults leave alone what was given.
LEMMA PrepareKeeps ==
    ASSUME Prog \in Programs, NEW s, DOMAIN s = Options, NEW o \in Plain, o \notin SizeOptions, s[o] # NotGiven(o)
    PROVE  Prepare(s)[o] = s[o]
<1>1. o \in Options /\ o # "server"
  BY PlainOptions
<1>2. "method" \in Options /\ "timeout" \in Options /\ "local_address" \in Options
  BY DEF Options, StringOptions
<1>3. o \in {"method", "timeout", "local_address"} => s[o] # NULL
  <2>1. ASSUME o \in {"method", "timeout", "local_address"} PROVE NotGiven(o) = NULL
    BY <2>1 DEF NotGiven, StringOptions
  <2> QED BY <2>1
<1>4. DOMAIN Sizes(s) = Options /\ Sizes(s)[o] = s[o]
  BY <1>1 DEF Sizes
<1>5. ASSUME NEW v PROVE LET d == Default(Default(Sizes(s), "method", "chacha20-ietf-poly1305"), "timeout", v)
                         IN  DOMAIN d = Options /\ d[o] = s[o]
  <2> DEFINE c == Default(Sizes(s), "method", "chacha20-ietf-poly1305")
  <2>1. DOMAIN c = Options /\ c[o] = s[o]
    BY <1>1, <1>2, <1>3, <1>4, DefaultKeeps
  <2> HIDE DEF c
  <2>2. DOMAIN Default(c, "timeout", v) = Options /\ Default(c, "timeout", v)[o] = s[o]
    BY <1>1, <1>2, <1>3, <2>1, DefaultKeeps
  <2> QED BY <2>2 DEF c
<1>6. ASSUME NEW v, NEW w
      PROVE  Default(Default(Default(Sizes(s), "method", "chacha20-ietf-poly1305"), "timeout", v), "local_address", w)[o]
                = s[o]
  <2> DEFINE d == Default(Default(Sizes(s), "method", "chacha20-ietf-poly1305"), "timeout", v)
  <2>1. DOMAIN d = Options /\ d[o] = s[o]
    BY <1>5
  <2> HIDE DEF d
  <2>2. Default(d, "local_address", w)[o] = s[o]
    BY <1>1, <1>2, <1>3, <2>1, DefaultKeeps
  <2> QED BY <2>2 DEF d
<1>7. LocalPrepare(s)[o] = s[o]
  BY <1>6, Zenon DEF LocalPrepare
<1>8. TunnelPrepare(s)[o] = s[o]
  BY <1>6, Zenon DEF TunnelPrepare
<1>9. RedirPrepare(s)[o] = s[o]
  BY <1>6, Zenon DEF RedirPrepare
<1>10. ServerPrepare(s)[o] = s[o]
  <2> DEFINE d == Default(Default(Sizes(s), "method", "chacha20-ietf-poly1305"), "timeout", "60")
  <2>1. DOMAIN d = Options /\ d[o] = s[o]
    BY <1>5
  <2>2. ServerPrepare(s) = IF d.server = << >> THEN [d EXCEPT !.server = <<Address("0.0.0.0", NULL)>>] ELSE d
    BY Zenon DEF ServerPrepare
  <2> HIDE DEF d
  <2> QED BY <1>1, <2>1, <2>2
<1> QED BY <1>7, <1>8, <1>9, <1>10 DEF Prepare, Programs

\* What is in force after the command line and the file were read.
LEMMA MergedExact ==
    ASSUME Len(input.args) \in Nat, Len(input.file.entries) \in Nat, NEW o \in Plain, o \in Takes
    PROVE  /\ DOMAIN Merged = Options
           /\ Given(o) => Merged[o] = LastOf(input.args, o).value /\ Merged[o] # NotGiven(o)
           /\ ~Given(o) /\ InFile(o) => Merged[o] = FileValue(LastOf(input.file.entries, o)) /\ Merged[o] # NotGiven(o)
<1>0. o \in Options
  BY PlainOptions
<1> DEFINE cmd == CommandLine(input.args)
           conf == ReadJconf(input.file)
<1>1. Holds(cmd, TRUE, input.args, Len(input.args))
  BY CommandLineHolds
<1>2. Holds(conf, FALSE, input.file.entries, Len(input.file.entries))
  BY ReadJconfHolds
<1> HIDE DEF cmd, conf
<1>3. Names(input.args, o) => cmd[o] = LastOf(input.args, o).value
  <2> SUFFICES ASSUME Names(input.args, o) PROVE cmd[o] = LastOf(input.args, o).value
    OBVIOUS
  <2>1. PICK j \in 1..Len(input.args) :
           /\ input.args[j].name = o /\ LastOf(input.args, o) = input.args[j]
           /\ \A i \in 1..Len(input.args) : i > j => input.args[i].name # o
    BY LastIs
  <2> QED BY <1>1, <2>1 DEF Holds, Says
<1>4. ~Names(input.args, o) => cmd[o] = NotGiven(o)
  BY <1>1 DEF Holds, Names
<1>5. Names(input.file.entries, o) => conf[o] = FileValue(LastOf(input.file.entries, o))
  <2> SUFFICES ASSUME Names(input.file.entries, o) PROVE conf[o] = FileValue(LastOf(input.file.entries, o))
    OBVIOUS
  <2> DEFINE es == input.file.entries
  <2>0. Len(es) \in Nat /\ Names(es, o) /\ Holds(conf, FALSE, es, Len(es))
    BY <1>2
  <2> HIDE DEF es
  <2>1. PICK j \in 1..Len(es) : es[j].name = o /\ LastOf(es, o) = es[j] /\ \A i \in 1..Len(es) : i > j => es[i].name # o
    BY <2>0, LastIs
  <2>2. conf[o] = FileValue(LastOf(es, o))
    BY <2>0, <2>1 DEF Holds, Says
  <2> QED BY <2>2 DEF es
<1>6. Merged = IF input.file.state = "none" THEN cmd ELSE Fill(cmd, conf, Takes)
  BY DEF Merged, cmd, conf
<1>7. DOMAIN cmd = Options
  BY <1>1 DEF Holds
<1>8. Fill(cmd, conf, Takes)[o] = IF cmd[o] = NotGiven(o) THEN conf[o] ELSE cmd[o]
  BY <1>0 DEF Fill
<1>9. DOMAIN Merged = Options
  BY <1>6, <1>7 DEF Fill
<1>10. ASSUME Given(o) PROVE Merged[o] = LastOf(input.args, o).value /\ Merged[o] # NotGiven(o)
  BY <1>3, <1>6, <1>8, <1>10 DEF Given
<1>11. ASSUME ~Given(o), InFile(o) PROVE Merged[o] = FileValue(LastOf(input.file.entries, o)) /\ Merged[o] # NotGiven(o)
  <2>1. cmd[o] = NotGiven(o)
    BY <1>3, <1>4, <1>11 DEF Given
  <2>2. input.file.state # "none" /\ conf[o] = FileValue(LastOf(input.file.entries, o)) /\ conf[o] # NotGiven(o)
    BY <1>5, <1>11 DEF InFile
  <2> QED BY <1>6, <1>8, <2>1, <2>2
<1> QED BY <1>9, <1>10, <1>11

\* The program was started with one of the inputs.
InputInv == \E i \in DOMAIN Inputs : input = Inputs[i]

\* Arguments and entries are finite sequences.
LEMMA InputLens ==
    ASSUME InputInv
    PROVE  Len(input.args) \in Nat /\ Len(input.file.entries) \in Nat
<1>1. PICK i \in DOMAIN Inputs : input = Inputs[i]
  BY DEF InputInv
<1>2. input.args \in Seq(Range(input.args)) /\ input.file.entries \in Seq(Range(input.file.entries))
  BY <1>1, InputsAssumption
<1>3. ASSUME NEW xs, NEW S, xs \in Seq(S) PROVE Len(xs) \in Nat
  BY <1>3
<1> QED BY <1>2, <1>3

\* The options in force after they were read are those of OptionsExact.
LEMMA ReadOptionsExact ==
    ASSUME StartupInv, InputInv, ReadOptions
    PROVE  OptionsExact'
<1>1. Len(input.args) \in Nat /\ Len(input.file.entries) \in Nat /\ Prog \in Programs
  BY InputLens DEF StartupInv, PcInv
<1>2. input' = input
  BY DEF ReadOptions
<1>3. /\ Takes' = Takes /\ \A o : (Given(o)' <=> Given(o)) /\ (InFile(o)' <=> InFile(o))
  BY <1>2 DEF Takes, Prog, Given, InFile
<1>4. SUFFICES ASSUME pc' = "port", NEW o \in (Takes \ {"server", "mode", "dscp", "acl", "tunnel_address"}) \ SizeOptions
               PROVE  /\ Given(o) => set'[o] = LastOf(input.args, o).value
                      /\ ~Given(o) /\ InFile(o) => set'[o] = FileValue(LastOf(input.file.entries, o))
  BY <1>2, <1>3 DEF OptionsExact
<1>5. set' = Prepare(Merged)
  BY <1>4 DEF ReadOptions
<1>6. o \in Plain /\ o \in Options /\ o \in Takes /\ o \notin SizeOptions
  BY <1>1, <1>4, TakesPlain
<1>7. /\ DOMAIN Merged = Options
      /\ Given(o) => Merged[o] = LastOf(input.args, o).value /\ Merged[o] # NotGiven(o)
      /\ ~Given(o) /\ InFile(o) => Merged[o] = FileValue(LastOf(input.file.entries, o)) /\ Merged[o] # NotGiven(o)
  BY <1>1, <1>6, MergedExact
<1>8. Merged[o] # NotGiven(o) => Prepare(Merged)[o] = Merged[o]
  BY <1>1, <1>6, <1>7, PrepareKeeps
<1> QED BY <1>5, <1>7, <1>8

\* Only ReadOptions leads to the step after it.
LEMMA PortOnce ==
    ASSUME StartupInv, StartupNext
    PROVE  input' = input /\ (ReadOptions \/ pc' # "port" \/ (pc = "port" /\ set' = set))
<1>0. ASSUME GoOn, pc \in {"port", "daemonize", "target", "plugin", "signals", "crypto", "resolver", "remotes", "tcp",
                        "udp", "setuid"}
      PROVE  pc' # "port"
  <2>1. /\ After("port") # "port" /\ After("daemonize") # "port" /\ (pc = "target" => After("target") # "port")
        /\ After("plugin") # "port" /\ After("signals") # "port" /\ After("crypto") # "port" /\ (pc = "resolver" => After("resolver") # "port")
        /\ (pc = "remotes" => After("remotes") # "port") /\ After("tcp") # "port" /\ After("udp") # "port" /\ After("setuid") # "port"
    BY Order DEF StartupInv, PcInv
  <2>2. pc' = After(pc)
    BY <1>0 DEF GoOn
  <2> QED BY <1>0, <2>1, <2>2
<1>1. ASSUME NEW why, Fatal(why) PROVE pc' # "port" /\ input' = input
  BY <1>1 DEF Fatal, procVars
<1>2. CASE ReadOptions
  BY <1>2 DEF ReadOptions
<1>3. CASE FreePort \/ Daemonize \/ Target
  <2>1. pc \in {"port", "daemonize", "target"} /\ (GoOn \/ (\E why : Fatal(why)))
    BY <1>3 DEF FreePort, Daemonize, Target
  <2>2. input' = input
    BY <1>3, <1>1 DEF FreePort, Daemonize, Target, procVars
  <2> QED BY <1>0, <1>1, <2>1, <2>2
<1>4. CASE StartPlugin \/ Signals \/ Crypto \/ Resolver \/ Remotes
  <2>1. pc \in {"plugin", "signals", "crypto", "resolver", "remotes"} /\ (GoOn \/ (\E why : Fatal(why)))
    BY <1>4 DEF StartPlugin, Signals, Crypto, Resolver, Remotes
  <2>2. input' = input
    BY <1>4, <1>1 DEF StartPlugin, Signals, Crypto, Resolver, Remotes, procVars
  <2> QED BY <1>0, <1>1, <2>1, <2>2
<1>5. CASE ClientTcp \/ ServerTcp \/ ServerUdp \/ Setuid
  <2>1. pc \in {"tcp", "udp", "setuid"} /\ (GoOn \/ (\E why : Fatal(why)))
    BY <1>5 DEF ClientTcp, ServerTcp, ServerUdp, Setuid
  <2>2. input' = input
    BY <1>5, <1>1 DEF ClientTcp, ServerTcp, ServerUdp, Setuid, procVars
  <2> QED BY <1>0, <1>1, <2>1, <2>2
<1>6. CASE ClientUdp
  <2>1. After("udp") # "port"
    BY Order DEF StartupInv, PcInv
  <2> QED BY <1>1, <1>6, <2>1 DEF ClientUdp
<1>7. CASE SignalCb
  BY <1>7 DEF SignalCb, Unloop
<1>8. CASE Abort \/ Spin \/ Wait \/ Free
  <2>1. (\E step \in {"spin", "wait", "free"} : Turn(step)) \/ Free
    BY <1>8 DEF Abort, Spin, Wait
  <2> QED BY <2>1 DEF Turn, Free, procVars
<1>9. CASE Arrives("INT") \/ Arrives("TERM")
  BY <1>9 DEF Arrives, procVars
<1>10. CASE PluginFails \/ PluginSignalled \/ PluginSuspended \/ PluginStarts \/ Finished
  <2>1. UNCHANGED <<input, set, pc>>
    BY <1>10 DEF PluginFails, PluginSignalled, PluginSuspended, PluginStarts, Finished, startupVars, procVars
  <2> QED BY <2>1
<1> QED BY <1>2, <1>3, <1>4, <1>5, <1>6, <1>7, <1>8, <1>9, <1>10 DEF StartupNext, Main

\* They are still when the program looks for a port.
LEMMA OptionsExactNext ==
    ASSUME StartupInv, InputInv, OptionsExact, [StartupNext]_startupVars
    PROVE  InputInv' /\ OptionsExact'
<1>1. input' = input /\ (ReadOptions \/ pc' # "port" \/ (pc = "port" /\ set' = set))
  <2>1. CASE UNCHANGED startupVars
    BY <2>1 DEF startupVars, procVars
  <2> QED BY <2>1, PortOnce
<1>2. InputInv'
  BY <1>1 DEF InputInv
<1>3. CASE ReadOptions
  BY <1>2, <1>3, ReadOptionsExact
<1>4. CASE pc' # "port"
  BY <1>2, <1>4 DEF OptionsExact
<1>5. CASE pc = "port" /\ set' = set
  <2>1. /\ Takes' = Takes /\ \A o : (Given(o)' <=> Given(o)) /\ (InFile(o)' <=> InFile(o))
    BY <1>1 DEF Takes, Prog, Given, InFile
  <2>2. \A o \in (Takes \ {"server", "mode", "dscp", "acl", "tunnel_address"}) \ SizeOptions :
            /\ Given(o) => set[o] = LastOf(input.args, o).value
            /\ ~Given(o) /\ InFile(o) => set[o] = FileValue(LastOf(input.file.entries, o))
    BY <1>5 DEF OptionsExact
  <2>3. OptionsExact'
    BY <1>1, <1>5, <2>1, <2>2 DEF OptionsExact
  <2> QED BY <1>2, <2>3
<1> QED BY <1>1, <1>2, <1>3, <1>4, <1>5

\* The step the program is at is one of its own.
LEMMA PcListed ==
    ASSUME StartupInv
    PROVE  pc \in Gone \union {Steps[i] : i \in 1..Len(Steps)} \union {"stop", "spin", "wait", "free"}
<1>1. pc \in Gone \union StepNames \union Closing
  BY DEF StartupInv, PcInv
<1>2. ASSUME pc \in StepNames PROVE pc \in {Steps[i] : i \in 1..Len(Steps)}
  <2>1. CASE Prog = "ss-local"
    <3>1. Steps = LocalMain /\ Len(LocalMain) = 11
      BY <2>1 DEF Steps, LocalMain
    <3>2. pc # "target" /\ pc # "resolver"
      BY <2>1 DEF StartupInv, PcInv, IsServer
    <3>3. \E i \in 1..11 : LocalMain[i] = pc
      BY <1>2, <3>2 DEF StepNames, LocalMain
    <3> QED BY <3>1, <3>3
  <2>2. CASE Prog = "ss-tunnel"
    <3>1. Steps = TunnelMain /\ Len(TunnelMain) = 12
      BY <2>2 DEF Steps, TunnelMain
    <3>2. pc # "resolver"
      BY <2>2 DEF StartupInv, PcInv, IsServer
    <3>3. \E i \in 1..12 : TunnelMain[i] = pc
      BY <1>2, <3>2 DEF StepNames, TunnelMain
    <3> QED BY <3>1, <3>3
  <2>3. CASE Prog = "ss-redir"
    <3>1. Steps = RedirMain /\ Len(RedirMain) = 11
      BY <2>3 DEF Steps, RedirMain
    <3>2. pc # "target" /\ pc # "resolver"
      BY <2>3 DEF StartupInv, PcInv, IsServer
    <3>3. \E i \in 1..11 : RedirMain[i] = pc
      BY <1>2, <3>2 DEF StepNames, RedirMain
    <3> QED BY <3>1, <3>3
  <2>4. CASE Prog = "ss-server"
    <3>1. Steps = ServerMain /\ Len(ServerMain) = 11
      BY <2>4 DEF Steps, ServerMain
    <3>2. pc # "target" /\ pc # "remotes"
      BY <2>4 DEF StartupInv, PcInv, IsServer
    <3>3. \E i \in 1..11 : ServerMain[i] = pc
      BY <1>2, <3>2 DEF StepNames, ServerMain
    <3> QED BY <3>1, <3>3
  <2> QED BY <2>1, <2>2, <2>3, <2>4 DEF StartupInv, PcInv, Programs
<1> QED BY <1>1, <1>2 DEF Closing

\* The parts of ComesUp are parts of the invariant.
LEMMA ComesUpFollows ==
    ASSUME StartupInv, OptionsExact
    PROVE  ComesUp
<1>1. BindsAsRoot
  BY DEF StartupInv, PcInv, BindsAsRoot
<1>2. LoopReady
  BY DEF StartupInv, ReadyInv, LoopReady, AllHandlers
<1>3. StartupTypeOK
  <2>1. me \in 0..1 /\ ret \in {0, -1} /\ keys \in BOOLEAN /\ cause \in {"", "settings", "fault", "privilege"}
    BY DEF StartupInv, PcInv
  <2>2. pending \subseteq handlers /\ handlers \subseteq {"INT", "TERM", "CHLD"}
    BY DEF StartupInv, ReadyInv, AllHandlers
  <2>3. /\ spins \in 0..Spins /\ sub.pid \in {0, 1} /\ sub.there \in BOOLEAN
        /\ child.state \in {"none", "forked", "running", "stopped", "zombie", "reaped"}
    BY DEF StartupInv, ChildInv
  <2> QED BY <2>1, <2>2, <2>3, PcListed DEF StartupTypeOK
<1> QED BY <1>1, <1>2, <1>3 DEF ComesUp

\* The options in force are those of the command line, then of the file; the
\* loop starts with keys, handlers, listeners and the user it was told; and no port is
\* refused for want of rights, because run_as comes last (main of the four programs).
THEOREM ProgramComesUp == StartupSpec => []ComesUp
<1>1. StartupInit => InputInv /\ OptionsExact
  BY DEF StartupInit, InputInv, OptionsExact
<1>2. StartupInv /\ StartupInv' /\ InputInv /\ OptionsExact /\ [StartupNext]_startupVars => InputInv' /\ OptionsExact'
  BY OptionsExactNext
<1>3. StartupInv /\ OptionsExact => ComesUp
  BY ComesUpFollows
<1> QED BY <1>1, <1>2, <1>3, StartupInvariant, PTL DEF StartupSpec
=============================================================================
