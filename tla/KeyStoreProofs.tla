--------------------------- MODULE KeyStoreProofs ---------------------------
(***************************************************************************)
(* What KeyStore promises of ports.json and of the table of ss-manager,    *)
(* for any ports, names and passwords, any number of operations, late      *)
(* requests and answers, crashes and restarts, over UDP and over the Unix  *)
(* socket, with the API and the command line in use.                       *)
(***************************************************************************)
EXTENDS KeyStore, SequenceTheorems, WellFoundedInduction, TLAPS

-----------------------------------------------------------------------------
(* Types *)

Sender == {API, CLI, None}

Request ==
    [from : Sender, act : {"add"}, port : Port, arg : Password]
        \cup [from : Sender, act : {"remove", "clear_ip", "ip_status"}, port : Port, arg : {None}]
        \cup [from : Sender, act : {"set_ip"}, port : Port, arg : Ip]
        \cup [from : Sender, act : {"list"}, port : {None}, arg : {None}]

Job ==
    {Exited, Idle} \cup [op : {"list"}]
        \cup [op : {"add"}, port : Port, name : Name, arg : Password]
        \cup [op : {"clear", "remove"}, port : Port, asked : Port]
        \cup [op : {"lock"}, port : Port, arg : Ip \cup {None}]
        \cup [op : {"save"}, port : Port, done : {"created", "deleted", "changed"}, asked : Port]
        \cup [op : {"sync"}, todo : SUBSET Port, errors : BOOLEAN, active : SUBSET Port]
        \cup [op : {"readd", "status", "relock"}, port : Port,
              todo : SUBSET Port, errors : BOOLEAN, active : SUBSET Port]

Syncing == {"sync", "readd", "status", "relock"}

\* Of a program's job, its keys and the answer it has got.
Local(j, m, r) ==
    /\ r # None => j.op \in Waiting
    /\ j.op = "save" /\ j.done = "created" => m[j.port] # None
    /\ j.op \in Syncing => j.todo \subseteq Used(m)
    /\ j.op \in Syncing \ {"sync"} => j.port \in j.todo
    /\ j.op = "readd" => j.port \notin j.active
    /\ j.op = "status" => j.port \in j.active /\ m[j.port].locked_ip # None

Programs ==
    /\ Worker \subseteq {API, CLI}
    /\ job \in [Worker -> Job] /\ mem \in [Worker -> Keys] /\ reply \in [Worker -> Reply \cup {None}]
    /\ \A w \in Worker : Local(job[w], mem[w], reply[w])

Socket == inbox \in Seq(Request) /\ \A i \in DOMAIN inbox : inbox[i].from \in Worker \cup {None}

Kinds ==
    /\ disk \in Keys \cup {None}
    /\ table \in [Port -> Password \cup {None}] /\ lockfile \in [Port -> Ip \cup {None}]
    /\ status \in [Port -> {None} \cup {<<ip>> : ip \in Ip \cup {None}}]
    /\ promised \in [Port -> Password \cup {None}] /\ gone \subseteq Port /\ mistaken \subseteq Port
    /\ torn \in BOOLEAN /\ stale \in BOOLEAN /\ crossed \in BOOLEAN

Typed == Programs /\ Socket /\ Kinds

-----------------------------------------------------------------------------
(* The invariant *)

Touches(q, p) == q.act \in {"add", "remove"} /\ q.port = p
Gives(q, v) == q.act = "remove" \/ q.arg = v

\* Once all that waits in the box is carried out, port p is served with
\* password v or not at all.  It does not matter who reads which answer.
EndsIn(box, p, v) ==
    /\ \A i \in DOMAIN box :
          Touches(box[i], p) /\ (\A j \in DOMAIN box : j > i => ~Touches(box[j], p)) => Gives(box[i], v)
    /\ (\A i \in DOMAIN box : ~Touches(box[i], p)) => table[p] \in {None, v}

Ends(p, v) == EndsIn(inbox, p, v)

\* The keys S are what was promised, and what ss-manager comes to serve.
Kept(S) ==
    \A p \in Port :
        /\ S[p] # None => Ends(p, S[p].password)
        /\ p \in gone \ mistaken => S[p] = None /\ Ends(p, None)
        /\ ~torn /\ p \notin mistaken /\ promised[p] # None =>
               S[p] # None /\ S[p].password = promised[p]

\* The keys as they are stored, or are about to be.
Now(w) == IF Works(w, "save") THEN mem[w] ELSE Load(disk)

\* Nobody but w is at work.
Only(w) == \A v \in Worker \ {w} : ~Busy(v)

Loaded(w) ==
    /\ Works(w, "save") => disk = None
    /\ Busy(w) /\ ~Works(w, "save") => mem[w] = Load(disk)

Deleting(j) == j.op = "save" /\ j.done = "deleted"

JobInv(w) ==
    LET j == job[w]
    IN  /\ j.op = "add" => mem[w][j.port] = None /\ j.port \notin gone /\ Ends(j.port, j.arg)
        /\ j.op \in {"clear", "remove"} \/ Deleting(j) =>
               /\ promised[j.asked] = None
               /\ j.port = j.asked \/ (j.port \in mistaken /\ j.asked \in mistaken)
        /\ j.op = "remove" \/ Deleting(j) => Ends(j.port, None)
        /\ Deleting(j) => mem[w][j.port] = None

Safe(p)     == table[p] # None /\ \A i \in DOMAIN inbox : ~Touches(inbox[i], p)
ListPending == \E i \in DOMAIN inbox : inbox[i].act = "list"

\* What w has in the socket while it synchronises without errors: the request
\* it waits for, and perhaps a list that it gave up.
SyncSent(w) ==
    \A i \in DOMAIN inbox : inbox[i].from = w =>
        \/ inbox[i].act = "list"
        \/ /\ i = Len(inbox) /\ job[w].op # "sync"
           /\ job[w].op = "readd" =>
                 inbox[i].act = "add" /\ inbox[i].port = job[w].port /\ reply[w] # Ok
           /\ job[w].op # "readd" => reply[w] \in {None, Timeout}

\* A port that is done, or counts as active, is served and stays so.  A list
\* that was given up and is still to be answered belongs to a
\* synchronisation that has not got anywhere.
SyncInv(w) ==
    /\ Works(w, "list") =>
         /\ \A i \in DOMAIN inbox : inbox[i].from = w => i = Len(inbox) /\ inbox[i].act = "list"
         /\ reply[w] \notin {None, Timeout} =>
              /\ inbox = << >> /\ reply[w].res = "list"
              /\ ~stale => \A p \in reply[w].ports : table[p] # None
    /\ job[w].op \in Syncing /\ ~job[w].errors =>
         /\ SyncSent(w)
         /\ Works(w, "readd") /\ reply[w] = Ok => inbox = << >> /\ (~stale => table[job[w].port] # None)
         /\ ~stale => \A p \in Used(mem[w]) : p \notin job[w].todo \/ p \in job[w].active => Safe(p)
         /\ ~stale /\ Works(w, "relock") => Safe(job[w].port)
         /\ ListPending => job[w].active = {} /\ job[w].todo = Used(mem[w]) /\ ~Works(w, "relock")

\* A command that has just been started has asked nothing.
Fresh == CLI \in Worker /\ Works(CLI, "idle") => \A i \in DOMAIN inbox : inbox[i].from # CLI

\* None of the three properties is inductive: they rest on the order in which
\* ss-manager carries out what was asked, given up and asked again.
Good(w) ==
    w \in Worker /\ Only(w) /\ Loaded(w) /\ Kept(Now(w)) /\ JobInv(w) /\ SyncInv(w) /\ Fresh

IInv == Typed /\ (crossed \/ \E w \in {API, CLI} : Good(w))

-----------------------------------------------------------------------------
(* The least port *)

LEMMA LeastNat ==
    ASSUME NEW T, T \subseteq Nat, T # {}
    PROVE  \E x \in T : \A y \in T : x <= y
<1>1. IsWellFoundedOn(OpToRel(<, Nat), Nat)
  BY NatLessThanWellFounded, Zenon
<1>2. PICK x \in T : \A y \in T : ~(<<y, x>> \in OpToRel(<, Nat))
  BY <1>1, WFMin, Zenon
<1>3. ASSUME NEW y \in T PROVE x <= y
  <2>1. ~(<<y, x>> \in OpToRel(<, Nat))
    BY <1>2, Zenon
  <2>2. ~(y < x)
    BY <2>1 DEF OpToRel
  <2> QED BY <2>2
<1> QED BY <1>3

LEMMA MinIn ==
    ASSUME NEW T, T \subseteq Port, T # {}
    PROVE  Min(T) \in T
<1>1. \E x \in T : \A y \in T : x <= y
  BY KeyStoreAssumption, LeastNat
<1> QED BY <1>1 DEF Min

-----------------------------------------------------------------------------
(* The socket of ss-manager *)

LEMMA NoEntry ==
    /\ None \notin Entry /\ None \notin Keys /\ None \notin {API, CLI} /\ None \notin Password /\ None \notin Ip
    /\ None \notin Reply
BY NoneAssumption, KeyStoreAssumption

LEMMA AnswersDiffer ==
    /\ Ok \in Reply /\ Err \in Reply /\ Timeout \in Reply /\ Ok # Timeout /\ Err # Ok /\ Err # Timeout
    /\ Timeout.res # "list" /\ Ok.res # "list" /\ \A r : r.res = "list" => r # Ok
BY DEF Ok, Err, Timeout, Reply

LEMMA Received ==
    ASSUME NEW box \in Seq(Request), NEW q \in Request
    PROVE  /\ Append(box, q) \in Seq(Request) /\ Len(box) \in Nat /\ Len(Append(box, q)) = Len(box) + 1
           /\ DOMAIN Append(box, q) = 1..(Len(box) + 1) /\ DOMAIN box = 1..Len(box)
           /\ Append(box, q)[Len(box) + 1] = q /\ \A i \in DOMAIN box : Append(box, q)[i] = box[i]
OBVIOUS

LEMMA Taken ==
    ASSUME inbox \in Seq(Request), inbox # << >>, inbox' = Tail(inbox)
    PROVE  /\ inbox' \in Seq(Request) /\ Head(inbox) \in Request /\ Len(inbox) \in Nat \ {0}
           /\ Head(inbox) = inbox[1] /\ 1 \in DOMAIN inbox /\ DOMAIN inbox = 1..Len(inbox)
           /\ Len(inbox') = Len(inbox) - 1 /\ DOMAIN inbox' = 1..(Len(inbox) - 1)
           /\ \A i \in DOMAIN inbox' : inbox'[i] = inbox[i + 1] /\ i + 1 \in DOMAIN inbox
           /\ Len(inbox) = 1 => inbox' = << >>
<1>1. Len(inbox) \in Nat /\ Len(inbox) # 0 /\ DOMAIN inbox = 1..Len(inbox)
  BY EmptySeq
<1>2. /\ inbox' \in Seq(Request) /\ Len(inbox') = Len(inbox) - 1
      /\ \A i \in 1..Len(inbox') : inbox'[i] = inbox[i + 1]
  BY HeadTailProperties
<1>3. Head(inbox) = inbox[1] /\ inbox[1] \in Request
  BY <1>1
<1>4. DOMAIN inbox' = 1..(Len(inbox) - 1)
  BY <1>2
<1>5. \A i \in DOMAIN inbox' : inbox'[i] = inbox[i + 1] /\ i + 1 \in DOMAIN inbox
  BY <1>1, <1>2, <1>4
<1>6. Len(inbox) = 1 => inbox' = << >>
  BY <1>2, EmptySeq
<1> QED BY <1>1, <1>2, <1>3, <1>4, <1>5, <1>6

LEMMA AbandonedIs ==
    ASSUME NEW w \in {API, CLI}, inbox \in Seq(Request)
    PROVE  /\ Abandoned(w) \in Seq(Request) /\ DOMAIN Abandoned(w) = DOMAIN inbox
           /\ Len(Abandoned(w)) = Len(inbox)
           /\ \A i \in DOMAIN inbox :
                 /\ Abandoned(w)[i].from = IF inbox[i].from = w THEN None ELSE inbox[i].from
                 /\ Abandoned(w)[i].act = inbox[i].act /\ Abandoned(w)[i].port = inbox[i].port
                 /\ Abandoned(w)[i].arg = inbox[i].arg
<1>1. Len(inbox) \in Nat /\ DOMAIN inbox = 1..Len(inbox)
  OBVIOUS
<1>2. ASSUME NEW i \in DOMAIN inbox
      PROVE  /\ Abandoned(w)[i] \in Request
             /\ Abandoned(w)[i].from = IF inbox[i].from = w THEN None ELSE inbox[i].from
             /\ Abandoned(w)[i].act = inbox[i].act /\ Abandoned(w)[i].port = inbox[i].port
             /\ Abandoned(w)[i].arg = inbox[i].arg
  <2>1. PICK q : q = inbox[i]
    OBVIOUS
  <2>2. q \in Request
    BY <2>1
  <2>3. PICK x : x = [q EXCEPT !.from = None]
    OBVIOUS
  <2>4. x \in Request /\ x.from = None /\ x.act = q.act /\ x.port = q.port /\ x.arg = q.arg
    BY <2>2, <2>3 DEF Request, Sender
  <2>5. Abandoned(w)[i] = IF q.from = w THEN x ELSE q
    BY <2>1, <2>3 DEF Abandoned
  <2> QED BY <2>1, <2>2, <2>4, <2>5
<1>3. DOMAIN Abandoned(w) = 1..Len(inbox)
  BY <1>1 DEF Abandoned
<1>4. Abandoned(w) \in [1..Len(inbox) -> Request]
  BY <1>1, <1>2 DEF Abandoned
<1>5. Abandoned(w) \in Seq(Request) /\ Len(Abandoned(w)) = Len(inbox)
  BY <1>1, <1>3, <1>4
<1> QED BY <1>1, <1>2, <1>3, <1>5

\* Where a port ends, when a request comes in.
LEMMA EndsReceived ==
    ASSUME NEW box \in Seq(Request), NEW q \in Request, NEW p \in Port, NEW v,
           Touches(q, p) => Gives(q, v), Touches(q, p) \/ EndsIn(box, p, v)
    PROVE  EndsIn(Append(box, q), p, v)
<1>0. PICK b : b = Append(box, q)
  OBVIOUS
<1>1. PICK n \in Nat : n = Len(box)
  OBVIOUS
<1>2. /\ DOMAIN b = 1..(n + 1) /\ DOMAIN box = 1..n /\ b[n + 1] = q /\ \A i \in 1..n : b[i] = box[i]
  BY <1>0, <1>1, Received
<1>3. ASSUME NEW i \in DOMAIN b, Touches(b[i], p), \A j \in DOMAIN b : j > i => ~Touches(b[j], p)
      PROVE  Gives(b[i], v)
  <2>1. CASE i = n + 1
    BY <1>2, <1>3, <2>1
  <2>2. CASE i # n + 1
    <3>1. i \in 1..n /\ n + 1 > i /\ n + 1 \in DOMAIN b
      BY <1>2, <2>2
    <3>2. ~Touches(q, p)
      BY <1>2, <1>3, <3>1
    <3>3. \A j \in 1..n : j > i => ~Touches(box[j], p)
      BY <1>2, <1>3
    <3> QED BY <1>2, <1>3, <3>1, <3>2, <3>3 DEF EndsIn
  <2> QED BY <2>1, <2>2
<1>4. ASSUME \A i \in DOMAIN b : ~Touches(b[i], p) PROVE table[p] \in {None, v}
  <2>1. ~Touches(q, p) /\ \A i \in 1..n : ~Touches(box[i], p)
    BY <1>2, <1>4
  <2> QED BY <1>2, <2>1 DEF EndsIn
<1> QED BY <1>0, <1>3, <1>4 DEF EndsIn

\* Who asked does not matter.
LEMMA EndsAbandoned ==
    ASSUME NEW w \in {API, CLI}, inbox \in Seq(Request), NEW p, NEW v, Ends(p, v)
    PROVE  EndsIn(Abandoned(w), p, v)
<1>1. PICK b : b = Abandoned(w)
  OBVIOUS
<1>2. DOMAIN b = DOMAIN inbox
  BY <1>1, AbandonedIs
<1>3. \A i \in DOMAIN inbox : b[i].act = inbox[i].act /\ b[i].port = inbox[i].port /\ b[i].arg = inbox[i].arg
  BY <1>1, AbandonedIs
<1>4. \A i \in DOMAIN inbox : (Touches(b[i], p) <=> Touches(inbox[i], p)) /\ (Gives(b[i], v) <=> Gives(inbox[i], v))
  BY <1>3 DEF Touches, Gives
<1> QED BY <1>1, <1>2, <1>4 DEF Ends, EndsIn

LEMMA EndsSame ==
    ASSUME NEW p, NEW v, Ends(p, v), table' = table, inbox' = inbox
    PROVE  Ends(p, v)'
BY DEF Ends, EndsIn

\* A port that ends unserved is not served with any password either.
LEMMA EndsNone ==
    ASSUME Socket, Kinds, NEW p \in Port, NEW v, Ends(p, None)
    PROVE  Ends(p, v)
<1>1. \A i \in DOMAIN inbox : inbox[i] \in Request
  BY DEF Socket
<1>2. ASSUME NEW i \in DOMAIN inbox, Touches(inbox[i], p), Gives(inbox[i], None) PROVE Gives(inbox[i], v)
  BY <1>1, <1>2, NoEntry DEF Touches, Gives, Request
<1> QED BY <1>2 DEF Ends, EndsIn

-----------------------------------------------------------------------------
(* Steps of one program *)

LEMMA Moved ==
    ASSUME Programs, NEW w \in Worker, NEW j \in Job, job' = [job EXCEPT ![w] = j],
           mem' \in [Worker -> Keys], \A v \in Worker \ {w} : mem'[v] = mem[v],
           reply' \in [Worker -> Reply \cup {None}], \A v \in Worker \ {w} : reply'[v] = reply[v],
           Local(j, mem'[w], reply'[w])
    PROVE  Programs' /\ Worker' = Worker /\ job'[w] = j /\ \A v \in Worker \ {w} : job'[v] = job[v]
<1>1. Worker' = Worker /\ job'[w] = j /\ (\A v \in Worker \ {w} : job'[v] = job[v]) /\ job' \in [Worker -> Job]
  BY DEF Worker, Programs
<1>2. \A v \in Worker : Local(job'[v], mem'[v], reply'[v])
  <2> TAKE v \in Worker
  <2>1. CASE v = w
    BY <1>1, <2>1
  <2>2. CASE v # w
    BY <1>1, <2>2 DEF Programs
  <2> QED BY <2>1, <2>2
<1>3. Programs' <=> /\ Worker' \subseteq {API, CLI} /\ job' \in [Worker' -> Job] /\ mem' \in [Worker' -> Keys]
                    /\ reply' \in [Worker' -> Reply \cup {None}]
                    /\ \A v \in Worker' : Local(job'[v], mem'[v], reply'[v])
  BY DEF Programs, Local, Used
<1> QED BY <1>1, <1>2, <1>3 DEF Programs

\* With the same keys and no answer at hand.
LEMMA MovedOn ==
    ASSUME Programs, NEW w \in Worker, NEW j \in Job, job' = [job EXCEPT ![w] = j], mem' = mem,
           reply' = [reply EXCEPT ![w] = None], Local(j, mem[w], None)
    PROVE  Programs' /\ Worker' = Worker /\ job'[w] = j /\ reply'[w] = None /\ \A v \in Worker \ {w} : job'[v] = job[v]
<1>1. /\ mem' \in [Worker -> Keys] /\ reply' \in [Worker -> Reply \cup {None}] /\ reply'[w] = None
      /\ \A v \in Worker \ {w} : reply'[v] = reply[v]
  BY DEF Programs
<1>2. Local(j, mem'[w], reply'[w])
  BY <1>1
<1> QED BY <1>1, <1>2, Moved

LEMMA BoxGrows ==
    ASSUME Socket, NEW w \in Worker, Worker \subseteq {API, CLI}, Worker' = Worker, NEW q \in Request, q.from = w,
           inbox' \in {Append(inbox, q), Append(Abandoned(w), q)}
    PROVE  Socket'
<1>1. ASSUME NEW box \in Seq(Request), \A i \in DOMAIN box : box[i].from \in Worker \cup {None}, inbox' = Append(box, q)
      PROVE  Socket'
  <2>1. /\ inbox' \in Seq(Request) /\ Len(box) \in Nat /\ DOMAIN inbox' = 1..(Len(box) + 1) /\ DOMAIN box = 1..Len(box)
        /\ inbox'[Len(box) + 1] = q /\ \A i \in DOMAIN box : inbox'[i] = box[i]
    BY <1>1, Received
  <2>2. ASSUME NEW i \in DOMAIN inbox' PROVE inbox'[i].from \in Worker' \cup {None}
    <3>1. i = Len(box) + 1 \/ i \in DOMAIN box
      BY <2>1
    <3> QED BY <1>1, <2>1, <3>1
  <2> QED BY <2>1, <2>2 DEF Socket
<1>2. CASE inbox' = Append(inbox, q)
  BY <1>1, <1>2 DEF Socket
<1>3. CASE inbox' = Append(Abandoned(w), q)
  <2>1. w \in {API, CLI} /\ inbox \in Seq(Request) /\ \A i \in DOMAIN inbox : inbox[i].from \in Worker \cup {None}
    BY DEF Socket
  <2>2. Abandoned(w) \in Seq(Request) /\ \A i \in DOMAIN Abandoned(w) : Abandoned(w)[i].from \in Worker \cup {None}
    BY <2>1, AbandonedIs
  <2> QED BY <1>1, <1>3, <2>2
<1> QED BY <1>2, <1>3

LEMMA LoadIs ==
    ASSUME Kinds
    PROVE  /\ Load(disk) \in Keys /\ Empty \in Keys /\ (disk # None => Load(disk) = disk)
           /\ \A p \in Port : Empty[p] = None
BY NoEntry DEF Load, Empty, Keys, Kinds

\* The program that is at work is the one the invariant speaks of.
LEMMA Handover ==
    ASSUME Typed, NEW u \in {API, CLI}, Good(u), NEW w \in Worker, Only(w)
    PROVE  Good(w)
<1>1. CASE u = w
  BY <1>1
<1>2. CASE u # w
  <2>1. ~Busy(u) /\ ~Busy(w) /\ u \in Worker
    BY <1>2 DEF Good, Only
  <2>2. ~Works(u, "save") /\ ~Works(w, "save") /\ Now(u) = Now(w)
    BY <2>1 DEF Busy, Works, Now
  <2>3. Loaded(w) /\ JobInv(w) /\ SyncInv(w)
    BY <2>1 DEF Busy, Works, Loaded, JobInv, Deleting, SyncInv, Syncing
  <2> QED BY <2>2, <2>3 DEF Good
<1> QED BY <1>1, <1>2

LEMMA Working ==
    ASSUME NEW u \in {API, CLI}, Good(u), NEW w \in Worker, Busy(w)
    PROVE  Good(w)
BY DEF Good, Only

\* Another program is in the same state as before.
LEMMA OthersRest ==
    ASSUME NEW w \in Worker, Only(w), Worker' = Worker, \A v \in Worker \ {w} : job'[v] = job[v]
    PROVE  Only(w)'
BY DEF Only, Busy, Worker

\* What is kept stays so when a request comes in.
LEMMA KeptReceived ==
    ASSUME Typed, NEW S \in Keys, NEW box \in Seq(Request), NEW q \in Request, inbox' = Append(box, q), table' = table,
           \A p \in Port : \A v : Ends(p, v) => EndsIn(box, p, v),
           Kept(S), torn' = torn, gone' \subseteq gone, mistaken \subseteq mistaken',
           \A p \in Port : promised'[p] \in {promised[p], None},
           q.act = "add" => q.port \notin gone' \ mistaken' /\ (S[q.port] # None => q.arg = S[q.port].password)
    PROVE  Kept(S)'
<1> SUFFICES ASSUME NEW p \in Port
             PROVE  /\ S[p] # None => Ends(p, S[p].password)'
                    /\ p \in gone' \ mistaken' => S[p] = None /\ Ends(p, None)'
                    /\ ~torn' /\ p \notin mistaken' /\ promised'[p] # None =>
                           S[p] # None /\ S[p].password = promised'[p]
  BY DEF Kept
<1>1. ASSUME NEW v, Ends(p, v), Touches(q, p) => Gives(q, v) PROVE Ends(p, v)'
  <2>1. EndsIn(box, p, v)
    BY <1>1
  <2>2. EndsIn(inbox', p, v)
    BY <1>1, <2>1, EndsReceived
  <2>3. Ends(p, v)' <=> EndsIn(inbox', p, v)
    BY DEF Ends, EndsIn
  <2> QED BY <2>2, <2>3
<1>2. ASSUME S[p] # None PROVE Ends(p, S[p].password)'
  <2>1. Touches(q, p) => Gives(q, S[p].password)
    BY <1>2 DEF Touches, Gives
  <2>2. Ends(p, S[p].password)
    BY <1>2 DEF Kept
  <2> QED BY <1>1, <2>1, <2>2
<1>3. ASSUME p \in gone' \ mistaken' PROVE S[p] = None /\ Ends(p, None)'
  <2>1. S[p] = None /\ Ends(p, None)
    BY <1>3 DEF Kept
  <2>2. Touches(q, p) => Gives(q, None)
    BY <1>3 DEF Touches, Gives
  <2> QED BY <1>1, <2>1, <2>2
<1>4. ASSUME ~torn', p \notin mistaken', promised'[p] # None PROVE S[p] # None /\ S[p].password = promised'[p]
  <2>1. promised[p] = promised'[p] /\ p \notin mistaken /\ ~torn
    BY <1>4
  <2> QED BY <2>1, <1>4 DEF Kept
<1> QED BY <1>2, <1>3, <1>4

\* A program asks ss-manager, and nothing else changes.
LEMMA Asking ==
    ASSUME Typed, NEW w \in Worker, Good(w), mem[w] = Load(disk),
           NEW j \in Job, j.op \in Waiting, Local(j, mem[w], None), NEW q \in Request, q.from = w,
           job' = [job EXCEPT ![w] = j], inbox' = Append(inbox, q), reply' = [reply EXCEPT ![w] = None],
           UNCHANGED <<mem, disk, table, torn>>, gone' \subseteq gone, mistaken \subseteq mistaken',
           \A p \in Port : promised'[p] \in {promised[p], None}, ~Works(w, "save"),
           q.act = "add" => q.port \notin gone' \ mistaken' /\ (mem[w][q.port] # None => q.arg = mem[w][q.port].password)
    PROVE  w \in Worker' /\ Only(w)' /\ Loaded(w)' /\ Kept(Now(w))' /\ Fresh'
<1>1. Programs' /\ Worker' = Worker /\ job'[w] = j /\ reply'[w] = None /\ \A v \in Worker \ {w} : job'[v] = job[v]
  BY MovedOn DEF Typed
<1>2. j.op \notin {"idle", "exited", "save"}
  BY DEF Waiting
<1>3. Only(w)'
  BY <1>1, OthersRest DEF Good
<1>4. Loaded(w)'
  BY <1>1, <1>2 DEF Loaded, Works, Load
<1>5. Kept(Now(w))'
  <2>1. Now(w) = Load(disk) /\ Now(w)' = Load(disk)
    BY <1>1, <1>2 DEF Now, Works, Load
  <2>2. Load(disk) \in Keys /\ Kept(Load(disk)) /\ inbox \in Seq(Request)
    BY <2>1, LoadIs DEF Typed, Good, Socket
  <2>3. \A p \in Port : \A v : Ends(p, v) => EndsIn(inbox, p, v)
    BY DEF Ends
  <2>4. PICK S \in Keys : S = Load(disk)
    BY <2>2
  <2>5. Kept(S)'
    BY <2>2, <2>3, <2>4, KeptReceived
  <2> QED BY <2>1, <2>4, <2>5 DEF Kept
<1>6. Fresh'
  <2> SUFFICES ASSUME CLI \in Worker, job'[CLI].op = "idle", NEW i \in DOMAIN inbox'
               PROVE  inbox'[i].from # CLI
    BY <1>1 DEF Fresh, Works
  <2>1. w # CLI /\ job[CLI].op = "idle"
    BY <1>1, <1>2
  <2>2. \A k \in DOMAIN inbox : inbox[k].from # CLI
    BY <2>1 DEF Good, Fresh, Works
  <2>3. inbox \in Seq(Request)
    BY DEF Typed, Socket
  <2> QED BY <2>1, <2>2, <2>3, Received
<1> QED BY <1>1, <1>3, <1>4, <1>5, <1>6

\* A program goes on with the same keys and asks nothing.
LEMMA GoingOn ==
    ASSUME Typed, NEW w \in Worker, Good(w), mem[w] = Load(disk),
           NEW j \in Job, j.op \notin {"idle", "save"}, Local(j, mem[w], None),
           job' = [job EXCEPT ![w] = j], reply' = [reply EXCEPT ![w] = None],
           UNCHANGED <<mem, disk, inbox, table, torn, gone, mistaken, promised>>, ~Works(w, "save")
    PROVE  w \in Worker' /\ Only(w)' /\ Loaded(w)' /\ Kept(Now(w))' /\ Fresh'
<1>1. Programs' /\ Worker' = Worker /\ job'[w] = j /\ reply'[w] = None /\ \A v \in Worker \ {w} : job'[v] = job[v]
  BY MovedOn DEF Typed
<1>2. Only(w)'
  BY <1>1, OthersRest DEF Good
<1>3. Loaded(w)'
  BY <1>1 DEF Loaded, Works, Load
<1>4. Kept(Now(w))'
  <2>1. Now(w) = Load(disk) /\ Now(w)' = Load(disk)
    BY <1>1 DEF Now, Works, Load
  <2> QED BY <2>1 DEF Good, Kept, Ends, EndsIn
<1>5. Fresh'
  BY <1>1 DEF Good, Fresh, Works
<1> QED BY <1>1, <1>2, <1>3, <1>4, <1>5

LEMMA SocketSame ==
    ASSUME Socket, Worker' = Worker, inbox' = inbox
    PROVE  Socket'
BY DEF Socket

\* The end of an operation that stored nothing.
LEMMA GiveUpStep ==
    ASSUME Typed, NEW w \in Worker, ~Works(w, "save"), Done(w), reply' \in {reply, [reply EXCEPT ![w] = None]}, reply'[w] = None,
           UNCHANGED <<disk, inbox, table, lockfile, status, promised, gone, mistaken, torn, stale>>, crossed' \in BOOLEAN
    PROVE  Typed' /\ (Good(w) => Good(w)')
<1>0. w \in {API, CLI} /\ API # CLI
  BY DEF Typed, Programs, API, CLI
<1>1. PICK j : j = IF w = CLI THEN Exited ELSE Idle
  OBVIOUS
<1>2. j \in Job /\ job' = [job EXCEPT ![w] = j] /\ j.op \in {"idle", "exited"} /\ (w = CLI => j.op # "idle")
  BY <1>1 DEF Done, Job, Exited, Idle
<1>3. mem' \in [Worker -> Keys] /\ \A v \in Worker \ {w} : mem'[v] = mem[v]
  BY LoadIs DEF Done, Typed, Programs
<1>4. reply' \in [Worker -> Reply \cup {None}] /\ \A v \in Worker \ {w} : reply'[v] = reply[v]
  BY DEF Typed, Programs
<1>5. Local(j, mem'[w], reply'[w])
  BY <1>2 DEF Local, Syncing
<1>6. Programs' /\ Worker' = Worker /\ job'[w] = j /\ \A v \in Worker \ {w} : job'[v] = job[v]
  BY <1>2, <1>3, <1>4, <1>5, Moved DEF Typed
<1>7. Typed'
  BY <1>6, SocketSame DEF Typed, Kinds
<1>8. ASSUME Good(w) PROVE Good(w)'
  <2>1. Only(w)'
    BY <1>6, <1>8, OthersRest DEF Good
  <2>2. Loaded(w)' /\ JobInv(w)' /\ SyncInv(w)'
    BY <1>2, <1>6 DEF Loaded, Works, Busy, JobInv, Deleting, SyncInv, Syncing
  <2>3. Kept(Now(w))'
    <3>1. Now(w) = Load(disk) /\ Now(w)' = Load(disk)
      BY <1>2, <1>6 DEF Now, Works, Load
    <3> QED BY <1>8, <3>1 DEF Good, Kept, Ends, EndsIn
  <2>4. Fresh'
    BY <1>0, <1>2, <1>6, <1>8 DEF Good, Fresh, Works
  <2> QED BY <1>6, <2>1, <2>2, <2>3, <2>4 DEF Good
<1> QED BY <1>7, <1>8

\* The store is changed at one port.
LEMMA StoreStep ==
    ASSUME Typed, NEW w \in Worker, NEW p \in Port, NEW e \in Entry \cup {None}, NEW asked \in Port,
           NEW done \in {"created", "deleted", "changed"}, done = "created" => e # None, Store(w, p, e, done, asked),
           UNCHANGED <<table, lockfile, status, promised, gone, mistaken, torn, stale>>, crossed' \in BOOLEAN
    PROVE  /\ Typed'
           /\ /\ Good(w) /\ mem[w] = Load(disk) /\ ~Works(w, "save")
              /\ e # None => Ends(p, e.password)
              /\ p \in gone \ mistaken => e = None
              /\ ~torn /\ p \notin mistaken /\ promised[p] # None => e # None /\ e.password = promised[p]
              /\ done = "deleted" => /\ e = None /\ Ends(p, None) /\ promised[asked] = None
                                     /\ p = asked \/ (p \in mistaken /\ asked \in mistaken)
              => Good(w)'
<1>1. PICK j : j = [op |-> "save", port |-> p, done |-> done, asked |-> asked]
  OBVIOUS
<1>2. j \in Job /\ job' = [job EXCEPT ![w] = j] /\ j.op = "save" /\ j.port = p /\ j.done = done /\ j.asked = asked
  BY <1>1 DEF Job, Store
<1>3. /\ mem[w] \in Keys /\ mem' = [mem EXCEPT ![w][p] = e] /\ disk' = None /\ inbox' = inbox
      /\ reply' = [reply EXCEPT ![w] = None] /\ w \in {API, CLI}
  BY DEF Typed, Programs, Store, NoAsk
<1>4. PICK M : M = [mem[w] EXCEPT ![p] = e]
  OBVIOUS
<1>5. M \in Keys /\ M[p] = e /\ \A k \in Port \ {p} : M[k] = mem[w][k]
  BY <1>3, <1>4 DEF Keys
<1>6. mem' \in [Worker -> Keys] /\ mem'[w] = M /\ \A v \in Worker \ {w} : mem'[v] = mem[v]
  BY <1>3, <1>4, <1>5 DEF Typed, Programs
<1>7. /\ reply' \in [Worker -> Reply \cup {None}] /\ reply'[w] = None
      /\ \A v \in Worker \ {w} : reply'[v] = reply[v]
  BY <1>3 DEF Typed, Programs
<1>8. Local(j, mem'[w], reply'[w])
  BY <1>2, <1>5, <1>6, <1>7 DEF Local, Syncing
<1>9. Programs' /\ Worker' = Worker /\ job'[w] = j /\ \A v \in Worker \ {w} : job'[v] = job[v]
  BY <1>2, <1>6, <1>7, <1>8, Moved DEF Typed
<1>10. Typed'
  BY <1>3, <1>9, SocketSame DEF Typed, Kinds
<1>11. ASSUME Good(w), mem[w] = Load(disk), ~Works(w, "save"),
              e # None => Ends(p, e.password), p \in gone \ mistaken => e = None,
              ~torn /\ p \notin mistaken /\ promised[p] # None => e # None /\ e.password = promised[p],
              done = "deleted" => /\ e = None /\ Ends(p, None) /\ promised[asked] = None
                                  /\ p = asked \/ (p \in mistaken /\ asked \in mistaken)
       PROVE  Good(w)'
  <2>1. Only(w)'
    BY <1>9, <1>11, OthersRest DEF Good
  <2>2. Loaded(w)' /\ SyncInv(w)'
    BY <1>2, <1>3, <1>9 DEF Loaded, Works, SyncInv, Syncing
  <2>3. Kept(mem[w])
    BY <1>11 DEF Good, Now
  <2>4. \A k \in Port : \A v : Ends(k, v) <=> Ends(k, v)'
    BY <1>3 DEF Ends, EndsIn
  <2>5. Kept(Now(w))'
    <3>1. Now(w)' = M
      BY <1>2, <1>6, <1>9 DEF Now, Works
    <3> SUFFICES ASSUME NEW k \in Port
                 PROVE  /\ M[k] # None => Ends(k, M[k].password)
                        /\ k \in gone \ mistaken => M[k] = None /\ Ends(k, None)
                        /\ ~torn /\ k \notin mistaken /\ promised[k] # None =>
                               M[k] # None /\ M[k].password = promised[k]
      BY <2>4, <3>1 DEF Kept
    <3>2. CASE k = p
      BY <1>5, <1>11, <2>3, <3>2 DEF Kept
    <3>3. CASE k # p
      BY <1>5, <2>3, <3>3 DEF Kept
    <3> QED BY <3>2, <3>3
  <2>6. JobInv(w)'
    BY <1>2, <1>5, <1>6, <1>9, <1>11, <2>4 DEF JobInv, Deleting
  <2>7. Fresh'
    BY <1>2, <1>3, <1>9, <1>11 DEF Good, Fresh, Works
  <2> QED BY <1>9, <2>1, <2>2, <2>5, <2>6, <2>7 DEF Good
<1> QED BY <1>10, <1>11

-----------------------------------------------------------------------------
(* The operations *)

LEMMA JobTyped ==
    ASSUME Typed, NEW w \in Worker
    PROVE  /\ job[w] \in Job /\ mem[w] \in Keys /\ reply[w] \in Reply \cup {None} /\ w \in {API, CLI}
           /\ Local(job[w], mem[w], reply[w]) /\ inbox \in Seq(Request)
BY DEF Typed, Programs, Socket

\* A first step that does not cross another's work.
LEMMA Begins ==
    ASSUME Typed, NEW w \in Worker, NEW keys, Begin(w, keys)
    PROVE  crossed' \in BOOLEAN /\ (~crossed' => ~crossed /\ keys = Load(disk) /\ Only(w))
BY DEF Begin, Only, Typed, Kinds

LEMMA AddKeyStep ==
    ASSUME Typed, NEW w \in Worker, NEW n \in Name, NEW p \in Port, NEW pw \in Password, AddKey(w, n, p, pw)
    PROVE  Typed' /\ (Good(w) /\ ~crossed' => Good(w)')
<1>1. PICK q : q = [from |-> w, act |-> "add", port |-> p, arg |-> pw]
  OBVIOUS
<1>2. PICK j : j = [op |-> "add", port |-> p, name |-> Strip[n], arg |-> pw]
  OBVIOUS
<1>3. /\ job' = [job EXCEPT ![w] = j] /\ inbox' = Append(inbox, q) /\ reply' = [reply EXCEPT ![w] = None]
      /\ UNCHANGED <<mem, disk, table, lockfile, status, promised, mistaken, torn, stale>> /\ gone' = gone \ {p}
      /\ mem[w][p] = None /\ ~Works(w, "save")
  BY <1>1, <1>2 DEF AddKey, Ask, Send, Asked, Works, AllocatePort, Used, files
<1>4. w \in {API, CLI} /\ crossed' \in BOOLEAN /\ (~crossed' => mem[w] = Load(disk))
  BY Begins, JobTyped DEF AddKey
<1>5. q \in Request /\ q.from = w /\ q.act = "add" /\ q.port = p /\ q.arg = pw
  BY <1>1, <1>4 DEF Request, Sender
<1>6. j \in Job /\ j.op = "add" /\ j.port = p /\ j.arg = pw /\ Local(j, mem[w], None)
  BY <1>2, KeyStoreAssumption DEF Job, Local, Syncing
<1>7. Programs' /\ Worker' = Worker /\ job'[w] = j
  BY <1>3, <1>6, MovedOn DEF Typed
<1>8. Socket'
  BY <1>3, <1>4, <1>5, <1>7, BoxGrows DEF Typed, Programs
<1>9. Typed'
  BY <1>3, <1>4, <1>7, <1>8 DEF Typed, Kinds
<1>10. ASSUME Good(w), ~crossed' PROVE Good(w)'
  <2>1. j.op \in Waiting
    BY <1>6 DEF Waiting
  <2>2. w \in Worker' /\ Only(w)' /\ Loaded(w)' /\ Kept(Now(w))' /\ Fresh'
    BY <1>3, <1>4, <1>5, <1>6, <1>10, <2>1, Asking
  <2>3. Ends(p, pw)'
    <3>1. EndsIn(Append(inbox, q), p, pw)
      BY <1>5, JobTyped, EndsReceived DEF Touches, Gives
    <3>2. Ends(p, pw)' <=> EndsIn(inbox', p, pw)
      BY <1>3 DEF Ends, EndsIn
    <3> QED BY <1>3, <3>1, <3>2
  <2>4. JobInv(w)'
    BY <1>3, <1>6, <1>7, <2>3 DEF JobInv, Deleting
  <2>5. SyncInv(w)'
    BY <1>6, <1>7 DEF SyncInv, Syncing, Works
  <2> QED BY <2>2, <2>4, <2>5 DEF Good
<1> QED BY <1>9, <1>10

\* What a job that waits for an answer knows.
LEMMA AtWork ==
    ASSUME Typed, NEW w \in Worker, NEW op, Answered(w, op), op \notin {"idle", "exited", "save"}
    PROVE  /\ job[w].op = op /\ reply[w] # None /\ reply[w] \in Reply /\ ~Works(w, "save") /\ Busy(w)
           /\ Good(w) => mem[w] = Load(disk) /\ Kept(Load(disk))
<1>1. job[w].op = op /\ reply[w] # None /\ reply[w] \in Reply /\ ~Works(w, "save") /\ Busy(w)
  BY JobTyped DEF Answered, Works, Busy
<1> QED BY <1>1 DEF Good, Loaded, Now

LEMMA AddRepliedStep ==
    ASSUME Typed, NEW w \in Worker, AddReplied(w)
    PROVE  Typed' /\ (Good(w) => Good(w)')
<1>1. /\ job[w].op = "add" /\ ~Works(w, "save") /\ (Good(w) => mem[w] = Load(disk) /\ Kept(Load(disk)))
      /\ UNCHANGED <<table, lockfile, status, promised, gone, mistaken, torn, stale, crossed>>
  BY AtWork DEF AddReplied, files, ghosts
<1>2. PICK p : p = job[w].port
  OBVIOUS
<1>3. PICK e : e = [name |-> job[w].name, password |-> job[w].arg, locked_ip |-> None]
  OBVIOUS
<1>4. p \in Port /\ job[w].name \in Name /\ job[w].arg \in Password
  BY <1>1, <1>2, JobTyped DEF Job, Exited, Idle
<1>5. e \in Entry /\ e # None /\ e.password = job[w].arg
  BY <1>3, <1>4, NoEntry DEF Entry
<1>6. crossed' \in BOOLEAN
  BY <1>1 DEF Typed, Kinds
<1>7. CASE reply[w] = Ok
  <2>1. Store(w, p, e, "created", p)
    BY <1>2, <1>3, <1>7 DEF AddReplied
  <2>2. ASSUME Good(w)
        PROVE  Ends(p, e.password) /\ p \notin gone /\ mem[w][p] = None
    BY <1>1, <1>2, <1>5, <2>2 DEF Good, JobInv
  <2>3. ASSUME Good(w), ~torn, p \notin mistaken PROVE promised[p] = None
    BY <1>1, <1>4, <2>2, <2>3 DEF Kept
  <2> QED BY <1>1, <1>4, <1>5, <1>6, <2>1, <2>2, <2>3, StoreStep
<1>8. CASE reply[w] # Ok
  <2>1. GiveUp(w)
    BY <1>8 DEF AddReplied
  <2>2. Done(w) /\ reply' = [reply EXCEPT ![w] = None] /\ UNCHANGED <<disk, inbox>> /\ reply'[w] = None
    BY <2>1 DEF GiveUp, NoAsk, Typed, Programs
  <2> QED BY <1>1, <1>6, <2>2, GiveUpStep
<1> QED BY <1>7, <1>8

LEMMA DeleteFoundStep ==
    ASSUME Typed, NEW w \in Worker, NEW p \in Port, NEW asked \in Port, DeleteFound(w, p, asked), Works(w, "idle")
    PROVE  Typed' /\ (Good(w) /\ ~crossed' => Good(w)')
<1>1. PICK q : q = [from |-> w, act |-> "clear_ip", port |-> p, arg |-> None]
  OBVIOUS
<1>2. PICK j : j = [op |-> "clear", port |-> p, asked |-> asked]
  OBVIOUS
<1>3. /\ job' = [job EXCEPT ![w] = j] /\ inbox' = Append(inbox, q) /\ reply' = [reply EXCEPT ![w] = None]
      /\ UNCHANGED <<mem, disk, table, lockfile, status, gone, torn, stale>> /\ ~Works(w, "save")
      /\ promised' = [promised EXCEPT ![asked] = None]
      /\ mistaken' = IF p = asked THEN mistaken ELSE mistaken \cup {p, asked}
  BY <1>1, <1>2 DEF DeleteFound, Ask, Send, Works, files
<1>4. w \in {API, CLI} /\ crossed' \in BOOLEAN /\ (~crossed' => mem[w] = Load(disk))
  BY Begins, JobTyped DEF DeleteFound
<1>5. q \in Request /\ q.from = w /\ q.act = "clear_ip"
  BY <1>1, <1>4 DEF Request, Sender
<1>6. j \in Job /\ j.op = "clear" /\ j.port = p /\ j.asked = asked /\ Local(j, mem[w], None) /\ j.op \in Waiting
  BY <1>2 DEF Job, Local, Syncing, Waiting
<1>7. Programs' /\ Worker' = Worker /\ job'[w] = j
  BY <1>3, <1>6, MovedOn DEF Typed
<1>8. Socket'
  BY <1>3, <1>4, <1>5, <1>7, BoxGrows DEF Typed, Programs
<1>9. /\ promised' \in [Port -> Password \cup {None}] /\ promised'[asked] = None
      /\ \A k \in Port : promised'[k] \in {promised[k], None}
  BY <1>3 DEF Typed, Kinds
<1>10. mistaken' \subseteq Port /\ mistaken \subseteq mistaken' /\ (p = asked \/ (p \in mistaken' /\ asked \in mistaken'))
  BY <1>3 DEF Typed, Kinds
<1>11. Typed'
  BY <1>3, <1>4, <1>7, <1>8, <1>9, <1>10 DEF Typed, Kinds
<1>12. ASSUME Good(w), ~crossed' PROVE Good(w)'
  <2>1. w \in Worker' /\ Only(w)' /\ Loaded(w)' /\ Kept(Now(w))' /\ Fresh'
    BY <1>3, <1>4, <1>5, <1>6, <1>9, <1>10, <1>12, Asking
  <2>2. JobInv(w)'
    BY <1>6, <1>7, <1>9, <1>10 DEF JobInv, Deleting
  <2>3. SyncInv(w)'
    BY <1>6, <1>7 DEF SyncInv, Syncing, Works
  <2> QED BY <2>1, <2>2, <2>3 DEF Good
<1> QED BY <1>11, <1>12

LEMMA DeleteClearedStep ==
    ASSUME Typed, NEW w \in Worker, DeleteCleared(w)
    PROVE  Typed' /\ (Good(w) => Good(w)')
<1>1. /\ job[w].op = "clear" /\ ~Works(w, "save") /\ (Good(w) => mem[w] = Load(disk) /\ Kept(Load(disk)))
      /\ UNCHANGED <<mem, disk, table, lockfile, status, promised, gone, mistaken, torn, stale, crossed>>
  BY AtWork DEF DeleteCleared, files, ghosts
<1>2. PICK p : p = job[w].port
  OBVIOUS
<1>3. PICK asked : asked = job[w].asked
  OBVIOUS
<1>4. PICK j : j = [job[w] EXCEPT !.op = "remove"]
  OBVIOUS
<1>5. p \in Port /\ asked \in Port /\ job[w] \in [op : {"clear", "remove"}, port : Port, asked : Port] /\ w \in {API, CLI}
  BY <1>1, <1>2, <1>3, JobTyped DEF Job, Exited, Idle
<1>6. j \in Job /\ j.op = "remove" /\ j.port = p /\ j.asked = asked /\ Local(j, mem[w], None) /\ j.op \in Waiting
  <2>1. j \in [op : {"clear", "remove"}, port : Port, asked : Port] /\ j.op = "remove" /\ j.port = p /\ j.asked = asked
    BY <1>2, <1>3, <1>4, <1>5
  <2> QED BY <2>1 DEF Job, Local, Syncing, Waiting
<1>7. PICK q : q = [from |-> w, act |-> "remove", port |-> p, arg |-> None]
  OBVIOUS
<1>8. q \in Request /\ q.from = w /\ q.act = "remove" /\ q.port = p
  BY <1>5, <1>7 DEF Request, Sender
<1>9. job' = [job EXCEPT ![w] = j] /\ inbox' = Append(inbox, q) /\ reply' = [reply EXCEPT ![w] = None]
  BY <1>2, <1>4, <1>7 DEF DeleteCleared, Ask, Send
<1>10. Programs' /\ Worker' = Worker /\ job'[w] = j
  BY <1>1, <1>6, <1>9, MovedOn DEF Typed
<1>11. Socket'
  BY <1>5, <1>8, <1>9, <1>10, BoxGrows DEF Typed, Programs
<1>12. Typed'
  BY <1>1, <1>10, <1>11 DEF Typed, Kinds
<1>13. ASSUME Good(w) PROVE Good(w)'
  <2>1. w \in Worker' /\ Only(w)' /\ Loaded(w)' /\ Kept(Now(w))' /\ Fresh'
    BY <1>1, <1>6, <1>8, <1>9, <1>13, Asking
  <2>2. Ends(p, None)'
    <3>1. EndsIn(Append(inbox, q), p, None)
      BY <1>5, <1>8, JobTyped, EndsReceived DEF Touches, Gives
    <3>2. Ends(p, None)' <=> EndsIn(inbox', p, None)
      BY <1>1 DEF Ends, EndsIn
    <3> QED BY <1>9, <3>1, <3>2
  <2>3. promised[asked] = None /\ (p = asked \/ (p \in mistaken /\ asked \in mistaken))
    BY <1>1, <1>2, <1>3, <1>13 DEF Good, JobInv
  <2>4. JobInv(w)'
    BY <1>1, <1>6, <1>10, <2>2, <2>3 DEF JobInv, Deleting
  <2>5. SyncInv(w)'
    BY <1>6, <1>10 DEF SyncInv, Syncing, Works
  <2> QED BY <2>1, <2>4, <2>5 DEF Good
<1> QED BY <1>12, <1>13

LEMMA GaveUp ==
    ASSUME Typed, NEW w \in Worker, GiveUp(w)
    PROVE  Done(w) /\ reply' = [reply EXCEPT ![w] = None] /\ UNCHANGED <<disk, inbox>> /\ reply'[w] = None
BY DEF GiveUp, NoAsk, Typed, Programs

LEMMA DeleteRepliedStep ==
    ASSUME Typed, NEW w \in Worker, DeleteReplied(w)
    PROVE  Typed' /\ (Good(w) => Good(w)')
<1>1. /\ job[w].op = "remove" /\ ~Works(w, "save") /\ (Good(w) => mem[w] = Load(disk) /\ Kept(Load(disk)))
      /\ UNCHANGED <<table, lockfile, status, promised, gone, mistaken, torn, stale, crossed>>
  BY AtWork DEF DeleteReplied, files, ghosts
<1>2. PICK p : p = job[w].port
  OBVIOUS
<1>3. PICK asked : asked = job[w].asked
  OBVIOUS
<1>4. p \in Port /\ asked \in Port
  BY <1>1, <1>2, <1>3, JobTyped DEF Job, Exited, Idle
<1>5. crossed' \in BOOLEAN
  BY <1>1 DEF Typed, Kinds
<1>6. CASE reply[w] = Ok
  <2>1. Store(w, p, None, "deleted", asked)
    BY <1>2, <1>3, <1>6 DEF DeleteReplied
  <2>2. ASSUME Good(w)
        PROVE  Ends(p, None) /\ promised[asked] = None /\ (p = asked \/ (p \in mistaken /\ asked \in mistaken))
    BY <1>1, <1>2, <1>3, <2>2 DEF Good, JobInv
  <2> QED BY <1>1, <1>4, <1>5, <2>1, <2>2, StoreStep
<1>7. CASE reply[w] # Ok
  <2>1. GiveUp(w)
    BY <1>7 DEF DeleteReplied
  <2> QED BY <1>1, <1>5, <2>1, GaveUp, GiveUpStep
<1> QED BY <1>6, <1>7

LEMMA AskLockStep ==
    ASSUME Typed, NEW w \in Worker, NEW p \in Port, NEW ip \in Ip \cup {None}, AskLock(w, p, ip), Works(w, "idle")
    PROVE  Typed' /\ (Good(w) /\ ~crossed' => Good(w)')
<1>1. PICK q : q = [from |-> w, act |-> IF ip = None THEN "clear_ip" ELSE "set_ip", port |-> p, arg |-> ip]
  OBVIOUS
<1>2. PICK j : j = [op |-> "lock", port |-> p, arg |-> ip]
  OBVIOUS
<1>3. /\ job' = [job EXCEPT ![w] = j] /\ inbox' = Append(inbox, q) /\ reply' = [reply EXCEPT ![w] = None]
      /\ UNCHANGED <<mem, disk, table, lockfile, status, promised, gone, mistaken, torn, stale>> /\ ~Works(w, "save")
  BY <1>1, <1>2 DEF AskLock, Ask, Send, Works, files
<1>4. w \in {API, CLI} /\ crossed' \in BOOLEAN /\ (~crossed' => mem[w] = Load(disk))
  BY Begins, JobTyped DEF AskLock
<1>5. q \in Request /\ q.from = w /\ q.act # "add"
  BY <1>1, <1>4 DEF Request, Sender
<1>6. j \in Job /\ j.op = "lock" /\ Local(j, mem[w], None) /\ j.op \in Waiting
  BY <1>2 DEF Job, Local, Syncing, Waiting
<1>7. Programs' /\ Worker' = Worker /\ job'[w] = j
  BY <1>3, <1>6, MovedOn DEF Typed
<1>8. Socket'
  BY <1>3, <1>4, <1>5, <1>7, BoxGrows DEF Typed, Programs
<1>9. Typed'
  BY <1>3, <1>4, <1>7, <1>8 DEF Typed, Kinds
<1>10. ASSUME Good(w), ~crossed' PROVE Good(w)'
  <2>1. w \in Worker' /\ Only(w)' /\ Loaded(w)' /\ Kept(Now(w))' /\ Fresh'
    BY <1>3, <1>4, <1>5, <1>6, <1>10, Asking
  <2>2. JobInv(w)' /\ SyncInv(w)'
    BY <1>6, <1>7 DEF JobInv, Deleting, SyncInv, Syncing, Works
  <2> QED BY <2>1, <2>2 DEF Good
<1> QED BY <1>9, <1>10

\* An entry is changed, but for its password.
LEMMA ChangeStep ==
    ASSUME Typed, NEW w \in Worker, ~Works(w, "save"), NEW p \in Port, NEW e \in Entry, mem[w][p] # None,
           e.password = mem[w][p].password, Store(w, p, e, "changed", p), crossed' \in BOOLEAN,
           UNCHANGED <<table, lockfile, status, promised, gone, mistaken, torn, stale>>
    PROVE  Typed' /\ (Good(w) /\ mem[w] = Load(disk) => Good(w)')
<1>1. ASSUME Good(w), mem[w] = Load(disk)
      PROVE  /\ Ends(p, e.password) /\ p \notin gone \ mistaken
             /\ ~torn /\ p \notin mistaken /\ promised[p] # None => e.password = promised[p]
  <2>1. Kept(mem[w])
    BY <1>1 DEF Good, Now
  <2> QED BY <2>1 DEF Kept
<1> QED BY <1>1, NoEntry, StoreStep

LEMMA LockRepliedStep ==
    ASSUME Typed, NEW w \in Worker, LockReplied(w)
    PROVE  Typed' /\ (Good(w) => Good(w)')
<1>1. /\ job[w].op = "lock" /\ ~Works(w, "save") /\ (Good(w) => mem[w] = Load(disk) /\ Kept(Load(disk)))
      /\ UNCHANGED <<table, lockfile, status, promised, gone, mistaken, torn, stale, crossed>>
  BY AtWork DEF LockReplied, files, ghosts
<1>2. PICK p : p = job[w].port
  OBVIOUS
<1>3. PICK e : e = [mem[w][p] EXCEPT !.locked_ip = job[w].arg]
  OBVIOUS
<1>4. p \in Port /\ job[w].arg \in Ip \cup {None} /\ mem[w] \in Keys
  BY <1>1, <1>2, JobTyped DEF Job, Exited, Idle
<1>5. crossed' \in BOOLEAN
  BY <1>1 DEF Typed, Kinds
<1>6. CASE reply[w] = Ok /\ mem[w][p] # None
  <2>1. Store(w, p, e, "changed", p)
    BY <1>2, <1>3, <1>6 DEF LockReplied
  <2>2. mem[w][p] \in Entry
    BY <1>4, <1>6 DEF Keys
  <2>3. e \in Entry /\ e.password = mem[w][p].password
    BY <1>3, <1>4, <2>2 DEF Entry
  <2> QED BY <1>1, <1>4, <1>5, <1>6, <2>1, <2>3, ChangeStep
<1>7. CASE ~(reply[w] = Ok /\ mem[w][p] # None)
  <2>1. GiveUp(w)
    BY <1>2, <1>7 DEF LockReplied
  <2> QED BY <1>1, <1>5, <2>1, GaveUp, GiveUpStep
<1> QED BY <1>6, <1>7

LEMMA PutNameStep ==
    ASSUME Typed, API \in Worker, NEW p \in Port, NEW n \in Name, PutName(p, n)
    PROVE  Typed' /\ (Good(API) /\ ~crossed' => Good(API)')
<1>1. ~Works(API, "save") /\ UNCHANGED <<table, lockfile, status, promised, gone, mistaken, torn, stale>>
  BY DEF PutName, Works, files
<1>2. mem[API] \in Keys /\ crossed' \in BOOLEAN /\ (~crossed' => mem[API] = Load(disk))
  BY Begins, JobTyped DEF PutName
<1>3. CASE p \in Used(mem[API])
  <2>1. mem[API][p] # None /\ mem[API][p] \in Entry
    BY <1>2, <1>3 DEF Used, Keys
  <2>2. PICK e : e = [mem[API][p] EXCEPT !.name = n]
    OBVIOUS
  <2>3. e \in Entry /\ e.password = mem[API][p].password
    BY <2>1, <2>2 DEF Entry
  <2>4. Store(API, p, e, "changed", p)
    BY <1>3, <2>2 DEF PutName
  <2> QED BY <1>1, <1>2, <2>1, <2>3, <2>4, ChangeStep
<1>4. CASE p \notin Used(mem[API])
  <2>1. GiveUp(API)
    BY <1>4 DEF PutName
  <2> QED BY <1>1, <1>2, <2>1, GaveUp, GiveUpStep
<1> QED BY <1>3, <1>4

\* The file is written and the operation reported.
LEMMA SaveStep ==
    ASSUME Typed, NEW w \in Worker, Save(w)
    PROVE  Typed' /\ (Good(w) => Good(w)')
<1>0. w \in {API, CLI} /\ API # CLI /\ mem[w] \in Keys /\ mem[w] # None /\ reply[w] = None
  BY JobTyped, NoEntry DEF API, CLI, Save, Works, Local, Waiting
<1>1. PICK o : o = job[w]
  OBVIOUS
<1>2. /\ o.op = "save" /\ o.port \in Port /\ o.asked \in Port /\ o.done \in {"created", "deleted", "changed"}
      /\ o.done = "created" => mem[w][o.port] # None
  BY <1>1, JobTyped DEF Save, Works, Job, Exited, Idle, Local
<1>3. /\ disk' = mem[w] /\ UNCHANGED <<inbox, reply, table, lockfile, status, mistaken, torn, stale, crossed>> /\ Done(w)
      /\ promised' = IF o.done = "created" THEN [promised EXCEPT ![o.port] = mem[w][o.port].password] ELSE promised
      /\ gone' = IF o.done = "deleted" THEN gone \cup {o.asked} ELSE gone
  BY <1>1 DEF Save, Report, files
<1>4. PICK j : j = IF w = CLI THEN Exited ELSE Idle
  OBVIOUS
<1>5. j \in Job /\ job' = [job EXCEPT ![w] = j] /\ j.op \in {"idle", "exited"} /\ (w = CLI => j.op # "idle")
  BY <1>3, <1>4 DEF Done, Job, Exited, Idle
<1>6. mem' \in [Worker -> Keys] /\ \A v \in Worker \ {w} : mem'[v] = mem[v]
  BY <1>3, LoadIs DEF Done, Typed, Programs
<1>7. Local(j, mem'[w], reply'[w])
  BY <1>0, <1>3, <1>5 DEF Local, Syncing
<1>8. Programs' /\ Worker' = Worker /\ job'[w] = j /\ \A v \in Worker \ {w} : job'[v] = job[v]
  <2>1. reply' \in [Worker -> Reply \cup {None}] /\ \A v \in Worker \ {w} : reply'[v] = reply[v]
    BY <1>3 DEF Typed, Programs
  <2> QED BY <1>5, <1>6, <1>7, <2>1, Moved DEF Typed
<1>9. promised' \in [Port -> Password \cup {None}] /\ gone' \subseteq Port
  <2>1. o.done = "created" => mem[w][o.port].password \in Password
    BY <1>0, <1>2 DEF Keys, Entry
  <2> QED BY <1>2, <1>3, <2>1 DEF Typed, Kinds
<1>10. Typed'
  BY <1>0, <1>3, <1>8, <1>9, SocketSame DEF Typed, Kinds
<1>11. ASSUME Good(w) PROVE Good(w)'
  <2>1. Only(w)'
    BY <1>8, <1>11, OthersRest DEF Good
  <2>2. Loaded(w)' /\ JobInv(w)' /\ SyncInv(w)'
    BY <1>5, <1>8 DEF Loaded, Works, Busy, JobInv, Deleting, SyncInv, Syncing
  <2>3. Fresh'
    BY <1>0, <1>3, <1>5, <1>8, <1>11 DEF Good, Fresh, Works
  <2>4. PICK M : M = mem[w]
    OBVIOUS
  <2>5. Kept(M) /\ JobInv(w)
    BY <1>1, <1>2, <1>11, <2>4 DEF Good, Now, Works
  <2>6. \A k \in Port : \A v : Ends(k, v) <=> Ends(k, v)'
    BY <1>3 DEF Ends, EndsIn
  <2>7. Now(w)' = M
    BY <1>0, <1>3, <1>5, <1>8, <2>4 DEF Now, Works, Load
  <2>8. o.done = "deleted" => /\ M[o.port] = None /\ Ends(o.port, None)
                              /\ o.port = o.asked \/ (o.port \in mistaken /\ o.asked \in mistaken)
    BY <1>1, <1>2, <2>4, <2>5 DEF JobInv, Deleting
  <2>9. ASSUME NEW k \in Port
        PROVE  /\ M[k] # None => Ends(k, M[k].password)
               /\ k \in gone' \ mistaken => M[k] = None /\ Ends(k, None)
               /\ ~torn /\ k \notin mistaken /\ promised'[k] # None => M[k] # None /\ M[k].password = promised'[k]
    <3>1. M[k] # None => Ends(k, M[k].password)
      BY <2>5 DEF Kept
    <3>2. k \in gone' \ mistaken => M[k] = None /\ Ends(k, None)
      <4>1. CASE k \in gone
        BY <2>5, <4>1 DEF Kept
      <4>2. CASE k \notin gone
        BY <1>3, <2>8, <4>2
      <4> QED BY <4>1, <4>2
    <3>3. ASSUME ~torn, k \notin mistaken, promised'[k] # None PROVE M[k] # None /\ M[k].password = promised'[k]
      <4>1. CASE o.done = "created" /\ k = o.port
        BY <1>2, <1>3, <2>4, <4>1 DEF Typed, Kinds
      <4>2. CASE ~(o.done = "created" /\ k = o.port)
        <5>1. promised'[k] = promised[k]
          BY <1>3, <4>2 DEF Typed, Kinds
        <5> QED BY <2>5, <3>3, <5>1 DEF Kept
      <4> QED BY <4>1, <4>2
    <3> QED BY <3>1, <3>2, <3>3
  <2>10. Kept(Now(w))'
    BY <1>3, <2>6, <2>7, <2>9 DEF Kept
  <2> QED BY <1>8, <2>1, <2>2, <2>3, <2>10 DEF Good
<1> QED BY <1>10, <1>11

-----------------------------------------------------------------------------
(* The synchronisation *)

\* The list is the only thing that was asked.
LEMMA ListAsked ==
    ASSUME NEW w \in Worker, NEW box \in Seq(Request), \A i \in DOMAIN box : box[i].from # w,
           NEW q \in Request, q.from = w, q.act = "list", inbox' = Append(box, q), reply'[w] = None, job'[w].op = "list"
    PROVE  SyncInv(w)'
<1>1. /\ Len(box) \in Nat /\ Len(inbox') = Len(box) + 1
      /\ DOMAIN inbox' = 1..(Len(box) + 1) /\ DOMAIN box = 1..Len(box)
      /\ inbox'[Len(box) + 1] = q /\ \A i \in DOMAIN box : inbox'[i] = box[i]
  BY Received
<1>2. ASSUME NEW i \in DOMAIN inbox', inbox'[i].from = w PROVE i = Len(inbox') /\ inbox'[i].act = "list"
  BY <1>1, <1>2
<1>3. job'[w].op \notin Syncing
  BY DEF Syncing
<1> QED BY <1>2, <1>3 DEF SyncInv

LEMMA ListRequest ==
    ASSUME NEW w \in {API, CLI}
    PROVE  /\ [from |-> w, act |-> "list", port |-> None, arg |-> None] \in Request
           /\ [op |-> "list"] \in Job /\ \A m : Local([op |-> "list"], m, None)
BY DEF Request, Sender, Job, Local, Syncing

LEMMA CliSyncStep ==
    ASSUME Typed, CLI \in Worker, CliSync
    PROVE  Typed' /\ (Good(CLI) /\ ~crossed' => Good(CLI)')
<1>1. PICK q : q = [from |-> CLI, act |-> "list", port |-> None, arg |-> None]
  OBVIOUS
<1>2. PICK j : j = [op |-> "list"]
  OBVIOUS
<1>3. /\ job' = [job EXCEPT ![CLI] = j] /\ inbox' = Append(inbox, q) /\ reply' = [reply EXCEPT ![CLI] = None]
      /\ UNCHANGED <<mem, disk, table, lockfile, status, promised, gone, mistaken, torn, stale>>
      /\ job[CLI].op = "idle" /\ ~Works(CLI, "save")
  BY <1>1, <1>2 DEF CliSync, SyncStart, Send, Asked, Works, files
<1>4. crossed' \in BOOLEAN /\ (~crossed' => mem[CLI] = Load(disk))
  BY Begins DEF CliSync
<1>5. q \in Request /\ q.from = CLI /\ q.act = "list" /\ j \in Job /\ Local(j, mem[CLI], None) /\ j.op = "list"
  BY <1>1, <1>2, ListRequest
<1>6. Programs' /\ Worker' = Worker /\ job'[CLI] = j /\ reply'[CLI] = None
  BY <1>3, <1>5, MovedOn DEF Typed
<1>7. Socket'
  BY <1>3, <1>5, <1>6, BoxGrows DEF Typed, Programs
<1>8. Typed'
  BY <1>3, <1>4, <1>6, <1>7 DEF Typed, Kinds
<1>9. ASSUME Good(CLI), ~crossed' PROVE Good(CLI)'
  <2>1. j.op \in Waiting
    BY <1>5 DEF Waiting
  <2>2. CLI \in Worker' /\ Only(CLI)' /\ Loaded(CLI)' /\ Kept(Now(CLI))' /\ Fresh'
    BY <1>3, <1>4, <1>5, <1>9, <2>1, Asking
  <2>3. JobInv(CLI)'
    BY <1>5, <1>6 DEF JobInv, Deleting
  <2>4. inbox \in Seq(Request) /\ \A i \in DOMAIN inbox : inbox[i].from # CLI
    BY <1>3, <1>9, JobTyped DEF Good, Fresh, Works
  <2>5. SyncInv(CLI)'
    BY <1>3, <1>5, <1>6, <2>4, ListAsked
  <2> QED BY <2>2, <2>3, <2>5 DEF Good
<1> QED BY <1>8, <1>9


LEMMA SyncTyped ==
    ASSUME Typed, NEW w \in Worker, job[w].op \in Syncing
    PROVE  /\ job[w].todo \subseteq Port /\ job[w].errors \in BOOLEAN /\ job[w].active \subseteq Port
           /\ job[w].todo \subseteq Used(mem[w])
           /\ job[w].op # "sync" => job[w].port \in Port /\ job[w].port \in job[w].todo
           /\ job[w].op \in Syncing => ~Works(w, "save") /\ Busy(w)
<1>1. job[w] \in Job /\ Local(job[w], mem[w], reply[w])
  BY JobTyped
<1>2. job[w].todo \subseteq Port /\ job[w].errors \in BOOLEAN /\ job[w].active \subseteq Port
  BY <1>1 DEF Job, Exited, Idle, Syncing
<1>3. /\ job[w].todo \subseteq Used(mem[w])
      /\ job[w].op # "sync" => job[w].port \in job[w].todo
  BY <1>1 DEF Local, Syncing
<1> QED BY <1>2, <1>3 DEF Works, Busy, Syncing

\* Reaching the keys of a program that synchronises.
LEMMA SyncLoaded ==
    ASSUME Typed, NEW w \in Worker, job[w].op \in Syncing \cup {"list"}, Good(w)
    PROVE  mem[w] = Load(disk) /\ Kept(mem[w])
BY DEF Good, Loaded, Busy, Works, Syncing, Now

LEMMA ListedStep ==
    ASSUME Typed, NEW w \in Worker, Listed(w)
    PROVE  Typed' /\ (Good(w) => Good(w)')
<1>1. /\ job[w].op = "list" /\ reply[w] # None /\ reply[w] \in Reply /\ ~Works(w, "save")
      /\ reply' = [reply EXCEPT ![w] = None]
      /\ UNCHANGED <<mem, disk, inbox, table, lockfile, status, promised, gone, mistaken, torn, stale, crossed>>
  BY AtWork DEF Listed, NoAsk, files, ghosts
<1>2. PICK A : A = IF reply[w].res = "list" THEN reply[w].ports ELSE {}
  OBVIOUS
<1>3. PICK j : j = [op |-> "sync", todo |-> Used(mem[w]), errors |-> FALSE, active |-> A]
  OBVIOUS
<1>4. job' = [job EXCEPT ![w] = j]
  BY <1>2, <1>3 DEF Listed
<1>5. A \subseteq Port
  BY <1>1, <1>2 DEF Reply
<1>6. j \in Job /\ j.op = "sync" /\ j.todo = Used(mem[w]) /\ ~j.errors /\ j.active = A /\ Local(j, mem[w], None)
  BY <1>3, <1>5 DEF Job, Local, Syncing, Used
<1>7. Programs' /\ Worker' = Worker /\ job'[w] = j /\ reply'[w] = None
  BY <1>1, <1>4, <1>6, MovedOn DEF Typed
<1>8. Typed'
  BY <1>1, <1>7, SocketSame DEF Typed, Kinds
<1>9. ASSUME Good(w) PROVE Good(w)'
  <2>1. mem[w] = Load(disk)
    BY <1>1, <1>9, SyncLoaded
  <2>2. w \in Worker' /\ Only(w)' /\ Loaded(w)' /\ Kept(Now(w))' /\ Fresh'
    BY <1>1, <1>4, <1>6, <1>9, <2>1, GoingOn
  <2>3. JobInv(w)'
    BY <1>6, <1>7 DEF JobInv, Deleting
  <2>4. /\ \A i \in DOMAIN inbox : inbox[i].from = w => inbox[i].act = "list"
        /\ reply[w] # Timeout => inbox = << >> /\ (~stale => \A p \in A : table[p] # None)
        /\ reply[w] = Timeout => A = {}
    BY <1>1, <1>2, <1>9, AnswersDiffer DEF Good, SyncInv, Works
  <2>5. SyncSent(w)'
    BY <1>1, <2>4 DEF SyncSent
  <2>6. ASSUME ~stale, NEW p \in A PROVE Safe(p)'
    BY <1>1, <2>4, <2>6, EmptySeq DEF Safe
  <2>7. ListPending => A = {}
    BY <2>4 DEF ListPending
  <2>8. Used(mem[w])' = Used(mem[w]) /\ Used(mem'[w]) = Used(mem[w])
    BY <1>1 DEF Used
  <2>9. ListPending' = ListPending
    BY <1>1 DEF ListPending
  <2>10. SyncInv(w)'
    BY <1>1, <1>6, <1>7, <2>5, <2>6, <2>7, <2>8, <2>9 DEF SyncInv, Syncing, Works
  <2> QED BY <2>2, <2>3, <2>10 DEF Good
<1> QED BY <1>8, <1>9

\* Nothing of w but lists is in the socket.
Quiet(w) == \A i \in DOMAIN inbox : inbox[i].from = w => inbox[i].act = "list"

\* A request in the course of the loop over the ports.
LEMMA SyncAskStep ==
    ASSUME Typed, NEW w \in Worker, job[w].op \in Syncing, NEW op \in Syncing \ {"sync"}, NEW act, NEW p \in job[w].todo, NEW arg,
           SyncAsk(w, op, act, p, arg), [from |-> w, act |-> act, port |-> p, arg |-> arg] \in Request,
           op = "readd" => act = "add" /\ arg = mem[w][p].password /\ p \notin job[w].active,
           op # "readd" => act \notin {"add", "remove", "list"},
           op = "status" => p \in job[w].active /\ mem[w][p].locked_ip # None,
           UNCHANGED <<mem, disk, table, lockfile, status, promised, gone, mistaken, torn, stale, crossed>>
    PROVE  /\ Typed'
           /\ /\ Good(w)
              /\ ~job[w].errors => /\ Quiet(w)
                                   /\ op = "relock" => ~ListPending /\ (~stale => Safe(p))
              => Good(w)'
<1>1. PICK q : q = [from |-> w, act |-> act, port |-> p, arg |-> arg]
  OBVIOUS
<1>2. q \in Request /\ q.from = w /\ q.act = act /\ q.port = p /\ q.arg = arg
  BY <1>1
<1>3. PICK j : j = [op |-> op, port |-> p, todo |-> job[w].todo, errors |-> job[w].errors, active |-> job[w].active]
  OBVIOUS
<1>4. job' = [job EXCEPT ![w] = j] /\ inbox' = Append(inbox, q) /\ reply' = [reply EXCEPT ![w] = None]
  BY <1>1, <1>3 DEF SyncAsk, Ask, Send, Programs, Typed
<1>5. /\ job[w].todo \subseteq Port /\ job[w].errors \in BOOLEAN /\ job[w].active \subseteq Port /\ p \in Port
      /\ job[w].todo \subseteq Used(mem[w]) /\ ~Works(w, "save") /\ w \in {API, CLI} /\ inbox \in Seq(Request)
      /\ mem[w][p] # None
  BY SyncTyped, JobTyped DEF Used
<1>6. /\ j \in Job /\ j.op = op /\ j.port = p /\ j.todo = job[w].todo /\ j.errors = job[w].errors
      /\ j.active = job[w].active /\ j.op \in Waiting
  BY <1>3, <1>5 DEF Job, Syncing, Waiting
<1>7. Local(j, mem[w], None)
  BY <1>5, <1>6 DEF Local, Syncing
<1>8. /\ Programs' /\ Worker' = Worker /\ job'[w] = j /\ reply'[w] = None /\ mem'[w] = mem[w]
  BY <1>4, <1>6, <1>7, MovedOn DEF Typed
<1>9. Socket'
  BY <1>2, <1>4, <1>5, <1>8, BoxGrows DEF Typed, Programs
<1>10. Typed'
  BY <1>8, <1>9 DEF Typed, Kinds
<1>11. ASSUME Good(w), ~job[w].errors => Quiet(w) /\ (op = "relock" => ~ListPending /\ (~stale => Safe(p)))
       PROVE  Good(w)'
  <2>1. mem[w] = Load(disk) /\ Kept(mem[w])
    BY <1>11, SyncLoaded
  <2>2. w \in Worker' /\ Only(w)' /\ Loaded(w)' /\ Kept(Now(w))' /\ Fresh'
    <3>1. q.act = "add" => q.port \notin gone \ mistaken /\ q.arg = mem[w][q.port].password
      BY <1>2, <1>5, <2>1 DEF Kept
    <3> QED BY <1>2, <1>4, <1>5, <1>6, <1>7, <1>11, <2>1, <3>1, Asking
  <2>3. JobInv(w)'
    BY <1>6, <1>8 DEF JobInv, Deleting, Syncing
  <2>4. SyncInv(w)'
    <3>1. j.op # "list" /\ (job'[w].op \in Syncing) /\ Used(mem'[w]) = Used(mem[w]) /\ Used(mem[w])' = Used(mem[w])
      BY <1>6, <1>8 DEF Syncing, Used
    <3>2. CASE job[w].errors
      BY <1>6, <1>8, <3>1, <3>2 DEF SyncInv, Works
    <3>3. CASE ~job[w].errors
      <4>1. /\ Len(inbox) \in Nat /\ Len(inbox') = Len(inbox) + 1
            /\ DOMAIN inbox' = 1..(Len(inbox) + 1) /\ DOMAIN inbox = 1..Len(inbox)
            /\ inbox'[Len(inbox) + 1] = q /\ \A i \in DOMAIN inbox : inbox'[i] = inbox[i]
        BY <1>2, <1>4, <1>5, Received
      <4>2. \A i \in DOMAIN inbox' : i \in DOMAIN inbox \/ i = Len(inbox) + 1
        BY <4>1
      <4>3. SyncSent(w)'
        <5> SUFFICES ASSUME NEW i \in DOMAIN inbox', inbox'[i].from = w, inbox'[i].act # "list"
                     PROVE  /\ i = Len(inbox') /\ job'[w].op # "sync"
                            /\ job'[w].op = "readd" =>
                                 inbox'[i].act = "add" /\ inbox'[i].port = job'[w].port /\ reply'[w] # Ok
                            /\ job'[w].op # "readd" => reply'[w] \in {None, Timeout}
          BY DEF SyncSent
        <5>1. i = Len(inbox) + 1
          BY <1>11, <3>3, <4>1, <4>2 DEF Quiet
        <5>2. reply'[w] # Ok
          BY <1>8, NoEntry, AnswersDiffer
        <5> QED BY <1>2, <1>6, <1>8, <4>1, <5>1, <5>2 DEF Syncing
      <4>4. ASSUME NEW k \in Port, Safe(k), ~Touches(q, k) PROVE Safe(k)'
        BY <4>1, <4>2, <4>4 DEF Safe
      <4>5. reply'[w] # Ok
        BY <1>8, NoEntry, AnswersDiffer
      <4>6. ASSUME ~stale, NEW k \in Used(mem[w]), k \notin job[w].todo \/ k \in job[w].active PROVE Safe(k)'
        <5>1. k \in Port /\ Safe(k)
          BY <1>11, <3>3, <4>6 DEF Good, SyncInv, Used
        <5>2. ~Touches(q, k)
          BY <1>2, <4>6 DEF Touches
        <5> QED BY <4>4, <5>1, <5>2
      <4>7. ASSUME ~stale, op = "relock" PROVE Safe(p)'
        <5>1. Safe(p) /\ ~Touches(q, p)
          BY <1>2, <1>11, <3>3, <4>7 DEF Touches
        <5> QED BY <1>5, <4>4, <5>1
      <4>8. ListPending' => ListPending
        <5>1. q.act # "list"
          BY <1>2
        <5> QED BY <4>1, <4>2, <5>1 DEF ListPending
      <4>9. ListPending => job[w].active = {} /\ job[w].todo = Used(mem[w]) /\ op # "relock"
        BY <1>11, <3>3 DEF Good, SyncInv
      <4> QED BY <1>6, <1>8, <3>1, <3>3, <4>3, <4>5, <4>6, <4>7, <4>8, <4>9 DEF SyncInv, Works
    <3> QED BY <3>2, <3>3
  <2> QED BY <2>2, <2>3, <2>4 DEF Good
<1> QED BY <1>10, <1>11

\* A port is done with.
LEMMA SyncTodoStep ==
    ASSUME Typed, NEW w \in Worker, job[w].op \in Syncing, NEW p \in job[w].todo, NEW errors \in BOOLEAN,
           job' = [job EXCEPT ![w] = [op |-> "sync", todo |-> job[w].todo \ {p}, errors |-> job[w].errors \/ errors,
                                      active |-> job[w].active]],
           reply' = [reply EXCEPT ![w] = None],
           UNCHANGED <<mem, disk, inbox, table, lockfile, status, promised, gone, mistaken, torn, stale, crossed>>
    PROVE  /\ Typed'
           /\ /\ Good(w)
              /\ ~job[w].errors /\ ~errors => Quiet(w) /\ ~ListPending /\ (~stale => Safe(p))
              => Good(w)'
<1>1. PICK j : j = [op |-> "sync", todo |-> job[w].todo \ {p}, errors |-> job[w].errors \/ errors, active |-> job[w].active]
  OBVIOUS
<1>2. job' = [job EXCEPT ![w] = j]
  BY <1>1
<1>3. /\ job[w].todo \subseteq Port /\ job[w].errors \in BOOLEAN /\ job[w].active \subseteq Port
      /\ job[w].todo \subseteq Used(mem[w]) /\ ~Works(w, "save")
  BY SyncTyped
<1>4. /\ j \in Job /\ j.op = "sync" /\ j.todo = job[w].todo \ {p} /\ j.errors = (job[w].errors \/ errors)
      /\ j.active = job[w].active /\ Local(j, mem[w], None)
  BY <1>1, <1>3 DEF Job, Local, Syncing
<1>5. Programs' /\ Worker' = Worker /\ job'[w] = j /\ reply'[w] = None
  BY <1>2, <1>4, MovedOn DEF Typed
<1>6. Typed'
  BY <1>5, SocketSame DEF Typed, Kinds
<1>7. ASSUME Good(w), ~job[w].errors /\ ~errors => Quiet(w) /\ ~ListPending /\ (~stale => Safe(p))
      PROVE  Good(w)'
  <2>1. mem[w] = Load(disk)
    BY <1>7, SyncLoaded
  <2>2. w \in Worker' /\ Only(w)' /\ Loaded(w)' /\ Kept(Now(w))' /\ Fresh'
    BY <1>2, <1>3, <1>4, <1>7, <2>1, GoingOn
  <2>3. JobInv(w)'
    BY <1>4, <1>5 DEF JobInv, Deleting
  <2>4. SyncInv(w)'
    <3>1. CASE j.errors
      BY <1>4, <1>5, <3>1 DEF SyncInv, Works
    <3>2. CASE ~j.errors
      <4>1. ~job[w].errors /\ ~errors /\ Quiet(w) /\ ~ListPending
        BY <1>3, <1>4, <1>7, <3>2
      <4>2. SyncSent(w)'
        BY <4>1 DEF SyncSent, Quiet
      <4>3. ASSUME ~stale, NEW k \in Used(mem[w]), k \notin j.todo \/ k \in j.active PROVE Safe(k)'
        <5>1. Safe(k)
          BY <1>4, <1>7, <4>1, <4>3 DEF Good, SyncInv
        <5> QED BY <5>1 DEF Safe
      <4>4. ~ListPending' /\ Used(mem'[w]) = Used(mem[w]) /\ Used(mem[w])' = Used(mem[w])
        BY <4>1 DEF ListPending, Used
      <4> QED BY <1>4, <1>5, <4>2, <4>3, <4>4 DEF SyncInv, Works
    <3> QED BY <3>1, <3>2
  <2> QED BY <2>2, <2>3, <2>4 DEF Good
<1> QED BY <1>6, <1>7

LEMMA SyncNextStep ==
    ASSUME Typed, NEW w \in Worker, job[w].op \in Syncing \ {"sync"}, NEW errors \in BOOLEAN, SyncNext(w, errors),
           UNCHANGED <<mem, disk, table, lockfile, status, promised, gone, mistaken, torn, stale, crossed>>
    PROVE  /\ Typed'
           /\ /\ Good(w)
              /\ ~job[w].errors /\ ~errors => Quiet(w) /\ ~ListPending /\ (~stale => Safe(job[w].port))
              => Good(w)'
<1>1. job[w].op \in Syncing /\ job[w].port \in job[w].todo
  BY SyncTyped
<1>2. /\ job' = [job EXCEPT ![w] = [op |-> "sync", todo |-> job[w].todo \ {job[w].port},
                                    errors |-> job[w].errors \/ errors, active |-> job[w].active]]
      /\ reply' = [reply EXCEPT ![w] = None] /\ inbox' = inbox
  BY DEF SyncNext, NoAsk
<1> QED BY <1>1, <1>2, SyncTodoStep

LEMMA LockedEntry ==
    ASSUME Typed, NEW w \in Worker, NEW p \in Used(mem[w])
    PROVE  p \in Port /\ mem[w][p] \in Entry /\ mem[w][p].password \in Password /\ mem[w][p].locked_ip \in Ip \cup {None}
<1>1. p \in Port /\ mem[w][p] \in Entry
  BY JobTyped DEF Used, Keys
<1> QED BY <1>1 DEF Entry

LEMMA SyncPortStep ==
    ASSUME Typed, NEW w \in Worker, SyncPort(w)
    PROVE  Typed' /\ (Good(w) => Good(w)')
<1>1. /\ job[w].op = "sync" /\ job[w].todo # {}
      /\ UNCHANGED <<mem, disk, table, lockfile, status, promised, gone, mistaken, torn, stale, crossed>>
  BY DEF SyncPort, Works, files, ghosts
<1>2. PICK p : p = Min(job[w].todo)
  OBVIOUS
<1>3. job[w].op \in Syncing /\ p \in job[w].todo /\ w \in {API, CLI} /\ reply[w] = None
  <2>1. job[w].todo \subseteq Port
    BY <1>1, SyncTyped DEF Syncing
  <2>2. reply[w] = None
    BY <1>1, JobTyped DEF Local, Waiting
  <2> QED BY <1>1, <1>2, <2>1, <2>2, MinIn, JobTyped DEF Syncing
<1>4. p \in Port /\ mem[w][p].password \in Password
  BY <1>3, SyncTyped, LockedEntry
<1>5. ASSUME Good(w), ~job[w].errors PROVE Quiet(w)
  BY <1>1, <1>3, <1>5 DEF Good, SyncInv, SyncSent, Quiet
<1>6. CASE p \notin job[w].active
  <2>1. SyncAsk(w, "readd", "add", p, mem[w][p].password)
    BY <1>2, <1>6 DEF SyncPort
  <2>2. [from |-> w, act |-> "add", port |-> p, arg |-> mem[w][p].password] \in Request
    BY <1>3, <1>4 DEF Request, Sender
  <2> QED BY <1>1, <1>3, <1>5, <1>6, <2>1, <2>2, SyncAskStep DEF Syncing
<1>7. CASE p \in job[w].active /\ mem[w][p].locked_ip # None
  <2>1. SyncAsk(w, "status", "ip_status", p, None)
    BY <1>2, <1>7 DEF SyncPort
  <2>2. [from |-> w, act |-> "ip_status", port |-> p, arg |-> None] \in Request
    BY <1>3, <1>4 DEF Request, Sender
  <2> QED BY <1>1, <1>3, <1>5, <1>7, <2>1, <2>2, SyncAskStep DEF Syncing
<1>8. CASE p \in job[w].active /\ mem[w][p].locked_ip = None
  <2>1. job' = [job EXCEPT ![w].todo = @ \ {p}] /\ inbox' = inbox /\ reply' = reply
    BY <1>2, <1>8 DEF SyncPort
  <2>2. reply' = [reply EXCEPT ![w] = None]
    BY <1>3, <2>1 DEF Typed, Programs
  <2>3. job' = [job EXCEPT ![w] = [op |-> "sync", todo |-> job[w].todo \ {p}, errors |-> job[w].errors \/ FALSE,
                                   active |-> job[w].active]]
    <3>1. job[w] \in [op : {"sync"}, todo : SUBSET Port, errors : BOOLEAN, active : SUBSET Port]
      BY <1>1, JobTyped DEF Job, Exited, Idle
    <3>2. [job[w] EXCEPT !.todo = @ \ {p}] = [op |-> "sync", todo |-> job[w].todo \ {p}, errors |-> job[w].errors \/ FALSE,
                                   active |-> job[w].active]
      BY <3>1
    <3> QED BY <2>1, <3>2
  <2>4. ASSUME Good(w), ~job[w].errors PROVE ~ListPending /\ (~stale => Safe(p))
    <3>1. p \in Used(mem[w])
      BY <1>3, SyncTyped
    <3> QED BY <1>3, <1>8, <2>4, <3>1 DEF Good, SyncInv
  <2> QED BY <1>1, <1>3, <1>5, <2>1, <2>2, <2>3, <2>4, SyncTodoStep
<1> QED BY <1>6, <1>7, <1>8

LEMMA SyncReaddedStep ==
    ASSUME Typed, NEW w \in Worker, SyncReadded(w)
    PROVE  Typed' /\ (Good(w) => Good(w)')
<1>1. /\ job[w].op = "readd"
      /\ UNCHANGED <<mem, disk, table, lockfile, status, promised, gone, mistaken, torn, stale, crossed>>
  BY AtWork DEF SyncReadded, files, ghosts
<1>2. PICK p : p = job[w].port
  OBVIOUS
<1>3. job[w].op \in Syncing /\ p \in job[w].todo /\ p \in Used(mem[w]) /\ w \in {API, CLI}
  BY <1>1, <1>2, SyncTyped, JobTyped DEF Syncing
<1>4. ASSUME Good(w), ~job[w].errors, reply[w] = Ok PROVE Quiet(w) /\ ~ListPending /\ (~stale => Safe(p))
  <2>1. inbox = << >> /\ (~stale => table[p] # None)
    BY <1>1, <1>2, <1>3, <1>4 DEF Good, SyncInv, Works
  <2>2. DOMAIN inbox = {}
    BY <2>1
  <2> QED BY <2>1, <2>2 DEF Quiet, ListPending, Safe
<1>5. CASE reply[w] = Ok /\ mem[w][p].locked_ip # None
  <2>1. SyncAsk(w, "relock", "set_ip", p, mem[w][p].locked_ip)
    BY <1>2, <1>5 DEF SyncReadded
  <2>2. [from |-> w, act |-> "set_ip", port |-> p, arg |-> mem[w][p].locked_ip] \in Request
    BY <1>3, <1>5, LockedEntry DEF Request, Sender
  <2> QED BY <1>1, <1>3, <1>4, <1>5, <2>1, <2>2, SyncAskStep DEF Syncing
<1>6. CASE ~(reply[w] = Ok /\ mem[w][p].locked_ip # None)
  <2>1. SyncNext(w, reply[w] # Ok)
    BY <1>2, <1>6 DEF SyncReadded
  <2>2. PICK b \in BOOLEAN : b = (reply[w] # Ok)
    OBVIOUS
  <2>3. SyncNext(w, b) /\ (~b => reply[w] = Ok)
    BY <2>1, <2>2
  <2> QED BY <1>1, <1>2, <1>4, <2>3, SyncNextStep DEF Syncing
<1> QED BY <1>5, <1>6

\* A port that counts as active, and the answer about it.
LEMMA ActivePort ==
    ASSUME Typed, NEW w \in Worker, Good(w), ~job[w].errors, job[w].op \in {"status", "relock"},
           reply[w] \notin {None, Timeout}
    PROVE  Quiet(w) /\ ~ListPending /\ (~stale => Safe(job[w].port))
<1>1. /\ job[w].op \in Syncing /\ job[w].op \notin {"sync", "readd"} /\ job[w].port \in Used(mem[w])
      /\ job[w].op = "status" => job[w].port \in job[w].active
  BY SyncTyped, JobTyped DEF Syncing, Local
<1>2. Quiet(w)
  BY <1>1 DEF Good, SyncInv, SyncSent, Quiet
<1>3. ~ListPending
  BY <1>1 DEF Good, SyncInv, Works
<1>4. ~stale => Safe(job[w].port)
  BY <1>1 DEF Good, SyncInv, Works
<1> QED BY <1>2, <1>3, <1>4

LEMMA SyncStatusStep ==
    ASSUME Typed, NEW w \in Worker, SyncStatus(w)
    PROVE  Typed' /\ (Good(w) => Good(w)')
<1>1. /\ job[w].op = "status" /\ reply[w] # None
      /\ UNCHANGED <<mem, disk, table, lockfile, status, promised, gone, mistaken, torn, stale, crossed>>
  BY AtWork DEF SyncStatus, files, ghosts
<1>2. PICK p : p = job[w].port
  OBVIOUS
<1>3. /\ job[w].op \in Syncing /\ p \in job[w].todo /\ p \in Used(mem[w]) /\ w \in {API, CLI}
      /\ mem[w][p].locked_ip # None
  BY <1>1, <1>2, SyncTyped, JobTyped DEF Syncing, Local
<1>4. reply[w].res \notin {"list", "timeout"} => reply[w] \notin {None, Timeout}
  BY <1>1 DEF Timeout
<1>5. CASE reply[w].res \in {"list", "timeout"}
  <2>1. SyncNext(w, TRUE)
    BY <1>5 DEF SyncStatus
  <2> QED BY <1>1, <2>1, SyncNextStep DEF Syncing
<1>6. CASE reply[w].res \notin {"list", "timeout"} /\ reply[w] = [res |-> "status", ip |-> mem[w][p].locked_ip]
  <2>1. SyncNext(w, FALSE)
    BY <1>2, <1>6 DEF SyncStatus
  <2> QED BY <1>1, <1>2, <1>4, <1>6, <2>1, ActivePort, SyncNextStep DEF Syncing
<1>7. CASE reply[w].res \notin {"list", "timeout"} /\ reply[w] # [res |-> "status", ip |-> mem[w][p].locked_ip]
  <2>1. SyncAsk(w, "relock", "set_ip", p, mem[w][p].locked_ip)
    BY <1>2, <1>7 DEF SyncStatus
  <2>2. [from |-> w, act |-> "set_ip", port |-> p, arg |-> mem[w][p].locked_ip] \in Request
    BY <1>3, LockedEntry DEF Request, Sender
  <2> QED BY <1>1, <1>2, <1>3, <1>4, <1>7, <2>1, <2>2, ActivePort, SyncAskStep DEF Syncing
<1> QED BY <1>5, <1>6, <1>7

LEMMA SyncRelockedStep ==
    ASSUME Typed, NEW w \in Worker, SyncRelocked(w)
    PROVE  Typed' /\ (Good(w) => Good(w)')
<1>1. /\ job[w].op = "relock" /\ reply[w] # None /\ SyncNext(w, reply[w] # Ok)
      /\ UNCHANGED <<mem, disk, table, lockfile, status, promised, gone, mistaken, torn, stale, crossed>>
  BY AtWork DEF SyncRelocked, files, ghosts
<1>2. PICK b \in BOOLEAN : b = (reply[w] # Ok)
  OBVIOUS
<1>3. SyncNext(w, b) /\ (~b => reply[w] \notin {None, Timeout})
  BY <1>1, <1>2, AnswersDiffer
<1> QED BY <1>1, <1>3, ActivePort, SyncNextStep DEF Syncing

LEMMA SyncEndStep ==
    ASSUME Typed, NEW w \in Worker, SyncEnd(w)
    PROVE  Typed' /\ (Good(w) => Good(w)')
<1>1. /\ job[w].op = "sync" /\ ~Works(w, "save") /\ Done(w) /\ reply' = reply
      /\ UNCHANGED <<disk, inbox, table, lockfile, status, promised, gone, mistaken, torn, stale, crossed>>
  BY DEF SyncEnd, Works, files, ghosts
<1>2. reply'[w] = None /\ crossed' \in BOOLEAN
  BY <1>1, JobTyped DEF Local, Waiting, Typed, Kinds
<1> QED BY <1>1, <1>2, GiveUpStep

-----------------------------------------------------------------------------
(* Starts, timeouts and crashes *)

LEMMA KeptMoved ==
    ASSUME NEW S, Kept(S), \A p \in Port : \A v : Ends(p, v) => Ends(p, v)',
           UNCHANGED <<gone, mistaken, promised, torn>>
    PROVE  Kept(S)'
BY DEF Kept

LEMMA EndsWhoever ==
    ASSUME NEW w \in {API, CLI}, inbox \in Seq(Request), inbox' \in {inbox, Abandoned(w)}, table' = table
    PROVE  \A p : \A v : Ends(p, v) => Ends(p, v)'
<1> TAKE p
<1> TAKE v
<1> HAVE Ends(p, v)
<1>1. EndsIn(inbox', p, v)
  BY EndsAbandoned DEF Ends
<1> QED BY <1>1 DEF Ends, EndsIn

LEMMA StartApiStep ==
    ASSUME Typed, API \in Worker, Start(API)
    PROVE  Typed' /\ (Good(API) /\ ~crossed' => Good(API)')
<1>0. API # CLI
  BY DEF API, CLI
<1>1. PICK q : q = [from |-> API, act |-> "list", port |-> None, arg |-> None]
  OBVIOUS
<1>2. PICK j : j = [op |-> "list"]
  OBVIOUS
<1>3. /\ job' = [job EXCEPT ![API] = j] /\ inbox' = Append(Abandoned(API), q) /\ reply' = [reply EXCEPT ![API] = None]
      /\ UNCHANGED <<disk, table, lockfile, status, promised, gone, mistaken, torn, stale>>
      /\ job[API].op = "exited" /\ ~Works(API, "save") /\ mem' = [mem EXCEPT ![API] = Load(disk)]
      /\ Begin(API, Load(disk))
  BY <1>0, <1>1, <1>2 DEF Start, SyncStart, Send, Works, files
<1>4. crossed' \in BOOLEAN
  BY <1>3, Begins
<1>5. /\ q \in Request /\ q.from = API /\ q.act = "list" /\ j \in Job /\ j.op = "list"
      /\ \A m : Local(j, m, None)
  BY <1>1, <1>2, ListRequest
<1>6. /\ mem' \in [Worker -> Keys] /\ mem'[API] = Load(disk) /\ \A v \in Worker \ {API} : mem'[v] = mem[v]
      /\ reply' \in [Worker -> Reply \cup {None}] /\ reply'[API] = None /\ \A v \in Worker \ {API} : reply'[v] = reply[v]
  BY <1>3, LoadIs DEF Typed, Programs
<1>7. Programs' /\ Worker' = Worker /\ job'[API] = j /\ \A v \in Worker \ {API} : job'[v] = job[v]
  BY <1>3, <1>5, <1>6, Moved DEF Typed
<1>8. Socket'
  BY <1>3, <1>5, <1>7, BoxGrows DEF Typed, Programs
<1>9. Typed'
  BY <1>3, <1>4, <1>7, <1>8 DEF Typed, Kinds
<1>10. ASSUME Good(API), ~crossed' PROVE Good(API)'
  <2>1. Only(API)'
    BY <1>7, <1>10, OthersRest DEF Good
  <2>2. Loaded(API)' /\ JobInv(API)'
    BY <1>3, <1>5, <1>6, <1>7 DEF Loaded, Works, JobInv, Deleting, Load
  <2>3. PICK box : box = Abandoned(API)
    OBVIOUS
  <2>4. /\ box \in Seq(Request) /\ DOMAIN box = DOMAIN inbox
        /\ \A i \in DOMAIN inbox : box[i].from = IF inbox[i].from = API THEN None ELSE inbox[i].from
    BY <2>3, AbandonedIs DEF Typed, Socket
  <2>5. Kept(Now(API))'
    <3>1. Now(API) = Load(disk) /\ Now(API)' = Load(disk)
      BY <1>3, <1>5, <1>7 DEF Now, Works, Load
    <3>2. PICK S \in Keys : S = Load(disk)
      BY LoadIs DEF Typed
    <3>3. Kept(S)
      BY <1>10, <3>1, <3>2 DEF Good
    <3>4. \A p \in Port : \A v : Ends(p, v) => EndsIn(box, p, v)
      BY <2>3, EndsAbandoned DEF Typed, Socket
    <3>5. /\ \A p \in Port : promised'[p] \in {promised[p], None}
          /\ q.act # "add" /\ gone' \subseteq gone /\ mistaken \subseteq mistaken' /\ inbox' = Append(box, q)
      BY <1>3, <1>5, <2>3
    <3>6. Kept(S)'
      BY <1>3, <1>5, <2>4, <3>3, <3>4, <3>5, KeptReceived
    <3> QED BY <3>1, <3>2, <3>6 DEF Kept
  <2>6. SyncInv(API)'
    <3>1. \A i \in DOMAIN box : box[i].from # API
      BY <2>4, NoEntry
    <3> QED BY <1>3, <1>5, <1>6, <1>7, <2>3, <2>4, <3>1, ListAsked, SMTT(60)
  <2>7. Fresh'
    <3> SUFFICES ASSUME CLI \in Worker, job'[CLI].op = "idle", NEW i \in DOMAIN inbox'
                 PROVE  inbox'[i].from # CLI
      BY <1>7 DEF Fresh, Works
    <3>1. \A k \in DOMAIN inbox : inbox[k].from # CLI
      BY <1>0, <1>7, <1>10 DEF Good, Fresh, Works
    <3>2. \A k \in DOMAIN box : box[k].from # CLI
      BY <2>4, <3>1, NoEntry
    <3> QED BY <1>0, <1>3, <1>5, <2>3, <2>4, <3>2, Received
  <2> QED BY <1>7, <2>1, <2>2, <2>5, <2>6, <2>7 DEF Good
<1> QED BY <1>9, <1>10

\* What a step of a program that rests leaves of the one that works.
LEMMA Bystander ==
    ASSUME Typed, NEW u \in {API, CLI}, Good(u), NEW w \in Worker, w # u, Worker' = Worker,
           inbox' \in {inbox, Abandoned(w)}, job'[u] = job[u], mem'[u] = mem[u], reply'[u] = reply[u],
           job'[w].op \in {"idle", "exited"}, Fresh',
           UNCHANGED <<disk, table, promised, gone, mistaken, torn, stale>>
    PROVE  Good(u)'
<1>0. inbox \in Seq(Request) /\ u \in Worker /\ w \in {API, CLI} /\ u # None
  BY NoEntry DEF Typed, Programs, Socket, Good
<1>1. \A p : \A v : Ends(p, v) => Ends(p, v)'
  BY <1>0, EndsWhoever
<1>2. Only(u)'
  <2>1. \A v \in Worker \ {u} : v = w
    BY <1>0 DEF Typed, Programs
  <2> QED BY <2>1 DEF Only, Busy, Worker
<1>3. Loaded(u)'
  BY DEF Good, Loaded, Works, Busy, Load
<1>4. Kept(Now(u))'
  <2>1. PICK S : S = Now(u)
    OBVIOUS
  <2>2. Now(u)' = S
    BY <2>1 DEF Now, Works, Load
  <2>3. Kept(S)'
    BY <1>1, <2>1, KeptMoved DEF Good
  <2> QED BY <2>2, <2>3 DEF Kept
<1>5. JobInv(u)'
  BY <1>1 DEF Good, JobInv, Deleting
<1>6. /\ DOMAIN inbox' = DOMAIN inbox /\ Len(inbox') = Len(inbox) /\ (inbox = << >> => inbox' = << >>)
      /\ \A i \in DOMAIN inbox : /\ inbox'[i].from = u <=> inbox[i].from = u
                                 /\ inbox'[i].act = inbox[i].act /\ inbox'[i].port = inbox[i].port
  <2>1. CASE inbox' = inbox
    BY <2>1
  <2>2. CASE inbox' = Abandoned(w)
    <3>1. /\ inbox' \in Seq(Request) /\ DOMAIN inbox' = DOMAIN inbox /\ Len(inbox') = Len(inbox)
          /\ \A i \in DOMAIN inbox : /\ inbox'[i].from = IF inbox[i].from = w THEN None ELSE inbox[i].from
                                     /\ inbox'[i].act = inbox[i].act /\ inbox'[i].port = inbox[i].port
      BY <1>0, <2>2, AbandonedIs
    <3>2. inbox = << >> => inbox' = << >>
      BY <3>1, <1>0, EmptySeq
    <3> QED BY <1>0, <3>1, <3>2
  <2> QED BY <2>1, <2>2
<1>7. ListPending' = ListPending /\ (\A p \in Port : Safe(p)' = Safe(p)) /\ Used(mem'[u]) = Used(mem[u]) /\ Used(mem[u])' = Used(mem[u])
  BY <1>6 DEF ListPending, Safe, Touches, Used
<1>8. SyncSent(u)' = SyncSent(u)
  BY <1>6 DEF SyncSent
<1>9. SyncInv(u)'
  <2>1. Works(u, "list") => Works(u, "list")' /\ Works(u, "readd") = Works(u, "readd")' /\ Works(u, "relock") = Works(u, "relock")'
    BY DEF Works
  <2>2. ASSUME job[u].op \in Syncing, job[u].op # "sync" PROVE job[u].port \in Port
    BY <1>0, <2>2, SyncTyped
  <2>3. Used(mem[u]) \subseteq Port
    BY DEF Used
  <2> QED BY <1>6, <1>7, <1>8, <2>1, <2>2, <2>3 DEF Good, SyncInv, Works, Syncing
<1> QED BY <1>0, <1>2, <1>3, <1>4, <1>5, <1>9 DEF Good

LEMMA StartCliStep ==
    ASSUME Typed, CLI \in Worker, Start(CLI)
    PROVE  Typed' /\ \A u \in {API, CLI} : Good(u) => Good(u)'
<1>0. API # CLI
  BY DEF API, CLI
<1>1. /\ job' = [job EXCEPT ![CLI] = Idle] /\ inbox' = Abandoned(CLI) /\ reply' = reply
      /\ UNCHANGED <<disk, table, lockfile, status, promised, gone, mistaken, torn, stale, crossed>>
      /\ job[CLI].op = "exited" /\ mem' = [mem EXCEPT ![CLI] = Load(disk)]
  BY <1>0 DEF Start, Works, files
<1>2. Idle \in Job /\ Idle.op = "idle" /\ reply[CLI] = None
  BY <1>1, JobTyped DEF Job, Idle, Local, Waiting
<1>3. /\ mem' \in [Worker -> Keys] /\ \A v \in Worker \ {CLI} : mem'[v] = mem[v]
      /\ reply' \in [Worker -> Reply \cup {None}] /\ \A v \in Worker \ {CLI} : reply'[v] = reply[v]
  BY <1>1, LoadIs DEF Typed, Programs
<1>4. Local(Idle, mem'[CLI], reply'[CLI])
  BY <1>1, <1>2 DEF Local, Syncing
<1>5. Programs' /\ Worker' = Worker /\ job'[CLI] = Idle /\ \A v \in Worker \ {CLI} : job'[v] = job[v]
  BY <1>1, <1>2, <1>3, <1>4, Moved DEF Typed
<1>6. /\ inbox' \in Seq(Request) /\ DOMAIN inbox' = DOMAIN inbox
      /\ \A i \in DOMAIN inbox : inbox'[i].from = IF inbox[i].from = CLI THEN None ELSE inbox[i].from
  BY <1>1, AbandonedIs DEF Typed, Socket
<1>7. Socket' /\ Fresh'
  BY <1>5, <1>6, NoEntry DEF Typed, Socket, Fresh
<1>8. Typed'
  BY <1>1, <1>5, <1>7 DEF Typed, Kinds
<1>9. ASSUME NEW u \in {API, CLI}, Good(u) PROVE Good(u)'
  <2>1. CASE u # CLI
    <3>1. u \in Worker /\ CLI # u /\ job'[u] = job[u] /\ mem'[u] = mem[u] /\ reply'[u] = reply[u] /\ job'[CLI].op \in {"idle", "exited"}
      BY <1>1, <1>2, <1>3, <1>5, <1>9, <2>1 DEF Good
    <3> QED BY <1>1, <1>5, <1>7, <1>9, <3>1, Bystander
  <2>2. CASE u = CLI
    <3>1. Only(CLI)'
      BY <1>5, <1>9, <2>2, OthersRest DEF Good
    <3>2. Loaded(CLI)' /\ JobInv(CLI)' /\ SyncInv(CLI)'
      BY <1>2, <1>5 DEF Loaded, Works, Busy, JobInv, Deleting, SyncInv, Syncing
    <3>3. Now(CLI) = Load(disk) /\ Now(CLI)' = Load(disk)
      BY <1>1, <1>2, <1>5 DEF Now, Works, Load
    <3>4. \A p : \A v : Ends(p, v) => Ends(p, v)'
      BY <1>1, EndsWhoever DEF Typed, Socket
    <3>5. PICK S : S = Load(disk)
      OBVIOUS
    <3>6. Kept(S)'
      BY <1>1, <1>9, <2>2, <3>3, <3>4, <3>5, KeptMoved DEF Good
    <3>7. Kept(Now(CLI))'
      BY <3>3, <3>5, <3>6 DEF Kept
    <3> QED BY <1>5, <1>7, <2>2, <3>1, <3>2, <3>7 DEF Good
  <2> QED BY <2>1, <2>2
<1> QED BY <1>8, <1>9

\* What was asked is given up, not undone.
LEMMA TimesOutStep ==
    ASSUME Typed, NEW w \in Worker, TimesOut(w)
    PROVE  Typed' /\ (Good(w) => Good(w)')
<1>1. /\ reply' = [reply EXCEPT ![w] = Timeout] /\ inbox' \in {inbox, Abandoned(w)} /\ job[w].op \in Waiting
      /\ UNCHANGED <<mem, disk, job, table, lockfile, status, promised, gone, mistaken, torn, stale, crossed>>
  BY DEF TimesOut, files, ghosts
<1>2. inbox \in Seq(Request) /\ w \in {API, CLI} /\ w # None /\ Worker' = Worker
  BY <1>1, NoEntry DEF Typed, Programs, Socket, Worker
<1>3. /\ reply' \in [Worker -> Reply \cup {None}] /\ reply'[w] = Timeout
      /\ \A v \in Worker \ {w} : reply'[v] = reply[v]
  BY <1>1, AnswersDiffer DEF Typed, Programs
<1>4. /\ inbox' \in Seq(Request) /\ DOMAIN inbox' = DOMAIN inbox /\ Len(inbox') = Len(inbox)
      /\ \A i \in DOMAIN inbox : /\ inbox'[i].from \in {inbox[i].from, None}
                                 /\ inbox'[i].act = inbox[i].act /\ inbox'[i].port = inbox[i].port
  <2>1. CASE inbox' = inbox
    BY <1>2, <2>1
  <2>2. CASE inbox' = Abandoned(w)
    BY <1>2, <2>2, AbandonedIs
  <2> QED BY <1>1, <2>1, <2>2
<1>5. Programs'
  <2>1. \A v \in Worker : Local(job[v], mem[v], reply'[v])
    <3> TAKE v \in Worker
    <3>1. CASE v = w
      BY <1>1, <1>3, <3>1, JobTyped DEF Local
    <3>2. CASE v # w
      BY <1>3, <3>2, JobTyped
    <3> QED BY <3>1, <3>2
  <2>2. \A v \in Worker : Local(job[v], mem[v], reply[v])' <=> Local(job[v], mem[v], reply'[v])
    BY <1>1 DEF Local, Used
  <2> QED BY <1>1, <1>2, <1>3, <2>1, <2>2 DEF Typed, Programs
<1>6. Socket'
  <2>1. ASSUME NEW i \in DOMAIN inbox' PROVE inbox'[i].from \in Worker \cup {None}
    BY <1>4, <2>1 DEF Typed, Socket
  <2> QED BY <1>2, <1>4, <2>1 DEF Socket
<1>7. Typed'
  BY <1>1, <1>5, <1>6 DEF Typed, Kinds
<1>8. ASSUME Good(w) PROVE Good(w)'
  <2>1. \A p : \A v : Ends(p, v) => Ends(p, v)'
    BY <1>1, <1>2, EndsWhoever
  <2>2. Only(w)' /\ Loaded(w)'
    BY <1>1, <1>2, <1>8 DEF Good, Only, Loaded, Busy, Works, Load
  <2>3. Kept(Now(w))'
    <3>1. PICK S : S = Now(w)
      OBVIOUS
    <3>2. Now(w)' = S
      BY <1>1, <3>1 DEF Now, Works, Load
    <3>3. Kept(S)'
      BY <1>1, <1>8, <2>1, <3>1, KeptMoved DEF Good
    <3> QED BY <3>2, <3>3 DEF Kept
  <2>4. JobInv(w)'
    BY <1>1, <1>8, <2>1 DEF Good, JobInv, Deleting
  <2>5. Fresh'
    BY <1>1, <1>2, <1>4, <1>8, NoEntry DEF Good, Fresh, Works
  <2>6. \A i \in DOMAIN inbox' : inbox'[i].from = w => inbox[i].from = w
    BY <1>2, <1>4
  <2>7. /\ ListPending' = ListPending /\ (\A p \in Port : Safe(p)' = Safe(p))
        /\ Used(mem'[w]) = Used(mem[w]) /\ Used(mem[w])' = Used(mem[w])
    BY <1>1, <1>4 DEF ListPending, Safe, Touches, Used
  <2>8. reply'[w] # Ok /\ reply'[w] \in {None, Timeout}
    BY <1>3, AnswersDiffer
  <2>9. SyncSent(w) => SyncSent(w)'
    BY <1>1, <1>4, <2>6, <2>8 DEF SyncSent
  <2>10. SyncInv(w)'
    <3>1. ASSUME job[w].op \in Syncing, job[w].op # "sync" PROVE job[w].port \in Port
      BY <3>1, SyncTyped
    <3>2. Used(mem[w]) \subseteq Port
      BY DEF Used
    <3> QED BY <1>1, <1>4, <1>8, <2>6, <2>7, <2>8, <2>9, <3>1, <3>2 DEF Good, SyncInv, Works, Syncing
  <2> QED BY <1>2, <2>2, <2>3, <2>4, <2>5, <2>10 DEF Good
<1> QED BY <1>7, <1>8

\* A key that was half stored may be lost, or the whole store with it.
LEMMA CrashStep ==
    ASSUME Typed, NEW w \in Worker, Crash(w), NEW u \in {API, CLI}
    PROVE  Typed' /\ (Good(u) => Good(u)')
<1>1. /\ job' = [job EXCEPT ![w] = Exited] /\ mem' = [mem EXCEPT ![w] = Empty] /\ reply' = [reply EXCEPT ![w] = None]
      /\ torn' = (torn \/ Works(w, "save"))
      /\ UNCHANGED <<disk, inbox, table, lockfile, status, promised, gone, mistaken, stale, crossed>>
  BY DEF Crash, files
<1>2. Exited \in Job /\ Exited.op = "exited"
  BY DEF Job, Exited
<1>3. /\ mem' \in [Worker -> Keys] /\ \A v \in Worker \ {w} : mem'[v] = mem[v]
      /\ reply' \in [Worker -> Reply \cup {None}] /\ reply'[w] = None /\ \A v \in Worker \ {w} : reply'[v] = reply[v]
  BY <1>1, LoadIs DEF Typed, Programs
<1>4. Local(Exited, mem'[w], reply'[w])
  BY <1>2, <1>3 DEF Local, Syncing
<1>5. Programs' /\ Worker' = Worker /\ job'[w] = Exited /\ \A v \in Worker \ {w} : job'[v] = job[v]
  BY <1>1, <1>2, <1>3, <1>4, Moved DEF Typed
<1>6. Typed'
  BY <1>1, <1>5, SocketSame DEF Typed, Kinds
<1>7. ASSUME Good(u) PROVE Good(u)'
  <2>1. Fresh'
    BY <1>1, <1>2, <1>5, <1>7 DEF Good, Fresh, Works
  <2>2. CASE u # w
    <3>1. ~Works(w, "save") /\ torn' = torn
      BY <1>1, <1>7, <2>2 DEF Good, Only, Busy, Works, Typed, Kinds
    <3>2. u \in Worker /\ job'[u] = job[u] /\ mem'[u] = mem[u] /\ reply'[u] = reply[u] /\ job'[w].op \in {"idle", "exited"}
      BY <1>2, <1>3, <1>5, <1>7, <2>2 DEF Good
    <3> QED BY <1>1, <1>5, <1>7, <2>1, <2>2, <3>1, <3>2, Bystander
  <2>3. CASE u = w
    <3>1. Only(w)'
      BY <1>5, <1>7, <2>3, OthersRest DEF Good
    <3>2. Loaded(w)' /\ JobInv(w)' /\ SyncInv(w)'
      BY <1>2, <1>5 DEF Loaded, Works, Busy, JobInv, Deleting, SyncInv, Syncing
    <3>3. Now(w)' = Load(disk)
      BY <1>1, <1>2, <1>5 DEF Now, Works, Load
    <3>4. \A p : \A v : Ends(p, v) <=> Ends(p, v)'
      BY <1>1 DEF Ends, EndsIn
    <3>5. Kept(Load(disk))'
      <4>1. CASE Works(w, "save")
        <5>1. torn' /\ disk = None /\ Kept(mem[w])
          BY <1>1, <1>7, <2>3, <4>1 DEF Good, Loaded, Now
        <5>2. Load(disk') = Empty
          BY <1>1, <5>1 DEF Load
        <5>3. \A p \in Port : Empty[p] = None
          BY DEF Empty
        <5> QED BY <1>1, <3>4, <5>1, <5>2, <5>3 DEF Kept
      <4>2. CASE ~Works(w, "save")
        <5>1. Kept(Load(disk)) /\ torn' = torn /\ Load(disk') = Load(disk)
          BY <1>1, <1>7, <2>3, <4>2 DEF Good, Now, Typed, Kinds
        <5> QED BY <1>1, <3>4, <5>1 DEF Kept
      <4> QED BY <4>1, <4>2
    <3>6. Kept(Now(w))'
      BY <1>1, <3>3, <3>5 DEF Kept, Load
    <3> QED BY <1>5, <2>1, <2>3, <3>1, <3>2, <3>6 DEF Good
  <2> QED BY <2>2, <2>3
<1> QED BY <1>6, <1>7

\* Steps that change nothing the invariant speaks of.
LEMMA Unmoved ==
    ASSUME Typed, NEW u \in {API, CLI}, lockfile' \in [Port -> Ip \cup {None}],
           status' \in [Port -> {None} \cup {<<ip>> : ip \in Ip \cup {None}}],
           UNCHANGED <<mem, disk, job, inbox, reply, table, ghosts>>
    PROVE  Typed' /\ (Good(u) => Good(u)')
<1>1. UNCHANGED <<promised, gone, mistaken, torn, stale, crossed>> /\ Worker' = Worker
  BY DEF ghosts, Worker
<1>2. Programs'
  BY <1>1 DEF Typed, Programs, Local, Used
<1>3. Typed'
  BY <1>1, <1>2, SocketSame DEF Typed, Kinds
<1>4. ASSUME Good(u) PROVE Good(u)'
  <2>1. \A p : \A v : Ends(p, v) <=> Ends(p, v)'
    BY DEF Ends, EndsIn
  <2>2. u \in Worker' /\ Only(u)' /\ Loaded(u)' /\ Fresh'
    BY <1>1, <1>4 DEF Good, Only, Loaded, Busy, Works, Load, Fresh
  <2>3. Kept(Now(u))'
    BY <1>1, <1>4, <2>1 DEF Good, Now, Works, Load, Kept
  <2>4. JobInv(u)'
    BY <1>1, <1>4, <2>1 DEF Good, JobInv, Deleting
  <2>5. SyncInv(u)'
    BY <1>1, <1>4 DEF Good, SyncInv, Works, SyncSent, Safe, ListPending, Used
  <2> QED BY <2>2, <2>3, <2>4, <2>5 DEF Good
<1> QED BY <1>3, <1>4

LEMMA MgrRestartStep ==
    ASSUME Typed, NEW u \in {API, CLI}, MgrRestart
    PROVE  Typed' /\ (Good(u) => Good(u)')
<1>1. /\ inbox' = << >> /\ table' = Empty /\ stale' = TRUE
      /\ UNCHANGED <<mem, disk, job, reply, lockfile, status, promised, gone, mistaken, torn, crossed>>
  BY DEF MgrRestart, files
<1>2. Worker' = Worker /\ DOMAIN inbox' = {} /\ table' \in [Port -> Password \cup {None}] /\ \A p \in Port : table'[p] = None
  BY <1>1 DEF Worker, Empty
<1>3. Programs'
  BY <1>1, <1>2 DEF Typed, Programs, Local, Used
<1>4. Typed'
  BY <1>1, <1>2, <1>3 DEF Typed, Kinds, Socket
<1>5. ASSUME Good(u) PROVE Good(u)'
  <2>1. \A p \in Port : \A v : Ends(p, v)'
    BY <1>2 DEF Ends, EndsIn
  <2>2. u \in Worker' /\ Only(u)' /\ Loaded(u)' /\ Fresh'
    BY <1>1, <1>2, <1>5 DEF Good, Only, Loaded, Busy, Works, Load, Fresh
  <2>3. Kept(Now(u))'
    BY <1>1, <1>5, <2>1 DEF Good, Now, Works, Load, Kept
  <2>4. JobInv(u)'
    <3>1. job[u].op \in {"add", "remove"} \/ Deleting(job[u]) => job[u].port \in Port
      BY <1>5, JobTyped DEF Good, Job, Exited, Idle, Deleting
    <3> QED BY <1>1, <1>5, <2>1, <3>1 DEF Good, JobInv, Deleting
  <2>5. SyncInv(u)'
    <3>1. ~ListPending' /\ SyncSent(u)'
      BY <1>2 DEF ListPending, SyncSent
    <3> QED BY <1>1, <1>2, <1>5, <3>1 DEF Good, SyncInv, Works
  <2> QED BY <2>2, <2>3, <2>4, <2>5 DEF Good
<1> QED BY <1>4, <1>5

-----------------------------------------------------------------------------
(* ss-manager carries out a request *)

\* What a request does to the table, and what is answered.
Carries(q, a) ==
    /\ Answer(q, a) /\ a \in Reply /\ a \notin {None, Timeout}
    /\ table' \in [Port -> Password \cup {None}]
    /\ \A p \in Port : Touches(q, p) => table'[p] = None \/ (q.act = "add" /\ table'[p] = q.arg)
    /\ \A p \in Port : ~Touches(q, p) => table'[p] = table[p]
    /\ q.act = "add" /\ a = Ok => table'[q.port] = q.arg
    /\ q.act = "list" => a = [res |-> "list", ports |-> Used(table)] /\ stale' = FALSE
    /\ q.act # "list" => a.res # "list" /\ stale' = stale

LEMMA Carried ==
    ASSUME Typed, Handle
    PROVE  /\ \E a : Carries(Head(inbox), a)
           /\ lockfile' \in [Port -> Ip \cup {None}] /\ status' \in [Port -> {None} \cup {<<ip>> : ip \in Ip \cup {None}}]
<1>1. PICK q : q = Head(inbox)
  OBVIOUS
<1>2. q \in Request
  BY <1>1, Taken DEF Handle, Typed, Socket
<1>3. /\ table \in [Port -> Password \cup {None}] /\ lockfile \in [Port -> Ip \cup {None}]
      /\ status \in [Port -> {None} \cup {<<ip>> : ip \in Ip \cup {None}}]
  BY DEF Typed, Kinds
<1>4. /\ Ok \in Reply /\ Ok \notin {None, Timeout} /\ Ok.res # "list"
      /\ Err \in Reply /\ Err \notin {None, Timeout} /\ Err.res # "list" /\ Err # Ok
  BY NoneAssumption DEF Reply, Ok, Err, Timeout
<1>5. ASSUME q.act = "add", HandleAdd(q)
      PROVE  \E a : Carries(q, a) /\ RemoveFiles(q.port)
  <2>1. q.port \in Port /\ q.arg \in Password
    BY <1>2, <1>5 DEF Request
  <2>2. \A p \in Port : Touches(q, p) <=> p = q.port
    BY <1>5 DEF Touches
  <2>3. RemoveFiles(q.port) /\ stale' = stale
    BY <1>5 DEF HandleAdd
  <2>4. CASE table' = [table EXCEPT ![q.port] = q.arg] /\ Answer(q, Ok)
    BY <1>3, <1>4, <1>5, <2>1, <2>2, <2>3, <2>4 DEF Carries
  <2>5. CASE table' = [table EXCEPT ![q.port] = q.arg] /\ Answer(q, Err)
    BY <1>3, <1>4, <1>5, <2>1, <2>2, <2>3, <2>5 DEF Carries
  <2>6. CASE table' = [table EXCEPT ![q.port] = None] /\ Answer(q, Err)
    BY <1>3, <1>4, <1>5, <2>1, <2>2, <2>3, <2>6 DEF Carries
  <2> QED BY <1>5, <2>4, <2>5, <2>6 DEF HandleAdd
<1>6. ASSUME q.act = "remove", table' = [table EXCEPT ![q.port] = None], RemoveFiles(q.port), Answer(q, Ok), stale' = stale
      PROVE  Carries(q, Ok)
  <2>1. q.port \in Port /\ \A p \in Port : Touches(q, p) <=> p = q.port
    BY <1>2, <1>6 DEF Request, Touches
  <2> QED BY <1>3, <1>4, <1>6, <2>1 DEF Carries
<1>7. ASSUME q.act \in {"set_ip", "clear_ip", "ip_status"}, table' = table, stale' = stale,
             NEW a \in Reply, Answer(q, a), a \notin {None, Timeout}, a.res # "list"
      PROVE  Carries(q, a)
  BY <1>3, <1>7 DEF Carries, Touches
<1>8. ASSUME q.act = "list", table' = table, stale' = FALSE, Answer(q, [res |-> "list", ports |-> Used(table)])
      PROVE  Carries(q, [res |-> "list", ports |-> Used(table)])
  <2>1. PICK a : a = [res |-> "list", ports |-> Used(table)]
    OBVIOUS
  <2>2. a \in Reply /\ a.res = "list" /\ a # Timeout /\ a # None
    BY <2>1, NoneAssumption DEF Reply, Used, Timeout
  <2> QED BY <1>3, <1>8, <2>1, <2>2 DEF Carries, Touches
<1>9. ASSUME NEW p \in Port, RemoveFiles(p)
      PROVE  lockfile' \in [Port -> Ip \cup {None}] /\ status' \in [Port -> {None} \cup {<<ip>> : ip \in Ip \cup {None}}]
  BY <1>3, <1>9 DEF RemoveFiles
<1>10. \/ q.act = "add" /\ HandleAdd(q)
       \/ /\ q.act = "remove" /\ table' = [table EXCEPT ![q.port] = None] /\ RemoveFiles(q.port)
          /\ Answer(q, Ok) /\ stale' = stale
       \/ q.act = "set_ip" /\ HandleSetIp(q)
       \/ /\ q.act = "clear_ip" /\ lockfile' = [lockfile EXCEPT ![q.port] = None] /\ Answer(q, Ok)
          /\ UNCHANGED <<status, table, stale>>
       \/ /\ q.act = "list" /\ Answer(q, [res |-> "list", ports |-> Used(table)]) /\ stale' = FALSE
          /\ UNCHANGED <<table, lockfile, status>>
       \/ /\ q.act = "ip_status" /\ Answer(q, ReadPortStatus(q.port)) /\ UNCHANGED <<table, lockfile, status, stale>>
  BY <1>1 DEF Handle, files
<1>11. CASE q.act = "add" /\ HandleAdd(q)
  <2>1. q.port \in Port
    BY <1>2, <1>11 DEF Request
  <2> QED BY <1>1, <1>5, <1>9, <1>11, <2>1
<1>12. CASE /\ q.act = "remove" /\ table' = [table EXCEPT ![q.port] = None] /\ RemoveFiles(q.port)
            /\ Answer(q, Ok) /\ stale' = stale
  <2>1. q.port \in Port
    BY <1>2, <1>12 DEF Request
  <2> QED BY <1>1, <1>6, <1>9, <1>12, <2>1
<1>13. CASE q.act = "set_ip" /\ HandleSetIp(q)
  <2>1. q.port \in Port /\ q.arg \in Ip
    BY <1>2, <1>13 DEF Request
  <2>2. lockfile' \in {[lockfile EXCEPT ![q.port] = q.arg], lockfile} /\ UNCHANGED <<status, table, stale>>
    BY <1>13 DEF HandleSetIp
  <2>3. Answer(q, Ok) \/ Answer(q, Err)
    BY <1>13 DEF HandleSetIp
  <2>4. lockfile' \in [Port -> Ip \cup {None}]
    BY <1>3, <2>1, <2>2
  <2> QED BY <1>1, <1>3, <1>4, <1>7, <1>13, <2>2, <2>3, <2>4
<1>14. CASE /\ q.act = "clear_ip" /\ lockfile' = [lockfile EXCEPT ![q.port] = None] /\ Answer(q, Ok)
            /\ UNCHANGED <<status, table, stale>>
  <2>1. q.port \in Port
    BY <1>2, <1>14 DEF Request
  <2>2. lockfile' \in [Port -> Ip \cup {None}]
    BY <1>3, <1>14, <2>1
  <2> QED BY <1>1, <1>3, <1>4, <1>7, <1>14, <2>2
<1>15. CASE /\ q.act = "list" /\ Answer(q, [res |-> "list", ports |-> Used(table)]) /\ stale' = FALSE
            /\ UNCHANGED <<table, lockfile, status>>
  BY <1>1, <1>3, <1>8, <1>15
<1>16. CASE q.act = "ip_status" /\ Answer(q, ReadPortStatus(q.port)) /\ UNCHANGED <<table, lockfile, status, stale>>
  <2>1. q.port \in Port
    BY <1>2, <1>16 DEF Request
  <2>2. PICK ip : ip = IF status[q.port] # None THEN status[q.port][1] ELSE lockfile[q.port]
    OBVIOUS
  <2>3. ip \in Ip \cup {None}
    BY <1>3, <2>1, <2>2
  <2>4. PICK a : a = [res |-> "status", ip |-> ip]
    OBVIOUS
  <2>5. a \in Reply /\ a # Timeout /\ a # None /\ a.res # "list" /\ ReadPortStatus(q.port) = a
    BY <2>2, <2>3, <2>4, NoneAssumption DEF Reply, Timeout, ReadPortStatus
  <2>6. Answer(q, a)
    BY <1>16, <2>5
  <2> QED BY <1>1, <1>3, <1>7, <1>16, <2>5, <2>6
<1> QED BY <1>10, <1>11, <1>12, <1>13, <1>14, <1>15, <1>16

\* Carrying out the first request does not change where a port ends.
LEMMA EndsCarried ==
    ASSUME Typed, inbox # << >>, inbox' = Tail(inbox), NEW a, Carries(Head(inbox), a), NEW p \in Port, NEW v, Ends(p, v)
    PROVE  Ends(p, v)'
<1>1. PICK q : q = Head(inbox)
  OBVIOUS
<1>2. PICK n \in Nat : n = Len(inbox) - 1
  <2>1. Len(inbox) \in Nat \ {0}
    BY Taken DEF Typed, Socket
  <2>2. Len(inbox) - 1 \in Nat
    BY <2>1
  <2> QED BY <2>2
<1>3. /\ q = inbox[1] /\ 1 \in DOMAIN inbox /\ DOMAIN inbox = 1..(n + 1) /\ DOMAIN inbox' = 1..n
      /\ \A i \in 1..n : inbox'[i] = inbox[i + 1]
  BY <1>1, <1>2, Taken DEF Typed, Socket
<1>4. ASSUME NEW i \in 1..n, Touches(inbox'[i], p), \A j \in 1..n : j > i => ~Touches(inbox'[j], p)
      PROVE  Gives(inbox'[i], v)
  <2>1. i + 1 \in 1..(n + 1) /\ inbox'[i] = inbox[i + 1]
    BY <1>3
  <2>2. ASSUME NEW j \in 1..(n + 1), j > i + 1 PROVE ~Touches(inbox[j], p)
    <3>1. PICK k \in 1..n : k = j - 1
      BY <2>2
    <3>2. k > i /\ inbox'[k] = inbox[j]
      BY <1>3, <2>2, <3>1
    <3> QED BY <1>4, <3>2
  <2> QED BY <1>3, <1>4, <2>1, <2>2 DEF Ends, EndsIn
<1>5. ASSUME \A i \in 1..n : ~Touches(inbox'[i], p) PROVE table'[p] \in {None, v}
  <2>1. ASSUME NEW j \in 1..(n + 1), j > 1 PROVE ~Touches(inbox[j], p)
    <3>1. PICK k \in 1..n : k = j - 1
      BY <2>1
    <3>2. inbox'[k] = inbox[j]
      BY <1>3, <2>1, <3>1
    <3> QED BY <1>5, <3>2
  <2>2. CASE Touches(q, p)
    <3>1. Gives(q, v)
      BY <1>3, <2>1, <2>2 DEF Ends, EndsIn
    <3>2. table'[p] = None \/ (q.act = "add" /\ table'[p] = q.arg)
      BY <1>1, <2>2 DEF Carries
    <3> QED BY <3>1, <3>2 DEF Gives
  <2>3. CASE ~Touches(q, p)
    <3>1. \A j \in 1..(n + 1) : j = 1 \/ j > 1
      OBVIOUS
    <3>2. \A j \in DOMAIN inbox : ~Touches(inbox[j], p)
      BY <1>3, <2>1, <2>3, <3>1
    <3>3. table'[p] = table[p]
      BY <1>1, <2>3 DEF Carries
    <3> QED BY <3>2, <3>3 DEF Ends, EndsIn
  <2> QED BY <2>2, <2>3
<1> QED BY <1>3, <1>4, <1>5 DEF Ends, EndsIn

LEMMA HandleStep ==
    ASSUME Typed, NEW u \in {API, CLI}, Handle
    PROVE  Typed' /\ (Good(u) => Good(u)')
<1>1. PICK q : q = Head(inbox)
  OBVIOUS
<1>2. PICK a : Carries(q, a)
  BY <1>1, Carried
<1>3. /\ inbox # << >> /\ inbox' = Tail(inbox)
      /\ UNCHANGED <<mem, disk, job, promised, gone, mistaken, torn, crossed>> /\ Worker' = Worker
  BY DEF Handle, Worker
<1>4. /\ inbox' \in Seq(Request) /\ q \in Request /\ Len(inbox) \in Nat \ {0} /\ q = inbox[1] /\ 1 \in DOMAIN inbox
      /\ Len(inbox') = Len(inbox) - 1 /\ DOMAIN inbox' = 1..(Len(inbox) - 1) /\ DOMAIN inbox = 1..Len(inbox)
      /\ \A i \in DOMAIN inbox' : inbox'[i] = inbox[i + 1] /\ i + 1 \in DOMAIN inbox
      /\ Len(inbox) = 1 => inbox' = << >>
  BY <1>1, <1>3, Taken DEF Typed, Socket
<1>5. q.from \in Worker \cup {None}
  BY <1>4 DEF Typed, Socket
<1>6. /\ reply' \in [Worker -> Reply \cup {None}]
      /\ \A v \in Worker : reply'[v] # reply[v] =>
             q.from = v /\ reply'[v] = a /\ job[v].op \in Waiting /\ reply[v] = None
  BY <1>2, <1>5 DEF Carries, Answer, Typed, Programs
<1>7. Programs'
  <2>1. \A v \in Worker : Local(job[v], mem[v], reply'[v])
    BY <1>6, JobTyped DEF Local
  <2>2. \A v \in Worker : Local(job[v], mem[v], reply[v])' <=> Local(job[v], mem[v], reply'[v])
    BY <1>3 DEF Local, Used
  <2> QED BY <1>3, <1>6, <2>1, <2>2 DEF Typed, Programs
<1>8. Socket'
  <2>1. ASSUME NEW i \in DOMAIN inbox' PROVE inbox'[i].from \in Worker \cup {None}
    BY <1>4, <2>1 DEF Typed, Socket
  <2> QED BY <1>3, <1>4, <2>1 DEF Socket
<1>9. Typed'
  <2>1. stale' \in BOOLEAN /\ table' \in [Port -> Password \cup {None}]
    <3>1. stale' \in {stale, FALSE}
      BY <1>2 DEF Carries
    <3> QED BY <1>2, <3>1 DEF Carries, Typed, Kinds
  <2> QED BY <1>3, <1>7, <1>8, <2>1, Carried DEF Typed, Kinds
<1>10. ASSUME Good(u) PROVE Good(u)'
  <2>1. \A p \in Port : \A v : Ends(p, v) => Ends(p, v)'
    BY <1>1, <1>2, <1>3, EndsCarried
  <2>2. u \in Worker /\ Only(u)' /\ Loaded(u)'
    BY <1>3, <1>10 DEF Good, Only, Loaded, Busy, Works, Load
  <2>3. Kept(Now(u))'
    <3>1. PICK S : S = Now(u)
      OBVIOUS
    <3>2. Now(u)' = S
      BY <1>3, <3>1 DEF Now, Works, Load
    <3>3. Kept(S)'
      BY <1>3, <1>10, <2>1, <3>1, KeptMoved DEF Good
    <3> QED BY <3>2, <3>3 DEF Kept
  <2>4. JobInv(u)'
    <3>1. job[u].op \in {"add", "remove"} \/ Deleting(job[u]) => job[u].port \in Port
      BY <2>2, JobTyped DEF Job, Exited, Idle, Deleting
    <3> QED BY <1>3, <1>10, <2>1, <3>1 DEF Good, JobInv, Deleting
  <2>5. Fresh'
    BY <1>3, <1>4, <1>10 DEF Good, Fresh, Works
  <2>6. SyncInv(u)'
    <3>1. ASSUME Works(u, "list")
          PROVE  /\ \A i \in DOMAIN inbox' : inbox'[i].from = u => i = Len(inbox') /\ inbox'[i].act = "list"
                 /\ reply'[u] \notin {None, Timeout} =>
                      /\ inbox' = << >> /\ reply'[u].res = "list"
                      /\ ~stale' => \A p \in reply'[u].ports : table'[p] # None
      <4>1. /\ \A i \in DOMAIN inbox : inbox[i].from = u => i = Len(inbox) /\ inbox[i].act = "list"
            /\ reply[u] \notin {None, Timeout} => inbox = << >>
        BY <1>10, <3>1 DEF Good, SyncInv
      <4>2. ASSUME NEW i \in DOMAIN inbox', inbox'[i].from = u PROVE i = Len(inbox') /\ inbox'[i].act = "list"
        <5>1. i + 1 = Len(inbox) /\ inbox[i + 1].act = "list" /\ inbox'[i] = inbox[i + 1]
          BY <1>4, <4>1, <4>2
        <5> QED BY <1>4, <5>1
      <4>3. ASSUME reply'[u] \notin {None, Timeout}
            PROVE  /\ inbox' = << >> /\ reply'[u].res = "list" /\ \A p \in reply'[u].ports : table'[p] # None
        <5>1. q.from = u /\ reply'[u] = a
          BY <1>3, <1>6, <2>2, <4>1, <4>3
        <5>2. Len(inbox) = 1 /\ q.act = "list"
          BY <1>4, <4>1, <5>1
        <5>3. a = [res |-> "list", ports |-> Used(table)] /\ \A p \in Port : table'[p] = table[p]
          BY <1>2, <5>2 DEF Carries, Touches
        <5>4. a.res = "list" /\ a.ports = Used(table)
          BY <5>3
        <5> QED BY <1>4, <5>1, <5>2, <5>3, <5>4 DEF Used
      <4> QED BY <4>2, <4>3
    <3>2. ASSUME job[u].op \in Syncing, ~job[u].errors
          PROVE  /\ SyncSent(u)'
                 /\ Works(u, "readd") /\ reply'[u] = Ok => inbox' = << >> /\ (~stale' => table'[job[u].port] # None)
                 /\ ~stale' => \A p \in Used(mem[u]) : p \notin job[u].todo \/ p \in job[u].active => Safe(p)'
                 /\ ~stale' /\ Works(u, "relock") => Safe(job[u].port)'
                 /\ ListPending' => ListPending
      <4>1. /\ SyncSent(u)
            /\ Works(u, "readd") /\ reply[u] = Ok => inbox = << >>
            /\ ~stale => \A p \in Used(mem[u]) : p \notin job[u].todo \/ p \in job[u].active => Safe(p)
            /\ ~stale /\ Works(u, "relock") => Safe(job[u].port)
            /\ ListPending => job[u].active = {} /\ job[u].todo = Used(mem[u]) /\ ~Works(u, "relock")
        BY <1>10, <3>2 DEF Good, SyncInv
      <4>2. /\ job[u].op # "sync" => job[u].port \in Port
            /\ job[u].op = "status" => job[u].port \in job[u].active
            /\ Used(mem[u]) \subseteq Port
        BY <2>2, <3>2, SyncTyped, JobTyped DEF Local, Used
      <4>3. q.act = "list" => ListPending
        BY <1>4 DEF ListPending
      <4>4. ASSUME q.from = u, q.act # "list"
            PROVE  Len(inbox) = 1 /\ (Works(u, "readd") => q.act = "add" /\ q.port = job[u].port)
        BY <1>4, <4>1, <4>4 DEF SyncSent, Works
      <4>5. SyncSent(u)'
        <5> SUFFICES ASSUME NEW i \in DOMAIN inbox', inbox'[i].from = u, inbox'[i].act # "list"
                     PROVE  /\ i = Len(inbox') /\ job[u].op # "sync"
                            /\ job[u].op = "readd" =>
                                 inbox'[i].act = "add" /\ inbox'[i].port = job[u].port /\ reply'[u] # Ok
                            /\ job[u].op # "readd" => reply'[u] \in {None, Timeout}
          BY <1>3 DEF SyncSent
        <5>1. /\ i + 1 = Len(inbox) /\ job[u].op # "sync" /\ inbox'[i] = inbox[i + 1]
              /\ job[u].op = "readd" =>
                    inbox[i + 1].act = "add" /\ inbox[i + 1].port = job[u].port /\ reply[u] # Ok
              /\ job[u].op # "readd" => reply[u] \in {None, Timeout}
          BY <1>4, <4>1 DEF SyncSent
        <5>2. i = Len(inbox') /\ Len(inbox) # 1
          BY <1>4, <5>1
        <5>3. ASSUME reply'[u] # reply[u] PROVE reply'[u] # Ok /\ job[u].op = "readd"
          <6>1. q.from = u /\ reply'[u] = a
            BY <1>6, <2>2, <5>3
          <6>2. q.act = "list"
            BY <4>4, <5>2, <6>1
          <6>3. a # Ok
            <7>1. a.res = "list"
              BY <1>2, <6>2 DEF Carries
            <7> QED BY <7>1, AnswersDiffer
          <6>4. job[u].active = {} /\ ~Works(u, "relock")
            BY <4>1, <4>3, <6>2
          <6> QED BY <3>2, <4>2, <5>1, <6>1, <6>3, <6>4 DEF Syncing, Works
        <5> QED BY <5>1, <5>2, <5>3
      <4>6. ASSUME Works(u, "readd"), reply'[u] = Ok PROVE inbox' = << >> /\ table'[job[u].port] # None
        <5>1. q.from = u /\ a = Ok
          BY <1>3, <1>6, <2>2, <4>1, <4>6
        <5>2. q.act # "list"
          BY <1>2, <5>1, AnswersDiffer DEF Carries
        <5>3. Len(inbox) = 1 /\ q.act = "add" /\ q.port = job[u].port
          BY <4>4, <4>6, <5>1, <5>2
        <5>4. q.arg \in Password
          BY <1>4, <5>3 DEF Request
        <5>5. table'[q.port] = q.arg
          BY <1>2, <5>1, <5>3 DEF Carries
        <5> QED BY <1>4, <5>3, <5>4, <5>5, NoEntry
      <4>7. ASSUME NEW p \in Port, Safe(p) PROVE Safe(p)'
        <5>1. ~Touches(q, p) /\ table[p] # None
          BY <1>4, <4>7 DEF Safe
        <5>2. table'[p] = table[p]
          BY <1>2, <5>1 DEF Carries
        <5>3. \A i \in DOMAIN inbox' : ~Touches(inbox'[i], p)
          BY <1>4, <4>7 DEF Safe
        <5> QED BY <5>1, <5>2, <5>3 DEF Safe
      <4>8. stale /\ ~stale' => ListPending
        BY <1>2, <4>3 DEF Carries
      <4>9. ListPending' => ListPending
        BY <1>4 DEF ListPending
      <4>10. ASSUME ~stale', NEW p \in Used(mem[u]), p \notin job[u].todo \/ p \in job[u].active PROVE Safe(p)'
        <5>1. ~ListPending
          BY <4>1, <4>10
        <5>2. Safe(p)
          BY <4>1, <4>8, <4>10, <5>1
        <5> QED BY <4>2, <4>7, <5>2
      <4>11. ASSUME ~stale', Works(u, "relock") PROVE Safe(job[u].port)'
        <5>1. ~ListPending /\ job[u].port \in Port
          BY <4>1, <4>2, <4>11 DEF Works
        <5>2. Safe(job[u].port)
          BY <4>1, <4>8, <4>11, <5>1
        <5>3. PICK p \in Port : p = job[u].port
          BY <5>1
        <5>4. Safe(p)'
          BY <4>7, <5>2, <5>3
        <5> QED BY <1>3, <5>3, <5>4 DEF Safe
      <4> QED BY <4>5, <4>6, <4>9, <4>10, <4>11
    <3>3. Used(mem'[u]) = Used(mem[u]) /\ Used(mem[u])' = Used(mem[u])
      BY <1>3 DEF Used
    <3>4. ASSUME job[u].op \in Syncing, ~job[u].errors, ListPending
          PROVE  job[u].active = {} /\ job[u].todo = Used(mem[u]) /\ ~Works(u, "relock")
      BY <1>10, <3>4 DEF Good, SyncInv
    <3>5. /\ job' = job /\ (Works(u, "list")' <=> Works(u, "list")) /\ (Works(u, "readd")' <=> Works(u, "readd"))
          /\ Works(u, "relock")' <=> Works(u, "relock")
      BY <1>3 DEF Works
    <3>6. CASE Works(u, "list")
      BY <3>1, <3>5, <3>6 DEF SyncInv, Works, Syncing
    <3>7. CASE job[u].op \in Syncing /\ ~job[u].errors
      <4>1. ~Works(u, "list")
        BY <3>7 DEF Works, Syncing
      <4> QED BY <3>2, <3>3, <3>4, <3>5, <3>7, <4>1 DEF SyncInv
    <3>8. CASE ~Works(u, "list") /\ ~(job[u].op \in Syncing /\ ~job[u].errors)
      BY <3>5, <3>8 DEF SyncInv
    <3> QED BY <3>6, <3>7, <3>8
  <2> QED BY <1>3, <2>2, <2>3, <2>4, <2>5, <2>6 DEF Good
<1> QED BY <1>9, <1>10

-----------------------------------------------------------------------------
(* The invariant is inductive *)

\* A program goes on with its operation.
LEMMA Continued ==
    ASSUME IInv, Typed', NEW w \in Worker, Busy(w), Good(w) => Good(w)', crossed' = crossed
    PROVE  IInv'
<1>1. w \in {API, CLI}
  BY JobTyped DEF IInv
<1>2. CASE crossed
  BY <1>2 DEF IInv
<1>3. CASE ~crossed
  <2>1. Good(w)
    BY <1>3, Working DEF IInv
  <2> QED BY <1>1, <2>1 DEF IInv
<1> QED BY <1>2, <1>3

\* A program begins an operation.
LEMMA Begun ==
    ASSUME IInv, Typed', NEW w \in Worker, NEW keys, Begin(w, keys), Good(w) /\ ~crossed' => Good(w)'
    PROVE  IInv'
<1>1. w \in {API, CLI} /\ Typed
  BY JobTyped DEF IInv
<1>2. CASE crossed'
  BY <1>2 DEF IInv
<1>3. CASE ~crossed'
  <2>1. ~crossed /\ Only(w)
    BY <1>1, <1>3, Begins
  <2>2. Good(w)
    BY <1>1, <2>1, Handover DEF IInv
  <2> QED BY <1>1, <1>3, <2>2 DEF IInv
<1> QED BY <1>2, <1>3

\* A step that is nobody's operation.
LEMMA Watched ==
    ASSUME IInv, Typed', \A u \in {API, CLI} : Good(u) => Good(u)', crossed' = crossed
    PROVE  IInv'
BY DEF IInv

LEMMA InitIInv == Init => IInv
<1> SUFFICES ASSUME Init PROVE IInv
  OBVIOUS
<1>1. PICK used \in Deployment : job = [w \in used |-> Exited]
  BY DEF Init
<1>2. /\ Worker = used /\ used \subseteq {API, CLI} /\ used # {}
  BY <1>1, KeyStoreAssumption DEF Worker, API, CLI
<1>3. /\ Exited \in Job /\ Exited.op = "exited" /\ job \in [Worker -> Job] /\ \A w \in Worker : job[w] = Exited
  BY <1>1, <1>2 DEF Job, Exited
<1>4. /\ Empty \in Keys /\ \A p \in Port : Empty[p] = None
  BY DEF Empty, Keys
<1>5. Programs
  <2>1. mem = [w \in Worker |-> Empty] /\ reply = [w \in Worker |-> None]
    BY DEF Init
  <2>2. mem \in [Worker -> Keys] /\ reply \in [Worker -> Reply \cup {None}]
    BY <1>4, <2>1
  <2>3. \A w \in Worker : Local(job[w], mem[w], reply[w])
    BY <1>3, <2>1 DEF Local, Syncing
  <2> QED BY <1>2, <1>3, <2>2, <2>3 DEF Programs
<1>6. Socket /\ Kinds
  <2>1. /\ Empty \in [Port -> Password \cup {None}] /\ Empty \in [Port -> Ip \cup {None}]
        /\ Empty \in [Port -> {None} \cup {<<ip>> : ip \in Ip \cup {None}}]
    BY DEF Empty
  <2>2. Kinds
    BY <1>4, <2>1 DEF Init, Kinds
  <2>3. Socket
    BY DEF Init, Socket
  <2> QED BY <2>2, <2>3
<1>7. PICK w \in {API, CLI} : w \in Worker
  BY <1>2
<1>8. \A v \in Worker : ~Busy(v) /\ job[v].op = "exited"
  BY <1>3 DEF Busy
<1>9. Only(w) /\ Loaded(w) /\ JobInv(w) /\ SyncInv(w) /\ Fresh
  BY <1>7, <1>8 DEF Only, Loaded, Works, JobInv, Deleting, SyncInv, Syncing, Fresh
<1>10. Kept(Now(w))
  <2>1. Now(w) = Empty
    BY <1>7, <1>8 DEF Now, Works, Load, Init
  <2> QED BY <1>4, <2>1 DEF Kept, Init
<1> QED BY <1>5, <1>6, <1>7, <1>9, <1>10 DEF IInv, Typed, Good

LEMMA OperationIInv ==
    ASSUME IInv, NEW w \in Worker, Operation(w)
    PROVE  IInv'
<1>0. Typed /\ w \in {API, CLI}
  BY JobTyped DEF IInv
<1>1. CASE \E n \in Name, p \in Port, pw \in Password : AddKey(w, n, p, pw)
  <2>1. PICK n \in Name, p \in Port, pw \in Password : AddKey(w, n, p, pw)
    BY <1>1
  <2>2. Begin(w, mem[w])
    BY <2>1 DEF AddKey
  <2> QED BY <1>0, <2>1, <2>2, AddKeyStep, Begun
<1>2. ASSUME NEW op, Answered(w, op), op \notin {"idle", "exited", "save"} PROVE Busy(w)
  BY <1>2 DEF Answered, Works, Busy
<1>3. CASE AddReplied(w)
  <2>1. Busy(w) /\ crossed' = crossed
    BY <1>2, <1>3 DEF AddReplied, ghosts
  <2> QED BY <1>0, <1>3, <2>1, AddRepliedStep, Continued
<1>4. CASE DeleteCleared(w)
  <2>1. Busy(w) /\ crossed' = crossed
    BY <1>2, <1>4 DEF DeleteCleared, ghosts
  <2> QED BY <1>0, <1>4, <2>1, DeleteClearedStep, Continued
<1>5. CASE DeleteReplied(w)
  <2>1. Busy(w) /\ crossed' = crossed
    BY <1>2, <1>5 DEF DeleteReplied, ghosts
  <2> QED BY <1>0, <1>5, <2>1, DeleteRepliedStep, Continued
<1>6. CASE LockReplied(w)
  <2>1. Busy(w) /\ crossed' = crossed
    BY <1>2, <1>6 DEF LockReplied, ghosts
  <2> QED BY <1>0, <1>6, <2>1, LockRepliedStep, Continued
<1>7. CASE Save(w)
  <2>1. Busy(w) /\ crossed' = crossed
    BY <1>7 DEF Save, Works, Busy
  <2> QED BY <1>0, <1>7, <2>1, SaveStep, Continued
<1>8. CASE Listed(w)
  <2>1. Busy(w) /\ crossed' = crossed
    BY <1>2, <1>8 DEF Listed, ghosts
  <2> QED BY <1>0, <1>8, <2>1, ListedStep, Continued
<1>9. CASE SyncPort(w)
  <2>1. Busy(w) /\ crossed' = crossed
    BY <1>9 DEF SyncPort, Works, Busy, ghosts
  <2> QED BY <1>0, <1>9, <2>1, SyncPortStep, Continued
<1>10. CASE SyncReadded(w)
  <2>1. Busy(w) /\ crossed' = crossed
    BY <1>2, <1>10 DEF SyncReadded, ghosts
  <2> QED BY <1>0, <1>10, <2>1, SyncReaddedStep, Continued
<1>11. CASE SyncStatus(w)
  <2>1. Busy(w) /\ crossed' = crossed
    BY <1>2, <1>11 DEF SyncStatus, ghosts
  <2> QED BY <1>0, <1>11, <2>1, SyncStatusStep, Continued
<1>12. CASE SyncRelocked(w)
  <2>1. Busy(w) /\ crossed' = crossed
    BY <1>2, <1>12 DEF SyncRelocked, ghosts
  <2> QED BY <1>0, <1>12, <2>1, SyncRelockedStep, Continued
<1>13. CASE SyncEnd(w)
  <2>1. Busy(w) /\ crossed' = crossed
    BY <1>13 DEF SyncEnd, Works, Busy, ghosts
  <2> QED BY <1>0, <1>13, <2>1, SyncEndStep, Continued
<1>14. CASE Start(w)
  <2>0. API # CLI
    BY DEF API, CLI
  <2>1. CASE w = API
    <3>1. Begin(API, Load(disk))
      BY <1>14, <2>0, <2>1 DEF Start
    <3> QED BY <1>0, <1>14, <2>1, <3>1, StartApiStep, Begun
  <2>2. CASE w = CLI
    <3>1. crossed' = crossed
      BY <1>14, <2>0, <2>2 DEF Start
    <3> QED BY <1>0, <1>14, <2>2, <3>1, StartCliStep, Watched
  <2> QED BY <1>0, <2>1, <2>2
<1>15. CASE TimesOut(w)
  <2>1. Busy(w) /\ crossed' = crossed
    BY <1>15 DEF TimesOut, Waiting, Busy, ghosts
  <2> QED BY <1>0, <1>15, <2>1, TimesOutStep, Continued
<1>16. CASE Crash(w)
  <2>1. crossed' = crossed
    BY <1>16 DEF Crash
  <2>2. Typed' /\ \A u \in {API, CLI} : Good(u) => Good(u)'
    BY <1>0, <1>16, CrashStep
  <2> QED BY <2>1, <2>2, Watched
<1> QED BY <1>1, <1>3, <1>4, <1>5, <1>6, <1>7, <1>8, <1>9, <1>10, <1>11, <1>12, <1>13, <1>14, <1>15, <1>16 DEF Operation

LEMMA UsedPort ==
    ASSUME NEW m, NEW n
    PROVE  FindByName(m, n) \subseteq Port /\ Used(m) \subseteq Port
BY DEF FindByName, Used

LEMMA ApiIInv ==
    ASSUME IInv, ApiNext
    PROVE  IInv'
<1>0. Typed /\ API \in Worker
  BY DEF IInv, ApiNext
<1>1. PICK p \in Port :
         \/ ApiDelete(p) \/ ApiClearIp(p)
         \/ \E what \in {"name", "lock"} : Admit(what, p)
         \/ \E n \in Name : PutName(p, n)
         \/ \E ip \in Ip : ApiLockIp(p, ip)
  BY DEF ApiNext
<1>2. CASE ApiDelete(p)
  <2>1. PICK q \in Port : DeleteFound(API, q, p) /\ Works(API, "idle")
    BY <1>2, UsedPort DEF ApiDelete, Asked
  <2>2. Begin(API, mem[API])
    BY <2>1 DEF DeleteFound
  <2> QED BY <1>0, <2>1, <2>2, DeleteFoundStep, Begun
<1>3. CASE ApiClearIp(p)
  <2>1. AskLock(API, p, None) /\ Works(API, "idle")
    BY <1>3 DEF ApiClearIp, Asked
  <2>2. Begin(API, mem[API])
    BY <2>1 DEF AskLock
  <2> QED BY <1>0, <2>1, <2>2, AskLockStep, Begun
<1>4. ASSUME NEW what \in {"name", "lock"}, Admit(what, p) PROVE IInv'
  <2>1. UNCHANGED <<mem, disk, job, inbox, reply, table, ghosts>> /\ UNCHANGED <<lockfile, status>>
    BY <1>4 DEF Admit, files
  <2>2. crossed' = crossed
    BY <2>1 DEF ghosts
  <2>3. lockfile' \in [Port -> Ip \cup {None}] /\ status' \in [Port -> {None} \cup {<<ip>> : ip \in Ip \cup {None}}]
    BY <1>0, <2>1 DEF Typed, Kinds
  <2>4. Typed' /\ \A u \in {API, CLI} : Good(u) => Good(u)'
    BY <1>0, <2>1, <2>3, Unmoved
  <2> QED BY <2>2, <2>4, Watched
<1>5. ASSUME NEW n \in Name, PutName(p, n) PROVE IInv'
  <2>1. Begin(API, mem[API])
    BY <1>5 DEF PutName
  <2> QED BY <1>0, <1>5, <2>1, PutNameStep, Begun
<1>6. ASSUME NEW ip \in Ip, ApiLockIp(p, ip) PROVE IInv'
  <2>1. AskLock(API, p, ip) /\ Works(API, "idle")
    BY <1>6 DEF ApiLockIp
  <2>2. Begin(API, mem[API])
    BY <2>1 DEF AskLock
  <2> QED BY <1>0, <2>1, <2>2, AskLockStep, Begun
<1> QED BY <1>1, <1>2, <1>3, <1>4, <1>5, <1>6

LEMMA CliIInv ==
    ASSUME IInv, CliNext
    PROVE  IInv'
<1>0. Typed /\ CLI \in Worker
  BY DEF IInv, CliNext
<1>1. CASE CliSync
  <2>1. Begin(CLI, mem[CLI])
    BY <1>1 DEF CliSync
  <2> QED BY <1>0, <1>1, <2>1, CliSyncStep, Begun
<1>2. ASSUME NEW n \in Name, CliDelete(n) PROVE IInv'
  <2>1. PICK p \in Port : DeleteFound(CLI, p, p) /\ Works(CLI, "idle")
    BY <1>2, UsedPort DEF CliDelete, Asked
  <2>2. Begin(CLI, mem[CLI])
    BY <2>1 DEF DeleteFound
  <2> QED BY <1>0, <2>1, <2>2, DeleteFoundStep, Begun
<1>3. ASSUME NEW n \in Name, NEW ip \in Ip \cup {None}, CliLock(n, ip) PROVE IInv'
  <2>1. PICK p \in Port : AskLock(CLI, p, ip) /\ Works(CLI, "idle")
    BY <1>3, UsedPort DEF CliLock, Asked
  <2>2. Begin(CLI, mem[CLI])
    BY <2>1 DEF AskLock
  <2> QED BY <1>0, <2>1, <2>2, AskLockStep, Begun
<1> QED BY <1>1, <1>2, <1>3 DEF CliNext

LEMMA ManagerIInv ==
    ASSUME IInv, ManagerNext
    PROVE  IInv'
<1>0. Typed
  BY DEF IInv
<1>1. CASE Handle
  <2>1. crossed' = crossed /\ Typed' /\ \A u \in {API, CLI} : Good(u) => Good(u)'
    BY <1>0, <1>1, HandleStep DEF Handle
  <2> QED BY <2>1, Watched
<1>2. CASE MgrRestart
  <2>1. crossed' = crossed /\ Typed' /\ \A u \in {API, CLI} : Good(u) => Good(u)'
    BY <1>0, <1>2, MgrRestartStep DEF MgrRestart
  <2> QED BY <2>1, Watched
<1>3. ASSUME NEW p \in Port, NEW ip \in Ip \cup {None}, ServerWrites(p, ip) PROVE IInv'
  <2>1. /\ UNCHANGED <<mem, disk, job, inbox, reply, table, ghosts>> /\ status' = [status EXCEPT ![p] = <<ip>>]
        /\ lockfile' = lockfile \/ (ip # None /\ lockfile' = [lockfile EXCEPT ![p] = ip])
    BY <1>3 DEF ServerWrites
  <2>2. crossed' = crossed
    BY <2>1 DEF ghosts
  <2>3. lockfile' \in [Port -> Ip \cup {None}] /\ status' \in [Port -> {None} \cup {<<i>> : i \in Ip \cup {None}}]
    BY <1>0, <2>1 DEF Typed, Kinds
  <2>4. Typed' /\ \A u \in {API, CLI} : Good(u) => Good(u)'
    BY <1>0, <2>1, <2>3, Unmoved
  <2> QED BY <2>2, <2>4, Watched
<1> QED BY <1>1, <1>2, <1>3 DEF ManagerNext

LEMMA NextIInv == IInv /\ [Next]_vars => IInv'
<1> SUFFICES ASSUME IInv, [Next]_vars PROVE IInv'
  OBVIOUS
<1>1. CASE UNCHANGED vars
  <2>1. UNCHANGED <<mem, disk, job, inbox, reply, table, lockfile, status, ghosts>>
    BY <1>1 DEF vars, files
  <2>2. Typed /\ crossed' = crossed
    BY <2>1 DEF IInv, ghosts
  <2>3. lockfile' \in [Port -> Ip \cup {None}] /\ status' \in [Port -> {None} \cup {<<ip>> : ip \in Ip \cup {None}}]
    BY <2>1, <2>2 DEF Typed, Kinds
  <2>4. Typed' /\ \A u \in {API, CLI} : Good(u) => Good(u)'
    BY <2>1, <2>2, <2>3, Unmoved
  <2> QED BY <2>2, <2>4, Watched
<1>2. CASE \E w \in Worker : Operation(w)
  BY <1>2, OperationIInv
<1>3. CASE ApiNext
  BY <1>3, ApiIInv
<1>4. CASE CliNext
  BY <1>4, CliIInv
<1>5. CASE ManagerNext
  BY <1>5, ManagerIInv
<1> QED BY <1>1, <1>2, <1>3, <1>4, <1>5 DEF Next

\* The store and what waits for ss-manager never part, whoever works on it.
THEOREM StoreFollowed == Spec => []IInv
<1>1. Init => IInv
  BY InitIInv
<1>2. IInv /\ [Next]_vars => IInv'
  BY NextIInv
<1> QED BY <1>1, <1>2, PTL DEF Spec

-----------------------------------------------------------------------------
(* What follows *)

LEMMA LastTouch ==
    ASSUME Socket, NEW p, \E i \in DOMAIN inbox : Touches(inbox[i], p)
    PROVE  \E i \in DOMAIN inbox : Touches(inbox[i], p) /\ \A j \in DOMAIN inbox : j > i => ~Touches(inbox[j], p)
<1>1. PICK n \in Nat : n = Len(inbox) /\ DOMAIN inbox = 1..n
  BY DEF Socket
<1>2. PICK T : T = {k \in Nat : k < n /\ Touches(inbox[n - k], p)}
  OBVIOUS
<1>3. T \subseteq Nat /\ T # {}
  <2>1. PICK i \in 1..n : Touches(inbox[i], p)
    BY <1>1
  <2>2. n - i \in Nat /\ n - i < n /\ n - (n - i) = i
    OBVIOUS
  <2>3. n - i \in T
    BY <1>2, <2>1, <2>2
  <2> QED BY <1>2, <2>3
<1>4. PICK k \in T : \A m \in T : k <= m
  BY <1>3, LeastNat
<1>5. k \in Nat /\ k < n /\ Touches(inbox[n - k], p)
  BY <1>2, <1>4
<1>6. n - k \in DOMAIN inbox
  BY <1>1, <1>5
<1>7. ASSUME NEW j \in DOMAIN inbox, j > n - k PROVE ~Touches(inbox[j], p)
  <2>1. j \in 1..n /\ n - j \in Nat /\ n - j < n /\ n - (n - j) = j /\ n - j < k
    BY <1>1, <1>5, <1>7
  <2>2. n - j \notin T
    BY <1>4, <1>5, <2>1
  <2> QED BY <1>2, <2>1, <2>2
<1> QED BY <1>5, <1>6, <1>7

LEMMA Durable == IInv => KeysDurable
<1> SUFFICES ASSUME IInv, disk # None, ~torn, ~crossed, NEW p \in Port \ mistaken, promised[p] # None
             PROVE  disk[p] # None /\ disk[p].password = promised[p]
  BY DEF KeysDurable
<1>1. PICK u \in {API, CLI} : Good(u)
  BY DEF IInv
<1>2. Now(u) = disk
  BY <1>1 DEF Good, Loaded, Now, Load
<1> QED BY <1>1, <1>2 DEF Good, Kept

LEMMA Agreed == IInv => PasswordsAgree
<1> SUFFICES ASSUME IInv, \A w \in Worker : ~Busy(w), inbox = << >>, disk # None, ~crossed,
                    NEW p \in Port, disk[p] # None, table[p] # None
             PROVE  disk[p].password = table[p]
  BY DEF PasswordsAgree
<1>1. PICK u \in {API, CLI} : Good(u)
  BY DEF IInv
<1>2. Now(u) = disk
  BY <1>1 DEF Good, Loaded, Now, Load
<1>3. Ends(p, disk[p].password)
  BY <1>1, <1>2 DEF Good, Kept
<1>4. \A i \in DOMAIN inbox : ~Touches(inbox[i], p)
  OBVIOUS
<1>5. table[p] \in {None, disk[p].password}
  BY <1>3, <1>4 DEF Ends, EndsIn
<1> QED BY <1>5

LEMMA Served == IInv => ServedAsStored
<1> SUFFICES ASSUME IInv PROVE ServedAsStored
  OBVIOUS
<1>0. Typed
  BY DEF IInv
<1>1. TypeOK
  <2>1. \A w \in Worker : reply[w] # None => job[w].op \in Waiting
    BY <1>0, JobTyped DEF Local
  <2>2. DOMAIN inbox = 1..Len(inbox)
    BY <1>0 DEF Typed, Socket
  <2> QED BY <1>0, <2>1, <2>2 DEF Typed, Programs, Socket, Kinds, TypeOK
<1>2. SyncComplete
  <2> SUFFICES ASSUME NEW w \in Worker, Works(w, "sync"), job[w].todo = {}, ~job[w].errors, ~stale, ~crossed,
                      NEW p \in Used(mem[w])
               PROVE  table[p] # None
    BY DEF SyncComplete
  <2>1. Busy(w) /\ job[w].op \in Syncing
    BY DEF Works, Busy, Syncing
  <2>2. Good(w)
    BY <2>1, Working DEF IInv
  <2>3. Safe(p)
    BY <2>1, <2>2 DEF Good, SyncInv
  <2> QED BY <2>3 DEF Safe
<1>3. DeletedGone
  <2> SUFFICES ASSUME ~crossed, NEW p \in gone \ mistaken
               PROVE  \/ table[p] = None /\ \A i \in DOMAIN inbox : ~(inbox[i].act = "add" /\ inbox[i].port = p)
                      \/ \E i \in DOMAIN inbox :
                            /\ inbox[i].act = "remove" /\ inbox[i].port = p
                            /\ \A j \in DOMAIN inbox : j > i => ~(inbox[j].act = "add" /\ inbox[j].port = p)
    BY DEF DeletedGone
  <2>1. PICK u \in {API, CLI} : Good(u)
    BY DEF IInv
  <2>2. p \in Port /\ Ends(p, None)
    BY <1>0, <2>1 DEF Good, Kept, Typed, Kinds
  <2>3. CASE \A i \in DOMAIN inbox : ~Touches(inbox[i], p)
    BY <2>2, <2>3 DEF Ends, EndsIn, Touches
  <2>4. CASE \E i \in DOMAIN inbox : Touches(inbox[i], p)
    <3>1. PICK i \in DOMAIN inbox : Touches(inbox[i], p) /\ \A j \in DOMAIN inbox : j > i => ~Touches(inbox[j], p)
      BY <1>0, <2>4, LastTouch DEF Typed
    <3>2. Gives(inbox[i], None) /\ inbox[i] \in Request
      BY <1>0, <2>2, <3>1 DEF Ends, EndsIn, Typed, Socket
    <3>3. inbox[i].act = "remove" /\ inbox[i].port = p
      BY <3>1, <3>2, NoEntry DEF Touches, Gives, Request
    <3> QED BY <3>1, <3>3 DEF Touches
  <2> QED BY <2>3, <2>4
<1> QED BY <1>1, <1>2, <1>3 DEF ServedAsStored

\* Through timeouts, answers read as those of other requests, crashes and
\* restarts, ports.json keeps every key that was reported as created and not
\* asked to be deleted.
THEOREM KeysDurableAlways == Spec => []KeysDurable
<1>1. IInv => KeysDurable
  BY Durable
<1> QED BY <1>1, StoreFollowed, PTL

\* When all is at rest, ss-manager serves no key under another password than
\* ports.json has: an `ok' may belong to another request, but what waits in
\* the socket is carried out in the order in which it was asked.
THEOREM PasswordsAgreeAlways == Spec => []PasswordsAgree
<1>1. IInv => PasswordsAgree
  BY Agreed
<1> QED BY <1>1, StoreFollowed, PTL

\* A synchronisation without errors leaves every key served, and a key
\* reported as deleted does not come back, through late requests and answers.
THEOREM ServedAsStoredAlways == Spec => []ServedAsStored
<1>1. IInv => ServedAsStored
  BY Served
<1> QED BY <1>1, StoreFollowed, PTL

-----------------------------------------------------------------------------
(* One program in use *)

\* A single program never meets work of another: what it has in memory is
\* what it last stored.
Alone ==
    /\ Typed /\ ~crossed /\ \A v, w \in Worker : v = w
    /\ \A w \in Worker : job[w].op \notin {"exited", "save"} => mem[w] = Load(disk)

LEMMA AloneBegins ==
    ASSUME Alone, NEW w \in Worker, NEW keys, Begin(w, keys), keys = Load(disk)
    PROVE  ~crossed'
BY DEF Alone, Begin

\* The steps after which a program's keys are still those of the store.
LEMMA AloneStep ==
    ASSUME Alone, Typed', ~crossed', Worker' = Worker, NEW w \in Worker,
           \/ job'[w].op \in {"exited", "save"}
           \/ job[w].op \notin {"exited", "save"} /\ mem' = mem /\ disk' = disk
           \/ mem'[w] = Load(disk')
    PROVE  Alone'
<1>1. \A v \in Worker : v = w
  BY DEF Alone
<1>2. job'[w].op \notin {"exited", "save"} => mem'[w] = Load(disk')
  BY DEF Alone
<1>3. \A v \in Worker' : job'[v].op \notin {"exited", "save"} => mem'[v] = Load(disk')
  BY <1>1, <1>2
<1> QED BY <1>1, <1>3 DEF Alone, Load

LEMMA AloneDone ==
    ASSUME Alone, Typed', ~crossed', NEW w \in Worker, job[w].op \notin {"exited", "save"}, Done(w), disk' = disk
    PROVE  Alone'
<1>1. Worker' = Worker
  BY DEF Done, Worker, Alone, Typed, Programs
<1>2. CASE w = CLI
  <2>1. job'[w].op = "exited"
    BY <1>2 DEF Done, Exited, Alone, Typed, Programs
  <2> QED BY <1>1, <2>1, AloneStep
<1>3. CASE w # CLI
  <2>1. mem' = mem
    BY <1>3 DEF Done
  <2> QED BY <1>1, <2>1, AloneStep
<1> QED BY <1>2, <1>3

LEMMA AloneStore ==
    ASSUME Alone, Typed', ~crossed', NEW w \in Worker, NEW p, NEW e, NEW done, NEW asked, Store(w, p, e, done, asked)
    PROVE  Alone'
<1>1. Worker' = Worker /\ job'[w].op = "save"
  BY DEF Store, Worker, Alone, Typed, Programs
<1> QED BY <1>1, AloneStep

\* A program goes on.
LEMMA AloneOn ==
    ASSUME Alone, Typed', ~crossed', NEW w \in Worker, job[w].op \notin {"exited", "save"}, NEW j,
           job' = [job EXCEPT ![w] = j], mem' = mem, disk' = disk
    PROVE  Alone'
<1>1. Worker' = Worker
  BY DEF Worker, Alone, Typed, Programs
<1> QED BY <1>1, AloneStep

LEMMA AloneSame ==
    ASSUME Alone, Typed', UNCHANGED <<mem, disk, job, crossed>>
    PROVE  Alone'
BY DEF Alone, Worker, Load

LEMMA AloneOperation ==
    ASSUME Alone, NEW w \in Worker, Operation(w)
    PROVE  Alone'
<1>0. Typed /\ w \in {API, CLI} /\ ~crossed /\ (job[w].op \notin {"exited", "save"} => mem[w] = Load(disk))
  BY JobTyped DEF Alone
<1>1. CASE \E n \in Name, p \in Port, pw \in Password : AddKey(w, n, p, pw)
  <2>1. PICK n \in Name, p \in Port, pw \in Password : AddKey(w, n, p, pw)
    BY <1>1
  <2>2. /\ job[w].op = "idle" /\ mem' = mem /\ disk' = disk /\ Begin(w, mem[w])
        /\ job' = [job EXCEPT ![w] = [op |-> "add", port |-> p, name |-> Strip[n], arg |-> pw]]
    BY <2>1 DEF AddKey, Asked, Works
  <2>3. ~crossed' /\ Typed'
    BY <1>0, <2>1, <2>2, AloneBegins, AddKeyStep
  <2> QED BY <2>2, <2>3, AloneOn
<1>3. CASE AddReplied(w)
  <2>1. job[w].op = "add" /\ ~crossed' /\ Typed'
    BY <1>0, <1>3, AddRepliedStep DEF AddReplied, Answered, Works, ghosts
  <2>2. CASE reply[w] = Ok
    BY <1>3, <2>1, <2>2, AloneStore DEF AddReplied
  <2>3. CASE reply[w] # Ok
    BY <1>0, <1>3, <2>1, <2>3, GaveUp, AloneDone DEF AddReplied
  <2> QED BY <2>2, <2>3
<1>4. CASE DeleteCleared(w)
  <2>1. job[w].op = "clear" /\ ~crossed' /\ Typed' /\ mem' = mem /\ disk' = disk
    BY <1>0, <1>4, DeleteClearedStep DEF DeleteCleared, Answered, Works, ghosts
  <2>2. \E j : job' = [job EXCEPT ![w] = j]
    BY <1>4 DEF DeleteCleared
  <2> QED BY <2>1, <2>2, AloneOn
<1>5. CASE DeleteReplied(w)
  <2>1. job[w].op = "remove" /\ ~crossed' /\ Typed'
    BY <1>0, <1>5, DeleteRepliedStep DEF DeleteReplied, Answered, Works, ghosts
  <2>2. CASE reply[w] = Ok
    BY <1>5, <2>1, <2>2, AloneStore DEF DeleteReplied
  <2>3. CASE reply[w] # Ok
    BY <1>0, <1>5, <2>1, <2>3, GaveUp, AloneDone DEF DeleteReplied
  <2> QED BY <2>2, <2>3
<1>6. CASE LockReplied(w)
  <2>1. job[w].op = "lock" /\ ~crossed' /\ Typed'
    BY <1>0, <1>6, LockRepliedStep DEF LockReplied, Answered, Works, ghosts
  <2>2. GiveUp(w) \/ \E p, e, done, asked : Store(w, p, e, done, asked)
    BY <1>6 DEF LockReplied
  <2> QED BY <1>0, <2>1, <2>2, GaveUp, AloneStore, AloneDone
<1>7. CASE Save(w)
  <2>1. ~crossed' /\ Typed' /\ disk' = mem[w] /\ Done(w)
    BY <1>0, <1>7, SaveStep DEF Save, Report
  <2>2. Worker' = Worker /\ (w = CLI => job'[w].op = "exited") /\ (w # CLI => mem' = mem)
    BY <2>1 DEF Done, Worker, Exited, Alone, Typed, Programs
  <2>3. Load(disk') = mem[w]
    BY <1>0, <2>1, JobTyped, NoEntry DEF Load
  <2> QED BY <2>1, <2>2, <2>3, AloneStep
<1>8. CASE Listed(w)
  <2>1. job[w].op = "list" /\ ~crossed' /\ Typed' /\ mem' = mem /\ disk' = disk
    BY <1>0, <1>8, ListedStep DEF Listed, Answered, Works, ghosts
  <2>2. \E j : job' = [job EXCEPT ![w] = j]
    BY <1>8 DEF Listed
  <2> QED BY <2>1, <2>2, AloneOn
<1>9. CASE SyncPort(w)
  <2>1. job[w].op = "sync" /\ ~crossed' /\ Typed' /\ mem' = mem /\ disk' = disk
    BY <1>0, <1>9, SyncPortStep DEF SyncPort, Works, ghosts
  <2>2. \E j : job' = [job EXCEPT ![w] = j]
    BY <1>9 DEF SyncPort, SyncAsk
  <2> QED BY <2>1, <2>2, AloneOn
<1>10. CASE SyncReadded(w)
  <2>1. job[w].op = "readd" /\ ~crossed' /\ Typed' /\ mem' = mem /\ disk' = disk
    BY <1>0, <1>10, SyncReaddedStep DEF SyncReadded, Answered, Works, ghosts
  <2>2. \E j : job' = [job EXCEPT ![w] = j]
    BY <1>10 DEF SyncReadded, SyncAsk, SyncNext
  <2> QED BY <2>1, <2>2, AloneOn
<1>11. CASE SyncStatus(w)
  <2>1. job[w].op = "status" /\ ~crossed' /\ Typed' /\ mem' = mem /\ disk' = disk
    BY <1>0, <1>11, SyncStatusStep DEF SyncStatus, Answered, Works, ghosts
  <2>2. \E j : job' = [job EXCEPT ![w] = j]
    BY <1>11 DEF SyncStatus, SyncAsk, SyncNext
  <2> QED BY <2>1, <2>2, AloneOn
<1>12. CASE SyncRelocked(w)
  <2>1. job[w].op = "relock" /\ ~crossed' /\ Typed' /\ mem' = mem /\ disk' = disk
    BY <1>0, <1>12, SyncRelockedStep DEF SyncRelocked, Answered, Works, ghosts
  <2>2. \E j : job' = [job EXCEPT ![w] = j]
    BY <1>12 DEF SyncRelocked, SyncNext
  <2> QED BY <2>1, <2>2, AloneOn
<1>13. CASE SyncEnd(w)
  <2>1. job[w].op = "sync" /\ ~crossed' /\ Typed' /\ disk' = disk /\ Done(w)
    BY <1>0, <1>13, SyncEndStep DEF SyncEnd, Works, ghosts
  <2> QED BY <2>1, AloneDone
<1>14. CASE Start(w)
  <2>0. API # CLI
    BY DEF API, CLI
  <2>1. /\ mem' = [mem EXCEPT ![w] = Load(disk)] /\ disk' = disk /\ \E j : job' = [job EXCEPT ![w] = j]
    BY <1>14 DEF Start, SyncStart
  <2>2. Worker' = Worker /\ mem'[w] = Load(disk')
    BY <1>0, <2>1 DEF Worker, Typed, Programs
  <2>3. ~crossed' /\ Typed'
    <3>1. CASE w = API
      <4>1. Begin(w, Load(disk))
        BY <1>14, <2>0, <3>1 DEF Start
      <4> QED BY <1>0, <1>14, <3>1, <4>1, AloneBegins, StartApiStep
    <3>2. CASE w = CLI
      <4>1. crossed' = crossed
        BY <1>14, <2>0, <3>2 DEF Start
      <4> QED BY <1>0, <1>14, <3>2, <4>1, StartCliStep
    <3> QED BY <1>0, <3>1, <3>2
  <2> QED BY <2>2, <2>3, AloneStep
<1>15. CASE TimesOut(w)
  <2>1. UNCHANGED <<mem, disk, job, crossed>> /\ Typed'
    BY <1>0, <1>15, TimesOutStep DEF TimesOut, ghosts
  <2> QED BY <2>1, AloneSame
<1>16. CASE Crash(w)
  <2>1. ~crossed' /\ Typed' /\ job' = [job EXCEPT ![w] = Exited]
    BY <1>0, <1>16, CrashStep DEF Crash
  <2>2. Worker' = Worker /\ job'[w].op = "exited"
    BY <1>0, <2>1 DEF Worker, Exited, Typed, Programs
  <2> QED BY <2>1, <2>2, AloneStep
<1> QED BY <1>1, <1>3, <1>4, <1>5, <1>6, <1>7, <1>8, <1>9, <1>10, <1>11, <1>12, <1>13, <1>14, <1>15, <1>16 DEF Operation

LEMMA AloneDelete ==
    ASSUME Alone, NEW w \in Worker, NEW p \in Port, NEW asked \in Port, DeleteFound(w, p, asked), Works(w, "idle")
    PROVE  Alone'
<1>0. Typed /\ job[w].op = "idle" /\ mem[w] = Load(disk)
  BY DEF Alone, Works
<1>1. Begin(w, mem[w]) /\ mem' = mem /\ disk' = disk /\ \E j : job' = [job EXCEPT ![w] = j]
  BY DEF DeleteFound
<1>2. ~crossed' /\ Typed'
  BY <1>0, <1>1, AloneBegins, DeleteFoundStep
<1> QED BY <1>0, <1>1, <1>2, AloneOn

LEMMA AloneLock ==
    ASSUME Alone, NEW w \in Worker, NEW p \in Port, NEW ip \in Ip \cup {None}, AskLock(w, p, ip), Works(w, "idle")
    PROVE  Alone'
<1>0. Typed /\ job[w].op = "idle" /\ mem[w] = Load(disk)
  BY DEF Alone, Works
<1>1. Begin(w, mem[w]) /\ mem' = mem /\ disk' = disk /\ \E j : job' = [job EXCEPT ![w] = j]
  BY DEF AskLock
<1>2. ~crossed' /\ Typed'
  BY <1>0, <1>1, AloneBegins, AskLockStep
<1> QED BY <1>0, <1>1, <1>2, AloneOn

LEMMA AloneNext == Alone /\ [Next]_vars => Alone'
<1> SUFFICES ASSUME Alone, [Next]_vars PROVE Alone'
  OBVIOUS
<1>0. Typed /\ API \in {API, CLI}
  BY DEF Alone
<1>1. ASSUME UNCHANGED <<mem, disk, job, inbox, reply, table, lockfile, status, ghosts>> PROVE Alone'
  <2>1. lockfile' \in [Port -> Ip \cup {None}] /\ status' \in [Port -> {None} \cup {<<ip>> : ip \in Ip \cup {None}}]
    BY <1>0, <1>1 DEF Typed, Kinds
  <2>2. Typed' /\ UNCHANGED <<mem, disk, job, crossed>>
    BY <1>0, <1>1, <2>1, Unmoved DEF ghosts
  <2> QED BY <2>2, AloneSame
<1>2. CASE UNCHANGED vars
  BY <1>1, <1>2 DEF vars, files
<1>3. CASE \E w \in Worker : Operation(w)
  BY <1>3, AloneOperation
<1>4. CASE ApiNext
  <2>1. PICK p \in Port :
           \/ ApiDelete(p) \/ ApiClearIp(p)
           \/ \E what \in {"name", "lock"} : Admit(what, p)
           \/ \E n \in Name : PutName(p, n)
           \/ \E ip \in Ip : ApiLockIp(p, ip)
    BY <1>4 DEF ApiNext
  <2>2. API \in Worker
    BY <1>4 DEF ApiNext
  <2>3. CASE ApiDelete(p)
    <3>1. PICK q \in Port : DeleteFound(API, q, p) /\ Works(API, "idle")
      BY <2>3, UsedPort DEF ApiDelete, Asked
    <3> QED BY <2>2, <3>1, AloneDelete
  <2>4. CASE ApiClearIp(p)
    BY <2>2, <2>4, AloneLock DEF ApiClearIp, Asked
  <2>5. ASSUME NEW what \in {"name", "lock"}, Admit(what, p) PROVE Alone'
    BY <1>1, <2>5 DEF Admit, files
  <2>6. ASSUME NEW n \in Name, PutName(p, n) PROVE Alone'
    <3>1. job[API].op = "idle" /\ Begin(API, mem[API]) /\ mem[API] = Load(disk)
      BY <2>2, <2>6 DEF PutName, Works, Alone
    <3>2. ~crossed' /\ Typed'
      BY <1>0, <2>2, <2>6, <3>1, AloneBegins, PutNameStep
    <3>3. GiveUp(API) \/ \E k, e, done, asked : Store(API, k, e, done, asked)
      BY <2>6 DEF PutName
    <3> QED BY <1>0, <2>2, <3>1, <3>2, <3>3, GaveUp, AloneStore, AloneDone
  <2>7. ASSUME NEW ip \in Ip, ApiLockIp(p, ip) PROVE Alone'
    BY <2>2, <2>7, AloneLock DEF ApiLockIp
  <2> QED BY <2>1, <2>3, <2>4, <2>5, <2>6, <2>7
<1>5. CASE CliNext
  <2>1. CLI \in Worker
    BY <1>5 DEF CliNext
  <2>2. CASE CliSync
    <3>1. /\ job[CLI].op = "idle" /\ Begin(CLI, mem[CLI]) /\ mem[CLI] = Load(disk) /\ mem' = mem /\ disk' = disk
          /\ \E j : job' = [job EXCEPT ![CLI] = j]
      BY <2>1, <2>2 DEF CliSync, SyncStart, Asked, Works, Alone
    <3>2. ~crossed' /\ Typed'
      BY <1>0, <2>1, <2>2, <3>1, AloneBegins, CliSyncStep
    <3> QED BY <2>1, <3>1, <3>2, AloneOn
  <2>3. ASSUME NEW n \in Name, CliDelete(n) PROVE Alone'
    <3>1. PICK p \in Port : DeleteFound(CLI, p, p) /\ Works(CLI, "idle")
      BY <2>3, UsedPort DEF CliDelete, Asked
    <3> QED BY <2>1, <3>1, AloneDelete
  <2>4. ASSUME NEW n \in Name, NEW ip \in Ip \cup {None}, CliLock(n, ip) PROVE Alone'
    <3>1. PICK p \in Port : AskLock(CLI, p, ip) /\ Works(CLI, "idle")
      BY <2>4, UsedPort DEF CliLock, Asked
    <3> QED BY <2>1, <3>1, AloneLock
  <2> QED BY <1>5, <2>2, <2>3, <2>4 DEF CliNext
<1>6. CASE ManagerNext
  <2>1. CASE Handle
    BY <1>0, <2>1, HandleStep, AloneSame DEF Handle
  <2>2. CASE MgrRestart
    BY <1>0, <2>2, MgrRestartStep, AloneSame DEF MgrRestart
  <2>3. ASSUME NEW p \in Port, NEW ip \in Ip \cup {None}, ServerWrites(p, ip) PROVE Alone'
    <3>1. /\ UNCHANGED <<mem, disk, job, inbox, reply, table, ghosts>> /\ status' = [status EXCEPT ![p] = <<ip>>]
          /\ lockfile' = lockfile \/ (ip # None /\ lockfile' = [lockfile EXCEPT ![p] = ip])
      BY <2>3 DEF ServerWrites
    <3>2. lockfile' \in [Port -> Ip \cup {None}] /\ status' \in [Port -> {None} \cup {<<i>> : i \in Ip \cup {None}}]
      BY <1>0, <3>1 DEF Typed, Kinds
    <3>3. Typed' /\ UNCHANGED <<mem, disk, job, crossed>>
      BY <1>0, <3>1, <3>2, Unmoved DEF ghosts
    <3> QED BY <3>3, AloneSame
  <2> QED BY <1>6, <2>1, <2>2, <2>3 DEF ManagerNext
<1> QED BY <1>2, <1>3, <1>4, <1>5, <1>6 DEF Next

\* Where only the API is used, or only commands of the command line, one after
\* the other, the exception for work that crosses is empty: the three theorems
\* above hold as if it were not there.
THEOREM OneProgramNeverCrosses ==
    ASSUME \A used \in Deployment : used \in {{API}, {CLI}}
    PROVE  Spec => []~crossed
<1>1. Init => Alone
  <2> SUFFICES ASSUME Init PROVE Alone
    OBVIOUS
  <2>1. PICK used \in Deployment : job = [w \in used |-> Exited]
    BY DEF Init
  <2>2. Worker = used /\ \A w \in Worker : job[w].op = "exited"
    BY <2>1 DEF Worker, Exited
  <2>3. \A v, w \in Worker : v = w
    BY <2>1, <2>2
  <2>4. Typed /\ ~crossed
    BY InitIInv DEF IInv, Init
  <2> QED BY <2>2, <2>3, <2>4 DEF Alone
<1>2. Alone /\ [Next]_vars => Alone'
  BY AloneNext
<1>3. Alone => ~crossed
  BY DEF Alone
<1> QED BY <1>1, <1>2, <1>3, PTL DEF Spec

=============================================================================
