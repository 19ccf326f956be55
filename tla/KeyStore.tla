------------------------------ MODULE KeyStore ------------------------------
(***************************************************************************)
(* The access keys of the server and the programs that change them:        *)
(* ss_api.py, one long-lived process that loads ports.json when it starts  *)
(* and answers HTTP requests from memory, and libev-cli.py, a process per  *)
(* command.  Both drive a KeyManager (key_store.py), which asks ss-manager *)
(* (libev_client.py) and then rewrites ports.json.                         *)
(*                                                                         *)
(* A request to ss-manager is a datagram that waits in its socket; the     *)
(* asker blocks for the answer and gives up after five seconds, when the   *)
(* request may still be carried out.  Over UDP every request has a socket  *)
(* of its own and a late answer is lost.  Over the Unix socket that the    *)
(* installer sets up, all requests of a process use one path, and a late   *)
(* answer is read as the answer of the next request.  ss-manager appears   *)
(* by what it does to its table of ports and to the lock files; starting   *)
(* and stopping the ss-server processes belongs to another module.         *)
(*                                                                         *)
(* Commands that only ask (ping, ip_status for display) are left out: they *)
(* change nothing, and their late answer is one more that is not `ok'.     *)
(***************************************************************************)
EXTENDS Integers, Sequences, FiniteSets, FiniteSetsExt

CONSTANTS
    Port,           \* port_start..port_end
    Name, Password, Ip,
    Strip, Lower,   \* str.strip and str.lower on names
    Deployment,     \* the programs in use: sets of "api" and "cli"
    Unix,           \* manager_address is a path: the Unix socket is used
    None,
    MaxOps,         \* bound: operations asked for
    MaxFaults,      \* bound: crashes, manager restarts and timeouts
    MaxSteps        \* bound: operations and faults together

ASSUME KeyStoreAssumption ==
    /\ Port \subseteq Nat /\ None \notin Password \cup Ip
    /\ Strip \in [Name -> Name] /\ Lower \in [Name -> Name]
    /\ Deployment \subseteq (SUBSET {"api", "cli"}) \ {{}} /\ Unix \in BOOLEAN
    /\ MaxOps \in Nat /\ MaxFaults \in Nat /\ MaxSteps \in Nat

API == "api"
CLI == "cli"

Entry == [name : Name, password : Password, locked_ip : Ip \cup {None}]
Keys  == [Port -> Entry \cup {None}]

\* The answers of ss-manager, and the lack of one.
Reply == {[res |-> "ok"], [res |-> "err"], [res |-> "timeout"]}
            \cup [res : {"list"}, ports : SUBSET Port] \cup [res : {"status"}, ip : Ip \cup {None}]

\* None is nothing else.
ASSUME NoneAssumption == None \notin {API, CLI} \cup Entry \cup Keys \cup Reply

VARIABLES
    mem,       \* KeyManager.ports of each program: the entry of a port, or None
    disk,      \* ports.json, or None while and after it is only partly written
    job,       \* what each program is doing
    inbox,     \* datagrams waiting in the socket of ss-manager
    reply,     \* the answer a program has got, or None
    admitted,  \* requests of the API whose port was checked, waiting for their body
    table,     \* server_table of ss-manager: the password of a port, or None
    lockfile,  \* the lock file of a port
    status,    \* the lock that the status file of a port names, as <<ip>>, or None: no file
    ops, faults,
    promised,  \* ghost: the password of a port whose key was reported as created
    gone,      \* ghost: ports whose key was reported as deleted and not asked for again
    mistaken,  \* ghost: the port asked to be deleted and the one deleted instead
    torn,      \* ghost: a program died in the middle of save
    stale,     \* ghost: ss-manager restarted since it last answered a list
    crossed    \* ghost: one program began while another was at work, or from old keys

files  == <<lockfile, status>>
ghosts == <<promised, gone, mistaken, torn, stale, crossed>>
vars   == <<mem, disk, job, inbox, reply, admitted, table, files, ops, faults, ghosts>>

\* The programs in use never change.
Worker == DOMAIN job

Empty == [p \in Port |-> None]
Exited == [op |-> "exited"]
Idle == [op |-> "idle"]

Ok      == [res |-> "ok"]
Err     == [res |-> "err"]
Timeout == [res |-> "timeout"]

-----------------------------------------------------------------------------
(* KeyManager *)

\* _load_ports: a file that is no JSON counts as no key at all.
Load(d) == IF d = None THEN Empty ELSE d

Used(m) == {p \in Port : m[p] # None}

\* allocate_port: the caller's own choice if it is free, else the lowest free
\* one; over all choices of the caller, any free port.
AllocatePort(m) == Port \ Used(m)

\* find_by_name compares the stripped, lower-case name asked for with the
\* lower-case name stored.  Of several matches the dict's order picks one.
FindByName(m, n) == {p \in Used(m) : Lower[m[p].name] = Lower[Strip[n]]}

\* A command of the command line ends its process, and with it its memory.
Done(w) ==
    /\ job' = [job EXCEPT ![w] = IF w = CLI THEN Exited ELSE Idle]
    /\ mem' = IF w = CLI THEN [mem EXCEPT ![w] = Empty] ELSE mem

\* _send: a datagram, and the wait for its answer.
Send(box, w, act, p, arg) ==
    /\ inbox' = Append(box, [from |-> w, act |-> act, port |-> p, arg |-> arg])
    /\ reply' = [reply EXCEPT ![w] = None]

Ask(w, act, p, arg) == Send(inbox, w, act, p, arg)

NoAsk(w) ==
    /\ reply' = [reply EXCEPT ![w] = None]
    /\ UNCHANGED inbox

Works(w, op) == job[w].op = op
Answered(w, op) == Works(w, op) /\ reply[w] # None

\* The bounds of a run.
MoreOps    == ops < MaxOps /\ ops + faults < MaxSteps
MoreFaults == faults < MaxFaults /\ ops + faults < MaxSteps

\* The first step of an operation asked for.
Asked(w) == Works(w, "idle") /\ MoreOps /\ ops' = ops + 1

Busy(w) == job[w].op \notin {"idle", "exited"}

\* Nothing keeps two programs apart, and none looks at the store again.
Begin(w, keys) == crossed' = (crossed \/ keys # Load(disk) \/ \E v \in Worker \ {w} : Busy(v))

\* Assigning the entry of p and opening ports.json for writing, which empties
\* it; `asked' is the port the request was about.
Store(w, p, e, done, asked) ==
    /\ mem' = [mem EXCEPT ![w][p] = e]
    /\ disk' = None
    /\ job' = [job EXCEPT ![w] = [op |-> "save", port |-> p, done |-> done, asked |-> asked]]
    /\ NoAsk(w)

\* Reporting the operation as done, to who asked for it.
Report(w) ==
    LET p == job[w].port
    IN  /\ Done(w)
        /\ promised' = IF job[w].done = "created"
                       THEN [promised EXCEPT ![p] = mem[w][p].password] ELSE promised
        /\ gone' = IF job[w].done = "deleted" THEN gone \cup {job[w].asked} ELSE gone

\* Mutant of Save: only the key at hand is written.
SaveOne(w) ==
    /\ Works(w, "save")
    /\ disk' = [Empty EXCEPT ![job[w].port] = mem[w][job[w].port]]
    /\ Report(w)
    /\ UNCHANGED <<inbox, reply, admitted, table, files, ops, faults, mistaken, torn, stale, crossed>>

\* The rest of save.
Save(w) ==
    /\ Works(w, "save")
    /\ disk' = mem[w]
    /\ Report(w)
    /\ UNCHANGED <<inbox, reply, admitted, table, files, ops, faults, mistaken, torn, stale, crossed>>

\* An operation that failed: the exception is reported and nothing is stored.
GiveUp(w) ==
    /\ Done(w)
    /\ NoAsk(w)
    /\ UNCHANGED disk

\* add_key
AddKey(w, n, p, pw) ==
    /\ Asked(w)
    /\ FindByName(mem[w], n) = {}
    /\ p \in AllocatePort(mem[w])
    /\ Ask(w, "add", p, pw)
    /\ job' = [job EXCEPT ![w] = [op |-> "add", port |-> p, name |-> Strip[n], arg |-> pw]]
    /\ Begin(w, mem[w])
    /\ gone' = gone \ {p}
    /\ UNCHANGED <<mem, disk, admitted, table, files, faults, promised, mistaken, torn, stale>>

AddReplied(w) ==
    /\ Answered(w, "add")
    /\ IF reply[w] = Ok
       THEN Store(w, job[w].port,
                  [name |-> job[w].name, password |-> job[w].arg, locked_ip |-> None],
                  "created", job[w].port)
       ELSE GiveUp(w)
    /\ UNCHANGED <<admitted, table, files, ops, faults, ghosts>>

\* delete_key of the key found under a name; `asked' is the port the caller
\* meant, which may be another one of that name.
DeleteFound(w, p, asked) ==
    /\ Ask(w, "clear_ip", p, None)
    /\ job' = [job EXCEPT ![w] = [op |-> "clear", port |-> p, asked |-> asked]]
    /\ Begin(w, mem[w])
    /\ promised' = [promised EXCEPT ![asked] = None]
    /\ mistaken' = IF p = asked THEN mistaken ELSE mistaken \cup {p, asked}
    /\ UNCHANGED <<mem, disk, admitted, table, files, faults, gone, torn, stale>>

\* Mutant of DeleteCleared: ss-manager is not told to remove the port.
DeleteClearedOnly(w) ==
    /\ Answered(w, "clear")
    /\ Store(w, job[w].port, None, "deleted", job[w].asked)
    /\ UNCHANGED <<admitted, table, files, ops, faults, ghosts>>

\* The answer to clear_ip is ignored, whatever it is.
DeleteCleared(w) ==
    /\ Answered(w, "clear")
    /\ Ask(w, "remove", job[w].port, None)
    /\ job' = [job EXCEPT ![w].op = "remove"]
    /\ UNCHANGED <<mem, disk, admitted, table, files, ops, faults, ghosts>>

DeleteReplied(w) ==
    /\ Answered(w, "remove")
    /\ IF reply[w] = Ok THEN Store(w, job[w].port, None, "deleted", job[w].asked) ELSE GiveUp(w)
    /\ UNCHANGED <<admitted, table, files, ops, faults, ghosts>>

\* set_ip or clear_ip for port p, and what becomes of the entry afterwards.
AskLock(w, p, ip) ==
    /\ IF ip = None THEN Ask(w, "clear_ip", p, None) ELSE Ask(w, "set_ip", p, ip)
    /\ job' = [job EXCEPT ![w] = [op |-> "lock", port |-> p, arg |-> ip]]
    /\ Begin(w, mem[w])
    /\ UNCHANGED <<mem, disk, table, files, faults, promised, gone, mistaken, torn, stale>>

\* If the key went away meanwhile the entry is missing: an exception.
LockReplied(w) ==
    LET p == job[w].port
    IN  /\ Answered(w, "lock")
        /\ IF reply[w] = Ok /\ mem[w][p] # None
           THEN Store(w, p, [mem[w][p] EXCEPT !.locked_ip = job[w].arg], "changed", p)
           ELSE GiveUp(w)
        /\ UNCHANGED <<admitted, table, files, ops, faults, ghosts>>

-----------------------------------------------------------------------------
(* sync_to_manager *)

SyncStart(w, box) ==
    /\ Send(box, w, "list", None, None)
    /\ job' = [job EXCEPT ![w] = [op |-> "list"]]

\* Without an answer no port counts as active.
Listed(w) ==
    /\ Answered(w, "list")
    /\ job' = [job EXCEPT ![w] =
                  [op |-> "sync", todo |-> Used(mem[w]), errors |-> FALSE,
                   active |-> IF reply[w].res = "list" THEN reply[w].ports ELSE {}]]
    /\ NoAsk(w)
    /\ UNCHANGED <<mem, disk, admitted, table, files, ops, faults, ghosts>>

\* Back to the loop over the ports, this one done.
SyncNext(w, error) ==
    /\ job' = [job EXCEPT ![w] = [op |-> "sync", todo |-> @.todo \ {@.port},
                                  errors |-> @.errors \/ error, active |-> @.active]]
    /\ NoAsk(w)

SyncAsk(w, op, act, p, arg) ==
    /\ Ask(w, act, p, arg)
    /\ job' = [job EXCEPT ![w] = [op |-> op, port |-> p, todo |-> @.todo,
                                  errors |-> @.errors, active |-> @.active]]

SyncPort(w) ==
    LET p == Min(job[w].todo)
        e == mem[w][p]
    IN  /\ Works(w, "sync")
        /\ job[w].todo # {}
        /\ IF p \notin job[w].active THEN SyncAsk(w, "readd", "add", p, e.password)
           ELSE IF e.locked_ip # None THEN SyncAsk(w, "status", "ip_status", p, None)
           ELSE /\ job' = [job EXCEPT ![w].todo = @ \ {p}]
                /\ UNCHANGED <<inbox, reply>>
        /\ UNCHANGED <<mem, disk, admitted, table, files, ops, faults, ghosts>>

SyncReadded(w) ==
    LET p == job[w].port
        ip == mem[w][p].locked_ip
    IN  /\ Answered(w, "readd")
        /\ IF reply[w] = Ok /\ ip # None THEN SyncAsk(w, "relock", "set_ip", p, ip)
           ELSE SyncNext(w, reply[w] # Ok)
        /\ UNCHANGED <<mem, disk, admitted, table, files, ops, faults, ghosts>>

\* An answer that is no JSON counts as no lock; one that is no object, or no
\* answer, is an error.
SyncStatus(w) ==
    LET p == job[w].port
        ip == mem[w][p].locked_ip
    IN  /\ Answered(w, "status")
        /\ IF reply[w].res \in {"list", "timeout"} THEN SyncNext(w, TRUE)
           ELSE IF reply[w] = [res |-> "status", ip |-> ip] THEN SyncNext(w, FALSE)
           ELSE SyncAsk(w, "relock", "set_ip", p, ip)
        /\ UNCHANGED <<mem, disk, admitted, table, files, ops, faults, ghosts>>

SyncRelocked(w) ==
    /\ Answered(w, "relock")
    /\ SyncNext(w, reply[w] # Ok)
    /\ UNCHANGED <<mem, disk, admitted, table, files, ops, faults, ghosts>>

SyncEnd(w) ==
    /\ Works(w, "sync")
    /\ job[w].todo = {}
    /\ Done(w)
    /\ UNCHANGED <<disk, inbox, reply, admitted, table, files, ops, faults, ghosts>>

-----------------------------------------------------------------------------
(* The API: handlers run one at a time, but may wait for the body of their *)
(* request after the port was checked.                                     *)

ApiDelete(p) ==
    /\ Asked(API)
    /\ p \in Used(mem[API])
    /\ \E q \in FindByName(mem[API], mem[API][p].name) : DeleteFound(API, q, p)

\* handle_put_name and handle_lock_ip up to `await request.json()'.
Admit(what, p) ==
    /\ Asked(API)
    /\ p \in Used(mem[API])
    /\ admitted' = admitted \cup {<<what, p>>}
    /\ UNCHANGED <<mem, disk, job, inbox, reply, table, files, faults, ghosts>>

\* The name is stored as it is, whatever other keys are called.
PutName(p, n) ==
    /\ Works(API, "idle")
    /\ <<"name", p>> \in admitted
    /\ admitted' = admitted \ {<<"name", p>>}
    /\ IF p \in Used(mem[API])
       THEN Store(API, p, [mem[API][p] EXCEPT !.name = n], "changed", p)
       ELSE GiveUp(API)
    /\ Begin(API, mem[API])
    /\ UNCHANGED <<table, files, ops, faults, promised, gone, mistaken, torn, stale>>

ApiLockIp(p, ip) ==
    /\ Works(API, "idle")
    /\ <<"lock", p>> \in admitted
    /\ admitted' = admitted \ {<<"lock", p>>}
    /\ AskLock(API, p, ip)
    /\ UNCHANGED ops

ApiClearIp(p) ==
    /\ Asked(API)
    /\ p \in Used(mem[API])
    /\ AskLock(API, p, None)
    /\ UNCHANGED admitted

\* The command line finds keys by name.
CliDelete(n) ==
    /\ Asked(CLI)
    /\ \E p \in FindByName(mem[CLI], n) : DeleteFound(CLI, p, p)

CliLock(n, ip) ==
    /\ Asked(CLI)
    /\ \E p \in FindByName(mem[CLI], n) : AskLock(CLI, p, ip)
    /\ UNCHANGED admitted

CliSync ==
    /\ Asked(CLI)
    /\ SyncStart(CLI, inbox)
    /\ Begin(CLI, mem[CLI])
    /\ UNCHANGED <<mem, disk, admitted, table, files, faults, promised, gone, mistaken, torn, stale>>

\* What the last process of w asked is carried out for nobody.
Abandoned(w) ==
    [i \in DOMAIN inbox |->
        IF inbox[i].from = w THEN [inbox[i] EXCEPT !.from = None] ELSE inbox[i]]

\* A program starts: it loads the store, and the API brings ss-manager up to
\* date before it serves requests.
Start(w) ==
    /\ Works(w, "exited")
    /\ mem' = [mem EXCEPT ![w] = Load(disk)]
    /\ \/ /\ w = API
          /\ SyncStart(API, Abandoned(API))
          /\ Begin(API, Load(disk))
       \/ /\ w = CLI /\ MoreOps
          /\ job' = [job EXCEPT ![CLI] = Idle]
          /\ inbox' = Abandoned(CLI)
          /\ UNCHANGED <<reply, crossed>>
    /\ UNCHANGED <<disk, admitted, table, files, ops, faults, promised, gone, mistaken, torn, stale>>

-----------------------------------------------------------------------------
(* Faults *)

Fault == MoreFaults /\ faults' = faults + 1

Waiting == {"add", "clear", "remove", "lock", "list", "readd", "status", "relock"}

\* socket.timeout after five seconds.  The next request binds the same path.
TimesOut(w) ==
    /\ Fault
    /\ job[w].op \in Waiting
    /\ reply[w] = None
    /\ reply' = [reply EXCEPT ![w] = Timeout]
    /\ inbox' = IF Unix THEN inbox ELSE Abandoned(w)
    /\ UNCHANGED <<mem, disk, job, admitted, table, files, ops, ghosts>>

Crash(w) ==
    /\ Fault
    /\ ~Works(w, "exited")
    /\ job' = [job EXCEPT ![w] = Exited]
    /\ mem' = [mem EXCEPT ![w] = Empty]
    /\ reply' = [reply EXCEPT ![w] = None]
    /\ admitted' = IF w = API THEN {} ELSE admitted
    /\ torn' = (torn \/ Works(w, "save"))
    /\ UNCHANGED <<disk, inbox, table, files, ops, promised, gone, mistaken, stale, crossed>>

-----------------------------------------------------------------------------
(* ss-manager *)

\* The answer goes where the request came from: to the socket that is bound
\* there now, if any.
Answer(q, a) ==
    reply' = IF q.from # None /\ job[q.from].op \in Waiting /\ reply[q.from] = None
             THEN [reply EXCEPT ![q.from] = a] ELSE reply

\* remove_server, as far as the files go.
RemoveFiles(p) ==
    /\ lockfile' = [lockfile EXCEPT ![p] = None]
    /\ status' = [status EXCEPT ![p] = None]

\* Mutant of HandleAdd: a port that is there already is kept as it is.
HandleAddKeeps(q) ==
    IF table[q.port] # None
    THEN Answer(q, Ok) /\ UNCHANGED <<table, files, stale>>
    ELSE /\ table' = [table EXCEPT ![q.port] = q.arg]
         /\ Answer(q, Ok)
         /\ UNCHANGED <<files, stale>>

\* add: the old server of the port goes first; then the port may turn out to
\* be taken, and the command that starts the server may fail to run.
HandleAdd(q) ==
    /\ \/ /\ table' = [table EXCEPT ![q.port] = q.arg]
          /\ Answer(q, Ok) \/ Answer(q, Err)
       \/ /\ table' = [table EXCEPT ![q.port] = None]
          /\ Answer(q, Err)
    /\ RemoveFiles(q.port)
    /\ UNCHANGED stale

\* The lock file may fail to open.
HandleSetIp(q) ==
    /\ \/ lockfile' = [lockfile EXCEPT ![q.port] = q.arg] /\ Answer(q, Ok)
       \/ Answer(q, Err) /\ UNCHANGED lockfile
    /\ UNCHANGED <<status, table, stale>>

\* read_port_status: the status file, which ss-server wrote last; without one
\* the lock file.
ReadPortStatus(p) == [res |-> "status", ip |-> IF status[p] # None THEN status[p][1] ELSE lockfile[p]]

\* manager_recv_cb
Handle ==
    /\ inbox # <<>>
    /\ inbox' = Tail(inbox)
    /\ LET q == Head(inbox)
       IN  \/ q.act = "add" /\ HandleAdd(q)
           \/ /\ q.act = "remove"
              /\ table' = [table EXCEPT ![q.port] = None]
              /\ RemoveFiles(q.port)
              /\ Answer(q, Ok)
              /\ UNCHANGED stale
           \/ q.act = "set_ip" /\ HandleSetIp(q)
           \/ /\ q.act = "clear_ip"
              /\ lockfile' = [lockfile EXCEPT ![q.port] = None]
              /\ Answer(q, Ok)
              /\ UNCHANGED <<status, table, stale>>
           \/ /\ q.act = "list"
              /\ Answer(q, [res |-> "list", ports |-> Used(table)])
              /\ stale' = FALSE
              /\ UNCHANGED <<table, files>>
           \/ /\ q.act = "ip_status"
              /\ Answer(q, ReadPortStatus(q.port))
              /\ UNCHANGED <<table, files, stale>>
    /\ UNCHANGED <<mem, disk, job, admitted, ops, faults, promised, gone, mistaken, torn, crossed>>

\* A new ss-manager: an empty table; the lock files are still there.
MgrRestart ==
    /\ Fault
    /\ inbox' = <<>>
    /\ table' = Empty
    /\ stale' = TRUE
    /\ UNCHANGED <<mem, disk, job, reply, admitted, files, ops, promised, gone, mistaken, torn, crossed>>

\* An ss-server of port p, perhaps one on its way out, locks the port to a
\* client and says so in the status file, or only writes that file again.  An
\* add unlinks the files, so those of a port that is not served do not matter.
ServerWrites(p, ip) ==
    /\ table[p] # None /\ status[p] # <<ip>>
    /\ MoreOps /\ ops' = ops + 1
    /\ status' = [status EXCEPT ![p] = <<ip>>]
    /\ UNCHANGED lockfile \/ (ip # None /\ lockfile' = [lockfile EXCEPT ![p] = ip])
    /\ UNCHANGED <<mem, disk, job, inbox, reply, admitted, table, faults, ghosts>>

-----------------------------------------------------------------------------
Init ==
    /\ \E used \in Deployment : job = [w \in used |-> Exited]
    /\ mem = [w \in Worker |-> Empty]
    /\ disk = Empty
    /\ inbox = <<>>
    /\ reply = [w \in Worker |-> None]
    /\ admitted = {}
    /\ table = Empty
    /\ lockfile = Empty /\ status = Empty
    /\ ops = 0 /\ faults = 0
    /\ promised = Empty /\ gone = {} /\ mistaken = {}
    /\ torn = FALSE /\ stale = FALSE /\ crossed = FALSE

Operation(w) ==
    \/ \E n \in Name, p \in Port, pw \in Password : AddKey(w, n, p, pw)
    \/ AddReplied(w) \/ DeleteCleared(w) \/ DeleteReplied(w) \/ LockReplied(w) \/ Save(w)
    \/ Listed(w) \/ SyncPort(w) \/ SyncReadded(w) \/ SyncStatus(w) \/ SyncRelocked(w) \/ SyncEnd(w)
    \/ Start(w) \/ TimesOut(w) \/ Crash(w)

ApiNext ==
    /\ API \in Worker
    /\ \E p \in Port :
        \/ ApiDelete(p) \/ ApiClearIp(p)
        \/ \E what \in {"name", "lock"} : Admit(what, p)
        \/ \E n \in Name : PutName(p, n)
        \/ \E ip \in Ip : ApiLockIp(p, ip)

CliNext ==
    /\ CLI \in Worker
    /\ \/ CliSync
       \/ \E n \in Name : CliDelete(n) \/ \E ip \in Ip \cup {None} : CliLock(n, ip)

ManagerNext ==
    \/ Handle
    \/ MgrRestart
    \/ \E p \in Port, ip \in Ip \cup {None} : ServerWrites(p, ip)

Next == (\E w \in Worker : Operation(w)) \/ ApiNext \/ CliNext \/ ManagerNext

Spec == Init /\ [][Next]_vars

-----------------------------------------------------------------------------
(* Properties *)

TypeOK ==
    /\ mem \in [Worker -> Keys]
    /\ disk = None \/ disk \in Keys
    /\ \A w \in Worker : reply[w] # None => job[w].op \in Waiting
    /\ table \in [Port -> Password \cup {None}]
    /\ lockfile \in [Port -> Ip \cup {None}]
    /\ \A i \in 1..Len(inbox) : inbox[i].from \in Worker \cup {None}

\* A key that was reported as created and was not asked to be deleted is in
\* ports.json with its password, through timeouts, answers that are taken for
\* others, crashes and restarts.  What may cost it: a crash in the middle of
\* rewriting the file, two programs at work on one file, and a DELETE of
\* another key that has the same name.
KeysDurable ==
    disk # None /\ ~torn /\ ~crossed =>
        \A p \in Port \ mistaken : promised[p] # None =>
            disk[p] # None /\ disk[p].password = promised[p]

\* Once nothing is under way, ss-manager serves no port with another password
\* than ports.json has for it, however requests timed out, were repeated, were
\* cut short or were confirmed by the answer of another, as long as no program
\* began in the middle of another's work or from keys that another had changed.
PasswordsAgree ==
    (\A w \in Worker : ~Busy(w)) /\ inbox = <<>> /\ disk # None /\ ~crossed =>
        \A p \in Port : disk[p] # None /\ table[p] # None => disk[p].password = table[p]

\* A synchronisation that ends without reporting an error leaves every key of
\* the store served, unless ss-manager restarted behind its back.
SyncComplete ==
    \A w \in Worker :
        Works(w, "sync") /\ job[w].todo = {} /\ ~job[w].errors /\ ~stale /\ ~crossed =>
            \A p \in Used(mem[w]) : table[p] # None

\* A key that was reported as deleted is not served again, until somebody asks
\* for a key on its port: it is not in the table, or the command to remove it
\* waits and nothing after it brings the port back.
DeletedGone ==
    ~crossed => \A p \in gone \ mistaken :
        \/ table[p] = None /\ \A i \in DOMAIN inbox : ~(inbox[i].act = "add" /\ inbox[i].port = p)
        \/ \E i \in DOMAIN inbox :
              /\ inbox[i].act = "remove" /\ inbox[i].port = p
              /\ \A j \in DOMAIN inbox : j > i => ~(inbox[j].act = "add" /\ inbox[j].port = p)

\* What ss-manager serves follows the store: all of it after a synchronisation
\* without errors, and nothing that was deleted.
ServedAsStored == TypeOK /\ SyncComplete /\ DeletedGone
=============================================================================
