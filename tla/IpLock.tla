------------------------------- MODULE IpLock -------------------------------
(***************************************************************************)
(* The per-port client IP lock of one ss-server process (ip_lock.c and its *)
(* callers in server.c), together with the outside world that shares its   *)
(* two sidecar files: the manager, which rewrites or unlinks the lock file *)
(* while the server runs, and the clock, whose one-second grain is what    *)
(* the server's cache of the lock file is keyed by.                        *)
(*                                                                         *)
(* The server is a single-threaded event loop, so a callback is one step,  *)
(* with one exception: ip_lock_reload stats the lock file and then opens   *)
(* it, and the manager may replace or unlink the file in between.  An      *)
(* accept_cb that has seen a new mtime is therefore split in two steps,    *)
(* and `accepting' holds its peer between them.                            *)
(***************************************************************************)
EXTENDS Integers, Sequences, FiniteSets

CONSTANTS
    Ip,            \* client addresses, as get_peer_name prints them
    NoIp,          \* the empty string: no lock, or a peer getpeername lost
    RecentMax,     \* IP_LOCK_RECENT_MAX
    RecentTtl,     \* IP_LOCK_RECENT_TTL_SEC
    MaxTrackIps,   \* IP_LOCK_MAX_TRACK_IPS
    WriteOutcomes, \* outcomes of writing the sidecar files: {TRUE} or BOOLEAN
    MaxConns,      \* bound: connections at a time (accept fails beyond it)
    MaxTime,       \* bound: the last second of the clock
    MaxDisturb     \* bound: disturbances within one life of the process

ASSUME IpAssumption == NoIp \notin Ip /\ IsFiniteSet(Ip)
ASSUME BoundAssumption ==
    /\ {RecentMax, MaxTrackIps, MaxConns, MaxTime} \subseteq Nat \ {0}
    /\ {RecentTtl, MaxDisturb} \subseteq Nat
    /\ WriteOutcomes \subseteq BOOLEAN

VARIABLES
    up,          \* the process is running
    conns,       \* peer_ip of every entry of `connections', in list order
    locked,      \* locked_ip
    cachedMtime, \* lock_file_mtime
    accepting,   \* peer of an accept_cb between its stat and its fopen
    incoming,    \* recent_incoming, newest first
    blocked,     \* blocked_ips, newest first
    lockFile,    \* .shadowsocks_<port>.iplock
    statusFile,  \* .shadowsocks_<port>.ipstatus
    clock,       \* time(NULL)
    writing,     \* address of a manager set_ip between its fopen and fclose
    fresh,       \* ghost: this process wrote statusFile and nobody removed it
    raced,       \* ghost: an unlink hit a reload between stat and fopen
    disturb      \* ghost: outside changes of lockFile and failed writes of it

memory == <<conns, locked, cachedMtime, accepting, incoming, blocked>>
vars == <<up, memory, lockFile, statusFile, clock, writing, fresh, raced, disturb>>

-----------------------------------------------------------------------------
(* The sidecar files and the connection list *)

Addr == Ip \cup {NoIp}

Entry == [ip : Ip, seen : Nat]

\* A file that does not exist; its mtime 0 is the code's own convention.
NoFile == [ip |-> NoIp, mtime |-> 0]

LockFile == [ip : Addr, mtime : Nat]

NoStatus == [there |-> FALSE, locked |-> NoIp, connections |-> 0,
             active |-> {}, recent |-> {}, blocked |-> {}]

StatusFile == [there : BOOLEAN, locked : Addr, connections : 0..MaxConns,
               active : SUBSET Ip, recent : SUBSET Ip, blocked : SUBSET Ip]

\* The connections whose peer is known, and the addresses they come from.
Known(cs) == {i \in DOMAIN cs : cs[i] # NoIp}

LiveIps(cs) == {cs[i] : i \in Known(cs)}

HasConn(ip) == ip \in LiveIps(conns)

\* update_ip_lock_status: the first MaxTrackIps distinct peers in list order.
ActiveIps(cs) ==
    LET First == {i \in Known(cs) : \A j \in 1..(i - 1) : cs[j] # cs[i]}
    IN  {cs[i] : i \in {k \in First : Cardinality(First \cap 1..(k - 1)) < MaxTrackIps}}

Without(cs, i) ==
    [j \in 1..(Len(cs) - 1) |-> IF j < i THEN cs[j] ELSE cs[j + 1]]

-----------------------------------------------------------------------------
(* The lists of recent addresses *)

Ips(store) == {store[i].ip : i \in DOMAIN store}

\* The entries of a list at the places that are kept, in their order.
Keep(store, kept) ==
    LET first[n \in 0..Len(store)] ==
            IF n = 0 THEN <<>>
            ELSE IF n \in kept THEN Append(first[n - 1], store[n]) ELSE first[n - 1]
    IN  first[Len(store)]

\* ip_lock_prune_recent
Prune(store) == Keep(store, {i \in DOMAIN store : clock - store[i].seen <= RecentTtl})

\* ip_lock_push_recent: prune, then move or insert the address at the front,
\* dropping the last entry of a full list.
Push(store, p) ==
    LET pruned == Prune(store)
        others == Keep(pruned, {i \in DOMAIN pruned : pruned[i].ip # p})
        kept   == IF Len(others) < RecentMax THEN Len(others) ELSE RecentMax - 1
    IN  <<[ip |-> p, seen |-> clock]>> \o SubSeq(others, 1, kept)

\* What ip_lock_write_status puts in the file, and what it does to the lists.
Status(l, cs, inc, blk) ==
    [there |-> TRUE, locked |-> l, connections |-> Cardinality(Known(cs)),
     active |-> ActiveIps(cs),
     recent |-> Ips(inc) \ ActiveIps(cs), blocked |-> Ips(blk) \ ActiveIps(cs)]

WriteStatus(l, cs, inc, blk, ok) ==
    /\ incoming' = Prune(inc)
    /\ blocked' = Prune(blk)
    /\ statusFile' = IF ok THEN Status(l, cs, Prune(inc), Prune(blk)) ELSE statusFile
    /\ fresh' = ok

-----------------------------------------------------------------------------
(* accept_cb *)

\* Mutant of Allowed: a newcomer takes over a holder that is still connected.
AllowedAlways(p, l) == TRUE

\* check_ip_lock_allowed once the lock is reloaded: is p let in, and does it
\* take the lock (ip_lock_set) on its way?
Allowed(p, l) == l = NoIp \/ p = l \/ ~HasConn(l)

Takes(p, l) == p # l /\ Allowed(p, l)

\* ip_lock_reset_recent_lists, called when the lock moves from one address.
ResetIf(cond, store) == IF cond THEN <<>> ELSE store

\* Mutant of SetResets: a takeover keeps the lists of the previous holder.
NeverResets(p, l) == FALSE

\* ip_lock_set resets the lists when it replaces another address.
SetResets(p, l) == Takes(p, l) /\ l # NoIp

\* Mutant of SetLock: the lock is taken in memory only.
SetLockInMemory(p, l, mtime, ok) ==
    /\ locked' = IF Takes(p, l) THEN p ELSE l
    /\ cachedMtime' = mtime
    /\ UNCHANGED <<lockFile, disturb>>

\* ip_lock_set: the memory copy, the file and the cached mtime, the last two
\* only if the file could be written.
SetLock(p, l, mtime, ok) ==
    /\ locked' = IF Takes(p, l) THEN p ELSE l
    /\ IF Takes(p, l) /\ ok
       THEN /\ lockFile' = [ip |-> p, mtime |-> clock]
            /\ cachedMtime' = clock
       ELSE /\ cachedMtime' = mtime
            /\ UNCHANGED lockFile
    /\ IF Takes(p, l) /\ ~ok
       THEN disturb < MaxDisturb /\ disturb' = disturb + 1
       ELSE UNCHANGED disturb

\* accept_cb after the reload left lock l, cached mtime and lists inc and blk.
\* Either file may fail to open, whatever becomes of the other.
Admit(p, l, mtime, inc, blk, ok) ==
    /\ Allowed(p, l)
    /\ conns' = Append(conns, p)
    /\ \E wrote \in WriteOutcomes : SetLock(p, l, mtime, wrote)
    /\ WriteStatus(locked', conns', Push(ResetIf(SetResets(p, l), inc), p),
                   ResetIf(SetResets(p, l), blk), ok)

Refuse(p, l, mtime, inc, blk, ok) ==
    /\ ~Allowed(p, l)
    /\ locked' = l
    /\ cachedMtime' = mtime
    /\ WriteStatus(l, conns, inc, Push(blk, p), ok)
    /\ UNCHANGED <<conns, lockFile, disturb>>

Decide(p, l, mtime, inc, blk, ok) ==
    \/ Admit(p, l, mtime, inc, blk, ok)
    \/ Refuse(p, l, mtime, inc, blk, ok)

Idle == up /\ accepting = NoIp

\* accept() returns a descriptor: the process is below its limit.
Accepts == Idle /\ Len(conns) < MaxConns

\* The peer reset the connection before getpeername: nothing is checked.
AcceptUnknown(ok) ==
    /\ Accepts
    /\ conns' = Append(conns, NoIp)
    /\ WriteStatus(locked, conns', incoming, blocked, ok)
    /\ UNCHANGED <<up, locked, cachedMtime, accepting, lockFile, clock, writing,
                   raced, disturb>>

\* ip_lock_reload finds no lock file.
AcceptNoFile(p, ok) ==
    /\ Accepts
    /\ lockFile.mtime = 0
    /\ Decide(p, NoIp, 0, ResetIf(locked # NoIp, incoming),
              ResetIf(locked # NoIp, blocked), ok)
    /\ UNCHANGED <<up, accepting, clock, writing, raced>>

\* ip_lock_reload finds the mtime it has cached and keeps the memory copy.
AcceptCached(p, ok) ==
    /\ Accepts
    /\ lockFile.mtime # 0
    /\ lockFile.mtime = cachedMtime
    /\ Decide(p, locked, cachedMtime, incoming, blocked, ok)
    /\ UNCHANGED <<up, accepting, clock, writing, raced>>

\* ip_lock_reload finds a new mtime: cache it, then open the file ...
AcceptStat(p) ==
    /\ Accepts
    /\ lockFile.mtime \notin {0, cachedMtime}
    /\ cachedMtime' = lockFile.mtime
    /\ accepting' = p
    /\ UNCHANGED <<up, conns, locked, incoming, blocked, lockFile, statusFile,
                   clock, writing, fresh, raced, disturb>>

\* ... which still exists: its first line is the lock ...
AcceptRead(ok) ==
    /\ up /\ accepting # NoIp
    /\ lockFile.mtime # 0
    /\ Decide(accepting, lockFile.ip, cachedMtime,
              ResetIf(lockFile.ip # locked, incoming),
              ResetIf(lockFile.ip # locked, blocked), ok)
    /\ accepting' = NoIp
    /\ UNCHANGED <<up, clock, writing, raced>>

\* ... or was unlinked since: the lock is dropped, the lists are kept.
AcceptGone(ok) ==
    /\ up /\ accepting # NoIp
    /\ lockFile.mtime = 0
    /\ Decide(accepting, NoIp, cachedMtime, incoming, blocked, ok)
    /\ accepting' = NoIp
    /\ raced' = TRUE
    /\ UNCHANGED <<up, clock, writing>>

-----------------------------------------------------------------------------
(* The other callbacks of the server, and its life cycle *)

\* Mutant of Close: the status file is not rewritten.
CloseSilently(i, ok) ==
    /\ Idle
    /\ conns' = Without(conns, i)
    /\ UNCHANGED <<up, locked, cachedMtime, accepting, incoming, blocked, lockFile,
                   statusFile, clock, writing, fresh, raced, disturb>>

\* close_and_free_server, whatever ended the connection: the client, an error
\* or the keepalive that ip_lock_configure_client_socket turns on.
Close(i, ok) ==
    /\ Idle
    /\ conns' = Without(conns, i)
    /\ WriteStatus(locked, conns', incoming, blocked, ok)
    /\ UNCHANGED <<up, locked, cachedMtime, accepting, lockFile, clock, writing,
                   raced, disturb>>

\* stat_update_cb, whose datagram to the manager went out; a failed one
\* returns before the status is written and changes nothing.  The lock file
\* is not reloaded here.
StatUpdate(ok) ==
    /\ Idle
    /\ WriteStatus(locked, conns, incoming, blocked, ok)
    /\ UNCHANGED <<up, conns, locked, cachedMtime, accepting, lockFile, clock,
                   writing, raced, disturb>>

\* The memory of a process that is gone.
Vanish ==
    /\ up' = FALSE
    /\ conns' = <<>>
    /\ locked' = NoIp
    /\ cachedMtime' = 0
    /\ accepting' = NoIp
    /\ incoming' = <<>>
    /\ blocked' = <<>>
    /\ fresh' = FALSE
    /\ UNCHANGED <<lockFile, clock, writing, raced, disturb>>

\* SIGTERM: free_connections closes every connection, each close writing the
\* status file, and the process returns from main.
Exit ==
    /\ Idle
    /\ statusFile' = IF conns = <<>> THEN statusFile
                     ELSE Status(locked, <<>>, Prune(incoming), Prune(blocked))
    /\ Vanish

\* The process dies without running its clean-up, in the middle of accept_cb
\* or not.
Crash ==
    /\ up
    /\ Vanish
    /\ UNCHANGED statusFile

\* A new process on the port: ip_lock_init, which reads the lock file.
Start ==
    /\ ~up
    /\ up' = TRUE
    /\ locked' = lockFile.ip
    /\ cachedMtime' = lockFile.mtime
    /\ fresh' = FALSE
    /\ raced' = FALSE
    /\ disturb' = 0
    /\ UNCHANGED <<conns, accepting, incoming, blocked, lockFile, statusFile,
                   clock, writing>>

-----------------------------------------------------------------------------
(* The manager's side of the sidecar files, and the clock *)

Disturb ==
    /\ disturb < MaxDisturb
    /\ disturb' = disturb + 1

\* write_port_lock_ip: fopen(path, "w") truncates the file ...
SetIpOpen(ip) ==
    /\ writing = NoIp
    /\ writing' = ip
    /\ lockFile' = [ip |-> NoIp, mtime |-> clock]
    /\ Disturb
    /\ UNCHANGED <<up, memory, statusFile, clock, fresh, raced>>

\* ... and fclose writes the address.
SetIpWrite ==
    /\ writing # NoIp
    /\ writing' = NoIp
    /\ lockFile' = [ip |-> writing, mtime |-> clock]
    /\ Disturb
    /\ UNCHANGED <<up, memory, statusFile, clock, fresh, raced>>

\* clear_port_lock_ip
ClearIp ==
    /\ writing = NoIp
    /\ lockFile' = NoFile
    /\ Disturb
    /\ UNCHANGED <<up, memory, statusFile, clock, writing, fresh, raced>>

\* remove_server unlinks both files before its SIGTERM reaches the process.
RemoveFiles ==
    /\ writing = NoIp
    /\ lockFile' = NoFile
    /\ statusFile' = NoStatus
    /\ fresh' = FALSE
    /\ Disturb
    /\ UNCHANGED <<up, memory, clock, writing, raced>>

Tick ==
    /\ clock < MaxTime
    /\ clock' = clock + 1
    /\ UNCHANGED <<up, memory, lockFile, statusFile, writing, fresh, raced, disturb>>

-----------------------------------------------------------------------------
(* The specification *)

Init ==
    /\ up = FALSE
    /\ conns = <<>>
    /\ locked = NoIp
    /\ cachedMtime = 0
    /\ accepting = NoIp
    /\ incoming = <<>>
    /\ blocked = <<>>
    /\ lockFile = NoFile
    /\ statusFile = NoStatus
    /\ clock = 1
    /\ writing = NoIp
    /\ fresh = FALSE
    /\ raced = FALSE
    /\ disturb = 0

Accept ==
    \E ok \in WriteOutcomes :
        \/ AcceptUnknown(ok)
        \/ \E p \in Ip : AcceptNoFile(p, ok) \/ AcceptCached(p, ok)
        \/ AcceptRead(ok)
        \/ AcceptGone(ok)

Server ==
    \/ Accept
    \/ \E p \in Ip : AcceptStat(p)
    \/ \E ok \in WriteOutcomes : StatUpdate(ok) \/ \E i \in DOMAIN conns : Close(i, ok)
    \/ Exit
    \/ Crash
    \/ Start

Manager ==
    \/ \E ip \in Ip : SetIpOpen(ip)
    \/ SetIpWrite
    \/ ClearIp
    \/ RemoveFiles

Next == Server \/ Manager \/ Tick

Spec == Init /\ [][Next]_vars

-----------------------------------------------------------------------------
(* Properties *)

TypeOK ==
    /\ up \in BOOLEAN
    /\ conns \in Seq(Addr) /\ Len(conns) <= MaxConns
    /\ locked \in Addr
    /\ cachedMtime \in Nat
    /\ accepting \in Addr
    /\ incoming \in Seq(Entry) /\ Len(incoming) <= RecentMax
    /\ blocked \in Seq(Entry) /\ Len(blocked) <= RecentMax
    /\ lockFile \in LockFile
    /\ statusFile \in StatusFile
    /\ clock \in Nat
    /\ writing \in Addr
    /\ {fresh, raced} \subseteq BOOLEAN
    /\ disturb \in 0..MaxDisturb

\* The inductive core of the two properties below: live addresses other than
\* the holder, plus one if the file disagrees with memory, were each paid for
\* by a disturbance.
LockBudget ==
    up => Cardinality(LiveIps(conns) \ {locked})
            + (IF lockFile.ip # locked THEN 1 ELSE 0) <= disturb

\* One port, one client address: the addresses with a live connection are at
\* most one more than the times somebody outside the lock's own rules touched
\* it (an operator's set_ip, clear_ip or remove, a lock file that could not be
\* written) since the process started.  With none of those, all live
\* connections of the port come from the same address.
OneClientPerPort == up => Cardinality(LiveIps(conns)) <= 1 + disturb

\* The lock survives the process: as long as nobody else touched it, the lock
\* file names the address the server enforces, so the next process on the port
\* starts with the same holder.
LockDurable == up /\ disturb = 0 => lockFile.ip = locked

\* An address with a live connection that both the server and the lock file
\* name as the holder is never displaced by a newcomer.
HolderNotDisplaced ==
    [][up /\ up' /\ HasConn(locked) /\ lockFile.ip = locked => locked' = locked]_vars

\* A status file this process wrote tells the truth about the connections it
\* has now and the lock it enforces now, also between two status writes.
StatusTruth ==
    fresh => /\ statusFile.connections = Cardinality(Known(conns))
             /\ statusFile.active = ActiveIps(conns)
             /\ statusFile.locked = locked

\* Unless an unlink slipped between a stat and an fopen, the holder of the lock
\* is not on the list of blocked addresses, and only the holder is on the list
\* of recent ones: both lists start afresh whenever the lock changes hands.
ListsFollowLock ==
    up /\ ~raced => locked \notin Ips(blocked) /\ Ips(incoming) \subseteq {locked}

\* The lists hold an address once, newest first, so that the entry a full list
\* drops is the one seen longest ago.
ListsNewestFirst ==
    \A store \in {incoming, blocked} : \A i, j \in DOMAIN store :
        i < j => store[i].ip # store[j].ip /\ store[i].seen >= store[j].seen

\* The lock as a whole: every live address beyond the first, and every
\* disagreement of file and memory, goes back to somebody outside the lock's
\* rules, and without such a disturbance the file names the holder.
LockKept == LockBudget /\ OneClientPerPort /\ LockDurable

\* What the status shows of the past: lists of addresses seen once each, newest
\* first, that start afresh with every holder and never outgrow their slots.
ListsTrue == TypeOK /\ ListsFollowLock /\ ListsNewestFirst
=============================================================================
