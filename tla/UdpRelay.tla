------------------------------ MODULE UdpRelay ------------------------------
(***************************************************************************)
(* The UDP relay of ss-server and of the client programs, with its         *)
(* connection cache (cache.c) and the lookups of the resolver (resolv.c).  *)
(*                                                                         *)
(* A datagram of a client leaves through the client's association, a       *)
(* socket that is found in the cache under the client's address and the    *)
(* address family of the destination.  Associations are freed by their     *)
(* idle timer, by the cache when it is full, and at the end, whoever may   *)
(* still hold a pointer: a lookup keeps the one that was found when it     *)
(* began.                                                                  *)
(*                                                                         *)
(* A datagram that is dropped (not authentic, no address in it, no socket, *)
(* or sendto fails on a new association) leaves everything as it is.       *)
(***************************************************************************)
EXTENDS Integers, Sequences, FiniteSets, SequencesExt

CONSTANTS
    Client,     \* source addresses
    Ref,        \* where a remote_ctx_t can be allocated
    Query,      \* where a query_ctx_t can be allocated
    Capacity,   \* MAX_UDP_CONN_NUM
    Numeric,    \* address families of destinations given by number
    None

Key     == [src : Client, af : Numeric \cup {"unspec"}]
Request == {"A", "AAAA"}

\* A lookup that was given an association is stale once that was freed.
Lookup == [src : Client, remote : Ref \cup {None}, requests : SUBSET Request, found : BOOLEAN, stale : BOOLEAN]

ASSUME UdpRelayAssumption ==
    /\ Capacity \in Nat /\ Capacity > 1
    /\ None \notin Ref \cup Key \cup Lookup
    /\ "inet" \in Numeric /\ "unspec" \notin Numeric

VARIABLES
    side,       \* which program runs: "remote" is ss-server, "local" a client program
    remote,     \* the heap: the key of each association that is allocated
    armed,      \* associations whose watchers run
    cache,      \* conn_cache, the entry used longest ago first
    query,      \* the lookups in progress
    last        \* through whose association the last datagram went

vars == <<side, remote, armed, cache, query, last>>

Alive == {r \in Ref : remote[r] # None}

-----------------------------------------------------------------------------
(* cache.c, with free_cb of udprelay.c *)

\* Mutant of Hits: the client is left out of the key.
HitsByFamily(k) == {i \in 1..Len(cache) : remote[cache[i]].af = k.af}

Hits(k) == {i \in 1..Len(cache) : remote[cache[i]] = k}

\* HASH_FIND: of two entries with one key, the one added last.
Found(k) == IF Hits(k) = {} THEN None ELSE cache[CHOOSE i \in Hits(k) : \A j \in Hits(k) : j <= i]

\* HASH_DELETE takes one entry out.
Unlinked(r) == RemoveAt(cache, CHOOSE i \in 1..Len(cache) : cache[i] = r)

\* cache_lookup makes its entry the newest one.
Touched(r) == IF r = None THEN cache ELSE Append(Unlinked(r), r)

Stale(qs, freed) ==
    [q \in Query |-> IF qs[q] # None /\ qs[q].remote \in freed THEN [qs[q] EXCEPT !.stale = TRUE] ELSE qs[q]]

\* The entry that cache_insert throws out of the grown cache.
Evicted(entries) == IF Len(entries) >= Capacity THEN {Head(entries)} ELSE {}

\* cache_insert of a new association, which then starts its watchers.
Insert(r, k, qs) ==
    LET grown == Append(cache, r)
        out   == Evicted(grown)
    IN  /\ cache'  = IF out = {} THEN grown ELSE Tail(grown)
        /\ remote' = [x \in Ref |-> IF x = r THEN k ELSE IF x \in out THEN None ELSE remote[x]]
        /\ armed'  = (armed \ out) \cup {r}
        /\ query'  = Stale(qs, out)

Through(c, key, stale) == IF key.src = c THEN "own" ELSE IF stale THEN "stray" ELSE "foreign"

-----------------------------------------------------------------------------
(* server_recv_cb *)

\* Mutant of Send: a hit is not looked at, every datagram opens a socket.
SendAlwaysNew(c, af, qs) ==
    \E r \in Ref \ Alive :
        Insert(r, [src |-> c, af |-> af], qs) /\ last' = Through(c, [src |-> c, af |-> af], FALSE)

\* Through the association in the cache, or through a new one that enters it.
Send(c, af, qs) ==
    LET k == [src |-> c, af |-> af]
        r == Found(k)
    IN  \/ /\ r # None
           /\ last' = Through(c, remote[r], FALSE)
           /\ cache' = Touched(r) /\ query' = qs
           /\ UNCHANGED <<remote, armed>>
        \/ /\ r = None
           /\ last' = Through(c, k, FALSE)
           /\ \E x \in Ref \ Alive : Insert(x, k, qs)

ServerRecv(c, af) ==
    /\ side = "remote"
    /\ Send(c, af, query)
    /\ UNCHANGED side

ServerRecvName(c, q) ==
    LET r == Found([src |-> c, af |-> "unspec"])
    IN  /\ side = "remote" /\ query[q] = None
        /\ cache' = Touched(r)
        /\ query' = [query EXCEPT ![q] = [src |-> c, remote |-> r, requests |-> Request,
                                          found |-> FALSE, stale |-> FALSE]]
        /\ UNCHANGED <<side, remote, armed, last>>

\* A client program knows one destination, its server, and keeps a new
\* association whether or not sendto succeeds.
LocalRecv(c) ==
    /\ side = "local"
    /\ Send(c, "inet", query)
    /\ UNCHANGED side

-----------------------------------------------------------------------------
(* dns_query_v4_cb and dns_query_v6_cb, process_client_callback, resolv_cb *)

\* Mutant of Answered: both callbacks mark the A request.
AnsweredFirst(l, request, ok) == [l EXCEPT !.requests = l.requests \ {"A"}, !.found = l.found \/ ok]

Answered(l, request, ok) == [l EXCEPT !.requests = l.requests \ {request}, !.found = l.found \/ ok]

\* The first answer of two.
Answer(q, request, ok) ==
    LET l == Answered(query[q], request, ok)
    IN  /\ query[q] # None /\ request \in query[q].requests
        /\ l.requests # {}
        /\ query' = [query EXCEPT ![q] = l]
        /\ UNCHANGED <<side, remote, armed, cache, last>>

Done(q, request, ok) ==
    /\ query[q] # None /\ request \in query[q].requests
    /\ Answered(query[q], request, ok).requests = {}

Without(q) == [query EXCEPT ![q] = None]

\* No address, no socket, or sendto fails.
ResolveFails(q, request, ok) ==
    LET l == query[q]
        r == IF ok \/ l.found THEN Found([src |-> l.src, af |-> "unspec"]) ELSE None
    IN  /\ Done(q, request, ok)
        /\ query' = Without(q)
        /\ cache' = IF l.remote = None THEN Touched(r) ELSE cache
        /\ UNCHANGED <<side, remote, armed, last>>

\* The lookup has no association: the cache is asked again.
ResolvedFresh(q, request, ok) ==
    LET l == query[q]
    IN  /\ Done(q, request, ok) /\ (ok \/ l.found) /\ l.remote = None
        /\ Send(l.src, "unspec", Without(q))
        /\ UNCHANGED side

\* The lookup has an association and uses it unseen.  If that was freed, its
\* memory may be that of another one by now, or still hold the number of a
\* socket that is.
ResolvedKept(q, request, ok) ==
    LET l == query[q]
    IN  /\ Done(q, request, ok) /\ (ok \/ l.found) /\ l.remote # None
        /\ query' = Without(q)
        /\ \E r \in (IF remote[l.remote] # None THEN {l.remote} ELSE Alive) :
              last' = Through(l.src, remote[r], l.stale)
        /\ UNCHANGED <<side, remote, armed, cache>>

-----------------------------------------------------------------------------
(* remote_timeout_cb, init_udprelay, and resolv_shutdown with free_udprelay *)

\* It is the key that is removed from the cache, and what the cache has there
\* is freed.
Timeout(r) ==
    LET x == Found(remote[r])
    IN  /\ r \in armed
        /\ x # None
        /\ cache'  = Unlinked(x)
        /\ armed'  = armed \ {x}
        /\ remote' = [remote EXCEPT ![x] = None]
        /\ query'  = Stale(query, {x})
        /\ UNCHANGED <<side, last>>

Start(s) ==
    /\ side = "off"
    /\ side' = s
    /\ UNCHANGED <<remote, armed, cache, query, last>>

\* Lookups are cancelled, and the cache frees what it holds.
Shutdown ==
    /\ side # "off"
    /\ side'   = "off"
    /\ query'  = [q \in Query |-> None]
    /\ cache'  = << >>
    /\ remote' = [r \in Ref |-> IF r \in Range(cache) THEN None ELSE remote[r]]
    /\ armed'  = armed \ Range(cache)
    /\ last'   = "own"

-----------------------------------------------------------------------------
Init ==
    /\ side = "off"
    /\ remote = [r \in Ref |-> None] /\ armed = {}
    /\ cache = << >>
    /\ query = [q \in Query |-> None]
    /\ last = "own"

Resolv(q) ==
    \E request \in Request, ok \in BOOLEAN :
        Answer(q, request, ok) \/ ResolveFails(q, request, ok)
            \/ ResolvedFresh(q, request, ok) \/ ResolvedKept(q, request, ok)

Next ==
    \/ \E c \in Client : \/ \E af \in Numeric : ServerRecv(c, af)
                         \/ \E q \in Query : ServerRecvName(c, q)
                         \/ LocalRecv(c)
    \/ \E q \in Query : Resolv(q)
    \/ \E r \in Ref : Timeout(r)
    \/ \E s \in {"remote", "local"} : Start(s)
    \/ Shutdown

Spec == Init /\ [][Next]_vars

\* c-ares answers every request in the end, with a timeout if nothing else.
FairSpec == Spec /\ \A q \in Query : WF_vars(Resolv(q))

-----------------------------------------------------------------------------
(* Properties *)

\* The types; and the cache never holds more than its capacity, as cache.h says.
\* (It holds one less: cache_insert throws out the oldest as soon as the limit is
\* reached.)
TypeOK ==
    /\ side \in {"off", "remote", "local"}
    /\ remote \in [Ref -> Key \cup {None}] /\ armed \subseteq Ref
    /\ cache \in Seq(Ref) /\ Len(cache) <= Capacity
    /\ query \in [Query -> Lookup \cup {None}]
    /\ last \in {"own", "stray", "foreign"}

\* What is allocated is in the cache, once, with its watchers running: nothing
\* that was freed is found there or called by the event loop, and no socket is
\* lost to both.
NoDangling == Range(cache) = Alive /\ armed = Alive /\ IsInjective(cache)

\* No two associations have one key, though cache_insert does not look for one:
\* the timer of an association removes that association and no other.
OneEntryPerKey == \A r, x \in Alive : remote[r] = remote[x] => r = x

\* A datagram leaves through the association of its own client, so that the
\* answer finds its way, unless its lookup outlived the association it began
\* with.
OwnAssociation == last # "foreign"

\* An association that is not stale is where its lookup expects it.
LookupsHold ==
    \A q \in Query : query[q] # None /\ query[q].remote # None /\ ~query[q].stale
                        => remote[query[q].remote] = [src |-> query[q].src, af |-> "unspec"]

\* Every lookup ends, whatever its two requests answer and in whatever order.
LookupEnds == \A q \in Query : query[q] # None ~> query[q] = None

\* Cache, heap and event loop agree: what is allocated is in the cache once,
\* under a key of its own, with its watchers running.
CacheSound == TypeOK /\ NoDangling /\ OneEntryPerKey

\* A lookup finds its association where it left it, and its datagram leaves by
\* it, unless the association was freed in between.
LookupsOwn == OwnAssociation /\ LookupsHold
=============================================================================
