------------------------------ MODULE UdpPath -------------------------------
(***************************************************************************)
(* The way of a datagram from an application through a client program      *)
(* (ss-local, ss-tunnel or ss-redir) and ss-server to its destination, and *)
(* of the answers back: udprelay.c with all the headers it builds, parses  *)
(* and strips, run by two programs that talk over UDP.                     *)
(*                                                                         *)
(* Whatever was sent stays in the network for good: it may come late, in   *)
(* any order, more than once or never.  A datagram that is not authentic   *)
(* is dropped by decrypt_all and does not occur; ports are not used again. *)
(* Which of the associations the cache throws out, and the memory that a   *)
(* lookup is left with, are in UdpRelay.                                   *)
(***************************************************************************)
EXTENDS Integers, Sequences, FiniteSets

CONSTANTS
    V4, V6,         \* hosts with an IPv4 or an IPv6 address, with their ports
    Name,           \* names of hosts
    Dns,            \* the hosts each name stands for
    App,            \* applications
    Target,         \* what applications of ss-local ask for: a set of [header, frag]
    Forward,        \* what ss-tunnel may be told to forward to
    None,
    MaxAsked, MaxLocal, MaxRemote, MaxLookups, MaxReplies   \* bounds

Family == {"inet", "inet6"}

\* A sockaddr.  The IPv6 address of a host of V4 is its mapped one.
Sockaddr == [fam : {"inet"}, ip : V4] \cup [fam : {"inet6"}, ip : V4 \cup V6 \cup {"any"}]

Of(host) == [fam |-> IF host \in V4 THEN "inet" ELSE "inet6", ip |-> host]
Peer     == {Of(h) : h \in V4 \cup V6}

\* The address header: its type and what follows.  A name may be the text of
\* an address, and a type other than 1, 3 and 4 stands for no address.
Header == [atyp : {1}, host : V4] \cup [atyp : {4}, host : V4 \cup V6 \cup {"any"}]
              \cup [atyp : {3}, host : Name \cup V4 \cup V6] \cup {[atyp |-> 2, host |-> "any"]}

ASSUME UdpPathAssumption ==
    /\ V4 \cap V6 = {} /\ Name \cap (V4 \cup V6) = {} /\ "any" \notin V4 \cup V6 \cup Name
    /\ Dns \in [Name -> (SUBSET (V4 \cup V6)) \ {{}}]
    /\ Target \subseteq [header : Header, frag : {0, 1}]
    /\ Forward \subseteq V4 \cup V6 \cup Name
    /\ None \notin Header \cup Sockaddr \cup [fam : {"unspec"}, ip : Name]
    /\ {MaxAsked, MaxLocal, MaxRemote, MaxLookups, MaxReplies} \subseteq Nat

Program == {"local", "tunnel", "redir"}

VARIABLES
    program,    \* the client program that runs
    forward,    \* tunnel_addr of ss-tunnel, a name or the text of an address
    heard,      \* the family whose datagrams its socket receives, or None
    asked,      \* [app, target, frag]: what the applications have sent to it
    local,      \* its associations, open or closed: [src, open]
    uplink,     \* what it has sent to ss-server
    remote,     \* the associations of ss-server: [src, af, fam, open]
    lookups,    \* lookups of ss-server, with the association each began with
    reached,    \* what ss-server has sent to destinations
    replied,    \* what has been sent to sockets of ss-server
    downlink,   \* what ss-server has sent back
    answers     \* what the applications have received

vars == <<program, forward, heard, asked, local, uplink, remote, lookups, reached, replied, downlink, answers>>

-----------------------------------------------------------------------------
(* Addresses and headers *)

construct_udprelay_header(addr) == [atyp |-> IF addr.fam = "inet" THEN 1 ELSE 4, host |-> addr.ip]

\* The address of a header, a name, or None.  The text of an IPv6 address is
\* read by inet_pton(AF_INET), which leaves the unspecified address.
parse_udprelay_header(h) ==
    CASE h.atyp = 1                      -> [fam |-> "inet", ip |-> h.host]
      [] h.atyp = 3 /\ h.host \in V4     -> [fam |-> "inet", ip |-> h.host]
      [] h.atyp = 3 /\ h.host \in V6     -> [fam |-> "inet6", ip |-> "any"]
      [] h.atyp = 3 /\ h.host \in Name   -> [fam |-> "unspec", ip |-> h.host]
      [] h.atyp = 4                      -> [fam |-> "inet6", ip |-> h.host]
      [] OTHER                           -> None

\* Where a datagram that ss-redir intercepted was sent.
get_dstaddr(target) == Of(target.host)

\* The header that ss-tunnel makes of its tunnel_addr.
TunnelHeader(host) ==
    IF host \in V4 THEN [atyp |-> 1, host |-> host]
    ELSE IF host \in V6 THEN [atyp |-> 4, host |-> host]
    ELSE [atyp |-> 3, host |-> host]

convert_ipv4_mapped_ipv6(addr) == [addr EXCEPT !.fam = "inet6"]

\* Who a mapped address is.
Plain(addr) == IF addr.ip \in V4 THEN Of(addr.ip) ELSE addr

\* An IPv6 socket reaches IPv4 hosts and sees them with their mapped address.
Reaches(fam, addr) == fam = "inet6" \/ addr.fam = "inet"
Seen(fam, addr)    == IF fam = "inet6" THEN convert_ipv4_mapped_ipv6(addr) ELSE addr

-----------------------------------------------------------------------------
(* init_udprelay: create_server_socket *)

\* The family of the first address of the host that can be bound: with
\* IPV6_V6ONLY, nobody of the other one is heard.  All programs name a host.
create_server_socket(list, bindable) ==
    LET ok == {i \in DOMAIN list : list[i] \in bindable}
    IN  IF ok = {} THEN None ELSE list[CHOOSE i \in ok : \A j \in ok : i <= j]

-----------------------------------------------------------------------------
(* Associations *)

\* The family of a new socket.
create_remote_socket(ipv6) == IF ipv6 THEN "inet6" ELSE "inet"

new_remote(src, af, addr) ==
    [src |-> src, af |-> af, fam |-> create_remote_socket(addr.fam = "inet6"), open |-> TRUE]

close_and_free_remote(ctxs, i) == [ctxs EXCEPT ![i].open = FALSE]

OpenLocal(app) == {i \in DOMAIN local : local[i].open /\ local[i].src = app}

\* Mutant of OpenRemote: hash_key leaves the source out.
OpenRemoteAny(src, af) == {i \in DOMAIN remote : remote[i].open /\ remote[i].af = af}

\* What cache_lookup may find: the associations that are open for this source and
\* family.
OpenRemote(src, af) == {i \in DOMAIN remote : remote[i].open /\ remote[i].src = src /\ remote[i].af = af}

-----------------------------------------------------------------------------
(* The applications, and whoever answers *)

\* How an application of each program says where a datagram is to go: in the
\* header of SOCKS5, which has the number of the fragment, not at all, or by the
\* address it sends to.
Says(p, f) ==
    CASE p = "local"  -> Target
      [] p = "tunnel" -> [header : {f}, frag : {0}]
      [] p = "redir"  -> [header : {construct_udprelay_header(a) : a \in {x \in Peer : x.fam = heard}}, frag : {0}]

Ask(app, t) ==
    /\ Cardinality(asked) < MaxAsked
    /\ heard # None
    /\ asked' = asked \cup {[app |-> app, target |-> t.header, frag |-> t.frag]}
    /\ UNCHANGED <<program, forward, heard, local, uplink, remote, lookups, reached, replied, downlink, answers>>

\* The sockets of ss-server are not connected: anybody may send to them.
Reply(addr, e) ==
    /\ Cardinality(replied) < MaxReplies
    /\ remote[e].open /\ Reaches(remote[e].fam, addr)
    /\ replied' = replied \cup {[from |-> addr, to |-> e]}
    /\ UNCHANGED <<program, forward, heard, asked, local, uplink, remote, lookups, reached, downlink, answers>>

-----------------------------------------------------------------------------
(* server_recv_cb of a client program *)

\* The header of the datagram that goes to ss-server, or None if it is dropped.
ClientHeader(r) ==
    CASE program = "local"  -> IF parse_udprelay_header(r.target) = None \/ r.frag # 0 THEN None ELSE r.target
      [] program = "tunnel" -> TunnelHeader(forward)
      [] program = "redir"  -> construct_udprelay_header(get_dstaddr(r.target))

\* A new association stays whether or not sendto succeeds: a datagram that was
\* not sent is one that ss-server never receives.
LocalRecv(r) ==
    LET h    == ClientHeader(r)
        hits == OpenLocal(r.app)
    IN  /\ h # None
        /\ \E i \in (IF hits = {} THEN {Len(local) + 1} ELSE hits) :
              /\ i <= MaxLocal
              /\ local'  = IF hits = {} THEN Append(local, [src |-> r.app, open |-> TRUE]) ELSE local
              /\ uplink' = uplink \cup {[from |-> i, header |-> h, payload |-> r]}
        /\ UNCHANGED <<program, forward, heard, asked, remote, lookups, reached, replied, downlink, answers>>

LocalTimeout(i) ==
    /\ local[i].open
    /\ local' = close_and_free_remote(local, i)
    /\ UNCHANGED <<program, forward, heard, asked, uplink, remote, lookups, reached, replied, downlink, answers>>

-----------------------------------------------------------------------------
(* server_recv_cb and resolv_cb of ss-server *)

Leave(e, addr, payload) == reached' = reached \cup {[from |-> e, to |-> Plain(addr), payload |-> payload]}

\* Mutant of Open: the association enters the cache before the datagram is sent.
OpenFirst(src, af, addr, payload) ==
    /\ Len(remote) < MaxRemote
    /\ remote' = Append(remote, new_remote(src, af, addr))
    /\ Leave(Len(remote) + 1, addr, payload) \/ UNCHANGED reached

\* A new association enters the cache once its first datagram was sent.
Open(src, af, addr, payload) ==
    /\ Len(remote) < MaxRemote
    /\ remote' = Append(remote, new_remote(src, af, addr))
    /\ Leave(Len(remote) + 1, addr, payload)

Through(e, addr, payload) ==
    /\ Reaches(remote[e].fam, addr)
    /\ Leave(e, addr, payload)
    /\ UNCHANGED remote

ServerRecv(d) ==
    LET dst  == parse_udprelay_header(d.header)
        hits == OpenRemote(d.from, dst.fam)
    IN  /\ dst # None /\ dst.fam # "unspec"
        /\ \/ hits = {} /\ Open(d.from, dst.fam, dst, d.payload)
           \/ \E e \in hits : Through(e, dst, d.payload)
        /\ UNCHANGED <<program, forward, heard, asked, local, uplink, lookups, replied, downlink, answers>>

\* A name: the association that is found, if any, is kept for the answer.
ServerRecvName(d) ==
    LET dst  == parse_udprelay_header(d.header)
        hits == OpenRemote(d.from, "unspec")
    IN  /\ dst # None /\ dst.fam = "unspec" /\ Cardinality(lookups) < MaxLookups
        /\ \E e \in (IF hits = {} THEN {0} ELSE hits) :
              lookups' = lookups \cup {[from |-> d.from, name |-> dst.ip, payload |-> d.payload, kept |-> e]}
        /\ UNCHANGED <<program, forward, heard, asked, local, uplink, remote, reached, replied, downlink, answers>>

\* No address, no socket, or sendto fails.
ResolveFails(l) ==
    /\ lookups' = lookups \ {l}
    /\ UNCHANGED <<program, forward, heard, asked, local, uplink, remote, reached, replied, downlink, answers>>

\* The association that was kept is used unseen: if it was closed meanwhile,
\* its memory may be that of any other.
Resolve(l, addr) ==
    LET hits == OpenRemote(l.from, "unspec")
        kept == IF remote[l.kept].open THEN {l.kept} ELSE {e \in DOMAIN remote : remote[e].open}
    IN  /\ lookups' = lookups \ {l}
        /\ \/ l.kept = 0 /\ hits = {} /\ Open(l.from, "unspec", addr, l.payload)
           \/ l.kept = 0 /\ \E e \in hits : Through(e, addr, l.payload)
           \/ l.kept # 0 /\ \E e \in kept : Through(e, addr, l.payload)
        /\ UNCHANGED <<program, forward, heard, asked, local, uplink, replied, downlink, answers>>

RemoteTimeout(e) ==
    /\ remote[e].open
    /\ remote' = close_and_free_remote(remote, e)
    /\ UNCHANGED <<program, forward, heard, asked, local, uplink, lookups, reached, replied, downlink, answers>>

-----------------------------------------------------------------------------
(* remote_recv_cb of ss-server and of a client program *)

RemoteRecv(p) ==
    /\ remote[p.to].open
    /\ downlink' = downlink \cup {[to |-> remote[p.to].src, payload |-> p,
                                   label |-> construct_udprelay_header(Seen(remote[p.to].fam, p.from))]}
    /\ UNCHANGED <<program, forward, heard, asked, local, uplink, remote, lookups, reached, replied, answers>>

\* What the application sees: the label, nothing, or the address ss-redir sends
\* from, whose family has to be that of the application.
Shown(label) ==
    CASE program = "local"  -> {parse_udprelay_header(label)}
      [] program = "tunnel" -> {None}
      [] program = "redir"  -> LET from == convert_ipv4_mapped_ipv6(parse_udprelay_header(label))
                               IN  IF Plain(from).fam = heard THEN {Plain(from)} ELSE {}

LocalAnswer(d) ==
    /\ local[d.to].open
    /\ \E label \in Shown(d.label) :
          answers' = answers \cup {[app |-> local[d.to].src, label |-> label, payload |-> d.payload]}
    /\ UNCHANGED <<program, forward, heard, asked, local, uplink, remote, lookups, reached, replied, downlink>>

-----------------------------------------------------------------------------
Init ==
    /\ program \in Program
    /\ forward \in (IF program = "tunnel" THEN Forward ELSE {CHOOSE h \in Forward : TRUE})
    /\ \E list \in {<<"inet">>, <<"inet6">>, <<"inet6", "inet">>}, bindable \in SUBSET Family :
          heard = create_server_socket(list, bindable)
    /\ asked = {} /\ uplink = {} /\ lookups = {} /\ reached = {} /\ replied = {} /\ downlink = {} /\ answers = {}
    /\ local = << >> /\ remote = << >>

Next ==
    \/ \E a \in App, t \in Says(program, TunnelHeader(forward)) : Ask(a, t)
    \/ \E addr \in Peer, e \in DOMAIN remote : Reply(addr, e)
    \/ \E r \in asked : LocalRecv(r)
    \/ \E i \in DOMAIN local : LocalTimeout(i)
    \/ \E d \in uplink : ServerRecv(d) \/ ServerRecvName(d)
    \/ \E l \in lookups : ResolveFails(l) \/ \E h \in Dns[l.name] : Resolve(l, Of(h))
    \/ \E e \in DOMAIN remote : RemoteTimeout(e)
    \/ \E p \in replied : RemoteRecv(p)
    \/ \E d \in downlink : LocalAnswer(d)

Spec == Init /\ [][Next]_vars

-----------------------------------------------------------------------------
(* Properties *)

\* The types.  ss-server labels an answer with an address that the client
\* program can read, and no association is older than what it was opened for.
TypeOK ==
    /\ program \in Program /\ heard \in Family \cup {None}
    /\ \A r \in asked : r.app \in App /\ r.target \in Header /\ r.frag \in {0, 1}
    /\ \A i \in DOMAIN local : local[i].src \in App
    /\ \A d \in uplink : d.from \in DOMAIN local /\ d.header \in Header /\ d.payload \in asked
    /\ \A e \in DOMAIN remote : remote[e].src \in DOMAIN local /\ remote[e].fam \in Family
    /\ \A l \in lookups : l.kept \in 0..Len(remote) /\ l.name \in Name
    /\ \A r \in reached : r.from \in DOMAIN remote /\ r.to \in Sockaddr
    /\ \A d \in downlink : d.to \in DOMAIN local /\ d.label \in Header /\ d.payload \in replied
    /\ \A a \in answers : a.label \in Sockaddr \cup {None}

\* An application only hears from sockets of ss-server through which one of its
\* own datagrams has left, however often its associations were closed and
\* opened again in between.
Solicited ==
    \A a \in answers : \E r \in reached : r.from = a.payload.to /\ r.payload.app = a.app

\* Every association belongs to somebody who is known, and answers are asked for.
AnswersAsked == TypeOK /\ Solicited

\* Where each target leads: a mapped address to the IPv4 host it stands for, and
\* the text of an IPv6 address that is sent as a name to the unspecified address.
Meaning(t) ==
    LET dst == parse_udprelay_header(t)
    IN  CASE t.atyp = 2            -> {}
          [] t.host \in Name       -> {Of(h) : h \in Dns[t.host]}
          [] OTHER                 -> {Plain(dst)}

\* What UdpService speaks of: whose each endpoint is, what an application is
\* told by an answer, and the requests whose lookup has lost its association.
Owner     == [e \in DOMAIN remote |-> local[remote[e].src].src]
AsTold(a) == [a EXCEPT !.label = IF a.label = None THEN None ELSE Plain(a.label)]
Outlived  == {l.payload : l \in {x \in lookups : x.kept # 0 /\ ~remote[x.kept].open}}

Service == INSTANCE UdpService WITH
    Request <- [app : App, target : Header, frag : {0, 1}],
    Address <- Peer,
    ByName  <- {h \in Header : h.atyp = 3 /\ h.host \in Name},
    owner   <- Owner,
    answers <- {AsTold(a) : a \in answers},
    late    <- Outlived

\* The two programs give the service: every datagram goes where its application
\* asked, unless it is a fragment, and what is sent to the socket it left by
\* comes back to that application with the true sender on it.
ImplementsService == Service!Spec
=============================================================================
