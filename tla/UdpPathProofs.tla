---------------------------- MODULE UdpPathProofs ----------------------------
(***************************************************************************)
(* Answers are asked for, and the two programs give the service that       *)
(* UdpService states, for any hosts, names and applications, whatever the  *)
(* network loses, repeats or delays.                                       *)
(***************************************************************************)
EXTENDS UdpPath, SequenceTheorems, TLAPS

-----------------------------------------------------------------------------
(* What each datagram carries along, whoever has it *)

LocalAssoc       == [src : App, open : BOOLEAN]
RemoteAssoc(ids) == [src : ids, af : Family \cup {"unspec"}, fam : Family, open : BOOLEAN]

\* Sequences only grow, and what they hold does not change its owner.
Associations ==
    /\ local \in Seq(LocalAssoc)
    /\ remote \in Seq(RemoteAssoc(DOMAIN local))

OwnerOf(e) == local[remote[e].src].src

\* The target of every program's requests is what its header will be.
AskedInv ==
    \A r \in asked :
        /\ r \in [app : App, target : Header, frag : {0, 1}]
        /\ program = "tunnel" => r.target = TunnelHeader(forward) /\ r.frag = 0
        /\ program = "redir" => r.target \in {construct_udprelay_header(a) : a \in Peer} /\ r.frag = 0

\* On its way up a datagram is with its application, and goes where it asked.
UplinkInv ==
    \A d \in uplink :
        /\ d.payload \in asked /\ d.payload.frag = 0 /\ d.header = d.payload.target
        /\ d.from \in DOMAIN local /\ local[d.from].src = d.payload.app

LookupsInv ==
    \A l \in lookups :
        /\ l.payload \in asked /\ l.payload.frag = 0
        /\ l.name \in Name /\ l.payload.target = [atyp |-> 3, host |-> l.name]
        /\ l.from \in DOMAIN local /\ local[l.from].src = l.payload.app
        /\ l.kept \in 0..Len(remote)
        /\ l.kept # 0 => remote[l.kept].src = l.from

\* Every endpoint was opened for a datagram that left by it.
ReachedInv ==
    /\ \A r \in reached : r.from \in DOMAIN remote /\ r.to \in Sockaddr
    /\ \A e \in DOMAIN remote : \E r \in reached : r.from = e /\ r.payload.app = OwnerOf(e)

\* On its way down an answer is with the endpoint it was sent to.
DownInv ==
    /\ \A p \in replied : p.from \in Peer /\ p.to \in DOMAIN remote /\ Reaches(remote[p.to].fam, p.from)
    /\ \A d \in downlink : /\ d.payload \in replied /\ d.to = remote[d.payload.to].src
                           /\ d.label = construct_udprelay_header(Seen(remote[d.payload.to].fam, d.payload.from))
    /\ \A a \in answers : /\ a.payload \in replied /\ a.app = OwnerOf(a.payload.to)
                          /\ a.label \in Sockaddr \cup {None}

\* Neither Solicited nor the types are inductive: that an answer reaches the
\* application that asked needs every datagram between the two to be traced.
IInv ==
    /\ program \in Program /\ heard \in Family \cup {None}
    /\ program = "tunnel" => forward \in Forward
    /\ Associations /\ AskedInv /\ UplinkInv /\ LookupsInv /\ ReachedInv /\ DownInv

-----------------------------------------------------------------------------
(* Addresses and headers *)

\* What udprelay.c reads in a header, by the type of the header.
LEMMA ParseCases ==
    ASSUME NEW h \in Header
    PROVE  \/ h.atyp = 1 /\ h.host \in V4 /\ parse_udprelay_header(h) = [fam |-> "inet", ip |-> h.host]
           \/ h.atyp = 3 /\ h.host \in V4 /\ parse_udprelay_header(h) = [fam |-> "inet", ip |-> h.host]
           \/ h.atyp = 3 /\ h.host \in V6 /\ parse_udprelay_header(h) = [fam |-> "inet6", ip |-> "any"]
           \/ /\ h.atyp = 3 /\ h.host \in Name /\ h = [atyp |-> 3, host |-> h.host]
              /\ parse_udprelay_header(h) = [fam |-> "unspec", ip |-> h.host]
           \/ /\ h.atyp = 4 /\ h.host \in V4 \cup V6 \cup {"any"}
              /\ parse_udprelay_header(h) = [fam |-> "inet6", ip |-> h.host]
           \/ h.atyp = 2 /\ h.host = "any" /\ parse_udprelay_header(h) = None
<1>1. \/ h.atyp = 1 /\ h.host \in V4
      \/ h.atyp = 3 /\ h.host \in V4
      \/ h.atyp = 3 /\ h.host \in V6
      \/ h.atyp = 3 /\ h.host \in Name /\ h = [atyp |-> 3, host |-> h.host]
      \/ h.atyp = 4 /\ h.host \in V4 \cup V6 \cup {"any"}
      \/ h.atyp = 2 /\ h.host = "any"
  BY DEF Header
<1>2. /\ h.atyp = 1 => h.atyp # 3 /\ h.atyp # 4
      /\ h.atyp = 3 => h.atyp # 1 /\ h.atyp # 4
      /\ h.atyp = 4 => h.atyp # 1 /\ h.atyp # 3
      /\ h.atyp = 2 => h.atyp # 1 /\ h.atyp # 3 /\ h.atyp # 4
  OBVIOUS
<1>3. /\ h.host \in V4 => h.host \notin V6 /\ h.host \notin Name
      /\ h.host \in V6 => h.host \notin V4 /\ h.host \notin Name
      /\ h.host \in Name => h.host \notin V4 /\ h.host \notin V6
  BY UdpPathAssumption
<1>4. CASE h.atyp = 1 /\ h.host \in V4
  BY <1>2, <1>3, <1>4, Zenon DEF parse_udprelay_header
<1>5. CASE h.atyp = 3 /\ h.host \in V4
  BY <1>2, <1>3, <1>5, Zenon DEF parse_udprelay_header
<1>6. CASE h.atyp = 3 /\ h.host \in V6
  BY <1>2, <1>3, <1>6, Zenon DEF parse_udprelay_header
<1>7. CASE h.atyp = 3 /\ h.host \in Name /\ h = [atyp |-> 3, host |-> h.host]
  BY <1>2, <1>3, <1>7, Zenon DEF parse_udprelay_header
<1>8. CASE h.atyp = 4 /\ h.host \in V4 \cup V6 \cup {"any"}
  BY <1>2, <1>8, Zenon DEF parse_udprelay_header
<1>9. CASE h.atyp = 2 /\ h.host = "any"
  BY <1>2, <1>9, Zenon DEF parse_udprelay_header
<1> QED BY <1>1, <1>4, <1>5, <1>6, <1>7, <1>8, <1>9, Zenon

\* Where a target leads.
LEMMA MeaningCases ==
    ASSUME NEW h \in Header
    PROVE  /\ h.atyp # 2 /\ h.host \in Name => Meaning(h) = {Of(x) : x \in Dns[h.host]}
           /\ h.atyp # 2 /\ h.host \notin Name => Meaning(h) = {Plain(parse_udprelay_header(h))}
<1>1. ASSUME h.atyp # 2 /\ h.host \in Name PROVE Meaning(h) = {Of(x) : x \in Dns[h.host]}
  BY <1>1, Zenon DEF Meaning
<1>2. ASSUME h.atyp # 2 /\ h.host \notin Name PROVE Meaning(h) = {Plain(parse_udprelay_header(h))}
  BY <1>2, Zenon DEF Meaning
<1> QED BY <1>1, <1>2

\* A header that is neither a name nor unknown has an address, which is what it means.
LEMMA ParseAddress ==
    ASSUME NEW h \in Header, NEW dst, dst = parse_udprelay_header(h), dst # None, dst.fam # "unspec"
    PROVE  /\ dst \in Sockaddr /\ dst.fam \in Family
           /\ Plain(dst) \in Sockaddr /\ Plain(dst) \in Meaning(h)
<1>1. h.atyp # 2 /\ h.host \notin Name
  BY ParseCases, UdpPathAssumption
<1>2. Meaning(h) = {Plain(dst)}
  BY <1>1, MeaningCases
<1>3. dst \in Sockaddr /\ dst.fam \in Family
  BY ParseCases DEF Sockaddr, Family
<1>4. Plain(dst) \in Sockaddr
  BY <1>3 DEF Plain, Sockaddr, Of
<1> QED BY <1>2, <1>3, <1>4

LEMMA ParseName ==
    ASSUME NEW h \in Header, NEW dst, dst = parse_udprelay_header(h), dst # None, dst.fam = "unspec"
    PROVE  dst.ip \in Name /\ h = [atyp |-> 3, host |-> dst.ip]
BY ParseCases

\* The address of a host is plain.
LEMMA OfPlain ==
    ASSUME NEW h \in V4 \cup V6
    PROVE  Of(h) \in Peer /\ Of(h) \in Sockaddr /\ Plain(Of(h)) = Of(h) /\ Of(h).fam \in Family
<1>1. Of(h) \in Peer
  BY DEF Peer
<1>2. Of(h) \in Sockaddr /\ Of(h).fam \in Family
  BY DEF Of, Sockaddr, Family
<1>3. Plain(Of(h)) = Of(h)
  BY DEF Of, Plain
<1> QED BY <1>1, <1>2, <1>3

\* A sender that a socket can hear is read back from the label that ss-server
\* puts on its datagram, with its mapped address if it has one.
LEMMA LabelTrue ==
    ASSUME NEW fam \in Family, NEW from \in Peer, Reaches(fam, from),
           NEW label, label = construct_udprelay_header(Seen(fam, from)),
           NEW addr, addr = parse_udprelay_header(label)
    PROVE  /\ label \in Header /\ addr \in Sockaddr
           /\ Plain(addr) = from
           /\ Plain(convert_ipv4_mapped_ipv6(addr)) = from
<1>1. PICK h \in V4 \cup V6 : from = Of(h)
  BY DEF Peer
<1>2. CASE fam = "inet6"
  <2>1. Seen(fam, from) = [fam |-> "inet6", ip |-> h]
    BY <1>1, <1>2 DEF Seen, convert_ipv4_mapped_ipv6, Of
  <2>2. label = [atyp |-> 4, host |-> h]
    BY <2>1 DEF construct_udprelay_header
  <2>3. label \in Header
    BY <2>2 DEF Header
  <2>4. addr = [fam |-> "inet6", ip |-> h]
    BY <2>2, <2>3, ParseCases
  <2>5. addr \in Sockaddr
    BY <2>4 DEF Sockaddr
  <2>6. Plain(addr) = from
    BY <1>1, <2>4 DEF Plain, Of
  <2>7. convert_ipv4_mapped_ipv6(addr) = addr
    BY <2>4 DEF convert_ipv4_mapped_ipv6
  <2> QED BY <2>3, <2>5, <2>6, <2>7
<1>3. CASE fam = "inet"
  <2>1. h \in V4 /\ from = [fam |-> "inet", ip |-> h]
    BY <1>1, <1>3 DEF Reaches, Of
  <2>2. label = [atyp |-> 1, host |-> h]
    BY <1>3, <2>1 DEF construct_udprelay_header, Seen
  <2>3. label \in Header
    BY <2>1, <2>2 DEF Header
  <2>4. addr = [fam |-> "inet", ip |-> h]
    BY <2>2, <2>3, ParseCases
  <2>5. addr \in Sockaddr
    BY <2>1, <2>4 DEF Sockaddr
  <2>6. Plain(addr) = from
    BY <2>1, <2>4 DEF Plain, Of
  <2>7. convert_ipv4_mapped_ipv6(addr) = [fam |-> "inet6", ip |-> h]
    BY <2>4 DEF convert_ipv4_mapped_ipv6
  <2>8. Plain(convert_ipv4_mapped_ipv6(addr)) = from
    BY <2>1, <2>7 DEF Plain, Of
  <2> QED BY <2>3, <2>5, <2>6, <2>8
<1> QED BY <1>2, <1>3 DEF Family

\* What a client program puts before a datagram is what its application said.
LEMMA HeaderKept ==
    ASSUME IInv, NEW r \in asked, ClientHeader(r) # None
    PROVE  ClientHeader(r) = r.target /\ r.frag = 0
<1> USE DEF IInv, AskedInv
<1>1. r.frag \in {0, 1}
  OBVIOUS
<1>2. CASE program = "local"
  <2>1. ClientHeader(r) = IF parse_udprelay_header(r.target) = None \/ r.frag # 0 THEN None ELSE r.target
    BY <1>2, Zenon DEF ClientHeader
  <2> QED BY <2>1
<1>3. CASE program = "tunnel"
  <2>1. ClientHeader(r) = TunnelHeader(forward)
    BY <1>3, Zenon DEF ClientHeader
  <2> QED BY <1>3, <2>1
<1>4. CASE program = "redir"
  <2>1. ClientHeader(r) = construct_udprelay_header(get_dstaddr(r.target))
    BY <1>4, Zenon DEF ClientHeader
  <2>2. PICK a \in Peer : r.target = construct_udprelay_header(a)
    BY <1>4
  <2>3. PICK h \in V4 \cup V6 : a = Of(h)
    BY DEF Peer
  <2>4. r.target.host = h
    BY <2>2, <2>3 DEF Of, construct_udprelay_header
  <2> QED BY <1>4, <2>1, <2>2, <2>3, <2>4 DEF get_dstaddr
<1> QED BY <1>2, <1>3, <1>4 DEF Program

-----------------------------------------------------------------------------
(* Associations are added and closed, and keep their owners *)

LEMMA Appended ==
    ASSUME NEW S, NEW s \in Seq(S), NEW x \in S, NEW t, t = Append(s, x)
    PROVE  /\ t \in Seq(S) /\ Len(s) \in Nat /\ Len(t) = Len(s) + 1
           /\ DOMAIN s = 1..Len(s) /\ DOMAIN t = 1..(Len(s) + 1)
           /\ t[Len(s) + 1] = x
           /\ \A i \in DOMAIN s : t[i] = s[i]
OBVIOUS

LEMMA SeqGrows ==
    ASSUME NEW S, NEW T, S \subseteq T, NEW s \in Seq(S)
    PROVE  s \in Seq(T)
OBVIOUS

LEMMA ClosedLocal ==
    ASSUME NEW s \in Seq(LocalAssoc), NEW i \in DOMAIN s, NEW t, t = close_and_free_remote(s, i)
    PROVE  /\ t \in Seq(LocalAssoc) /\ Len(t) = Len(s) /\ DOMAIN t = DOMAIN s
           /\ \A j \in DOMAIN s : t[j].src = s[j].src
<1>1. t = [s EXCEPT ![i] = [s[i] EXCEPT !.open = FALSE]]
  BY DEF close_and_free_remote
<1>2. s[i] \in LocalAssoc
  OBVIOUS
<1>3. [s[i] EXCEPT !.open = FALSE] \in LocalAssoc /\ [s[i] EXCEPT !.open = FALSE].src = s[i].src
  BY <1>2 DEF LocalAssoc
<1> QED BY <1>1, <1>3

LEMMA ClosedRemote ==
    ASSUME NEW ids, NEW s \in Seq(RemoteAssoc(ids)), NEW i \in DOMAIN s, NEW t, t = close_and_free_remote(s, i)
    PROVE  /\ t \in Seq(RemoteAssoc(ids)) /\ Len(t) = Len(s) /\ DOMAIN t = DOMAIN s
           /\ \A j \in DOMAIN s : t[j].src = s[j].src /\ t[j].fam = s[j].fam
           /\ ~t[i].open /\ \A j \in DOMAIN s : j # i => t[j] = s[j]
<1>1. t = [s EXCEPT ![i] = [s[i] EXCEPT !.open = FALSE]]
  BY DEF close_and_free_remote
<1>2. s[i] \in RemoteAssoc(ids)
  OBVIOUS
<1>3. PICK x : x = [s[i] EXCEPT !.open = FALSE]
  OBVIOUS
<1>4. x \in RemoteAssoc(ids) /\ x.src = s[i].src /\ x.fam = s[i].fam /\ ~x.open
  BY <1>2, <1>3 DEF RemoteAssoc
<1>5. t = [s EXCEPT ![i] = x]
  BY <1>1, <1>3
<1>6. t \in Seq(RemoteAssoc(ids)) /\ Len(t) = Len(s) /\ DOMAIN t = DOMAIN s
  BY <1>4, <1>5
<1>7. t[i] = x /\ \A j \in DOMAIN s : j # i => t[j] = s[j]
  BY <1>5
<1>8. \A j \in DOMAIN s : t[j].src = s[j].src /\ t[j].fam = s[j].fam
  BY <1>4, <1>7
<1> QED BY <1>4, <1>6, <1>7, <1>8

\* Nothing that was known of an association is forgotten or changed.
LocalKept ==
    /\ DOMAIN local \subseteq DOMAIN local'
    /\ \A i \in DOMAIN local : local'[i].src = local[i].src

RemoteKept ==
    /\ DOMAIN remote \subseteq DOMAIN remote' /\ Len(remote) <= Len(remote')
    /\ \A e \in DOMAIN remote : remote'[e].src = remote[e].src /\ remote'[e].fam = remote[e].fam

LEMMA OwnersKept ==
    ASSUME Associations, LocalKept, RemoteKept
    PROVE  \A e \in DOMAIN remote : OwnerOf(e)' = OwnerOf(e)
<1> SUFFICES ASSUME NEW e \in DOMAIN remote PROVE local'[remote'[e].src].src = local[remote[e].src].src
  BY DEF OwnerOf
<1>1. remote[e] \in RemoteAssoc(DOMAIN local)
  BY DEF Associations
<1>2. remote[e].src \in DOMAIN local
  BY <1>1 DEF RemoteAssoc
<1> QED BY <1>2 DEF LocalKept, RemoteKept

LEMMA AskedKept ==
    ASSUME AskedInv, UNCHANGED <<program, forward, asked>>
    PROVE  AskedInv'
BY DEF AskedInv

LEMMA UplinkKept ==
    ASSUME UplinkInv, LocalKept, asked \subseteq asked', UNCHANGED uplink
    PROVE  UplinkInv'
BY DEF UplinkInv, LocalKept

LEMMA LookupsKept ==
    ASSUME Associations, Associations', LookupsInv, LocalKept, RemoteKept, asked \subseteq asked', lookups' \subseteq lookups
    PROVE  LookupsInv'
<1> SUFFICES ASSUME NEW l \in lookups
             PROVE  /\ l.payload \in asked' /\ l.payload.frag = 0
                    /\ l.name \in Name /\ l.payload.target = [atyp |-> 3, host |-> l.name]
                    /\ l.from \in DOMAIN local' /\ local'[l.from].src = l.payload.app
                    /\ l.kept \in 0..Len(remote')
                    /\ l.kept # 0 => remote'[l.kept].src = l.from
  BY DEF LookupsInv
<1>1. /\ l.payload \in asked /\ l.payload.frag = 0
      /\ l.name \in Name /\ l.payload.target = [atyp |-> 3, host |-> l.name]
      /\ l.from \in DOMAIN local /\ local[l.from].src = l.payload.app
      /\ l.kept \in 0..Len(remote)
      /\ l.kept # 0 => remote[l.kept].src = l.from
  BY DEF LookupsInv
<1>2. l.from \in DOMAIN local' /\ local'[l.from].src = l.payload.app
  BY <1>1 DEF LocalKept
<1>3. Len(remote) \in Nat /\ Len(remote') \in Nat /\ DOMAIN remote = 1..Len(remote)
  BY DEF Associations
<1>4. l.kept \in 0..Len(remote')
  BY <1>1, <1>3 DEF RemoteKept
<1>5. l.kept # 0 => remote'[l.kept].src = l.from
  BY <1>1, <1>3 DEF RemoteKept
<1> QED BY <1>1, <1>2, <1>4, <1>5

LEMMA ReachedKept ==
    ASSUME Associations, ReachedInv, LocalKept, RemoteKept, DOMAIN remote' = DOMAIN remote,
           reached \subseteq reached', \A r \in reached' \ reached : r.from \in DOMAIN remote /\ r.to \in Sockaddr
    PROVE  ReachedInv'
<1>1. \A e \in DOMAIN remote : OwnerOf(e)' = OwnerOf(e)
  BY OwnersKept
<1>2. \A r \in reached' : r.from \in DOMAIN remote' /\ r.to \in Sockaddr
  BY DEF ReachedInv
<1>3. ASSUME NEW e \in DOMAIN remote' PROVE \E r \in reached' : r.from = e /\ r.payload.app = OwnerOf(e)'
  BY <1>1 DEF ReachedInv
<1> QED BY <1>2, <1>3 DEF ReachedInv

LEMMA DownKept ==
    ASSUME Associations, DownInv, LocalKept, RemoteKept, UNCHANGED <<replied, downlink, answers>>
    PROVE  DownInv'
<1>1. \A e \in DOMAIN remote : OwnerOf(e)' = OwnerOf(e)
  BY OwnersKept
<1>2. \A p \in replied' : p.from \in Peer /\ p.to \in DOMAIN remote' /\ Reaches(remote'[p.to].fam, p.from)
  BY DEF DownInv, RemoteKept
<1>3. \A d \in downlink' : /\ d.payload \in replied' /\ d.to = remote'[d.payload.to].src
                            /\ d.label = construct_udprelay_header(Seen(remote'[d.payload.to].fam, d.payload.from))
  BY DEF DownInv, RemoteKept
<1>4. \A a \in answers' : /\ a.payload \in replied' /\ a.app = OwnerOf(a.payload.to)'
                           /\ a.label \in Sockaddr \cup {None}
  <2> SUFFICES ASSUME NEW a \in answers
               PROVE  a.payload \in replied' /\ a.app = OwnerOf(a.payload.to)' /\ a.label \in Sockaddr \cup {None}
    BY Zenon
  <2>1. a.payload \in replied /\ a.app = OwnerOf(a.payload.to) /\ a.label \in Sockaddr \cup {None}
    BY DEF DownInv
  <2>2. a.payload.to \in DOMAIN remote
    BY <2>1 DEF DownInv
  <2>3. OwnerOf(a.payload.to)' = OwnerOf(a.payload.to)
    BY <1>1, <2>2
  <2> QED BY <2>1, <2>3
<1> QED BY <1>2, <1>3, <1>4 DEF DownInv

-----------------------------------------------------------------------------
(* Every step keeps IInv *)

\* The socket of init_udprelay hears one family, or there is none.
LEMMA SocketHears ==
    ASSUME NEW list \in {<<"inet">>, <<"inet6">>, <<"inet6", "inet">>}, NEW bindable \in SUBSET Family
    PROVE  create_server_socket(list, bindable) \in Family \cup {None}
<1> DEFINE ok == {i \in DOMAIN list : list[i] \in bindable}
<1>1. create_server_socket(list, bindable) = IF ok = {} THEN None ELSE list[CHOOSE i \in ok : \A j \in ok : i <= j]
  BY DEF create_server_socket
<1>2. ok \subseteq {1, 2} /\ \A i \in ok : list[i] \in Family
  OBVIOUS
<1> HIDE DEF ok
<1>3. ASSUME ok # {} PROVE (CHOOSE i \in ok : \A j \in ok : i <= j) \in ok
  <2>1. \E i \in ok : \A j \in ok : i <= j
    <3>1. CASE 1 \in ok
      BY <1>2, <3>1
    <3>2. CASE 1 \notin ok
      <4>1. 2 \in ok /\ \A j \in ok : j = 2
        BY <1>2, <1>3, <3>2
      <4> QED BY <4>1
    <3> QED BY <3>1, <3>2
  <2> QED BY <2>1
<1> QED BY <1>1, <1>2, <1>3

LEMMA InitIInv == Init => IInv
<1> SUFFICES ASSUME Init PROVE IInv
  OBVIOUS
<1>1. program \in Program /\ (program = "tunnel" => forward \in Forward)
  BY DEF Init
<1>2. heard \in Family \cup {None}
  BY SocketHears DEF Init
<1>3. local = << >> /\ remote = << >>
  BY DEF Init
<1>4. Associations
  BY <1>3, EmptySeq DEF Associations
<1>5. AskedInv /\ UplinkInv /\ LookupsInv /\ DownInv
  BY DEF Init, AskedInv, UplinkInv, LookupsInv, DownInv
<1>6. ReachedInv
  BY <1>3 DEF Init, ReachedInv
<1> QED BY <1>1, <1>2, <1>4, <1>5, <1>6 DEF IInv

\* What an application can say is a header, and for ss-tunnel and ss-redir the
\* one that the program makes of it.
LEMMA SaysHeader ==
    ASSUME IInv, NEW t \in Says(program, TunnelHeader(forward))
    PROVE  /\ t.header \in Header /\ t.frag \in {0, 1}
           /\ program = "tunnel" => t.header = TunnelHeader(forward) /\ t.frag = 0
           /\ program = "redir" => t.header \in {construct_udprelay_header(a) : a \in Peer} /\ t.frag = 0
<1>1. CASE program = "local"
  <2>1. t \in Target
    BY <1>1, Zenon DEF Says
  <2> QED BY <1>1, <2>1, UdpPathAssumption
<1>2. CASE program = "tunnel"
  <2>1. t \in [header : {TunnelHeader(forward)}, frag : {0}]
    BY <1>2, Zenon DEF Says
  <2>2. t.header = TunnelHeader(forward) /\ t.frag = 0
    BY <2>1
  <2>3. forward \in V4 \cup V6 \cup Name
    BY <1>2, UdpPathAssumption DEF IInv
  <2>4. TunnelHeader(forward) \in Header
    BY <2>3 DEF TunnelHeader, Header
  <2> QED BY <1>2, <2>2, <2>4
<1>3. CASE program = "redir"
  <2>1. t \in [header : {construct_udprelay_header(a) : a \in {x \in Peer : x.fam = heard}}, frag : {0}]
    BY <1>3, Zenon DEF Says
  <2>2. t.frag = 0 /\ t.header \in {construct_udprelay_header(a) : a \in {x \in Peer : x.fam = heard}}
    BY <2>1
  <2>3. PICK a \in Peer : t.header = construct_udprelay_header(a)
    BY <2>2
  <2>4. a \in [fam : {"inet"}, ip : V4] \cup [fam : {"inet6"}, ip : V6]
    BY DEF Peer, Of
  <2>5. t.header \in Header
    BY <2>3, <2>4 DEF construct_udprelay_header, Header
  <2> QED BY <1>3, <2>2, <2>3, <2>5
<1> QED BY <1>1, <1>2, <1>3 DEF IInv, Program

LEMMA SameAssociations ==
    ASSUME Associations, UNCHANGED <<local, remote>>
    PROVE  Associations' /\ LocalKept /\ RemoteKept
<1>1. Len(remote) \in Nat
  BY DEF Associations
<1> QED BY <1>1 DEF Associations, LocalKept, RemoteKept

LEMMA AskStep ==
    ASSUME IInv, NEW a \in App, NEW t \in Says(program, TunnelHeader(forward)), Ask(a, t)
    PROVE  IInv'
<1> USE DEF Ask
<1>1. Associations' /\ LocalKept /\ RemoteKept
  BY SameAssociations DEF IInv
<1>2. PICK r : r = [app |-> a, target |-> t.header, frag |-> t.frag]
  OBVIOUS
<1>3. asked' = asked \cup {r}
  BY <1>2
<1>4. /\ r \in [app : App, target : Header, frag : {0, 1}]
      /\ program = "tunnel" => r.target = TunnelHeader(forward) /\ r.frag = 0
      /\ program = "redir" => r.target \in {construct_udprelay_header(x) : x \in Peer} /\ r.frag = 0
  BY <1>2, SaysHeader
<1>5. AskedInv'
  BY <1>3, <1>4 DEF IInv, AskedInv
<1>6. UplinkInv' /\ LookupsInv' /\ ReachedInv' /\ DownInv'
  BY <1>1, <1>3, UplinkKept, LookupsKept, ReachedKept, DownKept DEF IInv
<1> QED BY <1>1, <1>5, <1>6 DEF IInv

LEMMA ReplyStep ==
    ASSUME IInv, NEW addr \in Peer, NEW e \in DOMAIN remote, Reply(addr, e)
    PROVE  IInv'
<1> USE DEF Reply
<1>1. Associations' /\ LocalKept /\ RemoteKept
  BY SameAssociations DEF IInv
<1>2. AskedInv' /\ UplinkInv' /\ LookupsInv' /\ ReachedInv'
  BY <1>1, AskedKept, UplinkKept, LookupsKept, ReachedKept DEF IInv
<1>3. DownInv'
  BY DEF IInv, DownInv, OwnerOf
<1> QED BY <1>1, <1>2, <1>3 DEF IInv

LEMMA LocalRecvStep ==
    ASSUME IInv, NEW r \in asked, LocalRecv(r)
    PROVE  IInv' /\ LocalKept /\ RemoteKept
<1>1. PICK i \in (IF OpenLocal(r.app) = {} THEN {Len(local) + 1} ELSE OpenLocal(r.app)) :
        /\ local'  = IF OpenLocal(r.app) = {} THEN Append(local, [src |-> r.app, open |-> TRUE]) ELSE local
        /\ uplink' = uplink \cup {[from |-> i, header |-> ClientHeader(r), payload |-> r]}
  BY Zenon DEF LocalRecv
<1>2. /\ ClientHeader(r) # None
      /\ UNCHANGED <<program, forward, heard, asked, remote, lookups, reached, replied, downlink, answers>>
  BY DEF LocalRecv
<1>3. ClientHeader(r) = r.target /\ r.frag = 0
  BY <1>2, HeaderKept
<1>4. r.app \in App
  BY DEF IInv, AskedInv
<1>5. local \in Seq(LocalAssoc) /\ remote \in Seq(RemoteAssoc(DOMAIN local))
  BY DEF IInv, Associations
<1>6. /\ local' \in Seq(LocalAssoc) /\ LocalKept
      /\ i \in DOMAIN local' /\ local'[i].src = r.app
  <2>1. CASE OpenLocal(r.app) = {}
    <3>1. i = Len(local) + 1 /\ local' = Append(local, [src |-> r.app, open |-> TRUE])
      BY <1>1, <2>1
    <3>2. [src |-> r.app, open |-> TRUE] \in LocalAssoc
      BY <1>4 DEF LocalAssoc
    <3> QED BY <1>5, <3>1, <3>2, Appended DEF LocalKept
  <2>2. CASE OpenLocal(r.app) # {}
    BY <1>1, <1>5, <2>2 DEF OpenLocal, LocalKept
  <2> QED BY <2>1, <2>2
<1>7. Associations'
  <2>1. RemoteAssoc(DOMAIN local) \subseteq RemoteAssoc(DOMAIN local')
    BY <1>6 DEF RemoteAssoc, LocalKept
  <2> QED BY <1>2, <1>5, <1>6, <2>1, SeqGrows DEF Associations
<1>8. RemoteKept
  BY <1>2, <1>5 DEF RemoteKept
<1>9. UplinkInv'
  <2> SUFFICES ASSUME NEW d \in uplink'
               PROVE  /\ d.payload \in asked' /\ d.payload.frag = 0 /\ d.header = d.payload.target
                      /\ d.from \in DOMAIN local' /\ local'[d.from].src = d.payload.app
    BY DEF UplinkInv
  <2>1. CASE d \in uplink
    BY <1>2, <1>6, <2>1 DEF IInv, UplinkInv, LocalKept
  <2>2. CASE d = [from |-> i, header |-> ClientHeader(r), payload |-> r]
    BY <1>2, <1>3, <1>6, <2>2
  <2> QED BY <1>1, <2>1, <2>2
<1>10. AskedInv' /\ LookupsInv' /\ ReachedInv' /\ DownInv'
  BY <1>2, <1>6, <1>7, <1>8, AskedKept, LookupsKept, ReachedKept, DownKept DEF IInv
<1> QED BY <1>2, <1>6, <1>7, <1>8, <1>9, <1>10 DEF IInv

LEMMA LocalTimeoutStep ==
    ASSUME IInv, NEW i \in DOMAIN local, LocalTimeout(i)
    PROVE  IInv' /\ LocalKept /\ RemoteKept
<1> USE DEF LocalTimeout
<1>1. local \in Seq(LocalAssoc) /\ remote \in Seq(RemoteAssoc(DOMAIN local))
  BY DEF IInv, Associations
<1>2. local' \in Seq(LocalAssoc) /\ DOMAIN local' = DOMAIN local /\ LocalKept
  BY <1>1, ClosedLocal DEF LocalKept
<1>3. Associations' /\ RemoteKept
  BY <1>1, <1>2 DEF Associations, RemoteKept
<1>4. AskedInv' /\ UplinkInv' /\ LookupsInv' /\ ReachedInv' /\ DownInv'
  BY <1>2, <1>3, AskedKept, UplinkKept, LookupsKept, ReachedKept, DownKept DEF IInv
<1> QED BY <1>2, <1>3, <1>4 DEF IInv

\* A datagram leaves by an endpoint that there is.
LEMMA ThroughStep ==
    ASSUME IInv, NEW e \in DOMAIN remote, NEW addr, Plain(addr) \in Sockaddr, NEW payload, Through(e, addr, payload),
           lookups' \subseteq lookups,
           UNCHANGED <<program, forward, heard, asked, local, uplink, replied, downlink, answers>>
    PROVE  IInv'
<1>1. remote' = remote /\ reached' = reached \cup {[from |-> e, to |-> Plain(addr), payload |-> payload]}
  BY DEF Through, Leave
<1>2. Associations' /\ LocalKept /\ RemoteKept
  BY <1>1, SameAssociations DEF IInv
<1>3. AskedInv' /\ UplinkInv' /\ LookupsInv' /\ DownInv'
  BY <1>2, AskedKept, UplinkKept, LookupsKept, DownKept DEF IInv
<1>4. ReachedInv'
  <2>1. \A r \in reached' \ reached : r.from \in DOMAIN remote /\ r.to \in Sockaddr
    BY <1>1
  <2> QED BY <1>1, <1>2, <2>1, ReachedKept DEF IInv
<1> QED BY <1>2, <1>3, <1>4 DEF IInv

\* A datagram leaves by a new endpoint, which is its application's.
LEMMA OpenStep ==
    ASSUME IInv, NEW src \in DOMAIN local, NEW af \in Family \cup {"unspec"}, NEW addr, Plain(addr) \in Sockaddr,
           NEW payload, payload.app = local[src].src, Open(src, af, addr, payload),
           lookups' \subseteq lookups,
           UNCHANGED <<program, forward, heard, asked, local, uplink, replied, downlink, answers>>
    PROVE  /\ IInv' /\ RemoteKept
           /\ DOMAIN remote' = 1..(Len(remote) + 1) /\ remote'[Len(remote) + 1].src = src
           /\ \A e \in DOMAIN remote : remote'[e] = remote[e]
<1>1. PICK x : x = new_remote(src, af, addr)
  OBVIOUS
<1>2. /\ remote' = Append(remote, x)
      /\ reached' = reached \cup {[from |-> Len(remote) + 1, to |-> Plain(addr), payload |-> payload]}
  BY <1>1 DEF Open, Leave
<1>3. x \in RemoteAssoc(DOMAIN local) /\ x.src = src
  BY <1>1 DEF new_remote, create_remote_socket, RemoteAssoc, Family
<1>4. local \in Seq(LocalAssoc) /\ remote \in Seq(RemoteAssoc(DOMAIN local))
  BY DEF IInv, Associations
<1>5. /\ remote' \in Seq(RemoteAssoc(DOMAIN local)) /\ Len(remote) \in Nat /\ Len(remote') = Len(remote) + 1
      /\ DOMAIN remote = 1..Len(remote) /\ DOMAIN remote' = 1..(Len(remote) + 1)
      /\ remote'[Len(remote) + 1] = x
      /\ \A e \in DOMAIN remote : remote'[e] = remote[e]
  BY <1>2, <1>3, <1>4, Appended
<1>6. RemoteKept /\ LocalKept /\ Associations'
  BY <1>4, <1>5 DEF RemoteKept, LocalKept, Associations
<1>7. AskedInv' /\ UplinkInv' /\ LookupsInv' /\ DownInv'
  BY <1>6, AskedKept, UplinkKept, LookupsKept, DownKept DEF IInv
<1>8. ReachedInv'
  <2>1. \A r \in reached' : r.from \in DOMAIN remote' /\ r.to \in Sockaddr
    BY <1>2, <1>5 DEF IInv, ReachedInv
  <2>2. ASSUME NEW e \in DOMAIN remote' PROVE \E r \in reached' : r.from = e /\ r.payload.app = OwnerOf(e)'
    <3>1. CASE e \in DOMAIN remote
      <4>1. OwnerOf(e)' = OwnerOf(e)
        BY <1>6, <3>1, OwnersKept DEF IInv
      <4>2. PICK r \in reached : r.from = e /\ r.payload.app = OwnerOf(e)
        BY <3>1 DEF IInv, ReachedInv
      <4> QED BY <1>2, <4>1, <4>2
    <3>2. CASE e = Len(remote) + 1
      <4>1. OwnerOf(e)' = local[src].src
        BY <1>3, <1>5, <3>2 DEF OwnerOf
      <4>2. PICK r : r = [from |-> Len(remote) + 1, to |-> Plain(addr), payload |-> payload]
        OBVIOUS
      <4>3. r \in reached' /\ r.from = e /\ r.payload = payload
        BY <1>2, <3>2, <4>2
      <4> QED BY <4>1, <4>3
    <3> QED BY <1>5, <3>1, <3>2
  <2> QED BY <2>1, <2>2 DEF ReachedInv
<1> QED BY <1>3, <1>5, <1>6, <1>7, <1>8 DEF IInv

LEMMA ServerRecvStep ==
    ASSUME IInv, NEW d \in uplink, ServerRecv(d)
    PROVE  IInv'
<1>1. PICK dst : dst = parse_udprelay_header(d.header)
  OBVIOUS
<1>2. /\ dst # None /\ dst.fam # "unspec"
      /\ \/ Open(d.from, dst.fam, dst, d.payload)
         \/ \E e \in OpenRemote(d.from, dst.fam) : Through(e, dst, d.payload)
      /\ UNCHANGED <<program, forward, heard, asked, local, uplink, lookups, replied, downlink, answers>>
  BY <1>1, Zenon DEF ServerRecv
<1>3. /\ d.header = d.payload.target /\ d.payload \in asked
      /\ d.from \in DOMAIN local /\ d.payload.app = local[d.from].src
  BY DEF IInv, UplinkInv
<1>4. d.header \in Header
  BY <1>3 DEF IInv, AskedInv
<1>5. dst.fam \in Family /\ Plain(dst) \in Sockaddr
  BY <1>1, <1>2, <1>4, ParseAddress
<1>6. CASE Open(d.from, dst.fam, dst, d.payload)
  BY <1>2, <1>3, <1>5, <1>6, OpenStep
<1>7. ASSUME NEW e \in OpenRemote(d.from, dst.fam), Through(e, dst, d.payload) PROVE IInv'
  BY <1>2, <1>5, <1>7, ThroughStep DEF OpenRemote
<1> QED BY <1>2, <1>6, <1>7

LEMMA ServerRecvNameStep ==
    ASSUME IInv, NEW d \in uplink, ServerRecvName(d)
    PROVE  IInv'
<1>1. PICK dst : dst = parse_udprelay_header(d.header)
  OBVIOUS
<1>2. /\ dst # None /\ dst.fam = "unspec"
      /\ UNCHANGED <<program, forward, heard, asked, local, uplink, remote, reached, replied, downlink, answers>>
  BY <1>1, Zenon DEF ServerRecvName
<1>3. PICK e \in (IF OpenRemote(d.from, "unspec") = {} THEN {0} ELSE OpenRemote(d.from, "unspec")) :
        lookups' = lookups \cup {[from |-> d.from, name |-> dst.ip, payload |-> d.payload, kept |-> e]}
  BY <1>1, Zenon DEF ServerRecvName
<1>4. /\ d.payload \in asked /\ d.payload.frag = 0 /\ d.header = d.payload.target
      /\ d.from \in DOMAIN local /\ local[d.from].src = d.payload.app
  BY DEF IInv, UplinkInv
<1>5. d.header \in Header
  BY <1>4 DEF IInv, AskedInv
<1>6. dst.ip \in Name /\ d.header = [atyp |-> 3, host |-> dst.ip]
  BY <1>1, <1>2, <1>5, ParseName
<1>7. Len(remote) \in Nat /\ DOMAIN remote = 1..Len(remote)
  BY DEF IInv, Associations
<1>8. e \in 0..Len(remote) /\ (e # 0 => remote[e].src = d.from)
  BY <1>3, <1>7 DEF OpenRemote
<1>9. Associations' /\ LocalKept /\ RemoteKept
  BY <1>2, SameAssociations DEF IInv
<1>10. LookupsInv'
  <2> SUFFICES ASSUME NEW l \in lookups'
               PROVE  /\ l.payload \in asked /\ l.payload.frag = 0
                      /\ l.name \in Name /\ l.payload.target = [atyp |-> 3, host |-> l.name]
                      /\ l.from \in DOMAIN local /\ local[l.from].src = l.payload.app
                      /\ l.kept \in 0..Len(remote)
                      /\ l.kept # 0 => remote[l.kept].src = l.from
    BY <1>2 DEF LookupsInv
  <2>1. CASE l \in lookups
    BY <2>1 DEF IInv, LookupsInv
  <2>2. CASE l = [from |-> d.from, name |-> dst.ip, payload |-> d.payload, kept |-> e]
    BY <1>4, <1>6, <1>8, <2>2
  <2> QED BY <1>3, <2>1, <2>2
<1>11. AskedInv' /\ UplinkInv' /\ ReachedInv' /\ DownInv'
  BY <1>2, <1>9, AskedKept, UplinkKept, ReachedKept, DownKept DEF IInv
<1> QED BY <1>2, <1>9, <1>10, <1>11 DEF IInv

LEMMA ResolveFailsStep ==
    ASSUME IInv, NEW l \in lookups, ResolveFails(l)
    PROVE  IInv'
<1> USE DEF ResolveFails
<1>1. Associations' /\ LocalKept /\ RemoteKept
  BY SameAssociations DEF IInv
<1>2. AskedInv' /\ UplinkInv' /\ LookupsInv' /\ ReachedInv' /\ DownInv'
  BY <1>1, AskedKept, UplinkKept, LookupsKept, ReachedKept, DownKept DEF IInv
<1> QED BY <1>1, <1>2 DEF IInv

\* The two ways out of resolv_cb that send, with what the association was.
LEMMA ResolveCases ==
    ASSUME IInv, NEW l \in lookups, NEW addr, Resolve(l, addr)
    PROVE  /\ lookups' = lookups \ {l}
           /\ UNCHANGED <<program, forward, heard, asked, local, uplink, replied, downlink, answers>>
           /\ \/ l.kept = 0 /\ Open(l.from, "unspec", addr, l.payload)
              \/ \E e \in DOMAIN remote :
                    /\ Through(e, addr, l.payload)
                    /\ \/ remote[e].src = l.from
                       \/ l.kept # 0 /\ ~remote[l.kept].open
<1> DEFINE kept == IF remote[l.kept].open THEN {l.kept} ELSE {e \in DOMAIN remote : remote[e].open}
<1>1. /\ lookups' = lookups \ {l}
      /\ UNCHANGED <<program, forward, heard, asked, local, uplink, replied, downlink, answers>>
      /\ \/ l.kept = 0 /\ Open(l.from, "unspec", addr, l.payload)
         \/ \E e \in OpenRemote(l.from, "unspec") : Through(e, addr, l.payload)
         \/ l.kept # 0 /\ \E e \in kept : Through(e, addr, l.payload)
  BY Zenon DEF Resolve
<1>2. ASSUME NEW e \in OpenRemote(l.from, "unspec") PROVE e \in DOMAIN remote /\ remote[e].src = l.from
  BY DEF OpenRemote
<1>3. ASSUME l.kept # 0, NEW e \in kept
      PROVE  /\ e \in DOMAIN remote
             /\ remote[e].src = l.from \/ ~remote[l.kept].open
  <2>1. l.kept \in DOMAIN remote /\ remote[l.kept].src = l.from
    <3>1. l.kept \in 0..Len(remote) /\ (l.kept # 0 => remote[l.kept].src = l.from)
      BY DEF IInv, LookupsInv
    <3>2. Len(remote) \in Nat /\ DOMAIN remote = 1..Len(remote)
      BY DEF IInv, Associations
    <3> QED BY <1>3, <3>1, <3>2
  <2> QED BY <1>3, <2>1
<1> HIDE DEF kept
<1> QED BY <1>1, <1>2, <1>3

LEMMA ResolveStep ==
    ASSUME IInv, NEW l \in lookups, NEW h \in Dns[l.name], Resolve(l, Of(h))
    PROVE  IInv'
<1>1. /\ l.name \in Name /\ l.from \in DOMAIN local /\ local[l.from].src = l.payload.app
  BY DEF IInv, LookupsInv
<1>2. h \in V4 \cup V6
  BY <1>1, UdpPathAssumption
<1>3. Plain(Of(h)) \in Sockaddr
  BY <1>2, OfPlain
<1>4. /\ lookups' \subseteq lookups
      /\ UNCHANGED <<program, forward, heard, asked, local, uplink, replied, downlink, answers>>
  BY ResolveCases
<1>5. CASE Open(l.from, "unspec", Of(h), l.payload)
  BY <1>1, <1>3, <1>4, <1>5, OpenStep
<1>6. ASSUME NEW e \in DOMAIN remote, Through(e, Of(h), l.payload) PROVE IInv'
  BY <1>3, <1>4, <1>6, ThroughStep
<1> QED BY <1>5, <1>6, ResolveCases

LEMMA RemoteTimeoutStep ==
    ASSUME IInv, NEW e \in DOMAIN remote, RemoteTimeout(e)
    PROVE  IInv'
<1> USE DEF RemoteTimeout
<1>1. local \in Seq(LocalAssoc) /\ remote \in Seq(RemoteAssoc(DOMAIN local))
  BY DEF IInv, Associations
<1>2. /\ remote' \in Seq(RemoteAssoc(DOMAIN local)) /\ Len(remote') = Len(remote) /\ DOMAIN remote' = DOMAIN remote
      /\ \A j \in DOMAIN remote : remote'[j].src = remote[j].src /\ remote'[j].fam = remote[j].fam
  BY <1>1, ClosedRemote
<1>3. Associations' /\ LocalKept /\ RemoteKept
  BY <1>1, <1>2 DEF Associations, LocalKept, RemoteKept
<1>4. AskedInv' /\ UplinkInv' /\ LookupsInv' /\ ReachedInv' /\ DownInv'
  BY <1>2, <1>3, AskedKept, UplinkKept, LookupsKept, ReachedKept, DownKept DEF IInv
<1> QED BY <1>3, <1>4 DEF IInv

LEMMA RemoteRecvStep ==
    ASSUME IInv, NEW p \in replied, RemoteRecv(p)
    PROVE  IInv'
<1> USE DEF RemoteRecv
<1>1. Associations' /\ LocalKept /\ RemoteKept
  BY SameAssociations DEF IInv
<1>2. AskedInv' /\ UplinkInv' /\ LookupsInv' /\ ReachedInv'
  BY <1>1, AskedKept, UplinkKept, LookupsKept, ReachedKept DEF IInv
<1>3. DownInv'
  BY DEF IInv, DownInv, OwnerOf
<1> QED BY <1>1, <1>2, <1>3 DEF IInv

\* What remote_recv_cb of a client program shows is nobody, or who it was.
LEMMA ShownTrue ==
    ASSUME IInv, NEW d \in downlink, NEW label \in Shown(d.label)
    PROVE  \/ label = None
           \/ label \in Sockaddr /\ label # None /\ Plain(label) = d.payload.from
<1>1. /\ d.payload \in replied
      /\ d.label = construct_udprelay_header(Seen(remote[d.payload.to].fam, d.payload.from))
  BY DEF IInv, DownInv
<1>2. PICK from, e : from = d.payload.from /\ e = d.payload.to
  OBVIOUS
<1>3. from \in Peer /\ e \in DOMAIN remote /\ Reaches(remote[e].fam, from)
  BY <1>1, <1>2 DEF IInv, DownInv
<1>4. remote[e].fam \in Family
  <2>1. remote[e] \in RemoteAssoc(DOMAIN local)
    BY <1>3 DEF IInv, Associations
  <2> QED BY <2>1 DEF RemoteAssoc
<1>5. PICK addr : addr = parse_udprelay_header(d.label)
  OBVIOUS
<1>6. /\ addr \in Sockaddr /\ Plain(addr) = from
      /\ Plain(convert_ipv4_mapped_ipv6(addr)) = from
  BY <1>1, <1>2, <1>3, <1>4, <1>5, LabelTrue
<1>7. None \notin Sockaddr
  BY UdpPathAssumption
<1>8. CASE program = "local"
  <2>1. label = addr
    BY <1>5, <1>8, Zenon DEF Shown
  <2> QED BY <1>2, <1>6, <1>7, <2>1
<1>9. CASE program = "tunnel"
  <2>1. label \in {None}
    BY <1>9, Zenon DEF Shown
  <2> QED BY <2>1
<1>10. CASE program = "redir"
  <2>1. label \in (IF Plain(convert_ipv4_mapped_ipv6(addr)).fam = heard
                   THEN {Plain(convert_ipv4_mapped_ipv6(addr))} ELSE {})
    BY <1>5, <1>10, Zenon DEF Shown
  <2>2. label = from
    BY <1>6, <2>1
  <2>3. PICK h \in V4 \cup V6 : from = Of(h)
    BY <1>3 DEF Peer
  <2> QED BY <1>2, <1>7, <2>2, <2>3, OfPlain
<1> QED BY <1>8, <1>9, <1>10 DEF IInv, Program

LEMMA LocalAnswerStep ==
    ASSUME IInv, NEW d \in downlink, LocalAnswer(d)
    PROVE  IInv'
<1> USE DEF LocalAnswer
<1>1. Associations' /\ LocalKept /\ RemoteKept
  BY SameAssociations DEF IInv
<1>2. AskedInv' /\ UplinkInv' /\ LookupsInv' /\ ReachedInv'
  BY <1>1, AskedKept, UplinkKept, LookupsKept, ReachedKept DEF IInv
<1>3. PICK label \in Shown(d.label) :
        answers' = answers \cup {[app |-> local[d.to].src, label |-> label, payload |-> d.payload]}
  OBVIOUS
<1>4. label \in Sockaddr \cup {None}
  BY ShownTrue
<1>5. d.payload \in replied /\ local[d.to].src = OwnerOf(d.payload.to)
  BY DEF IInv, DownInv, OwnerOf
<1>6. ASSUME NEW a \in answers'
      PROVE  a.payload \in replied /\ a.app = OwnerOf(a.payload.to) /\ a.label \in Sockaddr \cup {None}
  <2>1. CASE a \in answers
    BY <2>1 DEF IInv, DownInv
  <2>2. CASE a = [app |-> local[d.to].src, label |-> label, payload |-> d.payload]
    BY <1>4, <1>5, <2>2
  <2> QED BY <1>3, <2>1, <2>2
<1>7. DownInv'
  BY <1>6 DEF IInv, DownInv, OwnerOf
<1> QED BY <1>1, <1>2, <1>7 DEF IInv

LEMMA NextIInv == IInv /\ [Next]_vars => IInv'
<1> SUFFICES ASSUME IInv, [Next]_vars PROVE IInv'
  OBVIOUS
<1>1. CASE UNCHANGED vars
  <2>1. Associations' /\ LocalKept /\ RemoteKept
    BY <1>1, SameAssociations DEF IInv, vars
  <2>2. AskedInv' /\ UplinkInv' /\ LookupsInv' /\ ReachedInv' /\ DownInv'
    BY <1>1, <2>1, AskedKept, UplinkKept, LookupsKept, ReachedKept, DownKept DEF IInv, vars
  <2> QED BY <1>1, <2>1, <2>2 DEF IInv, vars
<1>2. ASSUME NEW a \in App, NEW t \in Says(program, TunnelHeader(forward)), Ask(a, t) PROVE IInv'
  BY <1>2, AskStep
<1>3. ASSUME NEW addr \in Peer, NEW e \in DOMAIN remote, Reply(addr, e) PROVE IInv'
  BY <1>3, ReplyStep
<1>4. ASSUME NEW r \in asked, LocalRecv(r) PROVE IInv'
  BY <1>4, LocalRecvStep
<1>5. ASSUME NEW i \in DOMAIN local, LocalTimeout(i) PROVE IInv'
  BY <1>5, LocalTimeoutStep
<1>6. ASSUME NEW d \in uplink, ServerRecv(d) PROVE IInv'
  BY <1>6, ServerRecvStep
<1>7. ASSUME NEW d \in uplink, ServerRecvName(d) PROVE IInv'
  BY <1>7, ServerRecvNameStep
<1>8. ASSUME NEW l \in lookups, ResolveFails(l) PROVE IInv'
  BY <1>8, ResolveFailsStep
<1>9. ASSUME NEW l \in lookups, NEW h \in Dns[l.name], Resolve(l, Of(h)) PROVE IInv'
  BY <1>9, ResolveStep
<1>10. ASSUME NEW e \in DOMAIN remote, RemoteTimeout(e) PROVE IInv'
  BY <1>10, RemoteTimeoutStep
<1>11. ASSUME NEW p \in replied, RemoteRecv(p) PROVE IInv'
  BY <1>11, RemoteRecvStep
<1>12. ASSUME NEW d \in downlink, LocalAnswer(d) PROVE IInv'
  BY <1>12, LocalAnswerStep
<1> QED
  BY <1>1, <1>2, <1>3, <1>4, <1>5, <1>6, <1>7, <1>8, <1>9, <1>10, <1>11, <1>12, Zenon DEF Next

\* Every datagram in the network can be traced to the request or the endpoint it
\* comes from: what udprelay.c keeps of it is never mixed up with another one.
THEOREM Traced == Spec => []IInv
<1> QED BY InitIInv, NextIInv, PTL DEF Spec

LEMMA IInvAsked == IInv => AnswersAsked
<1> SUFFICES ASSUME IInv PROVE TypeOK /\ Solicited
  BY DEF AnswersAsked
<1>1. \A e \in DOMAIN remote : remote[e].src \in DOMAIN local /\ remote[e].fam \in Family
  <2> SUFFICES ASSUME NEW e \in DOMAIN remote PROVE remote[e].src \in DOMAIN local /\ remote[e].fam \in Family
    OBVIOUS
  <2>1. remote[e] \in RemoteAssoc(DOMAIN local)
    BY DEF IInv, Associations
  <2> QED BY <2>1 DEF RemoteAssoc
<1>2. \A i \in DOMAIN local : local[i].src \in App
  <2> SUFFICES ASSUME NEW i \in DOMAIN local PROVE local[i].src \in App
    OBVIOUS
  <2>1. local[i] \in LocalAssoc
    BY DEF IInv, Associations
  <2> QED BY <2>1 DEF LocalAssoc
<1>3. \A r \in asked : r.app \in App /\ r.target \in Header /\ r.frag \in {0, 1}
  BY DEF IInv, AskedInv
<1>4. \A d \in uplink : d.from \in DOMAIN local /\ d.header \in Header /\ d.payload \in asked
  BY <1>3 DEF IInv, UplinkInv
<1>5. \A d \in downlink : d.to \in DOMAIN local /\ d.label \in Header /\ d.payload \in replied
  <2> SUFFICES ASSUME NEW d \in downlink PROVE d.to \in DOMAIN local /\ d.label \in Header /\ d.payload \in replied
    OBVIOUS
  <2>1. /\ d.payload \in replied /\ d.to = remote[d.payload.to].src
        /\ d.label = construct_udprelay_header(Seen(remote[d.payload.to].fam, d.payload.from))
    BY DEF IInv, DownInv
  <2>2. PICK from, e : from = d.payload.from /\ e = d.payload.to
    OBVIOUS
  <2>3. from \in Peer /\ e \in DOMAIN remote /\ Reaches(remote[e].fam, from)
    BY <2>1, <2>2 DEF IInv, DownInv
  <2>4. d.label \in Header
    BY <1>1, <2>1, <2>2, <2>3, LabelTrue
  <2> QED BY <1>1, <2>1, <2>2, <2>3, <2>4
<1>6. TypeOK
  BY <1>1, <1>2, <1>3, <1>4, <1>5 DEF TypeOK, IInv, LookupsInv, ReachedInv, DownInv
<1>7. Solicited
  <2> SUFFICES ASSUME NEW a \in answers PROVE \E r \in reached : r.from = a.payload.to /\ r.payload.app = a.app
    BY DEF Solicited
  <2>1. a.payload \in replied /\ a.app = OwnerOf(a.payload.to)
    BY DEF IInv, DownInv
  <2>2. a.payload.to \in DOMAIN remote
    BY <2>1 DEF IInv, DownInv
  <2> QED BY <2>1, <2>2 DEF IInv, ReachedInv
<1> QED BY <1>6, <1>7

\* An answer is only handed to an application one of whose datagrams has left
\* by the socket it was sent to, whatever was closed and opened in between.
THEOREM AnswersAskedAlways == Spec => []AnswersAsked
BY Traced, IInvAsked, PTL

-----------------------------------------------------------------------------
(* Every step is a step of UdpService *)

\* One owner for each endpoint.
Owned ==
    /\ Owner \in Seq(App) /\ Len(Owner) = Len(remote) /\ DOMAIN Owner = DOMAIN remote
    /\ \A e \in DOMAIN remote : Owner[e] = OwnerOf(e)

\* Lookups whose association was closed are lookups of names.
OutlivedByName ==
    Outlived \subseteq {r \in asked : r.target \in {h \in Header : h.atyp = 3 /\ h.host \in Name}}

LEMMA OwnerType == IInv => Owned
<1> SUFFICES ASSUME IInv PROVE Owned
  OBVIOUS
<1>1. Len(remote) \in Nat /\ DOMAIN remote = 1..Len(remote)
  BY DEF IInv, Associations
<1>2. \A e \in DOMAIN remote : OwnerOf(e) \in App
  BY IInvAsked DEF AnswersAsked, TypeOK, OwnerOf
<1>3. Owner = [e \in 1..Len(remote) |-> OwnerOf(e)]
  BY <1>1 DEF Owner, OwnerOf
<1>4. Owner \in Seq(App)
  BY <1>1, <1>2, <1>3
<1>5. DOMAIN Owner = 1..Len(remote)
  BY <1>3
<1>6. Len(Owner) = Len(remote)
  BY <1>1, <1>4, <1>5
<1> QED BY <1>1, <1>3, <1>4, <1>5, <1>6 DEF Owned

LEMMA OwnerKept ==
    ASSUME IInv, IInv', LocalKept, RemoteKept, DOMAIN remote' = DOMAIN remote
    PROVE  Owner' = Owner
<1>1. \A e \in DOMAIN remote : OwnerOf(e)' = OwnerOf(e)
  BY OwnersKept DEF IInv
<1>2. Owner' = [e \in DOMAIN remote |-> OwnerOf(e)']
  BY DEF Owner, OwnerOf
<1>3. Owner = [e \in DOMAIN remote |-> OwnerOf(e)]
  BY DEF Owner, OwnerOf
<1> QED BY <1>1, <1>2, <1>3

LEMMA OutlivedNames == IInv => OutlivedByName
<1> SUFFICES ASSUME IInv, NEW l \in lookups
             PROVE  /\ l.payload \in asked /\ l.payload.target \in Header
                    /\ l.payload.target.atyp = 3 /\ l.payload.target.host \in Name
  BY DEF Outlived, OutlivedByName
<1>1. l.payload \in asked /\ l.name \in Name /\ l.payload.target = [atyp |-> 3, host |-> l.name]
  BY DEF IInv, LookupsInv
<1> QED BY <1>1 DEF IInv, AskedInv

LEMMA NextOwned == IInv' => Owned' /\ OutlivedByName'
BY OwnerType, OutlivedNames, PTL

\* Nothing that an application sees happens.
LEMMA QuietStep ==
    ASSUME IInv, IInv', LocalKept, RemoteKept, DOMAIN remote' = DOMAIN remote,
           UNCHANGED <<asked, reached, replied, answers>>
    PROVE  Service!Late
<1>1. Owner' = Owner
  BY OwnerKept
<1>2. Outlived' \subseteq {r \in asked' : r.target \in {h \in Header : h.atyp = 3 /\ h.host \in Name}}
  BY NextOwned DEF OutlivedByName
<1>3. {AsTold(a) : a \in answers'} = {AsTold(a) : a \in answers}
  OBVIOUS
<1> QED BY <1>1, <1>2, <1>3 DEF Service!Late

LEMMA AskServes ==
    ASSUME IInv, NEW a \in App, NEW t \in Says(program, TunnelHeader(forward)), Ask(a, t)
    PROVE  Service!Next
<1>1. PICK r : r = [app |-> a, target |-> t.header, frag |-> t.frag]
  OBVIOUS
<1>2. r \in [app : App, target : Header, frag : {0, 1}]
  BY <1>1, SaysHeader
<1>3. asked' = asked \cup {r} /\ UNCHANGED <<local, lookups, remote, reached, replied, answers>>
  BY <1>1 DEF Ask
<1>4. Owner' = Owner /\ Outlived' = Outlived
  BY <1>3 DEF Owner, Outlived
<1>5. Service!Ask(r)
  BY <1>3, <1>4 DEF Service!Ask
<1> QED BY <1>2, <1>5 DEF Service!Next

LEMMA ReplyServes ==
    ASSUME IInv, NEW addr \in Peer, NEW e \in DOMAIN remote, Reply(addr, e)
    PROVE  Service!Next
<1>1. /\ replied' = replied \cup {[from |-> addr, to |-> e]}
      /\ UNCHANGED <<local, lookups, remote, asked, reached, answers>>
  BY DEF Reply
<1>2. Owner' = Owner /\ Outlived' = Outlived
  BY <1>1 DEF Owner, Outlived
<1>3. e \in DOMAIN Owner
  BY OwnerType DEF Owned
<1>4. Service!Reply(addr, e)
  BY <1>1, <1>2, <1>3 DEF Service!Reply
<1> QED BY <1>3, <1>4 DEF Service!Next

\* A datagram that leaves by an endpoint of its application, or by a new one.
LEMMA ThroughServes ==
    ASSUME IInv, NEW r \in asked, r.frag = 0, NEW e \in DOMAIN remote, OwnerOf(e) = r.app,
           NEW addr, Plain(addr) \in Meaning(r.target), Through(e, addr, r),
           UNCHANGED <<asked, local, replied, answers>>, Outlived' = Outlived
    PROVE  Service!Next
<1>1. remote' = remote /\ reached' = reached \cup {[from |-> e, to |-> Plain(addr), payload |-> r]}
  BY DEF Through, Leave
<1>2. Owner' = Owner
  BY <1>1 DEF Owner
<1>3. e \in DOMAIN Owner /\ Owner[e] = r.app
  BY OwnerType DEF Owned
<1>4. Service!Arrive(e, r)
  BY <1>1 DEF Service!Arrive
<1>5. Service!Reach(e, r)
  BY <1>2, <1>3, <1>4 DEF Service!Reach
<1>6. e \in 1..(Len(Owner) + 1)
  <2>1. Len(remote) \in Nat /\ DOMAIN remote = 1..Len(remote)
    BY DEF IInv, Associations
  <2> QED BY <2>1, OwnerType DEF Owned
<1> QED BY <1>5, <1>6 DEF Service!Next

LEMMA OpenServes ==
    ASSUME IInv, NEW r \in asked, r.frag = 0, NEW src \in DOMAIN local, r.app = local[src].src,
           NEW af \in Family \cup {"unspec"}, NEW addr, Plain(addr) \in Meaning(r.target), Plain(addr) \in Sockaddr,
           Open(src, af, addr, r), lookups' \subseteq lookups,
           \A l \in lookups \ lookups' : l.kept = 0,
           UNCHANGED <<program, forward, heard, asked, local, uplink, replied, downlink, answers>>
    PROVE  Service!Next
<1>1. /\ IInv' /\ RemoteKept
      /\ DOMAIN remote' = 1..(Len(remote) + 1) /\ remote'[Len(remote) + 1].src = src
      /\ \A e \in DOMAIN remote : remote'[e] = remote[e]
  BY OpenStep
<1>2. Len(remote) \in Nat /\ DOMAIN remote = 1..Len(remote)
  BY DEF IInv, Associations
<1>3. /\ Owner \in Seq(App) /\ Len(Owner) = Len(remote)
      /\ \A e \in DOMAIN remote : Owner[e] = OwnerOf(e)
  BY OwnerType DEF Owned
<1>4. /\ Owner' \in Seq(App) /\ Len(Owner') = Len(remote')
      /\ \A e \in DOMAIN remote' : Owner'[e] = OwnerOf(e)'
  BY <1>1, NextOwned DEF Owned
<1>5. Len(remote') = Len(remote) + 1
  BY <1>1, <1>2 DEF IInv, Associations
<1>6. r.app \in App
  BY DEF IInv, AskedInv
<1>7. \A e \in DOMAIN remote : OwnerOf(e)' = OwnerOf(e)
  BY <1>1, OwnersKept DEF IInv, LocalKept
<1>8. PICK n : n = Len(remote) + 1
  OBVIOUS
<1>9. OwnerOf(n)' = r.app
  BY <1>1, <1>8 DEF OwnerOf
<1>10. Owner' = Append(Owner, r.app)
  <2>1. PICK t : t = Append(Owner, r.app)
    OBVIOUS
  <2>2. /\ t \in Seq(App) /\ Len(t) = Len(Owner) + 1 /\ t[Len(Owner) + 1] = r.app
        /\ \A e \in DOMAIN Owner : t[e] = Owner[e]
    BY <1>3, <1>6, <2>1, Appended
  <2>3. ASSUME NEW e \in 1..Len(Owner') PROVE Owner'[e] = t[e]
    <3>1. CASE e \in DOMAIN remote
      BY <1>1, <1>2, <1>3, <1>4, <1>5, <1>7, <2>2, <3>1, OwnerType DEF Owned
    <3>2. CASE e = n
      BY <1>1, <1>2, <1>3, <1>4, <1>8, <1>9, <2>2, <3>2
    <3> QED BY <1>2, <1>4, <1>5, <1>8, <3>1, <3>2
  <2>4. Len(Owner') = Len(t)
    BY <1>3, <1>4, <1>5, <2>2
  <2> QED BY <1>4, <2>1, <2>2, <2>3, <2>4, SeqEqual
<1>11. Outlived' = Outlived
  <2>1. \A l \in lookups : l.kept # 0 => remote'[l.kept] = remote[l.kept]
    <3> SUFFICES ASSUME NEW l \in lookups, l.kept # 0 PROVE remote'[l.kept] = remote[l.kept]
      OBVIOUS
    <3>1. l.kept \in 0..Len(remote)
      BY DEF IInv, LookupsInv
    <3> QED BY <1>1, <1>2, <3>1
  <2>2. {x \in lookups' : x.kept # 0 /\ ~remote'[x.kept].open} = {x \in lookups : x.kept # 0 /\ ~remote[x.kept].open}
    BY <2>1
  <2> QED BY <2>2 DEF Outlived
<1>12. reached' = reached \cup {[from |-> Len(Owner) + 1, to |-> Plain(addr), payload |-> r]}
  BY <1>3 DEF Open, Leave
<1>13. Service!Arrive(Len(Owner) + 1, r)
  BY <1>12 DEF Service!Arrive
<1>14. Service!Reach(Len(Owner) + 1, r)
  BY <1>10, <1>11, <1>13 DEF Service!Reach
<1>15. Len(Owner) + 1 \in 1..(Len(Owner) + 1)
  BY <1>2, <1>3
<1> QED BY <1>14, <1>15 DEF Service!Next

LEMMA ServerRecvServes ==
    ASSUME IInv, NEW d \in uplink, ServerRecv(d)
    PROVE  Service!Next
<1>1. PICK dst : dst = parse_udprelay_header(d.header)
  OBVIOUS
<1>2. /\ dst # None /\ dst.fam # "unspec"
      /\ \/ Open(d.from, dst.fam, dst, d.payload)
         \/ \E e \in OpenRemote(d.from, dst.fam) : Through(e, dst, d.payload)
      /\ UNCHANGED <<program, forward, heard, asked, local, uplink, lookups, replied, downlink, answers>>
  BY <1>1, Zenon DEF ServerRecv
<1>3. /\ d.header = d.payload.target /\ d.payload \in asked /\ d.payload.frag = 0
      /\ d.from \in DOMAIN local /\ d.payload.app = local[d.from].src
  BY DEF IInv, UplinkInv
<1>4. d.header \in Header
  BY <1>3 DEF IInv, AskedInv
<1>5. dst.fam \in Family /\ Plain(dst) \in Sockaddr /\ Plain(dst) \in Meaning(d.payload.target)
  BY <1>1, <1>2, <1>3, <1>4, ParseAddress
<1>6. CASE Open(d.from, dst.fam, dst, d.payload)
  BY <1>2, <1>3, <1>5, <1>6, OpenServes
<1>7. ASSUME NEW e \in OpenRemote(d.from, dst.fam), Through(e, dst, d.payload) PROVE Service!Next
  <2>1. e \in DOMAIN remote /\ OwnerOf(e) = d.payload.app
    BY <1>3 DEF OpenRemote, OwnerOf
  <2>2. Outlived' = Outlived
    BY <1>2, <1>7 DEF Outlived, Through
  <2> QED BY <1>2, <1>3, <1>5, <1>7, <2>1, <2>2, ThroughServes
<1> QED BY <1>2, <1>6, <1>7

\* The answer of a lookup: its datagram leaves by an endpoint of its
\* application, or it strays because the association it had is gone.
LEMMA ResolveServes ==
    ASSUME IInv, NEW l \in lookups, NEW h \in Dns[l.name], Resolve(l, Of(h))
    PROVE  Service!Next
<1>1. PICK r : r = l.payload
  OBVIOUS
<1>2. /\ r \in asked /\ r.frag = 0
      /\ l.name \in Name /\ r.target = [atyp |-> 3, host |-> l.name]
      /\ l.from \in DOMAIN local /\ local[l.from].src = r.app
  BY <1>1 DEF IInv, LookupsInv
<1>3. r.target \in Header
  BY <1>2 DEF IInv, AskedInv
<1>4. h \in V4 \cup V6
  BY <1>2, UdpPathAssumption
<1>5. Plain(Of(h)) = Of(h) /\ Of(h) \in Sockaddr
  BY <1>4, OfPlain
<1>6. r.target.atyp # 2 /\ r.target.host = l.name
  BY <1>2
<1>7. Plain(Of(h)) \in Meaning(r.target)
  <2>1. Meaning(r.target) = {Of(x) : x \in Dns[l.name]}
    BY <1>2, <1>3, <1>6, MeaningCases
  <2> QED BY <1>5, <2>1
<1>8. /\ lookups' = lookups \ {l}
      /\ UNCHANGED <<program, forward, heard, asked, local, uplink, replied, downlink, answers>>
  BY ResolveCases
<1>9. CASE l.kept = 0 /\ Open(l.from, "unspec", Of(h), r)
  BY <1>2, <1>5, <1>7, <1>8, <1>9, OpenServes
<1>10. ASSUME NEW e \in DOMAIN remote, Through(e, Of(h), r),
              remote[e].src = l.from, ~(l.kept # 0 /\ ~remote[l.kept].open)
       PROVE  Service!Next
  <2>1. OwnerOf(e) = r.app
    BY <1>2, <1>10 DEF OwnerOf
  <2>2. remote' = remote
    BY <1>10 DEF Through
  <2>3. {x \in lookups' : x.kept # 0 /\ ~remote'[x.kept].open} = {x \in lookups : x.kept # 0 /\ ~remote[x.kept].open}
    BY <1>8, <1>10, <2>2
  <2>4. Outlived' = Outlived
    BY <2>3 DEF Outlived
  <2> QED BY <1>2, <1>7, <1>8, <1>10, <2>1, <2>4, ThroughServes
<1>11. ASSUME NEW e \in DOMAIN remote, Through(e, Of(h), r), l.kept # 0 /\ ~remote[l.kept].open
       PROVE  Service!Next
  <2>1. remote' = remote /\ reached' = reached \cup {[from |-> e, to |-> Plain(Of(h)), payload |-> r]}
    BY <1>11 DEF Through, Leave
  <2>2. Owner' = Owner /\ e \in DOMAIN Owner
    BY <1>8, <2>1, OwnerType DEF Owner, Owned
  <2>3. Service!Arrive(e, r)
    BY <1>2, <1>7, <1>8, <2>1 DEF Service!Arrive
  <2>4. r \in Outlived
    BY <1>1, <1>11 DEF Outlived
  <2>5. Outlived' \in {Outlived, Outlived \ {r}}
    <3>1. Outlived' \subseteq Outlived /\ \A x \in Outlived : x # r => x \in Outlived'
      BY <1>1, <1>8, <2>1 DEF Outlived
    <3> QED BY <2>4, <3>1
  <2>6. Service!Stray(e, r)
    BY <2>2, <2>3, <2>4, <2>5 DEF Service!Stray
  <2>7. e \in 1..(Len(Owner) + 1)
    <3>1. Len(remote) \in Nat /\ DOMAIN remote = 1..Len(remote)
      BY DEF IInv, Associations
    <3> QED BY <3>1, OwnerType DEF Owned
  <2> QED BY <1>2, <2>6, <2>7 DEF Service!Next
<1> QED BY <1>1, <1>9, <1>10, <1>11, ResolveCases

LEMMA LocalAnswerServes ==
    ASSUME IInv, NEW d \in downlink, LocalAnswer(d)
    PROVE  Service!Next
<1>1. /\ UNCHANGED <<asked, local, remote, lookups, reached, replied>>
      /\ \E label \in Shown(d.label) :
           answers' = answers \cup {[app |-> local[d.to].src, label |-> label, payload |-> d.payload]}
  BY DEF LocalAnswer
<1>2. PICK label \in Shown(d.label) :
        answers' = answers \cup {[app |-> local[d.to].src, label |-> label, payload |-> d.payload]}
  BY <1>1
<1>3. PICK p : p = d.payload
  OBVIOUS
<1>4. p \in replied /\ p.from \in Peer /\ p.to \in DOMAIN remote /\ local[d.to].src = OwnerOf(p.to)
  BY <1>3 DEF IInv, DownInv, OwnerOf
<1>5. PICK told : told = IF label = None THEN None ELSE Plain(label)
  OBVIOUS
<1>6. told \in {p.from, None}
  BY <1>3, <1>5, ShownTrue
<1>7. PICK x : x = [app |-> local[d.to].src, label |-> label, payload |-> p]
  OBVIOUS
<1>8. AsTold(x) = [app |-> Owner[p.to], label |-> told, payload |-> p]
  <2>1. AsTold(x) = [app |-> local[d.to].src, label |-> told, payload |-> p]
    BY <1>5, <1>7 DEF AsTold
  <2> QED BY <1>4, <2>1, OwnerType DEF Owned
<1>9. answers' = answers \cup {x}
  BY <1>2, <1>3, <1>7
<1>10. {AsTold(a) : a \in answers'} = {AsTold(a) : a \in answers} \cup {[app |-> Owner[p.to], label |-> told, payload |-> p]}
  BY <1>8, <1>9
<1>11. Owner' = Owner /\ Outlived' = Outlived
  BY <1>1 DEF Owner, Outlived
<1>12. Service!Answer(p, told)
  BY <1>1, <1>4, <1>6, <1>10, <1>11 DEF Service!Answer
<1> QED BY <1>4, <1>6, <1>12 DEF Service!Next

LEMMA InitServes == Init => Service!Init
<1> SUFFICES ASSUME Init PROVE Service!Init
  OBVIOUS
<1>1. Owner = << >>
  BY DEF Init, Owner
<1>2. Outlived = {} /\ {AsTold(a) : a \in answers} = {}
  BY DEF Init, Outlived
<1> QED BY <1>1, <1>2 DEF Init, Service!Init

LEMMA StepServes == IInv /\ IInv' /\ [Next]_vars => [Service!Next]_Service!vars
<1> SUFFICES ASSUME IInv, IInv', [Next]_vars PROVE Service!Next \/ UNCHANGED Service!vars
  OBVIOUS
<1>1. CASE UNCHANGED vars
  BY <1>1 DEF vars, Service!vars, Owner, Outlived, AsTold
<1>2. ASSUME NEW a \in App, NEW t \in Says(program, TunnelHeader(forward)), Ask(a, t) PROVE Service!Next
  BY <1>2, AskServes
<1>3. ASSUME NEW addr \in Peer, NEW e \in DOMAIN remote, Reply(addr, e) PROVE Service!Next
  BY <1>3, ReplyServes
<1>4. ASSUME NEW r \in asked, LocalRecv(r) PROVE Service!Next
  <2>1. UNCHANGED <<remote, asked, reached, replied, answers>> /\ LocalKept /\ RemoteKept
    BY <1>4, LocalRecvStep DEF LocalRecv
  <2> QED BY <2>1, QuietStep DEF Service!Next
<1>5. ASSUME NEW i \in DOMAIN local, LocalTimeout(i) PROVE Service!Next
  <2>1. UNCHANGED <<remote, asked, reached, replied, answers>> /\ LocalKept /\ RemoteKept
    BY <1>5, LocalTimeoutStep DEF LocalTimeout
  <2> QED BY <2>1, QuietStep DEF Service!Next
<1>6. ASSUME NEW d \in uplink, ServerRecv(d) PROVE Service!Next
  BY <1>6, ServerRecvServes
<1>7. ASSUME NEW d \in uplink, ServerRecvName(d) PROVE Service!Next
  <2>1. UNCHANGED <<local, remote, asked, reached, replied, answers>>
    BY <1>7 DEF ServerRecvName
  <2>2. LocalKept /\ RemoteKept
    BY <2>1, SameAssociations DEF IInv
  <2> QED BY <2>1, <2>2, QuietStep DEF Service!Next
<1>8. ASSUME NEW l \in lookups, ResolveFails(l) PROVE Service!Next
  <2>1. UNCHANGED <<local, remote, asked, reached, replied, answers>>
    BY <1>8 DEF ResolveFails
  <2>2. LocalKept /\ RemoteKept
    BY <2>1, SameAssociations DEF IInv
  <2> QED BY <2>1, <2>2, QuietStep DEF Service!Next
<1>9. ASSUME NEW l \in lookups, NEW h \in Dns[l.name], Resolve(l, Of(h)) PROVE Service!Next
  BY <1>9, ResolveServes
<1>10. ASSUME NEW e \in DOMAIN remote, RemoteTimeout(e) PROVE Service!Next
  <2>1. UNCHANGED <<local, asked, reached, replied, answers>> /\ remote' = close_and_free_remote(remote, e)
    BY <1>10 DEF RemoteTimeout
  <2>2. remote \in Seq(RemoteAssoc(DOMAIN local))
    BY DEF IInv, Associations
  <2>3. /\ Len(remote') = Len(remote) /\ DOMAIN remote' = DOMAIN remote
        /\ \A j \in DOMAIN remote : remote'[j].src = remote[j].src /\ remote'[j].fam = remote[j].fam
    BY <2>1, <2>2, ClosedRemote
  <2>4. LocalKept /\ RemoteKept
    BY <2>1, <2>2, <2>3 DEF LocalKept, RemoteKept
  <2> QED BY <2>1, <2>3, <2>4, QuietStep DEF Service!Next
<1>11. ASSUME NEW p \in replied, RemoteRecv(p) PROVE Service!Next
  <2>1. UNCHANGED <<local, remote, asked, reached, replied, answers>>
    BY <1>11 DEF RemoteRecv
  <2>2. LocalKept /\ RemoteKept
    BY <2>1, SameAssociations DEF IInv
  <2> QED BY <2>1, <2>2, QuietStep DEF Service!Next
<1>12. ASSUME NEW d \in downlink, LocalAnswer(d) PROVE Service!Next
  BY <1>12, LocalAnswerServes
<1> QED
  BY <1>1, <1>2, <1>3, <1>4, <1>5, <1>6, <1>7, <1>8, <1>9, <1>10, <1>11, <1>12, Zenon DEF Next

\* udprelay.c of a client program and of ss-server together give the service:
\* datagrams go where their applications asked, and answers come back to the
\* owner of the endpoint they were sent to with the true sender on them.
THEOREM ImplementsServiceAlways == Spec => ImplementsService
<1>1. Init => Service!Init
  BY InitServes
<1>2. IInv /\ IInv' /\ [Next]_vars => [Service!Next]_Service!vars
  BY StepServes
<1> QED BY <1>1, <1>2, Traced, PTL DEF Spec, ImplementsService, Service!Spec
=============================================================================
