-------------------------------- MODULE Acl --------------------------------
(***************************************************************************)
(* Access control lists (acl.c, rule.c): a file of networks and patterns   *)
(* in three sections, read at start; lookups by ss-server for its clients  *)
(* and by ss-local for destinations; addresses that are added and removed  *)
(* later.                                                                  *)
(***************************************************************************)
EXTENDS IpsetIter, IpsetFile

CONSTANTS
    Name,      \* host names
    Pattern,   \* patterns: each is the set of names it matches
    Network,   \* what a line of the file may say: an address and a prefix, -1 for none
    MaxLines,   \* the lines of a file, at most
    MaxChanges, \* how often an address is added or removed later, at most
    MaxSteps    \* lines and changes together, at most

VARIABLES
    lines,     \* how many lines of the file are left; 0 when it was read
    changes,   \* how many changes are left
    section,   \* the list that lines go to
    mode,      \* acl_mode
    ipv4, ipv6, \* the IP sets of each section
    rules,     \* the patterns of each section, those that did not compile too
    member     \* ghost: the addresses and names that each section lists

vars == <<lines, changes, section, mode, ipv4, ipv6, rules, member>>

Section == {"black", "white", "outbound"}
Mode    == {"BLACK_LIST", "WHITE_LIST"}
Address == [version : {4}, bits : [1..Bits4 -> BOOLEAN]] \cup [version : {6}, bits : [1..Bits6 -> BOOLEAN]]

\* The addresses of a network: those that agree in the first bits.
Within(addr, prefix) ==
    {a \in Address : a.version = addr.version /\ prefix <= Len(addr.bits) /\ \A i \in 1..prefix : a.bits[i] = addr.bits[i]}

ASSUME AclAssumption ==
    /\ MaxLines \in Nat /\ MaxChanges \in Nat /\ MaxSteps \in Nat /\ MaxLines <= MaxSteps
    /\ \A n \in Network : n.addr \in Address /\ n.prefix \in -1..(Bits6 + 1)

Init ==
    /\ lines \in 0..MaxLines
    /\ changes = IF lines + MaxChanges <= MaxSteps THEN MaxChanges ELSE MaxSteps - lines
    /\ section = "black"
    /\ mode = "BLACK_LIST"
    /\ ipv4 = [s \in Section |-> EmptySet]
    /\ ipv6 = [s \in Section |-> EmptySet]
    /\ rules = [s \in Section |-> << >>]
    /\ member = [s \in Section |-> {}]

-----------------------------------------------------------------------------
(* init_acl, one line at a time *)

SectionLine ==
    /\ lines > 0
    /\ \E s \in Section : section' = s
    /\ lines' = lines - 1
    /\ UNCHANGED <<changes, mode, ipv4, ipv6, rules, member>>

ModeLine ==
    /\ lines > 0
    /\ \E m \in Mode : mode' = m
    /\ lines' = lines - 1
    /\ UNCHANGED <<changes, section, ipv4, ipv6, rules, member>>

\* An address with or without prefix goes to the set of its version.
NetworkLine ==
    /\ lines > 0
    /\ \E n \in Network :
         LET prefix == IF n.prefix >= 0 THEN n.prefix ELSE Len(n.addr.bits)
         IN  /\ IF n.addr.version = 4
                THEN ipv4' = [ipv4 EXCEPT ![section] = AddNetwork(@, n.addr, prefix)] /\ UNCHANGED ipv6
                ELSE ipv6' = [ipv6 EXCEPT ![section] = AddNetwork(@, n.addr, prefix)] /\ UNCHANGED ipv4
             /\ member' = [member EXCEPT ![section] = @ \cup Within(n.addr, prefix)]
    /\ lines' = lines - 1
    /\ UNCHANGED <<changes, section, mode, rules>>

\* Anything else is a pattern, added whether it compiles or not.
RuleLine ==
    /\ lines > 0
    /\ \E p \in Pattern : /\ rules' = [rules EXCEPT ![section] = Append(@, p)]
                         /\ member' = [member EXCEPT ![section] = @ \cup p]
    /\ lines' = lines - 1
    /\ UNCHANGED <<changes, section, mode, ipv4, ipv6>>

-----------------------------------------------------------------------------
(* Changes at run time *)

\* acl_add_ip
AclAddIp(a) ==
    /\ lines = 0 /\ changes > 0
    /\ changes' = changes - 1
    /\ IF a.version = 4
       THEN ipv4' = [ipv4 EXCEPT !["black"] = AddIp(@, a)] /\ UNCHANGED ipv6
       ELSE ipv6' = [ipv6 EXCEPT !["black"] = AddIp(@, a)] /\ UNCHANGED ipv4
    /\ member' = [member EXCEPT !["black"] = @ \cup {a}]
    /\ UNCHANGED <<lines, section, mode, rules>>

\* acl_remove_ip
AclRemoveIp(a) ==
    /\ lines = 0 /\ changes > 0
    /\ changes' = changes - 1
    /\ IF a.version = 4
       THEN ipv4' = [ipv4 EXCEPT !["black"] = RemoveIp(@, a)] /\ UNCHANGED ipv6
       ELSE ipv6' = [ipv6 EXCEPT !["black"] = RemoveIp(@, a)] /\ UNCHANGED ipv4
    /\ member' = [member EXCEPT !["black"] = @ \ {a}]
    /\ UNCHANGED <<lines, section, mode, rules>>

Next == SectionLine \/ ModeLine \/ NetworkLine \/ RuleLine \/ \E a \in Address : AclAddIp(a) \/ AclRemoveIp(a)

Spec == Init /\ [][Next]_vars

-----------------------------------------------------------------------------
(* Lookups *)

\* lookup_rule
LookupRule(s, name) == \E i \in DOMAIN rules[s] : name \in rules[s][i]

InSet(s, a) == IF a.version = 4 THEN Contains(ipv4[s], a) ELSE Contains(ipv6[s], a)

\* Mutant of AclMatchHost: the white list is looked at first.
AclMatchHostWhite(h) ==
    LET in(s) == IF h \in Name THEN LookupRule(s, h) ELSE InSet(s, h)
    IN  IF in("white") THEN -1 ELSE IF in("black") THEN 1 ELSE 0

\* acl_match_host: the black list goes first.
AclMatchHost(h) ==
    LET in(s) == IF h \in Name THEN LookupRule(s, h) ELSE InSet(s, h)
    IN  IF in("black") THEN 1 ELSE IF in("white") THEN -1 ELSE 0

\* outbound_block_match_host
OutboundBlock(h) == IF h \in Name THEN LookupRule("outbound", h) ELSE InSet("outbound", h)

\* accept_cb of ss-server
Admits(a) == IF mode = "BLACK_LIST" THEN AclMatchHost(a) # 1 ELSE AclMatchHost(a) < 0

\* server_handshake of ss-local for an address that was asked for.
BypassesAddress(a) == IF mode = "BLACK_LIST" THEN AclMatchHost(a) > 0 ELSE AclMatchHost(a) >= 0

\* The same for a name.  One that is on neither list is looked up, and what it
\* resolved to decides; if it did not resolve (found is empty) it is not bypassed.
BypassesName(n, found) ==
    \/ AclMatchHost(n) > 0
    \/ AclMatchHost(n) = 0 /\ \E a \in found : BypassesAddress(a)

-----------------------------------------------------------------------------
(* Properties *)

Sets == {ipv4[s] : s \in Section} \cup {ipv6[s] : s \in Section}

\* Types, and what the file format of the lists leaves in memory.
TypeOK ==
    /\ lines \in 0..MaxLines
    /\ changes \in 0..MaxChanges
    /\ section \in Section
    /\ mode \in Mode
    /\ rules \in [Section -> Seq(Pattern)]
    /\ member \in [Section -> SUBSET (Address \cup Name)]

\* Who is listed black, and who is listed white and not black.
Black == member["black"]
White == member["white"] \ member["black"]

\* Whom ss-server lets in, what it may connect to, and what ss-local connects to
\* without the proxy follow from the lines alone, whatever their order, overlap
\* and later changes.  In black list mode everybody not listed black gets in and
\* only what is listed black is bypassed; in white list mode only who is listed
\* white and not black gets in and everything else is bypassed.  A name on a list
\* is decided by its name, any other by the address it has.
ListsObeyed ==
    LET listed(a) == IF mode = "BLACK_LIST" THEN a \in Black ELSE a \notin White
    IN  /\ \A a \in Address : /\ Admits(a) = ~listed(a)
                             /\ BypassesAddress(a) = listed(a)
        /\ \A h \in Address \cup Name : OutboundBlock(h) = (h \in member["outbound"])
        /\ \A n \in Name : \A found \in {{}} \cup {{a} : a \in Address} :
             BypassesName(n, found) =
                 IF n \in Black THEN TRUE ELSE IF n \in White THEN FALSE ELSE \E a \in found : listed(a)

\* References to a node: from other nodes and from the root.
References(s, i) ==
    Cardinality({j \in s.cache.table : s.cache.node[j + 1].low = NonterminalId(i)})
    + Cardinality({j \in s.cache.table : s.cache.node[j + 1].high = NonterminalId(i)})
    + IF s.root = NonterminalId(i) THEN 1 ELSE 0

\* The reference counts of the node cache are exact: a node is counted once
\* for each edge and root that leads to it, it is in the table or in the free
\* list and never in both, all that is in the table can be reached, and
\* ipset_done leaves nothing behind.
RefsExactIn(s) ==
    /\ \A i \in s.cache.table : s.cache.node[i + 1].ref = References(s, i)
    /\ {NonterminalId(i) : i \in s.cache.table} = Reachable(s)
    /\ {s.cache.free[k] : k \in DOMAIN s.cache.free} = (0..(Len(s.cache.node) - 1)) \ s.cache.table
    /\ Len(s.cache.free) = Len(s.cache.node) - Cardinality(s.cache.table)
    /\ Done(s).table = {}

RefsExact == \A s \in Sets : RefsExactIn(s)

\* Diagrams are reduced, which the comparison of sets by their roots relies on:
\* equal sets have equal diagrams, whatever their history, and the empty set
\* is the terminal.
Canonical ==
    /\ \A s \in Sets : \A i, j \in s.cache.table :
         LET n == s.cache.node[i + 1]
             k == s.cache.node[j + 1]
         IN  /\ n.low # n.high
             /\ i # j => <<n.var, n.low, n.high>> # <<k.var, k.low, k.high>>
    /\ \A s, t \in Sets : IsEqual(s, t) = \A a \in Address : Contains(s, a) = Contains(t, a)

\* ipset_iterate yields every address of the set, and of the complement, once;
\* ipset_iterate_networks yields disjoint networks that make up the same.
IterationExact ==
    \A s \in Sets : \A v \in 0..1 :
        LET all  == Yield(s.cache, Iterate(s, v, FALSE))
            nets == Yield(s.cache, Iterate(s, v, TRUE))
            want == {a \in Address : Contains(s, a) = (v = 1)}
            covers(n, a) == n.version = a.version /\ \A i \in DOMAIN n.bits : n.bits[i] = a.bits[i]
        IN  /\ {all[k] : k \in DOMAIN all} = want /\ Len(all) = Cardinality(want)
            /\ \A a \in Address : Cardinality({k \in DOMAIN nets : covers(nets[k], a)}) = IF a \in want THEN 1 ELSE 0

\* A set that was saved can be read and is the same set again.
SavedAndLoaded ==
    \A s \in Sets : Readable(Saved(s)) /\ IsEqual(Loaded(Saved(s)), s)

\* The node cache keeps exactly the nodes that are in use, each once.
NodesExact == TypeOK /\ RefsExact /\ Canonical

\* Iterating over a set, and saving and loading it, gives that set.
SetsExact == IterationExact /\ SavedAndLoaded
=============================================================================
