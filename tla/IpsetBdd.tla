------------------------------ MODULE IpsetBdd ------------------------------
(***************************************************************************)
(* The binary decision diagrams of libipset (bdd/basics.c): sets of IP     *)
(* addresses as shared, reference-counted nodes in a cache that never      *)
(* holds two nodes with the same contents.                                 *)
(*                                                                         *)
(* A node id is twice the index of a nonterminal, or twice a value plus 1  *)
(* for a terminal.  Variable 0 tells IPv4 (TRUE) from IPv6, variable i is  *)
(* bit i of the address.                                                   *)
(***************************************************************************)
EXTENDS Integers, Sequences, FiniteSets

IsTerminal(id) == id % 2 = 1
Value(id) == id \div 2
TerminalId(v) == 2 * v + 1
NonterminalId(i) == 2 * i

\* A cache: the nodes by index, those in the table of contents (node_cache),
\* and the list of free indices, last freed first.
NewCache == [node |-> << >>, table |-> {}, free |-> << >>]

\* Indices begin with 0.
NodeAt(c, id) == c.node[Value(id) + 1]

WithRef(c, id, d) == [c EXCEPT !.node[Value(id) + 1].ref = @ + d]

IncRef(c, id) == IF IsTerminal(id) THEN c ELSE WithRef(c, id, 1)

\* Mutant of DecRef: the children of a node that goes keep their references.
RECURSIVE DecRefShallow(_, _)
DecRefShallow(c, id) ==
    IF IsTerminal(id) THEN c
    ELSE LET d == WithRef(c, id, -1)
         IN  IF NodeAt(d, id).ref # 0 THEN d
             ELSE [d EXCEPT !.table = @ \ {Value(id)}, !.free = <<Value(id)>> \o @]

\* A node without references gives up its children, leaves the table and goes
\* to the front of the free list.
RECURSIVE DecRef(_, _)
DecRef(c, id) ==
    IF IsTerminal(id) THEN c
    ELSE LET d == WithRef(c, id, -1)
         IN  IF NodeAt(d, id).ref # 0 THEN d
             ELSE LET e == DecRef(DecRef(d, NodeAt(d, id).low), NodeAt(d, id).high)
                  IN  [e EXCEPT !.table = @ \ {Value(id)}, !.free = <<Value(id)>> \o @]

\* ipset_node_cache_alloc_node, and the node put in the place it returns.
Allocated(c, n) ==
    IF c.free = << >>
    THEN [cache |-> [c EXCEPT !.node = Append(@, n), !.table = @ \cup {Len(c.node)}],
          id    |-> NonterminalId(Len(c.node))]
    ELSE LET i == Head(c.free)
         IN  [cache |-> [c EXCEPT !.node[i + 1] = n, !.table = @ \cup {i}, !.free = Tail(@)],
              id    |-> NonterminalId(i)]

\* ipset_node_cache_nonterminal takes over the references to low and high.
Nonterminal(c, var, low, high) ==
    IF low = high THEN [cache |-> DecRef(c, high), id |-> low]
    ELSE LET same == {i \in c.table : c.node[i + 1].var = var /\ c.node[i + 1].low = low /\ c.node[i + 1].high = high}
         IN  IF same = {} THEN Allocated(c, [ref |-> 1, var |-> var, low |-> low, high |-> high])
             ELSE LET id == NonterminalId(CHOOSE i \in same : TRUE)
                  IN  [cache |-> DecRef(DecRef(IncRef(c, id), low), high), id |-> id]

-----------------------------------------------------------------------------
(* Looking up and changing *)

\* ipset_ipv4_assignment and ipset_ipv6_assignment
Assigned(addr, var) == IF var = 0 THEN addr.version = 4 ELSE addr.bits[var]

RECURSIVE Evaluate(_, _, _)
Evaluate(c, id, addr) ==
    IF IsTerminal(id) THEN Value(id)
    ELSE LET n == NodeAt(c, id) IN Evaluate(c, IF Assigned(addr, n.var) THEN n.high ELSE n.low, addr)

\* ipset_apply_ite: f? g: h, for an f that is the conjunction of the variables
\* cur..count-1 as addr has them, or (zero) the constant 0.
RECURSIVE ApplyIte(_, _, _, _, _, _)
ApplyIte(c, addr, cur, count, g, h) ==
    LET Zero(d, x) == [cache |-> IncRef(d, x), id |-> x]
        Both(var, next, hLow, hHigh) ==
            IF next # cur /\ ~Assigned(addr, cur)
            THEN LET hi == Zero(c, hHigh)
                     lo == ApplyIte(hi.cache, addr, next, count, g, hLow)
                 IN  Nonterminal(lo.cache, var, lo.id, hi.id)
            ELSE LET hi == ApplyIte(c, addr, next, count, g, hHigh)
                     lo == IF next # cur THEN Zero(hi.cache, hLow) ELSE ApplyIte(hi.cache, addr, next, count, g, hLow)
                 IN  Nonterminal(lo.cache, var, lo.id, hi.id)
    IN  IF cur = count THEN [cache |-> c, id |-> TerminalId(g)]
        ELSE IF h = TerminalId(g) THEN [cache |-> c, id |-> h]
        ELSE IF IsTerminal(h) THEN Both(cur, cur + 1, h, h)
        ELSE LET n == NodeAt(c, h)
             IN  IF n.var < cur THEN Both(n.var, cur, n.low, n.high)
                 ELSE IF n.var = cur THEN Both(cur, cur + 1, n.low, n.high)
                 ELSE Both(cur, cur + 1, h, h)

\* ipset_node_insert
Insert(c, id, addr, count, value) == ApplyIte(c, addr, 0, count, value, id)

\* ipset_node_cache_nodes_equal
RECURSIVE NodesEqual(_, _, _, _)
NodesEqual(c1, id1, c2, id2) ==
    IF IsTerminal(id1) \/ IsTerminal(id2) THEN id1 = id2
    ELSE LET n1 == NodeAt(c1, id1)
             n2 == NodeAt(c2, id2)
         IN  /\ n1.var = n2.var
             /\ NodesEqual(c1, n1.low, c2, n2.low)
             /\ NodesEqual(c1, n1.high, c2, n2.high)

-----------------------------------------------------------------------------
(* Sets (set/allocation.c, set/inspection.c) *)

\* ipset_init
EmptySet == [cache |-> NewCache, root |-> TerminalId(0)]

\* The common end of adding and removing: the old diagram is given up only
\* after the new one was built from it.
Replaced(s, new) == [cache |-> DecRef(new.cache, s.root), root |-> new.id]

\* ipset_ip_add_network, ipset_ip_remove_network; a prefix that is too long
\* changes nothing.
AddNetwork(s, addr, prefix) ==
    IF prefix > Len(addr.bits) THEN s ELSE Replaced(s, Insert(s.cache, s.root, addr, prefix + 1, 1))

RemoveNetwork(s, addr, prefix) ==
    IF prefix > Len(addr.bits) THEN s ELSE Replaced(s, Insert(s.cache, s.root, addr, prefix + 1, 0))

AddIp(s, addr) == AddNetwork(s, addr, Len(addr.bits))
RemoveIp(s, addr) == RemoveNetwork(s, addr, Len(addr.bits))

Contains(s, addr) == Evaluate(s.cache, s.root, addr) = 1

IsEqual(s1, s2) == NodesEqual(s1.cache, s1.root, s2.cache, s2.root)

\* ipset_done: what is left in the cache after the root was given up.
Done(s) == DecRef(s.cache, s.root)

\* ipset_node_reachable_count walks from a queue, last in first out, and skips
\* what it has visited.
RECURSIVE Visited(_, _, _)
Visited(c, queue, seen) ==
    IF queue = << >> THEN seen
    ELSE LET id   == queue[Len(queue)]
             rest == SubSeq(queue, 1, Len(queue) - 1)
         IN  IF id \in seen THEN Visited(c, rest, seen)
             ELSE Visited(c, rest \o SelectSeq(<<NodeAt(c, id).low, NodeAt(c, id).high>>, LAMBDA x : ~IsTerminal(x)),
                          seen \cup {id})

Reachable(s) == Visited(s.cache, IF IsTerminal(s.root) THEN << >> ELSE <<s.root>>, {})
=============================================================================
