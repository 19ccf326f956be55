----------------------------- MODULE IpsetIter -----------------------------
(***************************************************************************)
(* Iterating over an IP set (bdd/assignments.c, bdd/expanded.c,            *)
(* bdd/bdd-iterator.c, set/iterator.c): the paths of the diagram to the    *)
(* wanted value are assignments of its variables, each assignment stands   *)
(* for networks or, fully expanded, for addresses.                         *)
(***************************************************************************)
EXTENDS IpsetBdd

CONSTANTS Bits4, Bits6   \* the size of an IPv4 and of an IPv6 address

ASSUME BitsAssumption == Bits4 \in Nat \ {0} /\ Bits6 \in Nat /\ Bits4 <= Bits6

-----------------------------------------------------------------------------
(* Assignments: the values of variables 0, 1, ...; the rest is EITHER *)

AsgGet(a, var) == IF var < Len(a) THEN a[var + 1] ELSE "EITHER"

AsgSet(a, var, x) ==
    IF var < Len(a) THEN [a EXCEPT ![var + 1] = x]
    ELSE a \o [i \in 1..(var - Len(a)) |-> "EITHER"] \o <<x>>

-----------------------------------------------------------------------------
(* Paths *)

\* add_node: down the low edges to a terminal.
RECURSIVE AddNode(_, _, _)
AddNode(c, it, id) ==
    IF IsTerminal(id) THEN [it EXCEPT !.value = Value(id)]
    ELSE LET n == NodeAt(c, id)
         IN  AddNode(c, [it EXCEPT !.stack = Append(@, id), !.asg = AsgSet(@, n.var, "FALSE")], n.low)

\* ipset_node_iterate
NodeIterate(c, root) == AddNode(c, [stack |-> << >>, asg |-> << >>, value |-> 0, finished |-> FALSE], root)

\* Mutant of PathAdvance: a variable keeps its value when its node is left.
RECURSIVE PathAdvanceKeeps(_, _)
PathAdvanceKeeps(c, it) ==
    IF it.finished THEN it
    ELSE IF it.stack = << >> THEN [it EXCEPT !.finished = TRUE]
    ELSE LET n == NodeAt(c, it.stack[Len(it.stack)])
         IN  IF AsgGet(it.asg, n.var) = "TRUE"
             THEN PathAdvanceKeeps(c, [it EXCEPT !.stack = SubSeq(@, 1, Len(@) - 1)])
             ELSE AddNode(c, [it EXCEPT !.asg = AsgSet(@, n.var, "TRUE")], n.high)

\* ipset_bdd_iterator_advance: up to the last node whose high edge was not yet
\* taken, and down from there.
RECURSIVE PathAdvance(_, _)
PathAdvance(c, it) ==
    IF it.finished THEN it
    ELSE IF it.stack = << >> THEN [it EXCEPT !.finished = TRUE]
    ELSE LET n == NodeAt(c, it.stack[Len(it.stack)])
         IN  IF AsgGet(it.asg, n.var) = "TRUE"
             THEN PathAdvance(c, [it EXCEPT !.stack = SubSeq(@, 1, Len(@) - 1), !.asg = AsgSet(@, n.var, "EITHER")])
             ELSE AddNode(c, [it EXCEPT !.asg = AsgSet(@, n.var, "TRUE")], n.high)

-----------------------------------------------------------------------------
(* Expanded assignments: EITHER becomes both values in turn *)

\* ipset_assignment_expand, for the variables 0..count-1.
Expand(a, count) ==
    [values   |-> [i \in 1..count |-> AsgGet(a, i - 1) = "TRUE"],
     eithers  |-> SelectSeq([i \in 1..count |-> i - 1], LAMBDA var : AsgGet(a, var) = "EITHER"),
     finished |-> FALSE]

\* ipset_expanded_assignment_advance: adding one to the number that the
\* EITHER variables form.
ExpandAdvance(e) ==
    LET zeros == {i \in DOMAIN e.eithers : ~e.values[e.eithers[i] + 1]}
        last  == CHOOSE i \in zeros : \A j \in zeros : j <= i
        carry == {e.eithers[i] : i \in {j \in DOMAIN e.eithers : zeros = {} \/ j > last}}
    IN  IF e.finished THEN e
        ELSE [e EXCEPT !.finished = zeros = {},
                       !.values   = [i \in DOMAIN @ |-> IF i - 1 \in carry THEN FALSE
                                                        ELSE @[i] \/ (zeros # {} /\ i - 1 = e.eithers[last])]]

-----------------------------------------------------------------------------
(* The addresses or networks of a set *)

\* find_last_non_either_bit
LastBit(a, bits) ==
    LET fixed == {i \in 1..bits : AsgGet(a, i) # "EITHER"}
    IN  IF fixed = {} THEN 0 ELSE CHOOSE i \in fixed : \A j \in fixed : j <= i

\* expand_ipv4 and expand_ipv6
ExpandAs(it, bits) ==
    LET last == IF it.summarize THEN LastBit(it.path.asg, bits) ELSE bits
    IN  [it EXCEPT !.exp = Expand(it.path.asg, last + 1), !.prefix = last]

\* process_assignment: the next path to the wanted value.  A path that does
\* not look at variable 0 is expanded as IPv4 first and then as IPv6.
RECURSIVE ProcessAssignment(_, _)
ProcessAssignment(c, it) ==
    IF it.path.finished THEN [it EXCEPT !.finished = TRUE]
    ELSE IF it.path.value # it.desired THEN ProcessAssignment(c, [it EXCEPT !.path = PathAdvance(c, @)])
    ELSE CASE AsgGet(it.path.asg, 0) = "FALSE"  -> ExpandAs([it EXCEPT !.multiple = "NORMAL"], Bits6)
           [] AsgGet(it.path.asg, 0) = "TRUE"   -> ExpandAs([it EXCEPT !.multiple = "NORMAL"], Bits4)
           [] AsgGet(it.path.asg, 0) = "EITHER" ->
                  ExpandAs([it EXCEPT !.multiple = "IPV4", !.path.asg = AsgSet(@, 0, "TRUE")], Bits4)

\* advance_assignment
AdvanceAssignment(c, it) ==
    CASE it.multiple = "NORMAL" -> ProcessAssignment(c, [it EXCEPT !.path = PathAdvance(c, @)])
      [] it.multiple = "IPV4"   -> ExpandAs([it EXCEPT !.multiple = "IPV6", !.path.asg = AsgSet(@, 0, "FALSE")], Bits6)
      [] it.multiple = "IPV6"   ->
             ProcessAssignment(c, [it EXCEPT !.path = PathAdvance(c, [@ EXCEPT !.asg = AsgSet(@, 0, "EITHER")])])

\* ipset_iterate and ipset_iterate_networks
Iterate(s, desired, summarize) ==
    ProcessAssignment(s.cache,
        [path |-> NodeIterate(s.cache, s.root), exp |-> Expand(<< >>, 0), multiple |-> "NORMAL", prefix |-> 0,
         desired |-> desired, summarize |-> summarize, finished |-> FALSE])

\* ipset_iterator_advance with process_expanded_assignment
IterAdvance(c, it) ==
    LET e == ExpandAdvance(it.exp)
    IN  IF it.finished THEN it
        ELSE IF e.finished THEN AdvanceAssignment(c, it) ELSE [it EXCEPT !.exp = e]

\* create_ip_address: what the iterator stands at.
Current(it) ==
    [version |-> IF it.exp.values[1] THEN 4 ELSE 6, bits |-> SubSeq(it.exp.values, 2, it.prefix + 1)]

\* Everything the iterator yields, in order.
RECURSIVE Yield(_, _)
Yield(c, it) == IF it.finished THEN << >> ELSE <<Current(it)>> \o Yield(c, IterAdvance(c, it))
=============================================================================
