----------------------------- MODULE IpsetFile -----------------------------
(***************************************************************************)
(* Saving an IP set to a file and loading it again (bdd/write.c,           *)
(* bdd/read.c): the nodes of the diagram, children first, numbered -1, -2, *)
(* ...; a reference that is not negative is the value of a terminal.       *)
(***************************************************************************)
EXTENDS IpsetBdd, TLC

\* save_visit_node: ids is serialized_ids, out what was written so far.
RECURSIVE SaveVisit(_, _, _)
SaveVisit(c, st, id) ==
    IF id \in DOMAIN st.ids THEN st
    ELSE IF IsTerminal(id) THEN [st EXCEPT !.ids = (id :> Value(id)) @@ @]
    ELSE LET n  == NodeAt(c, id)
             lo == SaveVisit(c, st, n.low)
             hi == SaveVisit(c, lo, n.high)
         IN  [ids |-> (id :> -(Len(hi.out) + 1)) @@ hi.ids,
              out |-> Append(hi.out, [var |-> n.var, low |-> hi.ids[n.low], high |-> hi.ids[n.high]])]

\* write_header_v1 counts the nodes before they are written; without any,
\* write_footer_v1 adds the terminal.
Saved(s) ==
    [count |-> Cardinality(Reachable(s)),
     nodes |-> SaveVisit(s.cache, [ids |-> << >>, out |-> << >>], s.root).out,
     value |-> IF IsTerminal(s.root) THEN Value(s.root) ELSE -1]

\* load_v1: each node is made with Nonterminal, from the ids of those before.
RECURSIVE LoadNodes(_, _, _, _)
LoadNodes(nodes, i, c, ids) ==
    IF i > Len(nodes) THEN [cache |-> c, root |-> ids[i - 1]]
    ELSE LET Id(x) == IF x >= 0 THEN TerminalId(x) ELSE ids[-x]
             new   == Nonterminal(c, nodes[i].var, Id(nodes[i].low), Id(nodes[i].high))
         IN  LoadNodes(nodes, i + 1, new.cache, Append(ids, new.id))

\* ipset_load; a file with another number of nodes than it says is refused.
Readable(file) == file.count = Len(file.nodes)

Loaded(file) ==
    IF file.count = 0 THEN [cache |-> NewCache, root |-> TerminalId(file.value)]
    ELSE LoadNodes(file.nodes, 1, NewCache, << >>)
=============================================================================
