------------------------------ MODULE HostGraph ------------------------------
(***************************************************************************)
(* graph.py: the search for loops among objects that have parents, and the *)
(* packs of objects that are related.  A graph is a sequence of nodes (the *)
(* order of its dictionary) and the sequence of children of each node.     *)
(***************************************************************************)
EXTENDS Integers, Sequences, SequencesExt

\* edges are pairs of a node and its child.
GraphOf(nodeSeq, edges) ==
    [nodes |-> nodeSeq,
     children |-> [n \in ToSet(nodeSeq) |-> SelectSeq(nodeSeq, LAMBDA c : <<n, c>> \in edges)]]

\* F(x), with x evaluated once.
Once(x, F(_)) == CHOOSE r \in {F(v) : v \in {x}} : TRUE

RECURSIVE dfs_loop_search(_, _, _)
RECURSIVE ScanSons(_, _, _, _)

\* What root and child become when the child has been looked at.
Judged(status, root, child) ==
    CASE status[child] = "TEMPORARY_CHECKED" ->
            [status EXCEPT ![child] = "LOOP_INSIDE", ![root] = "LOOP_INSIDE"]
      [] status[child] \in {"NEAR_LOOP", "LOOP_INSIDE"} ->
            [status EXCEPT ![root] = IF @ # "LOOP_INSIDE" THEN "NEAR_LOOP" ELSE @,
                           ![child] = "LOOP_INSIDE"]
      [] OTHER -> status

Checked(g, status, node) ==
    IF status[node] = "UNCHECKED" THEN dfs_loop_search(g, status, node) ELSE status

\* The loop of dfs_loop_search over the children of root that are left.
ScanSons(g, status, root, sons) ==
    IF sons = <<>> THEN status
    ELSE Once(Judged(Once(Checked(g, status, Head(sons)), LAMBDA s : s), root, Head(sons)),
              LAMBDA s : ScanSons(g, s, root, Tail(sons)))

dfs_loop_search(g, status, root) ==
    Once(ScanSons(g, [status EXCEPT ![root] = "TEMPORARY_CHECKED"], root, g.children[root]),
         LAMBDA s : IF s[root] = "TEMPORARY_CHECKED" THEN [s EXCEPT ![root] = "OK"] ELSE s)

\* Mutant: only the nodes a search starts from are judged.
RECURSIVE LoopNodesRootsOnly(_, _, _)
LoopNodesRootsOnly(g, status, nodes) ==
    IF nodes = <<>> THEN {}
    ELSE Once(Checked(g, status, Head(nodes)),
              LAMBDA s : (IF status[Head(nodes)] = "UNCHECKED" /\ s[Head(nodes)] = "LOOP_INSIDE"
                          THEN {Head(nodes)} ELSE {})
                         \cup LoopNodesRootsOnly(g, s, Tail(nodes)))

\* The main loop of loop_check: in_loop takes a node when its turn comes.
RECURSIVE LoopNodes(_, _, _)
LoopNodes(g, status, nodes) ==
    IF nodes = <<>> THEN {}
    ELSE Once(Checked(g, status, Head(nodes)),
              LAMBDA s : (IF s[Head(nodes)] = "LOOP_INSIDE" THEN {Head(nodes)} ELSE {})
                         \cup LoopNodes(g, s, Tail(nodes)))

loop_check(g) ==
    LoopNodes(g, [n \in DOMAIN g.children |-> "UNCHECKED"], g.nodes)

RECURSIVE dfs_get_all_childs(_, _, _)
RECURSIVE Sons(_, _, _)

\* The result is [ret, checked]: the nodes found, and the ones visited.
Sons(g, found, sons) ==
    IF sons = <<>> THEN found
    ELSE IF Head(sons) \in found.checked THEN Sons(g, found, Tail(sons))
    ELSE Once(dfs_get_all_childs(g, found.checked, Head(sons)),
              LAMBDA sub : Sons(g, [ret |-> found.ret \cup sub.ret, checked |-> sub.checked],
                                Tail(sons)))

dfs_get_all_childs(g, checked, root) ==
    Sons(g, [ret |-> {root} \cup ToSet(g.children[root]), checked |-> checked \cup {root}],
         g.children[root])

RECURSIVE PacksFrom(_, _, _)
PacksFrom(g, checked, nodes) ==
    IF nodes = <<>> THEN <<>>
    ELSE IF Head(nodes) \in checked THEN PacksFrom(g, checked, Tail(nodes))
    ELSE Once(dfs_get_all_childs(g, checked, Head(nodes)),
              LAMBDA found : <<found.ret>> \o PacksFrom(g, found.checked, Tail(nodes)))

get_accessibility_packs(g) == PacksFrom(g, {}, g.nodes)

\* What a set of nodes leads to over some edges, the set itself included: the reference
\* definition for both searches.
RECURSIVE Reach(_, _)
Reach(edges, S) == LET T == S \cup {e[2] : e \in {x \in edges : x[1] \in S}}
                   IN  IF T = S THEN S ELSE Reach(edges, T)
=============================================================================
