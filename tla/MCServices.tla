----------------------------- MODULE MCServices -----------------------------
EXTENDS Services

Tok(n) == [not |-> FALSE, name |-> n]
Not(n) == [not |-> TRUE, name |-> n]
Leaves(op, l) == [op |-> op, leaves |-> l, sons |-> <<>>]
Node(op, l, s) == [op |-> op, leaves |-> l, sons |-> s]
NoTree == Leaves("|", <<>>)

\* The text of a tree, the leaves first.
Between(op, ts) == FoldLeft(LAMBDA acc, t : IF acc = <<>> THEN t ELSE acc \o <<Tok(op)>> \o t, <<>>, ts)
RECURSIVE Text(_)
Text(tree) ==
    Between(tree.op, [i \in DOMAIN tree.leaves |-> <<tree.leaves[i]>>]
                     \o [i \in DOMAIN tree.sons |-> <<Tok("(")>> \o Text(tree.sons[i]) \o <<Tok(")")>>])

Host(tags, groups) ==
    [tags |-> tags, groups |-> groups, keys |-> <<>>, not_keys |-> {}, includes |-> <<>>,
     excludes |-> {}, val |-> "ofhost", realm |-> None, overrides |-> <<>>]
S(tpl, tree, names, desc, order, dup) ==
    [tpl |-> tpl, tree |-> tree, text |-> Text(tree), names |-> names, desc |-> desc, order |-> order,
     dup |-> dup, val |-> None]
Group(m, g, r) == [members |-> m, groups |-> g, realm |-> r]

Plain == [a |-> Host({"t"}, {"g"}), b |-> Host({"t", "u"}, {}), c |-> Host({}, {"k"})]
Groups == [g |-> Group({"b"}, {}, None), k |-> Group({}, {"g"}, "east"), l |-> Group({"b", "c"}, {"k"}, "west")]
Loop == [Groups EXCEPT !.g = Group({"b"}, {"l"}, None)]
Conf(hosts, groups, services) ==
    [hosts |-> hosts, hostgroups |-> groups, services |-> services, default |-> "all"]

Trees ==
    LET L == {Tok("g"), Tok("k"), Not("g"), Tok("*"), Not("no")}
        Two == {Leaves(op, <<x, y>>) : op \in {"&", "|", ","}, x \in L, y \in L}
        Deep == {Node(op, <<x>>, <<Leaves(o, <<Tok("g"), y>>)>>) :
                   op \in {"&", "|"}, o \in {"&", "|"}, x \in L, y \in L}
        Deeper == {Node(op, <<Tok("l")>>, <<Node(o, <<Tok("g")>>, <<Leaves(q, <<Tok("k"), Not("g")>>)>>)>>) :
                     op \in {"&", "|"}, o \in {"&", "|"}, q \in {"&", "|"}}
    IN Two \cup Deep \cup Deeper

NameLists == {<<>>, <<Tok("a")>>, <<Tok("a"), Tok("no")>>, <<Tok("*"), Not("b")>>, <<Not("b"), Tok("*")>>,
              <<Tok("no")>>}

MCConfigurations ==
    \* expressions of groups, with names
    {Conf(Plain, Groups, <<S(FALSE, t, <<>>, "d", 1, FALSE)>>) : t \in Trees}
    \cup {Conf(Plain, Groups, <<S(FALSE, t, n, "d", 1, FALSE)>>) :
            t \in {NoTree, Leaves("|", <<Tok("g")>>), Leaves(",", <<Tok("g"), Not("k")>>),
                   Leaves(",", <<Tok("g"), Tok("no")>>)}, n \in NameLists}
    \* groups in a loop
    \cup {Conf(Plain, Loop, <<S(FALSE, Leaves("|", <<Tok("no")>>), <<Tok("a")>>, "d", 1, FALSE)>>)}
    \* templates of hosts, and the same service by name, in either order
    \cup {Conf([Plain EXCEPT !.b.excludes = e, !.a.realm = "north"], Groups,
               <<S(FALSE, NoTree, n, "d", i, FALSE), S(TRUE, t, <<>>, "d", j, FALSE)>>) :
            e \in {{}, {<<"d", "">>}}, i \in 1..2, j \in 1..2, n \in {<<Tok("a")>>, <<Tok("a"), Tok("b")>>},
            t \in {Leaves("|", <<Tok("t")>>), Leaves("&", <<Tok("t"), Not("u")>>)}}
    \* keys, and services that a host does not want
    \cup {Conf([Plain EXCEPT !.a.keys = ks, !.a.not_keys = nk, !.a.includes = inc, !.b.keys = <<"D">>,
                             !.b.excludes = {<<"disk", "D">>}], Groups,
               <<S(tpl, t, <<>>, "disk", 1, TRUE), S(FALSE, NoTree, <<Tok("a"), Tok("c")>>, "d", 1, FALSE)>>) :
            ks \in {<<>>, <<"C", "D">>}, nk \in {{}, {"C"}}, inc \in {<<>>, <<{<<"disk", "D">>}>>},
            tpl \in {TRUE}, t \in {Leaves("|", <<Tok("t")>>)}}
    \* overrides
    \cup {Conf([Plain EXCEPT !.a.overrides = o], Groups,
               <<[S(FALSE, NoTree, <<Tok("a"), Tok("b")>>, "d", i, FALSE) EXCEPT !.val = v],
                 S(FALSE, NoTree, <<Tok("a")>>, "d", 2, FALSE)>>) :
            i \in {1, 3}, v \in {None, "own"},
            o \in {<<>>, <<[desc |-> "d", val |-> "x"]>>,
                   <<[desc |-> "d", val |-> "x"], [desc |-> "*", val |-> "y"]>>}}
=============================================================================
