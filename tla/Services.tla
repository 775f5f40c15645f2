------------------------------ MODULE Services ------------------------------
(***************************************************************************)
(* From the definitions of services to the services of each host:          *)
(* Hosts.explode, Hostgroups.explode, Services.explode and what follows    *)
(* them (implicit inheritance, overrides, links), with the expressions of  *)
(* host groups of complexexpression.py.                                    *)
(*                                                                         *)
(* A definition names hosts, groups of hosts or, in a template, templates  *)
(* of hosts; it becomes one service for each host, and one for each key    *)
(* of a custom variable of the host when it has a duplicate_foreach.  The  *)
(* copies share the lists of the original: deps holds the lists of         *)
(* service_dependencies, by number.  A description is a pair of a name and *)
(* a key: "" for a plain service, "$KEY$" before the key is put in.        *)
(***************************************************************************)
EXTENDS Integers, Sequences, FiniteSets, FiniteSetsExt, SequencesExt

CONSTANT Configurations     \* the definitions that the files may hold

VARIABLES
    conf,       \* the configuration: hosts, hostgroups, services, realms
    members,    \* the members of each hostgroup
    exploded,   \* the hostgroups that are already exploded
    objs,       \* the services that were created, by id
    items,      \* ids of Services.items
    index,      \* Services.name_to_item: the id of a host and a description
    deps,       \* the lists of dependencies, by number
    realm,      \* the realm of each host, and whether it is the default one
    errors,     \* ids of the services with a configuration error
    todo,       \* what is left of the current pass
    stage       \* the pass of load_config_file

vars == <<conf, members, exploded, objs, items, index, deps, realm, errors, todo, stage>>

Hosts == DOMAIN conf.hosts
None == "none"
KeyMark == "$KEY$"

\* F of x, with x evaluated once.
Once(x, F(_)) == CHOOSE r \in {F(v) : v \in {x}} : TRUE

-----------------------------------------------------------------------------
(* Groups of hosts.                                                        *)

\* Hosts.explode: a host joins the groups that it names.
ExplodeHost(h) ==
    /\ stage = "hosts" /\ h \in todo
    /\ todo' = todo \ {h}
    /\ members' = [g \in DOMAIN members |->
                    members[g] \cup (IF g \in conf.hosts[h].groups THEN {h} ELSE {})]
    /\ UNCHANGED <<conf, exploded, objs, items, index, deps, realm, errors, stage>>

RECURSIVE get_hosts_by_explosion(_, _)

\* The members of the groups below are added to those of the group; a group
\* that is met again (rec_tag) gives what it has.
get_hosts_by_explosion(e, g) ==
    IF g \in e.tagged THEN e
    ELSE LET RECURSIVE ask(_, _)
             ask(acc, subs) ==
                 IF subs = <<>> THEN acc
                 ELSE Once(get_hosts_by_explosion(acc, Head(subs)), LAMBDA r :
                           ask([r EXCEPT !.members[g] = @ \cup r.members[Head(subs)]], Tail(subs)))
         IN ask([e EXCEPT !.tagged = @ \cup {g}, !.exploded = @ \cup {g}],
                SetToSeq(conf.hostgroups[g].groups))

\* Hostgroups.explode.
ExplodeHostgroup(g) ==
    /\ stage = "hostgroups" /\ g \in todo
    /\ todo' = todo \ {g}
    /\ \E e \in {get_hosts_by_explosion([tagged |-> {}, exploded |-> exploded,
                                         members |-> members], g)} :
       IF conf.hostgroups[g].groups # {} /\ g \notin exploded
       THEN members' = e.members /\ exploded' = e.exploded
       ELSE UNCHANGED <<members, exploded>>
    /\ UNCHANGED <<conf, objs, items, index, deps, realm, errors, stage>>

-----------------------------------------------------------------------------
(* Expressions, as sequences of tokens: names, names after a !, "*",       *)
(* operators and parentheses.                                              *)

is_complex_expr(text) ==
    \E k \in DOMAIN text : text[k].not \/ text[k].name \in {"(", ")", "&", "|", "*"}

\* find_object: the hosts of a group, or those that use a template.
find_object(name, look_in) ==
    CASE name = "*" -> Hosts
      [] name # "*" /\ look_in = "hostgroups" ->
            IF name \in DOMAIN members THEN members[name] ELSE {}
      [] OTHER -> {h \in Hosts : name \in conf.hosts[h].tags}

\* resolve_elements: the operand joins the sons without a !, then those with
\* a ! are taken away.
resolve_elements(operand, sons) ==
    LET pos == {k \in DOMAIN sons : ~sons[k].not}
        P == {sons[k].set : k \in pos}
        joined == IF pos = {} THEN {}
                  ELSE IF operand = "&" THEN {h \in Hosts : \A S \in P : h \in S} ELSE UNION P
    IN joined \ UNION {sons[k].set : k \in DOMAIN sons \ pos}

RECURSIVE eval_cor_pattern(_, _)

\* One character after the other: what is inside the outer parentheses is
\* kept for a recursive call; the last operator of a level is its operand.
EvalComplex(text, look_in) ==
    LET cut(a) == IF a.tmp = <<>> THEN a
                  ELSE Once(eval_cor_pattern(a.tmp, look_in),
                            LAMBDA r : [a EXCEPT !.sons = Append(@, r), !.tmp = <<>>])
        step(a, t) ==
            CASE t.name \in {"&", "|", ","} /\ a.depth = 0 ->
                    [cut(a) EXCEPT !.op = IF t.name = "&" THEN "&" ELSE "|"]
              [] t.name = "(" -> [a EXCEPT !.depth = @ + 1,
                                           !.tmp = IF a.depth > 0 THEN Append(@, t) ELSE @]
              [] t.name = ")" ->
                    IF a.depth = 1 THEN [cut(a) EXCEPT !.depth = 0]
                    ELSE [a EXCEPT !.depth = @ - 1, !.tmp = Append(@, t)]
              [] OTHER -> [a EXCEPT !.tmp = Append(@, t)]
        RECURSIVE read(_, _)
        read(a, k) == IF k > Len(text) THEN cut(a)
                      ELSE Once(step(a, text[k]), LAMBDA v : read(v, k + 1))
    IN Once(read([op |-> "|", sons |-> <<>>, tmp |-> <<>>, depth |-> 0], 1),
            LAMBDA r : [not |-> FALSE, set |-> resolve_elements(r.op, r.sons)])

\* A leaf or a node, with the hosts that it stands for.
eval_cor_pattern(text, look_in) ==
    IF Len(text) = 1 /\ text[1].name \notin {"(", ")", "&", "|", ","}
    THEN [not |-> text[1].not, set |-> find_object(text[1].name, look_in)]
    ELSE EvalComplex(text, look_in)

\* A ! before the whole expression has nothing to be taken away from.
evaluate_hostgroup_expression(text, look_in) == eval_cor_pattern(text, look_in).set

-----------------------------------------------------------------------------
(* The index of services.                                                  *)

Key(s) == <<s.hosts, s.desc>>
Add(f, k, v) == [x \in DOMAIN f \cup {k} |-> IF x = k THEN v ELSE f[x]]
Drop(f, S) == [x \in DOMAIN f \ S |-> f[x]]

\* The lower definition_order stays, the new one if they are the same; the
\* old one is removed, but a new one that loses is left where it is.
manage_conflict(w, id) ==
    LET old == w.index[Key(w.objs[id])] IN
    IF w.objs[old].order < w.objs[id].order THEN w
    ELSE [w EXCEPT !.items = @ \ {old}, !.index = Add(@, Key(w.objs[id]), id)]

index_item(w, id) ==
    LET k == Key(w.objs[id]) IN
    IF k \in DOMAIN w.index /\ w.index[k] # id THEN manage_conflict(w, id)
    ELSE [w EXCEPT !.index = Add(@, k, id)]

\* add_item of a new service: one that has to be duplicated is not indexed;
\* the one that is kept is put among the items.
add_item(w, s) ==
    LET id == Len(w.objs) + 1
        v == [w EXCEPT !.objs = Append(@, s)]
    IN IF s.dup THEN [v EXCEPT !.items = @ \cup {id}]
       ELSE Once(index_item(v, id), LAMBDA r : [r EXCEPT !.items = @ \cup {r.index[Key(s)]}])

RECURSIVE AddAll(_, _)
AddAll(w, ss) == IF ss = <<>> THEN w ELSE Once(add_item(w, Head(ss)), LAMBDA v : AddAll(v, Tail(ss)))

remove_item(w, id) ==
    [w EXCEPT !.items = @ \ {id}, !.index = Drop(@, {Key(w.objs[id])})]

World == [objs |-> objs, items |-> items, index |-> index]
SetWorld(w) == objs' = w.objs /\ items' = w.items /\ index' = w.index

\* is_excluded_for: service_includes, which a template does not look at, and
\* then service_excludes.
is_excluded_for(h, desc, is_tpl) ==
    IF conf.hosts[h].includes # <<>> /\ ~is_tpl THEN desc \notin conf.hosts[h].includes[1]
    ELSE desc \in conf.hosts[h].excludes

-----------------------------------------------------------------------------
(* Services.explode.                                                       *)

Definition(k) == conf.services[k]
Service(k, hosts) ==
    LET d == Definition(k) IN
    [def |-> k, hosts |-> hosts, desc |-> <<d.desc, IF d.dup THEN KeyMark ELSE "">>,
     order |-> d.order, dup |-> d.dup, val |-> d.val, dep |-> k]

\* explode_services_from_templates and _local_create_service.
ExplodeTemplate ==
    /\ stage = "templates" /\ todo # {}
    /\ LET k == Min(todo)
           d == Definition(k)
           names == IF is_complex_expr(d.text) THEN evaluate_hostgroup_expression(d.text, "templates")
                    ELSE UNION {find_object(d.text[i].name, "templates") : i \in DOMAIN d.text}
           wanted == {h \in names : ~is_excluded_for(h, Service(k, {h}).desc, TRUE)}
       IN \E w \in {AddAll(World, SetToSeq({Service(k, {h}) : h \in wanted}))} : SetWorld(w)
    /\ todo' = todo \ {Min(todo)}
    /\ UNCHANGED <<conf, members, exploded, deps, realm, errors, stage>>

\* host_name from left to right: a host is added, or taken away again.
Names(acc, tokens) ==
    LET step(S, t) == CASE t.not -> S \ {t.name}
                        [] ~t.not /\ t.name = "*" -> S \cup Hosts
                        [] OTHER -> S \cup {t.name}
    IN FoldLeft(step, acc, tokens)

\* The groups, as an expression or as a list, where an unknown one is an error.
explode_host_groups_into_hosts(s) ==
    LET d == Definition(s.def)
        ofGroups == IF is_complex_expr(d.text) THEN evaluate_hostgroup_expression(d.text, "hostgroups")
                    ELSE UNION {find_object(d.text[i].name, "hostgroups") : i \in DOMAIN d.text}
    IN IF d.tpl THEN [hosts |-> s.hosts, error |-> FALSE]
       ELSE [hosts |-> Names(ofGroups, d.names),
             error |-> /\ ~is_complex_expr(d.text)
                       /\ \E i \in DOMAIN d.text : d.text[i].name \notin DOMAIN members \cup {","}]

\* explode_services_from_hosts.
FromHosts(w, s, hosts) ==
    AddAll(w, SetToSeq({[s EXCEPT !.hosts = {h}] :
                         h \in {x \in hosts \cap Hosts : ~is_excluded_for(x, s.desc, FALSE)}}))

\* A service of one host is indexed, another one makes room for its copies
\* unless there was an error.
ExplodeItem ==
    /\ stage = "items" /\ todo # {}
    /\ LET id == Min(todo) IN \E r \in {explode_host_groups_into_hosts(objs[id])} :
       LET s == [objs[id] EXCEPT !.hosts = r.hosts]
           w == [World EXCEPT !.objs[id] = s]
           several == Cardinality(r.hosts) >= 2
           wrong == r.error \/ (several /\ ~(r.hosts \subseteq Hosts))
       IN /\ \E v \in {CASE Cardinality(r.hosts) = 1 /\ ~s.dup -> index_item(w, id)
                         [] several -> FromHosts(w, s, r.hosts)
                         [] OTHER -> w} :
                SetWorld(IF Cardinality(r.hosts) = 1 \/ wrong THEN v ELSE remove_item(v, id))
          /\ errors' = IF wrong THEN errors \cup {id} ELSE errors
    /\ todo' = todo \ {Min(todo)}
    /\ UNCHANGED <<conf, members, exploded, deps, realm, stage>>

\* duplicate: one service for each key that is not among those to leave out.
duplicate(s, h) ==
    LET keys == SelectSeq(conf.hosts[h].keys, LAMBDA k : k \notin conf.hosts[h].not_keys)
    IN [i \in DOMAIN keys |-> [s EXCEPT !.dup = FALSE, !.desc[2] = keys[i]]]

\* Mutant: the service that is duplicated stays.
explode_services_duplicatesKeeps(id) ==
    LET h == CHOOSE x \in objs[id].hosts : TRUE
        new == SelectSeq(duplicate(objs[id], h), LAMBDA s : ~is_excluded_for(h, s.desc, FALSE))
    IN AddAll(World, new)

explode_services_duplicates(id) ==
    LET h == CHOOSE x \in objs[id].hosts : TRUE
        new == SelectSeq(duplicate(objs[id], h), LAMBDA s : ~is_excluded_for(h, s.desc, FALSE))
    IN Once(AddAll(World, new), LAMBDA w : remove_item(w, id))

\* The key goes into the list of dependencies, which all the copies share.
ExplodeDuplicate ==
    /\ stage = "duplicates" /\ todo # {}
    /\ LET id == Min(todo)
           known == objs[id].hosts \subseteq Hosts
           keys == IF known THEN duplicate(objs[id], CHOOSE x \in objs[id].hosts : TRUE) ELSE <<>>
       IN /\ IF known THEN \E w \in {explode_services_duplicates(id)} : SetWorld(w)
             ELSE UNCHANGED <<objs, items, index>>
          /\ errors' = IF known THEN errors ELSE errors \cup {id}
          /\ deps' = IF keys # <<>> /\ deps[objs[id].dep] = KeyMark
                     THEN [deps EXCEPT ![objs[id].dep] = keys[1].desc[2]] ELSE deps
    /\ todo' = todo \ {Min(todo)}
    /\ UNCHANGED <<conf, members, exploded, realm, stage>>

\* The services that their host does not want, whoever created them.
RemoveExcluded ==
    /\ stage = "excluded"
    /\ LET gone == {id \in items : \E h \in Hosts :
                       objs[id].hosts = {h} /\ is_excluded_for(h, objs[id].desc, FALSE)}
       IN /\ items' = items \ gone
          /\ index' = Drop(index, {Key(objs[id]) : id \in gone})
    /\ stage' = "implicit" /\ todo' = {}
    /\ UNCHANGED <<conf, members, exploded, objs, deps, realm, errors>>

-----------------------------------------------------------------------------
(* What the services get from their hosts.                                 *)

\* apply_implicit_inheritance: what a service does not have is that of its host.
apply_implicit_inheritance ==
    /\ stage = "implicit"
    /\ objs' = [id \in DOMAIN objs |->
                  LET s == objs[id]
                      H == {h \in Hosts : s.hosts = {h}}
                  IN IF s.val # None \/ H = {} \/ id \notin items THEN s
                     ELSE [s EXCEPT !.val = conf.hosts[CHOOSE h \in H : TRUE].val]]
    /\ stage' = "override" /\ todo' = Hosts
    /\ UNCHANGED <<conf, members, exploded, items, index, deps, realm, errors>>

\* get_ovr_services_from_expression: all the services of the host, or the
\* one that the index knows.
get_ovr_services_from_expression(h, desc) ==
    IF desc = "*" THEN {id \in items : objs[id].hosts = {h}}
    ELSE {index[k] : k \in {x \in DOMAIN index : x[1] = {h} /\ x[2] = <<desc, "">>}}

\* override_properties, one host at a time; a later override wins.
OverrideHost(h) ==
    /\ stage = "override" /\ h \in todo
    /\ objs' = FoldLeft(LAMBDA f, o :
                    LET S == get_ovr_services_from_expression(h, o.desc)
                    IN [id \in DOMAIN f |-> IF id \in S THEN [f[id] EXCEPT !.val = o.val] ELSE f[id]],
                  objs, conf.hosts[h].overrides)
    /\ todo' = todo \ {h}
    /\ UNCHANGED <<conf, members, exploded, items, index, deps, realm, errors, stage>>

-----------------------------------------------------------------------------
(* Links and realms.                                                       *)

\* linkify_h_by_realms: the realm that the host names, or the default one.
linkify_h_by_realms ==
    /\ stage = "realms"
    /\ realm' = [h \in Hosts |-> [name |-> IF conf.hosts[h].realm = None THEN conf.default
                                           ELSE conf.hosts[h].realm,
                                  default |-> conf.hosts[h].realm = None]]
    /\ stage' = "hostgroup realms" /\ todo' = DOMAIN members
    /\ UNCHANGED <<conf, members, exploded, objs, items, index, deps, errors>>

\* The realm of a group is given to the members that have the default one.
linkify_hg_by_realms(g) ==
    [h \in Hosts |-> IF h \in members[g] /\ realm[h].default
                     THEN [realm[h] EXCEPT !.name = conf.hostgroups[g].realm] ELSE realm[h]]

LinkifyHostgroup(g) ==
    /\ stage = "hostgroup realms" /\ g \in todo
    /\ todo' = todo \ {g}
    /\ realm' = IF conf.hostgroups[g].realm = None THEN realm ELSE linkify_hg_by_realms(g)
    /\ UNCHANGED <<conf, members, exploded, objs, items, index, deps, errors, stage>>

\* linkify_s_by_hst and is_correct: a service without a known host, one with
\* an error, and a group with an unknown member are errors.
LinkifyServices ==
    /\ stage = "linkify"
    /\ stage' = IF /\ errors \cap items = {}
                   /\ \A id \in items : \E h \in Hosts : objs[id].hosts = {h}
                   /\ \A g \in DOMAIN members : members[g] \subseteq Hosts
                THEN "correct" ELSE "incorrect"
    \* Services.clean leaves the index alone
    /\ items' = {id \in items : \E h \in Hosts : objs[id].hosts = {h}}
    /\ UNCHANGED <<conf, members, exploded, objs, index, deps, realm, errors, todo>>

\* Config.explode and load_config_file: the next pass.
NextPass ==
    /\ todo = {}
    /\ LET to(s, t) == stage' = s /\ todo' = t IN
       \/ stage = "hosts" /\ to("hostgroups", DOMAIN members)
       \/ stage = "hostgroups" /\ to("templates", {k \in DOMAIN conf.services : Definition(k).tpl})
       \/ stage = "templates" /\ to("items", items)
       \/ stage = "items" /\ to("duplicates", {id \in items : objs[id].dup})
       \/ stage = "duplicates" /\ to("excluded", {})
       \/ stage = "override" /\ to("realms", {})
       \/ stage = "hostgroup realms" /\ to("linkify", {})
    /\ UNCHANGED <<conf, members, exploded, objs, items, index, deps, realm, errors>>

\* The definitions are read: those that are not templates are items, with
\* no index yet.
Init ==
    /\ conf \in Configurations
    /\ members = [g \in DOMAIN conf.hostgroups |-> conf.hostgroups[g].members]
    /\ exploded = {}
    /\ objs = [k \in DOMAIN conf.services |-> Service(k, {})]
    /\ items = {k \in DOMAIN conf.services : ~Definition(k).tpl}
    /\ index = <<>>
    /\ deps = [k \in DOMAIN conf.services |-> IF Definition(k).dup THEN KeyMark ELSE ""]
    /\ realm = [h \in Hosts |-> [name |-> None, default |-> FALSE]]
    /\ errors = {}
    /\ todo = Hosts
    /\ stage = "hosts"

Next ==
    \/ \E h \in Hosts : ExplodeHost(h)
    \/ \E g \in DOMAIN members : ExplodeHostgroup(g)
    \/ ExplodeTemplate
    \/ ExplodeItem
    \/ ExplodeDuplicate
    \/ RemoveExcluded
    \/ apply_implicit_inheritance
    \/ \E h \in Hosts : OverrideHost(h)
    \/ linkify_h_by_realms
    \/ \E g \in DOMAIN members : LinkifyHostgroup(g)
    \/ LinkifyServices
    \/ NextPass

Spec == Init /\ [][Next]_vars

-----------------------------------------------------------------------------
(* What the definitions mean.                                              *)

RECURSIVE GroupsBelow(_, _)
GroupsBelow(S, n) ==
    IF n = 0 THEN S ELSE GroupsBelow(S \cup UNION {conf.hostgroups[g].groups : g \in S}, n - 1)

\* The hosts of a group: its own, those of the groups below it, and those
\* that name one of these.
MeantMembers(g) ==
    UNION {conf.hostgroups[x].members \cup {h \in Hosts : x \in conf.hosts[h].groups} :
             x \in GroupsBelow({g}, Cardinality(DOMAIN conf.hostgroups)) }

\* A tree has an operator, leaves and subtrees; a leaf may be taken away.
RECURSIVE MeantBy(_, _, _)
MeantBy(h, tree, tpl) ==
    LET holds(n) == CASE n = "*" -> TRUE
                      [] n # "*" /\ tpl -> n \in conf.hosts[h].tags
                      [] OTHER -> n \in DOMAIN conf.hostgroups /\ h \in MeantMembers(n)
        wanted == {i \in DOMAIN tree.leaves : ~tree.leaves[i].not}
        N == Cardinality(wanted) + Len(tree.sons)
        yes == Cardinality({i \in wanted : holds(tree.leaves[i].name)})
               + Cardinality({i \in DOMAIN tree.sons : MeantBy(h, tree.sons[i], tpl)})
    IN /\ \A i \in DOMAIN tree.leaves \ wanted : ~holds(tree.leaves[i].name)
       /\ yes > 0 /\ (tree.op = "&" => yes = N)

\* A host that a definition is for: by its groups or templates, or by name,
\* unless it is taken away further to the right.
MeantFor(h, k) ==
    LET d == Definition(k)
        T == DOMAIN d.names
        says(i) == ~d.names[i].not /\ d.names[i].name \in {h, "*"}
        takes(i) == d.names[i].not /\ d.names[i].name = h
    IN \/ MeantBy(h, d.tree, d.tpl) /\ (d.tpl \/ ~\E i \in T : takes(i))
       \/ ~d.tpl /\ \E i \in T : says(i) /\ \A j \in T : j > i => ~takes(j)

Descriptions(h, k) ==
    IF Definition(k).dup THEN {<<Definition(k).desc, x>> : x \in Range(conf.hosts[h].keys)
                                                              \ conf.hosts[h].not_keys}
    ELSE {<<Definition(k).desc, "">>}

\* "service_includes ... is considered before service_excludes" (host.rst).
Wants(h, desc) == IF conf.hosts[h].includes # <<>> THEN desc \in conf.hosts[h].includes[1]
                  ELSE desc \notin conf.hosts[h].excludes

DefinedBy(h, desc) == {k \in DOMAIN conf.services : MeantFor(h, k) /\ desc \in Descriptions(h, k)}
MeantServices ==
    UNION {{<<{h}, desc>> : desc \in {x \in Descriptions(h, k) : MeantFor(h, k) /\ Wants(h, x)}} :
             h \in Hosts, k \in DOMAIN conf.services}

\* No two definitions of the same order give a host the same service.
Untied ==
    \A k \in MeantServices : \A h \in k[1] : \A i, j \in DefinedBy(h, k[2]) :
        i # j => Definition(i).order # Definition(j).order

Created == stage \in {"implicit", "override", "realms", "hostgroup realms", "linkify", "correct"}
Got == {Key(objs[id]) : id \in {i \in items : \E h \in Hosts : objs[i].hosts = {h}}}

\* The services of the hosts are those that the definitions mean, no more
\* and, where no two definitions are tied, no less: through groups of groups,
\* expressions, templates of hosts, keys, and exclusions (Services.explode).
ServicesAreMeant ==
    Created => Got \subseteq MeantServices /\ (Untied => MeantServices \subseteq Got)

\* The service that is found by its name is the one with the lowest
\* definition_order of all those that are there (manage_conflict).
LowestIsFound ==
    Created => \A id \in items : Key(objs[id]) \in DOMAIN index =>
        objs[index[Key(objs[id])]].order <= objs[id].order

\* What a service is checked with: the last override of its host for it, its
\* own value, or that of its host (apply_implicit_inheritance and
\* override_properties come in this order, after all services are made).
OverridesWin ==
    stage \in {"realms", "correct"} => \A id \in Range(index) \cap items : \A h \in objs[id].hosts \cap Hosts :
        LET s == objs[id]
            o == conf.hosts[h].overrides
            hits == {i \in DOMAIN o : o[i].desc = "*" \/ <<o[i].desc, "">> = s.desc}
        IN s.val = CASE hits # {} -> o[Max(hits)].val
                     [] hits = {} /\ Definition(s.def).val # None -> Definition(s.def).val
                     [] OTHER -> conf.hosts[h].val

\* A host is in the realm that it names, or in that of one of its groups, or
\* in the default one, in whatever order the groups are linked.
RealmIsMeant ==
    stage \in {"linkify", "correct"} => \A h \in Hosts :
        LET own == conf.hosts[h].realm
            ofGroups == {conf.hostgroups[g].realm : g \in {x \in DOMAIN members : h \in MeantMembers(x)}}
                            \ {None}
        IN CASE own # None -> realm[h].name = own
             [] own = None /\ ofGroups # {} -> realm[h].name \in ofGroups
             [] OTHER -> realm[h].name = conf.default

=============================================================================
