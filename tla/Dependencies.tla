---------------------------- MODULE Dependencies ----------------------------
(***************************************************************************)
(* Dependencies between hosts and between services that are written in the *)
(* configuration (objects/hostdependency.py, objects/servicedependency.py, *)
(* the service_dependencies of services) or ordered by an external command,*)
(* and what they decide: whether an item may be checked                    *)
(* (objects/schedulingitem.py).                                            *)
(*                                                                         *)
(* A host is <<h>> and a service <<h, description>>.  A definition names   *)
(* fathers and sons by hosts, groups of hosts and descriptions; None is an *)
(* attribute that the definition does not have.                            *)
(***************************************************************************)
EXTENDS Integers, Sequences, FiniteSets, FiniteSetsExt, SequencesExt

CONSTANTS
    Setups,     \* the configurations
    States,     \* the states of an item; "o" is the good one
    None,
    MaxSteps    \* bound on the changes while running

VARIABLES
    setup,      \* hosts, groups, services, exclusions and definitions
    phase,
    todo,       \* the definitions that explode still has before it
    deps,       \* the dependencies <<father, son, data>> between two items
    errors,     \* the kinds of errors that were noted
    act, actOfMe,   \* act_depend_of and act_depend_of_me
    chk,        \* chk_depend_of
    sons,       \* child_dependencies of each item
    fathers,    \* parent_dependencies of each item
    state,      \* the state of each item
    valid,      \* whether the dependency period is valid now
    steps

links == <<act, actOfMe, chk, sons, fathers>>
vars == <<setup, phase, todo, deps, errors, links, state, valid, steps>>

Hosts == {<<h>> : h \in setup.hosts}
Items == Hosts \cup setup.services
OnGroups(names) == UNION {setup.groups[g] : g \in names \cap DOMAIN setup.groups}
Unknown(names) == names # None /\ ~(names \subseteq DOMAIN setup.groups)
Given(names) == IF names = None THEN {} ELSE names

\* What a dependency carries besides its two ends.
Data(d) == [exec |-> d.exec, notif |-> d.notif, inherits |-> d.inherits, period |-> d.period]

-----------------------------------------------------------------------------
(* From definitions to pairs of items.                                     *)

\* service_dependencies of a service is a list of hosts and descriptions in
\* turn; an empty host is that of the service.
PairsOf(s, list) ==
    LET father(k) == <<IF list[2 * k - 1] = "" THEN s[1] ELSE list[2 * k - 1], list[2 * k]>>
        standard == [exec |-> {"n"}, notif |-> {"u", "c", "w"}, inherits |-> TRUE, period |-> None]
    IN {<<father(k), s, standard>> : k \in 1..(Len(list) \div 2)}

register_service_dependencies ==
    /\ phase = "services"
    /\ deps' = UNION {PairsOf(s, setup.lists[s]) : s \in DOMAIN setup.lists}
    /\ phase' = "explode"
    /\ UNCHANGED <<setup, todo, errors, links, state, valid, steps>>

\* Every father with every son.  The error of an unknown group is noted on the
\* definition, which is deleted, and not on its copies.
explode_host(d) ==
    /\ deps' = deps \cup {<<<<h>>, <<s>>, Data(d)>> :
                            h \in OnGroups(Given(d.groups)) \cup Given(d.hosts),
                            s \in OnGroups(Given(d.depGroups)) \cup Given(d.depHosts)}
    /\ UNCHANGED <<phase, errors>>

\* Within each host of the groups.
explode_hostgroup(d) ==
    /\ deps' = deps \cup {<<<<h, f>>, <<h, s>>, Data(d)>> :
                            h \in OnGroups(d.groups), f \in d.descs, s \in d.depDescs}
    /\ errors' = IF Unknown(d.groups) THEN errors \cup {"group"} ELSE errors
    /\ UNCHANGED phase

\* The groups of the sons are those of the fathers by default.
DepGroups(d) == IF d.depGroups = None THEN Given(d.groups) ELSE d.depGroups
DepHosts(d) == IF d.depHosts = None THEN Given(d.hosts) ELSE d.depHosts

\* Every father with every son.  For an unknown group the error is added to
\* None, which ends the arbiter.  A definition without sons is left as it is,
\* and found wrong when it is linked.
explode_service(d) ==
    LET fs == {<<h, x>> : h \in OnGroups(Given(d.groups)) \cup Given(d.hosts), x \in d.descs}
        ss == {<<h, x>> : h \in OnGroups(DepGroups(d)) \cup DepHosts(d), x \in d.depDescs}
    IN IF Unknown(d.groups) \/ Unknown(DepGroups(d))
       THEN phase' = "crashed" /\ UNCHANGED <<deps, errors>>
       ELSE /\ deps' = deps \cup {<<f, s, Data(d)>> : f \in fs, s \in ss}
            /\ errors' = IF ss = {} THEN errors \cup {"nosons"} ELSE errors
            /\ UNCHANGED phase

explode ==
    /\ phase = "explode" /\ todo # <<>>
    /\ todo' = Tail(todo)
    /\ LET d == Head(todo) IN
       \/ d.kind = "host" /\ explode_host(d)
       \/ d.kind = "service" /\ d.explode /\ d.groups # None /\ explode_hostgroup(d)
       \/ d.kind = "service" /\ ~(d.explode /\ d.groups # None) /\ explode_service(d)
    /\ UNCHANGED <<setup, links, state, valid, steps>>

\* A host must exist.  A service that its host excludes takes the dependency
\* away with it, any other that is missing is an error.
Excluded(i) == Len(i) = 2 /\ i \in setup.excluded
Usable(d) == d[1] \in Items /\ d[2] \in Items
BadEnds == \E d \in deps : \/ d[2] \notin Items /\ ~Excluded(d[2])
                           \/ (d[2] \in Items) /\ (d[1] \notin Items) /\ ~Excluded(d[1])

Empty == [i \in Items |-> {}]
Link(i, d) == [on |-> i, exec |-> d.exec, notif |-> d.notif, inherits |-> d.inherits, period |-> d.period]

\* Every item knows what it depends on, and what depends on it.
linkify ==
    /\ phase = "explode" /\ todo = <<>>
    /\ LET good == {d \in deps : Usable(d)} IN
       /\ act' = [i \in Items |-> {Link(d[1], d[3]) : d \in {x \in good : x[2] = i}}]
       /\ chk' = act'
       /\ actOfMe' = [i \in Items |-> {Link(d[2], d[3]) : d \in {x \in good : x[1] = i}}]
       /\ sons' = [i \in Items |-> {d[2] : d \in {x \in good : x[1] = i}}]
       /\ fathers' = [i \in Items |-> {d[1] : d \in {x \in good : x[2] = i}}]
    /\ errors' = IF BadEnds THEN errors \cup {"ends"} ELSE errors
    /\ phase' = "check"
    /\ UNCHANGED <<setup, todo, deps, state, valid, steps>>

\* All that pairs lead to from a set.
RECURSIVE Reached(_, _)
Reached(from, pairs) ==
    LET more == {p[2] : p \in {q \in pairs : q[1] \in from}} \ from
    IN IF more = {} THEN from ELSE Reached(from \cup more, pairs)

\* no_loop_in_parents finds the loops.
Loop ==
    \E pairs \in {UNION {{<<i, d.on>> : d \in chk[i]} : i \in Items}} :
        \E i \in Items : i \in Reached({d.on : d \in chk[i]}, pairs)

is_correct ==
    /\ phase = "check"
    /\ phase' = IF errors = {} /\ ~Loop THEN "running" ELSE "refused"
    /\ UNCHANGED <<setup, todo, deps, errors, links, state, valid, steps>>

-----------------------------------------------------------------------------
(* Running.                                                                *)

InPeriod(d) == d.period = None \/ valid

\* The item itself, or what it depends on if the dependency inherits.
RECURSIVE do_i_raise_dependency(_, _, _)
do_i_raise_dependency(i, status, inherit_parents) ==
    \/ state[i] \in status
    \/ inherit_parents /\ \E d \in chk[i] : do_i_raise_dependency(d.on, d.exec, d.inherits) /\ InPeriod(d)

\* An item is not checked while something it depends on raises.
is_no_check_dependent(i) ==
    \E d \in chk[i] : InPeriod(d) /\ do_i_raise_dependency(d.on, d.exec, d.inherits)

Step == phase = "running" /\ steps < MaxSteps /\ steps' = steps + 1
still == <<setup, phase, todo, deps, errors>>

SetState(i, s) ==
    /\ Step /\ state[i] # s
    /\ state' = [state EXCEPT ![i] = s]
    /\ UNCHANGED <<still, links, valid>>

PeriodChanges ==
    /\ Step
    /\ valid' = ~valid
    /\ UNCHANGED <<still, links, state>>

is_linked_with_host(son, father) == \E d \in act[son] : d.on = father
Simple == [exec |-> {}, notif |-> {"w", "u", "d"}, inherits |-> TRUE, period |-> None]

\* An external command: the son depends on the father for its actions.
ADD_SIMPLE_HOST_DEPENDENCY(son, father) ==
    /\ Step /\ ~is_linked_with_host(son, father)
    /\ act' = [act EXCEPT ![son] = @ \cup {Link(father, Simple)}]
    /\ actOfMe' = [actOfMe EXCEPT ![father] = @ \cup {Link(son, Simple)}]
    /\ sons' = [sons EXCEPT ![father] = @ \cup {son}]
    /\ fathers' = [fathers EXCEPT ![son] = @ \cup {father}]
    /\ UNCHANGED <<still, chk, state, valid>>

\* On both sides; dependencies for checks stay.
del_host_act_dependency(son, father) ==
    /\ act' = [act EXCEPT ![son] = {d \in @ : d.on # father}]
    /\ actOfMe' = [actOfMe EXCEPT ![father] = {d \in @ : d.on # son}]
    /\ sons' = [sons EXCEPT ![father] = @ \ {son}]
    /\ fathers' = [fathers EXCEPT ![son] = @ \ {father}]

DEL_HOST_DEPENDENCY(son, father) ==
    /\ Step /\ is_linked_with_host(son, father)
    /\ del_host_act_dependency(son, father)
    /\ UNCHANGED <<still, chk, state, valid>>

Init ==
    /\ setup \in Setups
    /\ phase = "services"
    /\ todo = setup.definitions
    /\ deps = {} /\ errors = {}
    /\ act = Empty /\ actOfMe = Empty /\ chk = Empty /\ sons = Empty /\ fathers = Empty
    /\ state = [i \in Items |-> "o"]
    /\ valid = TRUE
    /\ steps = 0

Next ==
    \/ register_service_dependencies \/ explode \/ linkify \/ is_correct \/ PeriodChanges
    \/ \E i \in Items, s \in States : SetState(i, s)
    \/ \E i, j \in Hosts : i # j /\ (ADD_SIMPLE_HOST_DEPENDENCY(i, j) \/ DEL_HOST_DEPENDENCY(i, j))

Spec == Init /\ [][Next]_vars

-----------------------------------------------------------------------------
\* A definition of services means that a son depends on a father: on the same
\* host for a definition that is exploded by host, else on any hosts that are
\* named for both, where the sons take the names of the fathers if they have
\* none.
Means(d, f, s) ==
    LET on(hosts, groups, h) == \/ hosts # None /\ h \in hosts
                                \/ groups # None /\ \E g \in groups : g \in DOMAIN setup.groups
                                                                      /\ h \in setup.groups[g]
        isFather == on(d.hosts, d.groups, f[1])
        isSon == on(d.depHosts, d.depGroups, s[1])
    IN IF d.kind = "host" THEN Len(f) = 1 /\ Len(s) = 1 /\ isFather /\ isSon
       ELSE /\ Len(f) = 2 /\ Len(s) = 2 /\ f[2] \in d.descs /\ s[2] \in d.depDescs
            /\ IF d.explode /\ d.groups # None
               THEN f[1] = s[1] /\ on(None, d.groups, f[1])
               ELSE isFather /\ (\/ isSon \/ (d.depHosts = None /\ on(d.hosts, None, s[1]))
                                 \/ (d.depGroups = None /\ on(None, d.groups, s[1])))

\* In a configuration that is accepted, an item depends for its checks on
\* exactly those that the definitions mean.
DependsAsMeant ==
    phase = "running" =>
        \A s, f \in Items :
            (\E d \in chk[s] : d.on = f)
            <=> \/ \E k \in DOMAIN setup.definitions : Means(setup.definitions[k], f, s)
                \/ s \in DOMAIN setup.lists /\ \E d \in PairsOf(s, setup.lists[s]) : d[1] = f

\* An item is not checked exactly when a chain of dependencies, all of them in
\* their period and all but the last inheriting, leads to an item in a state
\* that the last of them fails for; no chain leads back.
BlockedByChain ==
    phase = "running" =>
        /\ ~Loop
        /\ \E entries \in {UNION {{<<i, d>> : d \in {x \in chk[i] : InPeriod(x)}} : i \in Items}} :
           \E next \in {{p \in entries \X entries : p[1][2].inherits /\ p[2][1] = p[1][2].on}} :
              \A i \in Items :
                is_no_check_dependent(i) <=>
                    \E b \in Reached({a \in entries : a[1] = i}, next) : state[b[2].on] \in b[2].exec

\* Whatever is added and removed, an item is in the list of those that depend
\* on another for their actions exactly when it lists the other, and then the
\* topology that is shown has the pair.
BothSidesKnow ==
    \A i, j \in Items :
        /\ (\E d \in act[i] : d.on = j) <=> (\E d \in actOfMe[j] : d.on = i)
        /\ (i \in sons[j]) <=> (j \in fathers[i])
        /\ (\E d \in act[i] : d.on = j) => i \in sons[j]
=============================================================================
