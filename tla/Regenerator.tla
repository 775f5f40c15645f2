---------------------------- MODULE Regenerator ----------------------------
(***************************************************************************)
(* The copy of the objects that a module of the broker keeps:              *)
(* misc/regenerator.py.                                                    *)
(*                                                                         *)
(* Every scheduler sends the initial broks of its instance, and then       *)
(* updates; the broker mixes the streams of the schedulers.  The objects   *)
(* of an instance are collected apart (inp) and linked with all the others *)
(* when its initial broks are done.  A new configuration may move a host   *)
(* to another instance, and its broks may come at any time.                *)
(*                                                                         *)
(* An object is the host or service of an instance, with the id that the   *)
(* arbiter gave it and a number, that of the program_status brok it came   *)
(* after: linking is about which object a name stands for.  The containers *)
(* Hosts and Services keep their items by id and index them by name.       *)
(***************************************************************************)
EXTENDS Integers, Sequences, FiniteSets, FiniteSetsExt, SequencesExt

CONSTANTS
    Instances,      \* the instances of schedulers
    Configurations, \* the configurations of the arbiter
    Taken,          \* the counts of broks that the broker may have taken
    MaxConfs,       \* bound on the configurations of a behaviour
    MaxUpdates      \* bound on the updates of hosts

VARIABLES
    conf,       \* the current configuration, and how many there were
    version,    \* the state of each host, in its scheduler
    streams,    \* the broks on the way, for each instance
    round,      \* how many program_status broks of each instance were read
    configs,    \* the instances in configs
    inp,        \* the in progress objects of each instance, or {} for no tables
    hosts,      \* the container of the hosts
    services,   \* the container of the services, named <<host, description>>
    attrs,      \* what each host object holds
    hostOf,     \* the host attribute of each service object
    hostgroups, \* name -> objects
    servicegroups,  \* name -> objects
    contactgroups,  \* name -> contacts
    known,      \* the commands, contacts, timeperiods and satellites
    onHost,     \* the services attribute of each host object
    history     \* the newest configuration that was linked, whether an older
                \* one was linked after it, whether an id was of two names

regen == <<round, configs, inp, hosts, services, attrs, hostOf, hostgroups, servicegroups, contactgroups,
           known, onHost>>
vars == <<conf, version, streams, regen, history>>

Add(f, k, v) == [x \in DOMAIN f \cup {k} |-> IF x = k THEN v ELSE f[x]]
Without(f, k) == [x \in DOMAIN f \ {k} |-> f[x]]
At(f, k) == IF k \in DOMAIN f THEN f[k] ELSE {}

-----------------------------------------------------------------------------
(* The schedulers.                                                         *)

Brok(type, name, data) == [type |-> type, name |-> name, data |-> data]
HostsOf(c, i) == {h \in DOMAIN c.hosts : c.hosts[h].instance = i}

\* The groups of a configuration that have a host of the instance, by name.
GroupsOf(c, i) == UNION {c.hosts[h].groups : h \in HostsOf(c, i)}

\* fill_initial_broks: program_status, then the objects by type, then
\* initial_broks_done.
InitialBroks(c, i) ==
    LET seq(S, F(_)) == LET q == SetToSeq(S) IN [k \in DOMAIN q |-> F(q[k])]
        H == HostsOf(c, i)
        data(h) == [c.hosts[h] EXCEPT !.version = version[h]]
        sid(s) == [id |-> <<c.hosts[s[1]].id, s[2]>>, groups |-> c.hosts[s[1]].groups]
        Needed(kind) == {n \in UNION {c.hosts[h].needs : h \in H} : n.kind = kind}
    IN <<Brok("program_status", i, {})>>
       \o seq(Needed("timeperiod"), LAMBDA n : Brok("initial_timeperiod_status", n, {}))
       \o seq(Needed("command"), LAMBDA n : Brok("initial_command_status", n, {}))
       \o seq(Needed("contact"), LAMBDA n : Brok("initial_contact_status", n, {}))
       \o seq(GroupsOf(c, i), LAMBDA g : Brok("initial_contactgroup_status", g, c.contacts))
       \o seq(H, LAMBDA h : Brok("initial_host_status", h, data(h)))
       \o seq(GroupsOf(c, i), LAMBDA g :
              Brok("initial_hostgroup_status", g, {h \in H : g \in c.hosts[h].groups}))
       \o seq({<<h, d>> : h \in H, d \in c.services}, LAMBDA s :
              Brok("initial_service_status", s, sid(s)))
       \o <<Brok("initial_broks_done", i, conf.number + 1)>>

\* The arbiter sends a new configuration; every scheduler starts over.  The
\* broks that the broker took before stay in front, the others are lost with
\* the queue of the scheduler.
NewConfiguration(c, taken) ==
    /\ conf.number < MaxConfs
    /\ conf' = [value |-> c, number |-> conf.number + 1]
    /\ streams' = [i \in Instances |-> SubSeq(streams[i], 1, taken[i]) \o InitialBroks(c, i)]
    /\ UNCHANGED <<version, regen, history>>

\* A check result, or another change of a host.
UpdateHost(h) ==
    /\ h \in DOMAIN conf.value.hosts /\ conf.number > 0
    /\ \A x \in DOMAIN version : version[x] < MaxUpdates
    /\ version' = [version EXCEPT ![h] = @ + 1]
    /\ streams' = [streams EXCEPT ![conf.value.hosts[h].instance] =
                     Append(@, Brok("update_host_status", h, version'[h]))]
    /\ UNCHANGED <<conf, regen, history>>

-----------------------------------------------------------------------------
(* The containers.                                                         *)

NoItems == [items |-> <<>>, index |-> <<>>]

\* Out of the index by its name and out of the items by its id, whatever is
\* found there.
remove_item(c, o) == [items |-> Without(c.items, o.id), index |-> Without(c.index, o.name)]

\* Another item of the name makes place, as both have the default order.
add_item(c, o) ==
    LET d == IF o.name \in DOMAIN c.index /\ c.index[o.name].id # o.id
             THEN remove_item(c, c.index[o.name]) ELSE c
    IN [items |-> Add(d.items, o.id, o), index |-> Add(d.index, o.name, o)]

-----------------------------------------------------------------------------
(* The initial broks.                                                      *)

Object(i, name, id) == [instance |-> i, round |-> round[i], name |-> name, id |-> id]
Tables == [hosts |-> <<>>, services |-> <<>>, hostgroups |-> <<>>, contactgroups |-> <<>>]

\* Mutant: the members of the groups stay.
ForgetGroupsKept(groups, i) == groups

\* Exclude from the members those of the instance.
ForgetGroups(groups, i) == [g \in DOMAIN groups |-> {o \in groups[g] : o.instance # i}]

\* The items of the instance are removed.
Forget(c, i) ==
    FoldSet(LAMBDA o, d : remove_item(d, o), c,
            {o \in {c.items[k] : k \in DOMAIN c.items} : o.instance = i})

\* New in progress tables, and all that the instance had is removed.
manage_program_status_brok(i) ==
    /\ round' = [round EXCEPT ![i] = @ + 1]
    /\ configs' = configs \cup {i}
    /\ inp' = [inp EXCEPT ![i] = {Tables}]
    /\ hosts' = Forget(hosts, i)
    /\ services' = Forget(services, i)
    /\ hostgroups' = ForgetGroups(hostgroups, i)
    /\ servicegroups' = ForgetGroups(servicegroups, i)
    /\ UNCHANGED <<attrs, hostOf, contactgroups, known, onHost>>

\* A brok of a type that is collected, for a table of the instance.
Collect(i, table, name, value) ==
    /\ inp' = [inp EXCEPT ![i] = {[t EXCEPT ![table] = Add(@, name, value)] : t \in @}]
    /\ UNCHANGED <<round, configs, hosts, services, attrs, hostOf, hostgroups,
                   servicegroups, contactgroups, known, onHost>>

manage_initial_host_status_brok(i, b) == Collect(i, "hosts", b.name, b.data)
manage_initial_hostgroup_status_brok(i, b) == Collect(i, "hostgroups", b.name, b.data)
manage_initial_service_status_brok(i, b) == Collect(i, "services", b.name, b.data)
manage_initial_contactgroup_status_brok(i, b) == Collect(i, "contactgroups", b.name, b.data)

\* Timeperiods, commands and contacts are for all instances: they are updated
\* in place or created.
Know(b) ==
    /\ known' = known \cup {b.name}
    /\ UNCHANGED <<round, configs, inp, hosts, services, attrs, hostOf, hostgroups, servicegroups,
                   contactgroups, onHost>>

manage_initial_timeperiod_status_brok(b) == Know(b)
manage_initial_command_status_brok(b) == Know(b)

\* A contact, and its notification ways: with the commands and timeperiods
\* that are known.
manage_initial_contact_status_brok(b) == Know(b)

-----------------------------------------------------------------------------
(* all_done_linking, in the order of the code.                             *)

HostObject(i, t, h) == Object(i, h, t.hosts[h].id)
ServiceObject(i, t, s) == Object(i, s, t.services[s].id)

\* The members that the instance has, added to those of a group that exists.
MergeHostgroups(i, t) ==
    [g \in DOMAIN hostgroups \cup DOMAIN t.hostgroups |->
        At(hostgroups, g) \cup {HostObject(i, t, h) : h \in At(t.hostgroups, g) \cap DOMAIN t.hosts}]

\* A host of this name that is there already is removed first.
LinkHosts(i, t) ==
    FoldSet(LAMBDA h, c : add_item(IF h \in DOMAIN c.index THEN remove_item(c, c.index[h]) ELSE c,
                                   HostObject(i, t, h)),
            hosts, DOMAIN t.hosts)

\* Host groups by name, commands, timeperiods and contacts as far as they are
\* known.
HostAttributes(t, h, groups) ==
    [groups |-> t.hosts[h].groups \cap DOMAIN groups, needs |-> t.hosts[h].needs \cap known,
     version |-> t.hosts[h].version]

\* The members of a service group are found by their id.
MergeServicegroups(i, t) ==
    LET G == UNION {t.services[s].groups : s \in DOMAIN t.services} IN
    [g \in DOMAIN servicegroups \cup G |->
        At(servicegroups, g)
        \cup {ServiceObject(i, t, s) : s \in {x \in DOMAIN t.services : g \in t.services[x].groups}}]

\* The host that has the name now.
HostOfService(s, linked) == IF s[1] \in DOMAIN linked.index THEN {linked.index[s[1]]} ELSE {}

LinkServices(i, t) ==
    FoldSet(LAMBDA s, c : add_item(c, ServiceObject(i, t, s)), services, DOMAIN t.services)

\* A service with the same description takes the place of the one before.
LinkOnHosts(i, t, linked) ==
    LET H == UNION {HostOfService(s, linked) : s \in DOMAIN t.services}
    IN [o \in DOMAIN onHost \cup H |->
          LET mine == {s \in DOMAIN t.services : o \in HostOfService(s, linked)}
          IN {x \in At(onHost, o) : x.name \notin mine} \cup {ServiceObject(i, t, s) : s \in mine}]

MergeContactgroups(i, t) ==
    [g \in DOMAIN contactgroups \cup DOMAIN t.contactgroups |->
        At(contactgroups, g) \cup At(t.contactgroups, g)]

\* Nothing is linked for an instance that has no program_status or no tables.
all_done_linking(i) ==
    IF i \notin configs \/ inp[i] = {} THEN UNCHANGED regen
    ELSE /\ \E t \in inp[i] :
              /\ hostgroups' = MergeHostgroups(i, t)
              /\ hosts' = LinkHosts(i, t)
              /\ servicegroups' = MergeServicegroups(i, t)
              /\ services' = LinkServices(i, t)
              /\ attrs' = [h \in {HostObject(i, t, x) : x \in DOMAIN t.hosts} |->
                             HostAttributes(t, h.name, hostgroups')]
                          @@ attrs
              /\ hostOf' = [s \in {ServiceObject(i, t, x) : x \in DOMAIN t.services} |->
                              HostOfService(s.name, hosts')]
                           @@ hostOf
              /\ onHost' = LinkOnHosts(i, t, hosts')
              /\ contactgroups' = MergeContactgroups(i, t)
         /\ inp' = [inp EXCEPT ![i] = {}]
         /\ UNCHANGED <<round, configs, known>>

-----------------------------------------------------------------------------
(* Updates.                                                                *)

\* The data of a host that is known is replaced, its links are not; an
\* unknown one is ignored.
manage_update_host_status_brok(b) ==
    /\ attrs' = IF b.name \in DOMAIN hosts.index
                THEN [attrs EXCEPT ![hosts.index[b.name]].version = b.data] ELSE attrs
    /\ UNCHANGED <<round, configs, inp, hosts, services, hostOf, hostgroups,
                   servicegroups, contactgroups, known, onHost>>

\* The broker gives the next brok of an instance to the module.
manage_brok(i) ==
    /\ streams[i] # <<>>
    /\ streams' = [streams EXCEPT ![i] = Tail(@)]
    /\ LET b == Head(streams[i]) IN
       \/ b.type = "program_status" /\ manage_program_status_brok(i)
       \/ b.type = "initial_host_status" /\ manage_initial_host_status_brok(i, b)
       \/ b.type = "initial_hostgroup_status" /\ manage_initial_hostgroup_status_brok(i, b)
       \/ b.type = "initial_service_status" /\ manage_initial_service_status_brok(i, b)
       \/ b.type = "initial_contactgroup_status" /\ manage_initial_contactgroup_status_brok(i, b)
       \/ b.type = "initial_timeperiod_status" /\ manage_initial_timeperiod_status_brok(b)
       \/ b.type = "initial_command_status" /\ manage_initial_command_status_brok(b)
       \/ b.type = "initial_contact_status" /\ manage_initial_contact_status_brok(b)
       \/ b.type = "initial_broks_done" /\ all_done_linking(i)
       \/ b.type = "update_host_status" /\ manage_update_host_status_brok(b)
    /\ history' = LET b == Head(streams[i]) IN
                  IF b.type # "initial_broks_done" THEN history
                  ELSE [newest |-> Max({b.data, history.newest}),
                        late |-> history.late \/ b.data < history.newest,
                        clash |-> history.clash \/ \E t \in inp[i] : \E h \in DOMAIN t.hosts :
                                    /\ t.hosts[h].id \in DOMAIN hosts.items
                                    /\ hosts.items[t.hosts[h].id].name # h]
    /\ UNCHANGED <<conf, version>>

Init ==
    /\ conf = [value |-> [hosts |-> <<>>, services |-> {}, contacts |-> {}], number |-> 0]
    /\ version = [h \in UNION {DOMAIN c.hosts : c \in Configurations} |-> 0]
    /\ streams = [i \in Instances |-> <<>>]
    /\ round = [i \in Instances |-> 0]
    /\ configs = {} /\ inp = [i \in Instances |-> {}]
    /\ hosts = NoItems /\ services = NoItems /\ attrs = <<>> /\ hostOf = <<>> /\ hostgroups = <<>> /\ servicegroups = <<>>
    /\ contactgroups = <<>> /\ known = {} /\ onHost = <<>>
    /\ history = [newest |-> 0, late |-> FALSE, clash |-> FALSE]

Next ==
    \/ \E c \in Configurations, taken \in [Instances -> Taken] :
          (\A i \in Instances : taken[i] <= Len(streams[i])) /\ NewConfiguration(c, taken)
    \/ \E h \in DOMAIN version : UpdateHost(h)
    \/ \E i \in Instances : manage_brok(i)

Spec == Init /\ [][Next]_vars

-----------------------------------------------------------------------------
\* Every instance has sent all its broks, none came so late that an older
\* configuration was linked after a newer one, and no host came with the id
\* that another one still had.
Settled ==
    /\ conf.number > 0 /\ ~history.late /\ ~history.clash
    /\ \A i \in Instances : streams[i] = <<>>
Mine(h) == conf.value.hosts[h]
Shown(c) == {c.items[k] : k \in DOMAIN c.items}

\* When every instance has sent all its broks, in whatever order those of two
\* instances came, the hosts and services that are shown are those of the
\* configuration, found by their names, each of its instance and in its last
\* state.
ShownIsConfigured ==
    Settled =>
        /\ DOMAIN hosts.index = DOMAIN conf.value.hosts
        /\ Shown(hosts) = {hosts.index[h] : h \in DOMAIN hosts.index}
        /\ \A o \in Shown(hosts) : /\ o.instance = Mine(o.name).instance
                                   /\ attrs[o].version = version[o.name]
                                   /\ attrs[o].needs = Mine(o.name).needs
        /\ {s.name : s \in Shown(services)} = {<<h, d>> : h \in DOMAIN hosts.index,
                                                         d \in conf.value.services}

\* Then the members of a group of hosts are the hosts that are shown, one
\* object for each, though hosts change their instance and their groups.
GroupsAreRight ==
    Settled =>
        /\ \A g \in DOMAIN hostgroups :
              hostgroups[g] = {o \in Shown(hosts) : g \in Mine(o.name).groups}
        /\ \A g \in DOMAIN servicegroups :
              servicegroups[g] = {o \in Shown(services) : g \in Mine(o.name[1]).groups}

\* Then a service is on the host that is shown under its name, and the host
\* has it, once, among its services.
LinksAreCurrent ==
    Settled => \A s \in Shown(services) :
        /\ hostOf[s] = {hosts.index[s.name[1]]}
        /\ {o \in onHost[hosts.index[s.name[1]]] : o.name = s.name} = {s}
=============================================================================
