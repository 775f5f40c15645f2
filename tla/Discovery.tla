----------------------------- MODULE Discovery -----------------------------
(***************************************************************************)
(* The discovery program (shinken/discovery/discoverymanager.py with        *)
(* objects/discoveryrule.py, discoveryrun.py and matchingitem.py): scripts  *)
(* (runs) print "host::key=value" lines, rules that match what is known of  *)
(* a host say which properties it gets, what a host gets may make further   *)
(* runs match it, and in the end the hosts and their services are written.  *)
(*                                                                         *)
(* A value "a,b" is a sequence of items and a pattern is one item; no item  *)
(* of the model is a part of another one, as Python's "in" on the strings   *)
(* and re.search would see.  The program is modelled as its launcher        *)
(* bin/shinken-discovery, a Python 2 script, calls it.                      *)
(***************************************************************************)
EXTENDS Integers, SequencesExt

CONSTANTS
    Setups,     \* what the program can be started with
    Props,      \* the keys that are properties of hosts and services, and use
    Macros,     \* the keys that begin with _
    BaseName,   \* the name of each host up to the first dot
    None

VARIABLES
    setup,      \* the rules, the runs, the options and what the scripts print
    phase,      \* where the program is
    disco_data, \* the hosts found, by the name they were found under
    launch,     \* the current_launch of each run
    todo,       \* the hosts still to visit in this turn of loop_discovery
    still_loop, \* a host of this turn had something to run
    said,       \* what was printed of each host by the runs for it or for everybody
    files,      \* the configuration files of the output directory
    db          \* the hosts of the two tables of the database

vars == <<setup, phase, disco_data, launch, todo, still_loop, said, files, db>>

Empty == [k \in {} |-> <<>>]
\* F(x), with x evaluated once.
Once(x, F(_)) == CHOOSE r \in {F(v) : v \in {x}} : TRUE
Put(f, k, v) == [x \in DOMAIN f \cup {k} |-> IF x = k THEN v ELSE f[x]]

(***************************************************************************)
(* Rules and runs.  A parameter of a rule is [op, key, v]: op is the sign   *)
(* in front of the key ("" for none).                                       *)
(***************************************************************************)
IsWritten(p) == p.op \in {"+", "-"} \/ (p.op = "" /\ p.key \in Props \cup Macros)
ByKey(params) ==
    [k \in {p.key : p \in ToSet(params)} |->
        UNION {ToSet(p.v) : p \in {q \in ToSet(params) : q.key = k}}]

\* A rule of an unknown creation_type keeps nothing of its parameters: it
\* matches every host something is known of, and writes nothing.
Discoveryrule(def) ==
    LET params == IF def.type \in {"host", "service"} THEN def.params ELSE <<>>
        Tests(op) == SelectSeq(params, LAMBDA p : ~IsWritten(p) /\ p.op = op)
    IN  [name |-> def.name, order |-> def.order,
         type |-> IF def.type = "host" THEN "host" ELSE "service",
         writes |-> SelectSeq(params, IsWritten),
         matches |-> ByKey(Tests("")), not_matches |-> ByKey(Tests("!"))]

Discoveryrun(def) ==
    [name |-> def.name,
     matches |-> ByKey(SelectSeq(def.params, LAMBDA p : p.op # "!")),
     not_matches |-> ByKey(SelectSeq(def.params, LAMBDA p : p.op = "!"))]

\* The configuration is read once, when the program starts.
Configured(s) ==
    [s EXCEPT !.rules = [i \in DOMAIN s.rules |-> Discoveryrule(s.rules[i])],
              !.runs = [i \in DOMAIN s.runs |-> Discoveryrun(s.runs[i])]]
Rules == setup.rules
Runs == setup.runs
RunNames == {Runs[i].name : i \in DOMAIN Runs}
RunOf(name) == Runs[CHOOSE i \in DOMAIN Runs : Runs[i].name = name]

is_matching(patterns, value) == patterns \cap ToSet(value) # {}

is_matching_disco_datas(item, datas) ==
    /\ datas # Empty
    /\ \A k \in DOMAIN item.matches :
           k \in DOMAIN datas /\ is_matching(item.matches[k], datas[k])
    /\ \A k \in DOMAIN item.not_matches \cap DOMAIN datas :
           ~is_matching(item.not_matches[k], datas[k])

is_first_level(r) == DOMAIN r.matches \cup DOMAIN r.not_matches = {}

is_allowing_runners(name) == "*" \in setup.allowed \/ name \in setup.allowed

(***************************************************************************)
(* DiscoveredHost.update_properties.  Until they are joined at the end, a   *)
(* property is a list when a rule made it and a string when it is data:     *)
(* only a list can be appended to or taken from, a string raises.           *)
(***************************************************************************)
\* The items of one written property are added to kprop: for a "-" key it is
\* the property the loop handled before, of this rule or of an earlier one.
AddTo(acc, w) ==
    LET kprop == IF w.op = "-" THEN acc.kprop ELSE w.key
        d == CASE w.op = "+" /\ kprop \notin DOMAIN acc.d ->
                      Put(acc.d, kprop, [list |-> TRUE, v |-> <<>>])
               [] w.op = "" -> Put(acc.d, kprop, [list |-> TRUE, v |-> <<>>])
               [] OTHER -> acc.d
        new == SelectSeq(w.v, LAMBDA p : p \notin ToSet(d[kprop].v))
    IN  IF ~acc.ok \/ kprop \notin DOMAIN d \/ (~d[kprop].list /\ new # <<>>)
        THEN [acc EXCEPT !.ok = FALSE]
        ELSE [ok |-> TRUE, kprop |-> kprop, d |-> [d EXCEPT ![kprop].v = @ \o new]]

RemoveFrom(acc, w) ==
    IF ~acc.ok \/ w.op # "-" \/ w.key \notin DOMAIN acc.d
    THEN [acc EXCEPT !.kprop = IF acc.ok /\ w.op = "-" THEN w.key ELSE @]
    ELSE LET there == ToSet(w.v) \cap ToSet(acc.d[w.key].v)
         IN  [ok |-> there = {} \/ acc.d[w.key].list, kprop |-> w.key,
              d |-> [acc.d EXCEPT ![w.key].v =
                         SelectSeq(@, LAMBDA p : p \notin there)]]

WriteRule(acc, r) ==
    FoldLeft(LAMBDA a, w : Once(a, LAMBDA b : RemoveFrom(b, w)),
             FoldLeft(LAMBDA a, w : Once(a, LAMBDA b : AddTo(b, w)), acc, r.writes),
             r.writes)

by_order(matched) ==
    LET placed == SortSeq([i \in DOMAIN matched |-> <<matched[i].order, i>>],
                          LAMBDA x, y : x[1] < y[1] \/ (x[1] = y[1] /\ x[2] < y[2]))
    IN  [i \in DOMAIN matched |-> matched[placed[i][2]]]

update_properties(dh, final_phase) ==
    LET kept == IF final_phase THEN DOMAIN dh.data \cap Macros ELSE DOMAIN dh.data
        text == [k \in kept |-> [list |-> FALSE, v |-> dh.data[k]]]
        named == Put(text, "host_name", [list |-> FALSE, v |-> <<dh.name>>])
        d == IF "ip" \in DOMAIN dh.data
             THEN Put(named, "address", [list |-> FALSE, v |-> dh.data["ip"]])
             ELSE named
        Apply(sorted) ==
            Once(FoldLeft(LAMBDA a, r : Once(a, LAMBDA b : WriteRule(b, r)),
                          [ok |-> TRUE, kprop |-> None, d |-> d], sorted),
                 LAMBDA end : [dh EXCEPT !.ok = @ /\ end.ok,
                                  !.matched_rules = sorted,
                                  !.properties = [k \in DOMAIN end.d |-> end.d[k].v]])
    IN  Once(by_order(dh.matched_rules), Apply)

DiscoveredHost(name) ==
    [name |-> name, data |-> Empty, matched_rules |-> <<>>, launched |-> {},
     in_progress |-> {}, properties |-> Empty, ok |-> TRUE]

(***************************************************************************)
(* Matching, and reading what the scripts print                             *)
(***************************************************************************)

match_rules(dh) ==
    update_properties(
        [dh EXCEPT !.matched_rules = @ \o SelectSeq(Rules, LAMBDA r :
            r \notin ToSet(dh.matched_rules) /\ is_matching_disco_datas(r, dh.data))],
        FALSE)

\* A line is [name, key, v]; key is None when the line has no "=".
NameOf(name, strip) == IF strip THEN BaseName[name] ELSE name

ManagerReads(hosts, l) ==
    LET name == NameOf(l.name, setup.strip)
        known == IF name \in DOMAIN hosts THEN hosts
                 ELSE Put(hosts, name, DiscoveredHost(name))
    IN  IF l.key = None THEN known ELSE [known EXCEPT ![name].data = Put(@, l.key, l.v)]

\* A host strips the names whatever the configuration says, leaves what is of
\* another host, and in merge mode takes its name instead.
HostReads(dh, l) ==
    LET name == NameOf(l.name, TRUE)
        mine == IF setup.merge THEN [dh EXCEPT !.name = name] ELSE dh
    IN  IF l.key = None \/ mine.name # name THEN mine
        ELSE [mine EXCEPT !.data = Put(@, l.key, l.v)]

get_to_run(dh) ==
    IF setup.first_level_only THEN {}
    ELSE {r \in RunNames \ dh.launched :
             /\ ~is_first_level(RunOf(r))
             /\ is_matching_disco_datas(RunOf(r), dh.properties)}

\* The outputs of the runs, in the order the runs are defined in.
Gathered(rs) ==
    FoldLeft(LAMBDA buf, r : IF r.name \in rs THEN buf \o launch[r.name].out ELSE buf,
             <<>>, Runs)
is_finished(r) == launch[r].status # "running"

(***************************************************************************)
(* Writing.  write_config first merges the hosts that have taken the same   *)
(* name: the macros two of them have with different values are joined in    *)
(* the first, and the second one is to be deleted, once for every such      *)
(* macro.                                                                   *)
(***************************************************************************)
Join(dha, dhb) ==
    {k \in Macros \cap DOMAIN dha.properties \cap DOMAIN dhb.properties :
        dha.properties[k] # dhb.properties[k]}

MergeInto(acc, name, oname) ==
    LET dha == acc.hosts[name]
        dhb == acc.hosts[oname]
        ks == Join(dha, dhb)
        data == [k \in DOMAIN dha.data \cup ks |->
                    IF k \in ks THEN dha.properties[k] \o dhb.properties[k]
                    ELSE dha.data[k]]
    IN  IF dha.name # dhb.name \/ dha.properties = dhb.properties THEN acc
        ELSE [hosts |-> [acc.hosts EXCEPT ![name] =
                            update_properties([dha EXCEPT !.data = data], FALSE)],
              del |-> acc.del \o [i \in 1..Cardinality(ks) |-> oname]]

\* A host always meets itself in the inner loop, so there is one turn.
Merged(order) ==
    FoldLeft(LAMBDA acc0, name : Once(acc0, LAMBDA acc :
                IF name \in ToSet(acc.del) THEN acc
                ELSE FoldLeft(LAMBDA a, oname : Once(a, LAMBDA b : MergeInto(b, name, oname)),
                              acc, order)),
             [hosts |-> disco_data, del |-> <<>>], order)

\* A file is <<directory, name>>; it is left alone when it is already there.
WriteFile(fs, file, content) ==
    IF file \in DOMAIN fs /\ ~setup.overwrite THEN fs ELSE Put(fs, file, content)

write_host_config(out, dh) ==
    [out EXCEPT !.files = WriteFile(@, <<dh.name, dh.name>>,
                                    update_properties(dh, TRUE).properties)]

\* only_new_hosts looks twice into the table that is written.
write_host_config_to_db(out, dh) ==
    LET table == IF setup.direct THEN "hosts" ELSE "discovered_hosts"
        known == dh.name \in DOMAIN out.db[table]
    IN  IF ~setup.db \/ (known /\ (~setup.overwrite \/ setup.only_new)) THEN out
        ELSE [out EXCEPT !.db[table] =
                 Put(@, dh.name, update_properties(dh, TRUE).properties)]

\* The services are written under the name the host was found by, and only
\* when a file of the host is there.
ServicesOf(dh) ==
    {w.v[1] : w \in UNION {{u \in ToSet(r.writes) : u.op = "" /\ u.key = "service_description"} :
                 r \in {x \in ToSet(dh.matched_rules) : x.type = "service"}}}
write_service_config(out, host, dh) ==
    IF <<host, host>> \notin DOMAIN out.files THEN out
    ELSE [out EXCEPT !.files =
             FoldSet(LAMBDA desc, fs : WriteFile(fs, <<host, desc>>,
                         Put(Empty, "service_description", <<desc>>)),
                     @, ServicesOf(dh))]

WriteOne(out, name, dh) ==
    write_service_config(write_host_config_to_db(write_host_config(out, dh), dh), name, dh)

(***************************************************************************)
(* The program                                                              *)
(***************************************************************************)
NoLaunch == [status |-> "none", out |-> <<>>, for |-> None]

\* EventHandler.execute of the run's command, for a host or for nobody.
Launched(rs, host) ==
    [r \in DOMAIN launch |-> IF r \in rs THEN [status |-> "running", out |-> <<>>, for |-> host]
                             ELSE launch[r]]

launch_runners ==
    /\ phase = "start"
    /\ launch' = Launched({r \in RunNames : is_allowing_runners(r)}, None)
    /\ phase' = "wait"
    /\ UNCHANGED <<setup, disco_data, todo, still_loop, said, files, db>>

\* What a script prints is its answer for the host it runs for; one that ends
\* late is stopped and nothing of it is kept.
RunEnds ==
    \E r \in RunNames, timeout \in BOOLEAN :
        /\ launch[r].status = "running"
        /\ launch' = [launch EXCEPT ![r] =
               IF timeout THEN [@ EXCEPT !.status = "timeout"]
               ELSE [@ EXCEPT !.status = "done", !.out = setup.prints[r][launch[r].for]]]
        /\ UNCHANGED <<setup, phase, disco_data, todo, still_loop, said, files, db>>

Crashed == phase' = "crashed"

\* What the runs for everybody said of anyone, and a host's own runs of it.
Says(rs, host) ==
    said \cup {l \in ToSet(Gathered(rs)) : host = None \/ BaseName[l.name] = host}

FirstResults ==
    LET rs == {r \in RunNames : is_allowing_runners(r)}
    IN  /\ phase = "wait"
        /\ \A r \in rs : is_finished(r)
        /\ \E read \in {FoldLeft(ManagerReads, disco_data, Gathered(rs))} :
               disco_data' = [n \in DOMAIN read |-> match_rules(read[n])]
        /\ said' = Says(rs, None)
        /\ todo' = DOMAIN disco_data'
        /\ IF \E n \in DOMAIN disco_data' : ~disco_data'[n].ok THEN Crashed
           ELSE phase' = "loop"
        /\ UNCHANGED <<setup, launch, still_loop, files, db>>

\* loop_discovery for one host: what matches it is launched.
Visit(n) ==
    /\ phase = "loop"
    /\ n \in todo
    /\ \E dh \in {update_properties(disco_data[n], FALSE)} :
       \E rs \in {get_to_run(dh)} :
          /\ disco_data' = [disco_data EXCEPT ![n] =
                               [dh EXCEPT !.in_progress = rs, !.launched = @ \cup rs]]
          /\ launch' = Launched(rs, n)
          /\ still_loop' = (still_loop \/ rs # {})
          /\ todo' = todo \ {n}
          /\ IF ~dh.ok THEN Crashed ELSE phase' = IF rs = {} THEN "loop" ELSE n
    /\ UNCHANGED <<setup, said, files, db>>

HostResults(n) ==
    /\ phase = n
    /\ \A r \in disco_data[n].in_progress : is_finished(r)
    /\ \E rs \in {disco_data[n].in_progress} :
       \E dh \in {match_rules(FoldLeft(LAMBDA a, l : Once(a, LAMBDA b : HostReads(b, l)), disco_data[n], Gathered(rs)))} :
          /\ disco_data' = [disco_data EXCEPT ![n] = dh]
          /\ said' = Says(rs, n)
          /\ IF dh.ok THEN phase' = "loop" ELSE Crashed
    /\ UNCHANGED <<setup, launch, todo, still_loop, files, db>>

NextTurn ==
    /\ phase = "loop"
    /\ todo = {}
    /\ still_loop
    /\ still_loop' = FALSE
    /\ todo' = DOMAIN disco_data
    /\ UNCHANGED <<setup, phase, disco_data, launch, said, files, db>>

\* The order the hosts come in is the dictionary's.
write_config ==
    /\ phase = "loop"
    /\ todo = {}
    /\ ~still_loop
    /\ \E order \in SetToSeqs(DOMAIN disco_data) :
       \E m \in {Merged(order)} :
          LET left == SelectSeq(order, LAMBDA n : n \notin ToSet(m.del))
              out == FoldLeft(LAMBDA o, n : Once(o, LAMBDA u : WriteOne(u, n, m.hosts[n])),
                              [files |-> files, db |-> db], left)
          IN  IF ~IsInjective(m.del) \/ \E n \in DOMAIN m.hosts : ~m.hosts[n].ok
              THEN Crashed /\ UNCHANGED <<disco_data, files, db>>
              ELSE /\ phase' = "done"
                   /\ disco_data' = [n \in ToSet(left) |-> m.hosts[n]]
                   /\ files' = out.files
                   /\ db' = out.db
    /\ UNCHANGED <<setup, launch, todo, still_loop, said>>

Init ==
    /\ setup \in {Configured(s) : s \in Setups}
    /\ phase = "start"
    /\ disco_data = Empty
    /\ launch = [r \in RunNames |-> NoLaunch]
    /\ todo = {}
    /\ still_loop = FALSE
    /\ said = {}
    /\ files = setup.files
    /\ db = [hosts |-> Empty, discovered_hosts |-> Empty]

Next ==
    \/ launch_runners
    \/ RunEnds
    \/ FirstResults
    \/ \E n \in DOMAIN disco_data : Visit(n) \/ HostResults(n)
    \/ NextTurn
    \/ write_config

Spec == Init /\ [][Next]_vars

\* The program is one thread that goes on, and a script ends or is stopped
\* after its timeout.
LiveSpec == Spec /\ WF_vars(Next)

(***************************************************************************)
(* Properties                                                               *)
(***************************************************************************)
\* loop_discovery ends, though what a run finds may make other runs match:
\* the program writes its configuration, or an exception ended it.
Over == phase \in {"done", "crashed"}

\* Nothing a script printed of a host is missed: with the default options
\* (the names stripped, no merging), when the loop is over, the host knows
\* every key that was printed of it, with a value that was printed, and every
\* rule that matches what it knows has been applied.
NothingMissed ==
    phase = "loop" /\ todo = {} /\ ~still_loop /\ setup.strip /\ ~setup.merge =>
        \A l \in said :
            LET n == BaseName[l.name] IN
            /\ n \in DOMAIN disco_data
            /\ l.key # None =>
                  /\ l.key \in DOMAIN disco_data[n].data
                  /\ \E x \in said : /\ BaseName[x.name] = n /\ x.key = l.key
                                     /\ x.v = disco_data[n].data[l.key]
                  /\ \A i \in DOMAIN Rules :
                        is_matching_disco_datas(Rules[i], disco_data[n].data) =>
                            Rules[i] \in ToSet(disco_data[n].matched_rules)

\* What the rules of a host give to a property, by the rules' numbers alone:
\* an item is there when some rule wrote it and no later write of the
\* property reset it and no rule from that one on took it away.
Later(r, i, s, j) == r.order < s.order \/ (r = s /\ i < j)
Given(dh, k) ==
    LET rs == ToSet(dh.matched_rules)
        Writes == {<<r, i>> \in rs \X (1..3) : i \in DOMAIN r.writes /\ r.writes[i].key = k}
    IN  {x \in UNION {ToSet(w[1].writes[w[2]].v) : w \in Writes} :
            \E w \in Writes :
                /\ w[1].writes[w[2]].op # "-"
                /\ x \in ToSet(w[1].writes[w[2]].v)
                /\ \A u \in Writes :
                    LET o == u[1].writes[u[2]] IN
                    /\ ~(o.op = "" /\ Later(w[1], w[2], u[1], u[2]))
                    /\ ~(o.op = "-" /\ x \in ToSet(o.v) /\ u[1].order >= w[1].order)}

\* A removal that directly follows an addition to the same property.
WellPlaced(r) ==
    \A i \in DOMAIN r.writes : r.writes[i].op = "-" =>
        i > 1 /\ r.writes[i - 1].key = r.writes[i].key

\* The file of a host that this program wrote holds what its rules say, in the
\* order of their numbers and not in the order they came to match, its macros,
\* and nothing else of what the scripts printed (update_properties in its final
\* phase), for rules with different numbers whose removals are well placed.
HostIsAsRuled ==
    phase = "done" => \A n \in DOMAIN disco_data :
        LET dh == disco_data[n]
            rs == ToSet(dh.matched_rules)
            written == {w.key : w \in UNION {ToSet(r.writes) : r \in rs}}
            content == files[<<dh.name, dh.name>>]
        IN  /\ <<dh.name, dh.name>> \in DOMAIN files
            /\ (/\ \A r \in rs : WellPlaced(r)
                /\ \A r, s \in rs : r # s => r.order # s.order
                /\ <<dh.name, dh.name>> \notin DOMAIN setup.files
                /\ \A m \in DOMAIN disco_data : m # n => disco_data[m].name # dh.name)
               => /\ \A k \in DOMAIN content :
                         k \in written \cup Macros \cup {"host_name", "address"}
                  /\ \A k \in written \ (DOMAIN dh.data \cup {"host_name", "address"}) :
                         ToSet(IF k \in DOMAIN content THEN content[k] ELSE <<>>) = Given(dh, k)
                  /\ \A k \in (Macros \cap DOMAIN dh.data) \ written :
                         content[k] = dh.data[k]
=============================================================================
