------------------------------ MODULE Dispatcher ------------------------------
(***************************************************************************)
(* How the arbiter gives the configurations of a realm to schedulers, and  *)
(* tells the satellites of one kind about it: shinken/dispatcher.py,       *)
(* shinken/objects/satellitelink.py, and put_conf, what_i_managed,         *)
(* have_conf, wait_new_conf and remove_from_conf of the daemons.           *)
(*                                                                         *)
(* The arbiter works on what its links say of the daemons.  A turn of its  *)
(* main loop is check_alive, check_dispatch, dispatch, check_bad_dispatch; *)
(* each call it makes to a daemon is a step.  Daemons crash, come back     *)
(* empty, or are cut off for a while and keep what they have; a call may   *)
(* fail before or after the daemon served it.                              *)
(***************************************************************************)
EXTENDS Integers, Sequences, FiniteSets, Lists

CONSTANTS
    schedulers,         \* Realm.schedulers, in the order of the configuration
    satellites,         \* potential satellites of the kind, in that order
    spare,              \* the spares among them
    Confs,              \* ids of the parts the configuration is cut into
    Flavors,            \* values of push_flavor; 0 stands for "not pushed"
    max_check_attempts, \* failed pings after which a daemon is dead
    check_interval,     \* turns between two checks of the links
    OneOnly,            \* brokers of a classic realm: one for each part
    MaxFaults,          \* bound: crashes, cuts, lost calls
    MaxEarly            \* bound: what_i_managed asked before a part is loaded

Schedulers == {schedulers[i] : i \in DOMAIN schedulers}
Satellites == {satellites[i] : i \in DOMAIN satellites}
Elements == Schedulers \cup Satellites

\* The lists of a realm's links: each link is in one of them, once.
ASSUME ElementsAssumption ==
    /\ schedulers \in Seq(Schedulers) /\ satellites \in Seq(Satellites)
    /\ \A i, j \in DOMAIN schedulers : schedulers[i] = schedulers[j] => i = j
    /\ \A i, j \in DOMAIN satellites : satellites[i] = satellites[j] => i = j
    /\ Schedulers \cap Satellites = {} /\ spare \subseteq Elements
ASSUME NumbersAssumption ==
    /\ Confs \subseteq Nat /\ Flavors \subseteq Nat \ {0}
    /\ max_check_attempts \in Nat \ {0} /\ check_interval \in Nat \ {0}
    /\ OneOnly \in BOOLEAN /\ MaxFaults \in Nat /\ MaxEarly \in Nat

VARIABLES
    pc,             \* where the arbiter is in its turn
    looping,        \* run() has left its first pass for the main loop
    todo,           \* elements the current loop has still to visit, in order
    confs,          \* parts the current loop has still to visit
    since,          \* turns since last_check, the same for all links
    alive, reachable, attempt, managed_confs,  \* of the links
    conf, need_conf,              \* of the links to schedulers
    assigned_to, push_flavor,     \* of the parts
    to_satellites, need_dispatch, managed_by, \* of the realm, by part
    cfg,                          \* cfg['schedulers'] of the satellite links
    dispatch_ok,
    net,            \* whether a daemon answers: "ok", "cut" or "down"
    new_conf,       \* what put_conf left for its main loop
    has,            \* what it manages: an entry for each part
    runs,           \* the schedulers whose loop runs
    faults, early   \* what happened so far, for the bounds

linkVars == <<alive, reachable, attempt, managed_confs>>
partVars == <<conf, need_conf, assigned_to, push_flavor>>
realmVars == <<to_satellites, need_dispatch, managed_by, cfg>>
daemonVars == <<net, new_conf, has, runs>>
vars == <<pc, looping, since, todo, confs, linkVars, partVars, realmVars,
          dispatch_ok, daemonVars, faults, early>>

\* A part with the scheduler that has it and the flavor it was pushed with.
Entries == [c : Confs, s : Schedulers, f : Flavors]
Pushed == [c : Confs, f : Flavors]

TypeOK ==
    /\ pc \in {"check_alive", "check_dispatch", "dispatch", "satellites",
               "bad_schedulers", "bad_satellites"}
    /\ looping \in BOOLEAN
    /\ since \in 0..(check_interval - 1)
    /\ todo \in Seq(Elements)
    /\ confs \subseteq Confs
    /\ alive \in [Elements -> BOOLEAN]
    /\ reachable \in [Elements -> BOOLEAN]
    /\ attempt \in [Elements -> 0..max_check_attempts]
    /\ managed_confs \in [Elements -> SUBSET Pushed]
    /\ conf \in [Schedulers -> SUBSET Confs]
    /\ need_conf \subseteq Schedulers
    /\ assigned_to \in [Confs -> SUBSET Schedulers]
    /\ push_flavor \in [Confs -> Flavors \cup {0}]
    /\ to_satellites \in [Confs -> SUBSET Entries]
    /\ need_dispatch \subseteq Confs
    /\ managed_by \in [Confs -> SUBSET Satellites]
    /\ cfg \in [Satellites -> SUBSET Entries]
    /\ dispatch_ok \in BOOLEAN
    /\ net \in [Elements -> {"ok", "cut", "down"}]
    /\ new_conf \in [Elements -> SUBSET Entries]
    /\ has \in [Elements -> SUBSET Entries]
    /\ runs \subseteq Schedulers
    /\ faults \in 0..MaxFaults /\ early \in 0..MaxEarly

Fault == faults < MaxFaults /\ faults' = faults + 1

\* dict.update: entries replace those of the same part.
Update(old, new) == {e \in old : \A n \in new : n.c # e.c} \cup new

\* what_i_managed
Managed(e) == {[c |-> x.c, f |-> x.f] : x \in has[e]}

do_i_manage(e, c, f) == [c |-> c, f |-> f] \in managed_confs[e]

\* alive_then_spare_then_deads, and only the alive ones are kept.
InOrder(seq) ==
    LET living == {e \in Elements : alive[e]}
    IN Filter(seq, living \ spare) \o Filter(seq, living \cap spare)

-----------------------------------------------------------------------------
(* check_alive *)

\* Mutant: the attempts are not capped.
pingUncapped(e, ok) ==
    /\ attempt' = [attempt EXCEPT ![e] = IF ok THEN 0 ELSE @ + 1]
    /\ alive' = [alive EXCEPT ![e] =
         IF ok THEN TRUE ELSE @ /\ attempt'[e] # max_check_attempts]
    /\ reachable' = [reachable EXCEPT ![e] = ok]

\* ping: set_alive, or add_failed_check_attempt and perhaps set_dead.
ping(e, ok) ==
    /\ attempt' = [attempt EXCEPT ![e] =
         IF ok THEN 0 ELSE IF @ < max_check_attempts THEN @ + 1 ELSE @]
    /\ alive' = [alive EXCEPT ![e] =
         IF ok THEN TRUE ELSE @ /\ attempt'[e] # max_check_attempts]
    /\ reachable' = [reachable EXCEPT ![e] = ok]

update_managed_list(e, ok) ==
    managed_confs' = [managed_confs EXCEPT ![e] = IF ok THEN Managed(e) ELSE {}]

\* update_infos, then need_conf for what is dead or has no part.
check_alive(e) ==
    /\ pc = "check_alive"
    /\ todo # <<>> /\ e = Head(todo)
    /\ todo' = Tail(todo)
    /\ \/ /\ since # 0
          /\ UNCHANGED <<linkVars, faults, early>>
       \/ /\ since = 0
          /\ \E ok, list \in BOOLEAN :
               /\ ok \/ list => net[e] = "ok"
               /\ IF net[e] = "ok" /\ ~(ok /\ list) THEN Fault
                  ELSE UNCHANGED faults
               /\ IF list /\ new_conf[e] # {}
                  THEN early < MaxEarly /\ early' = early + 1
                  ELSE UNCHANGED early
               /\ ping(e, ok)
               /\ update_managed_list(e, list)
    /\ need_conf' = IF e \in Schedulers /\ (~alive'[e] \/ conf[e] = {})
                    THEN need_conf \cup {e} ELSE need_conf
    /\ UNCHANGED <<pc, looping, since, confs, conf, assigned_to, push_flavor,
                   realmVars, dispatch_ok, daemonVars>>

AliveDone ==
    /\ pc = "check_alive"
    /\ todo = <<>>
    /\ pc' = "check_dispatch"
    /\ UNCHANGED <<looping, since, todo, confs, linkVars, partVars, realmVars,
                   dispatch_ok, daemonVars, faults, early>>

-----------------------------------------------------------------------------
(* check_dispatch *)

\* The parts whose scheduler is dead, or says it has something else.
Lost == {c \in Confs : \E s \in assigned_to[c] :
            ~alive[s] \/ ~do_i_manage(s, c, push_flavor[c])}

\* get_nb_of_must_have_satellites
MustHave == Cardinality(Satellites \ spare)

\* Mutant: a satellite that is alive is taken to have what it was sent.
MissingDeadOnly(k, c, flavor) == ~alive[k]

\* A satellite that is supposed to have a part and does not.
Missing(k, c, flavor) ==
    /\ ~(flavor = 0 /\ alive[k])
    /\ ~alive[k] \/ (reachable[k] /\ ~do_i_manage(k, c, flavor))

\* Mutant: the scheduler keeps its sched.conf.
check_dispatchKeepsConf ==
    /\ pc = "check_dispatch"
    /\ LET schds == UNION {assigned_to[c] : c \in Lost}
           dropped == UNION {conf[s] : s \in schds}
           redo == {c \in Confs :
                       \/ Cardinality(managed_by[c]) < MustHave
                       \/ \E k \in managed_by[c] :
                            Missing(k, c, push_flavor'[c])}
       IN /\ assigned_to' = [c \in Confs |-> IF c \in dropped THEN {}
                                             ELSE assigned_to[c]]
          /\ push_flavor' = [c \in Confs |-> IF c \in dropped THEN 0
                                             ELSE push_flavor[c]]
          /\ UNCHANGED conf
          /\ need_conf' = need_conf \cup schds
          /\ managed_by' = [c \in Confs |-> IF c \in redo THEN {}
                                            ELSE managed_by[c]]
          /\ need_dispatch' = need_dispatch \cup redo
          /\ dispatch_ok' = /\ dispatch_ok
                            /\ \A c \in Confs : assigned_to[c] # {}
                            /\ Lost = {} /\ redo = {}
    /\ confs' = {c \in Confs : assigned_to'[c] = {}}
    /\ pc' = "dispatch"
    /\ todo' = InOrder(schedulers)
    /\ UNCHANGED <<looping, since, linkVars, to_satellites, cfg, daemonVars,
                   faults, early>>

\* sched.conf is forgotten, and what was noted for it.  Then the satellites are
\* looked at, with the flavors as they are now.
check_dispatch ==
    /\ pc = "check_dispatch"
    /\ LET schds == UNION {assigned_to[c] : c \in Lost}
           dropped == UNION {conf[s] : s \in schds}
           redo == {c \in Confs :
                       \/ Cardinality(managed_by[c]) < MustHave
                       \/ \E k \in managed_by[c] :
                            Missing(k, c, push_flavor'[c])}
       IN /\ assigned_to' = [c \in Confs |-> IF c \in dropped THEN {}
                                             ELSE assigned_to[c]]
          /\ push_flavor' = [c \in Confs |-> IF c \in dropped THEN 0
                                             ELSE push_flavor[c]]
          /\ conf' = [s \in Schedulers |-> IF s \in schds THEN {} ELSE conf[s]]
          /\ need_conf' = need_conf \cup schds
          /\ managed_by' = [c \in Confs |-> IF c \in redo THEN {}
                                            ELSE managed_by[c]]
          /\ need_dispatch' = need_dispatch \cup redo
          /\ dispatch_ok' = /\ dispatch_ok
                            /\ \A c \in Confs : assigned_to[c] # {}
                            /\ Lost = {} /\ redo = {}
    /\ confs' = {c \in Confs : assigned_to'[c] = {}}
    /\ pc' = "dispatch"
    /\ todo' = InOrder(schedulers)
    /\ UNCHANGED <<looping, since, linkVars, to_satellites, cfg, daemonVars,
                   faults, early>>

-----------------------------------------------------------------------------
(* dispatch: the parts *)

InTurn(c) == c \in confs /\ \A d \in confs : c <= d

NextTurn ==
    /\ pc' = "check_alive"
    /\ todo' = schedulers \o satellites
    /\ since' = (since + 1) % check_interval

\* The first pass of run() has no check_bad_dispatch.
EndDispatch ==
    /\ IF looping
       THEN pc' = "bad_schedulers" /\ todo' = <<>> /\ UNCHANGED since
       ELSE NextTurn
    /\ looping' = TRUE
    /\ confs' = {}

\* If no needed to dispatch, do not dispatch :)
NothingToDispatch ==
    /\ pc = "dispatch"
    /\ dispatch_ok
    /\ EndDispatch
    /\ UNCHANGED <<linkVars, partVars, realmVars, dispatch_ok, daemonVars,
                   faults, early>>

\* random.randint(1, 1000000): a value nobody has seen before.
UsedFlavors ==
    {push_flavor[c] : c \in Confs}
      \cup (UNION {{x.f : x \in managed_confs[e] \cup new_conf[e] \cup has[e]}
                     : e \in Elements})
      \cup (UNION {{x.f : x \in to_satellites[c]} : c \in Confs})
      \cup (UNION {{x.f : x \in cfg[k]} : k \in Satellites})

NewFlavors ==
    LET free == Flavors \ UsedFlavors
    IN {f \in free : \A g \in free : f <= g}

\* put_conf of a link: it answers whether the call returned.  The daemon has
\* the configuration then, and perhaps otherwise.
PutConf(e, entries, is_sent) ==
    \/ /\ net[e] = "ok"
       /\ IF is_sent THEN UNCHANGED faults ELSE Fault
       /\ new_conf' = [new_conf EXCEPT ![e] = entries]
       /\ runs' = runs \ {e}
       /\ UNCHANGED <<net, has>>
    \/ /\ ~is_sent
       /\ IF net[e] = "ok" THEN Fault ELSE UNCHANGED faults
       /\ UNCHANGED daemonVars

\* Mutant: the part keeps the flavor of its last push.
dispatch_confSameFlavor(c) ==
    /\ pc = "dispatch" /\ ~dispatch_ok
    /\ InTurn(c)
    /\ todo # <<>> /\ Head(todo) \in need_conf
    /\ todo' = Tail(todo)
    /\ LET s == Head(todo)
           f == CHOOSE g \in Flavors : \A h \in Flavors : g <= h
           entry == [c |-> c, s |-> s, f |-> f]
       IN /\ push_flavor' = [push_flavor EXCEPT ![c] = f]
          /\ \/ /\ PutConf(s, {entry}, TRUE)
                /\ conf' = [conf EXCEPT ![s] = {c}]
                /\ need_conf' = need_conf \ {s}
                /\ assigned_to' = [assigned_to EXCEPT ![c] = {s}]
                /\ managed_confs' = [managed_confs EXCEPT ![s] =
                                       {[c |-> c, f |-> f]}]
                /\ to_satellites' = [to_satellites EXCEPT ![c] = {entry}]
                /\ need_dispatch' = need_dispatch \cup {c}
                /\ managed_by' = [managed_by EXCEPT ![c] = {}]
                /\ confs' = confs \ {c}
             \/ /\ PutConf(s, {entry}, FALSE)
                /\ UNCHANGED <<conf, need_conf, assigned_to, managed_confs,
                               to_satellites, need_dispatch, managed_by,
                               confs>>
    /\ UNCHANGED <<pc, looping, since, alive, reachable, attempt, cfg,
                   dispatch_ok, early>>

\* The part is sent to the next scheduler that needs one.
dispatch_conf(c) ==
    /\ pc = "dispatch" /\ ~dispatch_ok
    /\ InTurn(c)
    /\ todo # <<>> /\ Head(todo) \in need_conf
    /\ todo' = Tail(todo)
    /\ \E f \in NewFlavors :
         LET s == Head(todo)
             entry == [c |-> c, s |-> s, f |-> f]
         IN /\ push_flavor' = [push_flavor EXCEPT ![c] = f]
            /\ \/ /\ PutConf(s, {entry}, TRUE)
                  /\ conf' = [conf EXCEPT ![s] = {c}]
                  /\ need_conf' = need_conf \ {s}
                  /\ assigned_to' = [assigned_to EXCEPT ![c] = {s}]
                  /\ managed_confs' = [managed_confs EXCEPT ![s] =
                                         {[c |-> c, f |-> f]}]
                  /\ to_satellites' = [to_satellites EXCEPT ![c] = {entry}]
                  /\ need_dispatch' = need_dispatch \cup {c}
                  /\ managed_by' = [managed_by EXCEPT ![c] = {}]
                  /\ confs' = confs \ {c}
               \/ /\ PutConf(s, {entry}, FALSE)
                  /\ UNCHANGED <<conf, need_conf, assigned_to, managed_confs,
                                 to_satellites, need_dispatch, managed_by,
                                 confs>>
    /\ UNCHANGED <<pc, looping, since, alive, reachable, attempt, cfg,
                   dispatch_ok, early>>

\* The scheduler do not need conf, sorry
SkipScheduler ==
    /\ pc = "dispatch" /\ ~dispatch_ok
    /\ confs # {}
    /\ todo # <<>> /\ Head(todo) \notin need_conf
    /\ todo' = Tail(todo)
    /\ UNCHANGED <<pc, looping, since, confs, linkVars, partVars, realmVars,
                   dispatch_ok, daemonVars, faults, early>>

\* No more schedulers.. not good: satellites are not told of this part.
NoMoreSchedulers(c) ==
    /\ pc = "dispatch" /\ ~dispatch_ok
    /\ InTurn(c)
    /\ todo = <<>>
    /\ confs' = confs \ {c}
    /\ to_satellites' = [to_satellites EXCEPT ![c] = {}]
    /\ need_dispatch' = need_dispatch \ {c}
    /\ managed_by' = [managed_by EXCEPT ![c] = {}]
    /\ UNCHANGED <<pc, looping, since, todo, linkVars, partVars, cfg,
                   dispatch_ok, daemonVars, faults, early>>

-----------------------------------------------------------------------------
(* dispatch: the satellites *)

\* Brokers of a classic realm: the list starts with another one for each part.
\* The second half is the slice [: -idx + 1].
Rotated(nospare, c) ==
    LET n == Len(nospare)
        idx == c % n
        stop == IF idx <= 1 THEN 1 - idx ELSE n + 1 - idx
        rest == SubSeq(nospare, idx + 1, n)
        new == {k \in Satellites : \A i \in DOMAIN rest : rest[i] # k}
    IN rest \o Filter(SubSeq(nospare, 1, stop), new)

\* The satellites that may be told of a part, in order.
Candidates(c) ==
    LET sats == Filter(InOrder(satellites), {k \in Satellites : reachable[k]})
        nospare == Filter(sats, Satellites \ spare)
    IN IF OneOnly /\ nospare # <<>>
       THEN Rotated(nospare, c) \o Filter(sats, spare)
       ELSE sats

\* The loop over parts goes on with the satellites of the next one.
NextPart(cs) ==
    /\ confs' = cs
    /\ todo' = IF cs = {} THEN <<>>
               ELSE Candidates(CHOOSE c \in cs : \A d \in cs : c <= d)

\* All parts were tried.  With all of them dispatched the schedulers that have
\* none do not need one.
ConfsDone ==
    /\ pc = "dispatch" /\ ~dispatch_ok
    /\ confs = {}
    /\ dispatch_ok' = (\A c \in Confs : assigned_to[c] # {})
    /\ need_conf' = IF dispatch_ok'
                    THEN need_conf \ {s \in Schedulers : conf[s] = {}}
                    ELSE need_conf
    /\ pc' = "satellites"
    /\ NextPart(need_dispatch)
    /\ UNCHANGED <<looping, since, linkVars, conf, assigned_to, push_flavor,
                   realmVars, daemonVars, faults, early>>

\* nb_cfg_sent; managed_by is empty whenever a part is to be dispatched.
Enough(c) == Cardinality(managed_by[c]) >= MustHave

\* The part is added to the configuration of the next satellite, which is sent
\* unless the satellite is known to have the part.
dispatch_satellite(c) ==
    /\ pc = "satellites"
    /\ InTurn(c)
    /\ todo # <<>> /\ ~Enough(c)
    /\ LET k == Head(todo)
           f == push_flavor[c]
       IN /\ cfg' = [cfg EXCEPT ![k] = Update(@, to_satellites[c])]
          /\ \E is_sent \in BOOLEAN :
               /\ IF do_i_manage(k, c, f)
                  THEN is_sent /\ UNCHANGED <<daemonVars, faults>>
                  ELSE PutConf(k, cfg'[k], is_sent)
               /\ IF is_sent
                  THEN /\ managed_confs' = [managed_confs EXCEPT ![k] =
                                              Update(@, {[c |-> c, f |-> f]})]
                       /\ managed_by' = [managed_by EXCEPT ![c] = @ \cup {k}]
                       /\ todo' = IF OneOnly THEN <<>> ELSE Tail(todo)
                  ELSE /\ todo' = Tail(todo)
                       /\ UNCHANGED <<managed_confs, managed_by>>
    /\ UNCHANGED <<pc, looping, since, confs, alive, reachable, attempt,
                   partVars, to_satellites, need_dispatch, dispatch_ok, early>>

\* OK, no more sent need
SatellitesOfPartDone(c) ==
    /\ pc = "satellites"
    /\ InTurn(c)
    /\ todo = <<>> \/ Enough(c)
    /\ need_dispatch' = IF Cardinality(managed_by[c]) = MustHave
                        THEN need_dispatch \ {c} ELSE need_dispatch
    /\ NextPart(confs \ {c})
    /\ UNCHANGED <<pc, looping, since, linkVars, partVars, to_satellites,
                   managed_by, cfg, dispatch_ok, daemonVars, faults, early>>

SatellitesDone ==
    /\ pc = "satellites"
    /\ confs = {}
    /\ EndDispatch
    /\ UNCHANGED <<linkVars, partVars, realmVars, dispatch_ok, daemonVars,
                   faults, early>>

-----------------------------------------------------------------------------
(* check_bad_dispatch *)

\* have_conf of a link.  The daemon's answer comes as bytes, and what is not a
\* bool is taken for "no".
have_conf(s) == FALSE

\* Schedulers that should have nothing and say they have a part have to stop.
BadSchedulers ==
    /\ pc = "bad_schedulers"
    /\ pc' = "bad_satellites"
    /\ todo' = satellites
    /\ runs' = runs \ {s \in Schedulers : conf[s] = {} /\ reachable[s]
                                            /\ have_conf(s)}
    /\ UNCHANGED <<looping, since, confs, linkVars, partVars, realmVars,
                   dispatch_ok, net, new_conf, has, faults, early>>

\* The parts a satellite says it has and should not.
IdToDelete(k) ==
    {c \in Confs : /\ \E x \in managed_confs[k] : x.c = c
                   /\ k \notin managed_by[c]}

\* remove_from_conf in the satellite: sched_id is the text of an HTTP query, no
\* key of the dict of schedulers, and the KeyError is passed.
RemoveFromConf(entries, ids) == entries

\* wait_new_conf when nothing would be left, remove_from_conf otherwise.
BadSatellite(k) ==
    /\ pc = "bad_satellites"
    /\ todo # <<>> /\ k = Head(todo)
    /\ todo' = Tail(todo)
    /\ \/ /\ reachable[k] /\ managed_confs[k] # {}
          /\ net[k] = "ok"
          /\ has' = [has EXCEPT ![k] =
               IF \A x \in managed_confs[k] : x.c \in IdToDelete(k) THEN {}
               ELSE RemoveFromConf(@, IdToDelete(k))]
          /\ UNCHANGED faults
       \/ /\ ~reachable[k] \/ managed_confs[k] = {} \/ net[k] # "ok"
          /\ UNCHANGED <<has, faults>>
       \/ /\ reachable[k] /\ managed_confs[k] # {} /\ net[k] = "ok"
          /\ IdToDelete(k) # {}
          /\ Fault
          /\ UNCHANGED has
    /\ UNCHANGED <<pc, looping, since, confs, linkVars, partVars, realmVars,
                   dispatch_ok, net, new_conf, runs, early>>

EndTurn ==
    /\ pc = "bad_satellites"
    /\ todo = <<>>
    /\ NextTurn
    /\ UNCHANGED <<looping, confs, linkVars, partVars, realmVars, dispatch_ok,
                   daemonVars, faults, early>>

-----------------------------------------------------------------------------
(* The daemons, and what happens to them *)

\* setup_new_conf: a scheduler takes the part for its own and runs; a satellite
\* adds what it is told to what it has.
setup_new_conf(e) ==
    /\ net[e] # "down"
    /\ new_conf[e] # {}
    /\ new_conf' = [new_conf EXCEPT ![e] = {}]
    /\ has' = [has EXCEPT ![e] = IF e \in Schedulers THEN new_conf[e]
                                 ELSE Update(@, new_conf[e])]
    /\ runs' = IF e \in Schedulers THEN runs \cup {e} ELSE runs
    /\ UNCHANGED <<pc, looping, since, todo, confs, linkVars, partVars,
                   realmVars, dispatch_ok, net, faults, early>>

Crash(e) ==
    /\ net[e] # "down"
    /\ Fault
    /\ net' = [net EXCEPT ![e] = "down"]
    /\ new_conf' = [new_conf EXCEPT ![e] = {}]
    /\ has' = [has EXCEPT ![e] = {}]
    /\ runs' = runs \ {e}
    /\ UNCHANGED <<pc, looping, since, todo, confs, linkVars, partVars,
                   realmVars, dispatch_ok, early>>

CutOff(e) ==
    /\ net[e] = "ok"
    /\ Fault
    /\ net' = [net EXCEPT ![e] = "cut"]
    /\ UNCHANGED <<pc, looping, since, todo, confs, linkVars, partVars,
                   realmVars, dispatch_ok, new_conf, has, runs, early>>

ComesBack(e) ==
    /\ net[e] # "ok"
    /\ net' = [net EXCEPT ![e] = "ok"]
    /\ UNCHANGED <<pc, looping, since, todo, confs, linkVars, partVars,
                   realmVars, dispatch_ok, new_conf, has, runs, faults, early>>

-----------------------------------------------------------------------------
\* Dispatcher.__init__ and links that know nothing yet; the daemons are empty.
Init ==
    /\ pc = "check_alive"
    /\ looping = FALSE
    /\ since = 0
    /\ todo = schedulers \o satellites
    /\ confs = {}
    /\ alive = [e \in Elements |-> TRUE]
    /\ reachable = [e \in Elements |-> FALSE]
    /\ attempt = [e \in Elements |-> 0]
    /\ managed_confs = [e \in Elements |-> {}]
    /\ conf = [s \in Schedulers |-> {}]
    /\ need_conf = Schedulers
    /\ assigned_to = [c \in Confs |-> {}]
    /\ push_flavor = [c \in Confs |-> 0]
    /\ to_satellites = [c \in Confs |-> {}]
    /\ need_dispatch = {}
    /\ managed_by = [c \in Confs |-> {}]
    /\ cfg = [k \in Satellites |-> {}]
    /\ dispatch_ok = FALSE
    /\ net \in [Elements -> {"ok", "down"}]
    /\ new_conf = [e \in Elements |-> {}]
    /\ has = [e \in Elements |-> {}]
    /\ runs = {}
    /\ faults = 0 /\ early = 0

Arbiter ==
    \/ \E e \in Elements : check_alive(e)
    \/ AliveDone
    \/ check_dispatch
    \/ NothingToDispatch
    \/ \E c \in Confs : dispatch_conf(c) \/ NoMoreSchedulers(c)
    \/ SkipScheduler
    \/ ConfsDone
    \/ \E c \in Confs : dispatch_satellite(c) \/ SatellitesOfPartDone(c)
    \/ SatellitesDone
    \/ BadSchedulers
    \/ \E k \in Satellites : BadSatellite(k)
    \/ EndTurn

Next ==
    \/ Arbiter
    \/ \E e \in Elements :
          setup_new_conf(e) \/ Crash(e) \/ CutOff(e) \/ ComesBack(e)

\* The loop of the arbiter goes on: its calls have timeouts.  A daemon loads
\* what it was sent.  Nothing is assumed of failures.
Fairness ==
    /\ WF_vars(Arbiter)
    /\ \A e \in Elements : WF_vars(setup_new_conf(e))

Spec == Init /\ [][Next]_vars /\ Fairness

-----------------------------------------------------------------------------
(* Properties *)

\* The links to schedulers and the parts agree on who has what, whatever the
\* daemons say: check_dispatch goes from a part to its scheduler and from there
\* to "its" part, which has to be the same one (sched.conf.assigned_to = None
\* would fail on None, and free the wrong part otherwise).
AssignmentIsMutual ==
    \A c \in Confs, s \in Schedulers : s \in assigned_to[c] <=> conf[s] = {c}

\* What push_flavor is for: a satellite, or a scheduler, that has a part with
\* the present flavor has it from the last push, and looks for its jobs where
\* the part is now.  A part that was given to another scheduler meanwhile is
\* never taken for this one.
FlavorTells ==
    \A e \in Elements : \A x \in has[e] \cup new_conf[e] :
        (assigned_to[x.c] # {} /\ x.f = push_flavor[x.c])
           => x.s \in assigned_to[x.c] /\ (e \in Schedulers => e = x.s)

\* A part runs: the scheduler it is assigned to answers, and has loaded it.
Running(c) ==
    \E s \in assigned_to[c] :
        /\ net[s] = "ok"
        /\ s \in runs
        /\ [c |-> c, s |-> s, f |-> push_flavor[c]] \in has[s]

\* "If a scheduler is dead, the arbiter sends its conf to a spare node": when
\* the daemons settle, each part runs if there are schedulers for all of them.
PartsRun ==
    \A c \in Confs :
        <>[](\/ Running(c)
             \/ Cardinality({s \in Schedulers : net[s] = "ok"})
                   < Cardinality(Confs))

\* "All satellites are informed by this change so they can get their jobs from
\* the new element": when the daemons settle, a satellite knows where each part
\* that runs is, if there is a satellite at all.
SatellitesFollow ==
    \A c \in Confs :
        <>[](\/ ~Running(c)
             \/ \A k \in Satellites : net[k] # "ok"
             \/ \E k \in managed_by[c] :
                  \E x \in has[k] : /\ net[k] = "ok"
                                    /\ x.c = c /\ x.f = push_flavor[c]
                                    /\ x.s \in assigned_to[c])

\* Both: in the end the parts run, and are worked for.
PartsAreServed == PartsRun /\ SatellitesFollow

=============================================================================
