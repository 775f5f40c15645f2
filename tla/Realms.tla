------------------------------- MODULE Realms -------------------------------
(***************************************************************************)
(* Realms and the satellites that work for them: objects/realm.py, the     *)
(* default realm and satellites of objects/config.py, the linking of       *)
(* objects/satellitelink.py, and the choice of schedulers and satellites   *)
(* for the parts of several realms in dispatcher.py (the module Dispatcher *)
(* has the pushes of one realm in detail; flavors are there).              *)
(*                                                                         *)
(* A realm may have members, realms below it.  A satellite belongs to one  *)
(* realm, and works for the realms below it when it manages sub realms.    *)
(***************************************************************************)
EXTENDS Integers, Sequences, FiniteSets, FiniteSetsExt, SequencesExt, Relation

CONSTANTS
    Setups,     \* the configurations of realms, satellites and parts
    None,
    MaxFaults   \* bound on the deaths of satellites

VARIABLES
    setup,      \* the configuration that is read
    phase,      \* how far the arbiter is
    tags,       \* already_explode and rec_tag of the realms, and their errors
    higher,     \* higher_realms of each realm
    registered, \* the satellites of each realm
    must,       \* nb_pollers, ... of each realm and kind
    potential,  \* potential_pollers, ... of each realm and kind
    alive,      \* the satellites that the arbiter takes for alive
    st,         \* what is dispatched
    settled,    \* whether a turn ended since the last fault
    faults

static == <<setup, tags, higher, registered, must, potential>>
vars == <<static, phase, alive, st, settled, faults>>

Once(x, F(_)) == CHOOSE r \in {F(v) : v \in {x}} : TRUE
Kinds == {"poller", "broker"}
Names == {setup.realms[k] : k \in DOMAIN setup.realms}
Sats == {setup.sats[k] : k \in DOMAIN setup.sats}
Parts == DOMAIN setup.parts

\* The members of a realm that exist; the others are passed over.
get_realm_members(r) == SelectSeq(setup.members[r], LAMBDA m : m \in Names)
Members(r) == {get_realm_members(r)[k] : k \in DOMAIN get_realm_members(r)}

-----------------------------------------------------------------------------
(* Reading.                                                                *)

Satellite(name, kind, realm) == [name |-> name, kind |-> kind, realm |-> realm, spare |-> FALSE, sub |-> TRUE]

\* A kind of satellites that is missing gets one.
fill_default_satellites(c) ==
    LET missing == {k \in {"scheduler", "poller", "broker"} : \A i \in DOMAIN c.sats : c.sats[i].kind # k}
    IN [c EXCEPT !.sats = @ \o SetToSeq({Satellite("default", k, None) : k \in missing})]

\* Without realms there is a default one, with all the satellites.
fill_default_realm(c) ==
    IF c.realms # <<>> THEN c
    ELSE [c EXCEPT !.realms = <<"Default">>, !.members = [r \in {"Default"} |-> <<>>],
                   !.default = {"Default"},
                   !.sats = [k \in DOMAIN @ |-> [@[k] EXCEPT !.realm = "Default"]],
                   !.parts = [p \in {1} |-> "Default"]]

fill_default ==
    /\ phase = "read"
    /\ setup' = fill_default_realm(fill_default_satellites(setup))
    /\ phase' = "linkify"
    /\ UNCHANGED <<tags, higher, registered, must, potential, alive, st, settled, faults>>

\* A realm that is met twice in one explosion is an error.
RECURSIVE get_realms_by_explosion(_, _)
get_realms_by_explosion(r, t) ==
    IF r \in t.rec THEN [t EXCEPT !.already = @ \cup {r}, !.errors = @ \cup {r}]
    ELSE FoldLeft(LAMBDA acc, m : get_realms_by_explosion(m, acc),
                  [t EXCEPT !.already = @ \cup {r}, !.rec = @ \cup {r}], get_realm_members(r))

\* From every realm that has members and was not met before.
explode ==
    /\ phase = "explode"
    /\ LET todo == SelectSeq(setup.realms, LAMBDA r : setup.members[r] # <<>> /\ r \notin tags.already)
       IN IF todo = <<>> THEN phase' = "read" /\ UNCHANGED tags
          ELSE /\ tags' = get_realms_by_explosion(Head(todo), [tags EXCEPT !.rec = {}])
               /\ UNCHANGED phase
    /\ UNCHANGED <<setup, higher, registered, must, potential, alive, st, settled, faults>>

Below == TransitiveClosure([<<x, y>> \in Names \X Names |-> y \in Members(x)], Names)
Loop == \E r \in Names : Below[r, r]

\* Add the realm above its sons, and above their sons.
RECURSIVE recur_higer_realms(_, _, _)
recur_higer_realms(r, sons, h) ==
    FoldLeft(LAMBDA acc, s : recur_higer_realms(r, get_realm_members(s), [acc EXCEPT ![s] = Append(@, r)]),
             h, sons)

\* The recursion has no end when realms contain each other.
linkify_p_by_p ==
    /\ phase = "linkify"
    /\ IF Loop THEN phase' = "crashed" /\ UNCHANGED higher
       ELSE /\ higher' = FoldLeft(LAMBDA h, r : recur_higer_realms(r, get_realm_members(r), h),
                                  [r \in Names |-> <<>>], setup.realms)
            /\ phase' = "register"
    /\ UNCHANGED <<setup, tags, registered, must, potential, alive, st, settled, faults>>

\* The realm of a satellite, or the default one; no realm is an error.
RealmOf(s) ==
    IF s.realm = None
    THEN LET d == SelectSeq(setup.realms, LAMBDA r : r \in setup.default)
         IN IF d = <<>> THEN None ELSE Head(d)
    ELSE IF s.realm \in Names THEN s.realm ELSE None

linkify_s_by_p ==
    /\ phase = "register"
    /\ registered' = [r \in Names |-> SelectSeq(setup.sats, LAMBDA s : RealmOf(s) = r)]
    /\ phase' = "prepare"
    /\ UNCHANGED <<setup, tags, higher, must, potential, alive, st, settled, faults>>

OfKind(r, kind) == SelectSeq(registered[r], LAMBDA s : s.kind = kind)

\* Own satellites, and those above that manage sub realms.
fill_potential_satellites_by_type(r, kind) ==
    FoldLeft(LAMBDA acc, h : acc \o SelectSeq(OfKind(h, kind), LAMBDA s : s.sub), OfKind(r, kind), higher[r])

\* count_pollers, ...: as many as there are that are no spares.
CountOf(r, kind) ==
    FoldLeft(LAMBDA n, h : n + Len(SelectSeq(OfKind(h, kind), LAMBDA s : ~s.spare /\ s.sub)),
             Len(SelectSeq(OfKind(r, kind), LAMBDA s : ~s.spare)), higher[r])

NoDispatch ==
    [sched |-> [p \in Parts |-> None], need |-> [p \in Parts |-> [k \in Kinds |-> FALSE]],
     managed |-> [p \in Parts |-> [k \in Kinds |-> {}]],
     cfg |-> [s \in Sats |-> {}], runs |-> [s \in Sats |-> {}], links |-> [s \in Sats |-> {}]]

prepare_for_satellites_conf ==
    /\ phase = "prepare"
    /\ must' = [r \in Names |-> [k \in Kinds |-> CountOf(r, k)]]
    /\ potential' = [r \in Names |-> [k \in Kinds |-> fill_potential_satellites_by_type(r, k)]]
    /\ phase' = "check"
    /\ UNCHANGED <<setup, tags, higher, registered, alive, st, settled, faults>>

\* No errors of realms and satellites, a broker for every scheduler, one
\* default realm, and a scheduler for every realm with hosts.
IsCorrect ==
    /\ tags.errors = {}
    /\ \A s \in Sats : RealmOf(s) # None
    /\ \A s \in Sats : s.kind = "scheduler" => potential[RealmOf(s)]["broker"] # <<>>
    /\ Cardinality(setup.default) <= 1

is_correct ==
    /\ phase = "check"
    /\ phase' = IF IsCorrect THEN "running" ELSE "refused"
    /\ st' = NoDispatch
    /\ alive' = Sats
    /\ UNCHANGED <<static, settled, faults>>

-----------------------------------------------------------------------------
(* Dispatching.                                                            *)

alive_then_spare_then_deads(q) ==
    SelectSeq(q, LAMBDA s : s \in alive /\ ~s.spare) \o SelectSeq(q, LAMBDA s : s \in alive /\ s.spare)
    \o SelectSeq(q, LAMBDA s : s \notin alive)

\* The schedulers of the realm, then the spares of the realms above.
get_scheduler_ordered_list(r) ==
    alive_then_spare_then_deads(
        FoldLeft(LAMBDA acc, h : acc \o SelectSeq(OfKind(h, "scheduler"), LAMBDA s : s.spare),
                 OfKind(r, "scheduler"), higher[r]))

\* A part of a dead scheduler has none; a kind with too few satellites, or
\* with one that is dead or lost the part, is dispatched anew.
check_dispatch(d) ==
    LET sched == [p \in Parts |-> IF d.sched[p] \in alive THEN d.sched[p] ELSE None]
        bad(p, k) == \/ Cardinality(d.managed[p][k]) < must[setup.parts[p]][k]
                     \/ \E s \in d.managed[p][k] : s \notin alive \/ (sched[p] # None /\ p \notin d.runs[s])
    IN [d EXCEPT !.sched = sched,
                 !.need = [p \in Parts |-> [k \in Kinds |-> bad(p, k) \/ d.need[p][k]]],
                 !.managed = [p \in Parts |-> [k \in Kinds |-> IF bad(p, k) THEN {} ELSE d.managed[p][k]]]]

\* The first scheduler that is alive and has no part; its satellites are all
\* to be sent the part.  Without one nothing is sent.
DispatchPart(d, p) ==
    IF d.sched[p] # None THEN d
    ELSE LET free == SelectSeq(get_scheduler_ordered_list(setup.parts[p]),
                               LAMBDA s : s \in alive /\ \A x \in Parts : d.sched[x] # s)
         IN IF free = <<>> THEN [d EXCEPT !.need[p] = [k \in Kinds |-> FALSE]]
            ELSE [d EXCEPT !.sched[p] = Head(free), !.need[p] = [k \in Kinds |-> TRUE],
                           !.managed[p] = [k \in Kinds |-> {}]]

\* A part starts with another of the brokers; the one before it is missed when
\* the turn is at the second.
Rotated(q, p) ==
    LET nospare == SelectSeq(q, LAMBDA s : ~s.spare)
        idx == p % Len(nospare)
        new == SubSeq(nospare, idx + 1, Len(nospare))
        slice == IF idx = 0 THEN SubSeq(nospare, 1, 1)
                 ELSE IF idx = 1 THEN <<>> ELSE SubSeq(nospare, 1, Len(nospare) - idx + 1)
    IN IF nospare = <<>> THEN q
       ELSE new \o SelectSeq(slice, LAMBDA s : ~Contains(new, s)) \o SelectSeq(q, LAMBDA s : s.spare)

Order(p, kind) ==
    LET q == SelectSeq(alive_then_spare_then_deads(potential[setup.parts[p]][kind]), LAMBDA s : s \in alive)
    IN IF kind = "broker" /\ ~setup.complete THEN Rotated(q, p) ELSE q

RECURSIVE get_all_subs_satellites_by_type(_, _)
get_all_subs_satellites_by_type(r, kind) ==
    {s \in Sats : s.kind = kind /\ RealmOf(s) = r}
    \cup UNION {get_all_subs_satellites_by_type(m, kind) : m \in Members(r)}

\* The pollers that a broker gets broks of: those of the realm of the part,
\* and of the realms below if it manages them.  The links before are lost.
fill_broker_with_poller_reactionner_links(r, b) ==
    {s \in Sats : s.kind = "poller" /\ RealmOf(s) = r}
    \cup (IF b.sub THEN get_all_subs_satellites_by_type(r, "poller") ELSE {})

\* The part for one satellite of the order, while there are not enough: all
\* that its link has is pushed, unless it runs the part already.
Send(d, p, kind, s, refusing) ==
    LET r == setup.parts[p]
        n == Cardinality(d.managed[p][kind])
        e == [d EXCEPT !.cfg[s] = @ \cup {p},
                       !.links[s] = IF kind = "broker" THEN fill_broker_with_poller_reactionner_links(r, s)
                                    ELSE @]
    IN IF n >= must[r][kind] \/ (kind = "broker" /\ ~setup.complete /\ n > 0) THEN d
       ELSE IF p \in e.runs[s] THEN [e EXCEPT !.managed[p][kind] = @ \cup {s}]
       ELSE IF s \in refusing THEN e
       ELSE [e EXCEPT !.managed[p][kind] = @ \cup {s}, !.runs[s] = e.cfg[s]]

DispatchKind(d, p, kind, refusing) ==
    IF ~d.need[p][kind] THEN d
    ELSE LET e == FoldLeft(LAMBDA acc, s : Once(acc, LAMBDA a : Send(a, p, kind, s, refusing)),
                           [d EXCEPT !.managed[p][kind] = {}], Order(p, kind))
         IN [e EXCEPT !.need[p][kind] = Cardinality(e.managed[p][kind]) # must[setup.parts[p]][kind]]

\* A satellite that runs a part it is not listed for is told to drop it.
check_bad_dispatch(d) ==
    [d EXCEPT !.runs = [s \in Sats |->
        IF s \in alive /\ s.kind \in Kinds
        THEN {p \in d.runs[s] : s \in d.managed[p][s.kind]} ELSE d.runs[s]]]

\* A turn of the arbiter, with the satellites that refuse a push.
Turn(refusing) ==
    /\ phase = "running"
    /\ LET order == SetToSortSeq(Parts, <)
           chosen == FoldLeft(LAMBDA d, p : Once(d, LAMBDA a : DispatchPart(a, p)), check_dispatch(st), order)
           sent == FoldLeft(LAMBDA d, p : Once(d, LAMBDA a :
                       Once(DispatchKind(a, p, "poller", refusing),
                            LAMBDA b : DispatchKind(b, p, "broker", refusing))), chosen, order)
       IN st' = check_bad_dispatch(sent)
    /\ settled' = (refusing = {})
    /\ UNCHANGED <<static, phase, alive, faults>>

\* A satellite does not answer any more.
Die(s) ==
    /\ phase = "running" /\ s \in alive /\ faults < MaxFaults
    /\ alive' = alive \ {s}
    /\ faults' = faults + 1
    /\ settled' = FALSE
    /\ UNCHANGED <<static, phase, st>>

\* It answers again, with what it did before or started anew.
Return(s, keeps) ==
    /\ phase = "running" /\ s \notin alive
    /\ alive' = alive \cup {s}
    /\ st' = IF keeps THEN st ELSE [st EXCEPT !.runs[s] = {}]
    /\ settled' = FALSE
    /\ UNCHANGED <<static, phase, faults>>

Init ==
    /\ setup \in Setups
    /\ phase = "explode"
    /\ tags = [already |-> {}, rec |-> {}, errors |-> {}]
    /\ higher = <<>> /\ registered = <<>> /\ must = <<>> /\ potential = <<>>
    /\ alive = {} /\ st = <<>> /\ settled = FALSE /\ faults = 0

Next ==
    \/ explode \/ fill_default \/ linkify_p_by_p \/ linkify_s_by_p
    \/ prepare_for_satellites_conf \/ is_correct
    \/ \E refusing \in {{}} \cup {{s} : s \in Sats} : Turn(refusing)
    \/ \E s \in Sats : Die(s) \/ Return(s, TRUE) \/ Return(s, FALSE)

Spec == Init /\ [][Next]_vars

-----------------------------------------------------------------------------
\* Two members of one realm that lead to the same realm.
TwoPaths ==
    \E r \in Names : \E i, j \in DOMAIN get_realm_members(r) :
        LET to(k) == {get_realm_members(r)[k]} \cup {x \in Names : Below[get_realm_members(r)[k], x]}
        IN i # j /\ to(i) \cap to(j) # {}

\* The explosion reports an error exactly when realms contain each other or
\* one is reached on two ways, whatever the order of the definitions.
ExplosionTells == phase = "read" => ((tags.errors # {}) <=> (Loop \/ TwoPaths))

\* The satellites that may work for a realm: its own, and those of a realm
\* above that manage sub realms.
Scope(r, kind) ==
    {s \in Sats : /\ s.kind = kind
                  /\ \/ RealmOf(s) = r
                     \/ s.sub /\ RealmOf(s) # None /\ Below[RealmOf(s), r]}

Runners(p, kind) == {s \in alive : s.kind = kind /\ p \in st.runs[s]}

\* After a turn in which nobody refused, a part that has a scheduler is run
\* by as many satellites of its realm, or above it, as there are that are no
\* spares, or all that are alive; by one broker in a realm without complete
\* links.  So spares step in for the dead, and a satellite that comes back
\* does not run what its spare took.
EnoughRun ==
    phase = "running" /\ settled =>
        \A p \in {x \in Parts : st.sched[x] # None} : \A k \in Kinds :
            LET scope == Scope(setup.parts[p], k)
                want == Cardinality({s \in scope : ~s.spare})
                n == IF k = "broker" /\ ~setup.complete THEN Min({1, want}) ELSE want
            IN /\ Runners(p, k) \subseteq scope
               /\ Cardinality(Runners(p, k)) = Min({n, Cardinality(scope \cap alive)})

\* A broker that was given parts of one realm has the links of all pollers
\* there, and below if it manages sub realms.
BrokerIsLinked ==
    phase = "running" => \A b \in Sats : \A r \in Names :
        (b.kind = "broker" /\ {setup.parts[p] : p \in st.cfg[b]} = {r}) =>
            st.links[b] = {s \in Sats : s.kind = "poller" /\ RealmOf(s) # None
                                        /\ (RealmOf(s) = r \/ (b.sub /\ Below[r, RealmOf(s)]))}
=============================================================================
