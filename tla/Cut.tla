--------------------------------- MODULE Cut ---------------------------------
(***************************************************************************)
(* The end of the loading of a configuration (objects/config.py): hosts    *)
(* that are related are put in packs, the packs of a realm are shared out  *)
(* among its schedulers, the configuration is cut into one part for each   *)
(* scheduler that is not a spare, and the parts are serialized, by the     *)
(* arbiter or by children of it.  Services follow their host.              *)
(*                                                                         *)
(* What graph.py finds in the links of hosts is a parameter; HostGraph is  *)
(* its translation.                                                        *)
(***************************************************************************)
EXTENDS Integers, Sequences, FiniteSets, SequencesExt, Lists

CONSTANTS
    HostSeq,        \* the hosts, in the order of their ids
    RealmSeq,       \* the realms, in the order of their ids
    Farms,          \* possible sets of schedulers: functions from their ids, 0..n,
                    \* to [realm, spare, weight]
    Places,         \* what a host may say of its realm: a realm or None
    DefaultRealm,   \* a realm or None
    Relations,      \* the sets of parents a behaviour may have, each a set of
                    \* pairs <<parent, host>>
    MaxDeaths,      \* bound on the children that die
    None,
    loop_check(_),              \* of a set of links: the hosts that are on a loop
    get_accessibility_packs(_), \* of a set of links: the packs of related hosts
    Reach(_, _)                 \* of links and a set: what they lead to (for the properties)

Hosts == ToSet(HostSeq)
Realms == ToSet(RealmSeq)

VARIABLES
    phase,      \* "packs", "balance", "parts", "serialize" or "ready", "exit"
    parents,    \* the relation of hosts: parents, dependencies and business rules
    realm,      \* of each host
    schedulers,
    multi,      \* use_multiprocesses_serializer
    errors,     \* the configuration is not correct
    todo,       \* the packs of each realm that have no scheduler yet
    packs,      \* packs[r][i]: the hosts for the i-th scheduler of realm r
    assoc,      \* of the realm that is balanced: what create_packs notes of each host
    confs,      \* the hosts of each part
    rconfs,     \* the parts of each realm
    children,   \* the children that serialize, for the realm rnow
    rnow,       \* index of the realm that is balanced or serialized
    q,          \* the list of results of the children
    sent,       \* serialized_confs of each realm
    deaths

input == <<parents, realm, schedulers, multi>>
vars == <<phase, input, errors, todo, packs, assoc, confs, rconfs, children,
          rnow, q, sent, deaths>>

\* no_spare_schedulers of a realm, in the order of their ids.
NoSpare(r) ==
    Filter([k \in 1..Cardinality(DOMAIN schedulers) |-> k - 1],
           {s \in DOMAIN schedulers : schedulers[s].realm = r /\ ~schedulers[s].spare})

Init ==
    /\ phase = "packs"
    /\ parents \in Relations
    /\ realm \in [Hosts -> Places]
    /\ schedulers \in Farms
    /\ multi \in BOOLEAN
    /\ errors = FALSE
    /\ todo = [r \in Realms |-> <<>>] /\ packs = [r \in Realms |-> <<>>] /\ assoc = <<>>
    /\ confs = <<>> /\ rconfs = [r \in Realms |-> {}]
    /\ children = {} /\ rnow = 1 /\ q = {} /\ sent = [r \in Realms |-> {}] /\ deaths = 0

-----------------------------------------------------------------------------
(* Loops and packs.                                                        *)

\* The children of a host in the graph of no_loop_in_parents: its parents.
ParentGraph == {<<l[2], l[1]>> : l \in parents}

\* The graph of create_packs has both directions of a link.
BothWays(links) == links \cup {<<l[2], l[1]>> : l \in links}
LinkGraph == BothWays(parents)

RealmsOf(pack) == {realm[h] : h \in pack} \ {None}

\* The realm a pack goes to, None if it is an error.
RealmOf(pack) ==
    IF RealmsOf(pack) = {} THEN DefaultRealm
    ELSE IF Cardinality(RealmsOf(pack)) = 1 THEN CHOOSE r \in RealmsOf(pack) : TRUE
    ELSE None

\* The first half of create_packs.
CreatePacks ==
    /\ phase = "packs" /\ phase' = "balance" /\ rnow' = 1
    /\ \E all \in {get_accessibility_packs(LinkGraph)} :
       /\ todo' = [r \in Realms |-> Filter(all, {p \in ToSet(all) : RealmOf(p) = r})]
       /\ errors' = (loop_check(ParentGraph) # {}
                     \/ \E p \in ToSet(all) : RealmOf(p) = None)
    /\ assoc' = <<>>
    /\ UNCHANGED <<input, packs, confs, rconfs, children, q, sent, deaths>>

\* get_least_loaded_scheduler_id: a scheduler that no host has been noted for comes
\* first, else one of those noted least.
Noted == {assoc[h] : h \in DOMAIN assoc}
Count(i) == Cardinality({h \in DOMAIN assoc : assoc[h] = i})
get_least_loaded_scheduler_id(ids) ==
    IF ids \ Noted # {} THEN ids \ Noted
    ELSE {i \in Noted : \A j \in Noted : Count(i) <= Count(j)}

Index(seq, e) == CHOOSE i \in DOMAIN seq : seq[i] = e

\* The realm at its turn has hosts but no scheduler, or has given all its packs.
NextRealm(r) ==
    /\ \/ /\ NoSpare(r) = <<>> /\ todo[r] # <<>>
          /\ errors' = TRUE /\ todo' = [todo EXCEPT ![r] = <<>>] /\ UNCHANGED packs
       \/ /\ todo[r] = <<>>
          /\ packs' = [packs EXCEPT ![r] = IF @ = <<>> THEN [i \in DOMAIN NoSpare(r) |-> {}] ELSE @]
          /\ UNCHANGED <<errors, todo>>
    /\ assoc' = <<>>
    /\ IF rnow = Len(RealmSeq) THEN phase' = "parts" /\ rnow' = 1
       ELSE rnow' = rnow + 1 /\ UNCHANGED phase

\* A pack is given to a scheduler; what is noted of its hosts is i, which the loop
\* before left at the last index.
GivePack(r) ==
    /\ NoSpare(r) # <<>> /\ todo[r] # <<>>
    /\ LET pack == Head(todo[r])
           before == IF packs[r] = <<>> THEN [i \in DOMAIN NoSpare(r) |-> {}] ELSE packs[r] IN
       /\ \E s \in get_least_loaded_scheduler_id(ToSet(NoSpare(r))) :
            packs' = [packs EXCEPT ![r] = [before EXCEPT ![Index(NoSpare(r), s)] = @ \cup pack]]
       /\ assoc' = [h \in DOMAIN assoc \cup pack |->
                        IF h \in pack THEN Len(NoSpare(r)) - 1 ELSE assoc[h]]
       /\ todo' = [todo EXCEPT ![r] = Tail(@)]
    /\ UNCHANGED <<phase, errors, rnow>>

\* The second half of create_packs.
BalanceRealm ==
    /\ phase = "balance"
    /\ NextRealm(RealmSeq[rnow]) \/ GivePack(RealmSeq[rnow])
    /\ UNCHANGED <<input, confs, rconfs, children, q, sent, deaths>>

-----------------------------------------------------------------------------
(* Parts.                                                                  *)

\* The offset of the k-th realm: the parts of the realms before it.
Offset(k) ==
    LET before[j \in 0..Len(RealmSeq)] ==
          IF j = 0 THEN 0 ELSE before[j - 1] + Len(packs[RealmSeq[j]])
    IN before[k - 1]

\* The numbers of the parts of the k-th realm.
PartIds(k) == {Offset(k) + i - 1 : i \in DOMAIN packs[RealmSeq[k]]}

\* cut_into_parts after create_packs; the arbiter exits when there are errors.
CutIntoParts ==
    /\ phase = "parts"
    /\ phase' = IF errors THEN "exit" ELSE "serialize"
    /\ confs' = [c \in UNION {PartIds(k) : k \in DOMAIN RealmSeq} |->
                    UNION {packs[RealmSeq[k]][c - Offset(k) + 1] :
                           k \in {j \in DOMAIN RealmSeq : c \in PartIds(j)}}]
    /\ rconfs' = [r \in Realms |-> PartIds(Index(RealmSeq, r))]
    /\ UNCHANGED <<input, errors, todo, packs, assoc, children, rnow, q, sent, deaths>>

-----------------------------------------------------------------------------
(* prepare_for_sending.                                                    *)

Current == RealmSeq[rnow]

Advance == IF rnow = Len(RealmSeq) THEN phase' = "ready" /\ UNCHANGED rnow
           ELSE rnow' = rnow + 1 /\ UNCHANGED phase

\* The arbiter serializes the parts of a realm itself.
Serialize ==
    /\ phase = "serialize" /\ ~multi
    /\ sent' = [sent EXCEPT ![Current] = rconfs[Current]]
    /\ Advance
    /\ UNCHANGED <<input, errors, todo, packs, assoc, confs, rconfs, children, q, deaths>>

\* It starts a child for each part of the realm.
StartChildren ==
    /\ phase = "serialize" /\ multi
    /\ children' = rconfs[Current] /\ phase' = "wait"
    /\ UNCHANGED <<input, errors, todo, packs, assoc, confs, rconfs, rnow, q, sent, deaths>>

\* A child puts its result in the list, or dies before.
ChildEnds(c) ==
    /\ c \in children /\ children' = children \ {c}
    /\ \/ q' = q \cup {c} /\ UNCHANGED deaths
       \/ deaths < MaxDeaths /\ deaths' = deaths + 1 /\ UNCHANGED q
    /\ UNCHANGED <<phase, input, errors, todo, packs, assoc, confs, rconfs, rnow, sent>>

\* The list is not emptied between realms.
CountIsGood == Cardinality(q) = Cardinality(rconfs[Current])

\* All children have ended: the results are counted and taken.
JoinChildren ==
    /\ phase = "wait" /\ children = {}
    /\ IF CountIsGood
       THEN /\ sent' = [sent EXCEPT ![Current] = q]
            /\ IF rnow = Len(RealmSeq) THEN phase' = "ready" /\ UNCHANGED rnow
               ELSE rnow' = rnow + 1 /\ phase' = "serialize"
       ELSE phase' = "exit" /\ UNCHANGED <<sent, rnow>>
    /\ UNCHANGED <<input, errors, todo, packs, assoc, confs, rconfs, children, q, deaths>>

-----------------------------------------------------------------------------
Next ==
    \/ CreatePacks \/ BalanceRealm \/ CutIntoParts
    \/ Serialize \/ StartChildren \/ JoinChildren
    \/ \E c \in children : ChildEnds(c)

\* The arbiter goes on by itself and its children end.
Spec == Init /\ [][Next]_vars /\ WF_vars(Next)

-----------------------------------------------------------------------------
(* Properties.                                                             *)

\* The host is among its parents, theirs, and so on.
OnLoop(h) == h \in Reach(parents, {e[2] : e \in {x \in parents : x[1] = h}})
Related(h) == Reach(LinkGraph, {h})

\* Each host is in one pack, with just the hosts it is related to.
AreComponents(all, links) ==
    /\ all \in Seq(SUBSET Hosts)
    /\ \A h \in Hosts : h \in Reach(links, {h}) /\ \E i \in DOMAIN all : all[i] = Reach(links, {h})
    /\ \A i \in DOMAIN all : all[i] # {} /\ \A h \in all[i] : all[i] = Reach(links, {h})
    /\ \A i, j \in DOMAIN all : all[i] = all[j] => i = j

\* graph.py get_accessibility_packs: "in one pack, element are related in a way. Between
\* packs, there is no relation at all."
PacksAreRelated == phase = "packs" => AreComponents(get_accessibility_packs(LinkGraph), LinkGraph)

\* graph.py loop_check: "if return [], no loop": the configuration is refused for a
\* loop of parents exactly when there is one, whatever the order of the hosts.
LoopFound == phase = "packs" =>
    ((loop_check(ParentGraph) = {}) <=> (\A h \in Hosts : ~OnLoop(h)))

\* A configuration that is not refused has every host in exactly one part, with all
\* the hosts it is related to, and the part is one of its own realm, that only
\* schedulers of the realm are given (create_packs, cut_into_parts).
EveryHostOnce == phase \in {"serialize", "wait", "ready"} =>
    \A h \in Hosts :
        \E c \in DOMAIN confs :
            /\ \A d \in DOMAIN confs : h \in confs[d] <=> d = c
            /\ Related(h) \subseteq confs[c]
            /\ \A r \in Realms : c \in rconfs[r] <=>
                    r = (IF RealmsOf(Related(h)) = {} THEN DefaultRealm
                         ELSE CHOOSE x \in RealmsOf(Related(h)) : TRUE)
            /\ realm[h] # None => c \in rconfs[realm[h]]

\* What the dispatcher will send is complete, if no child dies: when the arbiter goes
\* on, every part of every realm has been serialized in that realm, and no part of
\* another (prepare_for_sending).
SentIsComplete == phase = "ready" /\ deaths = 0 => \A r \in Realms : sent[r] = rconfs[r]

\* The arbiter never waits for ever while it loads.
Loaded == phase \in {"ready", "exit"}

=============================================================================
