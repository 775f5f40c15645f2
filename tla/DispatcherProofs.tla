-------------------------- MODULE DispatcherProofs --------------------------
(***************************************************************************)
(* The safety invariants of Dispatcher.tla, proved for any lists of        *)
(* schedulers and satellites, any parts and any failures.                  *)
(*                                                                         *)
(* IInv is inductive.  AssignmentIsMutual is not: check_alive asks for a   *)
(* part for a scheduler that is dead and still has one, and dispatch gives *)
(* parts to whoever asks.  That check_dispatch takes the part back before  *)
(* needs the order of the turn (NeedsPart), that the parts dispatch visits *)
(* are free (FreeParts), and that a link is visited once (VisitedOnce).    *)
(* FlavorTells needs the same of the entries that are not yet with a       *)
(* daemon (EntriesTell), and TypeOK that a part which satellites are told  *)
(* of was pushed (Flavored).                                               *)
(***************************************************************************)
EXTENDS Dispatcher, ListProofs, SequenceTheorems, TLAPS

\* sched.conf is one part or None.
OnePart == \A s \in Schedulers : conf[s] = {} \/ \E c \in Confs : conf[s] = {c}

\* A part that is assigned was pushed, and so was a part satellites are told of.
Flavored ==
    /\ \A c \in Confs : assigned_to[c] # {} => push_flavor[c] # 0
    /\ pc = "dispatch" => \A c \in need_dispatch \ confs : push_flavor[c] # 0
    /\ pc = "satellites" => \A c \in confs : push_flavor[c] # 0

\* dispatch visits the parts that nobody has.
FreeParts == pc = "dispatch" => \A c \in confs : assigned_to[c] = {}

\* The links check_alive has still to visit are not those it visited.
VisitedOnce ==
    pc = "check_alive" => \A i, j \in 1..Len(todo) : todo[i] = todo[j] => i = j

\* A scheduler that needs a part has none, or it is dead, check_alive is done with
\* it and check_dispatch will take its part away.
NeedsPart ==
    \A s \in need_conf :
        \/ conf[s] = {}
        \/ /\ ~alive[s]
           /\ \/ pc = "check_alive" /\ \A i \in 1..Len(todo) : todo[i] # s
              \/ pc = "check_dispatch"

\* The satellites are visited when satellites are told.
TodoSatellites ==
    pc = "satellites" => todo \in Seq(Satellites)

\* An entry with the present flavor of a part that is assigned says where it is.
Tells(x) == (assigned_to[x.c] # {} /\ x.f = push_flavor[x.c]) => x.s \in assigned_to[x.c]

\* Every entry there is tells, and a scheduler is sent entries of its own.
EntriesTell ==
    /\ \A e \in Elements : \A x \in has[e] \cup new_conf[e] :
         Tells(x) /\ (e \in Schedulers => e = x.s)
    /\ \A c \in Confs : \A x \in to_satellites[c] : Tells(x)
    /\ \A k \in Satellites : \A x \in cfg[k] : Tells(x)

IInv ==
    /\ TypeOK /\ OnePart /\ Flavored /\ FreeParts /\ VisitedOnce /\ NeedsPart
    /\ TodoSatellites /\ AssignmentIsMutual /\ EntriesTell

-----------------------------------------------------------------------------
(* Lists *)

LEMMA ListTypes ==
    /\ schedulers \in Seq(Schedulers) /\ schedulers \in Seq(Elements)
    /\ satellites \in Seq(Satellites) /\ satellites \in Seq(Elements)
    /\ Schedulers \subseteq Elements /\ Satellites \subseteq Elements
  BY ElementsAssumption, SeqMonotonic DEF Elements

\* A turn starts with every link once.
LEMMA AllLinks ==
    /\ schedulers \o satellites \in Seq(Elements)
    /\ \A i, j \in 1..Len(schedulers \o satellites) :
         (schedulers \o satellites)[i] = (schedulers \o satellites)[j] => i = j
<1> DEFINE all == schedulers \o satellites
           n == Len(schedulers)
<1>1. all \in Seq(Elements) /\ n \in Nat /\ Len(satellites) \in Nat
      /\ Len(all) = n + Len(satellites)
  BY ListTypes
<1>2. \A i \in 1..Len(all) :
        all[i] = IF i <= n THEN schedulers[i] ELSE satellites[i - n]
  BY ListTypes
<1>3. ASSUME NEW i \in 1..Len(all), NEW j \in 1..Len(all), all[i] = all[j]
      PROVE  i = j
  <2>1. \A m \in 1..n : schedulers[m] \in Schedulers
    BY ListTypes
  <2>2. \A m \in 1..Len(satellites) : satellites[m] \in Satellites
    BY ListTypes
  <2>3. DOMAIN schedulers = 1..n /\ DOMAIN satellites = 1..Len(satellites)
    BY ListTypes
  <2>4. CASE i <= n /\ j <= n
    BY <1>1, <1>2, <1>3, <2>3, <2>4, ElementsAssumption
  <2>5. CASE i > n /\ j > n
    <3>1. i - n \in DOMAIN satellites /\ j - n \in DOMAIN satellites
      BY <1>1, <2>3, <2>5
    <3>2. satellites[i - n] = satellites[j - n]
      BY <1>1, <1>2, <1>3, <2>5
    <3>3. i - n = j - n
      BY <3>1, <3>2, ElementsAssumption
    <3> QED
      BY <1>1, <3>3
  <2>6. CASE (i <= n /\ j > n) \/ (i > n /\ j <= n)
    <3>1. \A m \in 1..Len(all) : m <= n => all[m] \in Schedulers
      BY <1>1, <1>2, <2>1
    <3>2. \A m \in 1..Len(all) : m > n => all[m] \in Satellites
      <4>1. ASSUME NEW m \in 1..Len(all), m > n PROVE m - n \in 1..Len(satellites)
        BY <1>1, <4>1
      <4> QED
        BY <1>1, <1>2, <2>2, <4>1
    <3> HIDE DEF all, n
    <3> QED
      BY <1>3, <2>6, <3>1, <3>2, ElementsAssumption
  <2> QED
    BY <1>1, <2>4, <2>5, <2>6
<1> QED
  BY <1>1, <1>3

\* The lists dispatch goes through.
LEMMA InOrderType ==
    ASSUME NEW S, NEW seq \in Seq(S)
    PROVE  InOrder(seq) \in Seq(S)
<1> DEFINE living == {e \in Elements : alive[e]}
<1>1. Filter(seq, living \ spare) \in Seq(S) /\ Filter(seq, living \cap spare) \in Seq(S)
  BY FilterType
<1> QED
  BY <1>1 DEF InOrder

LEMMA RotatedType ==
    ASSUME NEW seq \in Seq(Satellites), seq # <<>>, NEW c \in Nat
    PROVE  Rotated(seq, c) \in Seq(Satellites)
<1> DEFINE n == Len(seq)
           idx == c % n
           stop == IF idx <= 1 THEN 1 - idx ELSE n + 1 - idx
           rest == SubSeq(seq, idx + 1, n)
           new == {k \in Satellites : \A i \in DOMAIN rest : rest[i] # k}
<1>1. n \in Nat /\ n > 0
  OBVIOUS
<1>2. idx \in 0..(n - 1)
  BY <1>1
<1>3. stop \in 0..n
  <2> HIDE DEF idx, n
  <2> QED
    BY <1>1, <1>2
<1>4. \A i \in 1..n : seq[i] \in Satellites
  OBVIOUS
<1> HIDE DEF idx, stop, n
<1>5. rest \in Seq(Satellites)
  BY <1>1, <1>2, <1>4, SubSeqProperties
<1>6. SubSeq(seq, 1, stop) \in Seq(Satellites)
  BY <1>1, <1>3, <1>4, SubSeqProperties
<1>7. Filter(SubSeq(seq, 1, stop), new) \in Seq(Satellites)
  BY <1>6, FilterType
<1>8. Rotated(seq, c) = rest \o Filter(SubSeq(seq, 1, stop), new)
  BY DEF Rotated, idx, stop, n
<1> HIDE DEF rest, new
<1> QED
  BY <1>5, <1>7, <1>8

LEMMA CandidatesType ==
    ASSUME NEW c \in Nat
    PROVE  Candidates(c) \in Seq(Satellites)
<1> DEFINE sats == Filter(InOrder(satellites), {k \in Satellites : reachable[k]})
           nospare == Filter(sats, Satellites \ spare)
<1>1. sats \in Seq(Satellites)
  BY ListTypes, InOrderType, FilterType
<1> HIDE DEF sats
<1>2. nospare \in Seq(Satellites) /\ Filter(sats, spare) \in Seq(Satellites)
  BY <1>1, FilterType
<1> HIDE DEF nospare
<1>3. nospare # <<>> => Rotated(nospare, c) \in Seq(Satellites)
  BY <1>2, RotatedType
<1>4. Candidates(c) = IF OneOnly /\ nospare # <<>>
                      THEN Rotated(nospare, c) \o Filter(sats, spare) ELSE sats
  BY DEF Candidates, sats, nospare
<1> QED
  BY <1>1, <1>2, <1>3, <1>4

LEMMA NextPartType ==
    ASSUME NEW cs, cs \subseteq Confs, NextPart(cs)
    PROVE  confs' = cs /\ todo' \in Seq(Satellites)
<1>1. CASE cs = {}
  BY <1>1 DEF NextPart
<1>2. CASE cs # {}
  <2>1. \E c \in cs : \A d \in cs : c <= d
    BY <1>2, Smallest, NumbersAssumption
  <2> DEFINE first == CHOOSE c \in cs : \A d \in cs : c <= d
  <2>2. first \in cs
    BY <2>1
  <2> HIDE DEF first
  <2>3. first \in Nat
    BY <2>2, NumbersAssumption
  <2>4. todo' = Candidates(first)
    BY <1>2 DEF NextPart, first
  <2> QED
    BY <2>3, <2>4, CandidatesType DEF NextPart
<1> QED
  BY <1>1, <1>2

-----------------------------------------------------------------------------
(* Every step keeps the types *)

LEMMA ManagedType ==
    ASSUME TypeOK, NEW e \in Elements
    PROVE  Managed(e) \in SUBSET Pushed
<1>1. \A x \in has[e] : x.c \in Confs /\ x.f \in Flavors
  BY DEF TypeOK, Entries
<1> QED
  BY <1>1 DEF Managed, Pushed

LEMMA PutConfType ==
    ASSUME TypeOK, NEW e \in Elements, NEW entries \in SUBSET Entries, NEW b,
           PutConf(e, entries, b)
    PROVE  /\ net' \in [Elements -> {"ok", "cut", "down"}]
           /\ new_conf' \in [Elements -> SUBSET Entries]
           /\ has' \in [Elements -> SUBSET Entries]
           /\ runs' \subseteq Schedulers
           /\ faults' \in 0..MaxFaults
<1>1. faults' \in 0..MaxFaults
  BY NumbersAssumption DEF PutConf, TypeOK, Fault
<1>2. CASE new_conf' = [new_conf EXCEPT ![e] = entries] /\ runs' = runs \ {e}
           /\ UNCHANGED <<net, has>>
  BY <1>1, <1>2 DEF TypeOK
<1>3. CASE UNCHANGED daemonVars
  BY <1>1, <1>3 DEF TypeOK, daemonVars
<1> QED
  BY <1>2, <1>3 DEF PutConf

LEMMA NextTurnType ==
    ASSUME TypeOK, NextTurn
    PROVE  /\ pc' = "check_alive" /\ todo' \in Seq(Elements)
           /\ since' \in 0..(check_interval - 1)
           /\ todo' = schedulers \o satellites
  BY AllLinks, NumbersAssumption DEF NextTurn, TypeOK

LEMMA EndDispatchType ==
    ASSUME TypeOK, EndDispatch
    PROVE  /\ pc' \in {"check_alive", "bad_schedulers"} /\ todo' \in Seq(Elements)
           /\ since' \in 0..(check_interval - 1)
           /\ looping' \in BOOLEAN /\ confs' = {}
           /\ pc' = "check_alive" => todo' = schedulers \o satellites
  BY NextTurnType, EmptySeq DEF EndDispatch, TypeOK

LEMMA check_aliveType ==
    ASSUME TypeOK, NEW e \in Elements, check_alive(e)
    PROVE  TypeOK'
<1>1. todo' \in Seq(Elements)
  BY HeadTailProperties DEF TypeOK, check_alive
<1>2. need_conf' \subseteq Schedulers
  BY DEF TypeOK, check_alive
<1>3. /\ alive' \in [Elements -> BOOLEAN]
      /\ reachable' \in [Elements -> BOOLEAN]
      /\ attempt' \in [Elements -> 0..max_check_attempts]
      /\ managed_confs' \in [Elements -> SUBSET Pushed]
      /\ faults' \in 0..MaxFaults /\ early' \in 0..MaxEarly
  <2>1. CASE since # 0
    BY <2>1 DEF TypeOK, check_alive, linkVars
  <2>2. CASE since = 0
    <3>1. PICK ok \in BOOLEAN, list \in BOOLEAN :
            /\ IF net[e] = "ok" /\ ~(ok /\ list) THEN Fault ELSE UNCHANGED faults
            /\ IF list /\ new_conf[e] # {}
               THEN early < MaxEarly /\ early' = early + 1 ELSE UNCHANGED early
            /\ ping(e, ok)
            /\ update_managed_list(e, list)
      BY <2>2 DEF check_alive
    <3>2. managed_confs' \in [Elements -> SUBSET Pushed]
      BY <3>1, ManagedType DEF TypeOK, update_managed_list
    <3>3. faults' \in 0..MaxFaults
      BY <3>1, NumbersAssumption DEF TypeOK, Fault
    <3>4. early' \in 0..MaxEarly
      BY <3>1, NumbersAssumption DEF TypeOK
    <3>5. attempt' \in [Elements -> 0..max_check_attempts]
      BY <3>1, NumbersAssumption DEF TypeOK, ping
    <3>6. alive' \in [Elements -> BOOLEAN] /\ reachable' \in [Elements -> BOOLEAN]
      BY <3>1 DEF TypeOK, ping
    <3> QED
      BY <3>2, <3>3, <3>4, <3>5, <3>6
  <2> QED
    BY <2>1, <2>2
<1> QED
  BY <1>1, <1>2, <1>3 DEF TypeOK, check_alive, realmVars, daemonVars

LEMMA check_dispatchType ==
    ASSUME TypeOK, check_dispatch
    PROVE  TypeOK'
<1>1. todo' \in Seq(Elements)
  BY InOrderType, ListTypes DEF check_dispatch
<1>2. confs' \subseteq Confs
  BY DEF check_dispatch
<1>3. /\ assigned_to' \in [Confs -> SUBSET Schedulers]
      /\ push_flavor' \in [Confs -> Flavors \cup {0}]
      /\ conf' \in [Schedulers -> SUBSET Confs]
  BY DEF check_dispatch, TypeOK
<1>4. need_conf' \subseteq Schedulers
  <2> DEFINE schds == UNION {assigned_to[c] : c \in Lost}
  <2>1. \A c \in Lost : c \in Confs
    BY DEF Lost
  <2>2. schds \subseteq Schedulers
    BY <2>1 DEF TypeOK
  <2>3. need_conf' = need_conf \cup schds
    BY DEF check_dispatch
  <2> HIDE DEF schds
  <2> QED
    BY <2>2, <2>3 DEF TypeOK
<1>5. managed_by' \in [Confs -> SUBSET Satellites] /\ need_dispatch' \subseteq Confs
  BY DEF check_dispatch, TypeOK
<1>6. dispatch_ok' \in BOOLEAN
  BY DEF check_dispatch, TypeOK
<1> QED
  BY <1>1, <1>2, <1>3, <1>4, <1>5, <1>6
     DEF TypeOK, check_dispatch, linkVars, daemonVars

LEMMA dispatch_confType ==
    ASSUME TypeOK, NEW c \in Confs, dispatch_conf(c)
    PROVE  TypeOK'
<1>1. PICK s \in need_conf : s = Head(todo)
  BY DEF dispatch_conf
<1>2. s \in Schedulers /\ s \in Elements
  BY <1>1, ListTypes DEF TypeOK
<1>3. PICK f \in NewFlavors :
        /\ push_flavor' = [push_flavor EXCEPT ![c] = f]
        /\ \/ /\ PutConf(s, {[c |-> c, s |-> s, f |-> f]}, TRUE)
              /\ conf' = [conf EXCEPT ![s] = {c}]
              /\ need_conf' = need_conf \ {s}
              /\ assigned_to' = [assigned_to EXCEPT ![c] = {s}]
              /\ managed_confs' = [managed_confs EXCEPT ![s] = {[c |-> c, f |-> f]}]
              /\ to_satellites' = [to_satellites EXCEPT
                                     ![c] = {[c |-> c, s |-> s, f |-> f]}]
              /\ need_dispatch' = need_dispatch \cup {c}
              /\ managed_by' = [managed_by EXCEPT ![c] = {}]
              /\ confs' = confs \ {c}
           \/ /\ PutConf(s, {[c |-> c, s |-> s, f |-> f]}, FALSE)
              /\ UNCHANGED <<conf, need_conf, assigned_to, managed_confs, to_satellites,
                             need_dispatch, managed_by, confs>>
  BY <1>1 DEF dispatch_conf
<1>4. f \in Flavors
  BY <1>3 DEF NewFlavors
<1>5. [c |-> c, s |-> s, f |-> f] \in Entries /\ [c |-> c, f |-> f] \in Pushed
  BY <1>2, <1>4 DEF Entries, Pushed
<1>6. /\ net' \in [Elements -> {"ok", "cut", "down"}]
      /\ new_conf' \in [Elements -> SUBSET Entries]
      /\ has' \in [Elements -> SUBSET Entries]
      /\ runs' \subseteq Schedulers
      /\ faults' \in 0..MaxFaults
  BY <1>2, <1>3, <1>5, PutConfType
<1>7. todo' \in Seq(Elements)
  BY HeadTailProperties DEF TypeOK, dispatch_conf
<1>8. push_flavor' \in [Confs -> Flavors \cup {0}]
  BY <1>3, <1>4 DEF TypeOK
<1>9. /\ conf' \in [Schedulers -> SUBSET Confs]
      /\ need_conf' \subseteq Schedulers
      /\ assigned_to' \in [Confs -> SUBSET Schedulers]
  <2>1. {c} \in SUBSET Confs /\ {s} \in SUBSET Schedulers
    BY <1>2
  <2>2. /\ conf \in [Schedulers -> SUBSET Confs]
        /\ need_conf \subseteq Schedulers
        /\ assigned_to \in [Confs -> SUBSET Schedulers]
    BY DEF TypeOK
  <2>3. \/ /\ conf' = [conf EXCEPT ![s] = {c}]
           /\ need_conf' = need_conf \ {s}
           /\ assigned_to' = [assigned_to EXCEPT ![c] = {s}]
        \/ UNCHANGED <<conf, need_conf, assigned_to>>
    BY <1>3
  <2> QED
    BY <2>1, <2>2, <2>3
<1>10. /\ need_dispatch' \subseteq Confs
       /\ managed_by' \in [Confs -> SUBSET Satellites]
       /\ confs' \subseteq Confs
  BY <1>3 DEF TypeOK
<1>11. /\ managed_confs' \in [Elements -> SUBSET Pushed]
       /\ to_satellites' \in [Confs -> SUBSET Entries]
  <2> DEFINE entry == [c |-> c, s |-> s, f |-> f]
             pushed == [c |-> c, f |-> f]
  <2>1. {entry} \in SUBSET Entries /\ {pushed} \in SUBSET Pushed
    BY <1>5
  <2>2. \/ /\ managed_confs' = [managed_confs EXCEPT ![s] = {pushed}]
           /\ to_satellites' = [to_satellites EXCEPT ![c] = {entry}]
        \/ UNCHANGED <<managed_confs, to_satellites>>
    BY <1>3
  <2>3. /\ managed_confs \in [Elements -> SUBSET Pushed]
        /\ to_satellites \in [Confs -> SUBSET Entries]
    BY DEF TypeOK
  <2> HIDE DEF entry, pushed
  <2> QED
    BY <2>1, <2>2, <2>3
<1> QED
  BY <1>6, <1>7, <1>8, <1>9, <1>10, <1>11 DEF TypeOK, dispatch_conf

LEMMA dispatch_satelliteType ==
    ASSUME TypeOK, TodoSatellites, Flavored, NEW c \in Confs, dispatch_satellite(c)
    PROVE  TypeOK' /\ todo' \in Seq(Satellites)
<1>1. PICK k : k = Head(todo)
  OBVIOUS
<1>2. todo \in Seq(Satellites) /\ todo # <<>> /\ c \in confs
  BY DEF TodoSatellites, dispatch_satellite, InTurn
<1>3. k \in Satellites /\ k \in Elements /\ Tail(todo) \in Seq(Satellites)
  BY <1>1, <1>2, ListTypes, HeadTailProperties
<1>4. push_flavor[c] \in Flavors
  BY <1>2 DEF TypeOK, Flavored, dispatch_satellite
<1>5. cfg' = [cfg EXCEPT ![k] = Update(@, to_satellites[c])]
  BY <1>1 DEF dispatch_satellite
<1>6. PICK is_sent \in BOOLEAN :
        /\ IF do_i_manage(k, c, push_flavor[c])
           THEN is_sent /\ UNCHANGED <<daemonVars, faults>>
           ELSE PutConf(k, cfg'[k], is_sent)
        /\ IF is_sent
           THEN /\ managed_confs' = [managed_confs EXCEPT ![k] =
                                       Update(@, {[c |-> c, f |-> push_flavor[c]]})]
                /\ managed_by' = [managed_by EXCEPT ![c] = @ \cup {k}]
                /\ todo' = IF OneOnly THEN <<>> ELSE Tail(todo)
           ELSE /\ todo' = Tail(todo)
                /\ UNCHANGED <<managed_confs, managed_by>>
  BY <1>1 DEF dispatch_satellite
<1>7. todo' \in Seq(Satellites) /\ todo' \in Seq(Elements)
  <2>1. todo' \in Seq(Satellites)
    BY <1>3, <1>6, EmptySeq
  <2> QED
    BY <2>1, ListTypes, SeqMonotonic
<1>8. cfg' \in [Satellites -> SUBSET Entries]
  <2>1. Update(cfg[k], to_satellites[c]) \in SUBSET Entries
    BY <1>3 DEF TypeOK, Update
  <2> QED
    BY <1>3, <1>5, <2>1 DEF TypeOK
<1>9. /\ net' \in [Elements -> {"ok", "cut", "down"}]
      /\ new_conf' \in [Elements -> SUBSET Entries]
      /\ has' \in [Elements -> SUBSET Entries]
      /\ runs' \subseteq Schedulers
      /\ faults' \in 0..MaxFaults
  <2>1. cfg'[k] \in SUBSET Entries
    BY <1>3, <1>8
  <2>2. CASE do_i_manage(k, c, push_flavor[c])
    BY <1>6, <2>2 DEF TypeOK, daemonVars
  <2>3. CASE ~do_i_manage(k, c, push_flavor[c])
    BY <1>3, <1>6, <2>1, <2>3, PutConfType
  <2> QED
    BY <2>2, <2>3
<1>10. managed_confs' \in [Elements -> SUBSET Pushed]
  <2>1. {[c |-> c, f |-> push_flavor[c]]} \in SUBSET Pushed
    BY <1>4 DEF Pushed
  <2>2. Update(managed_confs[k], {[c |-> c, f |-> push_flavor[c]]}) \in SUBSET Pushed
    BY <1>3, <2>1 DEF TypeOK, Update
  <2> QED
    BY <1>3, <1>6, <2>2 DEF TypeOK
<1>11. managed_by' \in [Confs -> SUBSET Satellites]
  <2>1. managed_by[c] \cup {k} \in SUBSET Satellites
    BY <1>3 DEF TypeOK
  <2>2. managed_by' = [managed_by EXCEPT ![c] = managed_by[c] \cup {k}]
        \/ UNCHANGED managed_by
    BY <1>6
  <2> QED
    BY <2>1, <2>2 DEF TypeOK
<1> QED
  BY <1>7, <1>8, <1>9, <1>10, <1>11 DEF TypeOK, dispatch_satellite, partVars

LEMMA TypeStep ==
    ASSUME TypeOK, TodoSatellites, Flavored, [Next]_vars
    PROVE  TypeOK' /\ TodoSatellites'
<1> USE NumbersAssumption
<1>1. ASSUME NEW e \in Elements, check_alive(e) PROVE TypeOK' /\ TodoSatellites'
  BY <1>1, check_aliveType DEF TodoSatellites, check_alive
<1>2. CASE AliveDone
  BY <1>2 DEF TypeOK, TodoSatellites, AliveDone, linkVars, partVars, realmVars, daemonVars
<1>3. CASE check_dispatch
  BY <1>3, check_dispatchType DEF TodoSatellites, check_dispatch
<1>4. CASE NothingToDispatch
  BY <1>4, EndDispatchType
     DEF TypeOK, TodoSatellites, NothingToDispatch, linkVars, partVars, realmVars, daemonVars
<1>5. ASSUME NEW c \in Confs, dispatch_conf(c) PROVE TypeOK' /\ TodoSatellites'
  BY <1>5, dispatch_confType DEF TodoSatellites, dispatch_conf
<1>6. ASSUME NEW c \in Confs, NoMoreSchedulers(c) PROVE TypeOK' /\ TodoSatellites'
  BY <1>6 DEF TypeOK, TodoSatellites, NoMoreSchedulers, linkVars, partVars, daemonVars
<1>7. CASE SkipScheduler
  <2>1. todo' \in Seq(Elements)
    BY <1>7, HeadTailProperties DEF TypeOK, SkipScheduler
  <2> QED
    BY <1>7, <2>1 DEF TypeOK, TodoSatellites, SkipScheduler, linkVars, partVars, realmVars,
                      daemonVars
<1>8. CASE ConfsDone
  <2>1. confs' = need_dispatch /\ todo' \in Seq(Satellites)
    BY <1>8, NextPartType DEF ConfsDone, TypeOK
  <2>2. todo' \in Seq(Elements)
    BY <2>1, ListTypes, SeqMonotonic
  <2> QED
    BY <1>8, <2>1, <2>2 DEF TypeOK, TodoSatellites, ConfsDone, linkVars, realmVars, daemonVars
<1>9. ASSUME NEW c \in Confs, dispatch_satellite(c) PROVE TypeOK' /\ TodoSatellites'
  BY <1>9, dispatch_satelliteType DEF TodoSatellites
<1>10. ASSUME NEW c \in Confs, SatellitesOfPartDone(c) PROVE TypeOK' /\ TodoSatellites'
  <2>1. confs' = confs \ {c} /\ todo' \in Seq(Satellites)
    BY <1>10, NextPartType DEF SatellitesOfPartDone, TypeOK
  <2>2. todo' \in Seq(Elements)
    BY <2>1, ListTypes, SeqMonotonic
  <2> QED
    BY <1>10, <2>1, <2>2
       DEF TypeOK, TodoSatellites, SatellitesOfPartDone, linkVars, partVars, daemonVars
<1>11. CASE SatellitesDone
  BY <1>11, EndDispatchType
     DEF TypeOK, TodoSatellites, SatellitesDone, linkVars, partVars, realmVars, daemonVars
<1>12. CASE BadSchedulers
  BY <1>12, ListTypes DEF TypeOK, TodoSatellites, BadSchedulers, linkVars, partVars, realmVars
<1>13. ASSUME NEW k \in Satellites, BadSatellite(k) PROVE TypeOK' /\ TodoSatellites'
  <2>1. todo' \in Seq(Elements)
    BY <1>13, HeadTailProperties DEF TypeOK, BadSatellite
  <2>2. has' \in [Elements -> SUBSET Entries] /\ faults' \in 0..MaxFaults
    <3>1. has' = [has EXCEPT ![k] = {}] \/ UNCHANGED has
      BY <1>13 DEF TypeOK, BadSatellite, RemoveFromConf
    <3>2. Fault \/ UNCHANGED faults
      BY <1>13 DEF BadSatellite
    <3>3. has \in [Elements -> SUBSET Entries] /\ faults \in 0..MaxFaults
      BY DEF TypeOK
    <3>4. has' \in [Elements -> SUBSET Entries]
      BY <3>1, <3>3
    <3>5. faults' \in 0..MaxFaults
      BY <3>2, <3>3 DEF Fault
    <3> QED
      BY <3>4, <3>5
  <2> QED
    BY <1>13, <2>1, <2>2 DEF TypeOK, TodoSatellites, BadSatellite, linkVars, partVars, realmVars
<1>14. CASE EndTurn
  BY <1>14, NextTurnType
     DEF TypeOK, TodoSatellites, EndTurn, linkVars, partVars, realmVars, daemonVars
<1>15. ASSUME NEW e \in Elements, setup_new_conf(e) PROVE TypeOK' /\ TodoSatellites'
  <2>1. new_conf[e] \in SUBSET Entries /\ Update(has[e], new_conf[e]) \in SUBSET Entries
    BY DEF TypeOK, Update
  <2>2. has' \in [Elements -> SUBSET Entries] /\ new_conf' \in [Elements -> SUBSET Entries]
    BY <1>15, <2>1 DEF TypeOK, setup_new_conf
  <2> QED
    BY <1>15, <2>2 DEF TypeOK, TodoSatellites, setup_new_conf, linkVars, partVars, realmVars
<1>16. ASSUME NEW e \in Elements, Crash(e) \/ CutOff(e) \/ ComesBack(e)
       PROVE  TypeOK' /\ TodoSatellites'
  <2>1. /\ net' \in [Elements -> {"ok", "cut", "down"}]
        /\ new_conf' \in [Elements -> SUBSET Entries]
        /\ has' \in [Elements -> SUBSET Entries]
        /\ runs' \subseteq Schedulers
        /\ faults' \in 0..MaxFaults
    <3>1. CASE Crash(e)
      BY <3>1 DEF TypeOK, Crash, Fault
    <3>2. CASE CutOff(e)
      BY <3>2 DEF TypeOK, CutOff, Fault
    <3>3. CASE ComesBack(e)
      BY <3>3 DEF TypeOK, ComesBack
    <3> QED
      BY <1>16, <3>1, <3>2, <3>3
  <2> QED
    BY <1>16, <2>1
       DEF TypeOK, TodoSatellites, Crash, CutOff, ComesBack, linkVars, partVars, realmVars
<1>17. CASE UNCHANGED vars
  BY <1>17 DEF TypeOK, TodoSatellites, vars, linkVars, partVars, realmVars, daemonVars
<1> QED
  BY <1>1, <1>2, <1>3, <1>4, <1>5, <1>6, <1>7, <1>8, <1>9, <1>10, <1>11, <1>12, <1>13,
     <1>14, <1>15, <1>16, <1>17 DEF Next, Arbiter

-----------------------------------------------------------------------------
(* Every step keeps the links and the parts in agreement *)

\* What is known of parts and their schedulers, in one formula.
Assigned ==
    /\ OnePart /\ FreeParts /\ VisitedOnce /\ NeedsPart /\ AssignmentIsMutual

\* A step that assigns nothing, and either goes on where it was, or leaves for a
\* place where nothing is assigned, or starts a turn.
Elsewhere ==
    /\ UNCHANGED <<conf, need_conf, assigned_to, alive>>
    /\ \/ UNCHANGED <<pc, todo, confs>>
       \/ pc = "dispatch" /\ pc' = "dispatch" /\ confs' \subseteq confs
       \/ /\ pc \notin {"check_alive", "check_dispatch"}
          /\ pc' \in {"satellites", "bad_schedulers", "bad_satellites"}
       \/ /\ pc \notin {"check_alive", "check_dispatch"}
          /\ pc' = "check_alive" /\ todo' = schedulers \o satellites

LEMMA ElsewhereStep ==
    ASSUME TypeOK, Assigned, Elsewhere
    PROVE  Assigned'
<1>1. OnePart' /\ AssignmentIsMutual'
  BY DEF Elsewhere, Assigned, OnePart, AssignmentIsMutual
<1>2. FreeParts'
  BY DEF Elsewhere, Assigned, FreeParts
<1>3. VisitedOnce'
  BY AllLinks DEF Elsewhere, Assigned, VisitedOnce
<1>4. NeedsPart'
  <2>1. CASE UNCHANGED <<pc, todo, confs>>
    BY <2>1 DEF Elsewhere, Assigned, NeedsPart
  <2>2. CASE pc \notin {"check_alive", "check_dispatch"}
    <3>1. \A s \in need_conf : conf[s] = {}
      BY <2>2 DEF Assigned, NeedsPart
    <3> QED
      BY <3>1 DEF Elsewhere, NeedsPart
  <2> QED
    BY <2>1, <2>2 DEF Elsewhere
<1> QED
  BY <1>1, <1>2, <1>3, <1>4 DEF Assigned

\* A dead scheduler that has a part is not visited again in this turn.
LEMMA check_aliveAssigned ==
    ASSUME TypeOK, Assigned, NEW e \in Elements, check_alive(e)
    PROVE  Assigned'
<1>1. OnePart' /\ AssignmentIsMutual'
  BY DEF check_alive, Assigned, OnePart, AssignmentIsMutual
<1>2. FreeParts'
  BY DEF check_alive, Assigned, FreeParts
<1>3. /\ pc = "check_alive" /\ pc' = "check_alive" /\ e = todo[1]
      /\ Len(todo) \in Nat \ {0} /\ Len(todo') = Len(todo) - 1
      /\ \A i \in 1..Len(todo') : todo'[i] = todo[i + 1]
  BY EmptySeq, HeadTailProperties DEF check_alive, TypeOK
<1>4. \A i, j \in 1..Len(todo) : todo[i] = todo[j] => i = j
  BY <1>3 DEF Assigned, VisitedOnce
<1>5. VisitedOnce'
  BY <1>3, <1>4 DEF VisitedOnce
<1>6. \A i \in 1..Len(todo') : todo'[i] # e
  BY <1>3, <1>4
<1>7. \A d \in Elements : d # e => alive'[d] = alive[d]
  <2>1. CASE since # 0
    BY <2>1 DEF check_alive, linkVars
  <2>2. CASE since = 0
    <3>1. PICK ok : ping(e, ok)
      BY <2>2 DEF check_alive
    <3> QED
      BY <3>1 DEF ping, TypeOK
  <2> QED
    BY <2>1, <2>2
<1>8. ASSUME NEW s \in need_conf', conf[s] # {}
      PROVE  ~alive'[s] /\ \A i \in 1..Len(todo') : todo'[i] # s
  <2>1. CASE s = e
    <3>1. s \in need_conf => \A i \in 1..Len(todo) : todo[i] # s
      BY <1>3, <1>8 DEF Assigned, NeedsPart
    <3>2. s \notin need_conf
      BY <1>3, <2>1, <3>1
    <3>3. ~alive'[s]
      BY <1>8, <2>1, <3>2 DEF check_alive
    <3> QED
      BY <1>6, <2>1, <3>3
  <2>2. CASE s # e
    <3>1. s \in need_conf
      BY <1>8, <2>2 DEF check_alive
    <3>2. ~alive[s] /\ \A i \in 1..Len(todo) : todo[i] # s
      BY <1>3, <1>8, <3>1 DEF Assigned, NeedsPart
    <3>3. alive'[s] = alive[s]
      BY <1>7, <2>2, <3>1, ListTypes DEF TypeOK
    <3> QED
      BY <1>3, <3>2, <3>3
  <2> QED
    BY <2>1, <2>2
<1>9. NeedsPart'
  <2>1. conf' = conf
    BY DEF check_alive
  <2> QED
    BY <1>3, <1>8, <2>1 DEF NeedsPart
<1> QED
  BY <1>1, <1>2, <1>5, <1>9 DEF Assigned

\* check_dispatch takes from the parts that are lost, and from nothing else, the
\* schedulers that have them; nobody who is dead keeps one.
LEMMA check_dispatchAssigned ==
    ASSUME TypeOK, Assigned, check_dispatch
    PROVE  Assigned'
<1> DEFINE schds == UNION {assigned_to[c] : c \in Lost}
           dropped == UNION {conf[s] : s \in schds}
<1>1. \A s : s \in schds <=> \E c \in Lost : s \in assigned_to[c]
  BY Zenon
<1>2. \A c : c \in dropped <=> \E s \in schds : c \in conf[s]
  BY Zenon
<1>3. /\ assigned_to' = [c \in Confs |-> IF c \in dropped THEN {} ELSE assigned_to[c]]
      /\ conf' = [s \in Schedulers |-> IF s \in schds THEN {} ELSE conf[s]]
      /\ need_conf' = need_conf \cup schds
  BY DEF check_dispatch
<1> HIDE DEF schds, dropped
<1>4. \A c \in Confs, s \in Schedulers : s \in assigned_to[c] <=> conf[s] = {c}
  BY DEF Assigned, AssignmentIsMutual
<1>5. Lost \subseteq Confs /\ schds \subseteq Schedulers
  <2>1. Lost \subseteq Confs
    BY DEF Lost
  <2> QED
    BY <1>1, <2>1 DEF TypeOK
<1>6. ASSUME NEW c \in dropped PROVE c \in Lost
  <2>1. PICK s \in schds : c \in conf[s]
    BY <1>2
  <2>2. PICK d \in Lost : s \in assigned_to[d]
    BY <1>1, <2>1
  <2>3. conf[s] = {d}
    BY <1>4, <1>5, <2>1, <2>2
  <2>4. c = d
    BY <2>1, <2>3, Zenon
  <2> QED
    BY <2>2, <2>4, Zenon
<1>7. \A c \in dropped : \A s \in assigned_to[c] : s \in schds
  BY <1>1, <1>6
<1>8. \A s \in schds, c \in Confs : s \in assigned_to[c] => c \in dropped
  BY <1>2, <1>4, <1>5
<1>9. AssignmentIsMutual'
  <2> SUFFICES ASSUME NEW c \in Confs, NEW s \in Schedulers
               PROVE  s \in assigned_to'[c] <=> conf'[s] = {c}
    BY DEF AssignmentIsMutual
  <2>1. CASE s \in schds
    BY <1>3, <1>8, <2>1
  <2>2. CASE s \notin schds
    BY <1>3, <1>4, <1>7, <2>2
  <2> QED
    BY <2>1, <2>2
<1>10. OnePart'
  BY <1>3 DEF Assigned, OnePart
<1>11. FreeParts' /\ VisitedOnce'
  BY DEF check_dispatch, FreeParts, VisitedOnce
<1>12. NeedsPart'
  <2> SUFFICES ASSUME NEW s \in need_conf' PROVE conf'[s] = {}
    BY DEF NeedsPart
  <2>1. s \in Schedulers
    BY <1>3, <1>5 DEF TypeOK
  <2>2. CASE s \in schds
    BY <1>3, <2>1, <2>2
  <2>3. CASE s \notin schds /\ conf[s] # {}
    <3>1. ~alive[s]
      BY <1>3, <2>3 DEF Assigned, NeedsPart
    <3>2. PICK c \in Confs : conf[s] = {c}
      BY <2>1, <2>3 DEF Assigned, OnePart
    <3>3. s \in assigned_to[c]
      BY <1>4, <2>1, <3>2
    <3>4. c \in Lost
      BY <3>1, <3>3 DEF Lost
    <3> QED
      BY <1>1, <2>3, <3>3, <3>4
  <2>4. CASE s \notin schds /\ conf[s] = {}
    BY <1>3, <2>1, <2>4
  <2> QED
    BY <2>2, <2>3, <2>4
<1> QED
  BY <1>9, <1>10, <1>11, <1>12 DEF Assigned

\* A free part goes to a scheduler that has none.
LEMMA dispatch_confAssigned ==
    ASSUME TypeOK, Assigned, NEW c \in Confs, dispatch_conf(c)
    PROVE  Assigned'
<1>1. PICK s \in need_conf : s = Head(todo)
  BY DEF dispatch_conf
<1>2. s \in Schedulers
  BY <1>1 DEF TypeOK
<1>3. pc = "dispatch" /\ pc' = "dispatch" /\ c \in confs
  BY DEF dispatch_conf, InTurn
<1>4. conf[s] = {} /\ assigned_to[c] = {} /\ \A d \in need_conf : conf[d] = {}
  BY <1>1, <1>3 DEF Assigned, NeedsPart, FreeParts
<1>5. CASE /\ conf' = [conf EXCEPT ![s] = {c}]
           /\ need_conf' = need_conf \ {s}
           /\ assigned_to' = [assigned_to EXCEPT ![c] = {s}]
           /\ confs' = confs \ {c}
  <2>1. AssignmentIsMutual'
    <3> SUFFICES ASSUME NEW d \in Confs, NEW t \in Schedulers
                 PROVE  t \in assigned_to'[d] <=> conf'[t] = {d}
      BY DEF AssignmentIsMutual
    <3>1. t \in assigned_to[d] <=> conf[t] = {d}
      BY DEF Assigned, AssignmentIsMutual
    <3>2. t \in assigned_to[c] <=> conf[t] = {c}
      BY DEF Assigned, AssignmentIsMutual
    <3>3. /\ conf'[t] = IF t = s THEN {c} ELSE conf[t]
          /\ assigned_to'[d] = IF d = c THEN {s} ELSE assigned_to[d]
      BY <1>2, <1>5 DEF TypeOK
    <3> QED
      BY <1>4, <3>1, <3>2, <3>3
  <2>2. OnePart'
    BY <1>2, <1>5 DEF Assigned, OnePart, TypeOK
  <2>3. FreeParts'
    BY <1>3, <1>5 DEF Assigned, FreeParts, TypeOK
  <2>4. VisitedOnce'
    BY <1>3 DEF VisitedOnce
  <2>5. NeedsPart'
    BY <1>4, <1>5 DEF NeedsPart, TypeOK
  <2> QED
    BY <2>1, <2>2, <2>3, <2>4, <2>5 DEF Assigned
<1>6. CASE UNCHANGED <<conf, need_conf, assigned_to, confs>>
  BY <1>3, <1>6, ElsewhereStep DEF dispatch_conf, Elsewhere
<1> QED
  BY <1>1, <1>5, <1>6 DEF dispatch_conf

LEMMA AssignedStep ==
    ASSUME TypeOK, Assigned, [Next]_vars
    PROVE  Assigned'
<1>1. CASE AliveDone
  <2>1. UNCHANGED <<conf, need_conf, assigned_to, alive>>
        /\ pc = "check_alive" /\ pc' = "check_dispatch"
    BY <1>1 DEF AliveDone, partVars, linkVars
  <2> QED
    BY <2>1 DEF Assigned, OnePart, FreeParts, VisitedOnce, NeedsPart, AssignmentIsMutual
<1>2. CASE ConfsDone
  <2>1. UNCHANGED <<conf, assigned_to>> /\ need_conf' \subseteq need_conf
        /\ pc = "dispatch" /\ pc' = "satellites"
    BY <1>2 DEF ConfsDone
  <2>2. \A s \in need_conf : conf[s] = {}
    BY <2>1 DEF Assigned, NeedsPart
  <2> QED
    BY <2>1, <2>2 DEF Assigned, OnePart, FreeParts, VisitedOnce, NeedsPart, AssignmentIsMutual
<1>3. CASE NothingToDispatch \/ SatellitesDone
  BY <1>3, EndDispatchType, ElsewhereStep
     DEF NothingToDispatch, SatellitesDone, Elsewhere, linkVars, partVars
<1>4. CASE \/ SkipScheduler \/ BadSchedulers \/ EndTurn
           \/ \E c \in Confs : NoMoreSchedulers(c) \/ dispatch_satellite(c)
                                 \/ SatellitesOfPartDone(c)
           \/ \E k \in Satellites : BadSatellite(k)
  <2>1. Elsewhere
    BY <1>4 DEF SkipScheduler, BadSchedulers, EndTurn, NextTurn, NoMoreSchedulers,
                dispatch_satellite, SatellitesOfPartDone, BadSatellite, Elsewhere,
                linkVars, partVars
  <2> QED
    BY <2>1, ElsewhereStep
<1>5. CASE \E e \in Elements : setup_new_conf(e) \/ Crash(e) \/ CutOff(e) \/ ComesBack(e)
  <2>1. Elsewhere
    BY <1>5 DEF setup_new_conf, Crash, CutOff, ComesBack, Elsewhere, linkVars, partVars
  <2> QED
    BY <2>1, ElsewhereStep
<1>6. CASE UNCHANGED vars
  BY <1>6, ElsewhereStep DEF vars, Elsewhere, linkVars, partVars
<1> QED
  BY <1>1, <1>2, <1>3, <1>4, <1>5, <1>6, check_aliveAssigned, check_dispatchAssigned,
     dispatch_confAssigned DEF Next, Arbiter

-----------------------------------------------------------------------------
(* Every step keeps what the flavors say *)

\* push_flavor is set by dispatch_conf, and reset with the assignment.
LEMMA FlavoredStep ==
    ASSUME TypeOK, Flavored, Assigned, [Next]_vars
    PROVE  Flavored'
<1>1. CASE check_dispatch
  <2>1. PICK dropped :
          /\ assigned_to' = [c \in Confs |-> IF c \in dropped THEN {} ELSE assigned_to[c]]
          /\ push_flavor' = [c \in Confs |-> IF c \in dropped THEN 0 ELSE push_flavor[c]]
    BY <1>1 DEF check_dispatch
  <2>2. \A c \in Confs : assigned_to'[c] # {} => push_flavor'[c] # 0
    BY <2>1 DEF Flavored
  <2>3. pc' = "dispatch" /\ confs' = {c \in Confs : assigned_to'[c] = {}}
    BY <1>1 DEF check_dispatch
  <2>4. need_dispatch' \subseteq Confs
    BY <1>1, check_dispatchType DEF TypeOK
  <2>5. \A c \in need_dispatch' \ confs' : push_flavor'[c] # 0
    BY <2>2, <2>3, <2>4
  <2> QED
    BY <2>2, <2>3, <2>5 DEF Flavored
<1>2. ASSUME NEW c \in Confs, dispatch_conf(c) PROVE Flavored'
  <2>1. PICK f \in NewFlavors : push_flavor' = [push_flavor EXCEPT ![c] = f]
    BY <1>2 DEF dispatch_conf
  <2>2. f # 0
    BY <2>1, NumbersAssumption DEF NewFlavors
  <2>3. pc = "dispatch" /\ pc' = "dispatch"
    BY <1>2 DEF dispatch_conf
  <2>4. /\ \A d \in Confs : d # c => assigned_to'[d] = assigned_to[d]
        /\ need_dispatch' \ {c} \subseteq need_dispatch
        /\ confs \subseteq confs' \cup {c}
    BY <1>2 DEF dispatch_conf, TypeOK
  <2>5. \A d \in Confs : push_flavor'[d] = IF d = c THEN f ELSE push_flavor[d]
    BY <2>1 DEF TypeOK
  <2>6. need_dispatch' \subseteq Confs
    BY <1>2, dispatch_confType DEF TypeOK
  <2> QED
    BY <2>2, <2>3, <2>4, <2>5, <2>6 DEF Flavored
<1>3. CASE ConfsDone
  <2>1. UNCHANGED <<assigned_to, push_flavor>> /\ confs' = need_dispatch
        /\ pc = "dispatch" /\ pc' = "satellites" /\ confs = {}
    BY <1>3 DEF ConfsDone, NextPart
  <2> QED
    BY <2>1 DEF Flavored
<1>4. ASSUME NEW c \in Confs, SatellitesOfPartDone(c) PROVE Flavored'
  <2>1. UNCHANGED <<pc, assigned_to, push_flavor>> /\ confs' = confs \ {c}
        /\ pc = "satellites"
    BY <1>4 DEF SatellitesOfPartDone, NextPart, partVars
  <2> QED
    BY <2>1 DEF Flavored
<1>5. ASSUME NEW c \in Confs, NoMoreSchedulers(c) PROVE Flavored'
  <2>1. UNCHANGED <<pc, assigned_to, push_flavor>> /\ confs' = confs \ {c}
        /\ need_dispatch' = need_dispatch \ {c} /\ pc = "dispatch"
    BY <1>5 DEF NoMoreSchedulers, partVars
  <2> QED
    BY <2>1 DEF Flavored
<1>6. CASE NothingToDispatch \/ SatellitesDone
  <2>1. UNCHANGED <<assigned_to, push_flavor>> /\ pc' \in {"check_alive", "bad_schedulers"}
    BY <1>6, EndDispatchType DEF NothingToDispatch, SatellitesDone, partVars
  <2> QED
    BY <2>1 DEF Flavored
<1>7. CASE \/ AliveDone \/ SkipScheduler \/ BadSchedulers \/ EndTurn
           \/ \E c \in Confs : dispatch_satellite(c)
           \/ \E k \in Satellites : BadSatellite(k)
           \/ \E e \in Elements : check_alive(e)
  <2>1. /\ UNCHANGED <<assigned_to, push_flavor, need_dispatch, confs>>
        /\ pc' = pc \/ pc' \notin {"dispatch", "satellites"}
    BY <1>7 DEF AliveDone, SkipScheduler, BadSchedulers, EndTurn, NextTurn,
                dispatch_satellite, BadSatellite, check_alive, partVars, realmVars
  <2> QED
    BY <2>1 DEF Flavored
<1>8. CASE \E e \in Elements : setup_new_conf(e) \/ Crash(e) \/ CutOff(e) \/ ComesBack(e)
  <2>1. UNCHANGED <<pc, assigned_to, push_flavor, need_dispatch, confs>>
    BY <1>8 DEF setup_new_conf, Crash, CutOff, ComesBack, partVars, realmVars
  <2> QED
    BY <2>1 DEF Flavored
<1>9. CASE UNCHANGED vars
  BY <1>9 DEF vars, partVars, realmVars, Flavored
<1> QED
  BY <1>1, <1>2, <1>3, <1>4, <1>5, <1>6, <1>7, <1>8, <1>9 DEF Next, Arbiter

\* A flavor that dispatch_conf takes is in no entry.
LEMMA NewFlavorIsNew ==
    ASSUME TypeOK, NEW f \in NewFlavors
    PROVE  /\ \A e \in Elements : \A x \in has[e] \cup new_conf[e] : x.f # f
           /\ \A c \in Confs : \A x \in to_satellites[c] : x.f # f
           /\ \A k \in Satellites : \A x \in cfg[k] : x.f # f
<1>1. f \notin UsedFlavors
  BY DEF NewFlavors
<1>2. ASSUME NEW e \in Elements, NEW x \in has[e] \cup new_conf[e] PROVE x.f \in UsedFlavors
  <2> DEFINE at == {y.f : y \in managed_confs[e] \cup new_conf[e] \cup has[e]}
  <2>1. x.f \in at
    OBVIOUS
  <2>2. at \in {{y.f : y \in managed_confs[d] \cup new_conf[d] \cup has[d]} : d \in Elements}
    OBVIOUS
  <2> HIDE DEF at
  <2>3. x.f \in UNION {{y.f : y \in managed_confs[d] \cup new_conf[d] \cup has[d]} :
                         d \in Elements}
    BY <2>1, <2>2, Zenon
  <2> QED
    BY <2>3, Zenon DEF UsedFlavors
<1>3. ASSUME NEW c \in Confs, NEW x \in to_satellites[c] PROVE x.f \in UsedFlavors
  <2> DEFINE at == {y.f : y \in to_satellites[c]}
  <2>1. x.f \in at
    OBVIOUS
  <2>2. at \in {{y.f : y \in to_satellites[d]} : d \in Confs}
    OBVIOUS
  <2> HIDE DEF at
  <2>3. x.f \in UNION {{y.f : y \in to_satellites[d]} : d \in Confs}
    BY <2>1, <2>2, Zenon
  <2> QED
    BY <2>3, Zenon DEF UsedFlavors
<1>4. ASSUME NEW k \in Satellites, NEW x \in cfg[k] PROVE x.f \in UsedFlavors
  <2> DEFINE at == {y.f : y \in cfg[k]}
  <2>1. x.f \in at
    OBVIOUS
  <2>2. at \in {{y.f : y \in cfg[l]} : l \in Satellites}
    OBVIOUS
  <2> HIDE DEF at
  <2>3. x.f \in UNION {{y.f : y \in cfg[l]} : l \in Satellites}
    BY <2>1, <2>2, Zenon
  <2> QED
    BY <2>3, Zenon DEF UsedFlavors
<1> QED
  BY <1>1, <1>2, <1>3, <1>4

LEMMA EntriesStep ==
    ASSUME TypeOK, TodoSatellites, Assigned, EntriesTell, [Next]_vars
    PROVE  EntriesTell'
<1>1. CASE check_dispatch
  <2>1. PICK dropped :
          /\ assigned_to' = [c \in Confs |-> IF c \in dropped THEN {} ELSE assigned_to[c]]
          /\ push_flavor' = [c \in Confs |-> IF c \in dropped THEN 0 ELSE push_flavor[c]]
    BY <1>1 DEF check_dispatch
  <2>2. ASSUME NEW x, x.c \in Confs, Tells(x) PROVE Tells(x)'
    BY <2>1, <2>2 DEF Tells
  <2>3. \A x \in Entries : x.c \in Confs
    BY DEF Entries
  <2>4. UNCHANGED <<has, new_conf, to_satellites, cfg>>
    BY <1>1 DEF check_dispatch, daemonVars
  <2>5. ASSUME NEW e \in Elements, NEW x \in has'[e] \cup new_conf'[e]
        PROVE  Tells(x)' /\ (e \in Schedulers => e = x.s)
    <3>1. x \in Entries /\ x \in has[e] \cup new_conf[e]
      BY <2>4 DEF TypeOK
    <3> QED
      BY <2>2, <2>3, <3>1 DEF EntriesTell
  <2>6. ASSUME NEW c \in Confs, NEW x \in to_satellites'[c] PROVE Tells(x)'
    <3>1. x \in Entries /\ x \in to_satellites[c]
      BY <2>4 DEF TypeOK
    <3> QED
      BY <2>2, <2>3, <3>1 DEF EntriesTell
  <2>7. ASSUME NEW k \in Satellites, NEW x \in cfg'[k] PROVE Tells(x)'
    <3>1. x \in Entries /\ x \in cfg[k]
      BY <2>4 DEF TypeOK
    <3> QED
      BY <2>2, <2>3, <3>1 DEF EntriesTell
  <2> QED
    BY <2>5, <2>6, <2>7 DEF EntriesTell
<1>2. ASSUME NEW c \in Confs, dispatch_conf(c) PROVE EntriesTell'
  <2>1. PICK s \in need_conf : s = Head(todo)
    BY <1>2 DEF dispatch_conf
  <2>2. s \in Schedulers
    BY <2>1 DEF TypeOK
  <2>3. assigned_to[c] = {}
    BY <1>2 DEF dispatch_conf, InTurn, Assigned, FreeParts
  <2>4. PICK f \in NewFlavors :
          /\ push_flavor' = [push_flavor EXCEPT ![c] = f]
          /\ \/ /\ assigned_to' = [assigned_to EXCEPT ![c] = {s}]
                /\ to_satellites' = [to_satellites EXCEPT
                                       ![c] = {[c |-> c, s |-> s, f |-> f]}]
             \/ UNCHANGED <<assigned_to, to_satellites>>
          /\ \/ new_conf' = [new_conf EXCEPT ![s] = {[c |-> c, s |-> s, f |-> f]}]
             \/ UNCHANGED new_conf
          /\ UNCHANGED <<has, cfg>>
    BY <1>2, <2>1 DEF dispatch_conf, PutConf, daemonVars
  <2>5. PICK entry : entry = [c |-> c, s |-> s, f |-> f]
    OBVIOUS
  <2>6. assigned_to'[c] \in {{s}, {}} /\ push_flavor'[c] = f
        /\ \A d \in Confs : d # c => /\ assigned_to'[d] = assigned_to[d]
                                     /\ push_flavor'[d] = push_flavor[d]
    BY <2>3, <2>4 DEF TypeOK
  <2>7. Tells(entry)' /\ entry.s = s
    BY <2>5, <2>6 DEF Tells
  <2>8. ASSUME NEW x, x.c \in Confs, x.f # f, Tells(x) PROVE Tells(x)'
    BY <2>6, <2>8 DEF Tells
  <2>9. \A x \in Entries : x.c \in Confs
    BY DEF Entries
  <2>10. ASSUME NEW e \in Elements, NEW x \in has'[e] \cup new_conf'[e]
         PROVE  Tells(x)' /\ (e \in Schedulers => e = x.s)
    <3>1. CASE x \in has[e] \cup new_conf[e]
      <4>1. x.f # f
        BY <2>4, <3>1, NewFlavorIsNew
      <4>2. x \in Entries
        BY <3>1 DEF TypeOK
      <4> QED
        BY <2>8, <2>9, <3>1, <4>1, <4>2 DEF EntriesTell
    <3>2. CASE x \notin has[e] \cup new_conf[e]
      <4>1. x \in new_conf'[e] /\ new_conf' # new_conf
        BY <2>4, <2>10, <3>2
      <4>2. x = entry /\ e = s
        BY <2>4, <2>5, <3>2, <4>1 DEF TypeOK
      <4> QED
        BY <2>7, <4>2
    <3> QED
      BY <3>1, <3>2
  <2>11. ASSUME NEW d \in Confs, NEW x \in to_satellites'[d] PROVE Tells(x)'
    <3>1. CASE x \in to_satellites[d]
      <4>1. x.f # f
        BY <2>4, <3>1, NewFlavorIsNew
      <4>2. x \in Entries
        BY <3>1 DEF TypeOK
      <4> QED
        BY <2>8, <2>9, <3>1, <4>1, <4>2 DEF EntriesTell
    <3>2. CASE x \notin to_satellites[d]
      <4>1. to_satellites' = [to_satellites EXCEPT ![c] = {entry}]
        BY <2>4, <2>5, <2>11, <3>2
      <4>2. d = c /\ x \in {entry}
        BY <2>11, <3>2, <4>1 DEF TypeOK
      <4> QED
        BY <2>7, <4>2
    <3> QED
      BY <3>1, <3>2
  <2>12. ASSUME NEW k \in Satellites, NEW x \in cfg'[k] PROVE Tells(x)'
    <3>1. x \in cfg[k] /\ x \in Entries
      BY <2>4, <2>12 DEF TypeOK
    <3>2. x.f # f
      BY <2>4, <3>1, NewFlavorIsNew
    <3> QED
      BY <2>8, <2>9, <3>1, <3>2 DEF EntriesTell
  <2> QED
    BY <2>10, <2>11, <2>12 DEF EntriesTell
<1>3. ASSUME NEW c \in Confs, dispatch_satellite(c) PROVE EntriesTell'
  <2>1. PICK k : k = Head(todo)
    OBVIOUS
  <2>2. k \in Satellites /\ k \in Elements /\ k \notin Schedulers
    <3>1. todo \in Seq(Satellites) /\ todo # <<>>
      BY <1>3 DEF TodoSatellites, dispatch_satellite
    <3> QED
      BY <2>1, <3>1, HeadTailProperties, ListTypes, ElementsAssumption
  <2>3. /\ cfg' = [cfg EXCEPT ![k] = Update(cfg[k], to_satellites[c])]
        /\ UNCHANGED <<assigned_to, push_flavor, to_satellites, has>>
        /\ \/ new_conf' = [new_conf EXCEPT ![k] = cfg'[k]]
           \/ UNCHANGED new_conf
    BY <1>3, <2>1 DEF dispatch_satellite, PutConf, partVars, daemonVars
  <2>4. \A x : Tells(x)' <=> Tells(x)
    BY <2>3 DEF Tells
  <2>5. ASSUME NEW l \in Satellites, NEW x \in cfg'[l] PROVE Tells(x)
    <3>1. x \in cfg[l] \/ x \in to_satellites[c]
      BY <2>3, <2>5 DEF TypeOK, Update
    <3> QED
      BY <3>1 DEF EntriesTell
  <2>6. ASSUME NEW e \in Elements, NEW x \in has'[e] \cup new_conf'[e]
        PROVE  Tells(x) /\ (e \in Schedulers => e = x.s)
    <3>1. CASE x \in has[e] \cup new_conf[e]
      BY <3>1 DEF EntriesTell
    <3>2. CASE x \notin has[e] \cup new_conf[e]
      <4>1. e = k /\ x \in cfg'[k]
        BY <2>2, <2>3, <2>6, <3>2 DEF TypeOK
      <4> QED
        BY <2>2, <2>5, <4>1
    <3> QED
      BY <3>1, <3>2
  <2>7. \A d \in Confs : \A x \in to_satellites'[d] : Tells(x)
    BY <2>3 DEF EntriesTell
  <2> QED
    BY <2>4, <2>5, <2>6, <2>7 DEF EntriesTell
<1>4. ASSUME NEW e \in Elements, setup_new_conf(e) PROVE EntriesTell'
  <2>1. UNCHANGED <<assigned_to, push_flavor, to_satellites, cfg>>
    BY <1>4 DEF setup_new_conf, partVars, realmVars
  <2>2. \A x : Tells(x)' <=> Tells(x)
    BY <2>1 DEF Tells
  <2>3. ASSUME NEW d \in Elements, NEW x \in has'[d] \cup new_conf'[d]
        PROVE  x \in has[d] \cup new_conf[d]
    BY <1>4, <2>3 DEF setup_new_conf, Update, TypeOK
  <2> QED
    BY <2>1, <2>2, <2>3 DEF EntriesTell
<1>5. ASSUME NEW c \in Confs, NoMoreSchedulers(c) PROVE EntriesTell'
  <2>1. /\ UNCHANGED <<assigned_to, push_flavor, cfg, has, new_conf>>
        /\ to_satellites' = [to_satellites EXCEPT ![c] = {}]
    BY <1>5 DEF NoMoreSchedulers, partVars, daemonVars
  <2>2. \A x : Tells(x)' <=> Tells(x)
    BY <2>1 DEF Tells
  <2>3. \A d \in Confs : to_satellites'[d] \subseteq to_satellites[d]
    BY <2>1 DEF TypeOK
  <2> QED
    BY <2>1, <2>2, <2>3 DEF EntriesTell
<1>6. ASSUME NEW k \in Satellites, BadSatellite(k) PROVE EntriesTell'
  <2>1. /\ UNCHANGED <<assigned_to, push_flavor, cfg, to_satellites, new_conf>>
        /\ has' = [has EXCEPT ![k] = {}] \/ has' = has
    BY <1>6 DEF BadSatellite, RemoveFromConf, partVars, realmVars, TypeOK
  <2>2. \A x : Tells(x)' <=> Tells(x)
    BY <2>1 DEF Tells
  <2>3. \A e \in Elements : has'[e] \subseteq has[e]
    BY <2>1 DEF TypeOK
  <2> QED
    BY <2>1, <2>2, <2>3 DEF EntriesTell
<1>7. ASSUME NEW e \in Elements, Crash(e) PROVE EntriesTell'
  <2>1. UNCHANGED <<assigned_to, push_flavor, cfg, to_satellites>>
    BY <1>7 DEF Crash, partVars, realmVars
  <2>2. \A x : Tells(x)' <=> Tells(x)
    BY <2>1 DEF Tells
  <2>3. \A d \in Elements : has'[d] \subseteq has[d] /\ new_conf'[d] \subseteq new_conf[d]
    BY <1>7 DEF Crash, TypeOK
  <2> QED
    BY <2>1, <2>2, <2>3 DEF EntriesTell
<1>8. CASE UNCHANGED <<assigned_to, push_flavor, cfg, to_satellites, has, new_conf>>
  <2>1. \A x : Tells(x)' <=> Tells(x)
    BY <1>8 DEF Tells
  <2> QED
    BY <1>8, <2>1 DEF EntriesTell
<1>9. CASE \/ AliveDone \/ SkipScheduler \/ BadSchedulers \/ EndTurn \/ NothingToDispatch
           \/ SatellitesDone \/ ConfsDone
           \/ \E c \in Confs : SatellitesOfPartDone(c)
           \/ \E e \in Elements : check_alive(e) \/ CutOff(e) \/ ComesBack(e)
           \/ UNCHANGED vars
  BY <1>8, <1>9 DEF AliveDone, SkipScheduler, BadSchedulers, EndTurn, NothingToDispatch,
                    SatellitesDone, ConfsDone, SatellitesOfPartDone, check_alive, CutOff,
                    ComesBack, vars, partVars, realmVars, daemonVars
<1> QED
  BY <1>1, <1>2, <1>3, <1>4, <1>5, <1>6, <1>7, <1>9 DEF Next, Arbiter

-----------------------------------------------------------------------------
(* The theorems *)

LEMMA InitIInv == Init => IInv
<1> SUFFICES ASSUME Init PROVE IInv
  OBVIOUS
<1> USE NumbersAssumption DEF Init
<1>1. TypeOK
  <2>1. todo \in Seq(Elements)
    BY AllLinks
  <2>2. /\ since \in 0..(check_interval - 1) /\ faults \in 0..MaxFaults
        /\ early \in 0..MaxEarly /\ attempt \in [Elements -> 0..max_check_attempts]
    OBVIOUS
  <2>3. /\ alive \in [Elements -> BOOLEAN] /\ reachable \in [Elements -> BOOLEAN]
        /\ managed_confs \in [Elements -> SUBSET Pushed]
        /\ net \in [Elements -> {"ok", "cut", "down"}]
        /\ new_conf \in [Elements -> SUBSET Entries]
        /\ has \in [Elements -> SUBSET Entries]
    OBVIOUS
  <2>4. /\ conf \in [Schedulers -> SUBSET Confs]
        /\ assigned_to \in [Confs -> SUBSET Schedulers]
        /\ push_flavor \in [Confs -> Flavors \cup {0}]
        /\ to_satellites \in [Confs -> SUBSET Entries]
        /\ managed_by \in [Confs -> SUBSET Satellites]
        /\ cfg \in [Satellites -> SUBSET Entries]
    OBVIOUS
  <2> QED
    BY <2>1, <2>2, <2>3, <2>4 DEF TypeOK
<1>2. OnePart /\ Flavored /\ FreeParts /\ NeedsPart /\ TodoSatellites /\ AssignmentIsMutual
  BY DEF OnePart, Flavored, FreeParts, NeedsPart, TodoSatellites, AssignmentIsMutual
<1>3. VisitedOnce
  BY AllLinks DEF VisitedOnce
<1>4. EntriesTell
  BY DEF EntriesTell
<1> QED
  BY <1>1, <1>2, <1>3, <1>4 DEF IInv

LEMMA NextIInv == IInv /\ [Next]_vars => IInv'
<1> SUFFICES ASSUME IInv, [Next]_vars PROVE IInv'
  OBVIOUS
<1>1. Assigned
  BY DEF IInv, Assigned
<1>2. TypeOK' /\ TodoSatellites'
  BY TypeStep DEF IInv
<1>3. Assigned'
  BY <1>1, AssignedStep DEF IInv
<1>4. Flavored' /\ EntriesTell'
  BY <1>1, FlavoredStep, EntriesStep DEF IInv
<1> QED
  BY <1>2, <1>3, <1>4 DEF IInv, Assigned

\* The inductive invariant, whatever fails and however long the arbiter runs.
THEOREM Invariance == Spec => []IInv
  BY InitIInv, NextIInv, PTL DEF Spec

\* The lists dispatch builds hold links of the realm only, and no satellite is
\* told of a part that was never pushed (dispatcher.py dispatch).
THEOREM TypeCorrect == Spec => []TypeOK
<1>1. IInv => TypeOK
  BY DEF IInv
<1> QED
  BY <1>1, Invariance, PTL

\* conf.assigned_to and sched.conf of dispatcher.py agree after every step, also
\* when schedulers die, come back and are asked for again.
THEOREM LinksAndPartsAgree == Spec => []AssignmentIsMutual
<1>1. IInv => AssignmentIsMutual
  BY DEF IInv
<1> QED
  BY <1>1, Invariance, PTL

\* Whoever has a part with its present push_flavor has it from the last push and
\* knows the scheduler it is at (do_i_manage in satellitelink.py).
THEOREM FlavorsTell == Spec => []FlavorTells
<1>1. IInv => FlavorTells
  BY DEF IInv, EntriesTell, Tells, FlavorTells
<1> QED
  BY <1>1, Invariance, PTL

=============================================================================
