----------------------------- MODULE ItemProofs -----------------------------
(***************************************************************************)
(* The properties of ItemState.tla, Notifications.tla and Downtime.tla,    *)
(* proved for all hosts, services, links without a loop, contacts and      *)
(* downtimes.                                                              *)
(*                                                                         *)
(* IInv is the inductive invariant of the states.  Sound says what is true *)
(* of the problems and impacts of a world whatever operator made it;       *)
(* register_a_problem and no_more_a_problem are shown to keep it by        *)
(* induction on depth and on the links.  OwnInv says of each item what its *)
(* state, its type, its attempts and its phase allow together, and ToldInv *)
(* what the item remembers of the problem its contacts were told of.       *)
(* consume_state_result is shown to keep them in the order of its code:    *)
(* the state is judged (Judged), then decided (Decided), then the phase    *)
(* and the ids follow (Phased, Identified).                                *)
(*                                                                         *)
(* InvN is the inductive invariant of the notifications.  It rests on      *)
(* IInv, and on InSeries: that a PROBLEM is in the queue only of an item   *)
(* that is bad and HARD, which is more than SeriesEnds says, as a SOFT     *)
(* recovery removes no notification.  What a result asks for is one of     *)
(* eight lists (Quiet, Recovered, Hardened).                               *)
(*                                                                         *)
(* InvD is the inductive invariant of the downtimes.  DepthCounts is not   *)
(* inductive: the counter moves by whole trees of triggered downtimes, by  *)
(* downtimes that may be in effect already, and a reload starts to count   *)
(* again.  It needs that nobody knows an id that was not given out         *)
(* (FreshIds), that without triggers a tree is one downtime (NoTriggers),  *)
(* that what is going to be removed does not count (MarkedIsOut), and that *)
(* update_downtimes visits registered downtimes only (VisitsKnown).        *)
(***************************************************************************)
EXTENDS Notifications, Downtime, ListProofs, FiniteSetTheorems, TLAPS

-----------------------------------------------------------------------------
(* Finite sets of numbers and of items.                                    *)

\* A finite set of naturals has a largest element, and Max is it.
LEMMA MaxOfNats ==
    ASSUME NEW S, IsFiniteSet(S), S \subseteq Nat, S # {}
    PROVE  Max(S) \in S /\ \A x \in S : x <= Max(S)
<1>1. PICK size \in Nat : ExistsBijection(1..size, S)
  BY FS_NatBijection
<1>2. PICK f \in Bijection(1..size, S) : TRUE
  BY <1>1 DEF ExistsBijection
<1>3. f \in [1..size -> S] /\ \A x \in S : \E i \in 1..size : f[i] = x
  BY <1>2 DEF Bijection, Surjection, Injection
<1>4. size \in Nat \ {0}
  <2>1. PICK x \in S : TRUE
    OBVIOUS
  <2>2. PICK i \in 1..size : f[i] = x
    BY <1>3, <2>1
  <2> QED
    BY <1>1, <2>2
<1>5. \A i \in 1..size : f[i] \in Nat
  BY <1>3
<1> DEFINE P == {m \in 0..size : m = 0 \/ \E k \in 1..m : \A j \in 1..m : f[j] <= f[k]}
<1>6. 0 \in P
  BY <1>1
<1>7. ASSUME NEW m \in 1..size, m - 1 \in P PROVE m \in P
  <2>1. CASE m = 1
    <3>1. 1 \in 1..m /\ \A j \in 1..m : f[j] <= f[1]
      BY <1>5, <2>1
    <3> QED
      BY <2>1, <3>1
  <2>2. CASE m # 1
    <3>1. PICK k \in 1..(m - 1) : \A j \in 1..(m - 1) : f[j] <= f[k]
      BY <1>7, <2>2
    <3>2. k \in 1..m /\ m \in 1..m /\ f[k] \in Nat /\ f[m] \in Nat
      BY <1>5
    <3>3. \A j \in 1..m : j \in 1..(m - 1) \/ j = m
      OBVIOUS
    <3>4. \A j \in 1..m : f[j] \in Nat
      BY <1>5
    <3>5. CASE f[k] <= f[m]
      <4>1. \A j \in 1..m : f[j] <= f[m]
        BY <3>1, <3>2, <3>3, <3>4, <3>5
      <4> QED
        BY <3>2, <4>1
    <3>6. CASE f[m] <= f[k]
      <4>1. \A j \in 1..m : f[j] <= f[k]
        BY <3>1, <3>3, <3>6
      <4> QED
        BY <3>2, <4>1
    <3>7. f[k] <= f[m] \/ f[m] <= f[k]
      BY <3>2
    <3> QED
      BY <3>5, <3>6, <3>7
  <2> QED
    BY <2>1, <2>2
<1>8. size \in P
  <2>1. 0..size \subseteq P
    <3> HIDE DEF P
    <3> QED
      BY <1>6, <1>7, Induction
  <2>2. size \in 0..size
    BY <1>1
  <2> QED
    BY <2>1, <2>2
<1>9. PICK k \in 1..size : \A j \in 1..size : f[j] <= f[k]
  BY <1>4, <1>8
<1>10. f[k] \in S /\ \A x \in S : f[k] >= x
  BY <1>3, <1>5, <1>9
<1>11. Max(S) \in S /\ \A x \in S : Max(S) >= x
  BY <1>10 DEF Max
<1> QED
  BY <1>11

\* The list of a finite set has all its elements.
LEMMA ListOfSet ==
    ASSUME NEW S, IsFiniteSet(S)
    PROVE  /\ SetToSeq(S) \in Seq(S)
           /\ \A x \in S : \E i \in 1..Len(SetToSeq(S)) : SetToSeq(S)[i] = x
<1> DEFINE size == Cardinality(S)
           F == [1..size -> S]
           s == SetToSeq(S)
<1>1. size \in Nat /\ ExistsBijection(1..size, S)
  BY FS_CardinalityType
<1>2. PICK f \in Bijection(1..size, S) : TRUE
  BY <1>1 DEF ExistsBijection
<1>3. f \in F /\ IsInjective(f)
  BY <1>2 DEF Bijection, Injection, Surjection, IsInjective
<1>4. s \in F /\ IsInjective(s)
  BY <1>3 DEF SetToSeq
<1>5. s \in Injection(1..size, S)
  BY <1>4 DEF Injection, IsInjective
<1>6. Cardinality(1..size) = size
  BY <1>1, FS_Interval
<1>7. s \in Surjection(1..size, S)
  <2>1. Cardinality(1..size) = Cardinality(S) <=> s \in Surjection(1..size, S)
    <3> HIDE DEF s
    <3> QED
      BY <1>5, FS_Injection
  <2> QED
    BY <1>6, <2>1
<1>8. \A x \in S : \E i \in 1..size : s[i] = x
  BY <1>7 DEF Surjection
<1>9. s \in Seq(S) /\ Len(s) = size
  BY <1>1, <1>4
<1> QED
  BY <1>8, <1>9

LEMMA ItemsFinite == IsFiniteSet(Items) /\ Cardinality(Items) \in Nat
  BY ItemAssumption, FS_Union, FS_CardinalityType DEF Items

\* Everyone is a list of the items, and all of them are in it.
LEMMA EveryoneIsThere ==
    /\ Everyone \in Seq(Items)
    /\ \A i \in Items : \E k \in 1..Len(Everyone) : Everyone[k] = i
<1> DEFINE h == SetToSeq(Host)
           s == SetToSeq(Service)
<1>1. /\ h \in Seq(Host) /\ \A i \in Host : \E k \in 1..Len(h) : h[k] = i
      /\ s \in Seq(Service) /\ \A i \in Service : \E k \in 1..Len(s) : s[k] = i
  BY ItemAssumption, ListOfSet
<1>2. Everyone = h \o s
  BY DEF Everyone
<1> HIDE DEF h, s
<1>3. h \in Seq(Items) /\ s \in Seq(Items)
  BY <1>1 DEF Items
<1>4. /\ h \o s \in Seq(Items) /\ Len(h \o s) = Len(h) + Len(s)
      /\ \A k \in 1..Len(h) : (h \o s)[k] = h[k]
      /\ \A k \in 1..Len(s) : (h \o s)[Len(h) + k] = s[k]
      /\ Len(h) \in Nat /\ Len(s) \in Nat
  BY <1>3
<1>5. ASSUME NEW i \in Items PROVE \E k \in 1..Len(h \o s) : (h \o s)[k] = i
  <2>1. CASE i \in Host
    <3>1. PICK k \in 1..Len(h) : h[k] = i
      BY <1>1, <2>1
    <3>2. k \in 1..Len(h \o s) /\ (h \o s)[k] = i
      BY <1>4, <3>1
    <3> QED
      BY <3>2
  <2>2. CASE i \in Service
    <3>1. PICK k \in 1..Len(s) : s[k] = i
      BY <1>1, <2>2
    <3>2. Len(h) + k \in 1..Len(h \o s) /\ (h \o s)[Len(h) + k] = i
      BY <1>4, <3>1
    <3> QED
      BY <3>2
  <2> QED
    BY <2>1, <2>2 DEF Items
<1> QED
  BY <1>2, <1>4, <1>5

-----------------------------------------------------------------------------
(* What the relation of problems and impacts needs of a world.             *)

\* A rank for every item, below that of its sons: there is no loop of links.
Rank == CHOOSE rank \in [Items -> 1..Cardinality(Items)] :
            \A d \in Link : rank[d.dep] < rank[d.son]

LEMMA Ranked ==
    Rank \in [Items -> 1..Cardinality(Items)] /\ \A d \in Link : Rank[d.dep] < Rank[d.son]
  BY LinkAssumption DEF Rank

Kind(i) == IF i \in Host THEN HostState ELSE ServiceState

Typed(w) ==
    /\ w \in World
    /\ \A i \in Items : /\ w[i].state \in Kind(i) /\ w[i].state_before_impact \in Kind(i)
                        /\ w[i].attempt <= max_check_attempts[i]

\* The impacts of a problem that is not in Apart, and the problems of an impact.
Mutuals(w, Apart) ==
    \A i \in Items, p \in Items \ Apart :
        i \in w[p].impacts <=> p \in w[i].source_problems

Sources(w) ==
    \A i \in Items : \A p \in w[i].source_problems : w[p].is_problem /\ Rank[p] < Rank[i]

Flags(w) == \A i \in Items : w[i].is_impact <=> w[i].source_problems # {}

Related(w, Apart) == Mutuals(w, Apart) /\ Sources(w) /\ Flags(w)

\* Those that have pb in their source_problems.
Reached(w, pb) == {i \in Items : pb \in w[i].source_problems}

\* What the relation never changes of an item.
SameOwn(r, s) ==
    /\ s.state_type = r.state_type /\ s.attempt = r.attempt /\ s.ack = r.ack
    /\ s.in_phase = r.in_phase /\ s.state_before_phase = r.state_before_phase
    /\ s.problem_id = r.problem_id
    /\ ~enable_problem_impacts_states_change => s.state = r.state

\* What is about the relation of an item.
SameLinks(r, s) ==
    /\ s.is_problem = r.is_problem /\ s.is_impact = r.is_impact
    /\ s.impacts = r.impacts /\ s.source_problems = r.source_problems

Frame(w, v) == \A i \in Items : SameOwn(w[i], v[i])

LEMMA FrameIsTransitive ==
    ASSUME NEW u, NEW v, NEW w, Frame(u, v), Frame(v, w)
    PROVE  Frame(u, w)
  BY DEF Frame, SameOwn

\* The value of a problem is at least that of its impacts; nothing else changes.
LEMMA ValueIsUpdated ==
    ASSUME NEW w \in World, NEW i \in Items
    PROVE  LET v == update_business_impact_value(w, i)
           IN /\ v \in World
              /\ \A j \in Items : /\ SameOwn(w[j], v[j]) /\ SameLinks(w[j], v[j])
                                  /\ v[j].state = w[j].state
                                  /\ v[j].state_before_impact = w[j].state_before_impact
              /\ \A j \in Items \ {i} : v[j] = w[j]
              /\ \A e \in w[i].impacts : w[e].business_impact <= v[i].business_impact
<1> DEFINE in_modulation == i \in DOMAIN Modulation /\ Modulation[i][1] \in valid
           base == IF in_modulation THEN Modulation[i][2] ELSE w[i].business_impact
           values == {base} \cup {w[e].business_impact : e \in w[i].impacts}
           value == IF w[i].impacts # {} THEN Max(values)
                    ELSE IF in_modulation THEN base ELSE own_business_impact[i]
           v == [w EXCEPT ![i].business_impact = value]
<1>1. update_business_impact_value(w, i) = v
  BY DEF update_business_impact_value
<1>2. \A j \in Items : w[j] \in Attributes
  BY DEF World
<1>3. w[i].impacts \subseteq Items /\ \A j \in Items : w[j].business_impact \in Nat
  BY <1>2 DEF Attributes
<1>4. base \in Nat /\ own_business_impact[i] \in Nat
  BY <1>3, ItemAssumption
<1>5. Max(values) \in Nat /\ \A x \in values : x <= Max(values)
  <2>1. IsFiniteSet(w[i].impacts)
    BY <1>3, ItemsFinite, FS_Subset
  <2> DEFINE T == {w[e].business_impact : e \in w[i].impacts}
             f == [e \in w[i].impacts |-> w[e].business_impact]
  <2>2. IsFiniteSet(T)
    <3>1. f \in Surjection(w[i].impacts, T)
      BY DEF Surjection
    <3> HIDE DEF f, T
    <3> QED
      BY <2>1, <3>1, FS_Surjection
  <2>3. IsFiniteSet(values)
    <3>1. values = T \cup {base}
      OBVIOUS
    <3> HIDE DEF values, T, base
    <3> QED
      BY <2>2, <3>1, FS_AddElement
  <2>4. values \subseteq Nat /\ values # {}
    BY <1>3, <1>4
  <2> HIDE DEF values
  <2>5. Max(values) \in values /\ \A x \in values : x <= Max(values)
    BY <2>3, <2>4, MaxOfNats
  <2> QED
    BY <2>4, <2>5
<1>6. value \in Nat
  BY <1>4, <1>5
<1>7. \A e \in w[i].impacts : w[e].business_impact <= value
  BY <1>5
<1> HIDE DEF value
<1>8. v[i] = [w[i] EXCEPT !.business_impact = value] /\ DOMAIN v = Items
  BY DEF World
<1>9. v[i].business_impact = value /\ v[i] \in Attributes
  BY <1>2, <1>6, <1>8 DEF Attributes
<1>10. /\ SameOwn(w[i], v[i]) /\ SameLinks(w[i], v[i]) /\ v[i].state = w[i].state
       /\ v[i].state_before_impact = w[i].state_before_impact
  BY <1>2, <1>8 DEF Attributes, SameOwn, SameLinks
<1>11. \A j \in Items \ {i} : v[j] = w[j]
  BY DEF World
<1>12. v \in World
  BY <1>2, <1>9, <1>11 DEF World
<1>13. \A j \in Items : /\ SameOwn(w[j], v[j]) /\ SameLinks(w[j], v[j])
                        /\ v[j].state = w[j].state
                        /\ v[j].state_before_impact = w[j].state_before_impact
  BY <1>10, <1>11 DEF SameOwn, SameLinks
<1> HIDE DEF v
<1> QED
  BY <1>1, <1>7, <1>9, <1>11, <1>12, <1>13

\* What a problem that is over does to an impact: it leaves its source_problems,
\* and the state of the item is the one before when no other problem is left.
LEMMA Deregistered ==
    ASSUME NEW r \in Attributes, NEW pb
    PROVE  LET s == deregister_a_problem(r, pb)
           IN /\ s \in Attributes /\ SameOwn(r, s)
              /\ s.impacts = r.impacts /\ s.is_problem = r.is_problem
              /\ s.source_problems = r.source_problems \ {pb}
              /\ s.is_impact = (r.source_problems \ {pb} # {})
              /\ s.state \in {r.state, r.state_before_impact}
              /\ s.state_before_impact \in {r.state_before_impact, "PENDING"}
<1> DEFINE remain == r.source_problems \ {pb}
           r1 == [r EXCEPT !.source_problems = remain, !.is_impact = remain # {}]
<1>1. /\ r1 \in Attributes /\ SameOwn(r, r1)
      /\ r1.impacts = r.impacts /\ r1.is_problem = r.is_problem
      /\ r1.source_problems = remain /\ r1.is_impact = (remain # {})
      /\ r1.state = r.state /\ r1.state_before_impact = r.state_before_impact
  BY DEF Attributes, SameOwn
<1>2. deregister_a_problem(r, pb) = IF remain = {} THEN unset_impact_state(r1) ELSE r1
  BY DEF deregister_a_problem
<1> HIDE DEF r1
<1> DEFINE s == unset_impact_state(r1)
           back == enable_problem_impacts_states_change /\ ~r1.state_changed_since_impact
<1>3. s = [r1 EXCEPT !.state = IF back THEN r1.state_before_impact ELSE r1.state,
                     !.state_before_impact = "PENDING",
                     !.state_changed_since_impact = FALSE]
  BY DEF unset_impact_state
<1>4. /\ s \in Attributes /\ SameOwn(r1, s)
      /\ s.impacts = r1.impacts /\ s.is_problem = r1.is_problem
      /\ s.source_problems = r1.source_problems /\ s.is_impact = r1.is_impact
      /\ s.state \in {r1.state, r1.state_before_impact}
      /\ s.state_before_impact = "PENDING"
  <2> HIDE DEF s
  <2>1. r1.state_before_impact \in HostState \cup ServiceState
    BY <1>1 DEF Attributes
  <2>2. s \in Attributes
    BY <1>1, <1>3, <2>1 DEF Attributes, HostState
  <2>3. s.state = (IF back THEN r1.state_before_impact ELSE r1.state)
    BY <1>1, <1>3 DEF Attributes
  <2>4. SameOwn(r1, s)
    BY <1>1, <1>3, <2>3 DEF Attributes, SameOwn
  <2>5. /\ s.impacts = r1.impacts /\ s.is_problem = r1.is_problem
        /\ s.source_problems = r1.source_problems /\ s.is_impact = r1.is_impact
        /\ s.state_before_impact = "PENDING"
    BY <1>1, <1>3 DEF Attributes
  <2> QED
    BY <2>2, <2>3, <2>4, <2>5
<1>5. SameOwn(r, s)
  BY <1>1, <1>4 DEF SameOwn
<1> HIDE DEF s
<1>6. CASE remain = {}
  BY <1>1, <1>2, <1>4, <1>5, <1>6 DEF s
<1>7. CASE remain # {}
  BY <1>1, <1>2, <1>7
<1> QED
  BY <1>6, <1>7

\* Whom i frees when it is no more a problem.
Freed(w, i) == IF w[i].is_problem THEN w[i].impacts ELSE {}

\* What an item that is no more a problem does to the relation.
LEMMA NoMoreIs ==
    ASSUME NEW w \in World, NEW i \in Items
    PROVE  LET v == no_more_a_problem(w, i)
               freed == Freed(w, i)
           IN /\ v \in World /\ Frame(w, v) /\ (Typed(w) => Typed(v))
              /\ \A j \in Items :
                   /\ v[j].is_problem = (j # i /\ w[j].is_problem)
                   /\ v[j].impacts = IF j = i /\ w[i].is_problem THEN {} ELSE w[j].impacts
                   /\ v[j].source_problems =
                        IF j \in freed THEN w[j].source_problems \ {i}
                        ELSE w[j].source_problems
                   /\ v[j].is_impact =
                        IF j \in freed THEN w[j].source_problems \ {i} # {}
                        ELSE w[j].is_impact
              /\ i \notin freed => v[i].state = w[i].state
<1> DEFINE v == no_more_a_problem(w, i)
           free == [e \in Items |-> IF e \in w[i].impacts
                                    THEN deregister_a_problem(w[e], i) ELSE w[e]]
           u == IF w[i].is_problem
                THEN [free EXCEPT ![i].is_problem = FALSE, ![i].impacts = {}]
                ELSE w
           freed == Freed(w, i)
<1>1. v = update_business_impact_value(u, i)
  BY DEF no_more_a_problem
<1>2. \A j \in Items : w[j] \in Attributes /\ w[j].is_problem \in BOOLEAN
  BY DEF World, Attributes
<1>3. \A j \in Items : /\ free[j] \in Attributes /\ SameOwn(w[j], free[j])
                       /\ free[j].impacts = w[j].impacts
                       /\ free[j].is_problem = w[j].is_problem
                       /\ free[j].source_problems =
                            IF j \in w[i].impacts THEN w[j].source_problems \ {i}
                            ELSE w[j].source_problems
                       /\ free[j].is_impact =
                            IF j \in w[i].impacts THEN w[j].source_problems \ {i} # {}
                            ELSE w[j].is_impact
                       /\ free[j].state \in {w[j].state, w[j].state_before_impact}
                       /\ free[j].state_before_impact \in {w[j].state_before_impact, "PENDING"}
                       /\ j \notin w[i].impacts => free[j].state = w[j].state
  <2> SUFFICES ASSUME NEW j \in Items
               PROVE  /\ free[j] \in Attributes /\ SameOwn(w[j], free[j])
                      /\ free[j].impacts = w[j].impacts
                      /\ free[j].is_problem = w[j].is_problem
                      /\ free[j].source_problems =
                            IF j \in w[i].impacts THEN w[j].source_problems \ {i}
                            ELSE w[j].source_problems
                      /\ free[j].is_impact =
                            IF j \in w[i].impacts THEN w[j].source_problems \ {i} # {}
                            ELSE w[j].is_impact
                      /\ free[j].state \in {w[j].state, w[j].state_before_impact}
                      /\ free[j].state_before_impact \in {w[j].state_before_impact, "PENDING"}
                      /\ j \notin w[i].impacts => free[j].state = w[j].state
    OBVIOUS
  <2>1. CASE j \in w[i].impacts
    <3>1. free[j] = deregister_a_problem(w[j], i)
      BY <2>1
    <3> HIDE DEF free
    <3> QED
      BY <1>2, <2>1, <3>1, Deregistered
  <2>2. CASE j \notin w[i].impacts
    <3>1. free[j] = w[j]
      BY <2>2
    <3> HIDE DEF free
    <3> QED
      BY <1>2, <2>2, <3>1 DEF SameOwn
  <2> QED
    BY <2>1, <2>2
<1>4. DOMAIN free = Items
  OBVIOUS
<1> HIDE DEF free
<1> DEFINE Same(x) ==
      /\ x \in World
      /\ \A j \in Items :
           /\ SameOwn(w[j], x[j])
           /\ x[j].is_problem = (j # i /\ w[j].is_problem)
           /\ x[j].impacts = IF j = i /\ w[i].is_problem THEN {} ELSE w[j].impacts
           /\ x[j].source_problems =
                IF j \in freed THEN w[j].source_problems \ {i} ELSE w[j].source_problems
           /\ x[j].is_impact =
                IF j \in freed THEN w[j].source_problems \ {i} # {} ELSE w[j].is_impact
           /\ x[j].state \in {w[j].state, w[j].state_before_impact}
           /\ x[j].state_before_impact \in {w[j].state_before_impact, "PENDING"}
           /\ j \notin freed => x[j].state = w[j].state
<1>5. Same(u)
  <2>1. CASE w[i].is_problem
    <3>1. u = [free EXCEPT ![i].is_problem = FALSE, ![i].impacts = {}] /\ freed = w[i].impacts
      BY <2>1 DEF Freed
    <3>2. u[i] = [free[i] EXCEPT !.is_problem = FALSE, !.impacts = {}] /\ DOMAIN u = Items
      BY <1>4, <3>1
    <3>3. \A j \in Items \ {i} : u[j] = free[j]
      BY <1>4, <3>1
    <3> HIDE DEF u, freed
    <3>4. /\ u[i] \in Attributes /\ SameOwn(w[i], u[i]) /\ u[i].impacts = {}
          /\ u[i].is_problem = FALSE
          /\ u[i].source_problems = free[i].source_problems
          /\ u[i].is_impact = free[i].is_impact /\ u[i].state = free[i].state
          /\ u[i].state_before_impact = free[i].state_before_impact
      <4> DEFINE r == free[i]
      <4>1. r \in Attributes /\ SameOwn(w[i], r)
        BY <1>3
      <4>2. u[i] = [r EXCEPT !.is_problem = FALSE, !.impacts = {}]
        BY <3>2
      <4> HIDE DEF r
      <4>3. /\ u[i] \in Attributes /\ SameOwn(r, u[i]) /\ u[i].impacts = {}
            /\ u[i].is_problem = FALSE
            /\ u[i].source_problems = r.source_problems
            /\ u[i].is_impact = r.is_impact /\ u[i].state = r.state
            /\ u[i].state_before_impact = r.state_before_impact
        BY <4>1, <4>2 DEF Attributes, SameOwn
      <4>4. SameOwn(w[i], u[i])
        BY <4>1, <4>3 DEF SameOwn
      <4> QED
        BY <4>3, <4>4 DEF r
    <3>5. u \in World
      <4>1. \A j \in Items : u[j] \in Attributes
        BY <1>3, <3>3, <3>4
      <4>2. u = [j \in Items |-> u[j]]
        BY <1>4, <3>1
      <4> QED
        BY <4>1, <4>2 DEF World
    <3>6. Same(u)!2
      <4> SUFFICES ASSUME NEW j \in Items PROVE Same(u)!2!(j)
        OBVIOUS
      <4>1. CASE j = i
        BY <1>3, <2>1, <3>1, <3>4, <4>1
      <4>2. CASE j # i
        <5>1. u[j] = free[j]
          BY <3>3, <4>2
        <5>2. u[j].is_problem = (j # i /\ w[j].is_problem)
          BY <1>2, <1>3, <4>2, <5>1
        <5>3. u[j].impacts = (IF j = i /\ w[i].is_problem THEN {} ELSE w[j].impacts)
          BY <1>3, <4>2, <5>1
        <5>4. /\ SameOwn(w[j], u[j])
              /\ u[j].source_problems =
                   (IF j \in freed THEN w[j].source_problems \ {i} ELSE w[j].source_problems)
              /\ u[j].is_impact =
                   (IF j \in freed THEN w[j].source_problems \ {i} # {} ELSE w[j].is_impact)
              /\ u[j].state \in {w[j].state, w[j].state_before_impact}
              /\ u[j].state_before_impact \in {w[j].state_before_impact, "PENDING"}
              /\ j \notin freed => u[j].state = w[j].state
          BY <1>3, <3>1, <5>1
        <5> QED
          BY <5>2, <5>3, <5>4
      <4> QED
        BY <4>1, <4>2
    <3> QED
      BY <3>5, <3>6
  <2>2. CASE ~w[i].is_problem
    <3>1. u = w /\ freed = {}
      BY <2>2 DEF Freed
    <3> HIDE DEF u, freed
    <3> QED
      BY <1>2, <2>2, <3>1 DEF SameOwn
  <2> QED
    BY <2>1, <2>2
<1> HIDE DEF u
<1>6. /\ v \in World
      /\ \A j \in Items : /\ SameOwn(u[j], v[j]) /\ SameLinks(u[j], v[j])
                          /\ v[j].state = u[j].state
                          /\ v[j].state_before_impact = u[j].state_before_impact
  BY <1>1, <1>5, ValueIsUpdated
<1>7. Same(v)
  <2> HIDE DEF v, freed
  <2>1. ASSUME NEW j \in Items PROVE Same(v)!2!(j)
    <3>1. /\ v[j].state = u[j].state
          /\ v[j].state_before_impact = u[j].state_before_impact
      BY <1>6
    <3>2. SameOwn(w[j], u[j]) /\ SameOwn(u[j], v[j]) /\ SameLinks(u[j], v[j])
      BY <1>5, <1>6
    <3>3. SameOwn(w[j], v[j])
      BY <3>2 DEF SameOwn
    <3>4. Same(u)!2!(j)
      BY <1>5
    <3> QED
      BY <3>1, <3>2, <3>3, <3>4 DEF SameLinks
  <2> QED
    BY <1>6, <2>1
<1>8. Frame(w, v)
  BY <1>7 DEF Frame
<1>9. ASSUME Typed(w) PROVE Typed(v)
  <2>1. \A j \in Items : v[j].attempt = w[j].attempt
    BY <1>7 DEF SameOwn
  <2>2. \A j \in Items : "PENDING" \in Kind(j)
    BY DEF Kind, HostState, ServiceState
  <2> HIDE DEF v
  <2> QED
    BY <1>7, <1>9, <2>1, <2>2 DEF Typed
<1> HIDE DEF v
<1> QED
  BY <1>7, <1>8, <1>9 DEF v

LEMMA ImpactStateIs ==
    ASSUME NEW w \in World, NEW i \in Items
    PROVE  LET v == set_impact_state(w, i)
           IN /\ v \in World /\ Frame(w, v) /\ (Typed(w) => Typed(v))
              /\ \A j \in Items : SameLinks(w[j], v[j])
<1> DEFINE state == IF i \in Host THEN "UNREACHABLE" ELSE "UNKNOWN"
           v == [w EXCEPT ![i].state_before_impact = w[i].state,
                          ![i].state_changed_since_impact = FALSE,
                          ![i].state = state]
<1>1. set_impact_state(w, i) = IF ~enable_problem_impacts_states_change THEN w ELSE v
  BY DEF set_impact_state
<1>2. CASE ~enable_problem_impacts_states_change
  <2>1. set_impact_state(w, i) = w
    BY <1>1, <1>2
  <2> QED
    BY <2>1 DEF Frame, SameOwn, SameLinks
<1>3. CASE enable_problem_impacts_states_change
  <2> DEFINE r == w[i]
             s == [r EXCEPT !.state_before_impact = r.state,
                            !.state_changed_since_impact = FALSE, !.state = state]
  <2>1. \A j \in Items : w[j] \in Attributes
    BY DEF World
  <2>2. v[i] = s /\ DOMAIN v = Items /\ \A j \in Items \ {i} : v[j] = w[j]
    BY DEF World
  <2>3. r \in Attributes /\ state \in Kind(i) /\ state \in HostState \cup ServiceState
    BY <2>1 DEF Kind, HostState, ServiceState
  <2> HIDE DEF state, r
  <2>4. /\ s \in Attributes /\ SameOwn(r, s) /\ SameLinks(r, s)
        /\ s.state = state /\ s.state_before_impact = r.state /\ s.attempt = r.attempt
    BY <1>3, <2>3 DEF Attributes, SameOwn, SameLinks
  <2> HIDE DEF v, s
  <2>5. v \in World
    <3>1. \A j \in Items : v[j] \in Attributes
      BY <2>1, <2>2, <2>4
    <3>2. v = [j \in Items |-> v[j]]
      BY <2>2 DEF v, World
    <3> QED
      BY <3>1, <3>2 DEF World
  <2>6. \A j \in Items : SameOwn(w[j], v[j]) /\ SameLinks(w[j], v[j])
    BY <2>2, <2>4 DEF r, SameOwn, SameLinks
  <2>7. Typed(w) => Typed(v)
    <3> SUFFICES ASSUME Typed(w)
                 PROVE  \A j \in Items : /\ v[j].state \in Kind(j)
                                         /\ v[j].state_before_impact \in Kind(j)
                                         /\ v[j].attempt <= max_check_attempts[j]
      BY <2>5 DEF Typed
    <3> QED
      BY <2>2, <2>3, <2>4 DEF r, Typed
  <2> QED
    BY <1>1, <1>3, <2>5, <2>6, <2>7 DEF Frame
<1> QED
  BY <1>2, <1>3

\* What an item that a problem reached does to the relation.
Impacted(w, v, i, pb) ==
    /\ v \in World /\ Frame(w, v) /\ (Typed(w) => Typed(v))
    /\ \A j \in Items :
         /\ v[j].is_problem = (j # i /\ w[j].is_problem)
         /\ v[j].impacts = IF j = i /\ w[i].is_problem THEN {} ELSE w[j].impacts
    /\ \A j \in Items \ {i} :
         /\ v[j].source_problems =
              IF j \in Freed(w, i) THEN w[j].source_problems \ {i}
              ELSE w[j].source_problems
         /\ v[j].is_impact =
              IF j \in Freed(w, i) THEN w[j].source_problems \ {i} # {}
              ELSE w[j].is_impact
    /\ i \notin Freed(w, i) =>
         v[i].is_impact /\ v[i].source_problems = w[i].source_problems \cup {pb}

LEMMA ImpactIs ==
    ASSUME NEW w \in World, NEW i \in Items, NEW pb \in Items, NEW v,
        v = become_impact(w, i, pb)
    PROVE  Impacted(w, v, i, pb)
<1> DEFINE w1 == [w EXCEPT ![i].is_impact = TRUE]
           w2 == IF w[i].is_problem THEN no_more_a_problem(w1, i) ELSE w1
           w3 == IF w[i].is_impact THEN w2 ELSE set_impact_state(w2, i)
<1>1. v = [w3 EXCEPT ![i].source_problems = @ \cup {pb}]
  BY DEF become_impact
<1> DEFINE Same(x) ==
             /\ x \in World /\ Frame(w, x) /\ (Typed(w) => Typed(x))
             /\ \A j \in Items :
                   /\ x[j].is_problem = (j # i /\ w[j].is_problem)
                   /\ x[j].impacts = IF j = i /\ w[i].is_problem THEN {} ELSE w[j].impacts
             /\ \A j \in Items \ {i} :
                   /\ x[j].source_problems =
                        IF j \in Freed(w, i) THEN w[j].source_problems \ {i}
                        ELSE w[j].source_problems
                   /\ x[j].is_impact =
                        IF j \in Freed(w, i) THEN w[j].source_problems \ {i} # {}
                        ELSE w[j].is_impact
             /\ i \notin Freed(w, i) => x[i].is_impact
           Sourced(x, extra) ==
             i \notin Freed(w, i) => x[i].source_problems = w[i].source_problems \cup extra
<1>2. \A j \in Items : w[j] \in Attributes /\ w[j].is_problem \in BOOLEAN
  BY DEF World, Attributes
<1>3. /\ w1 \in World /\ \A j \in Items \ {i} : w1[j] = w[j]
      /\ SameOwn(w[i], w1[i]) /\ w1[i].is_impact = TRUE
      /\ w1[i].is_problem = w[i].is_problem /\ w1[i].impacts = w[i].impacts
      /\ w1[i].source_problems = w[i].source_problems
      /\ w1[i].state = w[i].state /\ w1[i].state_before_impact = w[i].state_before_impact
  <2> DEFINE r == w[i]
             s == [r EXCEPT !.is_impact = TRUE]
  <2>1. w1[i] = s /\ DOMAIN w1 = Items /\ \A j \in Items \ {i} : w1[j] = w[j]
    BY DEF World
  <2>2. r \in Attributes
    BY <1>2
  <2> HIDE DEF r
  <2>3. /\ s \in Attributes /\ SameOwn(r, s) /\ s.is_impact = TRUE
        /\ s.is_problem = r.is_problem /\ s.impacts = r.impacts
        /\ s.source_problems = r.source_problems
        /\ s.state = r.state /\ s.state_before_impact = r.state_before_impact
    BY <2>2 DEF Attributes, SameOwn
  <2> HIDE DEF s
  <2>4. w1 \in World
    <3>1. \A j \in Items : w1[j] \in Attributes
      BY <1>2, <2>1, <2>3
    <3>2. w1 = [j \in Items |-> w1[j]]
      BY <2>1 DEF World
    <3> QED
      BY <3>1, <3>2 DEF World
  <2> HIDE DEF w1
  <2> QED
    BY <2>1, <2>3, <2>4 DEF r
<1> HIDE DEF w1
<1>4. Frame(w, w1) /\ (Typed(w) => Typed(w1))
  <2>1. \A j \in Items : SameOwn(w[j], w1[j])
    BY <1>3 DEF SameOwn
  <2>2. Typed(w) => Typed(w1)
    BY <1>3 DEF Typed, SameOwn
  <2> QED
    BY <2>1, <2>2 DEF Frame
<1>5. Freed(w1, i) = Freed(w, i)
  BY <1>3 DEF Freed
<1>6. Same(w2) /\ Sourced(w2, {})
  <2>1. CASE w[i].is_problem
    <3>1. w2 = no_more_a_problem(w1, i)
      BY <2>1
    <3> HIDE DEF w2
    <3>2. /\ w2 \in World /\ Frame(w1, w2) /\ (Typed(w1) => Typed(w2))
          /\ \A j \in Items :
               /\ w2[j].is_problem = (j # i /\ w1[j].is_problem)
               /\ w2[j].impacts = IF j = i /\ w1[i].is_problem THEN {} ELSE w1[j].impacts
               /\ w2[j].source_problems =
                    IF j \in Freed(w1, i) THEN w1[j].source_problems \ {i}
                    ELSE w1[j].source_problems
               /\ w2[j].is_impact =
                    IF j \in Freed(w1, i) THEN w1[j].source_problems \ {i} # {}
                    ELSE w1[j].is_impact
      <4>1. w1 \in World
        BY <1>3
      <4> QED
        BY ONLY <3>1, <4>1, i \in Items, NoMoreIs
    <3>3. Frame(w, w2)
      BY <1>4, <3>2, FrameIsTransitive
    <3>4. \A j \in Items :
               /\ w2[j].is_problem = (j # i /\ w[j].is_problem)
               /\ w2[j].impacts = IF j = i /\ w[i].is_problem THEN {} ELSE w[j].impacts
      BY <1>3, <3>2
    <3>5. \A j \in Items \ {i} :
               /\ w2[j].source_problems =
                    IF j \in Freed(w, i) THEN w[j].source_problems \ {i}
                    ELSE w[j].source_problems
               /\ w2[j].is_impact =
                    IF j \in Freed(w, i) THEN w[j].source_problems \ {i} # {}
                    ELSE w[j].is_impact
      BY <1>3, <1>5, <3>2
    <3>6. i \notin Freed(w, i) => w2[i].is_impact
        /\ w2[i].source_problems = w[i].source_problems
      BY <1>3, <1>5, <3>2
    <3> QED
      BY <1>4, <3>2, <3>3, <3>4, <3>5, <3>6
  <2>2. CASE ~w[i].is_problem
    <3>1. w2 = w1 /\ Freed(w, i) = {}
      BY <2>2 DEF Freed
    <3> HIDE DEF w2
    <3> QED
      BY <1>2, <1>3, <1>4, <2>2, <3>1
  <2> QED
    BY <2>1, <2>2
<1> HIDE DEF w2
<1>7. Same(w3) /\ Sourced(w3, {})
  <2>1. CASE w[i].is_impact
    <3>1. w3 = w2
      BY <2>1
    <3> QED
      BY <1>6, <3>1
  <2>2. CASE ~w[i].is_impact
    <3>1. w3 = set_impact_state(w2, i)
      BY <2>2
    <3> HIDE DEF w3
    <3>2. /\ w3 \in World /\ Frame(w2, w3) /\ (Typed(w2) => Typed(w3))
          /\ \A j \in Items : SameLinks(w2[j], w3[j])
      BY <1>6, <3>1, ImpactStateIs
    <3>3. Frame(w, w3)
      BY <1>6, <3>2, FrameIsTransitive
    <3>4. \A j \in Items : /\ w3[j].is_problem = w2[j].is_problem
                           /\ w3[j].is_impact = w2[j].is_impact
                           /\ w3[j].impacts = w2[j].impacts
                           /\ w3[j].source_problems = w2[j].source_problems
      BY <3>2 DEF SameLinks
    <3> QED
      BY <1>6, <3>2, <3>3, <3>4
  <2> QED
    BY <2>1, <2>2
<1> HIDE DEF w3
<1>8. /\ v \in World /\ \A j \in Items \ {i} : v[j] = w3[j]
      /\ SameOwn(w3[i], v[i]) /\ v[i].is_impact = w3[i].is_impact
      /\ v[i].is_problem = w3[i].is_problem /\ v[i].impacts = w3[i].impacts
      /\ v[i].source_problems = w3[i].source_problems \cup {pb}
      /\ v[i].state = w3[i].state /\ v[i].state_before_impact = w3[i].state_before_impact
  <2> DEFINE r == w3[i]
             s == [r EXCEPT !.source_problems = r.source_problems \cup {pb}]
  <2>1. v[i] = s /\ DOMAIN v = Items /\ \A j \in Items \ {i} : v[j] = w3[j]
    BY <1>1, <1>7 DEF World
  <2>2. \A j \in Items : w3[j] \in Attributes
    BY <1>7 DEF World
  <2>3. r \in Attributes
    BY <2>2
  <2> HIDE DEF r
  <2>4. /\ s \in Attributes /\ SameOwn(r, s) /\ s.is_impact = r.is_impact
        /\ s.is_problem = r.is_problem /\ s.impacts = r.impacts
        /\ s.source_problems = r.source_problems \cup {pb}
        /\ s.state = r.state /\ s.state_before_impact = r.state_before_impact
    BY <2>3 DEF Attributes, SameOwn
  <2> HIDE DEF s
  <2>5. v \in World
    <3>1. \A j \in Items : v[j] \in Attributes
      BY <2>1, <2>2, <2>4
    <3>2. v = [j \in Items |-> v[j]]
      BY <1>1, <1>7 DEF World
    <3> QED
      BY <3>1, <3>2 DEF World
  <2> QED
    BY <2>1, <2>4, <2>5 DEF r
<1>9. Frame(w, v)
  <2>1. \A j \in Items : SameOwn(w3[j], v[j])
    BY <1>8 DEF SameOwn
  <2> QED
    BY <1>7, <2>1, FrameIsTransitive DEF Frame
<1>10. Typed(w) => Typed(v)
  BY <1>7, <1>8 DEF Typed, SameOwn
<1>11. \A j \in Items :
           /\ v[j].is_problem = (j # i /\ w[j].is_problem)
           /\ v[j].impacts = IF j = i /\ w[i].is_problem THEN {} ELSE w[j].impacts
  BY <1>7, <1>8
<1>12. \A j \in Items \ {i} :
           /\ v[j].source_problems =
                IF j \in Freed(w, i) THEN w[j].source_problems \ {i}
                ELSE w[j].source_problems
           /\ v[j].is_impact =
                IF j \in Freed(w, i) THEN w[j].source_problems \ {i} # {}
                ELSE w[j].is_impact
  BY <1>7, <1>8
<1>13. i \notin Freed(w, i) =>
           v[i].is_impact /\ v[i].source_problems = w[i].source_problems \cup {pb}
  BY <1>7, <1>8
<1> QED
  BY <1>8, <1>9, <1>10, <1>11, <1>12, <1>13 DEF Impacted

\* Whom an item frees are those that have it in their source_problems, and it is
\* not one of them.
LEMMA FreedAreReached ==
    ASSUME NEW w \in World, NEW Apart, Related(w, Apart), NEW i \in Items \ Apart
    PROVE  /\ \A j \in Items : j \in Freed(w, i) <=> i \in w[j].source_problems
           /\ i \notin Freed(w, i)
           /\ ~w[i].is_problem => w[i].impacts = {}
<1>1. \A j \in Items : w[j] \in Attributes /\ w[j].impacts \subseteq Items
  BY DEF World, Attributes
<1>2. \A j \in Items : j \in w[i].impacts <=> i \in w[j].source_problems
  BY DEF Related, Mutuals
<1>3. \A j \in Items : i \in w[j].source_problems => w[i].is_problem
  BY DEF Related, Sources
<1>4. i \notin w[i].source_problems
  <2>1. Rank[i] \in Int
    BY Ranked, ItemsFinite
  <2> QED
    BY <2>1 DEF Related, Sources
<1>5. \A j \in Items : j \in Freed(w, i) <=> i \in w[j].source_problems
  BY <1>2, <1>3 DEF Freed
<1>6. ~w[i].is_problem => w[i].impacts = {}
  BY <1>1, <1>2, <1>3
<1> QED
  BY <1>4, <1>5, <1>6

\* An item that is no more a problem leaves the relation as it should be.
LEMMA NoMoreKeeps ==
    ASSUME NEW w \in World, NEW Apart, Related(w, Apart), NEW i \in Items \ Apart,
           NEW v, v = no_more_a_problem(w, i)
    PROVE  /\ v \in World /\ Frame(w, v) /\ (Typed(w) => Typed(v))
           /\ Related(v, Apart)
           /\ \A j \in Items : v[j].is_problem = (j # i /\ w[j].is_problem)
           /\ v[i].state = w[i].state
           /\ \A j \in Apart \cap Items : v[j].impacts = w[j].impacts
           /\ \A pb \in Items \ {i} : Reached(v, pb) = Reached(w, pb)
<1>1. /\ v \in World /\ Frame(w, v) /\ (Typed(w) => Typed(v))
      /\ \A j \in Items :
           /\ v[j].is_problem = (j # i /\ w[j].is_problem)
           /\ v[j].impacts = IF j = i /\ w[i].is_problem THEN {} ELSE w[j].impacts
           /\ v[j].source_problems =
                IF j \in Freed(w, i) THEN w[j].source_problems \ {i}
                ELSE w[j].source_problems
           /\ v[j].is_impact =
                IF j \in Freed(w, i) THEN w[j].source_problems \ {i} # {}
                ELSE w[j].is_impact
      /\ i \notin Freed(w, i) => v[i].state = w[i].state
  BY NoMoreIs
<1>2. /\ \A j \in Items : j \in Freed(w, i) <=> i \in w[j].source_problems
      /\ i \notin Freed(w, i)
      /\ ~w[i].is_problem => w[i].impacts = {}
  BY FreedAreReached
<1>3. \A j \in Items : v[j].source_problems = w[j].source_problems \ {i}
  BY <1>1, <1>2
<1>4. v[i].impacts = {} /\ \A j \in Items \ {i} : v[j].impacts = w[j].impacts
  BY <1>1, <1>2
<1>5. Mutuals(v, Apart)
  BY <1>3, <1>4 DEF Related, Mutuals
<1>6. Sources(v)
  <2> SUFFICES ASSUME NEW j \in Items, NEW p \in v[j].source_problems
               PROVE  v[p].is_problem /\ Rank[p] < Rank[j]
    BY DEF Sources
  <2>1. p \in w[j].source_problems /\ p # i
    BY <1>3
  <2>2. w[p].is_problem /\ Rank[p] < Rank[j]
    BY <2>1 DEF Related, Sources
  <2>3. p \in Items
    BY <2>1 DEF World, Attributes
  <2> QED
    BY <1>1, <2>1, <2>2, <2>3
<1>7. Flags(v)
  BY <1>1, <1>2, <1>3 DEF Related, Flags
<1>8. \A pb \in Items \ {i} : Reached(v, pb) = Reached(w, pb)
  BY <1>3 DEF Reached
<1>9. Related(v, Apart)
  BY <1>5, <1>6, <1>7 DEF Related
<1>10. \A j \in Apart \cap Items : v[j].impacts = w[j].impacts
  BY <1>4
<1>11. v[i].state = w[i].state
  BY <1>1, <1>2
<1> QED
  BY <1>1, <1>8, <1>9, <1>10, <1>11

\* The relation without the impacts of the problem pb, that are being found.
Telling(w, pb) == Related(w, {pb}) /\ w[pb].is_problem

\* From w to v, the problem pb was told to those in found.
Tells(w, v, pb, found) ==
    /\ v \in World /\ Frame(w, v) /\ (Typed(w) => Typed(v))
    /\ Telling(v, pb)
    /\ \A j \in Items : v[j].is_problem => w[j].is_problem
    /\ v[pb].impacts = w[pb].impacts
    /\ found \subseteq Items /\ Reached(v, pb) = Reached(w, pb) \cup found

LEMMA TellsIsTransitive ==
    ASSUME NEW pb, NEW u, NEW v, NEW w, NEW found, NEW more,
           Tells(u, v, pb, found), Tells(v, w, pb, more)
    PROVE  Tells(u, w, pb, found \cup more)
<1>1. Frame(u, w)
  BY FrameIsTransitive DEF Tells
<1> QED
  BY <1>1 DEF Tells

\* An item that a problem reached leaves the relation as it should be.
LEMMA ImpactKeeps ==
    ASSUME NEW w \in World, NEW pb \in Items, Telling(w, pb), NEW i \in Items,
           Rank[pb] < Rank[i], NEW v, v = become_impact(w, i, pb)
    PROVE  Tells(w, v, pb, {i})
<1>0. Impacted(w, v, i, pb)
  BY ImpactIs
<1>1. /\ v \in World /\ Frame(w, v) /\ (Typed(w) => Typed(v))
      /\ \A j \in Items :
           /\ v[j].is_problem = (j # i /\ w[j].is_problem)
           /\ v[j].impacts = IF j = i /\ w[i].is_problem THEN {} ELSE w[j].impacts
      /\ \A j \in Items \ {i} :
           /\ v[j].source_problems =
                IF j \in Freed(w, i) THEN w[j].source_problems \ {i}
                ELSE w[j].source_problems
           /\ v[j].is_impact =
                IF j \in Freed(w, i) THEN w[j].source_problems \ {i} # {}
                ELSE w[j].is_impact
      /\ i \notin Freed(w, i) =>
           v[i].is_impact /\ v[i].source_problems = w[i].source_problems \cup {pb}
  BY <1>0 DEF Impacted
<1>2. i # pb
  BY Ranked, ItemsFinite
<1>3. /\ \A j \in Items : j \in Freed(w, i) <=> i \in w[j].source_problems
      /\ i \notin Freed(w, i)
      /\ ~w[i].is_problem => w[i].impacts = {}
  <2>1. i \in Items \ {pb} /\ Related(w, {pb})
    BY <1>2 DEF Telling
  <2> QED
    BY <2>1, FreedAreReached
<1>4. \A j \in Items \ {i} : v[j].source_problems = w[j].source_problems \ {i}
  BY <1>1, <1>3
<1>5. v[i].source_problems = w[i].source_problems \cup {pb} /\ i \notin w[i].source_problems
  BY <1>1, <1>3
<1>6. v[i].impacts = {} /\ \A j \in Items \ {i} : v[j].impacts = w[j].impacts
  BY <1>1, <1>3
<1>7. Mutuals(v, {pb})
  <2> SUFFICES ASSUME NEW j \in Items, NEW p \in Items \ {pb}
               PROVE  j \in v[p].impacts <=> p \in v[j].source_problems
    BY DEF Mutuals
  <2>1. j \in w[p].impacts <=> p \in w[j].source_problems
    BY DEF Telling, Related, Mutuals
  <2>2. p \in v[j].source_problems <=> p # i /\ p \in w[j].source_problems
    BY <1>4, <1>5
  <2>3. j \in v[p].impacts <=> p # i /\ j \in w[p].impacts
    BY <1>6
  <2> QED
    BY <2>1, <2>2, <2>3
<1>8. Sources(v)
  <2> SUFFICES ASSUME NEW j \in Items, NEW p \in v[j].source_problems
               PROVE  v[p].is_problem /\ Rank[p] < Rank[j]
    BY DEF Sources
  <2>1. CASE p = pb /\ j = i
    BY <1>1, <1>2, <2>1 DEF Telling
  <2>2. CASE p \in w[j].source_problems /\ p # i
    <3>1. w[p].is_problem /\ Rank[p] < Rank[j]
      BY <2>2 DEF Telling, Related, Sources
    <3>2. p \in Items
      BY <2>2 DEF World, Attributes
    <3> QED
      BY <1>1, <2>2, <3>1, <3>2
  <2> QED
    BY <1>4, <1>5, <2>1, <2>2
<1>9. Flags(v)
  <2> SUFFICES ASSUME NEW j \in Items PROVE v[j].is_impact <=> v[j].source_problems # {}
    BY DEF Flags
  <2>1. w[j].is_impact <=> w[j].source_problems # {}
    BY DEF Telling, Related, Flags
  <2>2. CASE j = i
    BY <1>1, <1>3, <2>2
  <2>3. CASE j # i
    BY <1>1, <1>3, <1>4, <2>1, <2>3
  <2> QED
    BY <2>2, <2>3
<1>10. Reached(v, pb) = Reached(w, pb) \cup {i}
  BY <1>2, <1>4, <1>5 DEF Reached
<1>11. v[pb].is_problem /\ v[pb].impacts = w[pb].impacts
  BY <1>1, <1>2, <1>6 DEF Telling
<1>12. \A j \in Items : v[j].is_problem => w[j].is_problem
  BY <1>1
<1>13. Telling(v, pb)
  BY <1>7, <1>8, <1>9, <1>11 DEF Telling, Related
<1> QED
  BY <1>1, <1>10, <1>11, <1>12, <1>13 DEF Tells

\* The links to those that depend on i lead to items of a higher rank.
LEMMA LinksOfMe ==
    ASSUME NEW i \in Items
    PROVE  /\ act_depend_of_me(i) \in Seq(Link)
           /\ \A k \in 1..Len(act_depend_of_me(i)) :
                /\ act_depend_of_me(i)[k] \in Link
                /\ act_depend_of_me(i)[k].dep = i
                /\ act_depend_of_me(i)[k].son \in Items
                /\ Rank[i] < Rank[act_depend_of_me(i)[k].son]
<1> DEFINE mine == {d \in Link : d.dep = i}
<1>1. Dep \in Seq(Link)
  BY LinkAssumption
<1>2. act_depend_of_me(i) = Filter(Dep, mine)
  BY DEF act_depend_of_me
<1> HIDE DEF mine
<1>3. /\ act_depend_of_me(i) \in Seq(Link)
      /\ Among(act_depend_of_me(i), Dep, Len(Dep), mine)
  BY <1>1, <1>2, FilterKeeps
<1>4. \A k \in 1..Len(act_depend_of_me(i)) : act_depend_of_me(i)[k] \in mine
  BY <1>3 DEF Among
<1>5. \A d \in mine : d \in Link /\ d.dep = i /\ d.son \in Items /\ Rank[i] < Rank[d.son]
  BY LinkAssumption, Ranked DEF mine
<1> QED
  BY <1>3, <1>4, <1>5

Registers == [World -> [Items -> Found]]

\* What register tells of pb is right, for those that pb may reach.
Right(register, pb) ==
    \A w \in World, j \in Items :
        Telling(w, pb) /\ Rank[pb] < Rank[j]
            => Tells(w, register[w][j].w, pb, register[w][j].found)

\* From start to r, pb was told to some more items.
ToldMore(start, r, pb) ==
    \E more : Tells(start.w, r.w, pb, more) /\ r.found = start.found \cup more

\* An item that tells of pb all that depend on it.
LEMMA SpreadKeeps ==
    ASSUME NEW register \in Registers, NEW start \in Found, NEW i \in Items,
           NEW pb \in Items, NEW r, r = Spread(register, start, i)
    PROVE  /\ r \in Found
           /\ (Right(register, pb) /\ Telling(start.w, pb) /\ Rank[pb] <= Rank[i])
                  => ToldMore(start, r, pb)
<1> DEFINE Step1(acc, d) == [w |-> register[acc.w][d.son].w,
                             found |-> acc.found \cup register[acc.w][d.son].found]
           G == [acc \in Found |-> [d \in Link |->
                    IF Matches(acc.w, i, d.status) /\ InTime(d)
                    THEN LET s == register[acc.w][d.son]
                         IN [w |-> s.w, found |-> acc.found \cup s.found]
                    ELSE acc]]
           links == act_depend_of_me(i)
<1>1. r = Through(G, start, links)
  BY DEF Spread
<1>2. \A acc \in Found, d \in Link :
          G[acc][d] = Step1(acc, d) \/ G[acc][d] = acc
  OBVIOUS
<1>3. \A acc \in Found : acc.w \in World /\ acc.found \subseteq Items
  BY DEF Found
<1>4. \A w \in World, j \in Items :
          register[w][j].w \in World /\ register[w][j].found \subseteq Items
  BY DEF Registers, Found
<1>5. \A d \in Link : d.son \in Items
  BY LinkAssumption
<1>6. \A acc \in Found, d \in Link : Step1(acc, d) \in Found
  BY <1>3, <1>4, <1>5 DEF Found
<1>7. \A acc \in Found, d \in Link : G[acc][d] \in Found
  <2>1. \A acc \in Found, d \in Link :
            (IF Matches(acc.w, i, d.status) /\ InTime(d)
             THEN LET s == register[acc.w][d.son]
                  IN [w |-> s.w, found |-> acc.found \cup s.found]
             ELSE acc) \in Found
    BY <1>6
  <2> QED
    BY <2>1
<1> HIDE DEF G, Step1
<1>8. /\ links \in Seq(Link)
      /\ \A k \in 1..Len(links) : links[k] \in Link /\ links[k].son \in Items
                                  /\ Rank[i] < Rank[links[k].son]
  BY LinksOfMe
<1> HIDE DEF links
<1>9. r \in Found
  <2>1. \A k \in 1..Len(links), s \in Found : s \in Found => G[s][links[k]] \in Found
    BY <1>7, <1>8
  <2>2. Through(G, start, links) \in Found
    BY <1>7, <1>8, <2>1, ThroughKeeps
  <2> QED
    BY <1>1, <2>2
<1>10. ASSUME Right(register, pb), Telling(start.w, pb), Rank[pb] <= Rank[i]
       PROVE  ToldMore(start, r, pb)
  <2> DEFINE P == {s \in Found : ToldMore(start, s, pb)}
  <2>1. start \in P
    <3>1. Tells(start.w, start.w, pb, {})
      BY <1>3, <1>10 DEF Tells, Frame, SameOwn
    <3> QED
      BY <3>1 DEF ToldMore
  <2>2. ASSUME NEW k \in 1..Len(links), NEW s \in Found, s \in P
        PROVE  G[s][links[k]] \in P
    <3> DEFINE j == links[k].son
    <3>1. PICK more : Tells(start.w, s.w, pb, more) /\ s.found = start.found \cup more
      BY <2>2 DEF ToldMore
    <3>2. links[k] \in Link /\ j \in Items /\ s.w \in World
      BY <1>3, <1>8
    <3>3. CASE G[s][links[k]] = Step1(s, links[k])
      <4> DEFINE t == register[s.w][j]
      <4>1. Rank[pb] < Rank[j]
        <5>1. Rank[i] < Rank[j]
          BY <1>8
        <5>2. Rank[pb] \in Int /\ Rank[i] \in Int /\ Rank[j] \in Int
          BY <3>2, Ranked, ItemsFinite
        <5> QED
          BY <1>10, <5>1, <5>2
      <4>2. Telling(s.w, pb)
        BY <3>1 DEF Tells
      <4>3. Tells(s.w, t.w, pb, t.found)
        BY <1>10, <3>2, <4>1, <4>2 DEF Right
      <4>4. Tells(start.w, t.w, pb, more \cup t.found)
        BY <3>1, <4>3, TellsIsTransitive
      <4>5. G[s][links[k]] \in Found
        BY <1>7, <3>2
      <4>6. /\ G[s][links[k]].w = t.w
            /\ G[s][links[k]].found = start.found \cup (more \cup t.found)
        BY <3>1, <3>3 DEF Step1
      <4> QED
        BY <4>4, <4>5, <4>6 DEF ToldMore
    <3>4. CASE G[s][links[k]] = s
      BY <2>2, <3>4
    <3> QED
      BY <1>2, <3>2, <3>3, <3>4
  <2>3. Through(G, start, links) \in P
    <3> HIDE DEF P
    <3> QED
      BY <1>7, <1>8, <2>1, <2>2, ThroughKeeps
  <2> QED
    BY <1>1, <2>3
<1> QED
  BY <1>9, <1>10

\* Telling of a problem nobody changes nothing.
LEMMA NobodyIsTold ==
    ASSUME NEW w \in World, NEW pb, Telling(w, pb)
    PROVE  Tells(w, w, pb, {})
  BY DEF Tells, Frame, SameOwn

\* One more level of the calls of register_a_problem.
Deeper(register, pb) ==
    [w \in World |-> [i \in Items |->
        IF pb \in w[i].source_problems THEN [w |-> w, found |-> {}]
        ELSE Spread(register, [w |-> become_impact(w, i, pb), found |-> {i}], i)]]

LEMMA DeeperIsRight ==
    ASSUME NEW register \in Registers, NEW pb \in Items
    PROVE  /\ Deeper(register, pb) \in Registers
           /\ Right(register, pb) => Right(Deeper(register, pb), pb)
<1> DEFINE Start(w, i) == [w |-> become_impact(w, i, pb), found |-> {i}]
           Calls(w, i) == IF pb \in w[i].source_problems THEN [w |-> w, found |-> {}]
                          ELSE Spread(register, Start(w, i), i)
<1>1. \A w \in World, i \in Items : Deeper(register, pb)[w][i] = Calls(w, i)
  BY DEF Deeper
<1>2. ASSUME NEW w \in World, NEW i \in Items
      PROVE  Impacted(w, Start(w, i).w, i, pb) /\ Start(w, i) \in Found
  <2>1. Impacted(w, become_impact(w, i, pb), i, pb)
    BY ImpactIs
  <2>2. become_impact(w, i, pb) \in World
    BY <2>1 DEF Impacted
  <2> QED
    BY <2>1, <2>2 DEF Found
<1>3. ASSUME NEW w \in World, NEW i \in Items
      PROVE  /\ Calls(w, i) \in Found
             /\ (Right(register, pb) /\ Telling(w, pb) /\ Rank[pb] < Rank[i])
                    => Tells(w, Calls(w, i).w, pb, Calls(w, i).found)
  <2>1. CASE pb \in w[i].source_problems
    <3>1. Calls(w, i) = [w |-> w, found |-> {}]
      BY <2>1
    <3> HIDE DEF Calls
    <3>2. Calls(w, i) \in Found
      BY <3>1 DEF Found
    <3> QED
      BY <3>1, <3>2, NobodyIsTold
  <2>2. CASE pb \notin w[i].source_problems
    <3> DEFINE start == Start(w, i)
               r == Spread(register, start, i)
    <3>1. Calls(w, i) = r
      BY <2>2
    <3>2. start \in Found /\ start.w = become_impact(w, i, pb) /\ start.found = {i}
      BY <1>2
    <3> HIDE DEF start, Calls
    <3>3. /\ r \in Found
          /\ (Right(register, pb) /\ Telling(start.w, pb) /\ Rank[pb] <= Rank[i])
                  => ToldMore(start, r, pb)
      BY <3>2, SpreadKeeps
    <3> HIDE DEF r
    <3>4. ASSUME Right(register, pb), Telling(w, pb), Rank[pb] < Rank[i]
          PROVE  Tells(w, r.w, pb, r.found)
      <4>1. Tells(w, start.w, pb, {i})
        BY <3>2, <3>4, ImpactKeeps
      <4>2. Telling(start.w, pb)
        BY <4>1 DEF Tells
      <4>3. Rank[pb] <= Rank[i]
        BY <3>4, Ranked, ItemsFinite
      <4>4. PICK more : Tells(start.w, r.w, pb, more) /\ r.found = start.found \cup more
        BY <3>3, <3>4, <4>2, <4>3 DEF ToldMore
      <4> QED
        BY <3>2, <4>1, <4>4, TellsIsTransitive
    <3> QED
      BY <3>1, <3>3, <3>4
  <2> QED
    BY <2>1, <2>2
<1> HIDE DEF Calls
<1>4. Deeper(register, pb) \in Registers
  <2>1. Deeper(register, pb) = [w \in World |-> [i \in Items |-> Calls(w, i)]]
    BY DEF Deeper, Calls
  <2> QED
    BY <1>3, <2>1 DEF Registers
<1>5. Right(register, pb) => Right(Deeper(register, pb), pb)
  BY <1>1, <1>3 DEF Right
<1> QED
  BY <1>4, <1>5

\* register_a_problem is defined for every world and item, and tells of pb rightly.
LEMMA RegisterIsRight ==
    ASSUME NEW pb \in Items, NEW register, register = register_a_problem(pb)
    PROVE  register \in Registers /\ Right(register, pb)
<1> DEFINE n == Cardinality(Items)
           stay == [w \in World |-> [i \in Items |-> [w |-> w, found |-> {}]]]
           H == [x \in Registers \X (1..n) |-> Deeper(x[1], pb)]
           Rec(g) == [depth \in 0..n |->
              [w \in World |-> [i \in Items |->
                  IF pb \in w[i].source_problems \/ depth = 0
                  THEN [w |-> w, found |-> {}]
                  ELSE Spread(g[depth - 1],
                              [w |-> become_impact(w, i, pb), found |-> {i}], i)]]]
<1>1. n \in Nat
  BY ItemsFinite
<1> HIDE DEF n
<1>2. stay \in Registers /\ Right(stay, pb)
  <2>1. \A w \in World, i \in Items : [w |-> w, found |-> {}] \in Found
    BY DEF Found
  <2>2. stay \in Registers
    BY <2>1 DEF Registers
  <2>3. \A w \in World, i \in Items : stay[w][i].w = w /\ stay[w][i].found = {}
    OBVIOUS
  <2> HIDE DEF stay
  <2> QED
    BY <2>2, <2>3, NobodyIsTold DEF Right
<1>3. ASSUME NEW g, NEW depth \in 0..n
      PROVE  Rec(g)[depth] = IF depth = 0 THEN stay ELSE Deeper(g[depth - 1], pb)
  <2>1. CASE depth = 0
    BY <1>1, <2>1
  <2>2. CASE depth # 0
    BY <1>1, <2>2 DEF Deeper
  <2> QED
    BY <2>1, <2>2
<1>4. \A g : Rec(g) = [depth \in 0..n |-> Rec(g)[depth]]
  OBVIOUS
<1> HIDE DEF Rec, stay
<1>5. PICK f \in [0..n -> Registers] :
          f[0] = stay /\ \A i \in 1..n : f[i] = Deeper(f[i - 1], pb)
  <2>1. H \in Steps(Registers, n)
    BY DeeperIsRight DEF Steps
  <2> HIDE DEF H
  <2>2. \E f \in [0..n -> Registers] : Iterates(f, n, stay, H)
    BY <1>1, <1>2, <2>1, Iteration
  <2>3. PICK f \in [0..n -> Registers] : Iterates(f, n, stay, H)
    BY <2>2
  <2>4. \A i \in 1..n : H[<<f[i - 1], i>>] = Deeper(f[i - 1], pb)
    <3>1. \A i \in 1..n : f[i - 1] \in Registers
      BY <1>1, <2>3
    <3> QED
      BY <3>1 DEF H
  <2> QED
    BY <2>3, <2>4 DEF Iterates
<1>6. f = Rec(f)
  <2>1. \A i \in 0..n : i = 0 \/ i \in 1..n
    BY <1>1
  <2>2. \A i \in 0..n : f[i] = Rec(f)[i]
    BY <1>3, <1>5, <2>1
  <2> QED
    BY <1>4, <1>5, <2>2
<1> DEFINE F == CHOOSE g : g = Rec(g)
<1>7. F = Rec(F)
  BY <1>6
<1>8. register = F[n]
  BY DEF register_a_problem, Rec, n
<1> HIDE DEF F
<1> DEFINE P == {m \in 0..n : F[m] \in Registers /\ Right(F[m], pb)}
<1>9. 0 \in P
  BY <1>1, <1>2, <1>3, <1>7
<1>10. ASSUME NEW m \in 1..n, m - 1 \in P PROVE m \in P
  <2>1. F[m] = Deeper(F[m - 1], pb)
    BY <1>1, <1>3, <1>7
  <2>2. F[m - 1] \in Registers /\ Right(F[m - 1], pb)
    BY <1>10
  <2> QED
    BY <1>1, <2>1, <2>2, DeeperIsRight
<1>11. 0..n \subseteq P
  <2> HIDE DEF P
  <2> QED
    BY <1>1, <1>9, <1>10, Induction
<1> QED
  BY <1>1, <1>8, <1>11

\* A world with other attributes of one item.
LEMMA WithItem ==
    ASSUME NEW w \in World, NEW i \in Items, NEW r \in Attributes
    PROVE  /\ [w EXCEPT ![i] = r] \in World
           /\ [w EXCEPT ![i] = r][i] = r
           /\ \A j \in Items \ {i} : [w EXCEPT ![i] = r][j] = w[j]
  BY DEF World

\* From w to v the relation stays as it should be, with some in More for problems.
Keeps(w, v, More) ==
    /\ v \in World /\ Frame(w, v) /\ (Typed(w) => Typed(v))
    /\ Related(v, {})
    /\ \A j \in Items : v[j].is_problem => w[j].is_problem \/ j \in More

\* What changes no links and nothing of its own of an item keeps the relation.
LEMMA SameLinksKeep ==
    ASSUME NEW w \in World, NEW v, Related(w, {}), \A j \in Items : SameLinks(w[j], v[j])
    PROVE  Related(v, {})
<1>1. \A j \in Items : w[j].source_problems \subseteq Items
  BY DEF World, Attributes
<1> QED
  BY <1>1 DEF Related, Mutuals, Sources, Flags, SameLinks

\* An item that becomes a problem leaves the relation as it should be.
LEMMA MyselfKeeps ==
    ASSUME NEW w \in World, Related(w, {}), NEW i \in Items,
           NEW v, v = set_myself_as_problem(w, i)
    PROVE  Keeps(w, v, {i})
<1> DEFINE w0 == [w EXCEPT ![i].is_problem = TRUE]
           start == [w |-> w0, found |-> w[i].impacts]
           register == register_a_problem(i)
           r == Spread(register, start, i)
           w1 == [r.w EXCEPT ![i].impacts = r.found]
           v1 == update_business_impact_value(w1, i)
<1>1. v = IF r.found = r.w[i].impacts THEN r.w ELSE v1
  BY DEF set_myself_as_problem
<1>2. w[i] \in Attributes /\ w[i].impacts \subseteq Items
  BY DEF World, Attributes
<1>3. /\ w0 \in World /\ \A j \in Items \ {i} : w0[j] = w[j]
      /\ SameOwn(w[i], w0[i]) /\ w0[i].is_problem = TRUE
      /\ w0[i].is_impact = w[i].is_impact /\ w0[i].impacts = w[i].impacts
      /\ w0[i].source_problems = w[i].source_problems
      /\ w0[i].state = w[i].state /\ w0[i].state_before_impact = w[i].state_before_impact
  <2> DEFINE a == w[i]
             s == [a EXCEPT !.is_problem = TRUE]
  <2>1. w0 = [w EXCEPT ![i] = s]
    OBVIOUS
  <2>2. a \in Attributes
    BY <1>2
  <2> HIDE DEF w0, a
  <2>3. /\ s \in Attributes /\ SameOwn(a, s) /\ s.is_problem = TRUE
        /\ s.is_impact = a.is_impact /\ s.impacts = a.impacts
        /\ s.source_problems = a.source_problems
        /\ s.state = a.state /\ s.state_before_impact = a.state_before_impact
    BY <2>2 DEF Attributes, SameOwn
  <2> HIDE DEF s
  <2>4. w0 \in World /\ w0[i] = s /\ \A j \in Items \ {i} : w0[j] = w[j]
    <3>1. s \in Attributes /\ w0 = [w EXCEPT ![i] = s]
      BY <2>1, <2>3
    <3> HIDE DEF s
    <3> QED
      BY <3>1 DEF World
  <2> QED
    BY <2>3, <2>4 DEF a
<1>4. Frame(w, w0) /\ (Typed(w) => Typed(w0))
  BY <1>3 DEF Frame, Typed, SameOwn
<1>5. Telling(w0, i)
  <2>1. \A j \in Items : /\ w0[j].is_impact = w[j].is_impact
                         /\ w0[j].source_problems = w[j].source_problems
                         /\ w[j].is_problem => w0[j].is_problem
                         /\ w0[j].impacts = w[j].impacts
    BY <1>3
  <2>2. Mutuals(w0, {i}) /\ Flags(w0)
    BY <2>1 DEF Related, Mutuals, Flags
  <2>3. \A j \in Items : w[j].source_problems \subseteq Items
    BY DEF World, Attributes
  <2>4. Sources(w0)
    BY <2>1, <2>3 DEF Related, Sources
  <2> QED
    BY <1>3, <2>2, <2>4 DEF Telling, Related
<1>6. Reached(w0, i) = w[i].impacts
  <2>1. \A j \in Items : w0[j].source_problems = w[j].source_problems
    BY <1>3
  <2>2. \A j \in Items : j \in w[i].impacts <=> i \in w[j].source_problems
    BY DEF Related, Mutuals
  <2> QED
    BY <1>2, <2>1, <2>2 DEF Reached
<1>7. start \in Found /\ start.w = w0 /\ start.found = w[i].impacts
  BY <1>2, <1>3 DEF Found
<1> HIDE DEF w0, start
<1>8. r \in Found /\ ToldMore(start, r, i)
  <2>1. register \in Registers /\ Right(register, i)
    BY RegisterIsRight
  <2>2. Rank[i] <= Rank[i]
    BY Ranked, ItemsFinite
  <2> HIDE DEF register
  <2> QED
    BY <1>5, <1>7, <2>1, <2>2, SpreadKeeps
<1> HIDE DEF r
<1>9. PICK more : Tells(w0, r.w, i, more) /\ r.found = w[i].impacts \cup more
  BY <1>7, <1>8 DEF ToldMore
<1>10. /\ r.w \in World /\ r.found \subseteq Items /\ Reached(r.w, i) = r.found
       /\ r.w[i].impacts = w[i].impacts /\ Related(r.w, {i}) /\ r.w[i].is_problem
       /\ Frame(w, r.w) /\ (Typed(w) => Typed(r.w))
       /\ \A j \in Items : r.w[j].is_problem => w[j].is_problem \/ j = i
  <2>1. Frame(w, r.w)
    BY <1>4, <1>9, FrameIsTransitive DEF Tells
  <2> QED
    BY <1>3, <1>4, <1>6, <1>8, <1>9, <2>1 DEF Tells, Telling, Found
<1>11. CASE r.found = r.w[i].impacts
  <2>1. v = r.w
    BY <1>1, <1>11
  <2>2. Mutuals(v, {})
    BY <1>10, <1>11, <2>1 DEF Related, Mutuals, Reached
  <2> QED
    BY <1>10, <2>1, <2>2 DEF Related, Keeps
<1>12. CASE r.found # r.w[i].impacts
  <2>1. v = v1
    BY <1>1, <1>12
  <2>2. /\ w1 \in World /\ \A j \in Items \ {i} : w1[j] = r.w[j]
        /\ SameOwn(r.w[i], w1[i]) /\ w1[i].impacts = r.found
        /\ w1[i].is_problem = r.w[i].is_problem /\ w1[i].is_impact = r.w[i].is_impact
        /\ w1[i].source_problems = r.w[i].source_problems
        /\ w1[i].state = r.w[i].state
        /\ w1[i].state_before_impact = r.w[i].state_before_impact
    <3> DEFINE a == r.w[i]
               s == [a EXCEPT !.impacts = r.found]
    <3>1. w1 = [r.w EXCEPT ![i] = s]
      OBVIOUS
    <3>2. a \in Attributes
      BY <1>10 DEF World
    <3> HIDE DEF a, w1
    <3>3. /\ s \in Attributes /\ SameOwn(a, s) /\ s.impacts = r.found
          /\ s.is_problem = a.is_problem /\ s.is_impact = a.is_impact
          /\ s.source_problems = a.source_problems
          /\ s.state = a.state /\ s.state_before_impact = a.state_before_impact
      BY <1>10, <3>2 DEF Attributes, SameOwn
    <3> HIDE DEF s
    <3>4. w1 \in World /\ w1[i] = s /\ \A j \in Items \ {i} : w1[j] = r.w[j]
      BY <1>10, <3>1, <3>3, WithItem
    <3> QED
      BY <3>3, <3>4 DEF a
  <2> HIDE DEF w1
  <2>3. /\ v1 \in World
        /\ \A j \in Items : /\ SameOwn(w1[j], v1[j]) /\ SameLinks(w1[j], v1[j])
                            /\ v1[j].state = w1[j].state
                            /\ v1[j].state_before_impact = w1[j].state_before_impact
    BY <2>2, ValueIsUpdated
  <2> HIDE DEF v1
  <2>4. Frame(w, v1)
    <3>1. Frame(r.w, w1) /\ Frame(w1, v1)
      BY <2>2, <2>3 DEF Frame, SameOwn
    <3> QED
      BY <1>10, <3>1, FrameIsTransitive
  <2>5. Typed(w) => Typed(v1)
    <3>1. Typed(r.w) => Typed(w1)
      BY <2>2 DEF Typed, SameOwn
    <3>2. Typed(w1) => Typed(v1)
      BY <2>3 DEF Typed, SameOwn
    <3> QED
      BY <1>10, <3>1, <3>2
  <2>6. Related(w1, {})
    <3>1. Mutuals(w1, {})
      <4> SUFFICES ASSUME NEW j \in Items, NEW p \in Items
                   PROVE  j \in w1[p].impacts <=> p \in w1[j].source_problems
        BY DEF Mutuals
      <4>1. w1[j].source_problems = r.w[j].source_problems
        BY <2>2
      <4>2. CASE p = i
        BY <1>10, <2>2, <4>1, <4>2 DEF Reached
      <4>3. CASE p # i
        BY <1>10, <2>2, <4>1, <4>3 DEF Related, Mutuals
      <4> QED
        BY <4>2, <4>3
    <3>2. \A j \in Items : /\ w1[j].source_problems = r.w[j].source_problems
                           /\ w1[j].is_problem = r.w[j].is_problem
                           /\ w1[j].is_impact = r.w[j].is_impact
                           /\ r.w[j].source_problems \subseteq Items
      BY <1>10, <2>2 DEF World, Attributes
    <3>3. Sources(w1) /\ Flags(w1)
      BY <1>10, <3>2 DEF Related, Sources, Flags
    <3> QED
      BY <3>1, <3>3 DEF Related
  <2>7. Related(v1, {})
    BY <2>2, <2>3, <2>6, SameLinksKeep
  <2>8. \A j \in Items : v1[j].is_problem => w[j].is_problem \/ j = i
    BY <1>10, <2>2, <2>3 DEF SameLinks
  <2> QED
    BY <2>1, <2>3, <2>4, <2>5, <2>7, <2>8 DEF Keeps
<1> QED
  BY <1>11, <1>12

-----------------------------------------------------------------------------
(* What a result does to the world.                                        *)

\* A world that TypeOK and MutualImpacts hold of.
Sound(w) == Typed(w) /\ Related(w, {})

\* From w to v only i has changed of its own, and no other item is a new problem.
Led(w, v, i) ==
    /\ Sound(v)
    /\ \A j \in Items \ {i} : /\ SameOwn(w[j], v[j])
                              /\ v[j].is_problem => w[j].is_problem

LEMMA LedIsTransitive ==
    ASSUME NEW i, NEW u, NEW v, NEW w, Led(u, v, i), Led(v, w, i)
    PROVE  Led(u, w, i)
  BY DEF Led, SameOwn

LEMMA SoundIs ==
    ASSUME NEW w, Sound(w), NEW i \in Items
    PROVE  /\ w \in World /\ w[i] \in Attributes
           /\ w[i].state \in Kind(i) /\ w[i].state_before_impact \in Kind(i)
           /\ w[i].attempt \in Nat /\ w[i].attempt <= max_check_attempts[i]
  BY DEF Sound, Typed, World, Attributes

\* An item that changes of its own.
LEMMA EditLeads ==
    ASSUME NEW w, Sound(w), NEW i \in Items, NEW r \in Attributes,
           SameLinks(w[i], r), r.state \in Kind(i), r.state_before_impact \in Kind(i),
           r.attempt <= max_check_attempts[i]
    PROVE  Led(w, [w EXCEPT ![i] = r], i) /\ [w EXCEPT ![i] = r][i] = r
<1> DEFINE v == [w EXCEPT ![i] = r]
<1>1. w \in World /\ Related(w, {}) /\ Typed(w)
  BY DEF Sound, Typed
<1>2. v \in World /\ v[i] = r /\ \A j \in Items \ {i} : v[j] = w[j]
  BY <1>1, WithItem
<1> HIDE DEF v
<1>3. \A j \in Items : SameLinks(w[j], v[j])
  BY <1>2 DEF SameLinks
<1>4. Related(v, {})
  BY <1>1, <1>3, SameLinksKeep
<1>5. Typed(v)
  BY <1>1, <1>2 DEF Typed
<1>6. Led(w, v, i)
  BY <1>2, <1>4, <1>5 DEF Led, Sound, SameOwn
<1> QED
  BY <1>2, <1>6 DEF v

LEMMA NoMoreLeads ==
    ASSUME NEW w, Sound(w), NEW i \in Items, NEW v, v = no_more_a_problem(w, i)
    PROVE  Led(w, v, i) /\ SameOwn(w[i], v[i]) /\ ~v[i].is_problem
<1>1. w \in World /\ Related(w, {}) /\ Typed(w) /\ i \in Items \ {}
  BY DEF Sound, Typed
<1>2. /\ v \in World /\ Frame(w, v) /\ (Typed(w) => Typed(v))
      /\ Related(v, {})
      /\ \A j \in Items : v[j].is_problem = (j # i /\ w[j].is_problem)
  BY <1>1, NoMoreKeeps
<1> QED
  BY <1>1, <1>2 DEF Led, Sound, Frame

LEMMA MyselfLeads ==
    ASSUME NEW w, Sound(w), NEW i \in Items, NEW v, v = set_myself_as_problem(w, i)
    PROVE  Led(w, v, i) /\ SameOwn(w[i], v[i])
<1>1. w \in World /\ Related(w, {}) /\ Typed(w)
  BY DEF Sound, Typed
<1>2. Keeps(w, v, {i})
  BY <1>1, MyselfKeeps
<1> QED
  BY <1>1, <1>2 DEF Led, Sound, Frame, Keeps

LEMMA BlameLeads ==
    ASSUME NEW w, Sound(w), NEW i \in Items, NEW no_action, NEW v,
           v = Blame(w, i, no_action)
    PROVE  Led(w, v, i) /\ SameOwn(w[i], v[i])
<1>1. CASE v = w
  BY <1>1 DEF Led, SameOwn
<1>2. CASE v = set_myself_as_problem(w, i)
  BY <1>2, MyselfLeads
<1> QED
  BY <1>1, <1>2 DEF Blame

\* What a new state does not change of an item.
SameCounts(r, s) ==
    /\ s.state_type = r.state_type /\ s.attempt = r.attempt /\ s.ack = r.ack
    /\ s.in_phase = r.in_phase /\ s.state_before_phase = r.state_before_phase
    /\ s.problem_id = r.problem_id /\ s.is_problem = r.is_problem

\* The states that an item that failed may be found in.
Bad(i) == IF i \in Host THEN {"DOWN", "UNREACHABLE"} ELSE {"WARNING", "CRITICAL", "UNKNOWN"}

LEMMA StatesOfKind ==
    ASSUME NEW i \in Items
    PROVE  /\ Kind(i) \subseteq HostState \cup ServiceState
           /\ Bad(i) \subseteq Kind(i) /\ Bad(i) \cap (Fine \cup {"PENDING", None}) = {}
           /\ Kind(i) = Bad(i) \cup (Kind(i) \cap (Fine \cup {"PENDING"}))
           /\ \A s, t \in Kind(i) \cap Undetermined : s = t
  BY DEF Kind, Bad, HostState, ServiceState, Fine, Undetermined, None

LEMMA StateIsSet ==
    ASSUME NEW w, Sound(w), NEW i \in Items, NEW exit, NEW v,
           v = set_state_from_exit_status(w, i, exit)
    PROVE  /\ Led(w, v, i) /\ SameCounts(w[i], v[i])
           /\ v[i].state = StateOf(i, exit)
           /\ StateOf(i, exit) \in IF exit = 0 THEN Kind(i) \cap Fine ELSE Bad(i)
<1> DEFINE r == w[i]
           now == r.is_impact /\ enable_problem_impacts_states_change
           s == [r EXCEPT !.state = StateOf(i, exit), !.state_changed_since_impact = now]
<1>1. v = [w EXCEPT ![i] = s]
  BY DEF set_state_from_exit_status
<1>2. r \in Attributes /\ r.state_before_impact \in Kind(i)
      /\ r.attempt <= max_check_attempts[i]
  BY SoundIs
<1>3. StateOf(i, exit) \in IF exit = 0 THEN Kind(i) \cap Fine ELSE Bad(i)
  BY DEF StateOf, Kind, Bad, Fine, HostState, ServiceState
<1>4. StateOf(i, exit) \in Kind(i) /\ StateOf(i, exit) \in HostState \cup ServiceState
  BY <1>3, StatesOfKind
<1>5. SameLinks(w[i], s) /\ SameCounts(w[i], s)
  BY <1>2 DEF Attributes, SameLinks, SameCounts
<1>6. /\ s \in Attributes /\ s.state = StateOf(i, exit)
      /\ s.state_before_impact = r.state_before_impact /\ s.attempt = r.attempt
  <2> HIDE DEF r
  <2> QED
    BY <1>2, <1>4 DEF Attributes
<1> HIDE DEF r, s
<1>7. Led(w, [w EXCEPT ![i] = s], i) /\ [w EXCEPT ![i] = s][i] = s
  BY <1>2, <1>4, <1>5, <1>6, EditLeads
<1> QED
  BY <1>1, <1>3, <1>5, <1>6, <1>7

LEMMA Unreachability ==
    ASSUME NEW w, Sound(w), NEW i \in Items, NEW v, v = check_and_set_unreachability(w, i)
    PROVE  /\ Led(w, v, i) /\ SameCounts(w[i], v[i])
           /\ v[i].state \in {w[i].state} \cup (Bad(i) \cap Undetermined)
<1> DEFINE r == w[i]
           s == [r EXCEPT !.state = "UNREACHABLE"]
<1>1. CASE v = w
  BY <1>1 DEF Led, SameOwn, SameCounts
<1>2. CASE v = [w EXCEPT ![i].state = "UNREACHABLE"] /\ i \in Host
  <2>1. v = [w EXCEPT ![i] = s]
    BY <1>2
  <2>2. r \in Attributes /\ r.state_before_impact \in Kind(i)
        /\ r.attempt <= max_check_attempts[i]
    BY SoundIs
  <2>3. "UNREACHABLE" \in Kind(i) /\ "UNREACHABLE" \in HostState
        /\ "UNREACHABLE" \in Bad(i) \cap Undetermined
    BY <1>2 DEF Kind, HostState, Bad, Undetermined
  <2>4. SameLinks(w[i], s) /\ SameCounts(w[i], s)
    BY <2>2 DEF Attributes, SameLinks, SameCounts
  <2>5. /\ s \in Attributes /\ s.state = "UNREACHABLE"
        /\ s.state_before_impact = r.state_before_impact /\ s.attempt = r.attempt
    <3> HIDE DEF r
    <3> QED
      BY <2>2, <2>3 DEF Attributes
  <2> HIDE DEF r, s
  <2>6. Led(w, [w EXCEPT ![i] = s], i) /\ [w EXCEPT ![i] = s][i] = s
    BY <2>2, <2>3, <2>4, <2>5, EditLeads
  <2> QED
    BY <2>1, <2>3, <2>4, <2>5, <2>6
<1> QED
  BY <1>1, <1>2 DEF check_and_set_unreachability

\* What the cases of consume_state_result do not change of an item but by Blame.
SameRest(r, s) ==
    /\ s.in_phase = r.in_phase /\ s.state_before_phase = r.state_before_phase
    /\ s.problem_id = r.problem_id
    /\ ~enable_problem_impacts_states_change => s.state = r.state

\* An item whose attempts, type of state, acknowledgement, phase or problem id change.
LEMMA CountsLead ==
    ASSUME NEW w, Sound(w), NEW i \in Items, NEW s \in Attributes,
           SameLinks(w[i], s), s.state = w[i].state,
           s.state_before_impact = w[i].state_before_impact,
           s.attempt <= max_check_attempts[i]
    PROVE  Led(w, [w EXCEPT ![i] = s], i) /\ [w EXCEPT ![i] = s][i] = s
<1>1. s.state \in Kind(i) /\ s.state_before_impact \in Kind(i)
  BY SoundIs
<1> QED
  BY <1>1, EditLeads

\* The first attempt is one of an item's attempts.
LEMMA OneAttempt ==
    ASSUME NEW i \in Items
    PROVE  max_check_attempts[i] \in Nat /\ 1 <= max_check_attempts[i]
  BY ItemAssumption

LEMMA OkAfterOkLeads ==
    ASSUME NEW w, Sound(w), NEW i \in Items, NEW last, NEW r, r = OkAfterOk(w, i, last)
    PROVE  /\ Led(w, r.w, i) /\ SameRest(w[i], r.w[i]) /\ r.w[i].ack = None
           /\ r.w[i].is_problem = w[i].is_problem /\ r.calls = <<>>
<1> DEFINE type == IF is_max_attempts(w, i) THEN "HARD" ELSE "SOFT"
           soft == w[i].state_type = "SOFT" /\ last # "PENDING"
           a == w[i]
           s1 == [a EXCEPT !.ack = None, !.state_type = type]
           s2 == [a EXCEPT !.ack = None, !.attempt = 1, !.state_type = "HARD"]
           s == IF soft THEN s1 ELSE s2
<1>1. w \in World /\ a \in Attributes /\ a.attempt \in Nat
      /\ a.attempt <= max_check_attempts[i]
  BY SoundIs
<1>2. r.calls = <<>> /\ r.w = [w EXCEPT ![i] = s]
  <2>1. CASE soft
    <3>1. r.w = [unacknowledge_problem(w, i) EXCEPT ![i].state_type = type]
          /\ r.calls = <<>>
      BY <2>1 DEF OkAfterOk, Result
    <3>2. r.w = [w EXCEPT ![i] = s1]
      BY <1>1, <3>1 DEF unacknowledge_problem, World
    <3> QED
      BY <2>1, <3>1, <3>2
  <2>2. CASE ~soft
    <3>1. r.w = [unacknowledge_problem(w, i) EXCEPT ![i].attempt = 1,
                                                    ![i].state_type = "HARD"]
          /\ r.calls = <<>>
      BY <2>2 DEF OkAfterOk, Result
    <3>2. r.w = [w EXCEPT ![i] = s2]
      BY <1>1, <3>1 DEF unacknowledge_problem, World
    <3> QED
      BY <2>2, <3>1, <3>2
  <2> QED
    BY <2>1, <2>2
<1>3. /\ s \in Attributes /\ SameLinks(a, s) /\ SameRest(a, s) /\ s.ack = None
      /\ s.state = a.state /\ s.state_before_impact = a.state_before_impact
      /\ s.attempt <= max_check_attempts[i] /\ s.is_problem = a.is_problem
  <2> HIDE DEF a
  <2>1. type \in {"SOFT", "HARD"}
    OBVIOUS
  <2> HIDE DEF type
  <2>2. /\ s1 \in Attributes /\ SameLinks(a, s1) /\ SameRest(a, s1) /\ s1.ack = None
        /\ s1.state = a.state /\ s1.state_before_impact = a.state_before_impact
        /\ s1.attempt <= max_check_attempts[i] /\ s1.is_problem = a.is_problem
    BY <1>1, <2>1 DEF Attributes, SameLinks, SameRest
  <2>3. /\ s2 \in Attributes /\ SameLinks(a, s2) /\ SameRest(a, s2) /\ s2.ack = None
        /\ s2.state = a.state /\ s2.state_before_impact = a.state_before_impact
        /\ s2.attempt <= max_check_attempts[i] /\ s2.is_problem = a.is_problem
    BY <1>1, OneAttempt DEF Attributes, SameLinks, SameRest
  <2> QED
    BY <2>2, <2>3
<1> HIDE DEF s, soft, type
<1>4. Led(w, [w EXCEPT ![i] = s], i) /\ [w EXCEPT ![i] = s][i] = s
  BY <1>3, CountsLead
<1> QED
  BY <1>2, <1>3, <1>4

\* The calls of a recovery, or of an item that did not get to a HARD NON-OK state,
\* ask for no PROBLEM.
LEMMA NoProblemAsked ==
    ASSUME NEW no_action
    PROVE  /\ "PROBLEM" \notin ToSet(<<>>) /\ "PROBLEM" \notin ToSet(<<"handler">>)
           /\ "PROBLEM" \notin
                ToSet(<<"remove">> \o Tell(no_action, "RECOVERY") \o <<"handler">>)
<1>1. "PROBLEM" \notin ToSet(<<>>) /\ "PROBLEM" \notin ToSet(<<"handler">>)
  BY DEF ToSet
<1> DEFINE asks == <<"remove">> \o Tell(no_action, "RECOVERY") \o <<"handler">>
           Other == {"remove", "RECOVERY", "handler"}
<1>2. asks \in Seq(Other)
  <2>1. Tell(no_action, "RECOVERY") \in Seq(Other)
    <3>1. <<>> \in Seq(Other) /\ <<"RECOVERY">> \in Seq(Other)
      OBVIOUS
    <3> QED
      BY <3>1 DEF Tell
  <2>2. <<"remove">> \in Seq(Other) /\ <<"handler">> \in Seq(Other)
    OBVIOUS
  <2> HIDE DEF Other
  <2> QED
    BY <2>1, <2>2
<1> HIDE DEF asks
<1>3. "PROBLEM" \notin ToSet(asks)
  <2>1. \A k \in DOMAIN asks : asks[k] \in Other
    <3> HIDE DEF Other
    <3> QED
      BY <1>2
  <2> QED
    BY <2>1 DEF ToSet
<1> QED
  BY <1>1, <1>3 DEF asks

\* What a call may ask for: nothing of contacts, the end of the notifications of an
\* item that recovers, and those of an item that is HARD.
Quiet == {<<>>, <<"handler">>}
Recovered == {<<"remove", "handler">>, <<"remove", "RECOVERY", "handler">>}
Hardened ==
    {<<"remove">>, <<"remove", "PROBLEM">>, <<"flexible", "remove", "handler">>,
     <<"flexible", "remove", "PROBLEM", "handler">>}

LEMMA RequestsAre ==
    ASSUME NEW no_action
    PROVE  /\ <<"remove">> \o Tell(no_action, "RECOVERY") \o <<"handler">> \in Recovered
           /\ <<"flexible", "remove">> \o Tell(no_action, "PROBLEM") \o <<"handler">>
                \in Hardened
           /\ <<"remove">> \o Tell(no_action, "PROBLEM") \in Hardened
<1>1. CASE no_action
  <2>1. Tell(no_action, "RECOVERY") = <<>> /\ Tell(no_action, "PROBLEM") = <<>>
    BY <1>1 DEF Tell
  <2>2. <<"remove">> \o <<>> \o <<"handler">> = <<"remove", "handler">>
    BY ShortLists
  <2>3. <<"flexible", "remove">> \o <<>> \o <<"handler">>
          = <<"flexible", "remove", "handler">>
    BY ShortLists
  <2>4. <<"remove">> \o <<>> = <<"remove">>
    BY ShortLists
  <2> QED
    BY <2>1, <2>2, <2>3, <2>4 DEF Recovered, Hardened
<1>2. CASE ~no_action
  <2>1. /\ Tell(no_action, "RECOVERY") = <<"RECOVERY">>
        /\ Tell(no_action, "PROBLEM") = <<"PROBLEM">>
    BY <1>2 DEF Tell
  <2>2. <<"remove">> \o <<"RECOVERY">> \o <<"handler">>
          = <<"remove", "RECOVERY", "handler">>
    BY ShortLists
  <2>3. <<"flexible", "remove">> \o <<"PROBLEM">> \o <<"handler">>
          = <<"flexible", "remove", "PROBLEM", "handler">>
    BY ShortLists
  <2>4. <<"remove">> \o <<"PROBLEM">> = <<"remove", "PROBLEM">>
    BY ShortLists
  <2> QED
    BY <2>1, <2>2, <2>3, <2>4 DEF Recovered, Hardened
<1> QED
  BY <1>1, <1>2

LEMMA OkAfterNonOkLeads ==
    ASSUME NEW w, Sound(w), NEW i \in Items, NEW no_action, NEW r,
           r = OkAfterNonOk(w, i, no_action)
    PROVE  /\ Led(w, r.w, i) /\ SameRest(w[i], r.w[i]) /\ r.w[i].ack = None
           /\ r.w[i].is_problem => w[i].is_problem /\ w[i].state_type = "SOFT"
           /\ "PROBLEM" \notin ToSet(r.calls)
           /\ r.calls \in IF w[i].state_type = "SOFT" THEN Quiet ELSE Recovered
<1> DEFINE a == w[i]
           s == [a EXCEPT !.ack = None, !.attempt = 1, !.state_type = "HARD"]
           w1 == [w EXCEPT ![i] = s]
<1>1. w \in World /\ a \in Attributes
  BY SoundIs
<1>2. [unacknowledge_problem(w, i) EXCEPT ![i].attempt = 1, ![i].state_type = "HARD"] = w1
  BY <1>1 DEF unacknowledge_problem, World
<1>3. IF a.state_type = "SOFT" THEN r.w = w1 /\ r.calls = <<"handler">>
      ELSE /\ r.w = no_more_a_problem(w1, i)
           /\ r.calls = <<"remove">> \o Tell(no_action, "RECOVERY") \o <<"handler">>
  BY <1>2 DEF OkAfterNonOk, Result
<1>4. /\ "PROBLEM" \notin ToSet(r.calls)
      /\ r.calls \in IF a.state_type = "SOFT" THEN Quiet ELSE Recovered
  BY <1>3, NoProblemAsked, RequestsAre DEF Quiet
<1>5. /\ s \in Attributes /\ SameLinks(a, s) /\ SameRest(a, s) /\ s.ack = None
      /\ s.state = a.state /\ s.state_before_impact = a.state_before_impact
      /\ s.attempt <= max_check_attempts[i] /\ s.is_problem = a.is_problem
  <2> HIDE DEF a
  <2> QED
    BY <1>1, OneAttempt DEF Attributes, SameLinks, SameRest
<1> HIDE DEF s
<1>6. Led(w, w1, i) /\ w1[i] = s
  BY <1>5, CountsLead
<1> HIDE DEF w1
<1>7. CASE a.state_type = "SOFT"
  BY <1>3, <1>4, <1>5, <1>6, <1>7
<1>8. CASE a.state_type # "SOFT"
  <2>1. r.w = no_more_a_problem(w1, i)
    BY <1>3, <1>8
  <2>2. Sound(w1)
    BY <1>6 DEF Led
  <2>3. Led(w1, r.w, i) /\ SameOwn(w1[i], r.w[i]) /\ ~r.w[i].is_problem
    BY <2>1, <2>2, NoMoreLeads
  <2>4. Led(w, r.w, i)
    BY <1>6, <2>3, LedIsTransitive
  <2>5. SameRest(a, r.w[i]) /\ r.w[i].ack = None
    BY <1>5, <1>6, <2>3 DEF SameRest, SameOwn
  <2> QED
    BY <1>4, <2>3, <2>4, <2>5
<1> QED
  BY <1>7, <1>8

LEMMA GoesHardLeads ==
    ASSUME NEW w, Sound(w), NEW i \in Items, NEW no_action, NEW r,
           r = GoesHard(w, i, no_action)
    PROVE  /\ Led(w, r.w, i) /\ SameRest(w[i], r.w[i]) /\ r.w[i].ack = w[i].ack
           /\ r.w[i].state_type = "HARD" /\ r.w[i].attempt = w[i].attempt
           /\ r.calls \in Hardened
<1> DEFINE a == w[i]
           s == [a EXCEPT !.state_type = "HARD"]
           w1 == [w EXCEPT ![i] = s]
<1>1. w \in World /\ a \in Attributes /\ a.attempt <= max_check_attempts[i]
  BY SoundIs
<1>2. [w EXCEPT ![i].state_type = "HARD"] = w1
  OBVIOUS
<1>3. r.w = Blame(w1, i, no_action) /\ r.calls \in Hardened
  BY <1>2, RequestsAre DEF GoesHard, Result
<1>4. /\ s \in Attributes /\ SameLinks(a, s) /\ SameRest(a, s) /\ s.ack = a.ack
      /\ s.state = a.state /\ s.state_before_impact = a.state_before_impact
      /\ s.attempt = a.attempt /\ s.state_type = "HARD"
  <2> HIDE DEF a
  <2> QED
    BY <1>1 DEF Attributes, SameLinks, SameRest
<1>5. s.attempt <= max_check_attempts[i]
  BY <1>1, <1>4
<1> HIDE DEF s
<1>6. Led(w, w1, i) /\ w1[i] = s
  BY <1>4, <1>5, CountsLead
<1> HIDE DEF w1
<1>7. Sound(w1)
  BY <1>6 DEF Led
<1>8. Led(w1, r.w, i) /\ SameOwn(w1[i], r.w[i])
  BY <1>3, <1>7, BlameLeads
<1>9. Led(w, r.w, i)
  BY <1>6, <1>8, LedIsTransitive
<1> QED
  BY <1>3, <1>4, <1>6, <1>8, <1>9 DEF SameRest, SameOwn

\* An item that failed is SOFT and no problem, or its attempts are exhausted.
Fallen(w, r, i) ==
    /\ Led(w, r.w, i) /\ SameRest(w[i], r.w[i]) /\ r.w[i].ack = w[i].ack
    /\ \/ /\ r.w[i].state_type = "HARD" /\ r.w[i].attempt >= max_check_attempts[i]
          /\ r.calls \in Hardened
       \/ /\ r.w[i].state_type = "SOFT" /\ r.w[i].is_problem = w[i].is_problem
          /\ "PROBLEM" \notin ToSet(r.calls) /\ r.calls \in Quiet

LEMMA NonOkAfterOkLeads ==
    ASSUME NEW w, Sound(w), NEW i \in Items, NEW no_action, NEW r,
           r = NonOkAfterOk(w, i, no_action)
    PROVE  Fallen(w, r, i)
<1>1. CASE is_max_attempts(w, i)
  <2>1. r = GoesHard(w, i, no_action)
    BY <1>1 DEF NonOkAfterOk
  <2>2. /\ Led(w, r.w, i) /\ SameRest(w[i], r.w[i]) /\ r.w[i].ack = w[i].ack
        /\ r.w[i].state_type = "HARD" /\ r.w[i].attempt = w[i].attempt
        /\ r.calls \in Hardened
    BY <2>1, GoesHardLeads
  <2> QED
    BY <1>1, <2>2 DEF is_max_attempts, Fallen
<1>2. CASE ~is_max_attempts(w, i)
  <2> DEFINE a == w[i]
             s == [a EXCEPT !.attempt = 1, !.state_type = "SOFT"]
  <2>1. w \in World /\ a \in Attributes
    BY SoundIs
  <2>2. r.w = [w EXCEPT ![i].attempt = 1, ![i].state_type = "SOFT"] /\ r.calls = <<"handler">>
    BY <1>2 DEF NonOkAfterOk, Result
  <2>3. r.w = [w EXCEPT ![i] = s]
    BY <2>1, <2>2 DEF World
  <2>4. /\ s \in Attributes /\ SameLinks(a, s) /\ SameRest(a, s) /\ s.ack = a.ack
        /\ s.state = a.state /\ s.state_before_impact = a.state_before_impact
        /\ s.attempt <= max_check_attempts[i] /\ s.is_problem = a.is_problem
        /\ s.state_type = "SOFT"
    <3> HIDE DEF a
    <3> QED
      BY <2>1, OneAttempt DEF Attributes, SameLinks, SameRest
  <2> HIDE DEF s
  <2>5. Led(w, [w EXCEPT ![i] = s], i) /\ [w EXCEPT ![i] = s][i] = s
    BY <2>4, CountsLead
  <2> QED
    BY <2>2, <2>3, <2>4, <2>5, NoProblemAsked DEF Fallen, Quiet
<1> QED
  BY <1>1, <1>2

\* One attempt more, but never more than there are.
LEMMA AttemptAdded ==
    ASSUME NEW w, Sound(w), NEW i \in Items, NEW v, v = add_attempt(w, i)
    PROVE  /\ Led(w, v, i) /\ SameRest(w[i], v[i]) /\ v[i].ack = w[i].ack
           /\ v[i].state_type = w[i].state_type /\ v[i].is_problem = w[i].is_problem
<1> DEFINE a == w[i]
           n == Min({a.attempt + 1, max_check_attempts[i]})
           s == [a EXCEPT !.attempt = n]
<1>1. w \in World /\ a \in Attributes /\ a.attempt \in Nat
  BY SoundIs
<1>2. n \in Nat /\ n <= max_check_attempts[i]
  <2> DEFINE m == max_check_attempts[i]
             k == a.attempt + 1
  <2>1. m \in Nat /\ k \in Nat
    BY <1>1, OneAttempt
  <2> HIDE DEF m, k
  <2>2. \E x \in {k, m} : \A y \in {k, m} : x <= y
    <3>1. k <= m \/ m <= k
      BY <2>1
    <3>2. k <= k /\ m <= m
      BY <2>1
    <3> QED
      BY <3>1, <3>2
  <2>3. Min({k, m}) \in {k, m} /\ \A y \in {k, m} : Min({k, m}) <= y
    BY <2>2 DEF Min
  <2> QED
    BY <2>1, <2>3 DEF m, k
<1>3. v = [w EXCEPT ![i] = s]
  BY DEF add_attempt
<1> HIDE DEF n
<1>4. /\ s \in Attributes /\ SameLinks(a, s) /\ SameRest(a, s) /\ s.ack = a.ack
      /\ s.state = a.state /\ s.state_before_impact = a.state_before_impact
      /\ s.attempt = n /\ s.is_problem = a.is_problem
      /\ s.state_type = a.state_type
  <2> HIDE DEF a
  <2> QED
    BY <1>1, <1>2 DEF Attributes, SameLinks, SameRest
<1>5. s.attempt <= max_check_attempts[i]
  BY <1>2, <1>4
<1> HIDE DEF s
<1>6. Led(w, [w EXCEPT ![i] = s], i) /\ [w EXCEPT ![i] = s][i] = s
  BY <1>4, <1>5, CountsLead
<1> QED
  BY <1>3, <1>4, <1>6

LEMMA SoftAgainLeads ==
    ASSUME NEW w, Sound(w), NEW i \in Items, w[i].state_type = "SOFT",
           NEW dependent, NEW no_action, NEW r, r = SoftAgain(w, i, dependent, no_action)
    PROVE  Fallen(w, r, i)
<1> DEFINE w1 == IF dependent THEN w ELSE add_attempt(w, i)
<1>1. /\ Led(w, w1, i) /\ SameRest(w[i], w1[i]) /\ w1[i].ack = w[i].ack
      /\ w1[i].state_type = "SOFT" /\ w1[i].is_problem = w[i].is_problem
  <2>1. CASE w1 = w
    BY <2>1 DEF Led, SameOwn, SameRest
  <2>2. CASE w1 = add_attempt(w, i)
    <3> HIDE DEF w1
    <3> QED
      BY <2>2, AttemptAdded
  <2> QED
    BY <2>1, <2>2
<1>2. r = IF is_max_attempts(w1, i) THEN GoesHard(w1, i, no_action)
          ELSE Result(w1, <<"handler">>)
  BY DEF SoftAgain
<1> HIDE DEF w1
<1>3. Sound(w1)
  BY <1>1 DEF Led
<1>4. CASE is_max_attempts(w1, i)
  <2>1. r = GoesHard(w1, i, no_action)
    BY <1>2, <1>4
  <2>2. /\ Led(w1, r.w, i) /\ SameRest(w1[i], r.w[i]) /\ r.w[i].ack = w1[i].ack
        /\ r.w[i].state_type = "HARD" /\ r.w[i].attempt = w1[i].attempt
        /\ r.calls \in Hardened
    BY <1>3, <2>1, GoesHardLeads
  <2>3. Led(w, r.w, i)
    BY <1>1, <2>2, LedIsTransitive
  <2> QED
    BY <1>1, <1>4, <2>2, <2>3 DEF is_max_attempts, Fallen, SameRest
<1>5. CASE ~is_max_attempts(w1, i)
  BY <1>1, <1>2, <1>5, NoProblemAsked DEF Fallen, Quiet, Result
<1> QED
  BY <1>4, <1>5

\* The phase of an item o that is n after update_hard_unknown_phase_state.
Phased(o, n, last, last_type) ==
    LET still == o.in_phase /\ o.state_type = "HARD" /\ last_type = "HARD"
        enters == ~still /\ o.state \in Undetermined /\ last # o.state
        in == enters \/ (still /\ o.state \in Undetermined)
    IN /\ n.in_phase = in
       /\ n.state_before_phase =
            IF enters THEN last ELSE IF in THEN o.state_before_phase ELSE "PENDING"
       /\ n.state = o.state /\ n.state_type = o.state_type /\ n.attempt = o.attempt
       /\ n.ack = o.ack /\ n.problem_id = o.problem_id /\ n.is_problem = o.is_problem

LEMMA PhaseLeads ==
    ASSUME NEW w, Sound(w), NEW i \in Items, NEW last \in HostState \cup ServiceState,
           NEW last_type, NEW r, r = update_hard_unknown_phase_state(w, i, last, last_type)
    PROVE  /\ Led(w, r.w, i) /\ Phased(w[i], r.w[i], last, last_type)
           /\ r.was <=> /\ w[i].in_phase
                        /\ r.w[i].in_phase \/ w[i].state = w[i].state_before_phase
<1> DEFINE a == w[i]
           still == a.in_phase /\ a.state_type = "HARD" /\ last_type = "HARD"
           enters == ~still /\ a.state \in Undetermined /\ last # a.state
           in == enters \/ (still /\ a.state \in Undetermined)
           before == IF enters THEN last ELSE IF in THEN a.state_before_phase ELSE "PENDING"
           s == [a EXCEPT !.in_phase = in, !.state_before_phase = before]
<1>1. w \in World /\ a \in Attributes /\ a.attempt <= max_check_attempts[i]
  BY SoundIs
<1>2. r.w = [w EXCEPT ![i] = s]
  <2>1. r.w = [w EXCEPT ![i].in_phase = in, ![i].state_before_phase = before]
    BY DEF update_hard_unknown_phase_state
  <2> HIDE DEF in, before
  <2> QED
    BY <1>1, <2>1 DEF World
<1>3. r.was <=> a.in_phase /\ (in \/ a.state = a.state_before_phase)
  BY DEF update_hard_unknown_phase_state
<1>4. in \in BOOLEAN /\ before \in HostState \cup ServiceState
  <2> HIDE DEF a
  <2> QED
    BY <1>1 DEF Attributes, HostState
<1>5. /\ s \in Attributes /\ SameLinks(a, s) /\ s.ack = a.ack
      /\ s.state = a.state /\ s.state_before_impact = a.state_before_impact
      /\ s.attempt = a.attempt /\ s.is_problem = a.is_problem
      /\ s.state_type = a.state_type /\ s.problem_id = a.problem_id
      /\ s.in_phase = in /\ s.state_before_phase = before
  <2> HIDE DEF a, in, before
  <2> QED
    BY <1>1, <1>4 DEF Attributes, SameLinks
<1>6. Phased(a, s, last, last_type)
  BY <1>5 DEF Phased
<1> HIDE DEF s, in
<1>7. Led(w, [w EXCEPT ![i] = s], i) /\ [w EXCEPT ![i] = s][i] = s
  BY <1>1, <1>5, CountsLead
<1> QED
  BY <1>2, <1>3, <1>5, <1>6, <1>7

LEMMA UnacknowledgedLeads ==
    ASSUME NEW w, Sound(w), NEW i \in Items, NEW v,
           v = unacknowledge_problem_if_not_sticky(w, i)
    PROVE  /\ Led(w, v, i) /\ SameRest(w[i], v[i]) /\ v[i].state = w[i].state
           /\ v[i].state_type = w[i].state_type /\ v[i].attempt = w[i].attempt
<1> DEFINE a == w[i]
           s == [a EXCEPT !.ack = None]
<1>1. w \in World /\ a \in Attributes /\ a.attempt <= max_check_attempts[i]
  BY SoundIs
<1>2. CASE v = w
  BY <1>2 DEF Led, SameOwn, SameRest
<1>3. CASE v = unacknowledge_problem(w, i)
  <2>1. v = [w EXCEPT ![i] = s]
    BY <1>3 DEF unacknowledge_problem
  <2>2. /\ s \in Attributes /\ SameLinks(a, s) /\ SameRest(a, s)
        /\ s.state = a.state /\ s.state_before_impact = a.state_before_impact
        /\ s.attempt = a.attempt /\ s.state_type = a.state_type
    <3> HIDE DEF a
    <3> QED
      BY <1>1 DEF Attributes, SameLinks, SameRest
  <2> HIDE DEF s
  <2>3. Led(w, [w EXCEPT ![i] = s], i) /\ [w EXCEPT ![i] = s][i] = s
    BY <1>1, <2>2, CountsLead
  <2> QED
    BY <2>1, <2>2, <2>3
<1> QED
  BY <1>2, <1>3 DEF unacknowledge_problem_if_not_sticky

LEMMA HardAgainLeads ==
    ASSUME NEW w, Sound(w), NEW i \in Items, w[i].state_type = "HARD",
           NEW last \in HostState \cup ServiceState, NEW last_type,
           NEW after, NEW no_action, NEW r,
           r = HardAgain(w, i, last, last_type, after, no_action)
    PROVE  /\ Led(w, r.w, i)
           /\ r.w[i].state_type = "HARD" /\ r.w[i].attempt = w[i].attempt
           /\ r.calls \in Quiet \cup Hardened
           /\ w[i].state = last =>
                /\ SameRest(w[i], r.w[i])
                /\ after \/ "PROBLEM" \notin ToSet(r.calls)
           /\ w[i].state # last =>
                \E n : /\ Phased(w[i], n, last, last_type) /\ SameRest(n, r.w[i])
                       /\ \/ "PROBLEM" \notin ToSet(r.calls)
                          \/ /\ ~n.in_phase
                             /\ ~(w[i].in_phase /\ w[i].state = w[i].state_before_phase)
<1> DEFINE asks == <<"remove">> \o Tell(no_action, "PROBLEM")
           phase == update_hard_unknown_phase_state(w, i, last, last_type)
           new == ~phase.w[i].in_phase /\ ~phase.was
           w1 == IF new THEN unacknowledge_problem_if_not_sticky(phase.w, i) ELSE phase.w
<1>1. r = IF w[i].state # last
          THEN Result(Blame(w1, i, no_action), IF new THEN asks ELSE <<>>)
          ELSE Result(Blame(w, i, no_action), IF after THEN asks ELSE <<>>)
  BY DEF HardAgain
<1>2. /\ Led(w, phase.w, i) /\ Phased(w[i], phase.w[i], last, last_type)
      /\ phase.was <=> /\ w[i].in_phase
                       /\ phase.w[i].in_phase \/ w[i].state = w[i].state_before_phase
  BY PhaseLeads
<1>5. asks \in Hardened /\ <<>> \in Quiet
  BY RequestsAre DEF Quiet
<1> HIDE DEF phase, asks
<1>3. CASE w[i].state = last
  <2>1. r.w = Blame(w, i, no_action) /\ r.calls = IF after THEN asks ELSE <<>>
    BY <1>1, <1>3 DEF Result
  <2>2. Led(w, r.w, i) /\ SameOwn(w[i], r.w[i])
    BY <2>1, BlameLeads
  <2> QED
    BY <1>3, <1>5, <2>1, <2>2, NoProblemAsked DEF SameRest, SameOwn
<1>4. CASE w[i].state # last
  <2>1. r.w = Blame(w1, i, no_action) /\ r.calls = IF new THEN asks ELSE <<>>
    BY <1>1, <1>4 DEF Result
  <2>2. /\ Led(phase.w, w1, i) /\ SameRest(phase.w[i], w1[i])
        /\ w1[i].state_type = phase.w[i].state_type /\ w1[i].attempt = phase.w[i].attempt
    <3>1. Sound(phase.w)
      BY <1>2 DEF Led
    <3>2. CASE w1 = phase.w
      BY <3>1, <3>2 DEF Led, SameOwn, SameRest
    <3>3. CASE w1 = unacknowledge_problem_if_not_sticky(phase.w, i)
      <4> HIDE DEF w1
      <4> QED
        BY <3>1, <3>3, UnacknowledgedLeads
    <3> QED
      BY <3>2, <3>3
  <2> HIDE DEF w1
  <2>3. Sound(w1)
    BY <2>2 DEF Led
  <2>4. Led(w1, r.w, i) /\ SameOwn(w1[i], r.w[i])
    BY <2>1, <2>3, BlameLeads
  <2>5. Led(w, r.w, i)
    BY <1>2, <2>2, <2>4, LedIsTransitive
  <2>6. SameRest(phase.w[i], r.w[i])
    BY <2>2, <2>4 DEF SameRest, SameOwn
  <2>7. r.w[i].state_type = "HARD" /\ r.w[i].attempt = w[i].attempt
    BY <1>2, <2>2, <2>4 DEF SameOwn, Phased
  <2>8. \/ "PROBLEM" \notin ToSet(r.calls)
        \/ /\ ~phase.w[i].in_phase
           /\ ~(w[i].in_phase /\ w[i].state = w[i].state_before_phase)
    BY <1>2, <2>1, NoProblemAsked
  <2> QED
    BY <1>2, <1>4, <1>5, <2>1, <2>5, <2>6, <2>7, <2>8
<1> QED
  BY <1>3, <1>4

\* The problem id of an item o that is n after update_event_and_problem_id.
Identified(o, n, last) ==
    /\ n.problem_id =
         IF \/ o.state # last /\ last # "PENDING"
            \/ o.state \notin Fine /\ last = "PENDING"
         THEN o.state \notin Fine /\ (o.problem_id \/ last = "PENDING" \/ last \in Fine)
         ELSE o.problem_id
    /\ n.state = o.state /\ n.state_type = o.state_type /\ n.attempt = o.attempt
    /\ n.ack = o.ack /\ n.is_problem = o.is_problem
    /\ n.in_phase = o.in_phase /\ n.state_before_phase = o.state_before_phase

LEMMA IdentityLeads ==
    ASSUME NEW w, Sound(w), NEW i \in Items, NEW last, NEW v,
           v = update_event_and_problem_id(w, i, last)
    PROVE  Led(w, v, i) /\ Identified(w[i], v[i], last)
<1> DEFINE a == w[i]
           moves == \/ a.state # last /\ last # "PENDING"
                    \/ a.state \notin Fine /\ last = "PENDING"
           id == IF a.state \in Fine THEN FALSE
                 ELSE a.problem_id \/ last = "PENDING" \/ last \in Fine
           s == [a EXCEPT !.problem_id = id]
<1>1. w \in World /\ a \in Attributes /\ a.attempt <= max_check_attempts[i]
  BY SoundIs
<1>2. CASE moves
  <2>1. v = [w EXCEPT ![i] = s]
    BY <1>2 DEF update_event_and_problem_id
  <2>2. id \in BOOLEAN
    OBVIOUS
  <2>3. /\ s \in Attributes /\ SameLinks(a, s) /\ s.ack = a.ack
        /\ s.state = a.state /\ s.state_before_impact = a.state_before_impact
        /\ s.attempt = a.attempt /\ s.is_problem = a.is_problem
        /\ s.state_type = a.state_type /\ s.problem_id = id
        /\ s.in_phase = a.in_phase /\ s.state_before_phase = a.state_before_phase
    <3> HIDE DEF a, id
    <3> QED
      BY <1>1, <2>2 DEF Attributes, SameLinks
  <2>4. id = (a.state \notin Fine /\ (a.problem_id \/ last = "PENDING" \/ last \in Fine))
    OBVIOUS
  <2>5. Identified(a, s, last)
    <3> HIDE DEF s, id
    <3> QED
      BY <1>2, <2>3, <2>4 DEF Identified
  <2> HIDE DEF s
  <2>6. Led(w, [w EXCEPT ![i] = s], i) /\ [w EXCEPT ![i] = s][i] = s
    BY <1>1, <2>3, CountsLead
  <2> QED
    BY <2>1, <2>5, <2>6
<1>3. CASE ~moves
  <2>1. v = w
    BY <1>3 DEF update_event_and_problem_id
  <2> QED
    BY <1>3, <2>1 DEF Led, SameOwn, Identified
<1> QED
  BY <1>2, <1>3

\* What the cases make of an item o that was just found to be in a state: e.
Decided(o, e, calls, i, last, last_type, after) ==
    LET wasFine == last \in Fine \cup {"PENDING"}
        silent == "PROBLEM" \notin ToSet(calls)
    IN \/ /\ o.state \in Fine /\ wasFine
          /\ SameRest(o, e) /\ e.ack = None /\ e.is_problem = o.is_problem /\ silent
       \/ /\ o.state \in Fine /\ ~wasFine
          /\ SameRest(o, e) /\ e.ack = None /\ silent
          /\ e.is_problem => o.is_problem /\ o.state_type = "SOFT"
       \/ /\ o.state \in Bad(i) /\ i \in is_volatile
          /\ SameRest(o, e) /\ e.ack = o.ack /\ e.state_type = "HARD"
       \/ /\ o.state \in Bad(i) /\ i \notin is_volatile
          /\ wasFine \/ o.state_type = "SOFT"
          /\ SameRest(o, e) /\ e.ack = o.ack
          /\ \/ e.state_type = "HARD" /\ e.attempt >= max_check_attempts[i]
             \/ e.state_type = "SOFT" /\ e.is_problem = o.is_problem /\ silent
       \/ /\ o.state \in Bad(i) /\ i \notin is_volatile /\ ~wasFine
          /\ o.state_type = "HARD" /\ e.state_type = "HARD" /\ e.attempt = o.attempt
          /\ o.state = last => SameRest(o, e) /\ (after \/ silent)
          /\ o.state # last =>
                \E n : /\ Phased(o, n, last, last_type) /\ SameRest(n, e)
                       /\ \/ silent
                          \/ /\ ~n.in_phase
                             /\ ~(o.in_phase /\ o.state = o.state_before_phase)

\* What is asked for when the item o, whose state was last, is decided to be e.
Requested(o, e, calls, last) ==
    \/ /\ calls \in Quiet
       /\ o.state \in Fine => last \in Fine \cup {"PENDING"} \/ o.state_type = "SOFT"
    \/ calls \in Recovered /\ o.state \in Fine
    \/ calls \in Hardened /\ o.state \notin Fine /\ e.state_type = "HARD"

\* From the state that an item is found in to the attributes it has in the end.
Judged(r, v, calls, i, last, after) ==
    \E o, e, n :
        /\ SameCounts(r, o) /\ o.state \in (Kind(i) \cap Fine) \cup Bad(i)
        /\ Decided(o, e, calls, i, last, r.state_type, after)
        /\ Requested(o, e, calls, last)
        /\ Phased(e, n, last, r.state_type) /\ Identified(n, v, last)

LEMMA ConsumeLeads ==
    ASSUME NEW w, Sound(w), NEW i \in Items, NEW status, NEW dependent, NEW after,
           NEW r, r = consume_state_result(w, i, status, dependent, after)
    PROVE  /\ Led(w, r.w, i)
           /\ Judged(w[i], r.w[i], r.calls, i, LastState(w, i), after)
<1> DEFINE exit == Modulated(i, status)
           last == LastState(w, i)
           last_type == w[i].state_type
           judged == exit # 0 /\ act_depend_of(i) # {}
           no_action == judged /\ is_no_action_dependent(w, i)
           w1 == set_state_from_exit_status(w, i, exit)
           wasFine == last \in Fine \cup {"PENDING"}
           w2 == IF judged THEN check_and_set_unreachability(w1, i) ELSE w1
           c == CASE exit = 0 /\ wasFine -> OkAfterOk(w2, i, last)
                  [] exit = 0 /\ ~wasFine -> OkAfterNonOk(w2, i, no_action)
                  [] exit # 0 /\ i \in is_volatile ->
                       GoesHard([w2 EXCEPT ![i].attempt = 1], i, no_action)
                  [] exit # 0 /\ i \notin is_volatile /\ wasFine ->
                       NonOkAfterOk(w2, i, no_action)
                  [] exit # 0 /\ i \notin is_volatile /\ ~wasFine ->
                       IF w2[i].state_type = "SOFT"
                       THEN SoftAgain(w2, i, dependent, no_action)
                       ELSE HardAgain(w2, i, last, last_type, after, no_action)
           w3 == update_hard_unknown_phase_state(c.w, i, last, last_type).w
<1>1. r = Result(update_event_and_problem_id(w3, i, last), c.calls)
  BY DEF consume_state_result
<1>2. last \in Kind(i) /\ last \in HostState \cup ServiceState
      /\ w[i].state_type \in {"SOFT", "HARD"}
  <2>1. last \in Kind(i)
    BY SoundIs DEF LastState
  <2>2. w[i].state_type \in {"SOFT", "HARD"}
    BY SoundIs DEF Attributes
  <2> HIDE DEF last
  <2> QED
    BY <2>1, <2>2, StatesOfKind
<1>3. /\ Led(w, w1, i) /\ SameCounts(w[i], w1[i])
      /\ w1[i].state \in IF exit = 0 THEN Kind(i) \cap Fine ELSE Bad(i)
  BY StateIsSet
<1>4. /\ Led(w, w2, i) /\ SameCounts(w[i], w2[i])
      /\ w2[i].state \in IF exit = 0 THEN Kind(i) \cap Fine ELSE Bad(i)
  <2> HIDE DEF exit, w1
  <2>1. CASE w2 = w1
    BY <1>3, <2>1
  <2>2. CASE exit # 0 /\ w2 = check_and_set_unreachability(w1, i)
    <3>1. Sound(w1)
      BY <1>3 DEF Led
    <3> HIDE DEF w2
    <3>2. /\ Led(w1, w2, i) /\ SameCounts(w1[i], w2[i])
          /\ w2[i].state \in {w1[i].state} \cup (Bad(i) \cap Undetermined)
      BY <2>2, <3>1, Unreachability
    <3>3. Led(w, w2, i)
      BY <1>3, <3>2, LedIsTransitive
    <3> QED
      BY <1>3, <2>2, <3>2, <3>3 DEF SameCounts
  <2> QED
    BY <2>1, <2>2
<1> HIDE DEF exit, last, no_action, w1, w2
<1>5. Sound(w2) /\ w2[i].state_type \in {"SOFT", "HARD"} /\ w2[i].state_type = last_type
  BY <1>2, <1>4 DEF Led, SameCounts
<1>6. /\ Led(w2, c.w, i)
      /\ Decided(w2[i], c.w[i], c.calls, i, last, last_type, after)
      /\ Requested(w2[i], c.w[i], c.calls, last)
  <2>0. Bad(i) \cap Fine = {}
    BY StatesOfKind
  <2>1. CASE exit = 0 /\ wasFine
    <3>1. c = OkAfterOk(w2, i, last)
      BY <2>1
    <3> HIDE DEF c
    <3>2. /\ Led(w2, c.w, i) /\ SameRest(w2[i], c.w[i]) /\ c.w[i].ack = None
          /\ c.w[i].is_problem = w2[i].is_problem /\ c.calls = <<>>
      BY <1>5, <3>1, OkAfterOkLeads
    <3>3. "PROBLEM" \notin ToSet(c.calls)
      BY <3>2, NoProblemAsked
    <3> QED
      BY <1>4, <2>1, <3>2, <3>3 DEF Decided, Requested, Quiet
  <2>2. CASE exit = 0 /\ ~wasFine
    <3>1. c = OkAfterNonOk(w2, i, no_action)
      BY <2>2
    <3> HIDE DEF c
    <3>2. /\ Led(w2, c.w, i) /\ SameRest(w2[i], c.w[i]) /\ c.w[i].ack = None
          /\ c.w[i].is_problem => w2[i].is_problem /\ w2[i].state_type = "SOFT"
          /\ "PROBLEM" \notin ToSet(c.calls)
          /\ c.calls \in IF w2[i].state_type = "SOFT" THEN Quiet ELSE Recovered
      BY <1>5, <3>1, OkAfterNonOkLeads
    <3>3. Requested(w2[i], c.w[i], c.calls, last)
      BY <1>4, <2>2, <3>2 DEF Requested
    <3> QED
      BY <1>4, <2>2, <3>2, <3>3 DEF Decided
  <2>3. CASE exit # 0 /\ i \in is_volatile
    <3> DEFINE a == w2[i]
               s == [a EXCEPT !.attempt = 1]
               w2a == [w2 EXCEPT ![i].attempt = 1]
    <3>1. c = GoesHard(w2a, i, no_action)
      BY <2>3
    <3>2. a \in Attributes
      BY <1>5, SoundIs
    <3>3. w2a = [w2 EXCEPT ![i] = s]
      OBVIOUS
    <3>4. /\ s \in Attributes /\ SameLinks(a, s) /\ SameRest(a, s) /\ s.ack = a.ack
          /\ s.state = a.state /\ s.state_before_impact = a.state_before_impact
          /\ s.attempt <= max_check_attempts[i]
      <4> HIDE DEF a
      <4> QED
        BY <3>2, OneAttempt DEF Attributes, SameLinks, SameRest
    <3> HIDE DEF c, s, w2a
    <3>5. Led(w2, w2a, i) /\ w2a[i] = s
      BY <1>5, <3>3, <3>4, CountsLead
    <3>6. Sound(w2a)
      BY <3>5 DEF Led
    <3>7. /\ Led(w2a, c.w, i) /\ SameRest(w2a[i], c.w[i]) /\ c.w[i].ack = w2a[i].ack
          /\ c.w[i].state_type = "HARD" /\ c.calls \in Hardened
      BY <3>1, <3>6, GoesHardLeads
    <3>8. Led(w2, c.w, i)
      BY <3>5, <3>7, LedIsTransitive
    <3>9. SameRest(w2[i], c.w[i]) /\ c.w[i].ack = w2[i].ack
      BY <3>4, <3>5, <3>7 DEF SameRest
    <3> QED
      BY <1>4, <2>0, <2>3, <3>7, <3>8, <3>9 DEF Decided, Requested
  <2>4. CASE exit # 0 /\ i \notin is_volatile /\ wasFine
    <3>1. c = NonOkAfterOk(w2, i, no_action)
      BY <2>4
    <3> HIDE DEF c
    <3>2. Fallen(w2, c, i)
      BY <1>5, <3>1, NonOkAfterOkLeads
    <3> QED
      BY <1>4, <2>0, <2>4, <3>2 DEF Decided, Requested, Fallen
  <2>5. CASE exit # 0 /\ i \notin is_volatile /\ ~wasFine /\ w2[i].state_type = "SOFT"
    <3>1. c = SoftAgain(w2, i, dependent, no_action)
      BY <2>5
    <3> HIDE DEF c
    <3>2. Fallen(w2, c, i)
      BY <1>5, <2>5, <3>1, SoftAgainLeads
    <3> QED
      BY <1>4, <2>0, <2>5, <3>2 DEF Decided, Requested, Fallen
  <2>6. CASE exit # 0 /\ i \notin is_volatile /\ ~wasFine /\ w2[i].state_type = "HARD"
    <3>1. c = HardAgain(w2, i, last, last_type, after, no_action)
      BY <2>6
    <3>0. Sound(w2) /\ last \in HostState \cup ServiceState /\ w2[i].state_type = "HARD"
      BY <1>2, <1>5, <2>6
    <3> HIDE DEF c, last_type, wasFine
    <3>2. /\ Led(w2, c.w, i)
          /\ c.w[i].state_type = "HARD" /\ c.w[i].attempt = w2[i].attempt
          /\ c.calls \in Quiet \cup Hardened
          /\ w2[i].state = last =>
               /\ SameRest(w2[i], c.w[i])
               /\ after \/ "PROBLEM" \notin ToSet(c.calls)
          /\ w2[i].state # last =>
               \E n : /\ Phased(w2[i], n, last, last_type) /\ SameRest(n, c.w[i])
                      /\ \/ "PROBLEM" \notin ToSet(c.calls)
                         \/ /\ ~n.in_phase
                            /\ ~(w2[i].in_phase /\ w2[i].state = w2[i].state_before_phase)
      BY ONLY i \in Items, <3>0, <3>1, HardAgainLeads
    <3>3. Requested(w2[i], c.w[i], c.calls, last)
      BY <1>4, <2>0, <2>6, <3>2 DEF Requested
    <3> QED
      BY <1>4, <2>6, <3>2, <3>3 DEF Decided, wasFine
  <2> QED
    BY <1>5, <2>1, <2>2, <2>3, <2>4, <2>5, <2>6
<1> HIDE DEF c
<1>7. Sound(c.w)
  BY <1>6 DEF Led
<1>8. Led(c.w, w3, i) /\ Phased(c.w[i], w3[i], last, last_type)
  BY <1>2, <1>7, PhaseLeads
<1> HIDE DEF w3
<1>9. Sound(w3)
  BY <1>8 DEF Led
<1>10. r.w = update_event_and_problem_id(w3, i, last) /\ r.calls = c.calls
  BY <1>1 DEF Result
<1>11. Led(w3, r.w, i) /\ Identified(w3[i], r.w[i], last)
  BY <1>9, <1>10, IdentityLeads
<1>12. Led(w, r.w, i)
  BY <1>4, <1>6, <1>8, <1>11, LedIsTransitive
<1>13. w2[i].state \in (Kind(i) \cap Fine) \cup Bad(i)
  BY <1>4
<1>14. Judged(w[i], r.w[i], r.calls, i, last, after)
  BY <1>4, <1>6, <1>8, <1>10, <1>11, <1>13 DEF Judged
<1> QED
  BY <1>12, <1>14 DEF last

-----------------------------------------------------------------------------
(* What an item's own attributes tell, without the state change of impacts. *)

\* A problem is HARD and bad, a problem id is there while the state is bad, the
\* attempts of a HARD item are exhausted, an item that is fine is not acknowledged,
\* and only an undetermined state is a phase.
Fits(r, i) ==
    /\ r.is_problem => r.state_type = "HARD" /\ r.state \in Bad(i)
    /\ r.problem_id <=> r.state \in Bad(i)
    /\ i \notin is_volatile /\ r.state_type = "HARD" /\ r.state \in Bad(i)
           => r.attempt >= max_check_attempts[i]
    /\ r.state \in Fine => r.ack = None
    /\ r.in_phase => r.state \in Undetermined

\* What contacts were told of, t, is a bad HARD state of the item, and either the
\* one it is in or the one before its phase.
Remembers(t, r, i) ==
    /\ t \in Bad(i) \cup {None}
    /\ t # None => r.state \in Bad(i) /\ r.state_type = "HARD"
    /\ t \notin {None, r.state} => r.in_phase /\ r.state_before_phase = t

\* Told, of a state and of what contacts were told of before.
Retold(t, state, calls) ==
    IF "PROBLEM" \in ToSet(calls)
    THEN IF t = state THEN "again" ELSE state
    ELSE IF state \in Undetermined \cup {t} THEN t ELSE None

LEMMA JudgedFits ==
    ASSUME ~enable_problem_impacts_states_change, NEW i \in Items, NEW r \in Attributes,
           r.state \in Kind(i), Fits(r, i), NEW v, NEW calls, NEW after,
           Judged(r, v, calls, i, r.state, after)
    PROVE  /\ Fits(v, i) /\ v.state \in (Kind(i) \cap Fine) \cup Bad(i)
           /\ r.state \in Fine /\ v.state \notin Fine => v.ack = None
<1> DEFINE last == r.state
           last_type == r.state_type
<1>1. PICK o, e, n :
        /\ SameCounts(r, o) /\ o.state \in (Kind(i) \cap Fine) \cup Bad(i)
        /\ Decided(o, e, calls, i, last, last_type, after)
        /\ Phased(e, n, last, last_type) /\ Identified(n, v, last)
  BY DEF Judged
<1>2. /\ Bad(i) \cap (Fine \cup {"PENDING", None}) = {}
      /\ Kind(i) = Bad(i) \cup (Kind(i) \cap (Fine \cup {"PENDING"}))
      /\ "PENDING" \notin Fine
  BY StatesOfKind DEF Fine
<1>3. last \in Bad(i) \/ last \in Fine \/ last = "PENDING"
  BY <1>2
<1>4. e.state = o.state /\ e.problem_id = o.problem_id
  BY <1>1 DEF Decided, SameRest, Phased
<1>5. v.state = e.state /\ v.state_type = e.state_type /\ v.attempt = e.attempt
      /\ v.ack = e.ack /\ v.is_problem = e.is_problem /\ v.in_phase = n.in_phase
  BY <1>1 DEF Phased, Identified
<1>6. v.state \in (Kind(i) \cap Fine) \cup Bad(i)
  BY <1>1, <1>4, <1>5
<1>7. v.in_phase => v.state \in Undetermined
  BY <1>1, <1>5 DEF Phased
<1>8. v.problem_id <=> v.state \in Bad(i)
  <2>1. n.problem_id = r.problem_id /\ n.state = v.state
    BY <1>1, <1>4 DEF Phased, Identified, SameCounts
  <2>2. r.problem_id <=> last \in Bad(i)
    BY DEF Fits
  <2>3. v.state \in Bad(i) <=> v.state \notin Fine
    BY <1>2, <1>6
  <2> QED
    BY <1>1, <1>2, <1>3, <1>6, <2>1, <2>2, <2>3 DEF Identified
<1>9. o.state_type = last_type /\ o.attempt = r.attempt /\ o.ack = r.ack
      /\ o.is_problem = r.is_problem
  BY <1>1 DEF SameCounts
<1>10. v.state \in Fine => v.ack = None
  BY <1>1, <1>2, <1>4, <1>5 DEF Decided
<1>11. r.state \in Fine /\ v.state \notin Fine => v.ack = None
  BY <1>1, <1>4, <1>5, <1>9 DEF Decided, Fits
<1>12. v.is_problem => v.state_type = "HARD" /\ v.state \in Bad(i)
  <2>1. r.is_problem => last_type = "HARD" /\ last \in Bad(i)
    BY DEF Fits
  <2> QED
    BY <1>1, <1>2, <1>3, <1>4, <1>5, <1>9, <2>1 DEF Decided
<1>13. i \notin is_volatile /\ v.state_type = "HARD" /\ v.state \in Bad(i)
           => v.attempt >= max_check_attempts[i]
  <2>1. i \notin is_volatile /\ last_type = "HARD" /\ last \in Bad(i)
           => r.attempt >= max_check_attempts[i]
    BY DEF Fits
  <2> QED
    BY <1>1, <1>2, <1>3, <1>4, <1>5, <1>9, <2>1 DEF Decided
<1> QED
  BY <1>6, <1>7, <1>8, <1>10, <1>11, <1>12, <1>13 DEF Fits

\* Together with what is asked for: contacts are told of a problem, or the
\* notifications of one are removed, just when the item is HARD or recovers.
LEMMA JudgedRequests ==
    ASSUME ~enable_problem_impacts_states_change, NEW i \in Items, NEW r \in Attributes,
           r.state \in Kind(i), NEW v, NEW calls, NEW after,
           Judged(r, v, calls, i, r.state, after)
    PROVE  \/ /\ calls \in Quiet
              /\ r.state \in Bad(i) /\ r.state_type = "HARD"
                   => v.state \in Bad(i) /\ v.state_type = "HARD"
           \/ calls \in Recovered /\ v.state \in Fine
           \/ calls \in Hardened /\ v.state \in Bad(i) /\ v.state_type = "HARD"
<1> DEFINE last == r.state
           last_type == r.state_type
<1>1. PICK o, e, n :
        /\ SameCounts(r, o) /\ o.state \in (Kind(i) \cap Fine) \cup Bad(i)
        /\ Decided(o, e, calls, i, last, last_type, after)
        /\ Requested(o, e, calls, last)
        /\ Phased(e, n, last, last_type) /\ Identified(n, v, last)
  BY DEF Judged
<1>2. Bad(i) \cap (Fine \cup {"PENDING", None}) = {}
  BY StatesOfKind
<1>3. e.state = o.state
  BY <1>1 DEF Decided, SameRest, Phased
<1>4. v.state = o.state /\ v.state_type = e.state_type
  BY <1>1, <1>3 DEF Phased, Identified
<1>5. o.state_type = last_type
  BY <1>1 DEF SameCounts
<1>6. last \in Bad(i) /\ last_type = "HARD" /\ o.state \in Bad(i)
        => e.state_type = "HARD"
  BY <1>1, <1>2, <1>5 DEF Decided
<1>7. calls \in Quiet /\ last \in Bad(i) /\ last_type = "HARD" /\ o.state \in Fine
        => calls \in Recovered
  BY <1>1, <1>2, <1>5 DEF Requested
<1> QED
  BY <1>1, <1>2, <1>4, <1>6, <1>7 DEF Requested

LEMMA JudgedRemembers ==
    ASSUME ~enable_problem_impacts_states_change, NEW i \in Items \ is_volatile,
           NEW r \in Attributes, r.state \in Kind(i), Fits(r, i), NEW t,
           Remembers(t, r, i), NEW v, NEW calls, Judged(r, v, calls, i, r.state, FALSE)
    PROVE  Remembers(Retold(t, v.state, calls), v, i)
<1> DEFINE last == r.state
           last_type == r.state_type
           s == v.state
           now == Retold(t, s, calls)
           silent == "PROBLEM" \notin ToSet(calls)
<1>1. PICK o, e, n :
        /\ SameCounts(r, o) /\ o.state \in (Kind(i) \cap Fine) \cup Bad(i)
        /\ Decided(o, e, calls, i, last, last_type, FALSE)
        /\ Phased(e, n, last, last_type) /\ Identified(n, v, last)
  BY DEF Judged
<1>2. /\ Bad(i) \cap (Fine \cup {"PENDING", None}) = {}
      /\ Kind(i) = Bad(i) \cup (Kind(i) \cap (Fine \cup {"PENDING"}))
      /\ \A a, b \in Kind(i) \cap Undetermined : a = b
      /\ Bad(i) \subseteq Kind(i) /\ Undetermined \cap Fine = {}
  BY StatesOfKind DEF Fine, Undetermined
<1>3. last \in Bad(i) \/ last \in Fine \/ last = "PENDING"
  BY <1>2
<1>4. e.state = o.state /\ s = o.state
  BY <1>1 DEF Decided, SameRest, Phased, Identified
<1>5. v.state_type = e.state_type /\ v.in_phase = n.in_phase
      /\ v.state_before_phase = n.state_before_phase
  BY <1>1 DEF Phased, Identified
<1>6. o.state_type = last_type /\ o.in_phase = r.in_phase
      /\ o.state_before_phase = r.state_before_phase
  BY <1>1 DEF SameCounts
<1>7. /\ t \in Bad(i) \cup {None}
      /\ t # None => last \in Bad(i) /\ last_type = "HARD"
      /\ t \notin {None, last} => r.in_phase /\ r.state_before_phase = t
      /\ r.in_phase => last \in Undetermined
  BY DEF Remembers, Fits
<1>8. s \in (Kind(i) \cap Fine) \cup Bad(i)
  BY <1>1, <1>4
<1>9. CASE s \in Fine
  <2>1. silent
    BY <1>1, <1>2, <1>4, <1>9 DEF Decided
  <2>2. now = None
    BY <1>2, <1>7, <1>9, <2>1 DEF Retold
  <2> QED
    BY <2>2 DEF Remembers
<1>10. CASE s \in Bad(i) /\ (last \in Fine \cup {"PENDING"} \/ last_type = "SOFT")
  <2>1. t = None
    BY <1>2, <1>7, <1>10
  <2>2. e.state_type = "HARD" \/ silent
    BY <1>1, <1>2, <1>4, <1>6, <1>10 DEF Decided
  <2>3. now = IF silent THEN None ELSE s
    BY <1>2, <1>10, <2>1 DEF Retold
  <2> QED
    BY <1>5, <1>10, <2>2, <2>3 DEF Remembers
<1>11. CASE s \in Bad(i) /\ last \in Bad(i) /\ last_type = "HARD"
  <2>0. /\ o.state \in Bad(i) /\ last \notin Fine \cup {"PENDING"} /\ last_type # "SOFT"
    BY <1>2, <1>4, <1>11
  <2>1. /\ e.state_type = "HARD"
        /\ o.state = last => SameRest(o, e) /\ silent
        /\ o.state # last =>
              \E m : /\ Phased(o, m, last, last_type) /\ SameRest(m, e)
                     /\ \/ silent
                        \/ /\ ~m.in_phase
                           /\ ~(o.in_phase /\ o.state = o.state_before_phase)
    BY <1>1, <1>2, <1>6, <2>0 DEF Decided
  <2>2. v.state_type = "HARD"
    BY <1>5, <2>1
  <2>3. CASE s = last
    <3>1. SameRest(o, e) /\ silent
      BY <1>4, <2>1, <2>3
    <3>2. CASE t \in {None, s}
      <4>1. now = t
        BY <3>1, <3>2 DEF Retold
      <4> QED
        BY <1>7, <1>11, <2>2, <3>2, <4>1 DEF Remembers
    <3>3. CASE t \notin {None, s}
      <4>1. r.in_phase /\ r.state_before_phase = t /\ last \in Undetermined
        BY <1>7, <2>3, <3>3
      <4>2. now = t
        BY <2>3, <3>1, <4>1 DEF Retold
      <4>3. n.in_phase /\ n.state_before_phase = t
        BY <1>1, <1>4, <1>6, <1>11, <2>1, <2>3, <3>1, <4>1 DEF Phased, SameRest
      <4> QED
        BY <1>5, <1>7, <1>11, <2>2, <4>2, <4>3 DEF Remembers
    <3> QED
      BY <3>2, <3>3
  <2>4. CASE s # last
    <3>1. PICK m : /\ Phased(o, m, last, last_type) /\ SameRest(m, e)
                   /\ \/ silent
                      \/ /\ ~m.in_phase
                         /\ ~(o.in_phase /\ o.state = o.state_before_phase)
      BY <1>4, <2>1, <2>4
    <3>2. CASE s \in Undetermined
      <4>1. ~r.in_phase /\ t \in {None, last}
        BY <1>2, <1>7, <1>11, <2>4, <3>2
      <4>2. m.in_phase /\ m.state_before_phase = last
        BY <1>4, <1>6, <2>4, <3>1, <3>2, <4>1 DEF Phased
      <4>3. now = t
        BY <3>1, <3>2, <4>2 DEF Retold
      <4>4. n.in_phase /\ n.state_before_phase = last
        BY <1>1, <1>4, <1>11, <2>1, <3>1, <3>2, <4>2 DEF Phased, SameRest
      <4> QED
        BY <1>5, <1>7, <1>11, <2>2, <4>1, <4>3, <4>4 DEF Remembers
    <3>3. CASE s \notin Undetermined
      <4>1. CASE silent
        <5>1. now = IF t = s THEN t ELSE None
          BY <3>3, <4>1 DEF Retold
        <5> QED
          BY <1>7, <1>11, <2>2, <5>1 DEF Remembers
      <4>2. CASE ~silent
        <5>1. ~(r.in_phase /\ s = r.state_before_phase)
          BY <1>4, <1>6, <3>1, <4>2
        <5>2. t # s
          BY <1>2, <1>7, <1>11, <2>4, <5>1
        <5>3. now = s
          BY <4>2, <5>2 DEF Retold
        <5> QED
          BY <1>11, <2>2, <5>3 DEF Remembers
      <4> QED
        BY <4>1, <4>2
    <3> QED
      BY <3>2, <3>3
  <2> QED
    BY <2>3, <2>4
<1>12. r.state_type \in {"SOFT", "HARD"}
  BY DEF Attributes
<1> QED
  BY <1>3, <1>8, <1>9, <1>10, <1>11, <1>12

-----------------------------------------------------------------------------
(* All the items, one after the other.                                     *)

\* From w to v only business impacts have changed.
OnlyValues(w, v) ==
    /\ v \in World
    /\ \A j \in Items : /\ SameOwn(w[j], v[j]) /\ SameLinks(w[j], v[j])
                        /\ v[j].state = w[j].state
                        /\ v[j].state_before_impact = w[j].state_before_impact

LEMMA OnlyValuesIsTransitive ==
    ASSUME NEW u, NEW v, NEW w, OnlyValues(u, v), OnlyValues(v, w)
    PROVE  OnlyValues(u, w)
  BY DEF OnlyValues, SameOwn, SameLinks

LEMMA OnlyValuesLead ==
    ASSUME NEW w, Sound(w), NEW v, OnlyValues(w, v)
    PROVE  Sound(v) /\ Frame(w, v)
<1>1. w \in World /\ Related(w, {}) /\ Typed(w) /\ v \in World
  BY DEF Sound, Typed, OnlyValues
<1>2. Related(v, {})
  BY <1>1, SameLinksKeep DEF OnlyValues
<1>3. Typed(v)
  BY <1>1 DEF Typed, OnlyValues, SameOwn
<1> QED
  BY <1>2, <1>3 DEF Sound, OnlyValues, Frame

Update == [w \in World |-> [i \in Items |-> update_business_impact_value(w, i)]]

Listed(i, seq, n) == \E m \in 1..n : seq[m] = i

\* The values of the items of a list are updated one after the other: each is at
\* least that of its impacts that are not in the list, and the others stay.
LEMMA ValuesAreUpdated ==
    ASSUME NEW start \in World, NEW seq \in Seq(Items), NEW v,
           v = Through(Update, start, seq)
    PROVE  /\ OnlyValues(start, v)
           /\ \A j \in Items : ~Listed(j, seq, Len(seq)) => v[j] = start[j]
           /\ \A m \in 1..Len(seq) : \A e \in v[seq[m]].impacts :
                  ~Listed(e, seq, Len(seq))
                      => v[e].business_impact <= v[seq[m]].business_impact
<1> DEFINE n == Len(seq)
           Good(k, s) ==
               /\ OnlyValues(start, s)
               /\ \A j \in Items : ~Listed(j, seq, k) => s[j] = start[j]
               /\ \A m \in 1..k : \A e \in s[seq[m]].impacts :
                     ~Listed(e, seq, n) => s[e].business_impact <= s[seq[m]].business_impact
           P == {x \in (0..n) \X World : Good(x[1], x[2])}
<1>1. n \in Nat /\ \A m \in 1..n : seq[m] \in Items
  OBVIOUS
<1>2. \A w \in World, i \in Items : OnlyValues(w, Update[w][i]) /\ Update[w][i] \in World
  <2> SUFFICES ASSUME NEW w \in World, NEW i \in Items
               PROVE  OnlyValues(w, Update[w][i]) /\ Update[w][i] \in World
    OBVIOUS
  <2>1. Update[w][i] = update_business_impact_value(w, i)
    BY DEF Update
  <2> QED
    BY <2>1, ValueIsUpdated DEF OnlyValues
<1>3. \A w \in World, i \in Items : Update[w][i] \in World
  BY <1>2
<1>4. <<0, start>> \in P
  <2>1. OnlyValues(start, start)
    BY DEF OnlyValues, SameOwn, SameLinks
  <2> QED
    BY <1>1, <2>1
<1>5. ASSUME NEW k \in 1..n, NEW s \in World, <<k - 1, s>> \in P
      PROVE  <<k, Update[s][seq[k]]>> \in P
  <2> DEFINE i == seq[k]
             t == Update[s][i]
  <2>0. i \in Items /\ t \in World /\ OnlyValues(s, t)
    BY <1>1, <1>2
  <2>1. Good(k - 1, s)
    BY <1>5
  <2>2. /\ \A j \in Items \ {i} : t[j] = s[j]
        /\ \A e \in s[i].impacts : s[e].business_impact <= t[i].business_impact
    <3>1. t = update_business_impact_value(s, i)
      BY <2>0 DEF Update
    <3> QED
      BY <2>0, <3>1, ValueIsUpdated
  <2>3. OnlyValues(start, t)
    BY <2>0, <2>1, OnlyValuesIsTransitive
  <2>4. ASSUME NEW j \in Items, ~Listed(j, seq, k) PROVE t[j] = start[j]
    <3>1. ~Listed(j, seq, k - 1) /\ j # i
      BY <1>1, <2>4 DEF Listed
    <3> QED
      BY <2>1, <2>2, <3>1
  <2>5. ASSUME NEW m \in 1..k, NEW e \in t[seq[m]].impacts, ~Listed(e, seq, n)
        PROVE  t[e].business_impact <= t[seq[m]].business_impact
    <3>1. seq[m] \in Items
      BY <1>1
    <3>2. e \in s[seq[m]].impacts
      BY <2>0, <3>1 DEF OnlyValues, SameLinks
    <3>3. e \in Items /\ e # i
      <4>1. e \in Items
        BY <2>0, <3>1 DEF World, Attributes
      <4> QED
        BY <1>1, <2>5, <4>1 DEF Listed
    <3>4. CASE seq[m] = i
      BY <2>2, <3>2, <3>3, <3>4
    <3>5. CASE seq[m] # i
      <4>1. m \in 1..(k - 1)
        BY <3>5
      <4> QED
        BY <2>1, <2>2, <2>5, <3>1, <3>2, <3>3, <3>5, <4>1
    <3> QED
      BY <3>4, <3>5
  <2> HIDE DEF t
  <2>6. Good(k, t)
    BY <2>3, <2>4, <2>5
  <2> HIDE DEF Good
  <2> QED
    BY <1>1, <2>0, <2>6 DEF t
<1> HIDE DEF P
<1>6. <<n, Through(Update, start, seq)>> \in P
  BY <1>3, <1>4, <1>5, ThroughInduction
<1> QED
  BY <1>6 DEF P

\* What update_business_values does: the value of a problem is at least that of its
\* impacts that are no problems.
LEMMA BusinessValues ==
    ASSUME Sound(item), update_business_values
    PROVE  /\ OnlyValues(item, item')
           /\ \A p \in Items : \A i \in item'[p].impacts :
                  item'[i].is_problem
                      \/ item'[p].business_impact >= item'[i].business_impact
<1> DEFINE calm == {i \in Items : ~item[i].is_problem}
           first == Filter(Everyone, calm)
           second == Filter(Everyone, Items \ calm)
           w1 == Through(Update, item, first)
           v == Through(Update, w1, second)
<1>1. item' = v
  BY DEF update_business_values, Update
<1>2. item \in World
  BY DEF Sound, Typed
<1>3. Everyone \in Seq(Items)
  BY EveryoneIsThere
<1>4. first \in Seq(Items) /\ second \in Seq(Items)
      /\ Among(second, Everyone, Len(Everyone), Items \ calm)
      /\ Has(second, Everyone, Len(Everyone), Items \ calm)
  <2> HIDE DEF calm
  <2> QED
    BY <1>3, FilterKeeps
<1> HIDE DEF first, second
<1>5. OnlyValues(item, w1)
  BY <1>2, <1>4, ValuesAreUpdated
<1>6. w1 \in World
  BY <1>5 DEF OnlyValues
<1> HIDE DEF w1
<1>7. /\ OnlyValues(w1, v)
      /\ \A m \in 1..Len(second) : \A e \in v[second[m]].impacts :
             ~Listed(e, second, Len(second))
                 => v[e].business_impact <= v[second[m]].business_impact
  BY <1>4, <1>6, ValuesAreUpdated
<1> HIDE DEF v
<1>8. OnlyValues(item, v)
  BY <1>5, <1>7, OnlyValuesIsTransitive
<1>9. ASSUME NEW p \in Items, NEW i \in v[p].impacts
      PROVE  v[i].is_problem \/ v[p].business_impact >= v[i].business_impact
  <2>1. v \in World /\ Sound(v)
    BY <1>8, OnlyValuesLead DEF OnlyValues
  <2>2. i \in Items /\ v[i].business_impact \in Nat /\ v[p].business_impact \in Nat
    BY <2>1 DEF World, Attributes
  <2>3. v[p].is_problem
    BY <2>1, <2>2 DEF Sound, Related, Mutuals, Sources
  <2>4. p \in Items \ calm
    BY <1>8, <2>3 DEF OnlyValues, SameLinks
  <2>5. PICK m \in 1..Len(second) : second[m] = p
    <3>1. PICK k \in 1..Len(Everyone) : Everyone[k] = p
      BY EveryoneIsThere
    <3> HIDE DEF calm
    <3> QED
      BY <1>4, <2>4, <3>1 DEF Has
  <2>6. CASE Listed(i, second, Len(second))
    <3>1. i \in Items \ calm
      <4> HIDE DEF calm
      <4> QED
        BY <1>4, <2>6 DEF Listed, Among
    <3> QED
      BY <1>8, <2>2, <3>1 DEF OnlyValues, SameLinks
  <2>7. CASE ~Listed(i, second, Len(second))
    <3>1. v[i].business_impact <= v[p].business_impact
      BY <1>7, <2>5, <2>7
    <3> QED
      BY <2>2, <3>1
  <2> QED
    BY <2>6, <2>7
<1> QED
  BY <1>1, <1>8, <1>9

\* What is restored is sound: nobody is a problem or an impact.
LEMMA RestoredIsSound ==
    ASSUME Sound(item)
    PROVE  LET w == [i \in Items |-> Restored(i)]
           IN Sound(w) /\ \A i \in Items : SameOwn(item[i], w[i]) /\ ~w[i].is_problem
<1> DEFINE w == [i \in Items |-> Restored(i)]
<1>1. ASSUME NEW i \in Items
      PROVE  /\ w[i] \in Attributes /\ SameOwn(item[i], w[i])
             /\ ~w[i].is_problem /\ ~w[i].is_impact
             /\ w[i].impacts = {} /\ w[i].source_problems = {}
             /\ w[i].state = item[i].state /\ w[i].state_before_impact = "PENDING"
  <2> DEFINE a == item[i]
  <2>1. w[i] = [Pending(i) EXCEPT
          !.state = a.state, !.state_type = a.state_type,
          !.attempt = a.attempt, !.ack = a.ack,
          !.in_phase = a.in_phase, !.state_before_phase = a.state_before_phase,
          !.problem_id = a.problem_id]
    BY DEF Restored
  <2>2. a \in Attributes /\ own_business_impact[i] \in Nat
    BY SoundIs, ItemAssumption
  <2> HIDE DEF a, w
  <2>3. w[i] = [state |-> a.state, state_type |-> a.state_type, attempt |-> a.attempt,
                ack |-> a.ack, is_problem |-> FALSE, is_impact |-> FALSE,
                impacts |-> {}, source_problems |-> {},
                state_before_impact |-> "PENDING", state_changed_since_impact |-> FALSE,
                in_phase |-> a.in_phase, state_before_phase |-> a.state_before_phase,
                business_impact |-> own_business_impact[i], problem_id |-> a.problem_id]
    BY <2>1 DEF Pending
  <2>4. /\ w[i] \in Attributes /\ SameOwn(a, w[i])
        /\ ~w[i].is_problem /\ ~w[i].is_impact
        /\ w[i].impacts = {} /\ w[i].source_problems = {}
        /\ w[i].state = a.state /\ w[i].state_before_impact = "PENDING"
    BY <2>2, <2>3 DEF Attributes, SameOwn, HostState
  <2> QED
    BY <2>4 DEF a
<1>2. w \in World
  BY <1>1 DEF World
<1> HIDE DEF w
<1>3. Related(w, {})
  BY <1>1 DEF Related, Mutuals, Sources, Flags
<1>4. Typed(w)
  <2>1. \A i \in Items : /\ item[i].state \in Kind(i)
                         /\ item[i].attempt <= max_check_attempts[i]
    BY SoundIs
  <2>2. \A i \in Items : "PENDING" \in Kind(i)
    BY DEF Kind, HostState, ServiceState
  <2> QED
    BY <1>1, <1>2, <2>1, <2>2 DEF Typed, SameOwn
<1> QED
  BY <1>1, <1>3, <1>4 DEF w, Sound

\* The reload of all the items, one after the other, is sound.
LEMMA ReprocessedIsSound ==
    ASSUME NEW w, Sound(w), NEW v,
           v = Through([u \in World |-> [i \in Items |-> reprocess_problem_impact_state(u, i)]],
                       w, Everyone)
    PROVE  Sound(v)
<1> DEFINE G == [u \in World |-> [i \in Items |-> reprocess_problem_impact_state(u, i)]]
           S == {u \in World : Sound(u)}
<1>1. ASSUME NEW u \in S, NEW i \in Items PROVE G[u][i] \in S
  <2> DEFINE b == IF /\ ~is_no_action_dependent(u, i)
                     /\ u[i].state \notin Fine \cup {"PENDING"}
                     /\ u[i].state_type = "HARD"
                  THEN set_myself_as_problem(u, i) ELSE u
  <2>1. G[u][i] = check_and_set_unreachability(b, i)
    BY DEF reprocess_problem_impact_state
  <2>2. Sound(b)
    <3>1. CASE b = u
      BY <3>1
    <3>2. CASE b = set_myself_as_problem(u, i)
      <4> HIDE DEF b
      <4>1. Led(u, b, i)
        BY <3>2, MyselfLeads
      <4> QED
        BY <4>1 DEF Led
    <3> QED
      BY <3>1, <3>2
  <2> HIDE DEF b, G
  <2>3. Sound(G[u][i])
    BY <2>1, <2>2, Unreachability DEF Led
  <2> QED
    BY <2>3 DEF Sound, Typed
<1>2. w \in S /\ Everyone \in Seq(Items)
  BY EveryoneIsThere DEF Sound, Typed
<1> HIDE DEF G, S
<1>3. Through(G, w, Everyone) \in S
  BY <1>1, <1>2, ThroughKeeps
<1> QED
  BY <1>3 DEF G, S

-----------------------------------------------------------------------------
(* The inductive invariant.                                                *)

TypeInv ==
    /\ enable_problem_impacts_states_change \in BOOLEAN
    /\ enable_problem_impacts_states_change \in Changes
    /\ valid \subseteq Period
    /\ told \in [Watched -> {None, "again"} \cup HostState \cup ServiceState]

OwnInv ==
    ~enable_problem_impacts_states_change => \A i \in Items : Fits(item[i], i)

ToldInv ==
    ~enable_problem_impacts_states_change =>
        \A i \in Watched \ is_volatile : Remembers(told[i], item[i], i)

IInv == TypeInv /\ Sound(item) /\ OwnInv /\ ToldInv

\* What does not change an item of its own, nor makes it a problem, keeps what its
\* attributes tell.
LEMMA FitsStays ==
    ASSUME ~enable_problem_impacts_states_change, NEW r, NEW s, NEW i, Fits(r, i),
           SameOwn(r, s), s.is_problem => r.is_problem
    PROVE  Fits(s, i)
  BY DEF Fits, SameOwn

LEMMA RemembersStays ==
    ASSUME ~enable_problem_impacts_states_change, NEW r, NEW s, NEW i, NEW t,
           Remembers(t, r, i), SameOwn(r, s)
    PROVE  Remembers(t, s, i)
  BY DEF Remembers, SameOwn

\* A step that changes nothing of an item's own keeps the invariant.
LEMMA FrameKeeps ==
    ASSUME IInv, Sound(item'), UNCHANGED <<enable_problem_impacts_states_change, told>>,
           valid' \subseteq Period,
           \A i \in Items : /\ SameOwn(item[i], item'[i])
                            /\ item'[i].is_problem => item[i].is_problem
    PROVE  IInv'
<1>1. TypeInv'
  BY DEF IInv, TypeInv
<1>2. (Sound(item))'
  BY DEF Sound, Typed, Related, Mutuals, Sources, Flags, World, Attributes, Kind
<1>3. OwnInv'
  <2> SUFFICES ASSUME ~enable_problem_impacts_states_change, NEW i \in Items
               PROVE  Fits(item'[i], i)
    BY DEF OwnInv, Fits
  <2>1. Fits(item[i], i)
    BY DEF IInv, OwnInv
  <2> QED
    BY <2>1, FitsStays
<1>4. ToldInv'
  <2> SUFFICES ASSUME ~enable_problem_impacts_states_change, NEW i \in Watched \ is_volatile
               PROVE  Remembers(told[i], item'[i], i)
    BY DEF ToldInv, Remembers
  <2>1. Remembers(told[i], item[i], i) /\ i \in Items
    BY ItemAssumption DEF IInv, ToldInv
  <2> QED
    BY <2>1, RemembersStays
<1> QED
  BY <1>1, <1>2, <1>3, <1>4 DEF IInv

\* Told says what Retold says.
LEMMA ToldIs ==
    ASSUME NEW i, NEW w, NEW calls
    PROVE  Told(i, w, calls) = Retold(told[i], w[i].state, calls)
  BY DEF Told, Retold

LEMMA ConsumeKeeps ==
    ASSUME IInv, NEW i \in Items, NEW status, NEW dependent \in BOOLEAN,
           Consume(i, status, dependent), UNCHANGED enable_problem_impacts_states_change
    PROVE  /\ IInv'
           /\ ~enable_problem_impacts_states_change =>
                \A j \in Items : item[j].state \in Fine /\ item'[j].state \notin Fine
                                     => item'[j].ack = None
<1> DEFINE r == consume_state_result(item, i, status, dependent, FALSE)
<1>1. /\ item' = r.w /\ UNCHANGED valid
      /\ told' = [j \in Watched |-> IF j = i THEN Told(i, r.w, r.calls) ELSE told[j]]
  BY DEF Consume
<1>2. Sound(item)
  BY DEF IInv
<1>3. /\ Led(item, r.w, i)
      /\ Judged(item[i], r.w[i], r.calls, i, LastState(item, i), FALSE)
  BY <1>2, ConsumeLeads
<1> HIDE DEF r
<1>4. Sound(item')
  BY <1>1, <1>3 DEF Led
<1>5. (Sound(item))'
  BY <1>4 DEF Sound, Typed, Related, Mutuals, Sources, Flags, World, Attributes, Kind
<1>6. item'[i].state \in HostState \cup ServiceState
  <2>1. item'[i].state \in Kind(i)
    BY <1>4, SoundIs
  <2> QED
    BY <2>1, StatesOfKind
<1>7. TypeInv'
  <2>1. Told(i, r.w, r.calls) \in {None, "again"} \cup HostState \cup ServiceState
        \/ i \notin Watched
    <3> SUFFICES ASSUME i \in Watched
                 PROVE  Retold(told[i], item'[i].state, r.calls) \in
                            {None, "again"} \cup HostState \cup ServiceState
      BY <1>1, ToldIs
    <3>1. told[i] \in {None, "again"} \cup HostState \cup ServiceState
      BY DEF IInv, TypeInv
    <3> QED
      BY <1>6, <3>1 DEF Retold
  <2>2. \A j \in Watched : told[j] \in {None, "again"} \cup HostState \cup ServiceState
    BY DEF IInv, TypeInv
  <2> QED
    BY <1>1, <2>1, <2>2 DEF IInv, TypeInv
<1>8. ASSUME ~enable_problem_impacts_states_change
      PROVE  /\ \A j \in Items : Fits(item'[j], j)
             /\ \A j \in Watched \ is_volatile : Remembers(told'[j], item'[j], j)
             /\ \A j \in Items : item[j].state \in Fine /\ item'[j].state \notin Fine
                                     => item'[j].ack = None
  <2>1. \A j \in Items : Fits(item[j], j)
    BY <1>8 DEF IInv, OwnInv
  <2>2. /\ item[i] \in Attributes /\ item[i].state \in Kind(i)
        /\ Judged(item[i], item'[i], r.calls, i, item[i].state, FALSE)
    BY <1>1, <1>2, <1>3, <1>8, SoundIs DEF LastState
  <2>3. /\ Fits(item'[i], i)
        /\ item[i].state \in Fine /\ item'[i].state \notin Fine => item'[i].ack = None
    BY <1>8, <2>1, <2>2, JudgedFits
  <2>4. \A j \in Items \ {i} : /\ SameOwn(item[j], item'[j])
                               /\ item'[j].is_problem => item[j].is_problem
    BY <1>1, <1>3 DEF Led
  <2>5. \A j \in Items \ {i} : Fits(item'[j], j)
    BY <1>8, <2>1, <2>4, FitsStays
  <2>6. \A j \in Items \ {i} : item'[j].state = item[j].state
    BY <1>8, <2>4 DEF SameOwn
  <2>7. ASSUME NEW j \in Watched \ is_volatile PROVE Remembers(told'[j], item'[j], j)
    <3>1. Remembers(told[j], item[j], j) /\ j \in Items
      BY <1>8, ItemAssumption DEF IInv, ToldInv
    <3>2. CASE j = i
      <4>1. told'[i] = Retold(told[i], item'[i].state, r.calls)
        BY <1>1, <3>2, ToldIs
      <4>2. i \in Items \ is_volatile
        BY <3>2
      <4>3. Remembers(Retold(told[i], item'[i].state, r.calls), item'[i], i)
        BY <1>8, <2>1, <2>2, <3>1, <3>2, <4>2, JudgedRemembers
      <4> QED
        BY <3>2, <4>1, <4>3
    <3>3. CASE j # i
      <4>1. told'[j] = told[j]
        BY <1>1, <3>3
      <4>2. SameOwn(item[j], item'[j])
        BY <2>4, <3>1, <3>3
      <4> QED
        BY <1>8, <3>1, <4>1, <4>2, RemembersStays
    <3> QED
      BY <3>2, <3>3
  <2> QED
    BY <2>3, <2>5, <2>6, <2>7
<1>9. OwnInv'
  BY <1>8 DEF OwnInv, Fits
<1>10. ToldInv'
  BY <1>8 DEF ToldInv, Remembers
<1> QED
  BY <1>5, <1>7, <1>8, <1>9, <1>10 DEF IInv

\* An acknowledgement that starts, or ends, keeps the invariant.
LEMMA AckKeeps ==
    ASSUME IInv, NEW i \in Items, NEW ack \in {None, "normal", "sticky"},
           ack # None => item[i].state \notin Fine,
           item' = [item EXCEPT ![i].ack = ack],
           UNCHANGED <<enable_problem_impacts_states_change, valid, told>>
    PROVE  IInv' /\ \A j \in Items : item'[j].state = item[j].state
<1> DEFINE a == item[i]
           s == [a EXCEPT !.ack = ack]
<1>1. Sound(item) /\ item' = [item EXCEPT ![i] = s]
  BY DEF IInv
<1>2. a \in Attributes /\ a.attempt <= max_check_attempts[i] /\ item \in World
  BY <1>1, SoundIs
<1>3. /\ s \in Attributes /\ SameLinks(a, s) /\ s.ack = ack
      /\ s.state = a.state /\ s.state_before_impact = a.state_before_impact
      /\ s.attempt = a.attempt /\ s.state_type = a.state_type
      /\ s.is_problem = a.is_problem /\ s.problem_id = a.problem_id
      /\ s.in_phase = a.in_phase /\ s.state_before_phase = a.state_before_phase
  <2> HIDE DEF a
  <2> QED
    BY <1>2 DEF Attributes, SameLinks
<1>4. /\ Fits(a, i) => Fits(s, i)
      /\ \A t : Remembers(t, a, i) => Remembers(t, s, i)
  <2> HIDE DEF s
  <2> QED
    BY <1>3 DEF Fits, Remembers
<1> HIDE DEF s
<1>5. Led(item, item', i) /\ item'[i] = s
  <2>0. /\ s \in Attributes /\ SameLinks(item[i], s) /\ s.state = item[i].state
        /\ s.state_before_impact = item[i].state_before_impact
        /\ s.attempt <= max_check_attempts[i]
    BY <1>2, <1>3
  <2>1. Led(item, [item EXCEPT ![i] = s], i) /\ [item EXCEPT ![i] = s][i] = s
    BY ONLY i \in Items, <1>1, <2>0, CountsLead
  <2> QED
    BY <1>1, <2>1
<1>6. \A j \in Items \ {i} : item'[j] = item[j]
  BY <1>1, <1>2 DEF World
<1>7. (Sound(item))'
  <2>1. Sound(item')
    BY <1>5 DEF Led
  <2> QED
    BY <2>1 DEF Sound, Typed, Related, Mutuals, Sources, Flags, World, Attributes, Kind
<1>8. TypeInv'
  BY DEF IInv, TypeInv
<1>9. OwnInv'
  <2> SUFFICES ASSUME ~enable_problem_impacts_states_change, NEW j \in Items
               PROVE  Fits(item'[j], j)
    BY DEF OwnInv, Fits
  <2> QED
    BY <1>4, <1>5, <1>6 DEF IInv, OwnInv
<1>10. ToldInv'
  <2> SUFFICES ASSUME ~enable_problem_impacts_states_change, NEW j \in Watched \ is_volatile
               PROVE  Remembers(told[j], item'[j], j)
    BY DEF ToldInv, Remembers
  <2>1. Remembers(told[j], item[j], j) /\ j \in Items
    BY ItemAssumption DEF IInv, ToldInv
  <2> QED
    BY <1>4, <1>5, <1>6, <2>1
<1> QED
  BY <1>3, <1>5, <1>6, <1>7, <1>8, <1>9, <1>10 DEF IInv

\* The invariant, and that an acknowledgement is of one problem only.
Ends ==
    ~enable_problem_impacts_states_change =>
        \A i \in Items : item[i].state \in Fine /\ item'[i].state \notin Fine
                             => item'[i].ack = None

LEMMA EndsWhenSame ==
    ASSUME \A j \in Items :
               ~enable_problem_impacts_states_change => item'[j].state = item[j].state
    PROVE  Ends
  BY DEF Ends

LEMMA InvInit == Init => IInv
<1> SUFFICES ASSUME Init PROVE IInv
  OBVIOUS
<1>1. item = [i \in Items |-> Pending(i)] /\ told = [i \in Watched |-> None]
      /\ enable_problem_impacts_states_change \in Changes /\ valid = Period
  BY DEF Init
<1>2. ASSUME NEW i \in Items
      PROVE  /\ item[i] \in Attributes /\ item[i].state = "PENDING"
             /\ item[i].state_before_impact = "PENDING" /\ item[i].attempt = 0
             /\ ~item[i].is_problem /\ ~item[i].is_impact /\ ~item[i].in_phase
             /\ item[i].impacts = {} /\ item[i].source_problems = {}
             /\ item[i].problem_id = FALSE
  <2>1. own_business_impact[i] \in Nat
    BY ItemAssumption
  <2>2. item[i] = Pending(i)
    BY <1>1
  <2> QED
    BY <2>1, <2>2 DEF Pending, Attributes, HostState
<1>3. TypeInv
  BY <1>1, ItemAssumption DEF TypeInv
<1>4. "PENDING" \notin Fine /\ \A i \in Items : "PENDING" \in Kind(i) /\ "PENDING" \notin Bad(i)
  BY DEF Fine, Kind, Bad, HostState, ServiceState
<1>5. Typed(item)
  <2>1. item \in World
    BY <1>1, <1>2 DEF World
  <2>2. \A i \in Items : item[i].attempt <= max_check_attempts[i]
    <3>1. \A i \in Items : max_check_attempts[i] \in Nat
      BY OneAttempt
    <3>2. \A i \in Items : item[i].attempt = 0
      BY <1>2
    <3> QED
      BY <3>1, <3>2
  <2> QED
    BY <1>2, <1>4, <2>1, <2>2 DEF Typed
<1>6. Related(item, {})
  BY <1>2 DEF Related, Mutuals, Sources, Flags
<1>7. OwnInv
  BY <1>2, <1>4 DEF OwnInv, Fits
<1>8. ToldInv
  BY <1>1 DEF ToldInv, Remembers
<1> QED
  BY <1>3, <1>5, <1>6, <1>7, <1>8 DEF IInv, Sound

LEMMA InvNext ==
    ASSUME IInv, [Next]_vars
    PROVE  IInv' /\ Ends
<1>1. CASE UNCHANGED vars
  <2>1. Sound(item')
    BY <1>1 DEF IInv, vars
  <2>2. IInv'
    BY <1>1, <2>1, FrameKeeps DEF vars, IInv, TypeInv, SameOwn
  <2> QED
    BY <1>1, <2>2, EndsWhenSame DEF vars
<1>2. CASE Next
  <2>0. UNCHANGED enable_problem_impacts_states_change /\ Step
    BY <1>2 DEF Next
  <2>1. ASSUME NEW i \in Items, NEW status \in Exit[i], Consume(i, status, FALSE)
        PROVE  IInv' /\ Ends
    BY <2>0, <2>1, ConsumeKeeps DEF Ends
  <2>2. ASSUME NEW d \in Link, NEW status \in Exit[d.dep], Consume(d.dep, status, TRUE)
        PROVE  IInv' /\ Ends
    <3>1. d.dep \in Items
      BY LinkAssumption
    <3> QED
      BY <2>0, <2>2, <3>1, ConsumeKeeps DEF Ends
  <2>3. ASSUME NEW i \in Watched, NEW sticky \in BOOLEAN, acknowledge_problem(i, sticky)
        PROVE  IInv' /\ Ends
    <3> DEFINE ack == IF sticky THEN "sticky" ELSE "normal"
    <3>1. /\ i \in Items /\ ack \in {None, "normal", "sticky"} /\ ack # None
          /\ item[i].state \notin Fine /\ item' = [item EXCEPT ![i].ack = ack]
          /\ UNCHANGED <<enable_problem_impacts_states_change, valid, told>>
      BY <2>0, <2>3, ItemAssumption DEF acknowledge_problem, None
    <3> HIDE DEF ack
    <3>2. IInv' /\ \A j \in Items : item'[j].state = item[j].state
      BY <3>1, AckKeeps
    <3> QED
      BY <3>2, EndsWhenSame
  <2>4. ASSUME NEW i \in Items, RemoveAcknowledgement(i)
        PROVE  IInv' /\ Ends
    <3>1. /\ item' = [item EXCEPT ![i].ack = None] /\ None \in {None, "normal", "sticky"}
          /\ UNCHANGED <<enable_problem_impacts_states_change, valid, told>>
      BY <2>0, <2>4 DEF RemoveAcknowledgement, unacknowledge_problem
    <3>2. IInv' /\ \A j \in Items : item'[j].state = item[j].state
      BY <3>1, AckKeeps
    <3> QED
      BY <3>2, EndsWhenSame
  <2>5. ASSUME NEW p \in Period, PeriodChanges(p)
        PROVE  IInv' /\ Ends
    <3>1. UNCHANGED <<item, told>> /\ valid' \subseteq Period
      BY <2>5 DEF PeriodChanges, IInv, TypeInv
    <3>2. Sound(item')
      BY <3>1 DEF IInv
    <3>3. IInv'
      BY <2>0, <3>1, <3>2, FrameKeeps DEF SameOwn
    <3> QED
      BY <3>1, <3>3, EndsWhenSame
  <2>6. ASSUME update_business_values
        PROVE  IInv' /\ Ends
    <3>1. OnlyValues(item, item') /\ UNCHANGED <<valid, told>>
      BY <2>6, BusinessValues DEF IInv, update_business_values
    <3>2. Sound(item')
      BY <3>1, OnlyValuesLead DEF IInv
    <3>3. IInv'
      BY <2>0, <3>1, <3>2, FrameKeeps DEF OnlyValues, SameLinks, IInv, TypeInv
    <3> QED
      BY <3>1, <3>3, EndsWhenSame DEF OnlyValues
  <2>7. ASSUME Restart
        PROVE  IInv' /\ Ends
    <3> DEFINE w == [i \in Items |-> Restored(i)]
               G == [v \in World |-> [i \in Items |-> reprocess_problem_impact_state(v, i)]]
               v == Through(G, w, Everyone)
    <3>1. UNCHANGED <<enable_problem_impacts_states_change, valid, told>>
      BY <2>0, <2>7 DEF Restart
    <3>2. Sound(w) /\ \A i \in Items : SameOwn(item[i], w[i]) /\ ~w[i].is_problem
      BY RestoredIsSound DEF IInv
    <3>3. item' = IF enable_problem_impacts_states_change THEN v ELSE w
      BY <2>7 DEF Restart
    <3> HIDE DEF w
    <3>4. CASE enable_problem_impacts_states_change
      <4>1. item' = v
        BY <3>3, <3>4
      <4>2. Sound(item')
        BY <3>2, <4>1, ReprocessedIsSound
      <4>3. (Sound(item))'
        BY <4>2 DEF Sound, Typed, Related, Mutuals, Sources, Flags, World, Attributes, Kind
      <4>4. TypeInv'
        BY <3>1 DEF IInv, TypeInv
      <4>5. OwnInv' /\ ToldInv' /\ Ends
        BY <3>1, <3>4 DEF OwnInv, ToldInv, Ends
      <4> QED
        BY <4>3, <4>4, <4>5 DEF IInv
    <3>5. CASE ~enable_problem_impacts_states_change
      <4>1. item' = w
        BY <3>3, <3>5
      <4>2. IInv'
        BY <3>1, <3>2, <4>1, FrameKeeps DEF IInv, TypeInv
      <4>3. \A j \in Items : item'[j].state = item[j].state
        BY <3>2, <3>5, <4>1 DEF SameOwn
      <4> QED
        BY <4>2, <4>3, EndsWhenSame
    <3> QED
      BY <3>4, <3>5
  <2> QED
    BY <2>0, <2>1, <2>2, <2>3, <2>4, <2>5, <2>6, <2>7 DEF Step
<1> QED
  BY <1>1, <1>2

\* The invariant says what the properties of the runs do.
LEMMA InvTells ==
    ASSUME IInv
    PROVE  MutualImpacts /\ StateTells
<1>1. Sound(item) /\ item \in World /\ Related(item, {})
  BY DEF IInv, Sound, Typed
<1>2. MutualImpacts
  BY <1>1 DEF Related, Mutuals, Sources, Flags, MutualImpacts
<1>3. TypeOK
  <2>1. \A s \in Service : s \notin Host /\ s \in Items
    BY ItemAssumption DEF Items
  <2>2. \A h \in Host : h \in Items
    BY DEF Items
  <2>3. \A i \in Items : item[i].state \in Kind(i)
                         /\ item[i].attempt <= max_check_attempts[i]
    BY <1>1, SoundIs
  <2>4. (\A h \in Host : item[h].state \in HostState)
        /\ \A s \in Service : item[s].state \in ServiceState
    BY <2>1, <2>2, <2>3 DEF Kind
  <2> QED
    BY <1>1, <2>3, <2>4 DEF IInv, TypeInv, TypeOK
<1>4. \A i \in Items : item[i].state \in Bad(i) <=> item[i].state \notin Fine \cup {"PENDING"}
  <2> SUFFICES ASSUME NEW i \in Items
               PROVE  item[i].state \in Bad(i) <=> item[i].state \notin Fine \cup {"PENDING"}
    OBVIOUS
  <2>1. item[i].state \in Kind(i)
    BY <1>1, SoundIs
  <2> QED
    BY <2>1, StatesOfKind
<1>5. ProblemIsHard /\ HardAfterAttempts
  BY <1>4 DEF IInv, OwnInv, Fits, ProblemIsHard, HardAfterAttempts, is_max_attempts
<1>6. ProblemIdTells
  BY <1>4 DEF IInv, OwnInv, Fits, ProblemIdTells, Checked, LastState
<1>7. ToldOnce
  <2> SUFFICES ASSUME ~enable_problem_impacts_states_change, NEW i \in Watched \ is_volatile
               PROVE  told[i] # "again"
    BY DEF ToldOnce
  <2>1. told[i] \in Bad(i) \cup {None}
    BY DEF IInv, ToldInv, Remembers
  <2> QED
    BY <2>1 DEF Bad, None
<1> QED
  BY <1>2, <1>3, <1>5, <1>6, <1>7 DEF StateTells

\* The inductive invariant of the states, for all hosts, services and links.
THEOREM ItemInvariance == Spec => []IInv
<1>1. IInv /\ [Next]_vars => IInv'
  BY InvNext
<1> QED
  BY <1>1, InvInit, PTL DEF Spec

\* Problems and impacts know each other, whatever order items fall, recover and are
\* reloaded in: so a problem that is over finds itself in the source_problems of
\* each of its impacts, and no item stays an impact of a problem that is over.
THEOREM ImpactsAreMutual == Spec => []MutualImpacts
<1>1. IInv => MutualImpacts
  BY InvTells
<1> QED
  BY <1>1, ItemInvariance, PTL

\* What is stored of an item tells what its checks said: a problem is HARD and bad,
\* has its id and its attempts exhausted, and its contacts were told of it once,
\* though an undetermined state, a dependency check or a reload came in between.
THEOREM StatesAreTold == Spec => []StateTells
<1>1. IInv => StateTells
  BY InvTells
<1> QED
  BY <1>1, ItemInvariance, PTL

\* The value of a problem is that of what it hurts once update_business_values has
\* run, and an acknowledgement ends with its problem.
THEOREM ProblemsFollowed == Spec => ProblemsAreFollowed
<1> DEFINE Outweighs ==
             \/ \A p \in Items : \A i \in item'[p].impacts :
                    item'[i].is_problem
                        \/ item'[p].business_impact >= item'[i].business_impact
             \/ ~update_business_values
           ToldOf ==
             ~enable_problem_impacts_states_change =>
                 \A i \in Items : item[i].state \in Fine /\ item'[i].state \notin Fine
                                      => item'[i].ack = None
<1>1. Init => IInv
  BY InvInit
<1>2. IInv /\ [Next]_vars => IInv'
  BY InvNext
<1>3. IInv /\ [Next]_vars => [Outweighs]_vars
  <2> SUFFICES ASSUME IInv PROVE Outweighs
    OBVIOUS
  <2> QED
    BY BusinessValues DEF IInv
<1>4. IInv /\ [Next]_vars => [ToldOf]_vars
  BY InvNext DEF Ends
<1>5. Spec => [][Outweighs]_vars /\ [][ToldOf]_vars
  <2> HIDE DEF Outweighs, ToldOf
  <2> QED
    BY <1>1, <1>2, <1>3, <1>4, PTL DEF Spec
<1> QED
  BY <1>5 DEF ProblemsAreFollowed, ImpactOutweighed, AcknowledgementEnds

-----------------------------------------------------------------------------
(* Notifications: what is done to a queue.                                 *)

\* A master that reminds of a problem.
Chief(q, id) == q.actions[id].contact = Master /\ q.actions[id].type = "PROBLEM"

\* In a queue of an item that is in trouble, or is not, what is in progress lives,
\* at most one master reminds, and only of trouble.
InSeries(q, trouble) ==
    /\ \A id \in ActionIds : id \in q.in_progress <=> q.actions[id] # Absent
    /\ \A a, b \in ActionIds :
         q.actions[a] # Absent /\ Chief(q, a) /\ q.actions[b] # Absent /\ Chief(q, b)
             => a = b
    /\ \A id \in ActionIds : q.actions[id].type = "PROBLEM" => trouble

Empty(q) == \A id \in ActionIds : q.actions[id] = Absent

LEMMA MinOfNats ==
    ASSUME NEW S, S \subseteq Nat, S # {}
    PROVE  Min(S) \in S /\ \A x \in S : Min(S) <= x
  BY Smallest DEF Min

LEMMA CappedType == ASSUME NEW k \in Nat PROVE Capped(k) \in 0..MaxNumber
<1>1. Min({k, MaxNumber}) \in {k, MaxNumber} /\ Min({k, MaxNumber}) <= MaxNumber
  BY NotificationAssumption, MinOfNats
<1> QED
  BY <1>1, NotificationAssumption DEF Capped

LEMMA NotAbsent ==
    /\ \A a \in Notification : a # Absent /\ a.type \in Types
    /\ Absent.type = None /\ None \notin Types
    /\ \A q \in Queue : \A id \in ActionIds :
         /\ q.actions[id] \in Notification \cup {Absent}
         /\ q.actions[id].type \in Types => q.actions[id] \in Notification
<1>1. Absent.type = None /\ None \notin Types
  BY DEF Absent, Types, None
<1>2. \A a \in Notification : a.type \in Types
  BY DEF Notification
<1>3. \A q \in Queue : \A id \in ActionIds : q.actions[id] \in Notification \cup {Absent}
  BY DEF Queue
<1> QED
  BY <1>1, <1>2, <1>3

\* A notification that is changed stays what it is.
LEMMA SameNotification ==
    ASSUME NEW a \in Notification, NEW nb \in 0..MaxNumber, NEW c \in Contact
    PROVE  /\ [a EXCEPT !.due = TRUE] \in Notification
           /\ [a EXCEPT !.due = FALSE, !.nb = nb] \in Notification
           /\ [a EXCEPT !.status = "inpoller"] \in Notification
           /\ [a EXCEPT !.status = "scheduled"] \in Notification
           /\ [a EXCEPT !.contact = c] \in Notification
           /\ [a EXCEPT !.due = TRUE].type = a.type
           /\ [a EXCEPT !.due = TRUE].contact = a.contact
           /\ [a EXCEPT !.due = FALSE, !.nb = nb].type = a.type
           /\ [a EXCEPT !.due = FALSE, !.nb = nb].contact = a.contact
           /\ [a EXCEPT !.status = "inpoller"].type = a.type
           /\ [a EXCEPT !.status = "inpoller"].contact = a.contact
           /\ [a EXCEPT !.status = "scheduled"].type = a.type
           /\ [a EXCEPT !.status = "scheduled"].contact = a.contact
           /\ [a EXCEPT !.contact = c].type = a.type
           /\ [a EXCEPT !.contact = c].contact = c
  BY DEF Notification

\* A queue that has no more than another one had.
LEMMA FewerKeep ==
    ASSUME NEW q, NEW trouble, InSeries(q, trouble), NEW p,
           \A id \in ActionIds :
             /\ id \in p.in_progress <=> p.actions[id] # Absent
             /\ p.actions[id] # Absent =>
                  /\ q.actions[id] # Absent
                  /\ p.actions[id].type = q.actions[id].type
                  /\ p.actions[id].contact = q.actions[id].contact
    PROVE  InSeries(p, trouble)
<1>1. \A id \in ActionIds : p.actions[id].type = "PROBLEM" => p.actions[id] # Absent
  BY DEF Absent, None
<1> QED
  BY <1>1 DEF InSeries, Chief

\* Trouble that lasts, or a queue that is empty.
LEMMA TroubleLasts ==
    ASSUME NEW q, NEW trouble, NEW now,
           \/ InSeries(q, trouble) /\ (trouble => now)
           \/ Empty(q) /\ q.in_progress = {}
    PROVE  InSeries(q, now)
<1>1. Absent.type # "PROBLEM"
  BY DEF Absent, None
<1> QED
  BY <1>1 DEF InSeries, Empty

LEMMA AddIs ==
    ASSUME NEW q \in Queue, NEW a \in Notification, Free(q) # {},
           NEW p, p = add_Notification(q, a)
    PROVE  \E id \in ActionIds :
             /\ q.actions[id] = Absent
             /\ p \in Queue /\ p.actions[id] = a /\ p.in_progress = q.in_progress \cup {id}
             /\ \A k \in ActionIds \ {id} : p.actions[k] = q.actions[k]
<1> DEFINE id == Min(Free(q))
<1>1. id \in ActionIds /\ q.actions[id] = Absent
  <2>1. Free(q) \subseteq Nat
    BY NotificationAssumption DEF Free
  <2>2. id \in Free(q)
    BY <2>1, MinOfNats
  <2> QED
    BY <2>2 DEF Free, Live
<1>2. p = [q EXCEPT !.actions[id] = a, !.in_progress = @ \cup {id}]
  BY DEF add_Notification
<1> HIDE DEF id
<1>3. /\ q.actions \in [ActionIds -> Notification \cup {Absent}]
      /\ q.in_progress \subseteq ActionIds
  BY DEF Queue
<1>4. /\ p.actions = [q.actions EXCEPT ![id] = a]
      /\ p.in_progress = q.in_progress \cup {id}
  BY <1>2 DEF Queue
<1>5. /\ p.actions[id] = a
      /\ \A k \in ActionIds \ {id} : p.actions[k] = q.actions[k]
  BY ONLY <1>1, <1>3, <1>4
<1>6. /\ p.actions \in [ActionIds -> Notification \cup {Absent}]
      /\ p.in_progress \subseteq ActionIds
  BY ONLY <1>1, <1>3, <1>4, a \in Notification
<1>7. p = [q EXCEPT !.actions = p.actions, !.in_progress = p.in_progress]
  BY <1>2, <1>4 DEF Queue
<1>8. p \in Queue
  BY <1>6, <1>7 DEF Queue
<1> QED
  BY <1>1, <1>4, <1>5, <1>8

LEMMA AddKeeps ==
    ASSUME NEW q \in Queue, NEW trouble, InSeries(q, trouble), NEW a \in Notification,
           a.type = "PROBLEM" => trouble /\ (a.contact # Master \/ Empty(q)),
           NEW p, p = add_Notification(q, a)
    PROVE  p \in Queue /\ InSeries(p, trouble)
<1>1. CASE Free(q) = {}
  BY <1>1 DEF add_Notification
<1>2. CASE Free(q) # {}
  <2>1. PICK id \in ActionIds :
          /\ q.actions[id] = Absent
          /\ p \in Queue /\ p.actions[id] = a /\ p.in_progress = q.in_progress \cup {id}
          /\ \A k \in ActionIds \ {id} : p.actions[k] = q.actions[k]
    BY <1>2, AddIs
  <2>2. a # Absent
    BY NotAbsent
  <2>3. \A k \in ActionIds : k \in p.in_progress <=> p.actions[k] # Absent
    BY <2>1, <2>2 DEF InSeries
  <2>4. \A k \in ActionIds : p.actions[k].type = "PROBLEM" => trouble
    BY <2>1 DEF InSeries
  <2>5. ASSUME NEW j \in ActionIds, NEW k \in ActionIds, p.actions[j] # Absent, Chief(p, j),
               p.actions[k] # Absent, Chief(p, k)
        PROVE  j = k
    <3>1. CASE a.type = "PROBLEM" /\ a.contact = Master
      BY <2>1, <2>5, <3>1 DEF Empty
    <3>2. CASE ~(a.type = "PROBLEM" /\ a.contact = Master)
      <4>1. j # id /\ k # id
        BY <2>1, <2>5, <3>2 DEF Chief
      <4> QED
        BY <2>1, <2>5, <4>1 DEF InSeries, Chief
    <3> QED
      BY <3>1, <3>2
  <2> QED
    BY <2>1, <2>3, <2>4, <2>5 DEF InSeries
<1> QED
  BY <1>1, <1>2

LEMMA BuryKeeps ==
    ASSUME NEW q \in Queue, NEW trouble, InSeries(q, trouble), NEW id \in ActionIds,
           NEW p, p = Bury(remove_in_progress_notification(q, id), id)
    PROVE  p \in Queue /\ InSeries(p, trouble)
<1>1. CASE id \in q.in_progress
  <2>1. /\ p \in Queue /\ p.in_progress = q.in_progress \ {id}
        /\ p.actions[id] = Absent /\ \A k \in ActionIds \ {id} : p.actions[k] = q.actions[k]
    BY <1>1 DEF Queue, Bury, remove_in_progress_notification
  <2>2. \A k \in ActionIds : k \in q.in_progress <=> q.actions[k] # Absent
    BY DEF InSeries
  <2>3. \A k \in ActionIds :
          /\ k \in p.in_progress <=> p.actions[k] # Absent
          /\ p.actions[k] # Absent => p.actions[k] = q.actions[k]
    BY <2>1, <2>2
  <2>4. InSeries(p, trouble)
    BY <2>3, FewerKeep
  <2> QED
    BY <2>1, <2>4
<1>2. CASE id \notin q.in_progress
  <2>1. /\ p \in Queue /\ p.in_progress = q.in_progress
        /\ p.actions[id] = Absent /\ \A k \in ActionIds \ {id} : p.actions[k] = q.actions[k]
    BY <1>2 DEF Queue, Bury, remove_in_progress_notification
  <2>2. InSeries(p, trouble)
    BY <1>2, <2>1, FewerKeep DEF InSeries
  <2> QED
    BY <2>1, <2>2
<1> QED
  BY <1>1, <1>2

\* It is buried already.
LEMMA RemoveKeeps ==
    ASSUME NEW q \in Queue, NEW trouble, InSeries(q, trouble), NEW id \in ActionIds,
           NEW p, p = remove_in_progress_notification(q, id)
    PROVE  p \in Queue /\ InSeries(p, trouble)
<1>1. CASE id \in q.in_progress
  <2>1. /\ p \in Queue /\ p.in_progress = q.in_progress \ {id}
        /\ p.actions[id] = Absent /\ \A k \in ActionIds \ {id} : p.actions[k] = q.actions[k]
    BY <1>1 DEF Queue, Bury, remove_in_progress_notification
  <2>2. \A k \in ActionIds : k \in q.in_progress <=> q.actions[k] # Absent
    BY DEF InSeries
  <2>3. \A k \in ActionIds :
          /\ k \in p.in_progress <=> p.actions[k] # Absent
          /\ p.actions[k] # Absent => p.actions[k] = q.actions[k]
    BY <2>1, <2>2
  <2>4. InSeries(p, trouble)
    BY <2>3, FewerKeep
  <2> QED
    BY <2>1, <2>4
<1>2. CASE id \notin q.in_progress
  BY <1>2 DEF remove_in_progress_notification
<1> QED
  BY <1>1, <1>2

LEMMA RemoveAllType ==
    ASSUME NEW q \in Queue, NEW p, p = remove_in_progress_notifications(q)
    PROVE  /\ p \in Queue /\ p.in_progress = {}
           /\ \A id \in ActionIds : p.actions[id] = IF id \in q.in_progress THEN Absent
                                                    ELSE q.actions[id]
  BY DEF Queue, remove_in_progress_notifications

\* What is removed is all that lives.
LEMMA RemoveAllEmpties ==
    ASSUME NEW q \in Queue, NEW trouble, InSeries(q, trouble),
           NEW p, p = remove_in_progress_notifications(q)
    PROVE  p \in Queue /\ Empty(p) /\ p.in_progress = {}
<1>1. \A id \in ActionIds : id \notin q.in_progress => q.actions[id] = Absent
  BY DEF InSeries
<1> QED
  BY <1>1, RemoveAllType DEF Empty

\* What create_notifications does: nothing, or it adds a master, of a new series
\* if it is a RECOVERY.
LEMMA CreateIs ==
    ASSUME NEW q \in Queue, NEW r, NEW type \in Types, NEW flapping,
           NEW p, p = create_notifications(q, r, type, flapping)
    PROVE  \/ p = q
           \/ \E q1 \in Queue, a \in Notification :
                /\ p = add_Notification(q1, a)
                /\ a.type = type /\ a.contact = Master
                /\ q1.actions = q.actions /\ q1.in_progress = q.in_progress
<1> DEFINE q1 == IF type = "RECOVERY" THEN [q EXCEPT !.number = 0] ELSE q
           nb == IF type = "PROBLEM" THEN Capped(q1.number + 1) ELSE q1.number
           a == [type |-> type, contact |-> Master, status |-> "scheduled",
                 nb |-> nb, due |-> FALSE]
<1>1. p = q \/ p = add_Notification(q1, a)
  BY DEF create_notifications
<1>2. q1 \in Queue /\ q1.actions = q.actions /\ q1.in_progress = q.in_progress
  BY NotificationAssumption DEF Queue
<1> HIDE DEF q1
<1>3. nb \in 0..MaxNumber
  <2>1. q1.number \in 0..MaxNumber
    BY <1>2 DEF Queue
  <2>2. q1.number + 1 \in Nat
    BY <2>1
  <2> QED
    BY <2>1, <2>2, CappedType
<1> HIDE DEF nb
<1>4. a \in Notification /\ a.type = type /\ a.contact = Master
  BY <1>3 DEF Notification
<1> HIDE DEF a
<1> QED
  BY <1>1, <1>2, <1>4

LEMMA CreateType ==
    ASSUME NEW q \in Queue, NEW r, NEW type \in Types, NEW flapping,
           NEW p, p = create_notifications(q, r, type, flapping)
    PROVE  p \in Queue
<1>1. CASE p = q
  BY <1>1
<1>2. ASSUME NEW q1 \in Queue, NEW a \in Notification, p = add_Notification(q1, a)
      PROVE  p \in Queue
  <2>1. CASE Free(q1) = {}
    BY <1>2, <2>1 DEF add_Notification
  <2>2. CASE Free(q1) # {}
    BY <1>2, <2>2, AddIs
  <2> QED
    BY <2>1, <2>2
<1> QED
  BY <1>1, <1>2, CreateIs

LEMMA CreateKeeps ==
    ASSUME NEW q \in Queue, NEW trouble, InSeries(q, trouble), NEW type \in Types,
           type = "PROBLEM" => trouble /\ Empty(q), NEW r, NEW flapping,
           NEW p, p = create_notifications(q, r, type, flapping)
    PROVE  p \in Queue /\ InSeries(p, trouble)
<1>1. CASE p = q
  BY <1>1
<1>2. ASSUME NEW q1 \in Queue, NEW a \in Notification, p = add_Notification(q1, a),
             a.type = type, a.contact = Master,
             q1.actions = q.actions, q1.in_progress = q.in_progress
      PROVE  p \in Queue /\ InSeries(p, trouble)
  <2>1. InSeries(q1, trouble) /\ (Empty(q) => Empty(q1))
    BY <1>2 DEF InSeries, Chief, Empty
  <2>2. a.type = "PROBLEM" => trouble /\ (a.contact # Master \/ Empty(q1))
    BY <1>2, <2>1
  <2> QED
    BY <1>2, <2>1, <2>2, AddKeeps
<1> QED
  BY <1>1, <1>2, CreateIs

\* What consume_state_result asks for: nothing, or the notifications are removed, and
\* the contacts are told of the recovery, or of the problem.
LEMMA AskedIs ==
    ASSUME NEW q \in Queue, NEW r, NEW calls, NEW p, p = Asked(q, r, calls)
    PROVE  /\ calls \in Quiet => p = q
           /\ calls \in Recovered =>
                p \in {remove_in_progress_notifications(q),
                       create_notifications(remove_in_progress_notifications(q), r,
                                            "RECOVERY", is_flapping)}
           /\ calls \in Hardened =>
                p \in {remove_in_progress_notifications(q),
                       create_notifications(remove_in_progress_notifications(q), r,
                                            "PROBLEM", is_flapping)}
<1> DEFINE Does(s, call) ==
             CASE call = "remove" -> remove_in_progress_notifications(s)
               [] call \in {"PROBLEM", "RECOVERY"} ->
                     create_notifications(s, r, call, is_flapping)
               [] OTHER -> s
           G == [s \in Queue |-> [call \in Requests |-> Does(s, call)]]
<1>1. p = Through(G, q, calls)
  BY DEF Asked
<1>2. /\ \A s : Does(s, "remove") = remove_in_progress_notifications(s)
      /\ \A s : Does(s, "PROBLEM") = create_notifications(s, r, "PROBLEM", is_flapping)
      /\ \A s : Does(s, "RECOVERY") = create_notifications(s, r, "RECOVERY", is_flapping)
      /\ \A s : Does(s, "flexible") = s /\ Does(s, "handler") = s
  OBVIOUS
<1>3. ASSUME NEW s \in Queue, NEW call \in Requests PROVE Does(s, call) \in Queue
  <2>1. remove_in_progress_notifications(s) \in Queue
    BY RemoveAllType
  <2>2. \A type \in {"PROBLEM", "RECOVERY"} :
            create_notifications(s, r, type, is_flapping) \in Queue
    BY CreateType DEF Types
  <2> HIDE DEF Does
  <2> QED
    BY <1>2, <2>1, <2>2 DEF Requests
<1> HIDE DEF Does
<1>4. \A s \in Queue, call \in Requests :
          G[s][call] = Does(s, call) /\ G[s][call] \in Queue
  BY <1>3
<1> HIDE DEF G
<1>5. /\ "remove" \in Requests /\ "PROBLEM" \in Requests /\ "RECOVERY" \in Requests
      /\ "flexible" \in Requests /\ "handler" \in Requests
  BY DEF Requests
<1>6. ASSUME NEW seq \in Seq(Requests)
      PROVE  \E f : /\ f[0] = q /\ Through(G, q, seq) = f[Len(seq)]
                    /\ \A i \in 1..Len(seq) : f[i - 1] \in Queue
                                              => f[i] = Does(f[i - 1], seq[i])
  <2>1. PICK f : Leads(G, q, seq, f) /\ Through(G, q, seq) = f[Len(seq)]
    BY <1>4, ThroughIs
  <2>2. \A i \in 1..Len(seq) : seq[i] \in Requests /\ f[i] = G[f[i - 1]][seq[i]]
    BY <2>1 DEF Leads
  <2>3. f[0] = q
    BY <2>1 DEF Leads
  <2> QED
    BY <1>4, <2>1, <2>2, <2>3
<1> DEFINE none == remove_in_progress_notifications(q)
           recovery == create_notifications(none, r, "RECOVERY", is_flapping)
           problem == create_notifications(none, r, "PROBLEM", is_flapping)
<1>7. none \in Queue /\ recovery \in Queue /\ problem \in Queue
  <2>1. none \in Queue
    BY RemoveAllType
  <2> HIDE DEF none
  <2> QED
    BY <2>1, CreateType DEF Types
<1>8. /\ Does(q, "remove") = none /\ Does(q, "flexible") = q /\ Does(q, "handler") = q
      /\ Does(none, "RECOVERY") = recovery /\ Does(none, "PROBLEM") = problem
      /\ Does(none, "handler") = none /\ Does(recovery, "handler") = recovery
      /\ Does(problem, "handler") = problem
  BY <1>2
<1> HIDE DEF none, recovery, problem
<1>9. Through(G, q, <<>>) = q
  <2> DEFINE seq == <<>>
  <2>1. seq \in Seq(Requests) /\ Len(seq) = 0
    BY <1>5
  <2> HIDE DEF seq
  <2>2. PICK f : /\ f[0] = q /\ Through(G, q, seq) = f[Len(seq)]
                 /\ \A i \in 1..Len(seq) : f[i - 1] \in Queue
                                           => f[i] = Does(f[i - 1], seq[i])
    BY <1>6, <2>1
  <2> QED
    BY <2>1, <2>2 DEF seq
<1>10. Through(G, q, <<"handler">>) = q
  <2> DEFINE seq == <<"handler">>
  <2>1. seq \in Seq(Requests) /\ Len(seq) = 1
        /\ seq[1] = "handler"
    BY <1>5
  <2> HIDE DEF seq
  <2>2. PICK f : /\ f[0] = q /\ Through(G, q, seq) = f[Len(seq)]
                 /\ \A i \in 1..Len(seq) : f[i - 1] \in Queue
                                           => f[i] = Does(f[i - 1], seq[i])
    BY <1>6, <2>1
  <2>3. f[1] = q
    BY <1>7, <1>8, <2>1, <2>2
  <2> QED
    BY <2>1, <2>2, <2>3 DEF seq
<1>11. Through(G, q, <<"remove">>) = none
  <2> DEFINE seq == <<"remove">>
  <2>1. seq \in Seq(Requests) /\ Len(seq) = 1
        /\ seq[1] = "remove"
    BY <1>5
  <2> HIDE DEF seq
  <2>2. PICK f : /\ f[0] = q /\ Through(G, q, seq) = f[Len(seq)]
                 /\ \A i \in 1..Len(seq) : f[i - 1] \in Queue
                                           => f[i] = Does(f[i - 1], seq[i])
    BY <1>6, <2>1
  <2>3. f[1] = none
    BY <1>7, <1>8, <2>1, <2>2
  <2> QED
    BY <2>1, <2>2, <2>3 DEF seq
<1>12. Through(G, q, <<"remove", "handler">>) = none
  <2> DEFINE seq == <<"remove", "handler">>
  <2>1. seq \in Seq(Requests) /\ Len(seq) = 2
        /\ seq[1] = "remove" /\ seq[2] = "handler"
    BY <1>5
  <2> HIDE DEF seq
  <2>2. PICK f : /\ f[0] = q /\ Through(G, q, seq) = f[Len(seq)]
                 /\ \A i \in 1..Len(seq) : f[i - 1] \in Queue
                                           => f[i] = Does(f[i - 1], seq[i])
    BY <1>6, <2>1
  <2>3. f[1] = none
    BY <1>7, <1>8, <2>1, <2>2
  <2>4. f[2] = none
    BY <1>7, <1>8, <2>1, <2>2, <2>3
  <2> QED
    BY <2>1, <2>2, <2>4 DEF seq
<1>13. Through(G, q, <<"remove", "PROBLEM">>) = problem
  <2> DEFINE seq == <<"remove", "PROBLEM">>
  <2>1. seq \in Seq(Requests) /\ Len(seq) = 2
        /\ seq[1] = "remove" /\ seq[2] = "PROBLEM"
    BY <1>5
  <2> HIDE DEF seq
  <2>2. PICK f : /\ f[0] = q /\ Through(G, q, seq) = f[Len(seq)]
                 /\ \A i \in 1..Len(seq) : f[i - 1] \in Queue
                                           => f[i] = Does(f[i - 1], seq[i])
    BY <1>6, <2>1
  <2>3. f[1] = none
    BY <1>7, <1>8, <2>1, <2>2
  <2>4. f[2] = problem
    BY <1>7, <1>8, <2>1, <2>2, <2>3
  <2> QED
    BY <2>1, <2>2, <2>4 DEF seq
<1>14. Through(G, q, <<"remove", "RECOVERY", "handler">>) = recovery
  <2> DEFINE seq == <<"remove", "RECOVERY", "handler">>
  <2>1. seq \in Seq(Requests) /\ Len(seq) = 3
        /\ seq[1] = "remove" /\ seq[2] = "RECOVERY" /\ seq[3] = "handler"
    BY <1>5
  <2> HIDE DEF seq
  <2>2. PICK f : /\ f[0] = q /\ Through(G, q, seq) = f[Len(seq)]
                 /\ \A i \in 1..Len(seq) : f[i - 1] \in Queue
                                           => f[i] = Does(f[i - 1], seq[i])
    BY <1>6, <2>1
  <2>3. f[1] = none
    BY <1>7, <1>8, <2>1, <2>2
  <2>4. f[2] = recovery
    BY <1>7, <1>8, <2>1, <2>2, <2>3
  <2>5. f[3] = recovery
    BY <1>7, <1>8, <2>1, <2>2, <2>4
  <2> QED
    BY <2>1, <2>2, <2>5 DEF seq
<1>15. Through(G, q, <<"flexible", "remove", "handler">>) = none
  <2> DEFINE seq == <<"flexible", "remove", "handler">>
  <2>1. seq \in Seq(Requests) /\ Len(seq) = 3
        /\ seq[1] = "flexible" /\ seq[2] = "remove" /\ seq[3] = "handler"
    BY <1>5
  <2> HIDE DEF seq
  <2>2. PICK f : /\ f[0] = q /\ Through(G, q, seq) = f[Len(seq)]
                 /\ \A i \in 1..Len(seq) : f[i - 1] \in Queue
                                           => f[i] = Does(f[i - 1], seq[i])
    BY <1>6, <2>1
  <2>3. f[1] = q
    BY <1>7, <1>8, <2>1, <2>2
  <2>4. f[2] = none
    BY <1>7, <1>8, <2>1, <2>2, <2>3
  <2>5. f[3] = none
    BY <1>7, <1>8, <2>1, <2>2, <2>4
  <2> QED
    BY <2>1, <2>2, <2>5 DEF seq
<1>16. Through(G, q, <<"flexible", "remove", "PROBLEM", "handler">>) = problem
  <2> DEFINE seq == <<"flexible", "remove", "PROBLEM", "handler">>
  <2>1. seq \in Seq(Requests) /\ Len(seq) = 4
        /\ seq[1] = "flexible" /\ seq[2] = "remove" /\ seq[3] = "PROBLEM" /\ seq[4] = "handler"
    BY <1>5
  <2> HIDE DEF seq
  <2>2. PICK f : /\ f[0] = q /\ Through(G, q, seq) = f[Len(seq)]
                 /\ \A i \in 1..Len(seq) : f[i - 1] \in Queue
                                           => f[i] = Does(f[i - 1], seq[i])
    BY <1>6, <2>1
  <2>3. f[1] = q
    BY <1>7, <1>8, <2>1, <2>2
  <2>4. f[2] = none
    BY <1>7, <1>8, <2>1, <2>2, <2>3
  <2>5. f[3] = problem
    BY <1>7, <1>8, <2>1, <2>2, <2>4
  <2>6. f[4] = problem
    BY <1>7, <1>8, <2>1, <2>2, <2>5
  <2> QED
    BY <2>1, <2>2, <2>6 DEF seq
<1> QED
  BY <1>1, <1>9, <1>10, <1>11, <1>12, <1>13, <1>14, <1>15, <1>16
  DEF Quiet, Recovered, Hardened, none, recovery, problem

\* The children are added to the queue one after the other.
LEMMA ScatterKeeps ==
    ASSUME NEW q \in Queue, NEW trouble, InSeries(q, trouble), NEW a \in Notification,
           a.type = "PROBLEM" => trouble, NEW p, p = scatter_notification(q, a)
    PROVE  p \in Queue /\ InSeries(p, trouble)
<1> DEFINE again(c) == /\ a.type = "PROBLEM"
                       /\ notification_interval = 0
                       /\ c \in q.notified_contacts
           to == {c \in Recipients(q, a) : ~again(c) /\ c \in willing}
           q1 == IF a.type = "RECOVERY" THEN [q EXCEPT !.notified_contacts = {}] ELSE q
           G == [s \in Queue |-> [c \in Contact |->
                    add_Notification(s, [a EXCEPT !.contact = c])]]
           q2 == Through(G, q1, SetToSeq(to))
<1>1. p = [q2 EXCEPT
            !.notified_contacts = IF a.type = "PROBLEM" THEN @ \cup to ELSE @,
            !.number = IF a.type = "PROBLEM" /\ to # {} THEN a.nb ELSE @]
  BY DEF scatter_notification
<1>2. to \subseteq Contact /\ IsFiniteSet(to)
  <2>1. Recipients(q, a) \subseteq Contact
    BY NotificationAssumption DEF Queue, Recipients
  <2>2. to \subseteq Contact
    BY <2>1
  <2> HIDE DEF to
  <2> QED
    BY <2>2, NotificationAssumption, FS_Subset
<1> HIDE DEF to
<1>3. SetToSeq(to) \in Seq(Contact)
  <2>1. SetToSeq(to) \in Seq(to)
    BY <1>2, ListOfSet
  <2> DEFINE l == SetToSeq(to)
  <2> HIDE DEF l
  <2>2. l \in Seq(to) => l \in Seq(Contact)
    BY <1>2
  <2> QED
    BY <2>1, <2>2 DEF l
<1>4. q1 \in Queue /\ q1.actions = q.actions /\ q1.in_progress = q.in_progress
  BY DEF Queue
<1>5. InSeries(q1, trouble)
  BY <1>4 DEF InSeries, Chief
<1> HIDE DEF q1
<1>6. ASSUME NEW s \in Queue, NEW c \in Contact
      PROVE  /\ G[s][c] \in Queue
             /\ InSeries(s, trouble) => InSeries(G[s][c], trouble)
  <2> DEFINE child == [a EXCEPT !.contact = c]
  <2>1. child \in Notification /\ child.type = a.type /\ child.contact = c
    BY DEF Notification
  <2>2. G[s][c] = add_Notification(s, child)
    OBVIOUS
  <2> HIDE DEF child
  <2>3. add_Notification(s, child) \in Queue
    BY <2>1, AddIs DEF add_Notification
  <2>4. child.contact # Master
    BY <2>1, NotificationAssumption
  <2>5. InSeries(s, trouble) => InSeries(add_Notification(s, child), trouble)
    BY <2>1, <2>4, AddKeeps
  <2> QED
    BY <2>2, <2>3, <2>5
<1> HIDE DEF G
<1>7. q2 \in Queue /\ InSeries(q2, trouble)
  <2> DEFINE P == {s \in Queue : InSeries(s, trouble)}
             l == SetToSeq(to)
  <2>1. \A s \in Queue, c \in Contact : G[s][c] \in Queue
    BY <1>6
  <2>2. q1 \in P
    BY <1>4, <1>5
  <2>3. l \in Seq(Contact)
    BY <1>3
  <2> HIDE DEF l
  <2>4. \A i \in 1..Len(l), s \in Queue : s \in P => G[s][l[i]] \in P
    <3> SUFFICES ASSUME NEW i \in 1..Len(l), NEW s \in Queue, s \in P
                 PROVE  G[s][l[i]] \in P
      OBVIOUS
    <3>1. l[i] \in Contact
      BY <2>3
    <3> QED
      BY <1>6, <3>1
  <2> HIDE DEF P
  <2>5. Through(G, q1, l) \in P
    BY <1>4, <2>1, <2>2, <2>3, <2>4, ThroughKeeps
  <2> QED
    BY <2>5 DEF P, l
<1> HIDE DEF q2
<1>8. /\ p \in Queue /\ p.actions = q2.actions /\ p.in_progress = q2.in_progress
  BY <1>1, <1>2, <1>7 DEF Queue, Notification
<1> QED
  BY <1>7, <1>8 DEF InSeries, Chief

LEMMA HandledKeeps ==
    ASSUME NEW q \in Queue, NEW trouble, InSeries(q, trouble), NEW id \in ActionIds,
           NEW p, p = Handled(q, id)
    PROVE  p \in Queue /\ InSeries(p, trouble)
<1>1. CASE q.actions[id].type = "PROBLEM" /\ notification_interval # 0
  <2> DEFINE nb == Capped(q.number + 1)
             a == [q.actions[id] EXCEPT !.due = FALSE, !.nb = nb]
  <2>1. q.actions[id] \in Notification
    BY <1>1, NotAbsent DEF Types
  <2>2. nb \in 0..MaxNumber
    <3>1. q.number + 1 \in Nat
      BY DEF Queue
    <3> QED
      BY <3>1, CappedType
  <2> HIDE DEF nb
  <2>3. a \in Notification /\ a.type = q.actions[id].type
        /\ a.contact = q.actions[id].contact
    BY <2>1, <2>2 DEF Notification
  <2>4. p = [q EXCEPT !.actions[id] = a]
    BY <1>1 DEF Handled, Queue, nb
  <2> HIDE DEF a
  <2>5. /\ p \in Queue /\ p.actions[id] = a /\ p.in_progress = q.in_progress
        /\ \A k \in ActionIds \ {id} : p.actions[k] = q.actions[k]
    BY <2>3, <2>4 DEF Queue
  <2>6. a # Absent /\ q.actions[id] # Absent
    BY <2>1, <2>3, NotAbsent
  <2>7. \A k \in ActionIds : k \in q.in_progress <=> q.actions[k] # Absent
    BY DEF InSeries
  <2>8. \A k \in ActionIds :
          /\ k \in p.in_progress <=> p.actions[k] # Absent
          /\ p.actions[k] # Absent =>
               /\ q.actions[k] # Absent
               /\ p.actions[k].type = q.actions[k].type
               /\ p.actions[k].contact = q.actions[k].contact
    BY <2>3, <2>5, <2>6, <2>7
  <2>9. InSeries(p, trouble)
    BY <2>8, FewerKeep
  <2> QED
    BY <2>5, <2>9
<1>2. CASE p = remove_in_progress_notification(q, id)
  BY <1>2, RemoveKeeps
<1> QED
  BY <1>1, <1>2 DEF Handled

LEMMA ScatterOneKeeps ==
    ASSUME NEW q \in Queue, NEW trouble, InSeries(q, trouble), NEW id \in ActionIds,
           NEW p, p = ScatterOne(q, id)
    PROVE  p \in Queue /\ InSeries(p, trouble)
<1>1. CASE ~IsDueMaster(q, id)
  BY <1>1 DEF ScatterOne
<1>2. CASE IsDueMaster(q, id)
  <2> DEFINE a == q.actions[id]
             s == IF notification_is_blocked_by_item(item[It], a.type, is_flapping)
                  THEN q ELSE scatter_notification(q, a)
  <2>1. a \in Notification /\ (a.type = "PROBLEM" => trouble)
    BY <1>2, NotAbsent DEF IsDueMaster, InSeries
  <2>2. p = Handled(s, id)
    BY <1>2 DEF ScatterOne
  <2> HIDE DEF a
  <2>3. s \in Queue /\ InSeries(s, trouble)
    BY <2>1, ScatterKeeps
  <2> HIDE DEF s
  <2> QED
    BY <2>2, <2>3, HandledKeeps
<1> QED
  BY <1>1, <1>2

LEMMA MastersKeep ==
    ASSUME NEW q \in Queue, NEW trouble, InSeries(q, trouble), NEW due \in SUBSET ActionIds,
           NEW p,
           p = Through([s \in Queue |-> [id \in ActionIds |-> ScatterOne(s, id)]],
                       q, SetToSeq(due))
    PROVE  p \in Queue /\ InSeries(p, trouble)
<1> DEFINE G == [s \in Queue |-> [id \in ActionIds |-> ScatterOne(s, id)]]
           l == SetToSeq(due)
           P == {s \in Queue : InSeries(s, trouble)}
<1>1. l \in Seq(ActionIds)
  <2>1. IsFiniteSet(due)
    BY NotificationAssumption, FS_Subset
  <2>2. l \in Seq(due)
    BY <2>1, ListOfSet
  <2> HIDE DEF l
  <2> QED
    BY <2>2
<1>2. p = Through(G, q, l)
  OBVIOUS
<1> HIDE DEF l
<1>3. \A s \in Queue, id \in ActionIds : G[s][id] = ScatterOne(s, id)
  OBVIOUS
<1> HIDE DEF G
<1>4. q \in P
  OBVIOUS
<1>5. \A s \in P, id \in ActionIds : G[s][id] \in P
  BY <1>3, ScatterOneKeeps
<1>6. \A i \in 1..Len(l) : l[i] \in ActionIds
  BY <1>1
<1> HIDE DEF P
<1>7. Through(G, q, l) \in P
  <2>1. \A i \in 1..Len(l), s \in P : s \in P => G[s][l[i]] \in P
    BY <1>5, <1>6
  <2> QED
    BY <1>1, <1>4, <1>5, <2>1, ThroughKeeps
<1> QED
  BY <1>2, <1>7 DEF P

-----------------------------------------------------------------------------
(* Notifications: the inductive invariant.                                 *)

RestOfTypes ==
    /\ taken \subseteq [id : ActionIds, type : Types, contact : Contact]
    /\ in_downtime \in BOOLEAN /\ after_downtime \in BOOLEAN
    /\ is_flapping \in BOOLEAN /\ open \in BOOLEAN
    /\ willing \subseteq Contact /\ heard \subseteq Contact

InvQ ==
    /\ IInv /\ told = [i \in Watched |-> None]
    /\ RestOfTypes
    /\ queue \in Queue /\ InSeries(queue, InTrouble)

InvN == InvQ /\ left \in 0..MaxEvents

\* The item, as the actions of the queue leave it.
LEMMA SameItemKeeps ==
    ASSUME InvQ, UNCHANGED vars
    PROVE  /\ IInv' /\ told' = [i \in Watched |-> None]
           /\ InTrouble' = InTrouble
<1>1. IInv'
  BY InvNext DEF InvQ
<1> QED
  BY <1>1 DEF InvQ, InTrouble, vars

\* Contacts are told of nothing in told, so nothing is remembered.
LEMMA NothingTold ==
    ASSUME NEW w, NEW i \in Watched
    PROVE  Remembers([j \in Watched |-> None][i], w[i], i)
  BY DEF Remembers

LEMMA StatesNeverChange ==
    ASSUME IInv
    PROVE  enable_problem_impacts_states_change = FALSE
  BY NotificationAssumption DEF IInv, TypeInv

\* A result and its requests.
LEMMA ResultKeeps ==
    ASSUME InvQ, NEW status, ConsumeResult(status)
    PROVE  InvQ'
<1> DEFINE r == consume_state_result(item, It, status, FALSE, after_downtime)
           bad == InTrouble'
<1>1. /\ item' = r.w /\ told' = told
      /\ queue' = Asked(queue, r.w[It], r.calls) /\ after_downtime' = FALSE
      /\ UNCHANGED <<valid, enable_problem_impacts_states_change, taken,
                     in_downtime, is_flapping, open, willing, heard>>
  BY DEF ConsumeResult
<1>2. Sound(item) /\ It \in Items /\ ~enable_problem_impacts_states_change
      /\ \A j \in Items : Fits(item[j], j)
  BY StatesNeverChange, NotificationAssumption DEF InvQ, IInv, OwnInv
<1>3. /\ Led(item, r.w, It)
      /\ Judged(item[It], r.w[It], r.calls, It, LastState(item, It), after_downtime)
  BY <1>2, ConsumeLeads
<1> HIDE DEF r
<1>4. /\ item[It] \in Attributes /\ item[It].state \in Kind(It)
      /\ Judged(item[It], item'[It], r.calls, It, item[It].state, after_downtime)
  BY <1>1, <1>2, <1>3, SoundIs DEF LastState
<1>5. Fits(item'[It], It)
  BY <1>2, <1>4, JudgedFits
<1>6. \A j \in Items \ {It} : Fits(item'[j], j)
  <2>1. \A j \in Items \ {It} : /\ SameOwn(item[j], item'[j])
                                /\ item'[j].is_problem => item[j].is_problem
    BY <1>1, <1>3 DEF Led
  <2> QED
    BY <1>2, <2>1, FitsStays
<1>7. Sound(item')
  BY <1>1, <1>3 DEF Led
<1>8. IInv'
  <2>1. (Sound(item))'
    BY <1>7 DEF Sound, Typed, Related, Mutuals, Sources, Flags, World, Attributes, Kind
  <2>2. TypeInv'
    BY <1>1 DEF InvQ, IInv, TypeInv
  <2>3. OwnInv'
    BY <1>5, <1>6 DEF OwnInv, Fits
  <2>4. told' = [i \in Watched |-> None]
    BY <1>1 DEF InvQ
  <2>5. ToldInv'
    BY <2>4, NothingTold DEF ToldInv, Remembers
  <2> QED
    BY <2>1, <2>2, <2>3, <2>5 DEF IInv
<1>9. \/ /\ r.calls \in Quiet
         /\ item[It].state \in Bad(It) /\ item[It].state_type = "HARD"
              => item'[It].state \in Bad(It) /\ item'[It].state_type = "HARD"
      \/ r.calls \in Recovered /\ item'[It].state \in Fine
      \/ /\ r.calls \in Hardened
         /\ item'[It].state \in Bad(It) /\ item'[It].state_type = "HARD"
  BY <1>2, <1>4, JudgedRequests
<1>10. /\ InTrouble <=> item[It].state \in Bad(It) /\ item[It].state_type = "HARD"
       /\ item'[It].state \in Bad(It) /\ item'[It].state_type = "HARD" => bad
  BY <1>2, <1>4, StatesOfKind DEF InTrouble
<1>11. queue \in Queue /\ InSeries(queue, InTrouble)
  BY DEF InvQ
<1> HIDE DEF bad
<1> DEFINE none == remove_in_progress_notifications(queue)
<1>12. none \in Queue /\ Empty(none) /\ InSeries(none, bad)
  <2>1. none \in Queue /\ Empty(none) /\ none.in_progress = {}
    BY <1>11, RemoveAllEmpties
  <2> HIDE DEF none
  <2>2. InSeries(none, bad)
    BY <2>1, TroubleLasts
  <2> QED
    BY <2>1, <2>2
<1> HIDE DEF none
<1>13. queue' \in Queue /\ InSeries(queue', bad)
  <2>1. CASE r.calls \in Quiet /\ (InTrouble => bad)
    <3>1. queue' = queue
      BY <1>1, <1>11, <2>1, AskedIs
    <3> QED
      BY <1>11, <2>1, <3>1, TroubleLasts
  <2>2. CASE r.calls \in Recovered
    <3>1. queue' \in {none, create_notifications(none, r.w[It], "RECOVERY", is_flapping)}
      BY <1>1, <1>11, <2>2, AskedIs DEF none
    <3> QED
      BY <1>12, <3>1, CreateKeeps DEF Types
  <2>3. CASE r.calls \in Hardened /\ bad
    <3>1. queue' \in {none, create_notifications(none, r.w[It], "PROBLEM", is_flapping)}
      BY <1>1, <1>11, <2>3, AskedIs DEF none
    <3> QED
      BY <1>12, <2>3, <3>1, CreateKeeps DEF Types
  <2> QED
    BY <1>9, <1>10, <2>1, <2>2, <2>3
<1>14. queue' \in Queue /\ (InSeries(queue, InTrouble))'
  BY <1>13 DEF bad, InSeries, Chief
<1>15. RestOfTypes'
  BY <1>1 DEF InvQ, RestOfTypes
<1>16. told' = [i \in Watched |-> None]
  BY <1>1 DEF InvQ
<1> QED
  BY <1>8, <1>14, <1>15, <1>16 DEF InvQ, Queue, Notification

\* A step that leaves the item as troubled as it was.
LEMMA QueueKeeps ==
    ASSUME InvQ, IInv', told' = [i \in Watched |-> None], InTrouble' = InTrouble,
           RestOfTypes', queue' \in Queue, InSeries(queue', InTrouble)
    PROVE  InvQ'
<1>1. (InSeries(queue, InTrouble))'
  <2> DEFINE bad == InTrouble
             now == InTrouble'
  <2>1. InSeries(queue', bad) /\ now = bad
    OBVIOUS
  <2> HIDE DEF bad, now
  <2>2. InSeries(queue', now)
    BY <2>1
  <2> QED
    BY <2>2 DEF now, InSeries, Chief
<1> QED
  BY <1>1 DEF InvQ, Queue, Notification

LEMMA TroubleOf ==
    ASSUME UNCHANGED <<item[It].state, item[It].state_type>>
    PROVE  InTrouble' = InTrouble
  BY DEF InTrouble

\* An acknowledgement that starts, or ends.
LEMMA AckKeepsN ==
    ASSUME InvQ, NEW ack \in {None, "normal", "sticky"},
           ack # None => item[It].state \notin Fine,
           item' = [item EXCEPT ![It].ack = ack],
           UNCHANGED <<enable_problem_impacts_states_change, valid, told>>
    PROVE  IInv' /\ told' = [i \in Watched |-> None] /\ InTrouble' = InTrouble
<1>1. It \in Items /\ IInv /\ item \in World
  BY NotificationAssumption DEF InvQ, IInv, Sound, Typed
<1>2. IInv'
  BY <1>1, AckKeeps
<1>3. UNCHANGED <<item[It].state, item[It].state_type>>
  BY <1>1 DEF World, Attributes
<1> QED
  BY <1>2, <1>3, TroubleOf DEF InvQ

LEMMA EventKeeps ==
    ASSUME InvQ, Event
    PROVE  InvQ'
<1>0. /\ queue \in Queue /\ InSeries(queue, InTrouble) /\ RestOfTypes
      /\ told = [i \in Watched |-> None]
  BY DEF InvQ
<1>1. ASSUME Unacknowledge PROVE InvQ'
  <2>1. /\ item' = [item EXCEPT ![It].ack = None] /\ None \in {None, "normal", "sticky"}
        /\ UNCHANGED <<enable_problem_impacts_states_change, valid, told>>
        /\ UNCHANGED <<queueVars, envVars, heard>>
    BY <1>1 DEF Unacknowledge, RemoveAcknowledgement, unacknowledge_problem
  <2>2. IInv' /\ told' = [i \in Watched |-> None] /\ InTrouble' = InTrouble
    BY <2>1, AckKeepsN
  <2>3. RestOfTypes' /\ queue' = queue
    BY <1>0, <2>1 DEF RestOfTypes, queueVars, envVars
  <2> QED
    BY <1>0, <2>2, <2>3, QueueKeeps
<1>2. ASSUME NEW sticky \in BOOLEAN, Acknowledge(sticky) PROVE InvQ'
  <2> DEFINE ack == IF sticky THEN "sticky" ELSE "normal"
  <2>1. /\ item' = [item EXCEPT ![It].ack = ack] /\ item[It].state \notin Fine
        /\ ack \in {None, "normal", "sticky"}
        /\ UNCHANGED <<enable_problem_impacts_states_change, valid, told>>
        /\ UNCHANGED <<taken, envVars, heard>>
        /\ queue' = create_notifications(queue, item[It], "ACKNOWLEDGEMENT", is_flapping)
    BY <1>2 DEF Acknowledge, acknowledge_problem
  <2> HIDE DEF ack
  <2>2. IInv' /\ told' = [i \in Watched |-> None] /\ InTrouble' = InTrouble
    BY <2>1, AckKeepsN
  <2>3. RestOfTypes'
    BY <1>0, <2>1 DEF RestOfTypes, envVars
  <2>4. queue' \in Queue /\ InSeries(queue', InTrouble)
    BY <1>0, <2>1, CreateKeeps DEF Types
  <2> QED
    BY <2>2, <2>3, <2>4, QueueKeeps
<1>3. ASSUME EnterDowntime PROVE InvQ'
  <2>1. RestOfTypes' /\ UNCHANGED vars
    BY <1>0, <1>3 DEF RestOfTypes, EnterDowntime
  <2>2. queue' = create_notifications(queue, item[It], "DOWNTIMESTART", is_flapping)
    BY <1>3 DEF EnterDowntime
  <2>3. queue' \in Queue /\ InSeries(queue', InTrouble)
    BY <1>0, <2>2, CreateKeeps DEF Types
  <2> QED
    BY <2>1, <2>3, SameItemKeeps, QueueKeeps
<1>4. ASSUME Flapping PROVE InvQ'
  <2> DEFINE none == remove_in_progress_notifications(queue)
             type == IF is_flapping THEN "FLAPPINGSTOP" ELSE "FLAPPINGSTART"
  <2>1. RestOfTypes' /\ UNCHANGED vars
    BY <1>0, <1>4 DEF RestOfTypes, Flapping
  <2>2. queue' = create_notifications(none, item[It], type, ~is_flapping)
    BY <1>4 DEF Flapping
  <2>3. type \in Types /\ type # "PROBLEM"
    BY DEF Types
  <2>4. none \in Queue /\ Empty(none) /\ none.in_progress = {}
    BY <1>0, RemoveAllEmpties
  <2> HIDE DEF none, type
  <2>5. InSeries(none, InTrouble)
    BY <2>4, TroubleLasts
  <2>6. queue' \in Queue /\ InSeries(queue', InTrouble)
    BY <2>2, <2>3, <2>4, <2>5, CreateKeeps
  <2> QED
    BY <2>1, <2>6, SameItemKeeps, QueueKeeps
<1>5. ASSUME OpenOrClose \/ \E c \in Picky : ContactChanges(c),
             "period" \in Kinds
      PROVE  InvQ'
  <2>1. UNCHANGED vars /\ queue' = queue
    BY <1>5 DEF OpenOrClose, ContactChanges, queueVars
  <2>2. RestOfTypes'
    <3>1. CASE OpenOrClose
      BY <1>0, <3>1 DEF RestOfTypes, OpenOrClose, queueVars
    <3>2. ASSUME NEW c \in Picky, ContactChanges(c) PROVE RestOfTypes'
      <4>1. willing' \subseteq Contact
        BY <1>0, <3>2, NotificationAssumption DEF RestOfTypes, ContactChanges
      <4> QED
        BY <1>0, <3>2, <4>1 DEF RestOfTypes, ContactChanges, queueVars
    <3> QED
      BY <1>5, <3>1, <3>2
  <2> QED
    BY <1>0, <2>1, <2>2, SameItemKeeps, QueueKeeps
<1>6. ASSUME ReactionnerStops PROVE InvQ'
  <2>1. RestOfTypes' /\ UNCHANGED vars /\ queue' = queue
    BY <1>0, <1>6 DEF RestOfTypes, ReactionnerStops, envVars
  <2> QED
    BY <1>0, <2>1, SameItemKeeps, QueueKeeps
<1>7. ASSUME NEW id \in ActionIds, clean_queues(id) PROVE InvQ'
  <2>1. RestOfTypes' /\ UNCHANGED vars
        /\ queue' = Bury(remove_in_progress_notification(queue, id), id)
    BY <1>0, <1>7 DEF RestOfTypes, clean_queues, envVars
  <2>2. queue' \in Queue /\ InSeries(queue', InTrouble)
    BY <1>0, <2>1, BuryKeeps
  <2> QED
    BY <2>1, <2>2, SameItemKeeps, QueueKeeps
<1>8. ASSUME RestartN PROVE InvQ'
  <2>1. /\ Restart /\ UNCHANGED enable_problem_impacts_states_change
        /\ UNCHANGED <<taken, envVars, heard>> /\ UNCHANGED told
        /\ queue' = [queue EXCEPT !.actions =
                [id \in ActionIds |-> IF id \in queue.in_progress THEN @[id] ELSE Absent]]
    BY <1>8 DEF RestartN, Restart
  <2>2. IInv'
    <3>1. Next
      BY <2>1 DEF Next, Step
    <3> QED
      BY <3>1, InvNext DEF InvQ
  <2>3. InTrouble' = InTrouble
    <3>1. ~enable_problem_impacts_states_change /\ It \in Items
      BY StatesNeverChange, NotificationAssumption DEF InvQ
    <3>2. item' = [i \in Items |-> Restored(i)]
      BY <2>1, <3>1 DEF Restart
    <3>3. UNCHANGED <<item[It].state, item[It].state_type>>
      BY <3>1, <3>2 DEF Restored, Pending
    <3> QED
      BY <3>3, TroubleOf
  <2>4. queue' = queue
    <3>1. \A id \in ActionIds : id \in queue.in_progress <=> queue.actions[id] # Absent
      BY <1>0 DEF InSeries
    <3>2. [id \in ActionIds |-> IF id \in queue.in_progress THEN queue.actions[id]
                                ELSE Absent] = queue.actions
      BY <1>0, <3>1 DEF Queue
    <3>3. queue' = [queue EXCEPT !.actions = queue.actions]
      BY <2>1, <3>2
    <3> QED
      BY <1>0, <3>3 DEF Queue
  <2>5. RestOfTypes'
    BY <1>0, <2>1 DEF RestOfTypes, envVars
  <2> QED
    BY <1>0, <2>1, <2>2, <2>3, <2>4, <2>5, QueueKeeps
<1> QED
  BY <1>1, <1>2, <1>3, <1>4, <1>5, <1>6, <1>7, <1>8 DEF Event

\* From q to p, the notifications of ids are changed where they are.
Edited(q, p, ids, F) ==
    /\ p = [q EXCEPT !.actions =
              [id \in ActionIds |-> IF id \in ids THEN F[id] ELSE @[id]]]
    /\ \A id \in ids : /\ F[id] \in Notification /\ q.actions[id] \in Notification
                       /\ F[id].type = q.actions[id].type
                       /\ F[id].contact = q.actions[id].contact

LEMMA EditedKeeps ==
    ASSUME NEW q \in Queue, NEW trouble, InSeries(q, trouble),
           NEW ids \in SUBSET ActionIds, NEW F, NEW p, Edited(q, p, ids, F)
    PROVE  p \in Queue /\ InSeries(p, trouble)
<1> DEFINE f == [id \in ActionIds |-> IF id \in ids THEN F[id] ELSE q.actions[id]]
<1>1. f \in [ActionIds -> Notification \cup {Absent}]
  BY DEF Queue, Edited
<1>2. \A id \in ActionIds : f[id] = IF id \in ids THEN F[id] ELSE q.actions[id]
  OBVIOUS
<1>3. p = [q EXCEPT !.actions = f]
  BY DEF Edited
<1> HIDE DEF f
<1>4. p \in Queue /\ p.actions = f /\ p.in_progress = q.in_progress
  BY <1>1, <1>3 DEF Queue
<1>5. \A a \in Notification : a # Absent
  BY NotAbsent
<1>6. \A id \in ActionIds : id \in q.in_progress <=> q.actions[id] # Absent
  BY DEF InSeries
<1>7. \A id \in ids : /\ F[id] \in Notification /\ q.actions[id] \in Notification
                     /\ F[id].type = q.actions[id].type
                     /\ F[id].contact = q.actions[id].contact
  BY DEF Edited
<1>8. \A id \in ActionIds :
        /\ id \in p.in_progress <=> p.actions[id] # Absent
        /\ p.actions[id] # Absent =>
             /\ q.actions[id] # Absent
             /\ p.actions[id].type = q.actions[id].type
             /\ p.actions[id].contact = q.actions[id].contact
  BY <1>2, <1>4, <1>5, <1>6, <1>7
<1> QED
  BY <1>4, <1>8, FewerKeep

LEMMA ServeKeeps ==
    ASSUME InvQ, Serve
    PROVE  InvQ'
<1>0. /\ queue \in Queue /\ InSeries(queue, InTrouble) /\ RestOfTypes
      /\ \A id \in ActionIds : id \in queue.in_progress <=> queue.actions[id] # Absent
  BY DEF InvQ, InSeries
<1>1. ASSUME scatter_master_notifications PROVE InvQ'
  <2> DEFINE due == {id \in ActionIds : IsDueMaster(queue, id)}
  <2>1. /\ RestOfTypes' /\ UNCHANGED vars
        /\ queue' = Through([q \in Queue |-> [id \in ActionIds |-> ScatterOne(q, id)]],
                            queue, SetToSeq(due))
    BY <1>0, <1>1 DEF RestOfTypes, scatter_master_notifications, envVars
  <2>2. due \in SUBSET ActionIds
    OBVIOUS
  <2> HIDE DEF due
  <2>3. queue' \in Queue /\ InSeries(queue', InTrouble)
    BY <1>0, <2>1, <2>2, MastersKeep
  <2> QED
    BY <2>1, <2>3, SameItemKeeps, QueueKeeps
<1>2. ASSUME NEW ids \in SUBSET Sleeping, Due(ids) PROVE InvQ'
  <2> DEFINE F == [id \in ActionIds |-> [queue.actions[id] EXCEPT !.due = TRUE]]
  <2>1. /\ RestOfTypes' /\ UNCHANGED vars
        /\ queue' = [queue EXCEPT !.actions =
                 [id \in ActionIds |-> IF id \in ids THEN [@[id] EXCEPT !.due = TRUE]
                                 ELSE @[id]]]
    BY <1>0, <1>2 DEF RestOfTypes, Due, envVars
  <2>2. ids \in SUBSET ActionIds
    BY DEF Sleeping, Live
  <2>3. \A id \in ids : /\ queue.actions[id] \in Notification
                        /\ F[id] = [queue.actions[id] EXCEPT !.due = TRUE]
    BY <1>0, <2>2 DEF Sleeping, Live, Queue
  <2>4. queue' = [queue EXCEPT !.actions =
                 [id \in ActionIds |-> IF id \in ids THEN F[id] ELSE @[id]]]
    BY <2>1
  <2> HIDE DEF F
  <2>5. \A id \in ids : /\ F[id] \in Notification
                        /\ F[id].type = queue.actions[id].type
                        /\ F[id].contact = queue.actions[id].contact
    BY <2>3 DEF Notification
  <2>6. Edited(queue, queue', ids, F)
    BY <2>3, <2>4, <2>5 DEF Edited
  <2>7. queue' \in Queue /\ InSeries(queue', InTrouble)
    BY <1>0, <2>2, <2>6, EditedKeeps
  <2> QED
    BY <2>1, <2>7, SameItemKeeps, QueueKeeps
<1>3. ASSUME GetActions PROVE InvQ'
  <2> DEFINE F == [id \in ActionIds |-> [queue.actions[id] EXCEPT !.status = "inpoller"]]
             ids == {id \in ActionIds : /\ queue.actions[id] # Absent
                               /\ queue.actions[id].contact # Master
                               /\ queue.actions[id].status = "scheduled"
                               /\ queue.actions[id].due}
  <2>1. /\ UNCHANGED <<vars, envVars, heard>>
        /\ queue' = [queue EXCEPT !.actions =
                 [id \in ActionIds |-> IF id \in ids THEN [@[id] EXCEPT !.status = "inpoller"]
                                 ELSE @[id]]]
        /\ taken' = taken \cup
            {[id |-> id, type |-> queue.actions[id].type,
              contact |-> queue.actions[id].contact] : id \in ids}
    BY <1>3 DEF GetActions
  <2>2. ids \in SUBSET ActionIds
    OBVIOUS
  <2>3. \A id \in ids : /\ queue.actions[id] \in Notification
                        /\ queue.actions[id].contact # Master
                        /\ F[id] = [queue.actions[id] EXCEPT !.status = "inpoller"]
    BY <1>0 DEF Queue
  <2>4. queue' = [queue EXCEPT !.actions =
                 [id \in ActionIds |-> IF id \in ids THEN F[id] ELSE @[id]]]
    BY <2>1
  <2> HIDE DEF F, ids
  <2>5. \A id \in ids : /\ F[id] \in Notification
                        /\ F[id].type = queue.actions[id].type
                        /\ F[id].contact = queue.actions[id].contact
    BY <2>3 DEF Notification
  <2>6. \A id \in ids : queue.actions[id].type \in Types /\ queue.actions[id].contact \in Contact
    BY <2>3 DEF Notification
  <2>7. RestOfTypes' /\ UNCHANGED vars
    BY <1>0, <2>1, <2>2, <2>6 DEF RestOfTypes, envVars
  <2>8. Edited(queue, queue', ids, F)
    BY <2>3, <2>4, <2>5 DEF Edited
  <2>9. queue' \in Queue /\ InSeries(queue', InTrouble)
    BY <1>0, <2>2, <2>8, EditedKeeps
  <2> QED
    BY <2>7, <2>9, SameItemKeeps, QueueKeeps
<1>4. ASSUME NEW ids \in SUBSET InPoller, check_orphaned(ids) PROVE InvQ'
  <2> DEFINE F == [id \in ActionIds |-> [queue.actions[id] EXCEPT !.status = "scheduled"]]
  <2>1. /\ RestOfTypes' /\ UNCHANGED vars
        /\ queue' = [queue EXCEPT !.actions =
                 [id \in ActionIds |-> IF id \in ids THEN [@[id] EXCEPT !.status = "scheduled"]
                                 ELSE @[id]]]
    BY <1>0, <1>4 DEF RestOfTypes, check_orphaned, envVars
  <2>2. ids \in SUBSET ActionIds
    BY DEF InPoller, Live
  <2>3. \A id \in ids : /\ queue.actions[id] \in Notification
                        /\ F[id] = [queue.actions[id] EXCEPT !.status = "scheduled"]
    BY <1>0, <2>2 DEF InPoller, Live, Queue
  <2>4. queue' = [queue EXCEPT !.actions =
                 [id \in ActionIds |-> IF id \in ids THEN F[id] ELSE @[id]]]
    BY <2>1
  <2> HIDE DEF F
  <2>5. \A id \in ids : /\ F[id] \in Notification
                        /\ F[id].type = queue.actions[id].type
                        /\ F[id].contact = queue.actions[id].contact
    BY <2>3 DEF Notification
  <2>6. Edited(queue, queue', ids, F)
    BY <2>3, <2>4, <2>5 DEF Edited
  <2>7. queue' \in Queue /\ InSeries(queue', InTrouble)
    BY <1>0, <2>2, <2>6, EditedKeeps
  <2> QED
    BY <2>1, <2>7, SameItemKeeps, QueueKeeps
<1>5. ASSUME NEW t \in taken, put_results(t) PROVE InvQ'
  <2>1. t.id \in ActionIds /\ t.contact \in Contact
    BY <1>0 DEF RestOfTypes
  <2>2. /\ UNCHANGED <<vars, envVars>> /\ taken' = taken \ {t}
        /\ heard' = CASE t.type = "PROBLEM" -> heard \cup {t.contact}
                      [] t.type = "RECOVERY" -> heard \ {t.contact}
                      [] OTHER -> heard
        /\ \/ queue' = queue
           \/ queue' = Bury(remove_in_progress_notification(queue, t.id), t.id)
    BY <1>5 DEF put_results
  <2>3. RestOfTypes' /\ UNCHANGED vars
    BY <1>0, <2>1, <2>2 DEF RestOfTypes, envVars
  <2>4. queue' \in Queue /\ InSeries(queue', InTrouble)
    <3>1. CASE queue' = queue
      BY <1>0, <3>1
    <3>2. CASE queue' = Bury(remove_in_progress_notification(queue, t.id), t.id)
      BY <1>0, <2>1, <3>2, BuryKeeps
    <3> QED
      BY <2>2, <3>1, <3>2
  <2> QED
    BY <2>3, <2>4, SameItemKeeps, QueueKeeps
<1> QED
  BY <1>1, <1>2, <1>3, <1>4, <1>5 DEF Serve

LEMMA InitInvQ == InitN => InvQ
<1> SUFFICES ASSUME InitN PROVE InvQ
  OBVIOUS
<1>1. IInv /\ told = [i \in Watched |-> None]
  BY InvInit DEF InitN, Init
<1>2. RestOfTypes
  BY DEF InitN, RestOfTypes
<1>3. queue = [actions |-> [id \in ActionIds |-> Absent], in_progress |-> {},
               number |-> 0, notified_contacts |-> {}]
  BY DEF InitN
<1>4. queue \in Queue /\ Empty(queue) /\ queue.in_progress = {}
  BY <1>3, NotificationAssumption DEF Queue, Empty
<1>5. InSeries(queue, InTrouble)
  BY <1>4, TroubleLasts
<1> QED
  BY <1>1, <1>2, <1>4, <1>5 DEF InvQ

LEMMA NextInvQ ==
    ASSUME InvQ, [NextN]_allVars
    PROVE  InvQ'
<1>0. /\ queue \in Queue /\ InSeries(queue, InTrouble) /\ RestOfTypes
  BY DEF InvQ
<1>1. CASE UNCHANGED allVars
  <2>1. RestOfTypes' /\ UNCHANGED vars /\ queue' = queue
    BY <1>0, <1>1 DEF RestOfTypes, allVars, envVars
  <2> QED
    BY <1>0, <2>1, SameItemKeeps, QueueKeeps
<1>2. ASSUME ExitDowntime PROVE InvQ'
  <2>1. RestOfTypes' /\ UNCHANGED vars
    BY <1>0, <1>2 DEF RestOfTypes, ExitDowntime
  <2>2. queue' = create_notifications(queue, item[It], "DOWNTIMEEND", is_flapping)
    BY <1>2 DEF ExitDowntime
  <2>3. queue' \in Queue /\ InSeries(queue', InTrouble)
    BY <1>0, <2>2, CreateKeeps DEF Types
  <2> QED
    BY <2>1, <2>3, SameItemKeeps, QueueKeeps
<1>3. ASSUME NEW status \in Exit[It], ConsumeResult(status) PROVE InvQ'
  BY <1>3, ResultKeeps
<1>4. NextN => InvQ'
  BY <1>2, <1>3, EventKeeps, ServeKeeps DEF NextN
<1> QED
  BY <1>1, <1>4

LEMMA InitInvN == InitN => InvN
<1>1. InitN => left = MaxEvents
  BY DEF InitN
<1> QED
  BY <1>1, InitInvQ, NotificationAssumption DEF InvN

LEMMA NextInvN ==
    ASSUME InvN, [NextN]_allVars
    PROVE  InvN'
<1>1. left' = left \/ (left > 0 /\ left' = left - 1)
  BY DEF NextN, allVars
<1>2. left \in 0..MaxEvents /\ MaxEvents \in Nat
  BY NotificationAssumption DEF InvN
<1>3. left' \in 0..MaxEvents
  BY <1>1, <1>2
<1>4. InvQ'
  BY NextInvQ DEF InvN
<1> QED
  BY <1>3, <1>4 DEF InvN

\* The inductive invariant of the notifications, for all contacts and events.
THEOREM NotificationInvariance == SpecN => []InvN
<1>1. InvN /\ [NextN]_allVars => InvN'
  BY NextInvN
<1> QED
  BY <1>1, InitInvN, PTL DEF SpecN

\* The notifications of an item live where the item looks for them, in one series of
\* reminders at most, that ends with the problem: whatever is lost by a reactionner,
\* dropped by clean_queues, put off by a period or restored from the retention.
THEOREM SeriesAreKept == SpecN => []SeriesIsKept
<1>1. InvN => SeriesIsKept
  <2> SUFFICES ASSUME InvN PROVE SeriesIsKept
    OBVIOUS
  <2>1. TypeOKn
    BY InvTells DEF InvN, InvQ, RestOfTypes, TypeOKn, StateTells
  <2>2. InSeries(queue, InTrouble) /\ queue.in_progress \subseteq ActionIds
    BY DEF InvN, InvQ, Queue
  <2>3. InProgressIsLiveN
    BY <2>2 DEF InSeries, InProgressIsLiveN
  <2>4. OneSeries
    BY <2>2 DEF InSeries, OneSeries, Chief
  <2>5. SeriesEnds
    BY <2>2 DEF InSeries, SeriesEnds, InTrouble
  <2> QED
    BY <2>1, <2>3, <2>4, <2>5 DEF SeriesIsKept
<1> QED
  BY <1>1, NotificationInvariance, PTL

-----------------------------------------------------------------------------
(* Downtimes of hosts and services: what the invariant says.               *)

\* Downtime.id is above every id in use.
FreshIds ==
    /\ \A d \in downtimes : d < nextId
    /\ \A d \in Ids : \A e \in activate_me[d] : e < nextId
    /\ \A d \in Ids : d >= nextId =>
         activate_me[d] = {} /\ ~is_in_effect[d] /\ ~can_be_deleted[d]

\* While the operators trigger nothing no downtime has others to enter.
NoTriggers == regular => \A d \in downtimes : activate_me[d] = {}

\* A downtime that is marked for removal is not in effect.  Only update_downtimes
\* can enter such a one, when another triggers it, and then it is removed before
\* results are consumed.
MarkedIsOut ==
    /\ regular \/ pc \notin {"update", "delete"} =>
         \A d \in downtimes : can_be_deleted[d] => ~is_in_effect[d]
    /\ pc = "consume" => \A d \in downtimes : ~can_be_deleted[d]

VisitsKnown == pc = "update" => visit \subseteq downtimes

InvD ==
    /\ TypeOKd /\ FreshIds /\ NoTriggers /\ MarkedIsOut /\ VisitsKnown
    /\ DepthCounts /\ MaintenanceIsKnown

-----------------------------------------------------------------------------
(* Trees and counts *)

\* The downtimes of an item that count.
InEffect(it) == {d \in Of(downtimes, it) : is_in_effect[d]}

LEMMA FiniteCount ==
    ASSUME NEW ds, ds \subseteq Ids
    PROVE  IsFiniteSet(ds) /\ Cardinality(ds) \in Nat
  BY FS_Subset, FS_CardinalityType, IdsAssumption

LEMMA OfOne ==
    ASSUME NEW d, NEW it
    PROVE  /\ Of({d}, it) = IF it \in ref[d] THEN {d} ELSE {}
           /\ Cardinality(Of({d}, it)) = IF it \in ref[d] THEN 1 ELSE 0
<1>1. Of({d}, it) = IF it \in ref[d] THEN {d} ELSE {}
  BY DEF Of
<1> QED
  BY <1>1, FS_EmptySet, FS_Singleton

LEMMA CountType ==
    ASSUME TypeOKd, NEW ds, NEW it, ds \subseteq Ids
    PROVE  Cardinality(Of(ds, it)) \in Nat
<1>1. Of(ds, it) \subseteq Ids
  BY DEF Of
<1> QED
  BY <1>1, FiniteCount

LEMMA TreeType ==
    ASSUME NEW d
    PROVE  Tree(d) \subseteq Ids
  BY DEF Tree

\* What a downtime triggers has an id in use.
LEMMA TreeIsUsed ==
    ASSUME TypeOKd, FreshIds, NEW d \in Ids, d < nextId
    PROVE  \A e \in Tree(d) : e < nextId
<1> DEFINE used == {e \in Ids : e < nextId}
<1>1. used \in SUBSET Ids /\ d \in used
  OBVIOUS
<1>2. \A x \in used : activate_me[x] \subseteq used
  BY DEF FreshIds, TypeOKd
<1>3. \A e \in Tree(d) : e \in used
  <2> HIDE DEF used
  <2> QED
    BY <1>1, <1>2 DEF Tree
<1> QED
  BY <1>3

\* A downtime that triggers nothing is entered and cancelled alone.
LEMMA TreeOfOne ==
    ASSUME NEW d \in Ids, activate_me[d] = {}
    PROVE  Tree(d) = {d}
<1>1. {d} \in SUBSET Ids /\ \A x \in {d} : activate_me[x] \subseteq {d}
  OBVIOUS
<1>2. \A e \in Tree(d) : e \in {d}
  BY <1>1 DEF Tree
<1>3. d \in Tree(d)
  BY DEF Tree
<1> QED
  BY <1>2, <1>3

-----------------------------------------------------------------------------
(* Every step keeps the types *)

LEMMA NewDowntimeType ==
    ASSUME TypeOKd, NEW it \in Refs, NEW fx \in BOOLEAN, NEW triggered \in BOOLEAN,
           NEW now \in BOOLEAN, NewDowntime(it, fx, triggered, now)
    PROVE  /\ nextId' \in Nat
           /\ downtimes' \subseteq Ids
           /\ ref' \in [Ids -> SUBSET Refs]
           /\ fixed' \in [Ids -> BOOLEAN]
           /\ trigger_id' \in [Ids -> BOOLEAN]
           /\ extra_comment' \in [Ids -> BOOLEAN]
           /\ started' \in [Ids -> BOOLEAN]
           /\ comments' \subseteq Ids
<1>1. nextId' \in Nat /\ downtimes' \subseteq Ids /\ comments' \subseteq Ids
  BY DEF TypeOKd, NewDowntime
<1>2. ref' \in [Ids -> SUBSET Refs]
  BY DEF TypeOKd, NewDowntime
<1>3. fixed' \in [Ids -> BOOLEAN] /\ trigger_id' \in [Ids -> BOOLEAN]
  BY DEF TypeOKd, NewDowntime
<1>4. extra_comment' \in [Ids -> BOOLEAN] /\ started' \in [Ids -> BOOLEAN]
  BY DEF TypeOKd, NewDowntime
<1> QED
  BY <1>1, <1>2, <1>3, <1>4

LEMMA SetType ==
    ASSUME NEW f \in [Ids -> BOOLEAN], NEW ds, NEW v \in BOOLEAN
    PROVE  Set(f, ds, v) \in [Ids -> BOOLEAN]
  BY DEF Set

LEMMA EnterAllType ==
    ASSUME TypeOKd, NEW ds, ds \subseteq Ids, EnterAll(ds)
    PROVE  /\ is_in_effect' \in [Ids -> BOOLEAN] /\ ended' \in [Ids -> BOOLEAN]
           /\ scheduled_downtime_depth' \in [Refs -> Int]
           /\ in_scheduled_downtime' \in [Refs -> BOOLEAN]
<1>1. is_in_effect' \in [Ids -> BOOLEAN]
  BY SetType DEF EnterAll, TypeOKd
<1>2. ended' \in [Ids -> BOOLEAN] /\ in_scheduled_downtime' \in [Refs -> BOOLEAN]
  BY DEF EnterAll, TypeOKd
<1>3. \A it \in Refs : Cardinality(Of(ds, it)) \in Int
  BY CountType
<1>4. scheduled_downtime_depth' \in [Refs -> Int]
  BY <1>3 DEF EnterAll, TypeOKd
<1> QED
  BY <1>1, <1>2, <1>4

LEMMA CancelAllType ==
    ASSUME TypeOKd, NEW ds, ds \subseteq Ids, CancelAll(ds)
    PROVE  /\ is_in_effect' \in [Ids -> BOOLEAN] /\ can_be_deleted' \in [Ids -> BOOLEAN]
           /\ scheduled_downtime_depth' \in [Refs -> Int]
           /\ in_scheduled_downtime' \in [Refs -> BOOLEAN]
<1>1. is_in_effect' \in [Ids -> BOOLEAN] /\ can_be_deleted' \in [Ids -> BOOLEAN]
  BY SetType DEF CancelAll, TypeOKd
<1>2. in_scheduled_downtime' \in [Refs -> BOOLEAN]
  BY DEF CancelAll, TypeOKd
<1>3. \A it \in Refs : Cardinality(Of(ds, it)) \in Int
  BY CountType
<1>4. scheduled_downtime_depth' \in [Refs -> Int]
  BY <1>3 DEF CancelAll, TypeOKd
<1> QED
  BY <1>1, <1>2, <1>4

LEMMA ExitType ==
    ASSUME TypeOKd, NEW d \in Ids, DowntimeExit(d)
    PROVE  /\ is_in_effect' \in [Ids -> BOOLEAN] /\ can_be_deleted' \in [Ids -> BOOLEAN]
           /\ scheduled_downtime_depth' \in [Refs -> Int]
           /\ in_scheduled_downtime' \in [Refs -> BOOLEAN]
<1>1. is_in_effect' \in [Ids -> BOOLEAN] /\ can_be_deleted' \in [Ids -> BOOLEAN]
  BY DEF DowntimeExit, TypeOKd
<1>2. CASE ~is_in_effect[d]
  BY <1>1, <1>2 DEF DowntimeExit, TypeOKd, itemVars
<1>3. CASE is_in_effect[d]
  <2> DEFINE n(it) == Cardinality(Of({d}, it))
  <2>1. \A it \in Refs : n(it) \in Int
    BY CountType
  <2>2. scheduled_downtime_depth' \in [Refs -> Int]
    <3>1. scheduled_downtime_depth' = [it \in Refs |->
            scheduled_downtime_depth[it] - n(it)]
      BY <1>3 DEF DowntimeExit
    <3> HIDE DEF n
    <3>2. \A it \in Refs : scheduled_downtime_depth[it] \in Int
      BY DEF TypeOKd
    <3> QED
      BY <2>1, <3>1, <3>2
  <2>3. in_scheduled_downtime' \in [Refs -> BOOLEAN]
    BY <1>3 DEF DowntimeExit, TypeOKd
  <2> QED
    BY <1>1, <2>2, <2>3
<1> QED
  BY <1>2, <1>3

LEMMA TypeStep ==
    ASSUME TypeOKd, [NextD]_varsD
    PROVE  TypeOKd'
<1>1. ASSUME NEW it \in Refs, NEW fx \in BOOLEAN, ScheduleDowntime(it, fx) PROVE TypeOKd'
  <2>1. PICK now \in BOOLEAN : NewDowntime(it, fx, FALSE, now)
    BY <1>1 DEF ScheduleDowntime
  <2> QED
    BY <1>1, <2>1, NewDowntimeType DEF ScheduleDowntime, TypeOKd, itemVars
<1>2. ASSUME NEW it \in Refs, NEW by \in Ids, ScheduleTriggered(it, by) PROVE TypeOKd'
  <2>1. PICK now \in BOOLEAN, fx \in BOOLEAN : NewDowntime(it, fx, TRUE, now)
    BY <1>2 DEF ScheduleTriggered
  <2>2. nextId \in Ids
    BY <2>1 DEF NewDowntime
  <2>3. activate_me' \in [Ids -> SUBSET Ids] /\ regular' \in BOOLEAN
    BY <1>2, <2>2 DEF ScheduleTriggered, TypeOKd
  <2>4. /\ nextId' \in Nat
        /\ downtimes' \subseteq Ids
        /\ ref' \in [Ids -> SUBSET Refs]
        /\ fixed' \in [Ids -> BOOLEAN]
        /\ trigger_id' \in [Ids -> BOOLEAN]
        /\ extra_comment' \in [Ids -> BOOLEAN]
        /\ started' \in [Ids -> BOOLEAN]
        /\ comments' \subseteq Ids
    BY <2>1, NewDowntimeType
  <2> QED
    BY <1>2, <2>3, <2>4 DEF ScheduleTriggered, TypeOKd, itemVars
<1>3. ASSUME NEW d \in Ids, DelDowntime(d) PROVE TypeOKd'
  <2>1. regular' \in BOOLEAN
    BY <1>3 DEF DelDowntime, TypeOKd
  <2>2. CancelAll(Tree(d))
    BY <1>3 DEF DelDowntime
  <2> QED
    BY <1>3, <2>1, <2>2, TreeType, CancelAllType DEF DelDowntime, TypeOKd, dtVars
<1>4. ASSUME NEW d \in Ids, TimePasses(d) PROVE TypeOKd'
  <2>1. started' \in [Ids -> BOOLEAN] /\ ended' \in [Ids -> BOOLEAN]
    BY <1>4 DEF TimePasses, TypeOKd
  <2> QED
    BY <1>4, <2>1 DEF TimePasses, TypeOKd, dtVars, itemVars
<1>5. CASE Reload
  <2>1. \A it \in Refs : Cardinality({d \in Of(downtimes, it) : is_in_effect[d]}) \in Int
    <3> SUFFICES ASSUME NEW it \in Refs
                 PROVE  Cardinality({d \in Of(downtimes, it) : is_in_effect[d]}) \in Int
      OBVIOUS
    <3>1. {d \in Of(downtimes, it) : is_in_effect[d]} \subseteq Ids
      BY DEF TypeOKd, Of
    <3> QED
      BY <3>1, FiniteCount
  <2>2. scheduled_downtime_depth' \in [Refs -> Int]
    BY <1>5, <2>1 DEF Reload
  <2>3. in_scheduled_downtime' \in [Refs -> BOOLEAN] /\ extra_comment' \in [Ids -> BOOLEAN]
    BY <1>5 DEF Reload
  <2> QED
    BY <1>5, <2>2, <2>3 DEF Reload, TypeOKd, dtVars
<1>6. CASE BeginUpdate \/ MaintenanceDone \/ UpdateDone \/ EndTick
  BY <1>6 DEF BeginUpdate, MaintenanceDone, UpdateDone, EndTick, TypeOKd, dtVars, itemVars
<1>7. ASSUME NEW it \in Refs, BeginMaintenance(it) PROVE TypeOKd'
  <2>1. NewDowntime(it, TRUE, FALSE, TRUE)
    BY <1>7 DEF BeginMaintenance
  <2>2. in_maintenance' \in [Refs -> SUBSET Ids] /\ todo' \subseteq Refs
    BY <1>7, <2>1 DEF BeginMaintenance, NewDowntime, TypeOKd
  <2> QED
    BY <1>7, <2>1, <2>2, NewDowntimeType DEF BeginMaintenance, TypeOKd, itemVars
<1>8. ASSUME NEW it \in Refs, InMaintenance(it) PROVE TypeOKd'
  <2>1. todo' \subseteq Refs
    BY <1>8 DEF InMaintenance, TypeOKd
  <2>2. ended' \in [Ids -> BOOLEAN]
    <3>1. CASE UNCHANGED ended
      BY <3>1 DEF TypeOKd
    <3>2. CASE \E over \in BOOLEAN :
                 ended' = Set(ended, in_maintenance[it] \cap downtimes, over)
      BY <3>2, SetType DEF TypeOKd
    <3> QED
      BY <1>8, <3>1, <3>2 DEF InMaintenance
  <2>3. in_maintenance' \in [Refs -> SUBSET Ids]
    <3>1. in_maintenance[it] \cap downtimes \in SUBSET Ids
      BY DEF TypeOKd
    <3>2. \/ in_maintenance' = [in_maintenance EXCEPT ![it] = in_maintenance[it] \cap downtimes]
          \/ UNCHANGED in_maintenance
      BY <1>8 DEF InMaintenance
    <3> QED
      BY <3>1, <3>2 DEF TypeOKd
  <2> QED
    BY <1>8, <2>1, <2>2, <2>3 DEF InMaintenance, TypeOKd, dtVars, itemVars
<1>9. ASSUME NEW d \in Ids, UpdateDowntime(d) PROVE TypeOKd'
  <2>1. /\ is_in_effect' \in [Ids -> BOOLEAN] /\ can_be_deleted' \in [Ids -> BOOLEAN]
        /\ ended' \in [Ids -> BOOLEAN]
        /\ scheduled_downtime_depth' \in [Refs -> Int]
        /\ in_scheduled_downtime' \in [Refs -> BOOLEAN]
    <3>1. CASE DowntimeExit(d) /\ UNCHANGED ended
      BY <3>1, ExitType DEF TypeOKd
    <3>2. CASE EnterAll(Tree(d)) /\ UNCHANGED can_be_deleted
      BY <3>2, EnterAllType, TreeType DEF TypeOKd
    <3>3. CASE UNCHANGED <<is_in_effect, can_be_deleted, ended, itemVars>>
      BY <3>3 DEF TypeOKd, itemVars
    <3> QED
      BY <1>9, <3>1, <3>2, <3>3 DEF UpdateDowntime
  <2>2. visit' \subseteq Ids
    BY <1>9 DEF UpdateDowntime, TypeOKd
  <2> QED
    BY <1>9, <2>1, <2>2 DEF UpdateDowntime, TypeOKd, dtVars
<1>10. CASE DeleteMarked
  <2>1. /\ downtimes' \subseteq Ids /\ comments' \subseteq Ids
        /\ in_maintenance' \in [Refs -> SUBSET Ids]
    BY <1>10 DEF DeleteMarked, TypeOKd
  <2> QED
    BY <1>10, <2>1 DEF DeleteMarked, TypeOKd, dtVars, itemVars
<1>11. ASSUME NEW it \in Refs, CheckForFlexible(it) PROVE TypeOKd'
  <2>1. UNION {Tree(d) : d \in Flexible(it)} \subseteq Ids
    BY TreeType
  <2>2. /\ is_in_effect' \in [Ids -> BOOLEAN] /\ ended' \in [Ids -> BOOLEAN]
        /\ scheduled_downtime_depth' \in [Refs -> Int]
        /\ in_scheduled_downtime' \in [Refs -> BOOLEAN]
    <3>1. CASE EnterAll(UNION {Tree(d) : d \in Flexible(it)})
      BY <2>1, <3>1, EnterAllType
    <3>2. CASE UNCHANGED <<is_in_effect, ended, itemVars>>
      BY <3>2 DEF TypeOKd, itemVars
    <3> QED
      BY <1>11, <3>1, <3>2 DEF CheckForFlexible
  <2>3. todo' \subseteq Refs
    BY <1>11 DEF CheckForFlexible, TypeOKd
  <2> QED
    BY <1>11, <2>2, <2>3 DEF CheckForFlexible, TypeOKd, dtVars
<1>12. CASE UNCHANGED varsD
  BY <1>12 DEF varsD, TypeOKd, dtVars, itemVars
<1> QED
  BY <1>1, <1>2, <1>3, <1>4, <1>5, <1>6, <1>7, <1>8, <1>9, <1>10, <1>11, <1>12
     DEF NextD, Tick

-----------------------------------------------------------------------------
(* Every step keeps what the counter rests on *)

\* A set of ids in use is entered or cancelled: nobody else changes.
LEMMA SetOutside ==
    ASSUME NEW f, NEW ds, NEW v, NEW d \in Ids, d \notin ds
    PROVE  Set(f, ds, v)[d] = f[d]
  BY DEF Set

LEMMA FlexibleIsUsed ==
    ASSUME TypeOKd, FreshIds, NEW it
    PROVE  \A e \in UNION {Tree(d) : d \in Flexible(it)} : e \in Ids /\ e < nextId
<1> SUFFICES ASSUME NEW d \in Flexible(it), NEW e \in Tree(d)
             PROVE  e \in Ids /\ e < nextId
  OBVIOUS
<1>1. d \in Ids /\ d < nextId
  BY DEF Flexible, Of, TypeOKd, FreshIds
<1> QED
  BY <1>1, TreeIsUsed, TreeType

LEMMA FreshIdsStep ==
    ASSUME TypeOKd, FreshIds, VisitsKnown, [NextD]_varsD
    PROVE  FreshIds'
<1>1. CASE /\ UNCHANGED <<nextId, downtimes, activate_me>>
           /\ \A d \in Ids : d >= nextId => /\ is_in_effect'[d] = is_in_effect[d]
                                            /\ can_be_deleted'[d] = can_be_deleted[d]
  BY <1>1 DEF FreshIds
<1>2. ASSUME NEW it, NEW fx, NEW triggered, NEW now, NewDowntime(it, fx, triggered, now),
             UNCHANGED <<is_in_effect, can_be_deleted>>,
             \A d \in Ids : \/ activate_me'[d] = activate_me[d]
                            \/ d \in downtimes /\ activate_me'[d] = activate_me[d] \cup {nextId}
      PROVE  FreshIds'
  <2>1. nextId' = nextId + 1 /\ downtimes' = downtimes \cup {nextId} /\ nextId \in Nat
    BY <1>2 DEF NewDowntime, TypeOKd
  <2>2. \A d \in downtimes : d \in Nat /\ d < nextId
    BY IdsAssumption DEF TypeOKd, FreshIds
  <2>3. \A d \in downtimes' : d < nextId'
    BY <2>1, <2>2
  <2>4. \A d \in Ids : \A e \in activate_me'[d] : e < nextId'
    <3> SUFFICES ASSUME NEW d \in Ids, NEW e \in activate_me'[d] PROVE e < nextId'
      OBVIOUS
    <3>1. e = nextId \/ e \in activate_me[d]
      BY <1>2
    <3>2. e \in activate_me[d] => e \in Nat /\ e < nextId
      BY IdsAssumption DEF TypeOKd, FreshIds
    <3> QED
      BY <2>1, <3>1, <3>2
  <2>5. ASSUME NEW d \in Ids, d >= nextId'
        PROVE  activate_me'[d] = {} /\ ~is_in_effect'[d] /\ ~can_be_deleted'[d]
    <3>1. d \in Nat /\ d >= nextId /\ d \notin downtimes
      BY <2>1, <2>2, <2>5, IdsAssumption
    <3> QED
      BY <1>2, <3>1 DEF FreshIds
  <2> QED
    BY <2>3, <2>4, <2>5 DEF FreshIds
<1>3. ASSUME NEW it \in Refs, NEW fx \in BOOLEAN, ScheduleDowntime(it, fx) PROVE FreshIds'
  BY <1>2, <1>3 DEF ScheduleDowntime
<1>4. ASSUME NEW it \in Refs, NEW by \in Ids, ScheduleTriggered(it, by) PROVE FreshIds'
  <2>1. PICK now \in BOOLEAN, fx \in BOOLEAN : NewDowntime(it, fx, TRUE, now)
    BY <1>4 DEF ScheduleTriggered
  <2>2. UNCHANGED <<is_in_effect, can_be_deleted>>
    BY <1>4 DEF ScheduleTriggered
  <2>3. \A d \in Ids : \/ activate_me'[d] = activate_me[d]
                       \/ d \in downtimes /\ activate_me'[d] = activate_me[d] \cup {nextId}
    BY <1>4 DEF ScheduleTriggered, TypeOKd
  <2> QED
    BY <1>2, <2>1, <2>2, <2>3
<1>5. ASSUME NEW d \in Ids, DelDowntime(d) PROVE FreshIds'
  <2>1. d < nextId
    BY <1>5 DEF DelDowntime, FreshIds
  <2>2. \A e \in Ids : e >= nextId => e \notin Tree(d)
    BY <2>1, TreeIsUsed, IdsAssumption DEF TypeOKd
  <2>3. \A e \in Ids : e >= nextId => /\ is_in_effect'[e] = is_in_effect[e]
                                      /\ can_be_deleted'[e] = can_be_deleted[e]
    BY <1>5, <2>2, SetOutside DEF DelDowntime, CancelAll
  <2> QED
    BY <1>1, <1>5, <2>3 DEF DelDowntime, dtVars
<1>6. ASSUME NEW it \in Refs, BeginMaintenance(it) PROVE FreshIds'
  BY <1>2, <1>6 DEF BeginMaintenance
<1>7. ASSUME NEW d \in Ids, UpdateDowntime(d) PROVE FreshIds'
  <2>1. d < nextId
    BY <1>7 DEF VisitsKnown, UpdateDowntime, FreshIds
  <2>2. \A e \in Ids : e >= nextId => e \notin Tree(d) /\ e # d
    BY <2>1, TreeIsUsed, IdsAssumption DEF TypeOKd
  <2>3. \A e \in Ids : e >= nextId => /\ is_in_effect'[e] = is_in_effect[e]
                                      /\ can_be_deleted'[e] = can_be_deleted[e]
    <3>1. CASE DowntimeExit(d)
      BY <2>2, <3>1 DEF DowntimeExit, TypeOKd
    <3>2. CASE EnterAll(Tree(d)) /\ UNCHANGED can_be_deleted
      BY <2>2, <3>2, SetOutside DEF EnterAll
    <3>3. CASE UNCHANGED <<is_in_effect, can_be_deleted>>
      BY <3>3
    <3> QED
      BY <1>7, <3>1, <3>2, <3>3 DEF UpdateDowntime
  <2> QED
    BY <1>1, <1>7, <2>3 DEF UpdateDowntime, dtVars
<1>8. CASE DeleteMarked
  <2>1. downtimes' \subseteq downtimes
        /\ UNCHANGED <<nextId, activate_me, is_in_effect, can_be_deleted>>
    BY <1>8 DEF DeleteMarked, dtVars
  <2> QED
    BY <2>1 DEF FreshIds
<1>9. ASSUME NEW it \in Refs, CheckForFlexible(it) PROVE FreshIds'
  <2>1. PICK ds : ds = UNION {Tree(d) : d \in Flexible(it)}
    OBVIOUS
  <2>2. \A e \in Ids : e >= nextId => e \notin ds
    BY <2>1, FlexibleIsUsed, IdsAssumption DEF TypeOKd
  <2>3. \A e \in Ids : e >= nextId => is_in_effect'[e] = is_in_effect[e]
    <3>1. CASE EnterAll(ds)
      BY <2>2, <3>1, SetOutside DEF EnterAll
    <3>2. CASE UNCHANGED is_in_effect
      BY <3>2
    <3> QED
      BY <1>9, <2>1, <3>1, <3>2 DEF CheckForFlexible
  <2> QED
    BY <1>1, <1>9, <2>3 DEF CheckForFlexible, dtVars
<1>10. CASE \/ Reload \/ BeginUpdate \/ MaintenanceDone \/ UpdateDone \/ EndTick
            \/ \E d \in Ids : TimePasses(d)
            \/ \E it \in Refs : InMaintenance(it)
            \/ UNCHANGED varsD
  <2>1. UNCHANGED <<nextId, downtimes, activate_me, is_in_effect, can_be_deleted>>
    BY <1>10 DEF Reload, BeginUpdate, MaintenanceDone, UpdateDone, EndTick, TimePasses,
                 InMaintenance, varsD, dtVars
  <2> QED
    BY <1>1, <2>1
<1> QED
  BY <1>3, <1>4, <1>5, <1>6, <1>7, <1>8, <1>9, <1>10 DEF NextD, Tick

LEMMA VisitsKnownStep ==
    ASSUME VisitsKnown, [NextD]_varsD
    PROVE  VisitsKnown'
<1>1. ASSUME NEW d \in Ids, UpdateDowntime(d) PROVE VisitsKnown'
  BY <1>1 DEF UpdateDowntime, VisitsKnown
<1>2. CASE MaintenanceDone \/ UNCHANGED varsD
  BY <1>2 DEF MaintenanceDone, varsD, VisitsKnown
<1>3. CASE pc' # "update"
  BY <1>3 DEF VisitsKnown
<1>4. CASE \/ \E it \in Refs, fx \in BOOLEAN : ScheduleDowntime(it, fx)
           \/ \E it \in Refs, by \in Ids : ScheduleTriggered(it, by)
           \/ \E d \in Ids : DelDowntime(d) \/ TimePasses(d)
           \/ Reload \/ BeginUpdate \/ UpdateDone \/ DeleteMarked \/ EndTick
           \/ \E it \in Refs : BeginMaintenance(it) \/ InMaintenance(it)
                                  \/ CheckForFlexible(it)
  BY <1>3, <1>4 DEF ScheduleDowntime, ScheduleTriggered, DelDowntime, TimePasses, Reload,
       BeginUpdate, UpdateDone, DeleteMarked, EndTick, BeginMaintenance, InMaintenance,
       CheckForFlexible
<1> QED
  BY <1>1, <1>2, <1>4 DEF NextD, Tick

LEMMA NoTriggersStep ==
    ASSUME TypeOKd, FreshIds, NoTriggers, [NextD]_varsD
    PROVE  NoTriggers'
<1>1. CASE downtimes' \subseteq downtimes /\ UNCHANGED activate_me /\ (regular' => regular)
  BY <1>1 DEF NoTriggers
<1>2. CASE /\ nextId \in Ids /\ downtimes' = downtimes \cup {nextId}
           /\ UNCHANGED <<activate_me, regular>>
  <2>1. activate_me[nextId] = {}
    BY <1>2 DEF FreshIds, TypeOKd
  <2> QED
    BY <1>2, <2>1 DEF NoTriggers
<1>3. ASSUME NEW it \in Refs, NEW fx \in BOOLEAN, ScheduleDowntime(it, fx) PROVE NoTriggers'
  BY <1>2, <1>3 DEF ScheduleDowntime, NewDowntime
<1>4. ASSUME NEW it \in Refs, NEW by \in Ids, ScheduleTriggered(it, by) PROVE NoTriggers'
  <2>1. nextId \in Ids /\ downtimes' = downtimes \cup {nextId}
    BY <1>4 DEF ScheduleTriggered, NewDowntime
  <2>2. CASE by \in downtimes
    BY <1>4, <2>2 DEF ScheduleTriggered, NoTriggers
  <2>3. CASE by \notin downtimes
    <3>1. activate_me' = activate_me /\ regular' = regular
      BY <1>4, <2>3 DEF ScheduleTriggered, TypeOKd
    <3> QED
      BY <1>2, <2>1, <3>1
  <2> QED
    BY <2>2, <2>3
<1>5. CASE Reload
  BY <1>5 DEF Reload, NoTriggers, dtVars
<1>6. ASSUME NEW it \in Refs, BeginMaintenance(it) PROVE NoTriggers'
  BY <1>2, <1>6 DEF BeginMaintenance, NewDowntime
<1>7. CASE \/ BeginUpdate \/ MaintenanceDone \/ UpdateDone \/ DeleteMarked \/ EndTick
           \/ \E d \in Ids : TimePasses(d) \/ UpdateDowntime(d)
           \/ \E it \in Refs : InMaintenance(it) \/ CheckForFlexible(it)
           \/ UNCHANGED varsD
  <2>1. downtimes' \subseteq downtimes /\ UNCHANGED <<activate_me, regular>>
    BY <1>7 DEF BeginUpdate, MaintenanceDone, UpdateDone, DeleteMarked, EndTick,
         TimePasses, UpdateDowntime, InMaintenance, CheckForFlexible, varsD, dtVars
  <2> QED
    BY <1>1, <2>1
<1>8. ASSUME NEW d \in Ids, DelDowntime(d) PROVE NoTriggers'
  BY <1>1, <1>8 DEF DelDowntime, dtVars
<1> QED
  BY <1>3, <1>4, <1>5, <1>6, <1>7, <1>8 DEF NextD, Tick

LEMMA MarkedIsOutStep ==
    ASSUME TypeOKd, FreshIds, NoTriggers, MarkedIsOut, VisitsKnown, [NextD]_varsD
    PROVE  MarkedIsOut'
<1>1. CASE /\ UNCHANGED <<downtimes, is_in_effect, can_be_deleted>>
           /\ pc' # "consume" \/ pc = "consume"
           /\ regular' => regular \/ pc \notin {"update", "delete"}
           /\ pc' \in {"update", "delete"} \/ pc \notin {"update", "delete"}
  BY <1>1 DEF MarkedIsOut
<1>2. CASE /\ nextId \in Ids /\ downtimes' = downtimes \cup {nextId}
           /\ UNCHANGED <<pc, is_in_effect, can_be_deleted, regular>>
           /\ pc \in {"requests", "maintenance"}
  <2>1. ~can_be_deleted[nextId]
    BY <1>2 DEF FreshIds, TypeOKd
  <2> QED
    BY <1>2, <2>1 DEF MarkedIsOut
<1>3. ASSUME NEW it \in Refs, NEW fx \in BOOLEAN, ScheduleDowntime(it, fx) PROVE MarkedIsOut'
  BY <1>2, <1>3 DEF ScheduleDowntime, NewDowntime
<1>4. ASSUME NEW it \in Refs, NEW by \in Ids, ScheduleTriggered(it, by) PROVE MarkedIsOut'
  <2>1. /\ nextId \in Ids /\ downtimes' = downtimes \cup {nextId}
        /\ UNCHANGED <<pc, is_in_effect, can_be_deleted>> /\ pc = "requests"
    BY <1>4 DEF ScheduleTriggered, NewDowntime
  <2>2. ~can_be_deleted[nextId]
    BY <2>1 DEF FreshIds, TypeOKd
  <2> QED
    BY <2>1, <2>2 DEF MarkedIsOut
<1>5. ASSUME NEW d \in Ids, DelDowntime(d) PROVE MarkedIsOut'
  <2>1. pc = "requests" /\ pc' = "requests" /\ downtimes' = downtimes /\ CancelAll(Tree(d))
    BY <1>5 DEF DelDowntime
  <2>2. \A e \in Ids : e \in Tree(d) => ~is_in_effect'[e]
    BY <2>1 DEF CancelAll, Set
  <2>3. \A e \in Ids : e \notin Tree(d) => /\ is_in_effect'[e] = is_in_effect[e]
                                           /\ can_be_deleted'[e] = can_be_deleted[e]
    BY <2>1, SetOutside DEF CancelAll
  <2>4. \A e \in downtimes : e \in Ids /\ (can_be_deleted[e] => ~is_in_effect[e])
    BY <2>1 DEF TypeOKd, MarkedIsOut
  <2> QED
    BY <2>1, <2>2, <2>3, <2>4 DEF MarkedIsOut
<1>6. ASSUME NEW it \in Refs, BeginMaintenance(it) PROVE MarkedIsOut'
  BY <1>2, <1>6 DEF BeginMaintenance, NewDowntime
<1>7. ASSUME NEW d \in Ids, UpdateDowntime(d) PROVE MarkedIsOut'
  <2>1. /\ pc = "update" /\ pc' = "update" /\ downtimes' = downtimes /\ regular' = regular
        /\ d \in downtimes
    BY <1>7 DEF UpdateDowntime, VisitsKnown
  <2> SUFFICES ASSUME regular, NEW e \in downtimes, can_be_deleted'[e] PROVE ~is_in_effect'[e]
    BY <2>1 DEF MarkedIsOut
  <2>2. e \in Ids /\ (can_be_deleted[e] => ~is_in_effect[e]) /\ Tree(d) = {d}
    BY <2>1, TreeOfOne DEF TypeOKd, MarkedIsOut, NoTriggers
  <2>3. CASE DowntimeExit(d)
    BY <2>2, <2>3 DEF DowntimeExit, TypeOKd
  <2>4. CASE EnterAll({d}) /\ UNCHANGED can_be_deleted /\ ~can_be_deleted[d]
    BY <2>2, <2>4 DEF EnterAll, Set
  <2>5. CASE UNCHANGED <<is_in_effect, can_be_deleted>>
    BY <2>2, <2>5
  <2> QED
    BY <1>7, <2>2, <2>3, <2>4, <2>5 DEF UpdateDowntime
<1>8. CASE DeleteMarked
  <2>1. /\ \A d \in downtimes' : ~can_be_deleted'[d]
        /\ pc' = "consume"
    BY <1>8 DEF DeleteMarked
  <2> QED
    BY <2>1 DEF MarkedIsOut
<1>9. ASSUME NEW it \in Refs, CheckForFlexible(it) PROVE MarkedIsOut'
  BY <1>9 DEF CheckForFlexible, MarkedIsOut
<1>10. CASE Reload
  BY <1>1, <1>10 DEF Reload
<1>11. CASE \/ BeginUpdate \/ MaintenanceDone \/ UpdateDone \/ EndTick
            \/ \E d \in Ids : TimePasses(d)
            \/ \E it \in Refs : InMaintenance(it)
            \/ UNCHANGED varsD
  <2>1. /\ UNCHANGED <<downtimes, is_in_effect, can_be_deleted, regular>>
        /\ pc' # "consume" \/ pc = "consume"
        /\ pc' \in {"update", "delete"} \/ pc \notin {"update", "delete"}
    BY <1>11 DEF BeginUpdate, MaintenanceDone, UpdateDone, EndTick, TimePasses,
                 InMaintenance, varsD
  <2> QED
    BY <1>1, <2>1
<1> QED
  BY <1>3, <1>4, <1>5, <1>6, <1>7, <1>8, <1>9, <1>10, <1>11 DEF NextD, Tick

LEMMA MaintenanceStep ==
    ASSUME TypeOKd, MaintenanceIsKnown, [NextD]_varsD
    PROVE  MaintenanceIsKnown'
<1>1. CASE downtimes \subseteq downtimes' /\ UNCHANGED in_maintenance
  BY <1>1 DEF MaintenanceIsKnown
<1>2. ASSUME NEW it \in Refs, BeginMaintenance(it) PROVE MaintenanceIsKnown'
  BY <1>2 DEF BeginMaintenance, NewDowntime, MaintenanceIsKnown, TypeOKd
<1>3. ASSUME NEW it \in Refs, InMaintenance(it) PROVE MaintenanceIsKnown'
  <2>1. /\ downtimes' = downtimes
        /\ \A i \in Refs : in_maintenance'[i] \subseteq in_maintenance[i]
    BY <1>3 DEF InMaintenance, TypeOKd
  <2> QED
    BY <2>1 DEF MaintenanceIsKnown
<1>4. CASE DeleteMarked
  BY <1>4 DEF DeleteMarked, MaintenanceIsKnown
<1>5. CASE \/ \E it \in Refs, fx \in BOOLEAN : ScheduleDowntime(it, fx)
           \/ \E it \in Refs, by \in Ids : ScheduleTriggered(it, by)
           \/ \E d \in Ids : DelDowntime(d) \/ TimePasses(d) \/ UpdateDowntime(d)
           \/ \E it \in Refs : CheckForFlexible(it)
           \/ Reload \/ BeginUpdate \/ MaintenanceDone \/ UpdateDone \/ EndTick
           \/ UNCHANGED varsD
  <2>1. downtimes \subseteq downtimes' /\ UNCHANGED in_maintenance
    BY <1>5 DEF ScheduleDowntime, ScheduleTriggered, NewDowntime, DelDowntime, TimePasses,
         UpdateDowntime, CheckForFlexible, Reload, BeginUpdate, MaintenanceDone, UpdateDone,
         EndTick, varsD
  <2> QED
    BY <1>1, <2>1
<1> QED
  BY <1>2, <1>3, <1>4, <1>5 DEF NextD, Tick

-----------------------------------------------------------------------------
(* The counter *)

LEMMA InEffectType ==
    ASSUME TypeOKd, NEW it
    PROVE  /\ InEffect(it) \subseteq Ids
           /\ IsFiniteSet(InEffect(it)) /\ Cardinality(InEffect(it)) \in Nat
<1>1. InEffect(it) \subseteq Ids
  BY DEF InEffect, Of, TypeOKd
<1> QED
  BY <1>1, FiniteCount

\* The counter of an item that nothing is said of.
LEMMA SameCount ==
    ASSUME DepthCounts, regular, UNCHANGED itemVars,
           \A it \in Refs : InEffect(it)' = InEffect(it)
    PROVE  DepthCounts'
<1>1. \A it \in Refs :
        /\ scheduled_downtime_depth'[it] = scheduled_downtime_depth[it]
        /\ in_scheduled_downtime'[it] = in_scheduled_downtime[it]
        /\ InEffect(it)' = InEffect(it)
  BY DEF itemVars
<1>2. \A it \in Refs :
        /\ scheduled_downtime_depth[it] = Cardinality(InEffect(it))
        /\ in_scheduled_downtime[it] <=> scheduled_downtime_depth[it] > 0
  BY DEF DepthCounts, InEffect
<1>3. \A it \in Refs :
        /\ scheduled_downtime_depth'[it] = Cardinality(InEffect(it)')
        /\ in_scheduled_downtime'[it] <=> scheduled_downtime_depth'[it] > 0
  BY <1>1, <1>2
<1> QED
  BY <1>3 DEF DepthCounts, InEffect

\* Downtimes of the scheduler that were not in effect are entered.
LEMMA EnterCounts ==
    ASSUME TypeOKd, DepthCounts, regular, UNCHANGED <<downtimes, ref>>,
           NEW ds, ds \subseteq downtimes, \A d \in ds : ~is_in_effect[d],
           EnterAll(ds)
    PROVE  DepthCounts'
<1> SUFFICES ASSUME NEW it \in Refs
             PROVE  /\ scheduled_downtime_depth'[it] = Cardinality(InEffect(it)')
                    /\ in_scheduled_downtime'[it] <=> scheduled_downtime_depth'[it] > 0
  BY DEF DepthCounts, InEffect
<1>1. /\ scheduled_downtime_depth[it] = Cardinality(InEffect(it))
      /\ in_scheduled_downtime[it] <=> scheduled_downtime_depth[it] > 0
  BY DEF DepthCounts, InEffect
<1> DEFINE new == Of(ds, it)
<1>2. InEffect(it)' = InEffect(it) \cup new /\ InEffect(it) \cap new = {}
  <2>1. \A d \in downtimes : d \in Ids
    BY DEF TypeOKd
  <2>2. \A d \in Ids : is_in_effect'[d] <=> d \in ds \/ is_in_effect[d]
    BY DEF EnterAll, Set, TypeOKd
  <2> QED
    BY <2>1, <2>2 DEF InEffect, Of
<1>3. IsFiniteSet(new) /\ Cardinality(new) \in Nat
  <2>1. new \subseteq Ids
    BY DEF Of, TypeOKd
  <2> QED
    BY <2>1, FiniteCount
<1>4. IsFiniteSet(InEffect(it)) /\ Cardinality(InEffect(it)) \in Nat
  BY InEffectType
<1>5. /\ scheduled_downtime_depth'[it] = scheduled_downtime_depth[it] + Cardinality(new)
      /\ in_scheduled_downtime'[it] <=> in_scheduled_downtime[it] \/ new # {}
  BY DEF EnterAll
<1>6. new = {} <=> Cardinality(new) = 0
  BY <1>3, FS_EmptySet
<1> HIDE DEF new
<1>7. Cardinality(InEffect(it)') = Cardinality(InEffect(it)) + Cardinality(new)
  <2>1. Cardinality(InEffect(it) \cup new) = Cardinality(InEffect(it)) + Cardinality(new)
    <3>1. PICK old : old = InEffect(it)
      OBVIOUS
    <3>2. IsFiniteSet(old) /\ IsFiniteSet(new) /\ old \cap new = {}
      BY <1>2, <1>3, <1>4, <3>1
    <3>3. Cardinality(old \cup new) = Cardinality(old) + Cardinality(new)
      <4>1. Cardinality(old \cup new)
              = Cardinality(old) + Cardinality(new) - Cardinality(old \cap new)
        BY <3>2, FS_Union, Zenon
      <4>2. Cardinality(old \cap new) = 0
        BY <3>2, FS_EmptySet
      <4>3. Cardinality(old) \in Nat /\ Cardinality(new) \in Nat
        BY <1>3, <1>4, <3>1
      <4> QED
        BY <4>1, <4>2, <4>3
    <3> QED
      BY <3>1, <3>3
  <2> QED
    BY <1>2, <2>1
<1> QED
  BY <1>1, <1>3, <1>4, <1>5, <1>6, <1>7

\* A downtime in effect is left or cancelled.
LEMMA LeaveCounts ==
    ASSUME TypeOKd, DepthCounts, regular, UNCHANGED <<downtimes, ref>>,
           NEW d \in downtimes, is_in_effect[d],
           is_in_effect' = [is_in_effect EXCEPT ![d] = FALSE],
           scheduled_downtime_depth' = [it \in Refs |->
             scheduled_downtime_depth[it] - Cardinality(Of({d}, it))],
           \A it \in Refs :
             in_scheduled_downtime'[it] <=>
               /\ in_scheduled_downtime[it]
               /\ it \in ref[d] => scheduled_downtime_depth'[it] > 0
    PROVE  DepthCounts'
<1> SUFFICES ASSUME NEW it \in Refs
             PROVE  /\ scheduled_downtime_depth'[it] = Cardinality(InEffect(it)')
                    /\ in_scheduled_downtime'[it] <=> scheduled_downtime_depth'[it] > 0
  BY DEF DepthCounts, InEffect
<1>1. /\ scheduled_downtime_depth[it] = Cardinality(InEffect(it))
      /\ in_scheduled_downtime[it] <=> scheduled_downtime_depth[it] > 0
  BY DEF DepthCounts, InEffect
<1>2. IsFiniteSet(InEffect(it)) /\ Cardinality(InEffect(it)) \in Nat
  BY InEffectType
<1>3. \A e \in downtimes : e \in Ids
  BY DEF TypeOKd
<1>4. \A e \in Ids : is_in_effect'[e] <=> e # d /\ is_in_effect[e]
  BY DEF TypeOKd
<1>5. InEffect(it)' = InEffect(it) \ {d}
  BY <1>3, <1>4 DEF InEffect, Of
<1>6. d \in InEffect(it) <=> it \in ref[d]
  BY DEF InEffect, Of
<1>7. Cardinality(InEffect(it)') = Cardinality(InEffect(it)) - IF it \in ref[d] THEN 1 ELSE 0
  <2>1. CASE it \in ref[d]
    BY <1>2, <1>5, <1>6, <2>1, FS_RemoveElement
  <2>2. CASE it \notin ref[d]
    <3>1. InEffect(it)' = InEffect(it)
      BY <1>5, <1>6, <2>2
    <3> QED
      BY <1>2, <2>2, <3>1
  <2> QED
    BY <2>1, <2>2
<1>8. scheduled_downtime_depth'[it]
        = scheduled_downtime_depth[it] - IF it \in ref[d] THEN 1 ELSE 0
  BY OfOne
<1>9. in_scheduled_downtime'[it] <=> /\ in_scheduled_downtime[it]
                                     /\ it \in ref[d] => scheduled_downtime_depth'[it] > 0
  OBVIOUS
<1>10. PICK n, m : n = Cardinality(InEffect(it)) /\ m = Cardinality(InEffect(it)')
  OBVIOUS
<1>11. n \in Nat /\ m = n - (IF it \in ref[d] THEN 1 ELSE 0)
  BY <1>2, <1>7, <1>10
<1>12. scheduled_downtime_depth'[it] = m
  BY <1>1, <1>8, <1>10, <1>11
<1>13. in_scheduled_downtime'[it] <=> m > 0
  BY <1>1, <1>9, <1>10, <1>11, <1>12
<1> QED
  BY <1>10, <1>12, <1>13

LEMMA DepthStep ==
    ASSUME InvD, [NextD]_varsD, TypeOKd'
    PROVE  DepthCounts'
<1> USE DEF InvD
<1>1. CASE ~regular'
  BY <1>1 DEF DepthCounts
<1>2. CASE Reload
  BY <1>2 DEF Reload, DepthCounts, Of, dtVars
<1>3. ASSUME regular', ~Reload PROVE regular
  <2>1. CASE \/ \E it \in Refs, by \in Ids : ScheduleTriggered(it, by)
             \/ \E d \in Ids : DelDowntime(d)
    BY <1>3, <2>1 DEF ScheduleTriggered, DelDowntime
  <2>2. CASE \/ \E it \in Refs, fx \in BOOLEAN : ScheduleDowntime(it, fx)
             \/ \E d \in Ids : TimePasses(d) \/ UpdateDowntime(d)
             \/ \E it \in Refs : BeginMaintenance(it) \/ InMaintenance(it)
                                    \/ CheckForFlexible(it)
             \/ BeginUpdate \/ MaintenanceDone \/ UpdateDone \/ DeleteMarked \/ EndTick
             \/ UNCHANGED varsD
    BY <1>3, <2>2 DEF ScheduleDowntime, TimePasses, UpdateDowntime, BeginMaintenance,
         InMaintenance, CheckForFlexible, BeginUpdate, MaintenanceDone, UpdateDone,
         DeleteMarked, EndTick, varsD
  <2> QED
    BY <1>3, <2>1, <2>2 DEF NextD, Tick
<1>4. CASE regular /\ UNCHANGED <<downtimes, ref, is_in_effect, itemVars>>
  BY <1>4, SameCount DEF InEffect, Of
<1>5. ASSUME regular, UNCHANGED <<is_in_effect, itemVars>>,
             NEW it, NEW fx, NEW triggered, NEW now, NewDowntime(it, fx, triggered, now)
      PROVE  DepthCounts'
  <2>1. nextId \in Ids /\ ~is_in_effect[nextId] /\ nextId \notin downtimes
    BY <1>5 DEF NewDowntime, FreshIds, TypeOKd
  <2>2. /\ downtimes' = downtimes \cup {nextId}
        /\ \A d \in downtimes : d \in Ids /\ d # nextId
    BY <1>5, <2>1 DEF NewDowntime, TypeOKd
  <2>3. \A d \in downtimes : ref'[d] = ref[d]
    BY <1>5, <2>2 DEF NewDowntime, TypeOKd
  <2>4. \A i \in Refs : InEffect(i)' = InEffect(i)
    BY <1>5, <2>1, <2>2, <2>3 DEF InEffect, Of
  <2> QED
    BY <1>5, <2>4, SameCount
<1>6. ASSUME regular, NEW it \in Refs, NEW fx \in BOOLEAN, ScheduleDowntime(it, fx)
      PROVE  DepthCounts'
  BY <1>5, <1>6 DEF ScheduleDowntime
<1>7. ASSUME regular, NEW it \in Refs, NEW by \in Ids, ScheduleTriggered(it, by)
      PROVE  DepthCounts'
  <2>1. UNCHANGED <<is_in_effect, itemVars>>
        /\ \E now \in BOOLEAN, fx \in BOOLEAN : NewDowntime(it, fx, TRUE, now)
    BY <1>7 DEF ScheduleTriggered
  <2> QED
    BY <1>5, <1>7, <2>1
<1>8. ASSUME regular, regular', NEW d \in Ids, DelDowntime(d) PROVE DepthCounts'
  <2>1. d \in downtimes /\ is_in_effect[d] /\ UNCHANGED <<downtimes, ref>>
        /\ CancelAll(Tree(d))
    BY <1>8 DEF DelDowntime, dtVars
  <2>2. Tree(d) = {d}
    BY <1>8, <2>1, TreeOfOne DEF NoTriggers
  <2>3. is_in_effect' = [is_in_effect EXCEPT ![d] = FALSE]
    BY <2>1, <2>2 DEF CancelAll, Set, TypeOKd
  <2>4. scheduled_downtime_depth' = [it \in Refs |->
             scheduled_downtime_depth[it] - Cardinality(Of({d}, it))]
    BY <2>1, <2>2 DEF CancelAll
  <2>5. ASSUME NEW it \in Refs
        PROVE  in_scheduled_downtime'[it] <=>
                 /\ in_scheduled_downtime[it]
                 /\ it \in ref[d] => scheduled_downtime_depth'[it] > 0
    <3>1. in_scheduled_downtime'[it] <=>
            /\ in_scheduled_downtime[it]
            /\ ~(scheduled_downtime_depth[it] > 0 /\ scheduled_downtime_depth'[it] <= 0)
      BY <2>1 DEF CancelAll
    <3>2. scheduled_downtime_depth'[it]
            = scheduled_downtime_depth[it] - IF it \in ref[d] THEN 1 ELSE 0
      BY <2>4, OfOne
    <3>3. scheduled_downtime_depth[it] \in Int
          /\ (in_scheduled_downtime[it] <=> scheduled_downtime_depth[it] > 0)
      BY <1>8 DEF DepthCounts, TypeOKd
    <3> QED
      BY <3>1, <3>2, <3>3
  <2> QED
    BY <1>8, <2>1, <2>3, <2>4, <2>5, LeaveCounts
<1>9. ASSUME regular, NEW it \in Refs, BeginMaintenance(it) PROVE DepthCounts'
  BY <1>5, <1>9 DEF BeginMaintenance
<1>10. ASSUME regular, NEW d \in Ids, UpdateDowntime(d) PROVE DepthCounts'
  <2>1. d \in downtimes /\ UNCHANGED <<downtimes, ref>>
    BY <1>10 DEF UpdateDowntime, VisitsKnown, dtVars
  <2>2. Tree(d) = {d}
    BY <1>10, <2>1, TreeOfOne DEF NoTriggers
  <2>3. CASE DowntimeExit(d) /\ is_in_effect[d]
    <3>1. /\ is_in_effect' = [is_in_effect EXCEPT ![d] = FALSE]
          /\ scheduled_downtime_depth' = [it \in Refs |->
               scheduled_downtime_depth[it] - Cardinality(Of({d}, it))]
          /\ in_scheduled_downtime' = [it \in Refs |->
               /\ in_scheduled_downtime[it]
               /\ it \in ref[d] => scheduled_downtime_depth'[it] > 0]
      BY <2>3 DEF DowntimeExit
    <3>2. \A it \in Refs :
             in_scheduled_downtime'[it] <=>
               /\ in_scheduled_downtime[it]
               /\ it \in ref[d] => scheduled_downtime_depth'[it] > 0
      BY <3>1
    <3> QED
      BY <1>10, <2>1, <2>3, <3>1, <3>2, LeaveCounts
  <2>4. CASE DowntimeExit(d) /\ ~is_in_effect[d]
    <3>1. is_in_effect' = is_in_effect /\ UNCHANGED itemVars
      BY <2>4 DEF DowntimeExit, TypeOKd
    <3> QED
      BY <1>4, <1>10, <2>1, <3>1
  <2>5. CASE EnterAll({d}) /\ ~is_in_effect[d]
    BY <1>10, <2>1, <2>5, EnterCounts
  <2>6. CASE UNCHANGED <<is_in_effect, itemVars>>
    BY <1>4, <1>10, <2>1, <2>6
  <2> QED
    BY <1>10, <2>2, <2>3, <2>4, <2>5, <2>6 DEF UpdateDowntime
<1>11. CASE regular /\ DeleteMarked
  <2>1. /\ downtimes' = {d \in downtimes : ~can_be_deleted[d]}
        /\ UNCHANGED <<ref, is_in_effect, itemVars>>
    BY <1>11 DEF DeleteMarked, dtVars
  <2>2. \A d \in downtimes : can_be_deleted[d] => ~is_in_effect[d]
    BY <1>11 DEF MarkedIsOut
  <2>3. \A it \in Refs : InEffect(it)' = InEffect(it)
    BY <2>1, <2>2 DEF InEffect, Of
  <2> QED
    BY <1>11, <2>1, <2>3, SameCount
<1>12. ASSUME regular, NEW it \in Refs, CheckForFlexible(it) PROVE DepthCounts'
  <2>1. UNCHANGED <<downtimes, ref>>
    BY <1>12 DEF CheckForFlexible, dtVars
  <2>2. CASE UNCHANGED <<is_in_effect, ended, itemVars>>
    BY <1>4, <1>12, <2>1, <2>2
  <2>3. CASE EnterAll(UNION {Tree(d) : d \in Flexible(it)})
    <3>1. \A d \in Flexible(it) : d \in downtimes /\ ~is_in_effect[d]
      BY DEF Flexible, Of
    <3>2. \A d \in Flexible(it) : Tree(d) = {d}
      BY <1>12, <3>1, TreeOfOne DEF NoTriggers, TypeOKd
    <3>3. UNION {Tree(d) : d \in Flexible(it)} = Flexible(it)
      BY <3>2
    <3> QED
      BY <1>12, <2>1, <2>3, <3>1, <3>3, EnterCounts
  <2> QED
    BY <1>12, <2>2, <2>3 DEF CheckForFlexible
<1>13. CASE /\ regular
            /\ \/ BeginUpdate \/ MaintenanceDone \/ UpdateDone \/ EndTick
               \/ \E d \in Ids : TimePasses(d)
               \/ \E it \in Refs : InMaintenance(it)
               \/ UNCHANGED varsD
  <2>1. UNCHANGED <<downtimes, ref, is_in_effect, itemVars>>
    BY <1>13 DEF BeginUpdate, MaintenanceDone, UpdateDone, EndTick, TimePasses,
                 InMaintenance, varsD, dtVars
  <2> QED
    BY <1>4, <1>13, <2>1
<1> QED
  BY <1>1, <1>2, <1>3, <1>6, <1>7, <1>8, <1>9, <1>10, <1>11, <1>12, <1>13 DEF NextD, Tick

-----------------------------------------------------------------------------
(* The theorems *)

LEMMA InitInvD == InitD => InvD
<1> SUFFICES ASSUME InitD PROVE InvD
  OBVIOUS
<1> USE DEF InitD
<1>1. TypeOKd
  BY DEF TypeOKd
<1>2. FreshIds /\ NoTriggers /\ MarkedIsOut /\ VisitsKnown /\ MaintenanceIsKnown
  BY DEF FreshIds, NoTriggers, MarkedIsOut, VisitsKnown, MaintenanceIsKnown
<1>3. DepthCounts
  <2>1. \A it \in Refs : {d \in Of(downtimes, it) : is_in_effect[d]} = {}
    BY DEF Of
  <2>2. \A it \in Refs : Cardinality({d \in Of(downtimes, it) : is_in_effect[d]}) = 0
    BY <2>1, FS_EmptySet
  <2>3. \A it \in Refs : scheduled_downtime_depth[it] = 0 /\ ~in_scheduled_downtime[it]
    OBVIOUS
  <2> HIDE DEF InitD
  <2> QED
    BY <2>2, <2>3 DEF DepthCounts
<1> QED
  BY <1>1, <1>2, <1>3 DEF InvD

LEMMA NextInvD == InvD /\ [NextD]_varsD => InvD'
<1> SUFFICES ASSUME InvD, [NextD]_varsD PROVE InvD'
  OBVIOUS
<1>1. TypeOKd'
  BY TypeStep DEF InvD
<1>2. FreshIds' /\ VisitsKnown' /\ NoTriggers' /\ MarkedIsOut' /\ MaintenanceIsKnown'
  BY FreshIdsStep, VisitsKnownStep, NoTriggersStep, MarkedIsOutStep, MaintenanceStep DEF InvD
<1>3. DepthCounts'
  BY <1>1, DepthStep
<1> QED
  BY <1>1, <1>2, <1>3 DEF InvD

\* The inductive invariant, for any number of downtimes, items, ticks and reloads.
THEOREM DowntimeInvariance == SpecD => []InvD
  BY InitInvD, NextInvD, PTL DEF SpecD

\* Depths are integers, and trees of triggered downtimes hold downtimes only.
THEOREM DowntimeTypes == SpecD => []TypeOKd
<1>1. InvD => TypeOKd
  BY DEF InvD
<1> QED
  BY <1>1, DowntimeInvariance, PTL

\* scheduled_downtime_depth is the number of the item's downtimes in effect while
\* operators delete only such downtimes and trigger none (downtime.py enter, exit
\* and cancel; schedulingitem.py reprocess_ack_and_downtimes_state).
THEOREM TheDepthCounts == SpecD => []DepthCounts
<1>1. InvD => DepthCounts
  BY DEF InvD
<1> QED
  BY <1>1, DowntimeInvariance, PTL

\* in_maintenance names a downtime the scheduler has, whatever is deleted
\* (scheduler.py update_downtimes_and_comments).
THEOREM MaintenancesAreKnown == SpecD => []MaintenanceIsKnown
<1>1. InvD => MaintenanceIsKnown
  BY DEF InvD
<1> QED
  BY <1>1, DowntimeInvariance, PTL

=============================================================================
