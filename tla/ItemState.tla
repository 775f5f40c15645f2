------------------------------ MODULE ItemState ------------------------------
(***************************************************************************)
(* The state of hosts and services: consume_state_result and the problem / *)
(* impact relation of shinken/objects/schedulingitem.py, the state of      *)
(* shinken/objects/host.py and service.py, the acknowledgement of          *)
(* shinken/objects/item.py and the reload of shinken/scheduler.py.         *)
(*                                                                         *)
(* A world w maps every item to its attributes; an operator named as a     *)
(* method is that method, from world to world.  last_state,                *)
(* last_state_type and was_in_hard_unknown_reach_phase are written before  *)
(* they are read in each call of consume_state_result: they are parameters *)
(* of its parts, not attributes.  Attributes that are not read before they *)
(* are written again have their first value: state_before_impact and       *)
(* state_changed_since_impact of an item that is no impact, and            *)
(* state_before_hard_unknown_reach_phase out of that phase.  What the      *)
(* call asks of the rest of the scheduler (notifications, event handlers)  *)
(* is the sequence of its calls.                                           *)
(***************************************************************************)
EXTENDS Integers, FiniteSets, SequencesExt, FiniteSetsExt, Lists

CONSTANTS
    Host, Service,       \* the items
    Dep,                 \* the links act_depend_of, in the order they were made
    Period,              \* time periods of links and of modulations
    Modulation,          \* business_impact_modulations: item -> <<period, value>>
    max_check_attempts,
    own_business_impact, \* business_impact in the configuration
    wants_unreachable,   \* items with 'u' in their notification_options
    is_volatile,         \* services that are volatile
    use_aggressive_host_checking,
    Watched,             \* bound: items that are acknowledged and have a history
    Exit,                \* bound: the exit statuses of the checks of an item
    Changes              \* values of enable_problem_impacts_states_change

Items == Host \cup Service

Link == ToSet(Dep)

\* No host is a service, and what is configured of an item is there.
ASSUME ItemAssumption ==
    /\ IsFiniteSet(Host) /\ IsFiniteSet(Service) /\ Host \cap Service = {}
    /\ max_check_attempts \in [Items -> Nat \ {0}]
    /\ own_business_impact \in [Items -> Nat]
    /\ \A i \in DOMAIN Modulation : Modulation[i][2] \in Nat
    /\ Watched \subseteq Items /\ Changes \subseteq BOOLEAN

\* A link points at something that is checked before: there is no loop.
ASSUME LinkAssumption ==
    /\ Dep \in Seq(Link)
    /\ \A d \in Link :
         /\ d.type \in {"logic_dep", "network_dep", "business_dep"}
         /\ d.son \in Items /\ d.dep \in Items
    /\ \E rank \in [Items -> 1..Cardinality(Items)] :
         \A d \in Link : rank[d.dep] < rank[d.son]

\* The scheduler goes through its hosts, then through its services.
Everyone == SetToSeq(Host) \o SetToSeq(Service)

VARIABLES
    enable_problem_impacts_states_change, \* of the configuration it was given,
        \* with enable_problem_impacts_states_reprocessing, which needs it
    item,   \* the attributes of every item
    valid,  \* the periods that are valid now
    told    \* history: the NON-OK state that a PROBLEM was last asked for, until
            \* a result says that the item is in another one

vars == <<enable_problem_impacts_states_change, item, valid, told>>

None == "none"

HostState == {"PENDING", "UP", "DOWN", "UNREACHABLE"}
ServiceState == {"PENDING", "OK", "WARNING", "CRITICAL", "UNKNOWN"}
Undetermined == {"UNREACHABLE", "UNKNOWN"}
Fine == {"OK", "UP"}

Attributes ==
    [state : HostState \cup ServiceState, state_type : {"SOFT", "HARD"},
     attempt : Nat, ack : {None, "normal", "sticky"},
     is_problem : BOOLEAN, is_impact : BOOLEAN,
     impacts : SUBSET Items, source_problems : SUBSET Items,
     state_before_impact : HostState \cup ServiceState,
     state_changed_since_impact : BOOLEAN,
     in_phase : BOOLEAN,                                 \* ..._hard_unknown_reach_phase
     state_before_phase : HostState \cup ServiceState,
     business_impact : Nat, problem_id : BOOLEAN]        \* current_problem_id is not 0

World == [Items -> Attributes]

TypeOK ==
    /\ enable_problem_impacts_states_change \in Changes
    /\ item \in World
    /\ \A i \in Items : item[i].attempt <= max_check_attempts[i]
    /\ \A h \in Host : item[h].state \in HostState
    /\ \A s \in Service : item[s].state \in ServiceState
    /\ valid \subseteq Period
    /\ told \in [Watched -> {None, "again"} \cup HostState \cup ServiceState]

-----------------------------------------------------------------------------
(* The links.  A business_dep is only known by the item that impacts.      *)

act_depend_of(i) == {d \in Link : d.son = i /\ d.type # "business_dep"}
act_depend_of_me(i) == Filter(Dep, {d \in Link : d.dep = i})

Letter ==
    [UP |-> "o", OK |-> "o", DOWN |-> "d", UNREACHABLE |-> "u",
     WARNING |-> "w", CRITICAL |-> "c", UNKNOWN |-> "u", PENDING |-> ""]

\* Whether i is in one of the states a link names.
Matches(w, i, status) == Letter[w[i].state] \in status

InTime(d) == d.period = None \/ d.period \in valid

Down(w, i, type) ==
    {d \in act_depend_of(i) : d.type = type /\ Matches(w, d.dep, d.status)}
Links(i, type) == {d \in act_depend_of(i) : d.type = type}

is_no_action_dependent(w, i) ==
    \/ Down(w, i, "logic_dep") # {}
    \/ /\ Down(w, i, "network_dep") = Links(i, "network_dep")
       /\ i \notin wants_unreachable

\* check_and_set_unreachability; set_unreachable of a service does nothing.
check_and_set_unreachability(w, i) ==
    IF /\ i \in Host
       /\ Links(i, "network_dep") # {}
       /\ Down(w, i, "network_dep") = Links(i, "network_dep")
    THEN [w EXCEPT ![i].state = "UNREACHABLE"]
    ELSE w

-----------------------------------------------------------------------------
(* Problems and impacts.                                                   *)

update_business_impact_value(w, i) ==
    LET in_modulation == i \in DOMAIN Modulation /\ Modulation[i][1] \in valid
        base == IF in_modulation THEN Modulation[i][2] ELSE w[i].business_impact
        max == Max({base} \cup {w[e].business_impact : e \in w[i].impacts})
        value == IF w[i].impacts # {} THEN max
                 ELSE IF in_modulation THEN base
                 ELSE own_business_impact[i]
    IN [w EXCEPT ![i].business_impact = value]

set_impact_state(w, i) ==
    IF ~enable_problem_impacts_states_change THEN w
    ELSE [w EXCEPT ![i].state_before_impact = w[i].state,
                   ![i].state_changed_since_impact = FALSE,
                   ![i].state = IF i \in Host THEN "UNREACHABLE" ELSE "UNKNOWN"]

unset_impact_state(r) ==
    LET back == enable_problem_impacts_states_change /\ ~r.state_changed_since_impact
    IN [r EXCEPT !.state = IF back THEN r.state_before_impact ELSE @,
                 !.state_before_impact = "PENDING",
                 !.state_changed_since_impact = FALSE]

\* source_problems.remove raises a ValueError when pb is not there: the state
\* is then the one before, and MutualImpacts says that it never happens.
deregister_a_problem(r, pb) ==
    LET left == r.source_problems \ {pb}
        r1 == [r EXCEPT !.source_problems = left, !.is_impact = left # {}]
    IN IF left = {} THEN unset_impact_state(r1) ELSE r1

\* Mutant: the impacts are dropped before they are told.
no_more_a_problemDropsFirst(w, i) ==
    update_business_impact_value(
        [w EXCEPT ![i].is_problem = FALSE, ![i].impacts = {}], i)

no_more_a_problem(w, i) ==
    LET freed == [e \in Items |-> IF e \in w[i].impacts
                                  THEN deregister_a_problem(w[e], i) ELSE w[e]]
    IN update_business_impact_value(
        IF w[i].is_problem
        THEN [freed EXCEPT ![i].is_problem = FALSE, ![i].impacts = {}]
        ELSE w, i)

Found == [w : World, found : SUBSET Items]

\* i tells of a problem all that depend on it: register[w][d.son] is what
\* register_a_problem of d.son does in the world w.
Spread(register, start, i) ==
    Through([acc \in Found |-> [d \in Link |->
                IF Matches(acc.w, i, d.status) /\ InTime(d)
                THEN LET r == register[acc.w][d.son]
                     IN [w |-> r.w, found |-> acc.found \cup r.found]
                ELSE acc]],
            start, act_depend_of_me(i))

\* i is in the impacts of pb from now on, and is no problem of its own.
become_impact(w, i, pb) ==
    LET w1 == [w EXCEPT ![i].is_impact = TRUE]
        w2 == IF w[i].is_problem THEN no_more_a_problem(w1, i) ELSE w1
        w3 == IF w[i].is_impact THEN w2 ELSE set_impact_state(w2, i)
    IN [w3 EXCEPT ![i].source_problems = @ \cup {pb}]

\* register_a_problem returns the impacts it found with the world.  It calls
\* itself, at most depth deep: as there is no loop, Cardinality(Items) is enough.
register_a_problem(pb) ==
    LET call[depth \in 0..Cardinality(Items)] ==
          [w \in World |-> [i \in Items |->
              IF pb \in w[i].source_problems \/ depth = 0
              THEN [w |-> w, found |-> {}]
              ELSE Spread(call[depth - 1],
                          [w |-> become_impact(w, i, pb), found |-> {i}], i)]]
    IN call[Cardinality(Items)]

set_myself_as_problem(w, i) ==
    LET r == Spread(register_a_problem(i),
                    [w |-> [w EXCEPT ![i].is_problem = TRUE], found |-> w[i].impacts], i)
    IN IF r.found = r.w[i].impacts THEN r.w
       ELSE update_business_impact_value([r.w EXCEPT ![i].impacts = r.found], i)

-----------------------------------------------------------------------------
(* consume_state_result and its parts.  They return a world and the calls. *)

Result(w, calls) == [w |-> w, calls |-> calls]

\* The exit status of a host that warns, and the state of an exit status.
Modulated(i, exit) ==
    IF i \in Host /\ exit = 1
    THEN IF use_aggressive_host_checking THEN 2 ELSE 0
    ELSE exit

StateOf(i, exit) ==
    IF i \in Host THEN IF exit = 0 THEN "UP" ELSE "DOWN"
    ELSE CASE exit = 0 -> "OK" [] exit = 1 -> "WARNING" [] exit = 3 -> "UNKNOWN"
           [] OTHER -> "CRITICAL"

\* last_state: the impact state of an item is not what it was checked to be.
LastState(w, i) ==
    IF /\ enable_problem_impacts_states_change
       /\ w[i].is_impact
       /\ ~w[i].state_changed_since_impact
    THEN w[i].state_before_impact
    ELSE w[i].state

set_state_from_exit_status(w, i, exit) ==
    [w EXCEPT ![i].state = StateOf(i, exit),
              ![i].state_changed_since_impact =
                  w[i].is_impact /\ enable_problem_impacts_states_change]

add_attempt(w, i) ==
    [w EXCEPT ![i].attempt = Min({@ + 1, max_check_attempts[i]})]
is_max_attempts(w, i) == w[i].attempt >= max_check_attempts[i]

unacknowledge_problem(w, i) == [w EXCEPT ![i].ack = None]
unacknowledge_problem_if_not_sticky(w, i) ==
    IF w[i].ack = "sticky" THEN w ELSE unacknowledge_problem(w, i)

\* Mutant: the state before the phase is not compared.
update_hard_unknown_phase_stateForgets(w, i, last, last_type) ==
    LET in == w[i].state \in Undetermined
    IN [w |-> [w EXCEPT ![i].in_phase = in], was |-> FALSE]

\* update_hard_unknown_phase_state; was is was_in_hard_unknown_reach_phase.
update_hard_unknown_phase_state(w, i, last, last_type) ==
    LET r == w[i]
        still == r.in_phase /\ r.state_type = "HARD" /\ last_type = "HARD"
        enters == ~still /\ r.state \in Undetermined /\ last # r.state
        in == enters \/ (still /\ r.state \in Undetermined)
    IN [w |-> [w EXCEPT ![i].in_phase = in,
                        ![i].state_before_phase =
                            IF enters THEN last ELSE IF in THEN @ ELSE "PENDING"],
        was |-> /\ r.in_phase
                /\ in \/ r.state = r.state_before_phase]

\* create_notifications, and set_myself_as_problem, of an item that is to blame.
Tell(no_action, type) == IF no_action THEN <<>> ELSE <<type>>
Blame(w, i, no_action) == IF no_action THEN w ELSE set_myself_as_problem(w, i)

\* Case 1: OK following a previous OK, or the first result.
OkAfterOk(w, i, last) ==
    LET w1 == unacknowledge_problem(w, i)
    IN Result(
        IF w[i].state_type = "SOFT" /\ last # "PENDING"
        THEN [w1 EXCEPT ![i].state_type =
                            IF is_max_attempts(w, i) THEN "HARD" ELSE "SOFT"]
        ELSE [w1 EXCEPT ![i].attempt = 1, ![i].state_type = "HARD"], <<>>)

\* Mutant: an item that recovers keeps its acknowledgement.
OkAfterNonOkAcknowledged(w, i, no_action) ==
    Result(no_more_a_problem([w EXCEPT ![i].attempt = 1,
                                       ![i].state_type = "HARD"], i),
           <<"remove">> \o Tell(no_action, "RECOVERY") \o <<"handler">>)

\* Case 2: OK following a NON-OK.
OkAfterNonOk(w, i, no_action) ==
    LET w1 == [unacknowledge_problem(w, i) EXCEPT ![i].attempt = 1,
                                                  ![i].state_type = "HARD"]
    IN IF w[i].state_type = "SOFT" THEN Result(w1, <<"handler">>)
       ELSE Result(no_more_a_problem(w1, i),
                   <<"remove">> \o Tell(no_action, "RECOVERY") \o <<"handler">>)

\* What an item does when it gets to a HARD NON-OK state.
GoesHard(w, i, no_action) ==
    Result(Blame([w EXCEPT ![i].state_type = "HARD"], i, no_action),
           <<"flexible", "remove">> \o Tell(no_action, "PROBLEM") \o <<"handler">>)

\* Case 4: NON-OK follows OK.
NonOkAfterOk(w, i, no_action) ==
    IF is_max_attempts(w, i) THEN GoesHard(w, i, no_action)
    ELSE Result([w EXCEPT ![i].attempt = 1, ![i].state_type = "SOFT"],
                <<"handler">>)

\* Case 5: NON-OK after NON-OK, SOFT then HARD.
SoftAgain(w, i, dependent, no_action) ==
    LET w1 == IF dependent THEN w ELSE add_attempt(w, i)
    IN IF is_max_attempts(w1, i) THEN GoesHard(w1, i, no_action)
       ELSE Result(w1, <<"handler">>)

HardAgain(w, i, last, last_type, after_downtime, no_action) ==
    LET asks == <<"remove">> \o Tell(no_action, "PROBLEM")
        phase == update_hard_unknown_phase_state(w, i, last, last_type)
        new == ~phase.w[i].in_phase /\ ~phase.was
    IN IF w[i].state # last
       THEN Result(Blame(IF new THEN unacknowledge_problem_if_not_sticky(phase.w, i)
                         ELSE phase.w, i, no_action),
                   IF new THEN asks ELSE <<>>)
       ELSE Result(Blame(w, i, no_action),
                   IF after_downtime THEN asks ELSE <<>>)

update_event_and_problem_id(w, i, last) ==
    IF \/ w[i].state # last /\ last # "PENDING"
       \/ w[i].state \notin Fine /\ last = "PENDING"
    THEN [w EXCEPT ![i].problem_id =
            IF w[i].state \in Fine THEN FALSE
            ELSE @ \/ last = "PENDING" \/ last \in Fine]
    ELSE w

\* A bad result of an item with links waits for no one: its dependencies are
\* judged, as they are, in the same call.
consume_state_result(w, i, status, dependent, after_downtime) ==
    LET exit == Modulated(i, status)
        last == LastState(w, i)
        last_type == w[i].state_type
        judged == exit # 0 /\ act_depend_of(i) # {}
        no_action == judged /\ is_no_action_dependent(w, i)
        w1 == set_state_from_exit_status(w, i, exit)
        wasFine == last \in Fine \cup {"PENDING"}
        w2 == IF judged THEN check_and_set_unreachability(w1, i) ELSE w1
        r ==
            CASE exit = 0 /\ wasFine -> OkAfterOk(w2, i, last)
              [] exit = 0 /\ ~wasFine -> OkAfterNonOk(w2, i, no_action)
              [] exit # 0 /\ i \in is_volatile ->
                   GoesHard([w2 EXCEPT ![i].attempt = 1], i, no_action)
              [] exit # 0 /\ i \notin is_volatile /\ wasFine ->
                   NonOkAfterOk(w2, i, no_action)
              [] exit # 0 /\ i \notin is_volatile /\ ~wasFine ->
                   IF w2[i].state_type = "SOFT"
                   THEN SoftAgain(w2, i, dependent, no_action)
                   ELSE HardAgain(w2, i, last, last_type, after_downtime,
                                  no_action)
    IN Result(update_event_and_problem_id(
                  update_hard_unknown_phase_state(r.w, i, last, last_type).w,
                  i, last), r.calls)

-----------------------------------------------------------------------------
(* Actions.                                                                *)

Pending(i) ==
    [state |-> "PENDING", state_type |-> "HARD", attempt |-> 0, ack |-> None,
     is_problem |-> FALSE, is_impact |-> FALSE,
     impacts |-> {}, source_problems |-> {},
     state_before_impact |-> "PENDING", state_changed_since_impact |-> FALSE,
     in_phase |-> FALSE,
     state_before_phase |-> "PENDING",
     business_impact |-> own_business_impact[i], problem_id |-> FALSE]

Init ==
    /\ enable_problem_impacts_states_change \in Changes
    /\ item = [i \in Items |-> Pending(i)]
    /\ valid = Period
    /\ told = [i \in Watched |-> None]

\* UNKNOWN and UNREACHABLE leave open what the item is.
Told(i, w, calls) ==
    CASE "PROBLEM" \in ToSet(calls) ->
            IF told[i] = w[i].state THEN "again" ELSE w[i].state
      [] "PROBLEM" \notin ToSet(calls) ->
            IF w[i].state \in Undetermined \cup {told[i]} THEN told[i] ELSE None

\* A result is consumed; dependent when another item's result asked for it.
Consume(i, status, dependent) ==
    \E r \in {consume_state_result(item, i, status, dependent, FALSE)} :
       /\ item' = r.w
       /\ told' = [j \in Watched |-> IF j = i THEN Told(i, r.w, r.calls) ELSE told[j]]
       /\ UNCHANGED valid

acknowledge_problem(i, sticky) ==
    /\ item[i].state \notin Fine
    /\ item' = [item EXCEPT ![i].ack = IF sticky THEN "sticky" ELSE "normal"]
    /\ UNCHANGED <<valid, told>>

\* REMOVE_HOST_ACKNOWLEDGEMENT, and an acknowledgement that expires.
RemoveAcknowledgement(i) ==
    /\ item[i].ack # None
    /\ item' = unacknowledge_problem(item, i)
    /\ UNCHANGED <<valid, told>>

PeriodChanges(p) ==
    /\ valid' = IF p \in valid THEN valid \ {p} ELSE valid \cup {p}
    /\ UNCHANGED <<item, told>>

\* Items that are no problem first: the value of a problem follows theirs.
update_business_values ==
    LET Update == [w \in World |->
                     [i \in Items |-> update_business_impact_value(w, i)]]
        calm == {i \in Items : ~item[i].is_problem}
        w1 == Through(Update, item, Filter(Everyone, calm))
    IN /\ item' = Through(Update, w1, Filter(Everyone, Items \ calm))
       /\ UNCHANGED <<valid, told>>

reprocess_problem_impact_state(w, i) ==
    check_and_set_unreachability(
        IF /\ ~is_no_action_dependent(w, i)
           /\ w[i].state \notin Fine \cup {"PENDING"}
           /\ w[i].state_type = "HARD"
        THEN set_myself_as_problem(w, i)
        ELSE w, i)

\* The attributes that are kept in the retention.
Restored(i) ==
    [Pending(i) EXCEPT
        !.state = item[i].state, !.state_type = item[i].state_type,
        !.attempt = item[i].attempt, !.ack = item[i].ack,
        !.in_phase = item[i].in_phase,
        !.state_before_phase = item[i].state_before_phase,
        !.problem_id = item[i].problem_id]

\* enable_problem_impacts_states_reprocessing goes with the state change.
\* The scheduler stops, and starts again from the retention it saved: the
\* hosts, then the services, are reprocessed once all of them are restored.
Restart ==
    LET w == [i \in Items |-> Restored(i)]
    IN /\ item' = IF enable_problem_impacts_states_change
                  THEN Through([v \in World |-> [i \in Items |->
                                    reprocess_problem_impact_state(v, i)]],
                               w, Everyone)
                  ELSE w
       /\ UNCHANGED <<valid, told>>

Step ==
    \/ \E i \in Items : \E status \in Exit[i] : Consume(i, status, FALSE)
    \/ \E d \in Link : \E status \in Exit[d.dep] : Consume(d.dep, status, TRUE)
    \/ \E i \in Watched, sticky \in BOOLEAN : acknowledge_problem(i, sticky)
    \/ \E i \in Items : RemoveAcknowledgement(i)
    \/ \E p \in Period : PeriodChanges(p)
    \/ update_business_values
    \/ Restart

Next == Step /\ UNCHANGED enable_problem_impacts_states_change

Spec == Init /\ [][Next]_vars

-----------------------------------------------------------------------------
(* Properties.                                                             *)

\* An item is in the impacts of a problem exactly when the problem is in its
\* source_problems, whatever order items fall and recover in: so
\* deregister_a_problem always finds the problem it removes, and no item stays
\* an impact of a problem that is over.
MutualImpacts ==
    \A i \in Items :
        /\ \A p \in Items : i \in item[p].impacts <=> p \in item[i].source_problems
        /\ \A p \in item[i].source_problems : item[p].is_problem
        /\ item[i].is_impact <=> item[i].source_problems # {}

\* A problem is an item whose last result was bad, in a HARD state: set by
\* set_myself_as_problem, it does not outlive a recovery or a reload.
\* (With the state change of impacts a reload takes an impact for a problem of
\* its own, see the README.)
ProblemIsHard ==
    ~enable_problem_impacts_states_change =>
        \A i \in Items :
            item[i].is_problem =>
                /\ item[i].state_type = "HARD"
                /\ item[i].state \notin Fine \cup {"PENDING"}

\* Once update_business_values has run, the value of a problem is at least the
\* value of each of its impacts that is no problem of its own, whatever
\* modulation started or ended meanwhile and whoever became an impact.
ImpactOutweighed ==
    [][\/ \A p \in Items : \A i \in item'[p].impacts :
             item'[i].is_problem
                 \/ item'[p].business_impact >= item'[i].business_impact
       \/ ~update_business_values]_vars

\* The state an item was last checked to be in.
Checked(i) == LastState(item, i)

\* An item has a problem id exactly while it was last checked to be NON-OK.
\* (With the state change of impacts it is lost by a reload, see the README.)
ProblemIdTells ==
    ~enable_problem_impacts_states_change =>
        \A i \in Items :
            item[i].problem_id <=> Checked(i) \notin Fine \cup {"PENDING"}

\* An item that is not volatile is NON-OK HARD only once its attempts are
\* exhausted, though results of dependency checks add none.
HardAfterAttempts ==
    ~enable_problem_impacts_states_change =>
        \A i \in Items \ is_volatile :
            (/\ item[i].state_type = "HARD"
             /\ item[i].state \notin Fine \cup {"PENDING"})
                => is_max_attempts(item, i)

\* An acknowledgement is of one problem: an item that falls after it was OK is
\* not silenced by an acknowledgement given earlier.
AcknowledgementEnds ==
    [][~enable_problem_impacts_states_change =>
        \A i \in Items :
            item[i].state \in Fine /\ item'[i].state \notin Fine
                => item'[i].ack = None]_vars

\* A HARD state is told once: contacts that were told that an item is CRITICAL
\* are not told again because it was UNKNOWN, or UNREACHABLE, for a while.
ToldOnce ==
    ~enable_problem_impacts_states_change =>
        \A i \in Watched \ is_volatile : told[i] # "again"

\* What is stored of an item tells what its checks said: a problem is HARD and bad,
\* has its id, its attempts are exhausted, and it was told of once.
StateTells ==
    /\ TypeOK
    /\ ProblemIsHard
    /\ ProblemIdTells
    /\ HardAfterAttempts
    /\ ToldOnce

\* What is derived from a state follows its changes: the value of a problem is
\* that of what it hurts, and an acknowledgement ends with its problem.
ProblemsAreFollowed == ImpactOutweighed /\ AcknowledgementEnds
=============================================================================
