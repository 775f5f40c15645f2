-------------------------- MODULE SchedulerProofs --------------------------
(***************************************************************************)
(* The invariants of Scheduler.tla, proved for every value of its          *)
(* constants.  One lemma per action shows that it keeps IInv; the lemma    *)
(* NewCheckStep is shared by the five places that launch a check.          *)
(***************************************************************************)
EXTENDS Scheduler, TLAPS
\* The id of the next Check is in no queue and in no list: Action.id only grows,
\* so Check.__init__ never hands out an id that is still in use.
LEMMA NextIdIsNew ==
    ASSUME IInv, nextId \in Ids
    PROVE  /\ status[nextId] = "none"
           /\ depend_on[nextId] = {}
           /\ nextId \notin checks
           /\ nextId \notin cur
           /\ \A it \in Items : /\ nextId \notin actions[it]
                                /\ nextId \notin checks_in_progress[it]
<1>1. status[nextId] = "none" /\ depend_on[nextId] = {}
  BY DEF IInv, TypeOK, UnusedIds
<1> QED
  BY <1>1 DEF IInv, QueueStatus, CurrentCheck, NewActions, InProgress, Live

\* launch_check keeps the invariant, whoever calls it: the new Check is live, not
\* consumed, registered with its item, and listed by every check it is raised for.
LEMMA NewCheckStep ==
    ASSUME IInv,
           NEW it \in Items, NEW st \in {"scheduled", "waitconsume"},
           NEW when \in Times, NEW dep_check \in SUBSET Ids, NEW in_progress \in BOOLEAN,
           NewCheck(it, st, when, dep_check, in_progress),
           UNCHANGED <<pc, cur, checks, active_checks_enabled, waiting_results,
                       consumed>>,
           todo' \subseteq Items,
           todo' # {} => todo # {},
           depend_on' = [d \in Ids |-> IF d \in dep_check
                                       THEN depend_on[d] \cup {nextId}
                                       ELSE depend_on[d]],
           \A d \in dep_check : status[d] = "waitdep"
    PROVE  IInv'
<1> DEFINE n == nextId
<1>1. /\ n \in Ids
      /\ nextId' = n + 1
      /\ status' = [status EXCEPT ![n] = st]
      /\ ref' = [ref EXCEPT ![n] = {it}]
      /\ t_to_go' = [t_to_go EXCEPT ![n] = when]
      /\ depend_on_me' = [depend_on_me EXCEPT ![n] = dep_check]
      /\ actions' = [actions EXCEPT ![it] = @ \cup {n}]
  BY DEF NewCheck
<1>2. /\ status[n] = "none"
      /\ depend_on[n] = {}
      /\ n \notin checks
      /\ n \notin cur
      /\ \A i \in Items : n \notin actions[i] /\ n \notin checks_in_progress[i]
  BY <1>1, NextIdIsNew
<1>3. \A i \in Items : checks_in_progress'[i] \subseteq
                         checks_in_progress[i] \cup (IF i = it THEN {n} ELSE {})
  BY <1>1 DEF NewCheck, IInv, TypeOK
<1>4. checks_in_progress' \in [Items -> SUBSET Ids]
  BY <1>1 DEF NewCheck, IInv, TypeOK
<1> HIDE DEF n
<1>5. TypeOK
  BY DEF IInv
<1>6. n \notin dep_check
  BY <1>2
<1>7. TypeOK'
  BY <1>1, <1>4, <1>5, IdsAssumption DEF TypeOK, Status, n
<1>8. UnusedIds'
  BY <1>1, <1>5, IdsAssumption DEF IInv, UnusedIds, TypeOK, n
<1>9. ConsumedState'
  BY <1>1, <1>2, <1>5 DEF IInv, ConsumedState, TypeOK
<1>10. CurrentCheck'
  BY <1>1, <1>2, <1>5 DEF IInv, CurrentCheck, TypeOK
<1>11. QueueStatus'
  BY <1>1, <1>2, <1>5 DEF IInv, QueueStatus, TypeOK
<1>12. NewActions'
  BY <1>1, <1>2, <1>5 DEF IInv, NewActions, TypeOK
<1>13. InProgress'
  BY <1>1, <1>2, <1>3, <1>4, <1>5 DEF IInv, InProgress, TypeOK, Live
<1>14. Waiting'
  BY <1>1, <1>2, <1>5, <1>6 DEF IInv, Waiting, TypeOK, n
<1> QED
  BY <1>7, <1>8, <1>9, <1>10, <1>11, <1>12, <1>13, <1>14 DEF IInv

\* The external commands keep the invariant. They run between two ticks, when a
\* check in progress is scheduled, at a poller or has its result.
LEMMA CommandStep ==
    ASSUME IInv, NEW it \in Items,
           \/ ScheduleForcedCheck(it)
           \/ ScheduleCheck(it)
           \/ DisableCheck(it)
           \/ EnableCheck(it)
           \/ ProcessCheckResult(it)
    PROVE  IInv'
<1>0. TypeOK
  BY DEF IInv
<1>1. ASSUME NEW st \in {"scheduled", "waitconsume"}, NEW when \in Times,
             NewCheck(it, st, when, {}, TRUE),
             UNCHANGED <<pc, todo, cur, checks, active_checks_enabled, depend_on,
                         waiting_results, consumed>>
      PROVE  IInv'
  <2>1. depend_on' = [d \in Ids |-> IF d \in {} THEN depend_on[d] \cup {nextId}
                                    ELSE depend_on[d]]
    BY <1>0, <1>1 DEF TypeOK
  <2>2. todo' \subseteq Items /\ (todo' # {} => todo # {})
    BY <1>0, <1>1 DEF TypeOK
  <2>3. UNCHANGED <<pc, cur, checks, active_checks_enabled, waiting_results,
                    consumed>>
    BY <1>1
  <2>4. {} \in SUBSET Ids /\ TRUE \in BOOLEAN /\ \A d \in {} : status[d] = "waitdep"
    OBVIOUS
  <2> QED
    BY <1>1, <2>1, <2>2, <2>3, <2>4, NewCheckStep, Zenon
<1>2. ASSUME NEW c \in checks_in_progress[it],
             t_to_go' = [t_to_go EXCEPT ![c] = "due"],
             \/ UNCHANGED status
             \/ status' = [status EXCEPT ![c] = "waitconsume"],
             pc = "requests",
             UNCHANGED <<nextId, ref, depend_on_me, checks_in_progress, actions,
                         pc, todo, cur, checks, active_checks_enabled, depend_on,
                         waiting_results, consumed>>
      PROVE  IInv'
  <2>1. /\ c \in Ids
        /\ status[c] \in {"scheduled", "inpoller", "waitconsume"}
        /\ consumed[c] = 0
        /\ depend_on[c] = {}
    <3>1. c \in Ids /\ status[c] \in Live
      BY <1>0 DEF IInv, InProgress, TypeOK
    <3>2. status[c] # "waitdep"
      BY <3>1, <1>2 DEF IInv, CurrentCheck, QueueStatus
    <3> QED
      BY <3>1, <3>2 DEF IInv, ConsumedState, Waiting, Live
  <2>2. status' \in [Ids -> Status] /\ t_to_go' \in [Ids -> Times]
    BY <1>0, <1>2, <2>1 DEF TypeOK, Status, Times
  <2>3. TypeOK'
    BY <1>0, <1>2, <2>2 DEF TypeOK
  <2>4. UnusedIds'
    BY <1>0, <1>2, <2>1 DEF IInv, UnusedIds, TypeOK
  <2>5. ConsumedState'
    BY <1>0, <1>2, <2>1 DEF IInv, ConsumedState, TypeOK
  <2>6. CurrentCheck'
    BY <1>0, <1>2, <2>1 DEF IInv, CurrentCheck, TypeOK
  <2>7. QueueStatus'
    BY <1>0, <1>2, <2>1 DEF IInv, QueueStatus, TypeOK
  <2>8. NewActions'
    BY <1>0, <1>2, <2>1 DEF IInv, NewActions, TypeOK
  <2>9. InProgress'
    BY <1>0, <1>2, <2>1 DEF IInv, InProgress, TypeOK, Live
  <2>10. Waiting'
    BY <1>0, <1>2, <2>1 DEF IInv, Waiting, TypeOK
  <2> QED
    BY <2>3, <2>4, <2>5, <2>6, <2>7, <2>8, <2>9, <2>10 DEF IInv
<1>3. CASE ScheduleForcedCheck(it)
  BY <1>1, <1>2, <1>3 DEF ScheduleForcedCheck, IsFirstInProgress, Times
<1>4. CASE ScheduleCheck(it)
  BY <1>1, <1>4 DEF ScheduleCheck, Times
<1>5. CASE ProcessCheckResult(it)
  BY <1>1, <1>2, <1>5 DEF ProcessCheckResult, IsFirstInProgress, Times
<1>6. CASE EnableCheck(it)
  BY <1>6 DEF EnableCheck, IInv, TypeOK, UnusedIds, ConsumedState, CurrentCheck,
              QueueStatus, NewActions, InProgress, Waiting
<1>7. CASE DisableCheck(it)
  <2>1. \A c \in checks_in_progress[it] :
           /\ c \in Ids
           /\ status[c] \in {"scheduled", "inpoller", "waitconsume"}
           /\ consumed[c] = 0
           /\ depend_on[c] = {}
    <3>1. \A c \in checks_in_progress[it] : c \in Ids /\ status[c] \in Live
      BY <1>0 DEF IInv, InProgress, TypeOK
    <3>2. \A c \in checks_in_progress[it] : status[c] # "waitdep"
      BY <3>1, <1>7 DEF DisableCheck, IInv, CurrentCheck, QueueStatus
    <3> QED
      BY <3>1, <3>2 DEF IInv, ConsumedState, Waiting, Live
  <2>2. TypeOK'
    BY <1>0, <1>7 DEF DisableCheck, TypeOK, Status
  <2>3. UnusedIds'
    BY <1>0, <1>7, <2>1 DEF DisableCheck, IInv, UnusedIds, TypeOK
  <2>4. ConsumedState'
    BY <1>0, <1>7, <2>1 DEF DisableCheck, IInv, ConsumedState, TypeOK
  <2>5. CurrentCheck'
    BY <1>0, <1>7, <2>1 DEF DisableCheck, IInv, CurrentCheck, TypeOK
  <2>6. QueueStatus'
    BY <1>0, <1>7, <2>1 DEF DisableCheck, IInv, QueueStatus, TypeOK
  <2>7. NewActions'
    BY <1>0, <1>7, <2>1 DEF DisableCheck, IInv, NewActions, TypeOK
  <2>8. InProgress'
    BY <1>0, <1>7, <2>1 DEF DisableCheck, IInv, InProgress, TypeOK, Live
  <2>9. Waiting'
    BY <1>0, <1>7, <2>1 DEF DisableCheck, IInv, Waiting, TypeOK
  <2> QED
    BY <2>2, <2>3, <2>4, <2>5, <2>6, <2>7, <2>8, <2>9 DEF IInv
<1> QED
  BY <1>3, <1>4, <1>5, <1>6, <1>7

\* Handing launchable checks to a poller keeps the invariant.
LEMMA get_to_run_checksStep ==
    ASSUME IInv, NEW res \in SUBSET Ids, get_to_run_checks(res)
    PROVE  IInv'
<1>0. TypeOK
  BY DEF IInv
<1>1. \A c \in res : c \in checks /\ status[c] = "scheduled"
  BY DEF get_to_run_checks, CanRun
<1>2. TypeOK'
  BY <1>0 DEF get_to_run_checks, IInv, TypeOK, Status
<1>3. UnusedIds'
  BY <1>0, <1>1 DEF get_to_run_checks, IInv, UnusedIds, TypeOK
<1>4. ConsumedState'
  BY <1>0, <1>1 DEF get_to_run_checks, IInv, ConsumedState, TypeOK, Live
<1>5. CurrentCheck'
  BY <1>0, <1>1 DEF get_to_run_checks, IInv, CurrentCheck, TypeOK
<1>6. QueueStatus'
  BY <1>0, <1>1 DEF get_to_run_checks, IInv, QueueStatus, TypeOK
<1>7. NewActions'
  BY <1>0, <1>1 DEF get_to_run_checks, IInv, NewActions, TypeOK
<1>8. InProgress'
  BY <1>0, <1>1 DEF get_to_run_checks, IInv, InProgress, TypeOK, Live
<1>9. Waiting'
  BY <1>0, <1>1 DEF get_to_run_checks, IInv, Waiting, TypeOK
<1> QED
  BY <1>2, <1>3, <1>4, <1>5, <1>6, <1>7, <1>8, <1>9 DEF IInv

\* Queueing results keeps the invariant, at any point of a tick.
LEMMA PutResultsStep ==
    ASSUME IInv, NEW c \in Ids, PutResults({c})
    PROVE  IInv'
<1>1. TypeOK /\ TypeOK'
  BY DEF PutResults, IInv, TypeOK
<1> QED
  BY <1>1 DEF PutResults, IInv, TypeOK,
     UnusedIds, ConsumedState, CurrentCheck, QueueStatus,
     NewActions, InProgress, Waiting

\* The clock keeps the invariant.
LEMMA TimePassesStep ==
    ASSUME IInv, NEW c \in Ids,
           TimePasses(c) \/ compensate_system_time_change(c)
    PROVE  IInv'
<1>1. TypeOK /\ TypeOK'
  BY DEF TimePasses, compensate_system_time_change, IInv, TypeOK, Times
<1> QED
  BY <1>1 DEF TimePasses, compensate_system_time_change, IInv, TypeOK,
     UnusedIds, ConsumedState, CurrentCheck, QueueStatus,
     NewActions, InProgress, Waiting

\* A new configuration empties every queue; the old ids stay used.
LEMMA NewConfStep == IInv /\ NewConf => IInv'
<1> SUFFICES ASSUME IInv, NewConf PROVE IInv'
  OBVIOUS
<1>0. TypeOK
  BY DEF IInv
<1>1. TypeOK'
  BY <1>0, IdsAssumption
     DEF NewConf, Fresh, Forget, IInv, TypeOK, Works, Status, Times
<1>2. UnusedIds'
  BY <1>0, IdsAssumption DEF NewConf, Fresh, Forget, IInv, UnusedIds, TypeOK
<1>3. ConsumedState'
  BY <1>0, IdsAssumption
     DEF NewConf, Fresh, Forget, IInv, ConsumedState, TypeOK, UnusedIds, Live
<1>4. CurrentCheck'
  BY <1>0, IdsAssumption
     DEF NewConf, Fresh, Forget, IInv, CurrentCheck, TypeOK, UnusedIds
<1>5. QueueStatus'
  BY <1>0 DEF NewConf, Fresh, Forget, IInv, QueueStatus, TypeOK
<1>6. NewActions'
  BY <1>0 DEF NewConf, Fresh, Forget, IInv, NewActions, TypeOK
<1>7. InProgress'
  BY <1>0 DEF NewConf, Fresh, Forget, IInv, InProgress, TypeOK
<1>8. Waiting'
  BY <1>0, IdsAssumption
     DEF NewConf, Fresh, Forget, IInv, Waiting, TypeOK, UnusedIds
<1> QED
  BY <1>1, <1>2, <1>3, <1>4, <1>5, <1>6, <1>7, <1>8 DEF IInv

\* A restarted daemon is in an initial state.
LEMMA RestartStep == IInv /\ Restart => IInv'
<1> SUFFICES ASSUME IInv, Restart PROVE IInv'
  OBVIOUS
<1>1. TypeOK /\ TypeOK'
  BY DEF Restart, Fresh, IInv, TypeOK, Works, Status, Times
<1> QED
  BY <1>1, IdsAssumption DEF Restart, Fresh, IInv, TypeOK,
     UnusedIds, ConsumedState, CurrentCheck, QueueStatus,
     NewActions, InProgress, Waiting, Live

\* Starting a tick keeps the invariant.
LEMMA BeginTickStep == IInv /\ BeginTick => IInv'
<1> SUFFICES ASSUME IInv, BeginTick PROVE IInv'
  OBVIOUS
<1>1. TypeOK /\ TypeOK'
  BY DEF BeginTick, IInv, TypeOK, Works
<1> QED
  BY <1>1 DEF BeginTick, IInv, TypeOK,
     UnusedIds, ConsumedState, CurrentCheck, QueueStatus,
     NewActions, InProgress, Waiting

\* Scheduler.schedule ends.
LEMMA ScheduleDoneStep == IInv /\ ScheduleDone => IInv'
<1> SUFFICES ASSUME IInv, ScheduleDone PROVE IInv'
  OBVIOUS
<1>1. TypeOK /\ TypeOK'
  BY DEF ScheduleDone, IInv, TypeOK, Works
<1> QED
  BY <1>1 DEF ScheduleDone, IInv, TypeOK,
     UnusedIds, ConsumedState, CurrentCheck, QueueStatus,
     NewActions, InProgress, Waiting

\* check_freshness ends.
LEMMA FreshnessDoneStep == IInv /\ FreshnessDone => IInv'
<1> SUFFICES ASSUME IInv, FreshnessDone PROVE IInv'
  OBVIOUS
<1>1. TypeOK /\ TypeOK'
  BY DEF FreshnessDone, IInv, TypeOK, Works
<1> QED
  BY <1>1 DEF FreshnessDone, IInv, TypeOK,
     UnusedIds, ConsumedState, CurrentCheck, QueueStatus,
     NewActions, InProgress, Waiting

\* Filing the waiting results keeps the invariant: at that point of the tick every
\* check of the queue is scheduled, at a poller or has a result already.
LEMMA TakeResultsStep == IInv /\ TakeResults => IInv'
<1> SUFFICES ASSUME IInv, TakeResults PROVE IInv'
  OBVIOUS
<1>0. TypeOK
  BY DEF IInv
<1>1. \A c \in Answered : /\ c \in checks
                          /\ status[c] \in {"scheduled", "inpoller", "waitconsume"}
                          /\ consumed[c] = 0
                          /\ depend_on[c] = {}
  <2>1. \A c \in Answered : c \in checks /\ c \in Ids
    BY <1>0 DEF Answered, TypeOK
  <2>2. \A c \in Answered : status[c] \in {"scheduled", "inpoller", "waitconsume"}
    BY <1>0, <2>1 DEF TakeResults, IInv, QueueStatus, TypeOK, Status
  <2> QED
    BY <2>1, <2>2 DEF IInv, ConsumedState, Waiting, Live
<1>2. TypeOK'
  BY <1>0, <1>1 DEF TakeResults, IInv, TypeOK, Works, Status
<1>3. UnusedIds'
  BY <1>0, <1>1 DEF TakeResults, IInv, UnusedIds, TypeOK
<1>4. ConsumedState'
  BY <1>0, <1>1 DEF TakeResults, IInv, ConsumedState, TypeOK, Live
<1>5. CurrentCheck'
  BY <1>0, <1>1 DEF TakeResults, IInv, CurrentCheck, TypeOK
<1>6. QueueStatus'
  BY <1>0, <1>1 DEF TakeResults, IInv, QueueStatus, TypeOK
<1>7. NewActions'
  BY <1>0, <1>1 DEF TakeResults, IInv, NewActions, TypeOK
<1>8. InProgress'
  BY <1>0, <1>1 DEF TakeResults, IInv, InProgress, TypeOK, Live
<1>9. Waiting'
  BY <1>0, <1>1 DEF TakeResults, IInv, Waiting, TypeOK
<1> QED
  BY <1>2, <1>3, <1>4, <1>5, <1>6, <1>7, <1>8, <1>9 DEF IInv

\* A loop of consume_results ends: no check of the queue has an unread result and
\* none is waitdep.
LEMMA ConsumeDoneStep == IInv /\ ConsumeDone => IInv'
<1> SUFFICES ASSUME IInv, ConsumeDone PROVE IInv'
  OBVIOUS
<1>0. TypeOK
  BY DEF IInv
<1>1. \A c \in checks : pc = "consume" => status[c] # "waitconsume"
  BY DEF ConsumeDone, Ready
<1>2. \A c \in checks : status[c] # "waitdep"
  BY <1>0 DEF ConsumeDone, IInv, CurrentCheck, TypeOK
<1>3. TypeOK'
  BY <1>0 DEF ConsumeDone, IInv, TypeOK, Works
<1>4. UnusedIds'
  BY <1>0 DEF ConsumeDone, IInv, UnusedIds, TypeOK
<1>5. ConsumedState'
  BY <1>0 DEF ConsumeDone, IInv, ConsumedState, TypeOK
<1>6. CurrentCheck'
  BY <1>0 DEF ConsumeDone, IInv, CurrentCheck, TypeOK
<1>7. QueueStatus'
  BY <1>0, <1>1, <1>2 DEF ConsumeDone, IInv, QueueStatus, TypeOK
<1>8. NewActions'
  BY <1>0 DEF ConsumeDone, IInv, NewActions, TypeOK
<1>9. InProgress'
  BY <1>0 DEF ConsumeDone, IInv, InProgress, TypeOK
<1>10. Waiting'
  BY <1>0 DEF ConsumeDone, IInv, Waiting, TypeOK
<1> QED
  BY <1>3, <1>4, <1>5, <1>6, <1>7, <1>8, <1>9, <1>10 DEF IInv

\* Resolved dependency checks leave the lists of those who waited for them.
LEMMA ResolveDependenciesStep == IInv /\ ResolveDependencies => IInv'
<1> SUFFICES ASSUME IInv, ResolveDependencies PROVE IInv'
  OBVIOUS
<1>0. TypeOK
  BY DEF IInv
<1>1. \A c \in Ids : c \in Resolving <=> c \in checks /\ status[c] = "havetoresolvedep"
  BY DEF Resolving
<1>2. \A c \in Ids, d \in Ids :
         c \in depend_on[d] /\ c \notin Resolving => c \in depend_on'[d]
  BY <1>0 DEF ResolveDependencies, TypeOK
<1>3. TypeOK'
  BY <1>0 DEF ResolveDependencies, IInv, TypeOK, Works, Status
<1>4. UnusedIds'
  BY <1>0, <1>1 DEF ResolveDependencies, IInv, UnusedIds, TypeOK
<1>5. ConsumedState'
  BY <1>0, <1>1 DEF ResolveDependencies, IInv, ConsumedState, TypeOK, Live
<1>6. CurrentCheck'
  BY <1>0, <1>1 DEF ResolveDependencies, IInv, CurrentCheck, TypeOK
<1>7. QueueStatus'
  BY <1>0, <1>1 DEF ResolveDependencies, IInv, QueueStatus, TypeOK
<1>8. NewActions'
  BY <1>0, <1>1 DEF ResolveDependencies, IInv, NewActions, TypeOK
<1>9. InProgress'
  BY <1>0, <1>1 DEF ResolveDependencies, IInv, InProgress, TypeOK, Live
<1>10. Waiting'
  BY <1>0, <1>1, <1>2 DEF ResolveDependencies, IInv, Waiting, TypeOK
<1> QED
  BY <1>3, <1>4, <1>5, <1>6, <1>7, <1>8, <1>9, <1>10 DEF IInv

\* The new checks of the items join the queue.
LEMMA get_new_actionsStep == IInv /\ get_new_actions => IInv'
<1> SUFFICES ASSUME IInv, get_new_actions PROVE IInv'
  OBVIOUS
<1>0. TypeOK
  BY DEF IInv
<1>1. checks' \subseteq Ids
  BY <1>0 DEF get_new_actions, TypeOK
<1>2. \A c : c \in checks' <=> c \in checks \/ \E it \in Items : c \in actions[it]
  BY DEF get_new_actions
<1>3. TypeOK'
  BY <1>0, <1>1 DEF get_new_actions, IInv, TypeOK, Works
<1>4. UnusedIds'
  BY <1>0 DEF get_new_actions, IInv, UnusedIds, TypeOK
<1>5. ConsumedState'
  BY <1>0 DEF get_new_actions, IInv, ConsumedState, TypeOK
<1>6. CurrentCheck'
  BY <1>0, <1>2 DEF get_new_actions, IInv, CurrentCheck, TypeOK
<1>7. QueueStatus'
  BY <1>0, <1>2 DEF get_new_actions, IInv, QueueStatus, TypeOK, NewActions
<1>8. NewActions'
  BY <1>0 DEF get_new_actions, IInv, NewActions, TypeOK
<1>9. InProgress'
  BY <1>0, <1>2 DEF get_new_actions, IInv, InProgress, TypeOK
<1>10. Waiting'
  BY <1>0 DEF get_new_actions, IInv, Waiting, TypeOK
<1> QED
  BY <1>3, <1>4, <1>5, <1>6, <1>7, <1>8, <1>9, <1>10 DEF IInv

\* Zombies are deleted: nobody lists them as in progress.
LEMMA delete_zombie_checksStep == IInv /\ delete_zombie_checks => IInv'
<1> SUFFICES ASSUME IInv, delete_zombie_checks PROVE IInv'
  OBVIOUS
<1>0. TypeOK
  BY DEF IInv
<1> DEFINE dead == {c \in checks : status[c] = "zombie"}
<1>1. /\ checks' = checks \ dead
      /\ status' = [c \in Ids |-> IF c \in dead THEN "gone" ELSE status[c]]
      /\ t_to_go' = [c \in Ids |-> IF c \in dead THEN "future" ELSE t_to_go[c]]
      /\ todo' = Items
      /\ pc = "delete_zombie_checks" /\ pc' = "check_freshness"
  BY DEF delete_zombie_checks, Forget
<1>2. UNCHANGED <<cur, actions, checks_in_progress, active_checks_enabled, ref,
                  depend_on, depend_on_me, nextId, waiting_results, consumed>>
  BY DEF delete_zombie_checks
<1>4. TypeOK'
  BY <1>0, <1>1, <1>2 DEF IInv, TypeOK, Works, Status, Times
<1>5. UnusedIds'
  BY <1>0, <1>1, <1>2 DEF IInv, UnusedIds, TypeOK
<1>6. ConsumedState'
  BY <1>0, <1>1, <1>2 DEF IInv, ConsumedState, TypeOK, Live
<1>7. CurrentCheck'
  BY <1>0, <1>1, <1>2 DEF IInv, CurrentCheck, TypeOK
<1>8. QueueStatus'
  BY <1>0, <1>1, <1>2 DEF IInv, QueueStatus, TypeOK
<1>9. NewActions'
  BY <1>0, <1>1, <1>2 DEF IInv, NewActions, TypeOK
<1>10. InProgress'
  BY <1>0, <1>1, <1>2 DEF IInv, InProgress, TypeOK, Live
<1>11. Waiting'
  BY <1>0, <1>1, <1>2 DEF IInv, Waiting, TypeOK
<1> QED
  BY <1>4, <1>5, <1>6, <1>7, <1>8, <1>9, <1>10, <1>11 DEF IInv

\* check_orphaned turns only inpoller checks back to scheduled.
LEMMA check_orphanedStep == IInv /\ check_orphaned => IInv'
<1> SUFFICES ASSUME IInv, check_orphaned PROVE IInv'
  OBVIOUS
<1>0. TypeOK
  BY DEF IInv
<1>1. TypeOK'
  BY <1>0 DEF check_orphaned, IInv, TypeOK, Works, Status
<1>2. UnusedIds'
  BY <1>0 DEF check_orphaned, IInv, UnusedIds, TypeOK
<1>3. ConsumedState'
  BY <1>0 DEF check_orphaned, IInv, ConsumedState, TypeOK, Live
<1>4. CurrentCheck'
  BY <1>0 DEF check_orphaned, IInv, CurrentCheck, TypeOK
<1>5. QueueStatus'
  BY <1>0 DEF check_orphaned, IInv, QueueStatus, TypeOK
<1>6. NewActions'
  BY <1>0 DEF check_orphaned, IInv, NewActions, TypeOK
<1>7. InProgress'
  BY <1>0 DEF check_orphaned, IInv, InProgress, TypeOK, Live
<1>8. Waiting'
  BY <1>0 DEF check_orphaned, IInv, Waiting, TypeOK
<1> QED
  BY <1>1, <1>2, <1>3, <1>4, <1>5, <1>6, <1>7, <1>8 DEF IInv

\* Internal checks get their result.
LEMMA manage_internal_checksStep == IInv /\ manage_internal_checks => IInv'
<1> SUFFICES ASSUME IInv, manage_internal_checks PROVE IInv'
  OBVIOUS
<1>0. TypeOK
  BY DEF IInv
<1>1. \A c \in Internal : c \in checks /\ status[c] = "scheduled"
  BY DEF Internal
<1>2. TypeOK'
  BY <1>0 DEF manage_internal_checks, IInv, TypeOK, Works, Status
<1>3. UnusedIds'
  BY <1>0, <1>1 DEF manage_internal_checks, IInv, UnusedIds, TypeOK
<1>4. ConsumedState'
  BY <1>0, <1>1 DEF manage_internal_checks, IInv, ConsumedState, TypeOK, Live
<1>5. CurrentCheck'
  BY <1>0, <1>1 DEF manage_internal_checks, IInv, CurrentCheck, TypeOK
<1>6. QueueStatus'
  BY <1>0, <1>1 DEF manage_internal_checks, IInv, QueueStatus, TypeOK
<1>7. NewActions'
  BY <1>0, <1>1 DEF manage_internal_checks, IInv, NewActions, TypeOK
<1>8. InProgress'
  BY <1>0, <1>1 DEF manage_internal_checks, IInv, InProgress, TypeOK, Live
<1>9. Waiting'
  BY <1>0, <1>1 DEF manage_internal_checks, IInv, Waiting, TypeOK
<1> QED
  BY <1>2, <1>3, <1>4, <1>5, <1>6, <1>7, <1>8, <1>9 DEF IInv

\* The checks clean_queues drops leave the queue, the items' lists and the lists of
\* the checks that depended on them together.
LEMMA clean_queuesStep == IInv /\ clean_queues => IInv'
<1> SUFFICES ASSUME IInv, clean_queues PROVE IInv'
  OBVIOUS
<1>0. TypeOK
  BY DEF IInv
<1> DEFINE to_del == IF Cardinality(checks) > max_checks THEN TooOld ELSE {}
<1>1. /\ checks' = checks \ to_del
      /\ status' = [c \in Ids |-> IF c \in to_del THEN "gone" ELSE status[c]]
      /\ t_to_go' = [c \in Ids |-> IF c \in to_del THEN "future" ELSE t_to_go[c]]
      /\ checks_in_progress' = [it \in Items |-> checks_in_progress[it] \ to_del]
      /\ depend_on' = [d \in Ids |->
                         depend_on[d] \ {c \in to_del : d \in depend_on_me[c]}]
      /\ pc = "clean_queues" /\ pc' = "requests"
  BY DEF clean_queues, Forget
<1>2. UNCHANGED <<todo, cur, actions, active_checks_enabled, ref, depend_on_me,
                  nextId, waiting_results, consumed>>
  BY DEF clean_queues
<1>3. to_del \subseteq checks
  BY DEF TooOld
<1>4. cur = {} /\ \A c \in checks : status[c] \in {"scheduled", "inpoller", "waitconsume"}
  <2>1. cur = {}
    BY <1>0, <1>1 DEF IInv, CurrentCheck
  <2>2. \A c \in checks : status[c] \in {"scheduled", "inpoller", "waitconsume"}
    BY <1>0, <1>1 DEF IInv, QueueStatus, TypeOK, Status
  <2> QED
    BY <2>1, <2>2
<1> HIDE DEF to_del
<1>7. TypeOK'
  BY <1>0, <1>1, <1>2, <1>3, <1>4 DEF IInv, TypeOK, Works, Status, Times
<1>8. UnusedIds'
  BY <1>0, <1>1, <1>2, <1>3, <1>4 DEF IInv, UnusedIds, TypeOK
<1>9. ConsumedState'
  BY <1>0, <1>1, <1>2, <1>3, <1>4 DEF IInv, ConsumedState, TypeOK, Live
<1>10. CurrentCheck'
  BY <1>0, <1>1, <1>2, <1>3, <1>4 DEF IInv, CurrentCheck, TypeOK
<1>11. QueueStatus'
  BY <1>0, <1>1, <1>2, <1>3, <1>4 DEF IInv, QueueStatus, TypeOK
<1>12. NewActions'
  BY <1>0, <1>1, <1>2, <1>3, <1>4 DEF IInv, NewActions, TypeOK
<1>13. InProgress'
  BY <1>0, <1>1, <1>2, <1>3, <1>4 DEF IInv, InProgress, TypeOK, Live
<1>14. Waiting'
  BY <1>0, <1>1, <1>2, <1>3, <1>4 DEF IInv, Waiting, TypeOK
<1> QED
  BY <1>7, <1>8, <1>9, <1>10, <1>11, <1>12, <1>13, <1>14 DEF IInv

\* launch_check refused to make a Check.
LEMMA NoCheckStep ==
    ASSUME IInv, NoCheck,
           UNCHANGED <<pc, cur, checks, active_checks_enabled, depend_on,
                       waiting_results, consumed>>,
           todo' \subseteq Items,
           todo' # {} => todo # {}
    PROVE  IInv'
<1>1. TypeOK /\ TypeOK'
  BY DEF NoCheck, IInv, TypeOK
<1> QED
  BY <1>1 DEF NoCheck, IInv, UnusedIds, ConsumedState, CurrentCheck,
     QueueStatus,
              NewActions, InProgress, Waiting

\* One item of Scheduler.schedule or of check_freshness.
LEMMA ScheduleItemStep ==
    ASSUME IInv, NEW it \in Items, ScheduleItem(it) \/ FreshnessItem(it)
    PROVE  IInv'
<1>1. TypeOK
  BY DEF IInv
<1>2. /\ UNCHANGED <<pc, cur, checks, active_checks_enabled, waiting_results,
                     consumed>>
      /\ depend_on' = depend_on
      /\ todo' \subseteq Items
      /\ todo' # {} => todo # {}
  BY <1>1 DEF ScheduleItem, FreshnessItem, TypeOK
<1>3. CASE NoCheck
  BY <1>2, <1>3, NoCheckStep
<1>4. CASE \E when \in Times : NewCheck(it, "scheduled", when, {}, TRUE)
  <2>1. PICK when \in Times : NewCheck(it, "scheduled", when, {}, TRUE)
    BY <1>4
  <2>2. depend_on' = [d \in Ids |-> IF d \in {} THEN depend_on[d] \cup {nextId}
                                    ELSE depend_on[d]]
    BY <1>1, <1>2 DEF TypeOK
  <2>3. /\ {} \in SUBSET Ids
        /\ TRUE \in BOOLEAN
        /\ "scheduled" \in {"scheduled", "waitconsume"}
        /\ \A d \in {} : status[d] = "waitdep"
    OBVIOUS
  <2> QED
    BY <1>2, <2>1, <2>2, <2>3, NewCheckStep, Zenon
<1> QED
  BY <1>3, <1>4 DEF ScheduleItem, FreshnessItem, Times

\* One dependency of raise_dependencies_check: the check that asks is waitdep.
LEMMA RaiseDependencyStep ==
    ASSUME IInv, NEW c \in Ids, NEW dep \in Items, RaiseDependency(c, dep)
    PROVE  IInv'
<1>1. TypeOK
  BY DEF IInv
<1>2. /\ UNCHANGED <<pc, cur, checks, active_checks_enabled, waiting_results,
                     consumed>>
      /\ todo' \subseteq Items
      /\ todo' # {} => todo # {}
  BY <1>1 DEF RaiseDependency, TypeOK
<1>3. CASE NoCheck /\ UNCHANGED depend_on
  BY <1>2, <1>3, NoCheckStep
<1>4. CASE /\ NewCheck(dep, "scheduled", "due", {c}, ~is_in_checking(dep))
           /\ depend_on' = [depend_on EXCEPT ![c] = @ \cup {nextId}]
  <2>1. depend_on' = [d \in Ids |-> IF d \in {c} THEN depend_on[d] \cup {nextId}
                                    ELSE depend_on[d]]
    BY <1>1, <1>4 DEF TypeOK
  <2>2. status[c] = "waitdep"
    BY DEF RaiseDependency, IInv, CurrentCheck
  <2>3. /\ {c} \in SUBSET Ids
        /\ (~is_in_checking(dep)) \in BOOLEAN
        /\ "scheduled" \in {"scheduled", "waitconsume"}
        /\ "due" \in Times
        /\ \A d \in {c} : status[d] = "waitdep"
    BY <2>2 DEF Times
  <2> QED
    BY <1>2, <1>4, <2>1, <2>3, NewCheckStep, Zenon
<1> QED
  BY <1>3, <1>4 DEF RaiseDependency

\* The first half of consume_state_result.
LEMMA BeginConsumeStep ==
    ASSUME IInv, NEW c \in Ids, BeginConsume(c)
    PROVE  IInv'
<1>1. TypeOK
  BY DEF IInv
<1>2. /\ c \in checks
      /\ status[c] = "waitconsume"
      /\ pc = "consume"
      /\ cur = {}
      /\ cur' = {c}
  BY <1>1 DEF BeginConsume, Ready, IInv, CurrentCheck
<1>3. UNCHANGED <<pc, checks, actions, checks_in_progress,
                  active_checks_enabled, ref, t_to_go, depend_on,
                  depend_on_me, nextId, waiting_results, consumed>>
  BY DEF BeginConsume
<1>4. Dependencies(c) \subseteq Items
  BY <1>1, DependAssumption DEF Dependencies, TypeOK
<1>5. /\ todo' \subseteq Items
      /\ todo' # {} => status'[c] = "waitdep"
      /\ status' = status \/ status' = [status EXCEPT ![c] = "waitdep"]
  BY <1>1, <1>4 DEF BeginConsume, TypeOK
<1>6. /\ \A d \in Ids : d # c => status'[d] = status[d]
      /\ status'[c] \in {"waitconsume", "waitdep"}
      /\ status' \in [Ids -> Status]
  BY <1>1, <1>2, <1>5 DEF TypeOK, Status
<1>7. c < nextId
  BY <1>1, <1>2, IdsAssumption DEF IInv, UnusedIds, TypeOK
<1>8. consumed[c] = 0
  BY <1>2 DEF IInv, ConsumedState, Live
<1>9. \A it \in Items : c \notin actions[it]
  BY <1>2 DEF IInv, NewActions
<1>10. TypeOK'
  BY <1>1, <1>2, <1>3, <1>5, <1>6 DEF TypeOK
<1>11. UnusedIds'
  BY <1>1, <1>3, <1>6, <1>7, IdsAssumption DEF IInv, UnusedIds, TypeOK
<1>12. ConsumedState'
  BY <1>1, <1>3, <1>6, <1>8 DEF IInv, ConsumedState, TypeOK, Live
<1>13. CurrentCheck'
  BY <1>1, <1>2, <1>3, <1>5, <1>6 DEF IInv, CurrentCheck, TypeOK
<1>14. QueueStatus'
  BY <1>1, <1>2, <1>3, <1>6 DEF IInv, QueueStatus, TypeOK
<1>15. NewActions'
  BY <1>1, <1>3, <1>6, <1>9 DEF IInv, NewActions, TypeOK
<1>16. InProgress'
  BY <1>1, <1>3, <1>6 DEF IInv, InProgress, TypeOK, Live
<1>17. Waiting'
  BY <1>1, <1>2, <1>3, <1>6 DEF IInv, Waiting, TypeOK
<1> QED
  BY <1>10, <1>11, <1>12, <1>13, <1>14, <1>15, <1>16, <1>17 DEF IInv

\* The second half of consume_state_result: the check was not consumed before, and
\* is neither live nor in progress afterwards.
LEMMA EndConsumeStep ==
    ASSUME IInv, NEW c \in Ids, EndConsume(c)
    PROVE  IInv'
<1>1. TypeOK
  BY DEF IInv
<1>2. /\ c \in checks
      /\ status[c] \in {"waitconsume", "waitdep"}
      /\ pc \in {"consume", "reinteger"}
      /\ cur = {c}
      /\ cur' = {}
      /\ consumed[c] = 0
  BY DEF EndConsume, IInv, CurrentCheck, ConsumedState, Live
<1>3. pc = "consume"
  BY <1>2 DEF IInv, QueueStatus
<1>4. /\ consumed' = [consumed EXCEPT ![c] = @ + 1]
      /\ checks_in_progress' = [it \in Items |-> checks_in_progress[it] \ {c}]
      /\ status' = [status EXCEPT ![c] = IF depend_on_me[c] # {}
                                         THEN "havetoresolvedep" ELSE "zombie"]
      /\ UNCHANGED <<pc, todo, checks, actions, active_checks_enabled, ref,
                     t_to_go, depend_on, depend_on_me, nextId, waiting_results>>
  BY DEF EndConsume
<1>5. /\ \A d \in Ids : d # c => status'[d] = status[d] /\ consumed'[d] = consumed[d]
      /\ status'[c] \in {"havetoresolvedep", "zombie"}
      /\ consumed'[c] = 1
      /\ status' \in [Ids -> Status]
      /\ consumed' \in [Ids -> Nat]
  BY <1>1, <1>2, <1>4 DEF TypeOK, Status
<1>6. c < nextId
  BY <1>1, <1>2, IdsAssumption DEF IInv, UnusedIds, TypeOK
<1>7. \A it \in Items : c \notin actions[it]
  BY <1>2 DEF IInv, NewActions
<1>8. TypeOK'
  BY <1>1, <1>2, <1>4, <1>5 DEF TypeOK
<1>9. UnusedIds'
  BY <1>1, <1>4, <1>5, <1>6, IdsAssumption DEF IInv, UnusedIds, TypeOK
<1>10. ConsumedState'
  BY <1>1, <1>4, <1>5 DEF IInv, ConsumedState, TypeOK, Live
<1>11. CurrentCheck'
  <2>1. \A d \in Ids : status[d] = "waitdep" => d = c
    BY <1>2 DEF IInv, CurrentCheck
  <2> QED
    BY <1>2, <1>5, <2>1 DEF CurrentCheck
<1>12. QueueStatus'
  BY <1>1, <1>3, <1>4, <1>5 DEF IInv, QueueStatus, TypeOK
<1>13. NewActions'
  BY <1>1, <1>4, <1>5, <1>7 DEF IInv, NewActions, TypeOK
<1>14. InProgress'
  BY <1>1, <1>4, <1>5 DEF IInv, InProgress, TypeOK
<1>15. Waiting'
  BY <1>1, <1>2, <1>4, <1>5 DEF IInv, Waiting, TypeOK
<1> QED
  BY <1>8, <1>9, <1>10, <1>11, <1>12, <1>13, <1>14, <1>15 DEF IInv

\* The scheduler starts in the inductive invariant.
LEMMA InitIInv == Init => IInv
<1> SUFFICES ASSUME Init PROVE IInv
  OBVIOUS
<1>1. TypeOK
  BY DEF Init, TypeOK, Works, Status, Times
<1> QED
  BY <1>1, IdsAssumption DEF Init, IInv, UnusedIds, ConsumedState, CurrentCheck, QueueStatus,
              NewActions, InProgress, Waiting, Live

\* Every step of the scheduler and of its environment keeps the inductive invariant.
LEMMA NextIInv == IInv /\ [Next]_schedVars => IInv'
<1> SUFFICES ASSUME IInv, [Next]_schedVars PROVE IInv'
  OBVIOUS
<1>1. CASE \E res \in SUBSET Ids : get_to_run_checks(res)
  BY <1>1, get_to_run_checksStep
<1>2. CASE \E c \in Ids : PutResults({c})
  BY <1>2, PutResultsStep
<1>3. CASE \E c \in Ids : TimePasses(c) \/ compensate_system_time_change(c)
  BY <1>3, TimePassesStep
<1>4. CASE Command
  BY <1>4, CommandStep DEF Command
<1>5. CASE NewConf
  BY <1>5, NewConfStep
<1>6. CASE Restart
  BY <1>6, RestartStep
<1>7. CASE Tick
  <2>1. CASE \E it \in Items : ScheduleItem(it) \/ FreshnessItem(it)
    BY <2>1, ScheduleItemStep
  <2>2. CASE \E c \in Ids : BeginConsume(c)
    BY <2>2, BeginConsumeStep
  <2>3. CASE \E c \in Ids, dep \in Items : RaiseDependency(c, dep)
    BY <2>3, RaiseDependencyStep
  <2>4. CASE \E c \in Ids : EndConsume(c)
    BY <2>4, EndConsumeStep
  <2>5. CASE BeginTick \/ ScheduleDone \/ TakeResults \/ ConsumeDone
    BY <2>5, BeginTickStep, ScheduleDoneStep, TakeResultsStep, ConsumeDoneStep
  <2>6. CASE ResolveDependencies \/ get_new_actions \/ delete_zombie_checks
    BY <2>6, ResolveDependenciesStep, get_new_actionsStep,
       delete_zombie_checksStep
  <2>7. CASE \/ FreshnessDone \/ check_orphaned
             \/ manage_internal_checks \/ clean_queues
    BY <2>7, FreshnessDoneStep, check_orphanedStep, manage_internal_checksStep,
       clean_queuesStep
  <2> QED
    BY <1>7, <2>1, <2>2, <2>3, <2>4, <2>5, <2>6, <2>7 DEF Tick
<1>8. CASE UNCHANGED schedVars
  BY <1>8 DEF schedVars, IInv, TypeOK, UnusedIds, ConsumedState, CurrentCheck,
              QueueStatus, NewActions, InProgress, Waiting
<1> QED
  BY <1>1, <1>2, <1>3, <1>4, <1>5, <1>6, <1>7, <1>8 DEF Next

\* The inductive invariant holds in every reachable state, for every set of items,
\* dependency relation, set of ids and queue limit.
THEOREM Invariance == Spec => []IInv
<1> QED
  BY InitIInv, NextIInv, PTL DEF Spec

\* The queues and the attributes of the checks keep their types.
THEOREM TypeCorrect == Spec => []TypeOK
<1>1. IInv => TypeOK
  BY DEF IInv
<1> QED
  BY <1>1, Invariance, PTL

\* Whatever results put_results is given, consume_state_result sees a check at
\* most once.
THEOREM ConsumedAtMostOnce == Spec => []ConsumedOnce
<1>1. IInv => ConsumedOnce
  BY DEF IInv, ConsumedState, ConsumedOnce
<1> QED
  BY <1>1, Invariance, PTL

\* is_in_checking() is true only for checks that are still in the queue or on their
\* way into it and were not consumed.
THEOREM ItemsWaitForLiveChecks == Spec => []InProgressIsLive
<1>1. IInv => InProgressIsLive
  BY DEF IInv, TypeOK, InProgress, ConsumedState, InProgressIsLive, Live
<1> QED
  BY <1>1, Invariance, PTL

\* When clean_queues runs, and between two ticks, no check waits for another.
THEOREM RestHasNoDependency == Spec => []NoDependencyAtRest
<1>1. IInv => NoDependencyAtRest
  <2> SUFFICES ASSUME IInv, pc \in {"requests", "clean_queues"}, NEW c \in checks
               PROVE  /\ status[c] \in {"scheduled", "inpoller", "waitconsume"}
                      /\ depend_on[c] = {}
    BY DEF NoDependencyAtRest
  <2>1. c \in Ids /\ status[c] \in Status
    BY DEF IInv, TypeOK
  <2>2. status[c] \in {"scheduled", "inpoller", "waitconsume"}
    BY <2>1 DEF IInv, QueueStatus, Status
  <2> QED
    BY <2>1, <2>2 DEF IInv, Waiting
<1> QED
  BY <1>1, Invariance, PTL

\* depend_on.remove(c.id) of consume_results and clean_queues always finds the id.
THEOREM RemovesFindTheirId == Spec => []RemoveFindsId
<1>1. IInv => RemoveFindsId
  BY DEF IInv, TypeOK, QueueStatus, Waiting, RemoveFindsId
<1> QED
  BY <1>1, Invariance, PTL

\* Every step is a step of CheckQueue, or leaves what CheckQueue sees alone.
LEMMA StepOfQueue ==
    IInv /\ [Next]_schedVars => [Queue!QueueNext]_(Queue!queueVars)
<1> SUFFICES ASSUME IInv, [Next]_schedVars
             PROVE  [Queue!QueueNext]_(Queue!queueVars)
  OBVIOUS
<1>0. TypeOK
  BY DEF IInv
<1>1. ASSUME \A c \in Ids : Life(status'[c]) = Life(status[c]), nextId' = nextId
      PROVE  UNCHANGED Queue!queueVars
  BY <1>1 DEF Queue!queueVars
<1>2. ASSUME NEW cs \in SUBSET Ids, NEW l,
             \A c \in Ids : Life(status'[c]) = IF c \in cs THEN l
                                               ELSE Life(status[c])
      PROVE  Queue!Move(cs, l)
  BY <1>2 DEF Queue!Move
<1>3. ASSUME NEW it \in Items, NEW st \in {"scheduled", "waitconsume"},
             NEW when, NEW dep_check, NEW in_progress,
             NewCheck(it, st, when, dep_check, in_progress)
      PROVE  Queue!QueueNext
  <2>1. /\ nextId \in Ids
        /\ status' = [status EXCEPT ![nextId] = st]
        /\ nextId' = nextId + 1
    BY <1>3 DEF NewCheck
  <2>2. status[nextId] = "none"
    BY <2>1, NextIdIsNew
  <2>3. Queue!Move({nextId}, Life(st))
    BY <1>0, <1>2, <2>1 DEF TypeOK
  <2>4. Life(st) \in {"scheduled", "answered"}
    BY DEF Life
  <2>5. Queue!Create(Life(st))
    BY <2>1, <2>2, <2>3, <2>4 DEF Queue!Create, Queue!Having, Life
  <2> QED
    BY <2>4, <2>5 DEF Queue!QueueNext
<1>4. ASSUME NEW cs \in SUBSET Ids, nextId' = nextId,
             \A c \in cs : status[c] \in {"scheduled", "inpoller", "waitconsume"},
             status' = [c \in Ids |-> IF c \in cs THEN "waitconsume" ELSE status[c]]
      PROVE  Queue!QueueNext
  <2>1. Queue!Answer(cs)
    BY <1>0, <1>2, <1>4 DEF Queue!Answer, Queue!Having, Life, TypeOK
  <2> QED
    BY <2>1 DEF Queue!QueueNext
<1>5. ASSUME NEW cs \in SUBSET Ids, nextId' = nextId,
             \A c \in cs : status[c] # "none",
             status' = [c \in Ids |-> IF c \in cs THEN "gone" ELSE status[c]]
      PROVE  Queue!QueueNext
  <2>1. Queue!Drop(cs)
    BY <1>0, <1>2, <1>5 DEF Queue!Drop, Queue!Having, Life, TypeOK
  <2> QED
    BY <2>1 DEF Queue!QueueNext
<1>6. ASSUME NEW it \in Items, pc = "requests"
      PROVE  \A c \in checks_in_progress[it] :
                c \in Ids /\ status[c] \in {"scheduled", "inpoller", "waitconsume"}
  <2>1. \A c \in checks_in_progress[it] : c \in Ids /\ status[c] \in Live
    BY <1>0 DEF IInv, InProgress, TypeOK
  <2>2. \A c \in checks_in_progress[it] : status[c] # "waitdep"
    BY <1>6, <2>1 DEF IInv, CurrentCheck
  <2> QED
    BY <2>1, <2>2 DEF Live
<1>7. CASE \E res \in SUBSET Ids : get_to_run_checks(res)
  <2>1. PICK res \in SUBSET Ids : get_to_run_checks(res)
    BY <1>7
  <2>2. Queue!HandOut(res)
    BY <1>0, <1>2, <2>1
       DEF get_to_run_checks, CanRun, Queue!HandOut, Queue!Having, Life, TypeOK
  <2> QED
    BY <2>2 DEF Queue!QueueNext
<1>8. CASE Command
  <2>1. PICK it \in Items : \/ ScheduleForcedCheck(it)
                            \/ ScheduleCheck(it)
                            \/ DisableCheck(it)
                            \/ EnableCheck(it)
                            \/ ProcessCheckResult(it)
    BY <1>8 DEF Command
  <2>2. CASE ScheduleForcedCheck(it)
    BY <1>1, <1>3, <2>2 DEF ScheduleForcedCheck
  <2>3. CASE ScheduleCheck(it)
    BY <1>3, <2>3 DEF ScheduleCheck
  <2>4. CASE DisableCheck(it)
    <3>1. checks_in_progress[it] \in SUBSET Ids
      BY <1>0 DEF TypeOK
    <3> QED
      BY <1>4, <1>6, <2>4, <3>1 DEF DisableCheck
  <2>5. CASE EnableCheck(it)
    BY <1>1, <2>5 DEF EnableCheck
  <2>6. CASE ProcessCheckResult(it)
    <3>1. CASE NewCheck(it, "waitconsume", "due", {}, TRUE)
      BY <1>3, <3>1
    <3>2. CASE \E c \in Ids : /\ IsFirstInProgress(it, c)
                              /\ status' = [status EXCEPT ![c] = "waitconsume"]
                              /\ nextId' = nextId
      <4>1. PICK c \in Ids : /\ IsFirstInProgress(it, c)
                             /\ status' = [status EXCEPT ![c] = "waitconsume"]
                             /\ nextId' = nextId
        BY <3>2
      <4>2. status' = [d \in Ids |-> IF d \in {c} THEN "waitconsume" ELSE status[d]]
        BY <1>0, <4>1 DEF TypeOK
      <4>3. status[c] \in {"scheduled", "inpoller", "waitconsume"}
        BY <1>6, <2>6, <4>1 DEF ProcessCheckResult, IsFirstInProgress
      <4> QED
        BY <1>4, <4>1, <4>2, <4>3
    <3> QED
      BY <2>6, <3>1, <3>2 DEF ProcessCheckResult
  <2> QED
    BY <2>1, <2>2, <2>3, <2>4, <2>5, <2>6
<1>9. CASE NewConf
  <2>1. \A c \in {d \in Ids : d < nextId} : status[c] # "none"
    BY <1>0, IdsAssumption DEF IInv, UnusedIds, TypeOK
  <2> QED
    BY <1>5, <1>9, <2>1 DEF NewConf, Forget
<1>10. CASE Restart
  <2>1. Queue!Move(Ids, "none")
    BY <1>2, <1>10 DEF Restart, Life
  <2> QED
    BY <2>1, <1>10 DEF Restart, Queue!Forgets, Queue!QueueNext
<1>11. CASE Tick
  <2>1. CASE \E it \in Items : ScheduleItem(it) \/ FreshnessItem(it)
    BY <1>1, <1>3, <2>1 DEF ScheduleItem, FreshnessItem, NoCheck
  <2>2. CASE \E c \in Ids : BeginConsume(c)
    BY <1>0, <1>1, <2>2 DEF BeginConsume, Life, TypeOK
  <2>3. CASE \E c \in Ids, dep \in Items : RaiseDependency(c, dep)
    BY <1>1, <1>3, <2>3 DEF RaiseDependency, NoCheck
  <2>4. CASE \E c \in Ids : EndConsume(c)
    <3>1. PICK c \in Ids : EndConsume(c)
      BY <2>4
    <3>2. status[c] \in {"waitconsume", "waitdep"}
      BY <3>1 DEF EndConsume, IInv, CurrentCheck
    <3>3. Queue!Move({c}, "done")
      BY <1>0, <1>2, <3>1 DEF EndConsume, Life, TypeOK
    <3>4. Queue!Consume(c)
      BY <3>1, <3>2, <3>3 DEF EndConsume, Queue!Consume, Queue!Having, Life
    <3> QED
      BY <3>4 DEF Queue!QueueNext
  <2>5. CASE TakeResults
    <3>1. \A c \in Answered : status[c] \in {"scheduled", "inpoller", "waitconsume"}
      BY <1>0, <2>5 DEF TakeResults, Answered, IInv, QueueStatus, TypeOK, Status
    <3>2. Answered \in SUBSET Ids
      BY <1>0 DEF Answered, TypeOK
    <3> QED
      BY <1>4, <2>5, <3>1, <3>2 DEF TakeResults
  <2>6. CASE ResolveDependencies
    BY <1>0, <1>1, <2>6 DEF ResolveDependencies, Resolving, Life, TypeOK
  <2>7. CASE delete_zombie_checks
    BY <1>0, <1>1, <2>7 DEF delete_zombie_checks, Forget, Life, TypeOK
  <2>8. CASE clean_queues
    <3> DEFINE to_del == IF Cardinality(checks) > max_checks THEN TooOld ELSE {}
    <3>1. /\ to_del \in SUBSET Ids
          /\ \A c \in to_del : status[c] # "none"
      BY <1>0 DEF TooOld, TypeOK, IInv, QueueStatus
    <3>2. /\ status' = [c \in Ids |-> IF c \in to_del THEN "gone" ELSE status[c]]
          /\ nextId' = nextId
      BY <2>8 DEF clean_queues, Forget
    <3> HIDE DEF to_del
    <3> QED
      BY <1>5, <3>1, <3>2
  <2>9. CASE check_orphaned
    <3> DEFINE cs == {c \in checks : status[c] = "inpoller" /\ t_to_go[c] = "overdue"}
    <3>1. cs \in SUBSET Ids /\ \A c \in cs : status[c] = "inpoller"
      BY <1>0 DEF TypeOK
    <3>2. Queue!Move(cs, "scheduled")
      BY <1>0, <1>2, <2>9, <3>1 DEF check_orphaned, Life, TypeOK
    <3>3. Queue!Reenable(cs)
      BY <2>9, <3>1, <3>2 DEF check_orphaned, Queue!Reenable, Queue!Having, Life
    <3> QED
      BY <3>1, <3>3 DEF Queue!QueueNext
  <2>10. CASE manage_internal_checks
    <3>1. Internal \in SUBSET Ids /\ \A c \in Internal : status[c] = "scheduled"
      BY <1>0 DEF Internal, TypeOK
    <3> QED
      BY <1>4, <2>10, <3>1 DEF manage_internal_checks
  <2>11. CASE \/ BeginTick \/ ScheduleDone \/ ConsumeDone
              \/ get_new_actions \/ FreshnessDone
    BY <1>1, <2>11 DEF BeginTick, ScheduleDone, ConsumeDone, get_new_actions,
                       FreshnessDone
  <2> QED
    BY <1>11, <2>1, <2>2, <2>3, <2>4, <2>5, <2>6, <2>7, <2>8, <2>9, <2>10, <2>11
       DEF Tick
<1>12. CASE \/ \E c \in Ids : PutResults({c}) \/ TimePasses(c)
            \/ \E c \in Ids : compensate_system_time_change(c)
            \/ UNCHANGED schedVars
  BY <1>1, <1>12 DEF PutResults, TimePasses, compensate_system_time_change,
                      schedVars
<1> QED
  BY <1>7, <1>8, <1>9, <1>10, <1>11, <1>12 DEF Next

\* The scheduler implements CheckQueue: what the pollers are promised about a
\* check holds of the real main loop, with its dependencies, its commands and
\* its cleaning of queues.
THEOREM SchedulerImplementsQueue == Spec => ImplementsQueue
<1>1. Init => Queue!QueueInit
  BY DEF Init, Queue!QueueInit, Life
<1> QED
  BY <1>1, Invariance, StepOfQueue, PTL DEF Spec, ImplementsQueue, Queue!QueueSpec
=============================================================================
