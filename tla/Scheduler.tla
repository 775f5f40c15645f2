------------------------------- MODULE Scheduler -------------------------------
(***************************************************************************)
(* The life of a check inside one scheduler daemon: shinken/scheduler.py,  *)
(* the scheduling half of shinken/objects/schedulingitem.py and the HTTP   *)
(* entry points of shinken/daemons/schedulerdaemon.py.                     *)
(*                                                                         *)
(* The daemon has one main loop.  While it waits (pc = "requests") the     *)
(* global lock is free, and the HTTP threads serve the calls that need it  *)
(* (get_checks, run_external_commands, put_conf).  A tick then runs the    *)
(* recurrent works in their fixed order with the lock held; each work is   *)
(* one step, or one step per element of the loop it runs.  put_results is  *)
(* the only call served without the lock, so PutResults may happen between *)
(* any two steps.                                                          *)
(*                                                                         *)
(* The pollers are the environment here: get_checks may be asked by anyone *)
(* and put_results may bring ANY results, late, repeated or never asked    *)
(* for.  Polling.tla replaces that environment by the real satellites.     *)
(*                                                                         *)
(* Time is abstracted to what the scheduler compares it with: a check's    *)
(* t_to_go is in the future, due (is_launchable), or so old that           *)
(* check_orphaned gives its poller up for dead.                            *)
(***************************************************************************)
EXTENDS Naturals, FiniteSets

CONSTANTS
    Items,          \* hosts and services
    Ids,            \* check ids; a finite set bounds the run
    act_depend_of,  \* the items whose state may explain a failure of an item
    InternalItems,  \* items whose check the scheduler computes itself
    max_checks      \* limit of clean_queues (5 per host and service)

ASSUME IdsAssumption == Ids \subseteq Nat
ASSUME DependAssumption == act_depend_of \in [Items -> SUBSET Items]
ASSUME InternalAssumption == InternalItems \subseteq Items
ASSUME MaxChecksAssumption == max_checks \in Nat

VARIABLES
    pc,                     \* the recurrent work in hand, or "requests"
    todo,                   \* items the current loop has still to visit
    cur,                    \* {c} while check c is being consumed, else {}
    checks,                 \* keys of Scheduler.checks
    actions,                \* item.actions: checks created, not yet registered
    checks_in_progress,     \* item.checks_in_progress
    active_checks_enabled,  \* item.active_checks_enabled
    status, ref, t_to_go, depend_on, depend_on_me, \* attributes of the Checks
    nextId,                 \* Action.id
    waiting_results,        \* Scheduler.waiting_results
    consumed                \* history: how often each check was consumed

schedVars == <<pc, todo, cur, checks, actions, checks_in_progress,
               active_checks_enabled, status, ref, t_to_go, 
               depend_on, depend_on_me, nextId, waiting_results, consumed>>

\* Check.status, with "none" for an id that is not given out and "gone" for a
\* Check that no queue refers to any more.
Status == {"none", "scheduled", "inpoller", "waitconsume", "waitdep",
           "havetoresolvedep", "zombie", "gone"}
Times == {"future", "due", "overdue"}

\* The steps of a tick, in the order of Scheduler.recurrent_works.
Works == {"requests", "schedule", "put_results", "consume", "resolve",
          "reinteger", "get_new_actions", "delete_zombie_checks",
          "check_freshness", "check_orphaned", "manage_internal_checks",
          "clean_queues"}

\* One type invariant: the shape of the scheduler's queues and of the checks.
TypeOK ==
    /\ pc \in Works
    /\ todo \subseteq Items
    /\ cur \subseteq Ids
    /\ checks \subseteq Ids
    /\ actions \in [Items -> SUBSET Ids]
    /\ checks_in_progress \in [Items -> SUBSET Ids]
    /\ active_checks_enabled \in [Items -> BOOLEAN]
    /\ status \in [Ids -> Status]
    /\ ref \in [Ids -> SUBSET Items]
    /\ t_to_go \in [Ids -> Times]
    /\ depend_on \in [Ids -> SUBSET Ids]
    /\ depend_on_me \in [Ids -> SUBSET Ids]
    /\ nextId \in Nat
    /\ waiting_results \subseteq Ids
    /\ consumed \in [Ids -> Nat]

-----------------------------------------------------------------------------
(* Check objects *)

\* ref[c] is {Check.ref}, the item of the check: {} before the id is given out.
is_in_checking(it) == checks_in_progress[it] # {}

\* get_checks_in_progress()[0]: checks enter the list in the order of ids.
IsFirstInProgress(it, c) ==
    /\ c \in checks_in_progress[it]
    /\ \A d \in checks_in_progress[it] : c <= d

is_launchable(c) == t_to_go[c] # "future"

\* Check.__init__ and what launch_check does with the new object.
NewCheck(it, st, when, dep_check, in_progress) ==
    /\ nextId \in Ids
    /\ nextId' = nextId + 1
    /\ status' = [status EXCEPT ![nextId] = st]
    /\ ref' = [ref EXCEPT ![nextId] = {it}]
    /\ t_to_go' = [t_to_go EXCEPT ![nextId] = when]
    /\ depend_on_me' = [depend_on_me EXCEPT ![nextId] = dep_check]
    /\ checks_in_progress' =
          IF in_progress
          THEN [checks_in_progress EXCEPT ![it] = @ \cup {nextId}]
          ELSE checks_in_progress
    /\ actions' = [actions EXCEPT ![it] = @ \cup {nextId}]

\* The last reference to these Checks is dropped.
Forget(cs) ==
    /\ status' = [c \in Ids |-> IF c \in cs THEN "gone" ELSE status[c]]
    /\ t_to_go' = [c \in Ids |-> IF c \in cs THEN "future" ELSE t_to_go[c]]

\* launch_check makes no object: a dependency, the check period or the bound
\* on ids says no.
NoCheck == UNCHANGED <<nextId, status, ref, t_to_go, depend_on_me,
                       checks_in_progress, actions>>

-----------------------------------------------------------------------------
(* What may happen while the main loop waits in handleRequests *)

\* Mutant: the status of a launchable check is not looked at.
CanRunAny == {c \in checks : /\ is_launchable(c)
                             /\ \A it \in ref[c] : it \notin InternalItems}

\* get_checks: the launchable checks that the tags, the priorities and
\* max_actions let through (any of them, seen from here) go to a poller.
CanRun == {c \in checks : /\ status[c] = "scheduled"
                          /\ is_launchable(c)
                          /\ \A it \in ref[c] : it \notin InternalItems}

get_to_run_checks(res) ==
    /\ pc = "requests"
    /\ res \in SUBSET CanRun
    /\ status' = [c \in Ids |-> IF c \in res THEN "inpoller" ELSE status[c]]
    /\ UNCHANGED <<pc, todo, cur, checks, actions, checks_in_progress,
                   active_checks_enabled, ref, t_to_go, depend_on,
                   depend_on_me, nextId, waiting_results, consumed>>

\* IChecks.put_results: served without the lock, it only queues the results.
\* Only the ids of the results are kept: two results of one check are filed
\* one over the other, and what a result says is left open until it is consumed.
PutResults(results) ==
    /\ waiting_results' = waiting_results \cup results
    /\ UNCHANGED <<pc, todo, cur, checks, actions, checks_in_progress,
                   active_checks_enabled, status, ref, t_to_go, 
                   depend_on, depend_on_me, nextId, consumed>>

\* SCHEDULE_FORCED_HOST_CHECK: schedule(force=True, force_time).  A check in
\* progress is only made due; otherwise a new one is launched.
ScheduleForcedCheck(it) ==
    /\ pc = "requests"
    /\ \/ /\ \E c \in Ids :
               /\ IsFirstInProgress(it, c)
               /\ t_to_go' = [t_to_go EXCEPT ![c] = "due"]
          /\ UNCHANGED <<nextId, status, ref, depend_on_me,
                         checks_in_progress, actions>>
       \/ /\ ~is_in_checking(it)
          /\ \E when \in {"future", "due"} :
                NewCheck(it, "scheduled", when, {}, TRUE)
    /\ UNCHANGED <<pc, todo, cur, checks, active_checks_enabled, depend_on,
                   waiting_results, consumed>>

\* SCHEDULE_HOST_CHECK: schedule(force=False, force_time).  The given time
\* passes the is_in_checking test of schedule_state_check, and launch_check
\* makes a further check even when one is in progress.
ScheduleCheck(it) ==
    /\ pc = "requests"
    /\ active_checks_enabled[it]
    /\ \E when \in {"future", "due"} :
          NewCheck(it, "scheduled", when, {}, TRUE)
    /\ UNCHANGED <<pc, todo, cur, checks, active_checks_enabled, depend_on,
                   waiting_results, consumed>>

\* DISABLE_HOST_CHECK / DISABLE_SVC_CHECK: disable_active_checks turns every
\* check in progress into a result that repeats the present state.
DisableCheck(it) ==
    /\ pc = "requests"
    /\ active_checks_enabled[it]
    /\ active_checks_enabled' = [active_checks_enabled EXCEPT ![it] = FALSE]
    /\ status' = [c \in Ids |-> IF c \in checks_in_progress[it]
                                THEN "waitconsume" ELSE status[c]]
    /\ UNCHANGED <<pc, todo, cur, checks, actions, checks_in_progress, ref,
                   t_to_go, depend_on, depend_on_me, nextId, waiting_results,
                   consumed>>

EnableCheck(it) ==
    /\ pc = "requests"
    /\ ~active_checks_enabled[it]
    /\ active_checks_enabled' = [active_checks_enabled EXCEPT ![it] = TRUE]
    /\ UNCHANGED <<pc, todo, cur, checks, actions, checks_in_progress, status,
                   ref, t_to_go, depend_on, depend_on_me, nextId,
                   waiting_results, consumed>>

\* PROCESS_HOST_CHECK_RESULT / PROCESS_SERVICE_CHECK_RESULT: the first check
\* in progress, or a new one, is turned into the result.
ProcessCheckResult(it) ==
    /\ pc = "requests"
    /\ \/ /\ \E c \in Ids :
               /\ IsFirstInProgress(it, c)
               /\ t_to_go' = [t_to_go EXCEPT ![c] = "due"]
               /\ status' = [status EXCEPT ![c] = "waitconsume"]
          /\ UNCHANGED <<nextId, ref, depend_on_me, checks_in_progress, actions>>
       \/ /\ ~is_in_checking(it)
          /\ NewCheck(it, "waitconsume", "due", {}, TRUE)
    /\ UNCHANGED <<pc, todo, cur, checks, active_checks_enabled, depend_on,
                   waiting_results, consumed>>

\* Time passes for one check.  The clock is read in "requests" and by the
\* works of one tick, which never compare two checks: it is enough to move it
\* between ticks.
TimePasses(c) ==
    /\ pc = "requests"
    /\ c \in checks
    /\ t_to_go[c] # "overdue"
    /\ t_to_go' = [t_to_go EXCEPT ![c] = IF @ = "future" THEN "due"
                                         ELSE "overdue"]
    /\ UNCHANGED <<pc, todo, cur, checks, actions, checks_in_progress,
                   active_checks_enabled, status, ref, depend_on,
                   depend_on_me, nextId, waiting_results, consumed>>

\* The system clock was changed.  The t_to_go of a scheduled check is moved
\* with it, but into the check period, which may be later.  That of a check at
\* a poller is not touched: the clock may now be before it.
compensate_system_time_change(c) ==
    /\ pc = "requests"
    /\ c \in checks
    /\ status[c] \in {"scheduled", "inpoller"}
    /\ t_to_go' = [t_to_go EXCEPT ![c] = "future"]
    /\ UNCHANGED <<pc, todo, cur, checks, actions, checks_in_progress,
                   active_checks_enabled, status, ref, depend_on,
                   depend_on_me, nextId, waiting_results, consumed>>

Fresh ==
    /\ pc' = "requests"
    /\ todo' = {}
    /\ cur' = {}
    /\ checks' = {}
    /\ actions' = [it \in Items |-> {}]
    /\ checks_in_progress' = [it \in Items |-> {}]
    /\ active_checks_enabled' \in [Items -> BOOLEAN]
    /\ waiting_results' = {}

\* put_conf, die, setup_new_conf: reset() empties the queues, load_conf brings
\* new items.  Action.id goes on, so the ids of the old checks stay used.
NewConf ==
    /\ pc = "requests"
    /\ Fresh
    /\ Forget({c \in Ids : c < nextId})
    /\ UNCHANGED <<ref, depend_on, depend_on_me, nextId, consumed>>

\* The daemon is restarted: Action.id is 0 again and every id is new.
Restart ==
    /\ Fresh
    /\ status' = [c \in Ids |-> "none"]
    /\ ref' = [c \in Ids |-> {}]
    /\ t_to_go' = [c \in Ids |-> "future"]
    /\ depend_on' = [c \in Ids |-> {}]
    /\ depend_on_me' = [c \in Ids |-> {}]
    /\ nextId' = 0
    /\ consumed' = [c \in Ids |-> 0]

-----------------------------------------------------------------------------
(* The recurrent works of a tick, in their order *)

\* handleRequests returned: the main loop takes the lock and starts a tick.
BeginTick ==
    /\ pc = "requests"
    /\ pc' = "schedule"
    /\ todo' = Items
    /\ UNCHANGED <<cur, checks, actions, checks_in_progress,
                   active_checks_enabled, status, ref, t_to_go, 
                   depend_on, depend_on_me, nextId, waiting_results, consumed>>

\* Scheduler.schedule: item.schedule() for every item in turn.  The next check
\* time may be over already: get_next_check_time cuts it to a whole second.
ScheduleItem(it) ==
    /\ pc = "schedule"
    /\ it \in todo
    /\ todo' = todo \ {it}
    /\ \/ NoCheck
       \/ /\ ~is_in_checking(it)
          /\ active_checks_enabled[it]
          /\ \E when \in {"future", "due"} :
                NewCheck(it, "scheduled", when, {}, TRUE)
    /\ UNCHANGED <<pc, cur, checks, active_checks_enabled, depend_on,
                   waiting_results, consumed>>

ScheduleDone ==
    /\ pc = "schedule"
    /\ todo = {}
    /\ pc' = "put_results"
    /\ UNCHANGED <<todo, cur, checks, actions, checks_in_progress,
                   active_checks_enabled, status, ref, t_to_go, 
                   depend_on, depend_on_me, nextId, waiting_results, consumed>>

\* First half of consume_results: the waiting results are taken under their
\* own lock and put_results files each one with its check.  A result whose id
\* is not in self.checks is dropped (KeyError); when a check has several, the
\* last one read wins.
Answered == checks \cap waiting_results

TakeResults ==
    /\ pc = "put_results"
    /\ pc' = "consume"
    /\ status' = [c \in Ids |-> IF c \in Answered THEN "waitconsume"
                                ELSE status[c]]
    /\ waiting_results' = {}
    /\ UNCHANGED <<todo, cur, checks, actions, checks_in_progress,
                   active_checks_enabled, ref, t_to_go, depend_on, depend_on_me,
                   nextId, consumed>>

\* The two loops that call consume_result: over the results just filed, and
\* over the checks that waited for their dependencies ("reinteger").
Ready(c) ==
    /\ c \in checks
    /\ \/ pc = "consume" /\ status[c] = "waitconsume"
       \/ pc = "reinteger" /\ status[c] = "waitdep" /\ depend_on[c] = {}

\* Mutant: the list of dependencies is appended instead of extended.
DependenciesAppended(c) == {act_depend_of[it] : it \in ref[c]}

Dependencies(c) == UNION {act_depend_of[it] : it \in ref[c]}

\* consume_state_result up to the dependency test: a bad result of an item
\* with dependencies turns the check to waitdep and asks about each of them.
\* Whether the result is bad is left open.
BeginConsume(c) ==
    /\ cur = {}
    /\ Ready(c)
    /\ cur' = {c}
    /\ \E bad \in BOOLEAN :
         LET asks == IF bad /\ status[c] = "waitconsume" THEN Dependencies(c) ELSE {}
         IN /\ todo' = asks
            /\ status' = IF asks # {} THEN [status EXCEPT ![c] = "waitdep"]
                         ELSE status
    /\ UNCHANGED <<pc, checks, actions, checks_in_progress,
                   active_checks_enabled, ref, t_to_go, depend_on,
                   depend_on_me, nextId, waiting_results, consumed>>

\* Mutant: the dependency check is launched and not entered in depend_on.
RaiseDependencyUnlisted(c, dep) ==
    /\ cur = {c}
    /\ dep \in todo
    /\ todo' = todo \ {dep}
    /\ \/ NoCheck
       \/ NewCheck(dep, "scheduled", "due", {c}, ~is_in_checking(dep))
    /\ UNCHANGED <<pc, cur, checks, active_checks_enabled, depend_on,
                   waiting_results, consumed>>

\* raise_dependencies_check for one dependency.  Its state may be fresh enough
\* (nothing is launched); when it is already in checking the dependency check
\* is a further one that never enters checks_in_progress.
RaiseDependency(c, dep) ==
    /\ cur = {c}
    /\ dep \in todo
    /\ todo' = todo \ {dep}
    /\ \/ NoCheck /\ UNCHANGED depend_on
       \/ /\ NewCheck(dep, "scheduled", "due", {c}, ~is_in_checking(dep))
          /\ depend_on' = [depend_on EXCEPT ![c] = @ \cup {nextId}]
    /\ UNCHANGED <<pc, cur, checks, active_checks_enabled, waiting_results,
                   consumed>>

\* Mutant: the check that nobody waits for is not made a zombie.
EndConsumeNoZombie(c) ==
    /\ cur = {c}
    /\ todo = {}
    /\ cur' = {}
    /\ consumed' = [consumed EXCEPT ![c] = @ + 1]
    /\ checks_in_progress' = [it \in Items |-> checks_in_progress[it] \ {c}]
    /\ status' = [status EXCEPT ![c] = IF depend_on_me[c] # {}
                                       THEN "havetoresolvedep" ELSE @]
    /\ UNCHANGED <<pc, todo, checks, actions, active_checks_enabled, ref,
                   t_to_go, depend_on, depend_on_me, nextId,
                   waiting_results>>

\* Mutant: the call returns early while the check has unresolved dependencies.
EndConsumeReturnsEarly(c) ==
    /\ cur = {c}
    /\ todo = {}
    /\ cur' = {}
    /\ IF depend_on[c] # {}
       THEN UNCHANGED <<consumed, checks_in_progress, status>>
       ELSE /\ consumed' = [consumed EXCEPT ![c] = @ + 1]
            /\ checks_in_progress' =
                 [it \in Items |-> checks_in_progress[it] \ {c}]
            /\ status' = [status EXCEPT ![c] = IF depend_on_me[c] # {}
                                       THEN "havetoresolvedep" ELSE "zombie"]
    /\ UNCHANGED <<pc, todo, checks, actions, active_checks_enabled, ref,
                   t_to_go, depend_on, depend_on_me, nextId,
                   waiting_results>>

\* The rest of consume_state_result, as far as the check is concerned.  A
\* check that turned waitdep above leaves that status in the same call.
EndConsume(c) ==
    /\ cur = {c}
    /\ todo = {}
    /\ cur' = {}
    /\ consumed' = [consumed EXCEPT ![c] = @ + 1]
    /\ checks_in_progress' = [it \in Items |-> checks_in_progress[it] \ {c}]
    /\ status' = [status EXCEPT ![c] = IF depend_on_me[c] # {}
                                       THEN "havetoresolvedep" ELSE "zombie"]
    /\ UNCHANGED <<pc, todo, checks, actions, active_checks_enabled, ref,
                   t_to_go, depend_on, depend_on_me, nextId,
                   waiting_results>>

\* Neither loop has a check left.
ConsumeDone ==
    /\ pc \in {"consume", "reinteger"}
    /\ cur = {}
    /\ \A c \in checks : ~Ready(c)
    /\ pc' = IF pc = "consume" THEN "resolve" ELSE "get_new_actions"
    /\ UNCHANGED <<todo, cur, checks, actions, checks_in_progress,
                   active_checks_enabled, status, ref, t_to_go, 
                   depend_on, depend_on_me, nextId, waiting_results, consumed>>

\* Checks somebody waited for: they leave the lists of those who waited.
Resolving == {c \in checks : status[c] = "havetoresolvedep"}

ResolveDependencies ==
    /\ pc = "resolve"
    /\ pc' = "reinteger"
    /\ depend_on' = [d \in Ids |->
                       depend_on[d] \ {c \in Resolving : d \in depend_on_me[c]}]
    /\ status' = [c \in Ids |-> IF c \in Resolving THEN "zombie" ELSE status[c]]
    /\ UNCHANGED <<todo, cur, checks, actions, checks_in_progress,
                   active_checks_enabled, ref, t_to_go, 
                   depend_on_me, nextId, waiting_results, consumed>>

\* get_new_actions: what the items created joins the scheduler's queue.
get_new_actions ==
    /\ pc = "get_new_actions"
    /\ pc' = "delete_zombie_checks"
    /\ checks' = checks \cup UNION {actions[it] : it \in Items}
    /\ actions' = [it \in Items |-> {}]
    /\ UNCHANGED <<todo, cur, checks_in_progress, active_checks_enabled, status,
                   ref, t_to_go, depend_on, depend_on_me, nextId,
                   waiting_results, consumed>>

delete_zombie_checks ==
    /\ pc = "delete_zombie_checks"
    /\ pc' = "check_freshness"
    /\ LET dead == {c \in checks : status[c] = "zombie"}
       IN checks' = checks \ dead /\ Forget(dead)
    /\ todo' = Items
    /\ UNCHANGED <<cur, actions, checks_in_progress, active_checks_enabled, ref,
                   depend_on, depend_on_me, nextId, waiting_results, consumed>>

\* check_freshness: a passive only item that was silent for too long (any time
\* from here) is checked.
FreshnessItem(it) ==
    /\ pc = "check_freshness"
    /\ it \in todo
    /\ todo' = todo \ {it}
    /\ \/ NoCheck
       \/ /\ ~is_in_checking(it)
          /\ ~active_checks_enabled[it]
          /\ NewCheck(it, "scheduled", "due", {}, TRUE)
    /\ UNCHANGED <<pc, cur, checks, active_checks_enabled, depend_on,
                   waiting_results, consumed>>

FreshnessDone ==
    /\ pc = "check_freshness"
    /\ todo = {}
    /\ pc' = "check_orphaned"
    /\ UNCHANGED <<todo, cur, checks, actions, checks_in_progress,
                   active_checks_enabled, status, ref, t_to_go, 
                   depend_on, depend_on_me, nextId, waiting_results, consumed>>

\* check_orphaned: checks that never came back are offered again.  It runs
\* every 60 ticks; a check that is "overdue" has seen such a tick.
check_orphaned ==
    /\ pc = "check_orphaned"
    /\ pc' = "manage_internal_checks"
    /\ status' = [c \in Ids |->
                    IF /\ c \in checks
                       /\ status[c] = "inpoller"
                       /\ t_to_go[c] = "overdue"
                    THEN "scheduled" ELSE status[c]]
    /\ UNCHANGED <<todo, cur, checks, actions, checks_in_progress,
                   active_checks_enabled, ref, t_to_go, depend_on,
                   depend_on_me, nextId, waiting_results, consumed>>

\* manage_internal_checks: business rules and the like are computed here.
Internal == {c \in checks : /\ status[c] = "scheduled"
                            /\ is_launchable(c)
                            /\ \E it \in ref[c] : it \in InternalItems}

manage_internal_checks ==
    /\ pc = "manage_internal_checks"
    /\ pc' = "clean_queues"
    /\ status' = [c \in Ids |-> IF c \in Internal THEN "waitconsume"
                                ELSE status[c]]
    /\ UNCHANGED <<todo, cur, checks, actions, checks_in_progress,
                   active_checks_enabled, ref, t_to_go, depend_on, depend_on_me,
                   nextId, waiting_results, consumed>>

\* clean_queues: with more than max_checks checks, those whose id is more than
\* max_checks below the highest are forgotten everywhere.
TooOld == {c \in checks : \E id_max \in checks : c + max_checks < id_max}

\* Mutant: the items are not told of the checks that are dropped.
clean_queuesSilently ==
    /\ pc = "clean_queues"
    /\ pc' = "requests"
    /\ LET to_del == IF Cardinality(checks) > max_checks THEN TooOld ELSE {}
       IN /\ checks' = checks \ to_del
          /\ Forget(to_del)
          /\ depend_on' = [d \in Ids |->
               depend_on[d] \ {c \in to_del : d \in depend_on_me[c]}]
    /\ UNCHANGED <<todo, cur, actions, checks_in_progress,
                   active_checks_enabled, ref, depend_on_me, nextId,
                   waiting_results, consumed>>

clean_queues ==
    /\ pc = "clean_queues"
    /\ pc' = "requests"
    /\ LET to_del == IF Cardinality(checks) > max_checks THEN TooOld ELSE {}
       IN /\ checks' = checks \ to_del
          /\ Forget(to_del)
          /\ checks_in_progress' =
               [it \in Items |-> checks_in_progress[it] \ to_del]
          /\ depend_on' = [d \in Ids |->
               depend_on[d] \ {c \in to_del : d \in depend_on_me[c]}]
    /\ UNCHANGED <<todo, cur, actions, active_checks_enabled, ref, depend_on_me,
                   nextId, waiting_results, consumed>>

-----------------------------------------------------------------------------
Init ==
    /\ pc = "requests"
    /\ todo = {}
    /\ cur = {}
    /\ checks = {}
    /\ actions = [it \in Items |-> {}]
    /\ checks_in_progress = [it \in Items |-> {}]
    /\ active_checks_enabled \in [Items -> BOOLEAN]
    /\ waiting_results = {}
    /\ status = [c \in Ids |-> "none"]
    /\ ref = [c \in Ids |-> {}]
    /\ t_to_go = [c \in Ids |-> "future"]
    /\ depend_on = [c \in Ids |-> {}]
    /\ depend_on_me = [c \in Ids |-> {}]
    /\ nextId = 0
    /\ consumed = [c \in Ids |-> 0]

\* The external commands that touch checks.
Command ==
    \E it \in Items :
        \/ ScheduleForcedCheck(it)
        \/ ScheduleCheck(it)
        \/ DisableCheck(it)
        \/ EnableCheck(it)
        \/ ProcessCheckResult(it)

\* One step of the main loop.
Tick ==
    \/ BeginTick
    \/ \E it \in Items : ScheduleItem(it)
    \/ ScheduleDone
    \/ TakeResults
    \/ \E c \in Ids : BeginConsume(c)
    \/ \E c \in Ids, dep \in Items : RaiseDependency(c, dep)
    \/ \E c \in Ids : EndConsume(c)
    \/ ConsumeDone
    \/ ResolveDependencies
    \/ get_new_actions
    \/ delete_zombie_checks
    \/ \E it \in Items : FreshnessItem(it)
    \/ FreshnessDone
    \/ check_orphaned
    \/ manage_internal_checks
    \/ clean_queues

Next ==
    \/ \E res \in SUBSET Ids : get_to_run_checks(res)
    \/ \E c \in Ids : PutResults({c})
    \/ \E c \in Ids : TimePasses(c) \/ compensate_system_time_change(c)
    \/ Command
    \/ NewConf
    \/ Restart
    \/ Tick

Spec == Init /\ [][Next]_schedVars

-----------------------------------------------------------------------------
(* Properties *)

\* However late, often or unasked results come in, an item consumes a check at
\* most once: after consume_result the check is a zombie, and it is gone from
\* Scheduler.checks before results are filed again.
ConsumedOnce == \A c \in Ids : consumed[c] <= 1

\* An item waits (is_in_checking) only for checks that can still end: each one
\* is in the scheduler's queue or on its way into it, belongs to the item and
\* was not consumed.  Otherwise schedule_state_check would never launch a
\* check of that item again.
InProgressIsLive ==
    \A it \in Items : \A c \in checks_in_progress[it] :
        /\ c \in checks \cup actions[it]
        /\ ref[c] = {it}
        /\ consumed[c] = 0
        /\ status[c] \in {"scheduled", "inpoller", "waitconsume", "waitdep"}

\* Between two ticks no check is left in the middle of a dependency: nothing
\* is waitdep, havetoresolvedep or zombie, and no check of the queue still
\* depends on another.  clean_queues relies on it: the elements of depend_on
\* are ids, and its loop over them would fail on the first one.
NoDependencyAtRest ==
    pc \in {"requests", "clean_queues"} =>
        \A c \in checks :
            /\ status[c] \in {"scheduled", "inpoller", "waitconsume"}
            /\ depend_on[c] = {}

\* depend_on.remove(c.id) in consume_results and clean_queues never meets a
\* list without that id: the ValueError would end the scheduler.
RemoveFindsId ==
    \A c \in checks : status[c] # "zombie" =>
        \A d \in depend_on_me[c] : c \in depend_on[d]

-----------------------------------------------------------------------------
(* The scheduler implements CheckQueue *)

\* Where a check is in its life, as a poller sees it: waitdep is still to be
\* consumed, and after that the check is of no use to anybody outside.
Life(st) == IF st \in {"waitconsume", "waitdep"} THEN "answered"
            ELSE IF st \in {"havetoresolvedep", "zombie", "gone"} THEN "done"
            ELSE st

Queue == INSTANCE CheckQueue WITH life <- [c \in Ids |-> Life(status[c])]

\* Whatever the main loop, the external commands and the results of unknown
\* pollers do, each check goes through the life CheckQueue promises.
ImplementsQueue == Queue!QueueSpec

-----------------------------------------------------------------------------
(* The inductive invariant *)

Live == {"scheduled", "inpoller", "waitconsume", "waitdep"}

UnusedIds ==
    \A c \in Ids : /\ c >= nextId => depend_on[c] = {}
                   /\ c >= nextId <=> status[c] = "none"

ConsumedState ==
    \A c \in Ids : /\ consumed[c] <= 1
                   /\ status[c] \in Live \cup {"none"} => consumed[c] = 0

CurrentCheck ==
    /\ \A c \in cur : /\ cur = {c}
                      /\ c \in checks
                      /\ status[c] \in {"waitconsume", "waitdep"}
                      /\ todo # {} => status[c] = "waitdep"
                      /\ pc \in {"consume", "reinteger"}
    /\ \A c \in Ids : status[c] = "waitdep" => cur = {c}

\* When the checks of the queue may have a status that does not last.
QueueStatus ==
    \A c \in checks :
        /\ status[c] \notin {"none", "gone"}
        /\ status[c] = "waitconsume" =>
              pc \notin {"resolve", "reinteger", "get_new_actions"}
        /\ status[c] = "waitdep" => pc = "consume"
        /\ status[c] = "havetoresolvedep" => pc \in {"consume", "resolve"}
        /\ status[c] = "zombie" =>
              pc \in {"consume", "resolve", "reinteger", "get_new_actions",
                      "delete_zombie_checks"}

NewActions ==
    \A it \in Items : \A c \in actions[it] :
        /\ c \notin checks
        /\ ref[c] = {it}
        /\ status[c] \in {"scheduled", "waitconsume"}

InProgress ==
    \A it \in Items : \A c \in checks_in_progress[it] :
        /\ c \in checks \cup actions[it]
        /\ ref[c] = {it}
        /\ status[c] \in Live

Waiting ==
    \A c \in Ids :
        /\ status[c] \notin {"none", "zombie", "gone"} =>
              \A d \in depend_on_me[c] : c \in depend_on[d]
        /\ depend_on[c] # {} =>
              status[c] \in {"waitdep", "havetoresolvedep", "zombie", "gone"}

\* The invariants above, made inductive: which statuses a check can have at
\* each point of the tick, and that only a check that was not consumed yet is
\* live, in progress or on its way into the queue.
IInv == /\ TypeOK
        /\ UnusedIds
        /\ ConsumedState
        /\ CurrentCheck
        /\ QueueStatus
        /\ NewActions
        /\ InProgress
        /\ Waiting
=============================================================================
