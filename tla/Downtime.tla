------------------------------- MODULE Downtime -------------------------------
(***************************************************************************)
(* Scheduled downtimes of hosts and services: shinken/downtime.py, the     *)
(* recurrent work update_downtimes_and_comments of shinken/scheduler.py,   *)
(* check_for_flexible_downtime and the reload of                           *)
(* shinken/objects/schedulingitem.py.                                      *)
(*                                                                         *)
(* Notifications of an item are blocked by a counter,                      *)
(* scheduled_downtime_depth, that each downtime moves when it is entered,  *)
(* left or cancelled.  The commands arrive between two ticks; a tick first *)
(* updates the downtimes and then consumes check results, which may enter  *)
(* flexible downtimes.                                                     *)
(*                                                                         *)
(* Time is abstracted to what is compared with it: whether start_time is   *)
(* reached and whether real_end_time is over.                              *)
(***************************************************************************)
EXTENDS Integers, FiniteSets

CONSTANTS
    Refs,             \* hosts and services, what the refs of downtimes can be
    Ids,              \* ids of downtimes; a finite set bounds the run
    MaxBelow          \* bound: how far below 0 a depth is cancelled

ASSUME IdsAssumption == Ids \subseteq Nat /\ IsFiniteSet(Ids)
ASSUME BoundAssumption == MaxBelow \in Nat

VARIABLES
    pc,             \* the step of the tick, or "requests"
    todo,           \* items the current loop has still to visit
    visit,          \* downtimes the current loop has still to visit
    nextId,         \* Downtime.id
    downtimes,      \* keys of Scheduler.downtimes; they are in item.downtimes
    ref, fixed, trigger_id, activate_me,          \* attributes of the Downtimes
    is_in_effect, can_be_deleted, extra_comment,  \* and the ones that change
    started,        \* start_time <= now
    ended,          \* real_end_time < now
    comments,       \* downtimes whose automatic comment is in Scheduler.comments
    scheduled_downtime_depth, in_scheduled_downtime, in_maintenance, \* of items
    regular         \* history: since the last reload no downtime was triggered
                    \* by another, and none deleted that was not in effect

dtVars == <<ref, fixed, trigger_id, activate_me>>
itemVars == <<scheduled_downtime_depth, in_scheduled_downtime>>
varsD == <<pc, todo, visit, nextId, downtimes, dtVars, is_in_effect,
          can_be_deleted, extra_comment, started, ended, comments, itemVars,
          in_maintenance, regular>>

TypeOKd ==
    /\ pc \in {"requests", "maintenance", "update", "delete", "consume"}
    /\ todo \subseteq Refs
    /\ visit \subseteq Ids
    /\ nextId \in Nat
    /\ downtimes \subseteq Ids
    /\ ref \in [Ids -> SUBSET Refs]
    /\ fixed \in [Ids -> BOOLEAN]
    /\ trigger_id \in [Ids -> BOOLEAN]
    /\ activate_me \in [Ids -> SUBSET Ids]
    /\ is_in_effect \in [Ids -> BOOLEAN]
    /\ can_be_deleted \in [Ids -> BOOLEAN]
    /\ extra_comment \in [Ids -> BOOLEAN]
    /\ started \in [Ids -> BOOLEAN]
    /\ ended \in [Ids -> BOOLEAN]
    /\ comments \subseteq Ids
    /\ scheduled_downtime_depth \in [Refs -> Int]
    /\ in_scheduled_downtime \in [Refs -> BOOLEAN]
    /\ in_maintenance \in [Refs -> SUBSET Ids]
    /\ regular \in BOOLEAN

-----------------------------------------------------------------------------
(* Downtime objects *)

\* Set f to v for the downtimes of a set.
Set(f, ds, v) == [d \in Ids |-> IF d \in ds THEN v ELSE f[d]]

\* Downtime.__init__, add_downtime and add_Downtime: the downtime and its
\* automatic comment are registered.  A triggered downtime is never fixed.
NewDowntime(it, fx, triggered, now) ==
    /\ nextId \in Ids
    /\ nextId' = nextId + 1
    /\ downtimes' = downtimes \cup {nextId}
    /\ ref' = [ref EXCEPT ![nextId] = {it}]
    /\ fixed' = [fixed EXCEPT ![nextId] = fx /\ ~triggered]
    /\ trigger_id' = [trigger_id EXCEPT ![nextId] = triggered]
    /\ extra_comment' = [extra_comment EXCEPT ![nextId] = TRUE]
    /\ started' = [started EXCEPT ![nextId] = now]
    /\ comments' = comments \cup {nextId}

\* A downtime and those it triggers, directly or through others: enter and
\* cancel go down activate_me.  No downtime is triggered by two others.
Tree(d) ==
    {e \in Ids : \A S \in SUBSET Ids :
        (d \in S /\ \A x \in S : activate_me[x] \subseteq S) => e \in S}

Of(ds, it) == {d \in ds : it \in ref[d]}

\* enter() of the downtimes of a set: a flexible one gets a new end.
EnterAll(ds) ==
    /\ is_in_effect' = Set(is_in_effect, ds, TRUE)
    /\ ended' = [d \in Ids |-> ended[d] /\ ~(d \in ds /\ ~fixed[d])]
    /\ scheduled_downtime_depth' = [it \in Refs |->
         scheduled_downtime_depth[it] + Cardinality(Of(ds, it))]
    /\ in_scheduled_downtime' = [it \in Refs |->
         in_scheduled_downtime[it] \/ Of(ds, it) # {}]

\* Mutant: exit() does not look whether the downtime was in effect.
ExitUnconditionally(d) ==
    /\ is_in_effect' = [is_in_effect EXCEPT ![d] = FALSE]
    /\ scheduled_downtime_depth' = [it \in Refs |->
         scheduled_downtime_depth[it] - Cardinality(Of({d}, it))]
    /\ in_scheduled_downtime' = [it \in Refs |->
         /\ in_scheduled_downtime[it]
         /\ it \in ref[d] => scheduled_downtime_depth'[it] > 0]
    /\ can_be_deleted' = [can_be_deleted EXCEPT ![d] = TRUE]

\* exit(): only a downtime that was entered counts down.
DowntimeExit(d) ==
    /\ is_in_effect' = [is_in_effect EXCEPT ![d] = FALSE]
    /\ IF is_in_effect[d]
       THEN /\ scheduled_downtime_depth' = [it \in Refs |->
                 scheduled_downtime_depth[it] - Cardinality(Of({d}, it))]
            /\ in_scheduled_downtime' = [it \in Refs |->
                 /\ in_scheduled_downtime[it]
                 /\ it \in ref[d] => scheduled_downtime_depth'[it] > 0]
       ELSE UNCHANGED itemVars
    /\ can_be_deleted' = [can_be_deleted EXCEPT ![d] = TRUE]

\* cancel() of the downtimes of a set: each counts down, entered or not.  The
\* flag of the item falls when its depth becomes 0.
CancelAll(ds) ==
    /\ is_in_effect' = Set(is_in_effect, ds, FALSE)
    /\ scheduled_downtime_depth' = [it \in Refs |->
         scheduled_downtime_depth[it] - Cardinality(Of(ds, it))]
    /\ in_scheduled_downtime' = [it \in Refs |->
         /\ in_scheduled_downtime[it]
         /\ ~(scheduled_downtime_depth[it] > 0
                /\ scheduled_downtime_depth'[it] <= 0)]
    /\ can_be_deleted' = Set(can_be_deleted, ds, TRUE)

-----------------------------------------------------------------------------
(* Between two ticks *)

\* SCHEDULE_HOST_DOWNTIME / SCHEDULE_SVC_DOWNTIME with trigger_id 0.
ScheduleDowntime(it, fx) ==
    /\ pc = "requests"
    /\ \E now \in BOOLEAN : NewDowntime(it, fx, FALSE, now)
    /\ UNCHANGED <<pc, todo, visit, activate_me, is_in_effect, can_be_deleted,
                   ended, itemVars, in_maintenance, regular>>

\* The same with a trigger_id: it is linked to that downtime if it still exists.
ScheduleTriggered(it, by) ==
    /\ pc = "requests"
    /\ \E now \in BOOLEAN, fx \in BOOLEAN : NewDowntime(it, fx, TRUE, now)
    /\ activate_me' = [activate_me EXCEPT ![by] =
                         IF by \in downtimes THEN @ \cup {nextId} ELSE @]
    /\ regular' = (regular /\ by \notin downtimes)
    /\ UNCHANGED <<pc, todo, visit, is_in_effect, can_be_deleted, ended,
                   itemVars, in_maintenance>>

\* DEL_HOST_DOWNTIME / DEL_SVC_DOWNTIME
DelDowntime(d) ==
    /\ pc = "requests"
    /\ d \in downtimes
    /\ \A it \in Refs : scheduled_downtime_depth[it] > -MaxBelow
                            \/ is_in_effect[d]
    /\ CancelAll(Tree(d))
    /\ regular' = (regular /\ is_in_effect[d])
    /\ UNCHANGED <<pc, todo, visit, nextId, downtimes, dtVars, extra_comment,
                   started, ended, comments, in_maintenance>>

TimePasses(d) ==
    /\ pc = "requests"
    /\ d \in downtimes
    /\ \/ ~started[d] /\ started' = [started EXCEPT ![d] = TRUE] /\ UNCHANGED ended
       \/ /\ started[d] /\ ~ended[d]
          /\ ended' = [ended EXCEPT ![d] = TRUE] /\ UNCHANGED started
    /\ UNCHANGED <<pc, todo, visit, nextId, downtimes, dtVars, is_in_effect,
                   can_be_deleted, extra_comment, comments, itemVars,
                   in_maintenance, regular>>

\* The scheduler stops, saves its retention, starts and loads it.  __getstate__
\* leaves extra_comment out; reprocess_ack_and_downtimes_state counts again.
\* Whether activate_me survives it depends on the retention module, so that no
\* reload is modelled of downtimes that trigger others.
Reload ==
    /\ pc = "requests"
    /\ \A d \in downtimes : activate_me[d] = {}
    /\ regular' = TRUE
    /\ extra_comment' = [d \in Ids |-> FALSE]
    /\ scheduled_downtime_depth' = [it \in Refs |->
         Cardinality({d \in Of(downtimes, it) : is_in_effect[d]})]
    /\ in_scheduled_downtime' = [it \in Refs |->
         scheduled_downtime_depth'[it] > 0]
    /\ UNCHANGED <<pc, todo, visit, nextId, downtimes, dtVars, is_in_effect,
                   can_be_deleted, started, ended, comments, in_maintenance>>

-----------------------------------------------------------------------------
(* update_downtimes_and_comments *)

BeginUpdate ==
    /\ pc = "requests"
    /\ pc' = "maintenance"
    /\ todo' = Refs
    /\ UNCHANGED <<visit, nextId, downtimes, dtVars, is_in_effect,
                   can_be_deleted, extra_comment, started, ended, comments,
                   itemVars, in_maintenance, regular>>

\* Mutant: Downtime.id is read after it was counted up.
BeginMaintenanceNextId(it) ==
    /\ pc = "maintenance"
    /\ it \in todo
    /\ in_maintenance[it] = {}
    /\ NewDowntime(it, TRUE, FALSE, TRUE)
    /\ in_maintenance' = [in_maintenance EXCEPT ![it] = {nextId + 1}]
    /\ todo' = todo \ {it}
    /\ UNCHANGED <<pc, visit, activate_me, is_in_effect, can_be_deleted, ended,
                   itemVars, regular>>

\* update_maintenance_downtimes for an item that is not in maintenance: a
\* period or a maintenance check may put it there.
BeginMaintenance(it) ==
    /\ pc = "maintenance"
    /\ it \in todo
    /\ in_maintenance[it] = {}
    /\ NewDowntime(it, TRUE, FALSE, TRUE)
    /\ in_maintenance' = [in_maintenance EXCEPT ![it] = {nextId}]
    /\ todo' = todo \ {it}
    /\ UNCHANGED <<pc, visit, activate_me, is_in_effect, can_be_deleted, ended,
                   itemVars, regular>>

\* The maintenance goes on (a new end), is over, or says nothing new; or its
\* downtime is not there any more.
InMaintenance(it) ==
    /\ pc = "maintenance"
    /\ it \in todo
    /\ todo' = todo \ {it}
    /\ \/ /\ \E over \in BOOLEAN :
               ended' = Set(ended, in_maintenance[it] \cap downtimes, over)
          /\ in_maintenance' = [in_maintenance EXCEPT ![it] = @ \cap downtimes]
       \/ UNCHANGED <<ended, in_maintenance>>
    /\ UNCHANGED <<pc, visit, nextId, downtimes, dtVars, is_in_effect,
                   can_be_deleted, extra_comment, started, comments, itemVars, regular>>

MaintenanceDone ==
    /\ pc = "maintenance"
    /\ todo = {}
    /\ pc' = "update"
    /\ visit' = downtimes
    /\ UNCHANGED <<todo, nextId, downtimes, dtVars, is_in_effect,
                   can_be_deleted, extra_comment, started, ended, comments,
                   itemVars, in_maintenance, regular>>

\* Check start and stop times, in the order of self.downtimes.
UpdateDowntime(d) ==
    /\ pc = "update"
    /\ d \in visit /\ \A e \in visit : d <= e
    /\ visit' = visit \ {d}
    /\ \/ /\ ended[d]
          /\ DowntimeExit(d)
          /\ UNCHANGED ended
       \/ /\ ~ended[d]
          /\ started[d] /\ fixed[d] /\ ~is_in_effect[d] /\ ~can_be_deleted[d]
          /\ EnterAll(Tree(d))
          /\ UNCHANGED can_be_deleted
       \/ /\ ~ended[d]
          /\ ~(started[d] /\ fixed[d] /\ ~is_in_effect[d] /\ ~can_be_deleted[d])
          /\ UNCHANGED <<is_in_effect, can_be_deleted, ended, itemVars>>
    /\ UNCHANGED <<pc, todo, nextId, downtimes, dtVars, extra_comment, started,
                   comments, in_maintenance, regular>>

UpdateDone ==
    /\ pc = "update"
    /\ visit = {}
    /\ pc' = "delete"
    /\ UNCHANGED <<todo, visit, nextId, downtimes, dtVars, is_in_effect,
                   can_be_deleted, extra_comment, started, ended, comments,
                   itemVars, in_maintenance, regular>>

\* Mutant: in_maintenance is not cleaned up after the deletions.
DeleteMarkedOnly ==
    /\ pc = "delete"
    /\ pc' = "consume"
    /\ todo' = Refs
    /\ downtimes' = {d \in downtimes : ~can_be_deleted[d]}
    /\ comments' = {d \in comments : ~(can_be_deleted[d] /\ extra_comment[d])}
    /\ UNCHANGED <<visit, nextId, dtVars, is_in_effect, can_be_deleted,
                   extra_comment, started, ended, itemVars, in_maintenance, regular>>

\* Mutant: the loop that removes the marked downtimes is dropped.
DeleteNothing ==
    /\ pc = "delete"
    /\ pc' = "consume"
    /\ todo' = Refs
    /\ comments' = {d \in comments : ~(can_be_deleted[d] /\ extra_comment[d])}
    /\ UNCHANGED <<visit, nextId, downtimes, dtVars, is_in_effect,
                   can_be_deleted, extra_comment, started, ended, itemVars,
                   in_maintenance, regular>>

\* What is marked is removed, the comments too, and in_maintenance is cleaned.
DeleteMarked ==
    /\ pc = "delete"
    /\ pc' = "consume"
    /\ todo' = Refs
    /\ downtimes' = {d \in downtimes : ~can_be_deleted[d]}
    /\ comments' = {d \in comments : ~(can_be_deleted[d] /\ extra_comment[d])}
    /\ in_maintenance' = [it \in Refs |-> in_maintenance[it] \cap downtimes']
    /\ UNCHANGED <<visit, nextId, dtVars, is_in_effect, can_be_deleted,
                   extra_comment, started, ended, itemVars, regular>>

-----------------------------------------------------------------------------
(* consume_results, as far as downtimes are concerned *)

Flexible(it) ==
    {d \in Of(downtimes, it) : /\ ~fixed[d] /\ started[d] /\ ~trigger_id[d]
                               /\ ~is_in_effect[d]}

\* check_for_flexible_downtime when the item gets a bad state.
CheckForFlexible(it) ==
    /\ pc = "consume"
    /\ it \in todo
    /\ todo' = todo \ {it}
    /\ \/ EnterAll(UNION {Tree(d) : d \in Flexible(it)})
       \/ UNCHANGED <<is_in_effect, ended, itemVars>>
    /\ UNCHANGED <<pc, visit, nextId, downtimes, dtVars, can_be_deleted,
                   extra_comment, started, comments, in_maintenance, regular>>

EndTick ==
    /\ pc = "consume"
    /\ todo = {}
    /\ pc' = "requests"
    /\ UNCHANGED <<todo, visit, nextId, downtimes, dtVars, is_in_effect,
                   can_be_deleted, extra_comment, started, ended, comments,
                   itemVars, in_maintenance, regular>>

-----------------------------------------------------------------------------
InitD ==
    /\ pc = "requests"
    /\ todo = {} /\ visit = {}
    /\ nextId = 0
    /\ downtimes = {}
    /\ ref = [d \in Ids |-> {}]
    /\ fixed = [d \in Ids |-> FALSE]
    /\ trigger_id = [d \in Ids |-> FALSE]
    /\ activate_me = [d \in Ids |-> {}]
    /\ is_in_effect = [d \in Ids |-> FALSE]
    /\ can_be_deleted = [d \in Ids |-> FALSE]
    /\ extra_comment = [d \in Ids |-> FALSE]
    /\ started = [d \in Ids |-> FALSE]
    /\ ended = [d \in Ids |-> FALSE]
    /\ comments = {}
    /\ scheduled_downtime_depth = [it \in Refs |-> 0]
    /\ in_scheduled_downtime = [it \in Refs |-> FALSE]
    /\ in_maintenance = [it \in Refs |-> {}]
    /\ regular = TRUE

Tick ==
    \/ BeginUpdate
    \/ \E it \in Refs : BeginMaintenance(it) \/ InMaintenance(it)
    \/ MaintenanceDone
    \/ \E d \in Ids : UpdateDowntime(d)
    \/ UpdateDone
    \/ DeleteMarked
    \/ \E it \in Refs : CheckForFlexible(it)
    \/ EndTick

NextD ==
    \/ \E it \in Refs, fx \in BOOLEAN : ScheduleDowntime(it, fx)
    \/ \E it \in Refs, by \in Ids : ScheduleTriggered(it, by)
    \/ \E d \in Ids : DelDowntime(d) \/ TimePasses(d)
    \/ Reload
    \/ Tick

\* The main loop of the scheduler ticks for ever.
SpecD == InitD /\ [][NextD]_varsD /\ WF_varsD(Tick)

-----------------------------------------------------------------------------
(* Properties *)

\* The counter that blocks the notifications of an item is the number of its
\* downtimes in effect, and the flag says whether there is one.  It holds of a
\* scheduler whose operators delete only downtimes in effect and trigger none
\* by another: through overlaps, maintenance periods, flexible downtimes that
\* are never entered, and reloads, which also repair the counter.
DepthCounts ==
    regular => \A it \in Refs :
        /\ scheduled_downtime_depth[it] =
             Cardinality({d \in Of(downtimes, it) : is_in_effect[d]})
        /\ in_scheduled_downtime[it] <=> scheduled_downtime_depth[it] > 0

\* Whatever operators do, in_maintenance names a downtime the scheduler still
\* has; otherwise the item could not be put in maintenance again.
MaintenanceIsKnown ==
    \A it \in Refs : in_maintenance[it] \subseteq downtimes

\* Whatever operators do, a downtime that is over is removed or gets a new end
\* (it was entered only now, or its maintenance goes on).
EndedIsRemoved ==
    \A d \in Ids : (d \in downtimes /\ ended[d])
                      ~> (d \notin downtimes \/ ~ended[d])

=============================================================================
