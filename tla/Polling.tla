------------------------------- MODULE Polling -------------------------------
(***************************************************************************)
(* A scheduler and its satellites (pollers; reactionners run the same      *)
(* code): shinken/satellite.py, shinken/worker.py and the IChecks calls of *)
(* shinken/daemons/schedulerdaemon.py.  The scheduler is CheckQueue.tla,   *)
(* which Scheduler.tla implements.                                         *)
(*                                                                         *)
(* A satellite is one main loop that asks for checks (get_checks), gives   *)
(* them to worker processes, collects what they return and sends it home   *)
(* (put_results).  Its calls are synchronous HTTP calls: one can fail      *)
(* before or after the scheduler served it, and a request that the         *)
(* satellite gave up may still be served later.  Workers and satellites    *)
(* die, the scheduler is restarted or gets a new configuration.            *)
(*                                                                         *)
(* Each time a check is handed out is told apart: a copy is the id of the  *)
(* check, the configuration it belongs to and a number.  Only the id       *)
(* travels with a real result.                                             *)
(***************************************************************************)
EXTENDS CheckQueue, FiniteSets

CONSTANTS
    Satellites,
    Workers,             \* slots for worker processes of a satellite
    max_q_size,          \* actions a satellite wants in its queues (0: any)
    processes_by_worker, \* checks a worker runs at a time
    results_batch,       \* results per put_results (0: all)
    MaxRun,              \* bound: starts of the scheduler daemon
    MaxConf,             \* bound: configurations it gets
    MaxFaults,           \* bound: calls lost, processes dead, satellites set up anew
    MaxEarly             \* bound: checks given up while somebody has them

ASSUME BoundsAssumption ==
    /\ Workers # {} /\ IsFiniteSet(Workers)
    /\ max_q_size \in Nat /\ results_batch \in Nat
    /\ processes_by_worker \in Nat \ {0}
    /\ MaxRun \in Nat \ {0} /\ MaxConf \in Nat \ {0}
    /\ MaxFaults \in Nat /\ MaxEarly \in Nat

VARIABLES
    run,              \* running_id of the interface the scheduler starts with
    conf,             \* history: the configuration it has or waits for
    first,            \* history: the first configuration of this run
    up,               \* the scheduler has a configuration and serves IChecks
    waiting_results,  \* Scheduler.waiting_results
    handed,           \* how often a check of this run was handed out
    filed,            \* history: configurations whose results a check got
    late,             \* requests given up by their satellite, not yet served
    pc,               \* where the main loop of a satellite is
    rpc,              \* its call in hand
    con, running_id, wait_homerun, \* schedulers[id] of the satellite
    queue,            \* Queue of each worker
    running,          \* Worker.checks
    alive,            \* is_alive() of each worker
    returns_queue,    \* finished actions, on their way to the main loop
    faults, early     \* what happened so far, for the bounds

schedulerVars == <<run, conf, first, up, waiting_results, handed, filed, late>>
satVars == <<pc, rpc, con, running_id, wait_homerun, queue, running, alive,
             returns_queue>>
boundVars == <<faults, early>>
vars == <<queueVars, schedulerVars, satVars, boundVars>>

Copies == [id : Ids, of : 1..MaxConf, n : Nat]

Idle == [st |-> "idle", copies |-> {}, slots |-> 0]

TypeOK ==
    /\ life \in [Ids -> Lives]
    /\ nextId \in Nat
    /\ run \in 1..MaxRun
    /\ conf \in 1..MaxConf
    /\ first \in 1..conf
    /\ up \in BOOLEAN
    /\ waiting_results \subseteq Copies
    /\ handed \in [Ids -> Nat]
    /\ filed \in [Ids -> SUBSET (1..MaxConf)]
    /\ late \subseteq [kind : {"get_checks", "put_results"},
                     copies : SUBSET Copies, slots : Nat]
    /\ pc \in [Satellites -> {"wait", "get_workers_results", "get_new_actions",
                              "manage_returns"}]
    /\ rpc \in [Satellites -> [st : {"idle", "sent", "broken", "answered"},
                               copies : SUBSET Copies, slots : Nat]]
    /\ wait_homerun \in [Satellites -> SUBSET Copies]
    /\ returns_queue \in [Satellites -> SUBSET Copies]
    /\ queue \in [Satellites -> [Workers -> SUBSET Copies]]
    /\ running \in [Satellites -> [Workers -> SUBSET Copies]]
    /\ con \in [Satellites -> BOOLEAN]
    /\ running_id \in [Satellites -> 0..MaxRun]
    /\ alive \in [Satellites -> [Workers -> BOOLEAN]]
    /\ faults \in 0..MaxFaults /\ early \in 0..MaxEarly

Fault == faults < MaxFaults /\ faults' = faults + 1

-----------------------------------------------------------------------------
(* The scheduler *)

\* schedule and get_new_actions: a check is due.
NewCheck ==
    /\ up
    /\ Create("scheduled")
    /\ UNCHANGED <<schedulerVars, satVars, boundVars>>

\* First half of consume_results: a result goes to the check with its id, if
\* there is one that has not been consumed.
Wanted == {c \in Ids : life[c] \in {"scheduled", "inpoller", "answered"}}

TakeResults ==
    /\ up
    /\ waiting_results # {}
    /\ Answer({c \in Wanted : \E r \in waiting_results : r.id = c})
    /\ filed' = [c \in Ids |-> filed[c] \cup
                    {r.of : r \in {s \in waiting_results : s.id = c /\ c \in Wanted}}]
    /\ waiting_results' = {}
    /\ UNCHANGED <<run, conf, first, up, handed, late, satVars, boundVars>>

ConsumeResult(c) ==
    /\ up
    /\ Consume(c)
    /\ UNCHANGED <<schedulerVars, satVars, boundVars>>

\* Mutant: copy_shell does not hand the id on, and the copy takes a new one.
CopyOfNewId(c) == [id |-> nextId, of |-> conf, n |-> handed[c]]

\* copy_shell: the copy of a check that the scheduler gives out now.
CopyOf(c) == [id |-> c, of |-> conf, n |-> handed[c]]

\* Everywhere a copy, or its result, can be that is sure to come back.
Underway ==
    waiting_results \cup (UNION {rpc[p].copies : p \in Satellites})
      \cup (UNION {wait_homerun[p] \cup returns_queue[p] : p \in Satellites})
      \cup (UNION {queue[p][w] \cup running[p][w] : p \in Satellites, w \in Workers})

\* Mutant: check_orphaned looks at the checks that nobody took.
OrphanedUntaken(c) ==
    /\ up
    /\ Reenable({c}) /\ life[c] = "scheduled"
    /\ UNCHANGED <<schedulerVars, satVars, boundVars>>

\* check_orphaned: an hour or so after it was due, the check is offered again,
\* whether its poller is dead or slow.
Orphaned(c) ==
    /\ up
    /\ Reenable({c}) /\ life[c] = "inpoller"
    /\ IF [CopyOf(c) EXCEPT !.n = @ - 1] \in Underway
       THEN early < MaxEarly /\ early' = early + 1
       ELSE UNCHANGED early
    /\ UNCHANGED <<schedulerVars, satVars, faults>>

\* Nothing is left of the queues and of the checks in them.
Reset ==
    /\ conf < MaxConf
    /\ conf' = conf + 1
    /\ waiting_results' = {}
    /\ handed' = [c \in Ids |-> 0]
    /\ filed' = [c \in Ids |-> {}]

\* Mutant: a new configuration starts Action.id at 0 again.
NewConfResetsIds ==
    /\ up
    /\ Reset
    /\ Forgets
    /\ UNCHANGED <<run, first, up, late, satVars, boundVars>>

\* put_conf and setup_new_conf: reset(), but Action.id goes on.  There is a new
\* IChecks with a running_id of its own; register keeps the get_running_id of
\* the interface that was there first, so nobody sees it.
NewConf ==
    /\ up
    /\ Reset
    /\ Drop({c \in Ids : life[c] # "none"})
    /\ UNCHANGED <<run, first, up, late, satVars, boundVars>>

\* The daemon is restarted: Action.id is 0 too, and IChecks is not served
\* before the arbiter gives it a configuration.
Restart ==
    /\ run < MaxRun
    /\ Fault
    /\ run' = run + 1
    /\ up' = FALSE
    /\ Reset
    /\ first' = conf'
    /\ Forgets
    /\ late' = {}
    /\ rpc' = [p \in Satellites |-> IF rpc[p].st = "sent"
                                    THEN [rpc[p] EXCEPT !.st = "broken"]
                                    ELSE rpc[p]]
    /\ UNCHANGED <<pc, con, running_id, wait_homerun, queue, running, alive,
                   returns_queue, early>>

GetConf ==
    /\ ~up
    /\ up' = TRUE
    /\ UNCHANGED <<queueVars, run, conf, first, waiting_results, handed, filed,
                   late, satVars, boundVars>>

\* get_to_run_checks(max_actions): the launchable checks, as many as asked for.
HandedOut(slots) ==
    IF max_q_size = 0 \/ Cardinality(Having("scheduled")) <= slots
    THEN {Having("scheduled")}
    ELSE {cs \in SUBSET Having("scheduled") : Cardinality(cs) = slots}

\* IChecks.get_checks: the status changes, then the answer is sent.
ServeGetChecks(p) ==
    /\ up
    /\ pc[p] = "get_new_actions"
    /\ rpc[p].st = "sent"
    /\ \E cs \in HandedOut(rpc[p].slots) :
         /\ HandOut(cs)
         /\ rpc' = [rpc EXCEPT ![p] = [st |-> "answered", slots |-> @.slots,
                                       copies |-> {CopyOf(c) : c \in cs}]]
         /\ handed' = [c \in Ids |-> IF c \in cs THEN handed[c] + 1
                                     ELSE handed[c]]
    /\ UNCHANGED <<run, conf, first, up, waiting_results, filed, late, pc, con,
                   running_id, wait_homerun, queue, running, alive,
                   returns_queue, boundVars>>

\* IChecks.put_results
ServePutResults(p) ==
    /\ up
    /\ pc[p] = "manage_returns"
    /\ rpc[p].st = "sent"
    /\ rpc' = [rpc EXCEPT ![p].st = "answered"]
    /\ waiting_results' = waiting_results \cup rpc[p].copies
    /\ UNCHANGED <<queueVars, run, conf, first, up, handed, filed, late, pc, con,
                   running_id, wait_homerun, queue, running, alive,
                   returns_queue, boundVars>>

\* A request whose satellite no longer waits is served; nobody hears of it.
ServeLate(r) ==
    /\ up
    /\ r \in late
    /\ late' = late \ {r}
    /\ \/ /\ r.kind = "get_checks"
          /\ \E cs \in HandedOut(r.slots) :
               /\ HandOut(cs)
               /\ handed' = [c \in Ids |-> IF c \in cs THEN handed[c] + 1
                                           ELSE handed[c]]
          /\ UNCHANGED waiting_results
       \/ /\ r.kind = "put_results"
          /\ waiting_results' = waiting_results \cup r.copies
          /\ UNCHANGED <<queueVars, handed>>
    /\ UNCHANGED <<run, conf, first, up, filed, satVars, boundVars>>

-----------------------------------------------------------------------------
(* The main loop of a satellite *)

\* do_pynag_con_init: a new connection, or none.  The results that wait are
\* cleared when the scheduler shows another running_id than before.
do_pynag_con_init(p, ok) ==
    /\ con' = [con EXCEPT ![p] = ok]
    /\ running_id' = IF ok THEN [running_id EXCEPT ![p] = run] ELSE running_id
    /\ wait_homerun' = IF ok /\ running_id[p] # 0 /\ running_id[p] # run
                       THEN [wait_homerun EXCEPT ![p] = {}]
                       ELSE wait_homerun

\* schedulers[id]['actions'], by id.  add_actions looks into it, and so does
\* check_and_del_zombie_workers; manage_action_return deletes from it.  No line
\* of the code adds to it.
AlreadyWorkingOn(p) == {}

\* check_and_del_zombie_workers and adjust_worker_number_by_load: dead workers
\* go, with their queue, and new ones take their place.
check_workers(p) ==
    /\ pc[p] = "wait"
    /\ pc' = [pc EXCEPT ![p] = "get_workers_results"]
    /\ \E target \in [AlreadyWorkingOn(p) -> Workers] :
         queue' = [queue EXCEPT ![p] = [w \in Workers |->
                     (IF alive[p][w] THEN @[w] ELSE {})
                       \cup {a \in AlreadyWorkingOn(p) : target[a] = w}]]
    /\ running' = [running EXCEPT ![p] = [w \in Workers |->
                     IF alive[p][w] THEN @[w] ELSE {}]]
    /\ alive' = [alive EXCEPT ![p] = [w \in Workers |-> TRUE]]
    /\ UNCHANGED <<queueVars, schedulerVars, rpc, con, running_id,
                   wait_homerun, returns_queue, boundVars>>

\* Mutant: the results are read and stay in returns_queue.
get_workers_resultsPeeks(p) ==
    /\ pc[p] = "get_workers_results"
    /\ pc' = [pc EXCEPT ![p] = "get_new_actions"]
    /\ wait_homerun' = [wait_homerun EXCEPT ![p] = @ \cup returns_queue[p]]
    /\ UNCHANGED <<queueVars, schedulerVars, rpc, con, running_id, queue,
                   running, alive, returns_queue, boundVars>>

\* get_workers_results and manage_action_return
get_workers_results(p) ==
    /\ pc[p] = "get_workers_results"
    /\ pc' = [pc EXCEPT ![p] = "get_new_actions"]
    /\ wait_homerun' = [wait_homerun EXCEPT ![p] = @ \cup returns_queue[p]]
    /\ returns_queue' = [returns_queue EXCEPT ![p] = {}]
    /\ UNCHANGED <<queueVars, schedulerVars, rpc, con, running_id, queue,
                   running, alive, boundVars>>

\* get_available_slots: how many more actions the queues may take.
get_available_slots(p) ==
    LET queued == Cardinality(UNION {queue[p][w] : w \in Workers})
    IN IF queued < max_q_size THEN max_q_size - queued ELSE 0

\* What put_results is given: wait_homerun[:batch].
Batches(p) ==
    IF results_batch = 0 \/ Cardinality(wait_homerun[p]) <= results_batch
    THEN {wait_homerun[p]}
    ELSE {b \in SUBSET wait_homerun[p] : Cardinality(b) = results_batch}

\* do_get_new_actions asks for checks, do_manage_returns sends results.
Call(p) ==
    /\ pc[p] \in {"get_new_actions", "manage_returns"}
    /\ rpc[p].st = "idle"
    /\ con[p]
    /\ \E b \in IF pc[p] = "manage_returns" THEN Batches(p) ELSE {{}} :
         rpc' = [rpc EXCEPT ![p] = [st |-> "sent", copies |-> b,
                                    slots |-> get_available_slots(p)]]
    /\ UNCHANGED <<queueVars, schedulerVars, pc, con, running_id, wait_homerun,
                   queue, running, alive, returns_queue, boundVars>>

NextPlace(p) == IF pc[p] = "get_new_actions" THEN "manage_returns" ELSE "wait"

\* There is no connection: make one, and go on.
Connect(p) ==
    /\ pc[p] \in {"get_new_actions", "manage_returns"}
    /\ rpc[p].st = "idle"
    /\ ~con[p]
    /\ \E ok \in BOOLEAN :
         /\ do_pynag_con_init(p, ok)
         /\ IF up /\ ~ok THEN Fault ELSE UNCHANGED faults
    /\ pc' = [pc EXCEPT ![p] = NextPlace(p)]
    /\ UNCHANGED <<queueVars, schedulerVars, rpc, queue, running, alive,
                   returns_queue, early>>

\* add_actions: what is not yet in hand is put in the queue of a worker.
GetChecksReturns(p) ==
    /\ pc[p] = "get_new_actions"
    /\ rpc[p].st = "answered"
    /\ LET new == {a \in rpc[p].copies :
                      \A b \in AlreadyWorkingOn(p) : b.id # a.id}
       IN \E target \in [new -> Workers] :
            queue' = [queue EXCEPT ![p] = [w \in Workers |->
                        @[w] \cup {a \in new : target[a] = w}]]
    /\ rpc' = [rpc EXCEPT ![p] = Idle]
    /\ pc' = [pc EXCEPT ![p] = "manage_returns"]
    /\ UNCHANGED <<queueVars, schedulerVars, con, running_id, wait_homerun,
                   running, alive, returns_queue, boundVars>>

\* Mutant: del wait_homerun[:] after one batch was sent.
PutResultsReturnsClearsAll(p) ==
    /\ pc[p] = "manage_returns"
    /\ rpc[p].st = "answered"
    /\ wait_homerun' = [wait_homerun EXCEPT ![p] = {}]
    /\ rpc' = [rpc EXCEPT ![p] = Idle]
    /\ pc' = [pc EXCEPT ![p] = "wait"]
    /\ UNCHANGED <<queueVars, schedulerVars, con, running_id, queue, running,
                   alive, returns_queue, boundVars>>

\* We clean ONLY if the send is OK.
PutResultsReturns(p) ==
    /\ pc[p] = "manage_returns"
    /\ rpc[p].st = "answered"
    /\ wait_homerun' = [wait_homerun EXCEPT ![p] = @ \ rpc[p].copies]
    /\ rpc' = [rpc EXCEPT ![p] = Idle]
    /\ pc' = [pc EXCEPT ![p] = "wait"]
    /\ UNCHANGED <<queueVars, schedulerVars, con, running_id, queue, running,
                   alive, returns_queue, boundVars>>

Request(p) == [kind |-> IF pc[p] = "get_new_actions" THEN "get_checks"
                        ELSE "put_results",
               copies |-> rpc[p].copies, slots |-> rpc[p].slots]

\* An HTTPException in do_get_new_actions or do_manage_returns: the connection
\* is made again and the loop goes on.
CallRaises(p) ==
    /\ rpc[p].st # "idle"
    /\ \E ok \in BOOLEAN : do_pynag_con_init(p, ok)
    /\ rpc' = [rpc EXCEPT ![p] = Idle]
    /\ pc' = [pc EXCEPT ![p] = NextPlace(p)]
    /\ UNCHANGED <<queueVars, run, conf, first, up, waiting_results, handed, filed,
                   queue, running, alive, returns_queue, early>>

\* The scheduler went away with the call, or does not serve it yet.
CallAborts(p) ==
    /\ ~up \/ rpc[p].st = "broken"
    /\ CallRaises(p)
    /\ UNCHANGED <<faults, late>>

\* The request or its answer is lost, or the satellite did not wait long enough
\* and the request is still on its way.
CallFails(p) ==
    /\ up
    /\ Fault
    /\ CallRaises(p)
    /\ \/ UNCHANGED late
       \/ rpc[p].st = "sent" /\ late' = late \cup {Request(p)}

-----------------------------------------------------------------------------
(* What else happens to a satellite *)

\* Worker.get_new_checks and launch_new_checks
WorkerTakes(p, w, a) ==
    /\ alive[p][w]
    /\ a \in queue[p][w]
    /\ Cardinality(running[p][w]) < processes_by_worker
    /\ queue' = [queue EXCEPT ![p][w] = @ \ {a}]
    /\ running' = [running EXCEPT ![p][w] = @ \cup {a}]
    /\ UNCHANGED <<queueVars, schedulerVars, pc, rpc, con, running_id,
                   wait_homerun, alive, returns_queue, boundVars>>

\* manage_finished_checks: the plugin ended, or ran into its timeout.
WorkerEnds(p, w, a) ==
    /\ alive[p][w]
    /\ a \in running[p][w]
    /\ running' = [running EXCEPT ![p][w] = @ \ {a}]
    /\ returns_queue' = [returns_queue EXCEPT ![p] = @ \cup {a}]
    /\ UNCHANGED <<queueVars, schedulerVars, pc, rpc, con, running_id,
                   wait_homerun, queue, alive, boundVars>>

\* A worker process dies, or stops because of too many open files.
WorkerDies(p, w) ==
    /\ alive[p][w]
    /\ Fault
    /\ alive' = [alive EXCEPT ![p][w] = FALSE]
    /\ UNCHANGED <<queueVars, schedulerVars, pc, rpc, con, running_id,
                   wait_homerun, queue, running, returns_queue, early>>

\* setup_new_conf for a scheduler that is new to the satellite: nothing waits
\* for it, and a connection is tried at once.
NewScheduler(p) ==
    /\ \E ok \in BOOLEAN :
         /\ con' = [con EXCEPT ![p] = ok]
         /\ running_id' = [running_id EXCEPT ![p] = IF ok THEN run ELSE 0]
    /\ wait_homerun' = [wait_homerun EXCEPT ![p] = {}]

\* setup_new_conf for a scheduler the satellite knows at this address: what
\* waits for it is kept, the connection and the running_id are not.
KnownScheduler(p) ==
    /\ con' = [con EXCEPT ![p] = FALSE]
    /\ running_id' = [running_id EXCEPT ![p] = 0]
    /\ UNCHANGED wait_homerun

\* The arbiter sends the satellite a configuration.
SatelliteNewConf(p) ==
    /\ pc[p] = "wait"
    /\ Fault
    /\ NewScheduler(p) \/ KnownScheduler(p)
    /\ UNCHANGED <<queueVars, schedulerVars, pc, rpc, queue, running, alive,
                   returns_queue, early>>

\* A satellite dies with its workers, starts again and gets its configuration.
SatelliteRestart(p) ==
    /\ Fault
    /\ NewScheduler(p)
    /\ pc' = [pc EXCEPT ![p] = "wait"]
    /\ rpc' = [rpc EXCEPT ![p] = Idle]
    /\ queue' = [queue EXCEPT ![p] = [w \in Workers |-> {}]]
    /\ running' = [running EXCEPT ![p] = [w \in Workers |-> {}]]
    /\ alive' = [alive EXCEPT ![p] = [w \in Workers |-> TRUE]]
    /\ returns_queue' = [returns_queue EXCEPT ![p] = {}]
    /\ \/ UNCHANGED late
       \/ rpc[p].st = "sent" /\ late' = late \cup {Request(p)}
    /\ UNCHANGED <<queueVars, run, conf, first, up, waiting_results, handed, filed,
                   early>>

-----------------------------------------------------------------------------
Init ==
    /\ QueueInit
    /\ run = 1
    /\ conf = 1 /\ first = 1
    /\ up = TRUE
    /\ waiting_results = {}
    /\ handed = [c \in Ids |-> 0]
    /\ filed = [c \in Ids |-> {}]
    /\ late = {}
    /\ pc = [p \in Satellites |-> "wait"]
    /\ rpc = [p \in Satellites |-> Idle]
    /\ con = [p \in Satellites |-> FALSE]
    /\ running_id = [p \in Satellites |-> 0]
    /\ wait_homerun = [p \in Satellites |-> {}]
    /\ queue = [p \in Satellites |-> [w \in Workers |-> {}]]
    /\ running = [p \in Satellites |-> [w \in Workers |-> {}]]
    /\ alive = [p \in Satellites |-> [w \in Workers |-> TRUE]]
    /\ returns_queue = [p \in Satellites |-> {}]
    /\ faults = 0 /\ early = 0

\* The main loop of the scheduler.
SchedulerLoop ==
    \/ TakeResults
    \/ \E c \in Ids : ConsumeResult(c)
    \/ GetConf

\* The HTTP threads of the scheduler, for one satellite.
Serve(p) == ServeGetChecks(p) \/ ServePutResults(p)

\* The main loop of a satellite.
SatelliteLoop(p) ==
    \/ check_workers(p)
    \/ get_workers_results(p)
    \/ Connect(p)
    \/ Call(p)
    \/ GetChecksReturns(p)
    \/ PutResultsReturns(p)

Work(p, w) == \E a \in queue[p][w] \cup running[p][w] :
                 WorkerTakes(p, w, a) \/ WorkerEnds(p, w, a)

Next ==
    \/ NewCheck
    \/ SchedulerLoop
    \/ \E c \in Ids : Orphaned(c)
    \/ NewConf
    \/ Restart
    \/ \E r \in late : ServeLate(r)
    \/ \E p \in Satellites :
          \/ Serve(p)
          \/ SatelliteLoop(p)
          \/ CallAborts(p)
          \/ CallFails(p)
          \/ \E w \in Workers : Work(p, w) \/ WorkerDies(p, w)
          \/ SatelliteNewConf(p)
          \/ SatelliteRestart(p)

\* The main loops go on, a call ends (served and answered, or with an error),
\* a plugin ends or is killed at its timeout, and check_orphaned runs every 60
\* ticks.  Nothing is assumed of failures, commands or late requests.
Fairness ==
    /\ WF_vars(SchedulerLoop)
    /\ \A c \in Ids : WF_vars(Orphaned(c))
    /\ \A p \in Satellites :
         /\ WF_vars(Serve(p))
         /\ WF_vars(SatelliteLoop(p) \/ CallAborts(p))
         /\ \A w \in Workers : WF_vars(Work(p, w))

Spec == Init /\ [][Next]_vars /\ Fairness

-----------------------------------------------------------------------------
(* Properties *)

\* A copy that a satellite has been given is in one place only: on the wire,
\* in the queue or the hands of one worker, on its way back or waiting to be
\* sent home.  It is not executed twice for one get_checks.
PlacesOf(a) ==
    UNION {   {<<p, w, "queue">> : w \in {v \in Workers : a \in queue[p][v]}}
         \cup {<<p, w, "running">> : w \in {v \in Workers : a \in running[p][v]}}
         \cup (IF a \in returns_queue[p] THEN {<<p, "returns_queue">>} ELSE {})
         \cup (IF a \in wait_homerun[p] THEN {<<p, "wait_homerun">>} ELSE {})
         \cup (IF pc[p] = "get_new_actions" /\ a \in rpc[p].copies
               THEN {<<p, "get_checks">>} ELSE {})
         : p \in Satellites}

OnePlace == \A a \in Underway : Cardinality(PlacesOf(a)) <= 1

\* Without failures no check waits for check_orphaned: a check that is at a
\* poller is somewhere on its way, or its result is, whatever the limits on
\* slots, processes and batches, and through new configurations.
NothingLost ==
    faults = 0 =>
        \A c \in Ids : life[c] = "inpoller" =>
            [CopyOf(c) EXCEPT !.n = @ - 1] \in Underway

\* The scheduler may get a new configuration while satellites hold copies of the
\* old one.  As Action.id goes on, what they send matches no check of the new
\* one, however often a result is repeated or late.
ResultOfThisConf ==
    \A c \in Ids : \A o \in filed[c] : o >= first => o = conf

\* A result is filed only with a check that was handed out under the present
\* configuration: what satellites still hold of an earlier one, or of an
\* earlier run, matches no check of this one.
ResultIsOfTheCheck == \A c \in Ids : filed[c] \subseteq {conf}

\* Lost calls, dead workers and dead satellites delay a check; they do not
\* keep its item in checking for ever.
CheckComesBack ==
    \A c \in Ids : life[c] \in {"scheduled", "inpoller"}
                      ~> life[c] \in {"done", "none"}

=============================================================================
