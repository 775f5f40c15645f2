---------------------------- MODULE PollingProofs ----------------------------
(***************************************************************************)
(* The safety invariants of Polling.tla, proved for any number of checks,  *)
(* satellites, workers, configurations and restarts.                       *)
(*                                                                         *)
(* IInv is inductive.  Its parts: which ids were given out (UsedIds), what *)
(* a call in hand carries (CallsInHand), that queues are finite            *)
(* (FiniteQueues), what is known of a copy wherever it is (CopiesAreKnown),*)
(* that it is at one place of the satellites (OneWhere), what a scheduler  *)
(* and its satellites are like before the first failure (Unharmed) and     *)
(* what put_results has delivered (Delivered).  One lemma per part shows   *)
(* that every step keeps it.                                               *)
(*                                                                         *)
(* Then the same for satellites that are called by the scheduler           *)
(* (Passive.tla, PassiveInv), for the processes in which all daemons run   *)
(* (Daemon.tla, DaemonInv) and for the plugins that a worker runs          *)
(* (Plugins.tla, PluginInv).                                               *)
(***************************************************************************)
EXTENDS Polling, ListProofs, FiniteSetTheorems, TLAPS

\* Action.id is above the id of every check there is.
UsedIds == \A c \in Ids : life[c] # "none" => c < nextId

\* A satellite has a call in hand only where it makes one, and a get_checks that
\* was not answered brought nothing.
CallsInHand ==
    \A p \in Satellites :
        /\ rpc[p].st = "idle" => rpc[p].copies = {}
        /\ pc[p] \in {"wait", "get_workers_results"} => rpc[p].st = "idle"
        /\ pc[p] = "get_new_actions" /\ rpc[p].st = "sent" => rpc[p].copies = {}

\* What get_available_slots counts is finite.
FiniteQueues ==
    \A p \in Satellites :
        /\ pc[p] = "get_new_actions" => IsFiniteSet(rpc[p].copies)
        /\ \A w \in Workers : IsFiniteSet(queue[p][w])

\* Somebody has the copy or its result, or may still deliver it.
Held(a) ==
    \/ a \in waiting_results
    \/ \E r \in late : a \in r.copies
    \/ \E p \in Satellites :
         \/ a \in rpc[p].copies
         \/ a \in wait_homerun[p]
         \/ a \in returns_queue[p]
         \/ \E w \in Workers : a \in queue[p][w] \/ a \in running[p][w]

\* A copy of the present configuration was handed out before.  The check that a
\* copy of an earlier configuration of this run was made of wants no result, and
\* no check will have its id again.
IsKnown(a) ==
    /\ a.of <= conf
    /\ a.of = conf => a.n < handed[a.id]
    /\ a.of >= first =>
         /\ a.id < nextId
         /\ a.of < conf => life[a.id] \notin {"scheduled", "inpoller", "answered"}

CopiesAreKnown == \A a \in Copies : Held(a) => IsKnown(a)

\* The places of a satellite where a copy can be; w counts for the first two.
PerWorker == {"queue", "running"}
Kinds == PerWorker \cup {"returns_queue", "wait_homerun", "get_checks"}

At(a, p, w, k) ==
    \/ k = "queue" /\ a \in queue[p][w]
    \/ k = "running" /\ a \in running[p][w]
    \/ k = "returns_queue" /\ a \in returns_queue[p]
    \/ k = "wait_homerun" /\ a \in wait_homerun[p]
    \/ k = "get_checks" /\ pc[p] = "get_new_actions" /\ a \in rpc[p].copies

SamePlace(p, v, j, q, w, k) == p = q /\ j = k /\ (j \in PerWorker => v = w)

OneWhere ==
    \A a \in Copies : \A p, q \in Satellites, v, w \in Workers, j, k \in Kinds :
        At(a, p, v, j) /\ At(a, q, w, k) => SamePlace(p, v, j, q, w, k)

\* Before the first failure the scheduler runs, no request is on its own, no
\* worker is dead and no satellite has seen another running_id.
Unharmed ==
    faults = 0 =>
        /\ up
        /\ late = {}
        /\ \A p \in Satellites :
             /\ running_id[p] \in {0, run}
             /\ rpc[p].st # "broken"
             /\ \A w \in Workers : alive[p][w]

\* The copy that was handed out last for a check.
Last(c) == [id |-> c, of |-> conf, n |-> handed[c] - 1]

\* Before the first failure, what put_results answered for is with the scheduler
\* as long as its check waits for it.
Delivered ==
    faults = 0 =>
        \A p \in Satellites : \A a \in rpc[p].copies :
            (/\ pc[p] = "manage_returns" /\ rpc[p].st = "answered"
             /\ life[a.id] = "inpoller" /\ a = Last(a.id))
                => a \in waiting_results

LastIsHeld ==
    faults = 0 => \A c \in Ids : life[c] = "inpoller" => Held(Last(c))

IInv ==
    /\ TypeOK
    /\ UsedIds
    /\ CallsInHand
    /\ FiniteQueues
    /\ CopiesAreKnown
    /\ OneWhere
    /\ ResultOfThisConf
    /\ Unharmed
    /\ Delivered
    /\ LastIsHeld

-----------------------------------------------------------------------------
(* Types *)

LEMMA CopyType ==
    ASSUME TypeOK, NEW c \in Ids
    PROVE  CopyOf(c) \in Copies
  BY DEF TypeOK, CopyOf, Copies

\* get_available_slots is a number: the queues of a satellite are finite.
LEMMA SlotsType ==
    ASSUME TypeOK, FiniteQueues, NEW p \in Satellites
    PROVE  get_available_slots(p) \in Nat
<1> DEFINE qs == {queue[p][w] : w \in Workers}
<1>1. IsFiniteSet(qs)
  <2> DEFINE f == [w \in Workers |-> queue[p][w]]
  <2>1. f \in Surjection(Workers, qs)
    BY DEF Surjection
  <2> QED
    BY <2>1, FS_Surjection, BoundsAssumption
<1>2. \A q \in qs : IsFiniteSet(q)
  BY DEF FiniteQueues
<1>3. IsFiniteSet(UNION qs)
  BY <1>1, <1>2, FS_UNION
<1>4. Cardinality(UNION qs) \in Nat
  BY <1>3, FS_CardinalityType
<1> QED
  BY <1>4, BoundsAssumption DEF get_available_slots

LEMMA BatchType ==
    ASSUME TypeOK, NEW p \in Satellites, NEW b \in Batches(p)
    PROVE  b \in SUBSET Copies /\ b \subseteq wait_homerun[p]
  BY DEF Batches, TypeOK

LEMMA HandedOutType ==
    ASSUME NEW slots, NEW cs \in HandedOut(slots)
    PROVE  cs \in SUBSET Ids /\ \A c \in cs : life[c] = "scheduled"
  BY DEF HandedOut, Having

LEMMA RequestType ==
    ASSUME TypeOK, NEW p \in Satellites
    PROVE  /\ Request(p) \in [kind : {"get_checks", "put_results"},
                               copies : SUBSET Copies, slots : Nat]
           /\ Request(p).copies = rpc[p].copies
  BY DEF TypeOK, Request

LEMMA MoveType ==
    ASSUME TypeOK, NEW cs, NEW l \in Lives, Move(cs, l)
    PROVE  life' \in [Ids -> Lives]
  BY DEF TypeOK, Move

\* do_pynag_con_init keeps the types of what a satellite knows of the scheduler.
LEMMA ConnectType ==
    ASSUME TypeOK, NEW p \in Satellites, NEW ok \in BOOLEAN, do_pynag_con_init(p, ok)
    PROVE  /\ con' \in [Satellites -> BOOLEAN]
           /\ running_id' \in [Satellites -> 0..MaxRun]
           /\ wait_homerun' \in [Satellites -> SUBSET Copies]
<1>1. run \in 0..MaxRun
  BY BoundsAssumption DEF TypeOK
<1> QED
  BY <1>1 DEF TypeOK, do_pynag_con_init

LEMMA NewSchedulerType ==
    ASSUME TypeOK, NEW p \in Satellites, NewScheduler(p) \/ KnownScheduler(p)
    PROVE  /\ con' \in [Satellites -> BOOLEAN]
           /\ running_id' \in [Satellites -> 0..MaxRun]
           /\ wait_homerun' \in [Satellites -> SUBSET Copies]
<1>1. run \in 0..MaxRun /\ 0 \in 0..MaxRun
  BY BoundsAssumption DEF TypeOK
<1> QED
  <2>1. CASE NewScheduler(p)
    <3>1. PICK ok \in BOOLEAN :
            /\ con' = [con EXCEPT ![p] = ok]
            /\ running_id' = [running_id EXCEPT ![p] = IF ok THEN run ELSE 0]
      BY <2>1 DEF NewScheduler
    <3>2. con' \in [Satellites -> BOOLEAN]
      BY <3>1 DEF TypeOK
    <3>3. running_id' \in [Satellites -> 0..MaxRun]
      BY <1>1, <3>1 DEF TypeOK
    <3> QED
      BY <2>1, <3>2, <3>3 DEF TypeOK, NewScheduler
  <2>2. CASE KnownScheduler(p)
    BY <1>1, <2>2 DEF TypeOK, KnownScheduler
  <2> QED
    BY <2>1, <2>2

\* Every step keeps the types.
LEMMA TypeStep == TypeOK /\ FiniteQueues /\ [Next]_vars => TypeOK'
<1> SUFFICES ASSUME TypeOK, FiniteQueues, [Next]_vars PROVE TypeOK'
  OBVIOUS
<1> USE BoundsAssumption, IdsAssumption
<1>1. CASE UNCHANGED vars
  BY <1>1 DEF TypeOK, vars, queueVars, schedulerVars, satVars, boundVars
<1>2. CASE NewCheck
  BY <1>2 DEF TypeOK, NewCheck, Create, Move, Having, Lives, schedulerVars, satVars, boundVars
<1>3. CASE TakeResults
  <2>1. life' \in [Ids -> Lives] /\ nextId' = nextId
    BY <1>3, MoveType DEF TakeResults, Answer, Lives
  <2>2. filed' \in [Ids -> SUBSET (1..MaxConf)]
    BY <1>3 DEF TakeResults, TypeOK, Copies
  <2> QED
    BY <1>3, <2>1, <2>2 DEF TypeOK, TakeResults, satVars, boundVars
<1>4. ASSUME NEW c \in Ids, ConsumeResult(c) PROVE TypeOK'
  BY <1>4, MoveType DEF TypeOK, ConsumeResult, Consume, Lives, schedulerVars, satVars, boundVars
<1>5. CASE GetConf
  BY <1>5 DEF TypeOK, GetConf, queueVars, satVars, boundVars
<1>6. ASSUME NEW c \in Ids, Orphaned(c) PROVE TypeOK'
  BY <1>6, MoveType DEF TypeOK, Orphaned, Reenable, Lives, schedulerVars, satVars
<1>7. CASE NewConf
  BY <1>7, MoveType DEF TypeOK, NewConf, Reset, Drop, Lives, satVars, boundVars
<1>8. CASE Restart
  <2>1. rpc' \in [Satellites -> [st : {"idle", "sent", "broken", "answered"},
                                copies : SUBSET Copies, slots : Nat]]
    <3> SUFFICES ASSUME NEW p \in Satellites
                 PROVE  rpc'[p] \in [st : {"idle", "sent", "broken", "answered"},
                                     copies : SUBSET Copies, slots : Nat]
      BY <1>8 DEF Restart
    <3> QED
      BY <1>8 DEF Restart, TypeOK
  <2>2. life' \in [Ids -> Lives] /\ nextId' \in Nat
    BY <1>8, MoveType DEF Restart, Forgets, Lives
  <2>3. /\ conf' \in 1..MaxConf /\ first' \in 1..conf'
        /\ run' \in 1..MaxRun /\ faults' \in 0..MaxFaults
    BY <1>8 DEF TypeOK, Restart, Fault, Reset
  <2>4. handed' \in [Ids -> Nat] /\ filed' \in [Ids -> SUBSET (1..MaxConf)]
    BY <1>8 DEF Restart, Reset
  <2> QED
    BY <1>8, <2>1, <2>2, <2>3, <2>4 DEF TypeOK, Restart, Reset
<1>9. ASSUME NEW r \in late, ServeLate(r) PROVE TypeOK'
  <2>1. CASE r.kind = "put_results" /\ waiting_results' = waiting_results \cup r.copies
             /\ UNCHANGED <<queueVars, handed>>
    BY <1>9, <2>1 DEF TypeOK, ServeLate, queueVars, satVars, boundVars
  <2>2. ASSUME NEW cs \in HandedOut(r.slots), HandOut(cs),
               handed' = [c \in Ids |-> IF c \in cs THEN handed[c] + 1 ELSE handed[c]],
               UNCHANGED waiting_results
        PROVE  TypeOK'
    BY <1>9, <2>2, MoveType DEF TypeOK, ServeLate, HandOut, Lives, satVars, boundVars
  <2> QED
    BY <1>9, <2>1, <2>2 DEF ServeLate
<1>10. ASSUME NEW p \in Satellites, ServeGetChecks(p) PROVE TypeOK'
  <2>1. PICK cs \in HandedOut(rpc[p].slots) :
          /\ HandOut(cs)
          /\ rpc' = [rpc EXCEPT ![p] = [st |-> "answered", slots |-> @.slots,
                                        copies |-> {CopyOf(c) : c \in cs}]]
          /\ handed' = [c \in Ids |-> IF c \in cs THEN handed[c] + 1 ELSE handed[c]]
    BY <1>10 DEF ServeGetChecks
  <2>2. {CopyOf(c) : c \in cs} \in SUBSET Copies
    BY <2>1, HandedOutType, CopyType
  <2>3. life' \in [Ids -> Lives] /\ nextId' = nextId
    BY <2>1, MoveType DEF HandOut, Lives
  <2>4. rpc' \in [Satellites -> [st : {"idle", "sent", "broken", "answered"},
                                copies : SUBSET Copies, slots : Nat]]
    <3> DEFINE new == {CopyOf(c) : c \in cs}
    <3>1. rpc' = [rpc EXCEPT ![p] = [st |-> "answered", slots |-> @.slots, copies |-> new]]
      BY <2>1
    <3>2. new \in SUBSET Copies
      BY <2>2
    <3> HIDE DEF new
    <3> QED
      BY <3>1, <3>2 DEF TypeOK
  <2>5. handed' \in [Ids -> Nat]
    BY <2>1 DEF TypeOK
  <2> QED
    BY <1>10, <2>3, <2>4, <2>5 DEF TypeOK, ServeGetChecks, boundVars
<1>11. ASSUME NEW p \in Satellites, ServePutResults(p) PROVE TypeOK'
  BY <1>11 DEF TypeOK, ServePutResults, queueVars, boundVars
<1>12. ASSUME NEW p \in Satellites, check_workers(p) PROVE TypeOK'
  BY <1>12 DEF TypeOK, check_workers, AlreadyWorkingOn, queueVars, schedulerVars, boundVars
<1>13. ASSUME NEW p \in Satellites, get_workers_results(p) PROVE TypeOK'
  BY <1>13 DEF TypeOK, get_workers_results, queueVars, schedulerVars, boundVars
<1>14. ASSUME NEW p \in Satellites, Connect(p) PROVE TypeOK'
  BY <1>14, ConnectType
     DEF TypeOK, Connect, NextPlace, Fault, queueVars, schedulerVars
<1>15. ASSUME NEW p \in Satellites, Call(p) PROVE TypeOK'
  <2>1. PICK b \in SUBSET Copies :
          rpc' = [rpc EXCEPT ![p] = [st |-> "sent", copies |-> b,
                                     slots |-> get_available_slots(p)]]
    BY <1>15, BatchType DEF Call
  <2> QED
    BY <1>15, <2>1, SlotsType DEF TypeOK, Call, queueVars, schedulerVars, boundVars
<1>16. ASSUME NEW p \in Satellites, GetChecksReturns(p) PROVE TypeOK'
  <2>1. rpc' \in [Satellites -> [st : {"idle", "sent", "broken", "answered"},
                                copies : SUBSET Copies, slots : Nat]]
    BY <1>16 DEF TypeOK, GetChecksReturns, Idle
  <2>2. queue' \in [Satellites -> [Workers -> SUBSET Copies]]
    BY <1>16 DEF TypeOK, GetChecksReturns
  <2> QED
    BY <1>16, <2>1, <2>2 DEF TypeOK, GetChecksReturns, queueVars, schedulerVars, boundVars
<1>17. ASSUME NEW p \in Satellites, PutResultsReturns(p) PROVE TypeOK'
  BY <1>17 DEF TypeOK, PutResultsReturns, Idle, queueVars, schedulerVars, boundVars
<1>18. ASSUME NEW p \in Satellites, CallRaises(p), faults' \in 0..MaxFaults,
              late' = late \/ late' = late \cup {Request(p)}
       PROVE  TypeOK'
  BY <1>18, ConnectType, RequestType
     DEF TypeOK, CallRaises, Idle, NextPlace, queueVars
<1>19. ASSUME NEW p \in Satellites, CallAborts(p) \/ CallFails(p) PROVE TypeOK'
  BY <1>18, <1>19 DEF CallAborts, CallFails, Fault, TypeOK
<1>20. ASSUME NEW p \in Satellites, NEW w \in Workers, Work(p, w) \/ WorkerDies(p, w)
       PROVE  TypeOK'
  <2>1. CASE WorkerDies(p, w)
    BY <2>1 DEF TypeOK, WorkerDies, Fault, queueVars, schedulerVars
  <2>2. ASSUME NEW a, WorkerTakes(p, w, a) PROVE TypeOK'
    BY <2>2 DEF TypeOK, WorkerTakes, queueVars, schedulerVars, boundVars
  <2>3. ASSUME NEW a, WorkerEnds(p, w, a) PROVE TypeOK'
    BY <2>3 DEF TypeOK, WorkerEnds, queueVars, schedulerVars, boundVars
  <2> QED
    BY <1>20, <2>1, <2>2, <2>3 DEF Work
<1>21. ASSUME NEW p \in Satellites, SatelliteNewConf(p) PROVE TypeOK'
  BY <1>21, NewSchedulerType
     DEF TypeOK, SatelliteNewConf, Fault, queueVars, schedulerVars
<1>22. ASSUME NEW p \in Satellites, SatelliteRestart(p) PROVE TypeOK'
  BY <1>22, NewSchedulerType, RequestType
     DEF TypeOK, SatelliteRestart, Fault, Idle, queueVars
<1> QED
  BY <1>1, <1>2, <1>3, <1>4, <1>5, <1>6, <1>7, <1>8, <1>9, <1>10, <1>11, <1>12,
     <1>13, <1>14, <1>15, <1>16, <1>17, <1>19, <1>20, <1>21, <1>22
     DEF Next, SchedulerLoop, Serve, SatelliteLoop

-----------------------------------------------------------------------------
(* Ids, calls and queues *)

\* Only NewCheck makes a check, with the id that is next.
LEMMA UsedIdsStep == TypeOK /\ UsedIds /\ [Next]_vars => UsedIds'
<1> SUFFICES ASSUME TypeOK, UsedIds, [Next]_vars PROVE UsedIds'
  OBVIOUS
<1> USE IdsAssumption DEF TypeOK, UsedIds
<1>1. CASE UNCHANGED queueVars
  BY <1>1 DEF queueVars
<1>2. ASSUME NEW cs, NEW l, Move(cs, l), UNCHANGED nextId,
             \A c \in cs : c \in Ids /\ life[c] # "none"
      PROVE  UsedIds'
  BY <1>2 DEF Move
<1>3. CASE NewCheck
  BY <1>3 DEF NewCheck, Create, Move, Having
<1>4. CASE TakeResults
  BY <1>2, <1>4 DEF TakeResults, Answer, Having
<1>5. ASSUME NEW c \in Ids, ConsumeResult(c) \/ Orphaned(c) PROVE UsedIds'
  BY <1>2, <1>5 DEF ConsumeResult, Consume, Orphaned, Reenable, Having
<1>6. CASE NewConf
  BY <1>2, <1>6 DEF NewConf, Drop, Having
<1>7. CASE Restart
  BY <1>7 DEF Restart, Forgets, Move
<1>8. ASSUME NEW slots, NEW cs \in HandedOut(slots), HandOut(cs) PROVE UsedIds'
  <2>1. cs \in SUBSET Ids /\ \A c \in cs : life[c] = "scheduled"
    BY HandedOutType, Zenon
  <2>2. \A c \in cs : c \in Ids /\ life[c] # "none"
    BY <2>1
  <2>3. Move(cs, "inpoller") /\ UNCHANGED nextId
    BY <1>8 DEF HandOut
  <2> QED
    BY <1>2, <2>2, <2>3, Zenon
<1>9. ASSUME NEW r \in late, ServeLate(r) PROVE UsedIds'
  BY <1>1, <1>8, <1>9 DEF ServeLate, queueVars
<1>10. ASSUME NEW p \in Satellites, ServeGetChecks(p) PROVE UsedIds'
  BY <1>8, <1>10 DEF ServeGetChecks
<1>11. ASSUME NEW p \in Satellites,
              \/ ServePutResults(p) \/ SatelliteLoop(p) \/ CallAborts(p) \/ CallFails(p)
              \/ \E w \in Workers : Work(p, w) \/ WorkerDies(p, w)
              \/ SatelliteNewConf(p) \/ SatelliteRestart(p)
       PROVE  UNCHANGED queueVars
  BY <1>11 DEF ServePutResults, SatelliteLoop, check_workers, get_workers_results,
     Connect, Call, GetChecksReturns, PutResultsReturns, CallAborts, CallFails,
     CallRaises, Work, WorkerTakes, WorkerEnds, WorkerDies, SatelliteNewConf,
     SatelliteRestart
<1>12. CASE GetConf \/ UNCHANGED vars
  BY <1>1, <1>12 DEF GetConf, vars
<1> QED
  BY <1>1, <1>3, <1>4, <1>5, <1>6, <1>7, <1>9, <1>10, <1>11, <1>12
     DEF Next, SchedulerLoop, Serve

\* A call in hand begins with Call and ends where the loop goes on.
LEMMA CallsInHandStep ==
    TypeOK /\ CallsInHand /\ [Next]_vars => CallsInHand'
<1> SUFFICES ASSUME TypeOK, CallsInHand, [Next]_vars,
                    NEW q \in Satellites
             PROVE  /\ rpc'[q].st = "idle" => rpc'[q].copies = {}
                    /\ pc'[q] \in {"wait", "get_workers_results"} => rpc'[q].st = "idle"
                    /\ pc'[q] = "get_new_actions" /\ rpc'[q].st = "sent"
                          => rpc'[q].copies = {}
  BY DEF CallsInHand
<1> DEFINE Goal == /\ rpc'[q].st = "idle" => rpc'[q].copies = {}
                   /\ pc'[q] \in {"wait", "get_workers_results"} => rpc'[q].st = "idle"
                   /\ pc'[q] = "get_new_actions" /\ rpc'[q].st = "sent"
                         => rpc'[q].copies = {}
<1>1. CASE UNCHANGED <<pc, rpc>>
  BY <1>1 DEF CallsInHand
<1>2. ASSUME NEW p \in Satellites, rpc' = [rpc EXCEPT ![p] = Idle],
             pc' = [pc EXCEPT ![p] = "wait"] \/ pc' = [pc EXCEPT ![p] = "manage_returns"]
      PROVE  Goal
  BY <1>2 DEF Idle, CallsInHand, TypeOK
<1>3. CASE Restart
  BY <1>3 DEF Restart, CallsInHand, TypeOK
<1>4. ASSUME NEW p \in Satellites, ServeGetChecks(p) PROVE Goal
  <2>1. PICK new : rpc' = [rpc EXCEPT ![p] = [st |-> "answered", slots |-> @.slots,
                                             copies |-> new]]
    BY <1>4 DEF ServeGetChecks
  <2> QED
    BY <1>4, <2>1 DEF ServeGetChecks, CallsInHand, TypeOK
<1>5. ASSUME NEW p \in Satellites, ServePutResults(p) PROVE Goal
  BY <1>5 DEF ServePutResults, CallsInHand, TypeOK
<1>6. ASSUME NEW p \in Satellites, check_workers(p) \/ get_workers_results(p) PROVE Goal
  BY <1>6 DEF check_workers, get_workers_results, CallsInHand, TypeOK
<1>7. ASSUME NEW p \in Satellites, Connect(p) PROVE Goal
  BY <1>7 DEF Connect, NextPlace, CallsInHand, TypeOK
<1>8. ASSUME NEW p \in Satellites, Call(p) PROVE Goal
  <2>1. PICK b, n : /\ pc[p] = "get_new_actions" => b = {}
                    /\ rpc' = [rpc EXCEPT ![p] = [st |-> "sent", copies |-> b, slots |-> n]]
    BY <1>8 DEF Call
  <2> QED
    BY <1>8, <2>1 DEF Call, CallsInHand, TypeOK
<1>9. ASSUME NEW p \in Satellites, GetChecksReturns(p) \/ PutResultsReturns(p) PROVE Goal
  BY <1>2, <1>9 DEF GetChecksReturns, PutResultsReturns
<1>10. ASSUME NEW p \in Satellites, CallAborts(p) \/ CallFails(p) PROVE Goal
  BY <1>2, <1>10 DEF CallAborts, CallFails, CallRaises, NextPlace
<1>11. ASSUME NEW p \in Satellites, SatelliteRestart(p) PROVE Goal
  BY <1>2, <1>11 DEF SatelliteRestart
<1>12. CASE NewCheck \/ TakeResults \/ (\E c \in Ids : ConsumeResult(c) \/ Orphaned(c))
            \/ GetConf \/ NewConf \/ (\E r \in late : ServeLate(r))
  BY <1>1, <1>12 DEF NewCheck, TakeResults, ConsumeResult, GetConf, Orphaned, NewConf,
     ServeLate, satVars
<1>13. CASE \E p \in Satellites :
              SatelliteNewConf(p) \/ \E w \in Workers : Work(p, w) \/ WorkerDies(p, w)
  BY <1>1, <1>13 DEF Work, WorkerTakes, WorkerEnds, WorkerDies, SatelliteNewConf
<1>14. CASE UNCHANGED vars
  BY <1>1, <1>14 DEF vars, satVars
<1> QED
  BY <1>3, <1>4, <1>5, <1>6, <1>7, <1>8, <1>9, <1>10, <1>11, <1>12, <1>13, <1>14
     DEF Next, SchedulerLoop, Serve, SatelliteLoop

\* A get_checks answers with finitely many copies: Action.id bounds the checks.
LEMMA FiniteAnswer ==
    ASSUME TypeOK, UsedIds, NEW slots, NEW cs \in HandedOut(slots)
    PROVE  IsFiniteSet({CopyOf(c) : c \in cs})
<1>0. cs \in SUBSET Ids /\ \A c \in cs : life[c] = "scheduled"
  BY HandedOutType
<1>1. cs \in SUBSET Nat /\ \A c \in cs : c <= nextId
  BY <1>0, IdsAssumption DEF TypeOK, UsedIds
<1>2. IsFiniteSet(cs)
  BY <1>1, FS_BoundedSetOfNaturals DEF TypeOK
<1> DEFINE copies == {CopyOf(c) : c \in cs}
           f == [c \in cs |-> CopyOf(c)]
<1>3. f \in Surjection(cs, copies)
  BY DEF Surjection
<1> QED
  BY <1>2, <1>3, FS_Surjection

LEMMA FiniteQueuesStep ==
    TypeOK /\ UsedIds /\ CallsInHand /\ FiniteQueues /\ [Next]_vars => FiniteQueues'
<1> DEFINE Goal(q) == /\ pc'[q] = "get_new_actions" => IsFiniteSet(rpc'[q].copies)
                      /\ \A w \in Workers : IsFiniteSet(queue'[q][w])
<1> SUFFICES ASSUME TypeOK, UsedIds, CallsInHand, FiniteQueues, [Next]_vars,
                    NEW q \in Satellites
             PROVE  Goal(q)
  BY DEF FiniteQueues
<1>1. /\ IsFiniteSet({})
      /\ \A S, T : IsFiniteSet(S) /\ T \subseteq S => IsFiniteSet(T)
      /\ \A S, T : IsFiniteSet(S) /\ IsFiniteSet(T) => IsFiniteSet(S \cup T)
  BY FS_EmptySet, FS_Subset, FS_Union
<1>2. /\ pc[q] = "get_new_actions" => IsFiniteSet(rpc[q].copies)
      /\ \A w \in Workers : IsFiniteSet(queue[q][w])
  BY DEF FiniteQueues
<1>3. CASE UNCHANGED <<pc, rpc, queue>>
  BY <1>2, <1>3
<1>4. CASE Restart
  BY <1>2, <1>4 DEF Restart, TypeOK
<1>5. ASSUME NEW p \in Satellites, ServeGetChecks(p) PROVE Goal(q)
  <2>1. PICK cs \in HandedOut(rpc[p].slots) :
          rpc' = [rpc EXCEPT ![p] = [st |-> "answered", slots |-> @.slots,
                                     copies |-> {CopyOf(c) : c \in cs}]]
    BY <1>5 DEF ServeGetChecks
  <2>2. IsFiniteSet({CopyOf(c) : c \in cs})
    BY FiniteAnswer
  <2>3. UNCHANGED <<pc, queue>>
    BY <1>5 DEF ServeGetChecks
  <2>4. CASE q = p
    BY <1>2, <2>1, <2>2, <2>3, <2>4 DEF TypeOK
  <2>5. CASE q # p
    <3>1. rpc'[q] = rpc[q]
      BY <2>1, <2>5 DEF TypeOK
    <3> QED
      BY <1>2, <2>3, <3>1
  <2> QED
    BY <2>4, <2>5
<1>6. ASSUME NEW p \in Satellites, ServePutResults(p) PROVE Goal(q)
  BY <1>2, <1>6 DEF ServePutResults, TypeOK
<1>7. ASSUME NEW p \in Satellites, check_workers(p) PROVE Goal(q)
  <2>1. \A w \in Workers : queue'[q][w] \subseteq queue[q][w]
    BY <1>7 DEF check_workers, AlreadyWorkingOn, TypeOK
  <2> QED
    BY <1>1, <1>2, <1>7, <2>1 DEF check_workers, TypeOK
<1>8. ASSUME NEW p \in Satellites, get_workers_results(p) PROVE Goal(q)
  BY <1>1, <1>2, <1>8 DEF get_workers_results, CallsInHand, TypeOK
<1>9. ASSUME NEW p \in Satellites, Connect(p) PROVE Goal(q)
  BY <1>2, <1>9 DEF Connect, NextPlace, TypeOK
<1>10. ASSUME NEW p \in Satellites, Call(p) PROVE Goal(q)
  <2>1. PICK b, n : /\ pc[p] = "get_new_actions" => b = {}
                    /\ rpc' = [rpc EXCEPT ![p] = [st |-> "sent", copies |-> b, slots |-> n]]
    BY <1>10 DEF Call
  <2> QED
    BY <1>1, <1>2, <1>10, <2>1 DEF Call, TypeOK
<1>11. ASSUME NEW p \in Satellites, GetChecksReturns(p) PROVE Goal(q)
  <2>1. \A w \in Workers : queue'[q][w] \subseteq queue[q][w]
                             \cup (IF q = p THEN rpc[p].copies ELSE {})
    BY <1>11 DEF GetChecksReturns, AlreadyWorkingOn, TypeOK
  <2>2. q = p => IsFiniteSet(rpc[p].copies)
    BY <1>2, <1>11 DEF GetChecksReturns
  <2>3. \A w \in Workers : IsFiniteSet(queue'[q][w])
    <3>1. CASE q = p
      <4> TAKE w \in Workers
      <4>1. queue'[q][w] \subseteq queue[q][w] \cup rpc[p].copies
        BY <2>1, <3>1
      <4>2. IsFiniteSet(queue[q][w] \cup rpc[p].copies)
        BY <1>2, <2>2, <3>1, FS_Union
      <4> QED
        BY <1>1, <4>1, <4>2
    <3>2. CASE q # p
      BY <1>1, <1>2, <2>1, <3>2
    <3> QED
      BY <3>1, <3>2
  <2> QED
    BY <1>2, <1>11, <2>3 DEF GetChecksReturns, TypeOK
<1>12. ASSUME NEW p \in Satellites, PutResultsReturns(p) PROVE Goal(q)
  BY <1>2, <1>12 DEF PutResultsReturns, TypeOK
<1>13. ASSUME NEW p \in Satellites, CallAborts(p) \/ CallFails(p) PROVE Goal(q)
  <2>1. /\ pc' = [pc EXCEPT ![p] = NextPlace(p)]
        /\ rpc' = [rpc EXCEPT ![p] = Idle]
        /\ queue' = queue
    BY <1>13 DEF CallAborts, CallFails, CallRaises
  <2> QED
    BY <1>1, <1>2, <2>1 DEF NextPlace, Idle, TypeOK
<1>14. ASSUME NEW p \in Satellites, SatelliteRestart(p) PROVE Goal(q)
  BY <1>1, <1>2, <1>14 DEF SatelliteRestart, Idle, TypeOK
<1>15. ASSUME NEW p \in Satellites, NEW w \in Workers, Work(p, w) PROVE Goal(q)
  <2>1. \A v \in Workers : queue'[q][v] \subseteq queue[q][v]
    <3>1. CASE queue' = queue
      BY <3>1
    <3>2. ASSUME NEW a, queue' = [queue EXCEPT ![p][w] = @ \ {a}]
          PROVE  \A v \in Workers : queue'[q][v] \subseteq queue[q][v]
      BY <3>2 DEF TypeOK
    <3> QED
      BY <1>15, <3>1, <3>2 DEF Work, WorkerTakes, WorkerEnds
  <2> QED
    BY <1>1, <1>2, <1>15, <2>1 DEF Work, WorkerTakes, WorkerEnds
<1>16. CASE NewCheck \/ TakeResults \/ (\E c \in Ids : ConsumeResult(c) \/ Orphaned(c))
            \/ GetConf \/ NewConf \/ (\E r \in late : ServeLate(r))
  BY <1>3, <1>16 DEF NewCheck, TakeResults, ConsumeResult, GetConf, Orphaned, NewConf,
     ServeLate, satVars
<1>17. CASE \E p \in Satellites :
              SatelliteNewConf(p) \/ \E w \in Workers : WorkerDies(p, w)
  BY <1>3, <1>17 DEF WorkerDies, SatelliteNewConf
<1>18. CASE UNCHANGED vars
  BY <1>3, <1>18 DEF vars, satVars
<1> QED
  BY <1>4, <1>5, <1>6, <1>7, <1>8, <1>9, <1>10, <1>11, <1>12, <1>13, <1>14, <1>15,
     <1>16, <1>17, <1>18
     DEF Next, SchedulerLoop, Serve, SatelliteLoop

-----------------------------------------------------------------------------
(* Copies *)

\* A copy comes into the world when get_checks is served, and with a number that
\* no copy of its check had; all other steps move copies or lose them.
LEMMA HeldGrows ==
    ASSUME TypeOK, [Next]_vars, NEW a \in Copies, Held(a)', ~Held(a)
    PROVE  /\ UNCHANGED <<conf, first, nextId>>
           /\ \E c \in Ids : /\ a = CopyOf(c)
                             /\ life[c] = "scheduled"
                             /\ handed'[c] = handed[c] + 1
<1>1. CASE UNCHANGED <<waiting_results, late, satVars>>
  BY <1>1 DEF Held, satVars
<1>2. ASSUME NEW p \in Satellites, ServeGetChecks(p)
      PROVE  /\ UNCHANGED <<conf, first, nextId>>
             /\ \E c \in Ids : /\ a = CopyOf(c)
                               /\ life[c] = "scheduled"
                               /\ handed'[c] = handed[c] + 1
  <2>1. PICK cs \in HandedOut(rpc[p].slots) :
          /\ HandOut(cs)
          /\ rpc' = [rpc EXCEPT ![p] = [st |-> "answered", slots |-> @.slots,
                                        copies |-> {CopyOf(c) : c \in cs}]]
          /\ handed' = [c \in Ids |-> IF c \in cs THEN handed[c] + 1 ELSE handed[c]]
    BY <1>2 DEF ServeGetChecks
  <2>2. cs \in SUBSET Ids /\ \A c \in cs : life[c] = "scheduled"
    BY HandedOutType
  <2> DEFINE new == {CopyOf(c) : c \in cs}
  <2>3. rpc'[p].copies = new /\ \A q \in Satellites \ {p} : rpc'[q] = rpc[q]
    BY <2>1 DEF TypeOK
  <2> HIDE DEF new
  <2>4. a \in new
    BY <1>2, <2>3 DEF Held, ServeGetChecks
  <2>5. PICK c \in cs : a = CopyOf(c)
    BY <2>4 DEF new
  <2> QED
    BY <1>2, <2>1, <2>2, <2>5 DEF ServeGetChecks, HandOut
<1>3. ASSUME NEW p \in Satellites, ServePutResults(p) PROVE FALSE
  <2>1. \A q \in Satellites : rpc'[q].copies = rpc[q].copies
    BY <1>3 DEF ServePutResults, TypeOK
  <2> QED
    BY <1>3, <2>1 DEF ServePutResults, Held
<1>4. CASE TakeResults \/ NewConf
  BY <1>4 DEF TakeResults, NewConf, Reset, Held, satVars
<1>5. CASE Restart
  <2>1. \A q \in Satellites : rpc'[q].copies = rpc[q].copies
    BY <1>5 DEF Restart, TypeOK
  <2> QED
    BY <1>5, <2>1 DEF Restart, Reset, Held
<1>6. ASSUME NEW r \in late, ServeLate(r) PROVE FALSE
  BY <1>6 DEF ServeLate, Held, satVars
<1>7. ASSUME NEW p \in Satellites, check_workers(p) PROVE FALSE
  <2>1. \A q \in Satellites, w \in Workers : /\ queue'[q][w] \subseteq queue[q][w]
                                             /\ running'[q][w] \subseteq running[q][w]
    BY <1>7 DEF check_workers, AlreadyWorkingOn, TypeOK
  <2> QED
    BY <1>7, <2>1 DEF check_workers, Held, schedulerVars
<1>8. ASSUME NEW p \in Satellites, get_workers_results(p) PROVE FALSE
  <2>1. \A q \in Satellites : /\ wait_homerun'[q] \subseteq wait_homerun[q] \cup returns_queue[q]
                              /\ returns_queue'[q] \subseteq returns_queue[q]
    BY <1>8 DEF get_workers_results, TypeOK
  <2> QED
    BY <1>8, <2>1 DEF get_workers_results, Held, schedulerVars
<1>9. ASSUME NEW p \in Satellites, NEW ok \in BOOLEAN,
             do_pynag_con_init(p, ok) \/ NewScheduler(p) \/ KnownScheduler(p)
      PROVE  \A q \in Satellites : wait_homerun'[q] \subseteq wait_homerun[q]
  BY <1>9 DEF do_pynag_con_init, NewScheduler, KnownScheduler, TypeOK
<1>10. ASSUME NEW p \in Satellites, Connect(p) PROVE FALSE
  <2>1. \A q \in Satellites : wait_homerun'[q] \subseteq wait_homerun[q]
    BY <1>9, <1>10 DEF Connect
  <2> QED
    BY <1>10, <2>1 DEF Connect, Held, schedulerVars
<1>11. ASSUME NEW p \in Satellites, Call(p) PROVE FALSE
  <2>1. PICK b, n : /\ b \subseteq wait_homerun[p]
                    /\ rpc' = [rpc EXCEPT ![p] = [st |-> "sent", copies |-> b, slots |-> n]]
    BY <1>11, BatchType DEF Call
  <2>2. \A q \in Satellites : rpc'[q].copies \subseteq rpc[q].copies \cup wait_homerun[q]
    BY <2>1 DEF TypeOK
  <2> QED
    BY <1>11, <2>2 DEF Call, Held, schedulerVars
<1>12. ASSUME NEW p \in Satellites, rpc' = [rpc EXCEPT ![p] = Idle]
       PROVE  \A q \in Satellites : rpc'[q].copies \subseteq rpc[q].copies
  BY <1>12 DEF Idle, TypeOK
<1>13. ASSUME NEW p \in Satellites, GetChecksReturns(p) PROVE FALSE
  <2>1. \A q \in Satellites, w \in Workers : queue'[q][w] \subseteq queue[q][w] \cup rpc[q].copies
    BY <1>13 DEF GetChecksReturns, AlreadyWorkingOn, TypeOK
  <2> QED
    BY <1>12, <1>13, <2>1 DEF GetChecksReturns, Held, schedulerVars
<1>14. ASSUME NEW p \in Satellites, PutResultsReturns(p) PROVE FALSE
  <2>1. \A q \in Satellites : wait_homerun'[q] \subseteq wait_homerun[q]
    BY <1>14 DEF PutResultsReturns, TypeOK
  <2> QED
    BY <1>12, <1>14, <2>1 DEF PutResultsReturns, Held, schedulerVars
<1>15. ASSUME NEW p \in Satellites, CallAborts(p) \/ CallFails(p) PROVE FALSE
  <2>1. \A q \in Satellites : wait_homerun'[q] \subseteq wait_homerun[q]
    BY <1>9, <1>15 DEF CallAborts, CallFails, CallRaises
  <2>2. \A q \in Satellites : rpc'[q].copies \subseteq rpc[q].copies
    BY <1>12, <1>15 DEF CallAborts, CallFails, CallRaises
  <2>3. late' = late \/ late' = late \cup {Request(p)}
    BY <1>15 DEF CallAborts, CallFails
  <2>4. Request(p).copies = rpc[p].copies
    BY RequestType
  <2>5. UNCHANGED <<waiting_results, queue, running, returns_queue>>
    BY <1>15 DEF CallAborts, CallFails, CallRaises
  <2> QED
    BY <2>1, <2>2, <2>3, <2>4, <2>5 DEF Held
<1>16. ASSUME NEW p \in Satellites, NEW w \in Workers, NEW b,
              WorkerTakes(p, w, b) \/ WorkerEnds(p, w, b)
       PROVE  FALSE
  <2>1. \A q \in Satellites, v \in Workers :
          /\ queue'[q][v] \subseteq queue[q][v]
          /\ running'[q][v] \subseteq running[q][v] \cup queue[q][v]
    <3>1. CASE WorkerTakes(p, w, b)
      BY <3>1 DEF WorkerTakes, TypeOK
    <3>2. CASE WorkerEnds(p, w, b)
      BY <3>2 DEF WorkerEnds, TypeOK
    <3> QED
      BY <1>16, <3>1, <3>2
  <2>2. \A q \in Satellites : \A x \in returns_queue'[q] :
          x \in returns_queue[q] \/ \E v \in Workers : x \in running[q][v]
    <3>1. CASE WorkerTakes(p, w, b)
      BY <3>1 DEF WorkerTakes
    <3>2. CASE WorkerEnds(p, w, b)
      BY <3>2 DEF WorkerEnds, TypeOK
    <3> QED
      BY <1>16, <3>1, <3>2
  <2> QED
    BY <1>16, <2>1, <2>2 DEF WorkerTakes, WorkerEnds, Held, schedulerVars
<1>17. ASSUME NEW p \in Satellites, SatelliteNewConf(p) PROVE FALSE
  <2>1. \A q \in Satellites : wait_homerun'[q] \subseteq wait_homerun[q]
    BY <1>9, <1>17 DEF SatelliteNewConf
  <2> QED
    BY <1>17, <2>1 DEF SatelliteNewConf, Held, schedulerVars
<1>18. ASSUME NEW p \in Satellites, SatelliteRestart(p) PROVE FALSE
  <2>1. \A q \in Satellites : wait_homerun'[q] \subseteq wait_homerun[q]
    BY <1>9, <1>18 DEF SatelliteRestart
  <2>2. \A q \in Satellites : rpc'[q].copies \subseteq rpc[q].copies
    BY <1>12, <1>18 DEF SatelliteRestart
  <2>3. late' = late \/ late' = late \cup {Request(p)}
    BY <1>18 DEF SatelliteRestart
  <2>4. Request(p).copies = rpc[p].copies
    BY RequestType
  <2>5. \A q \in Satellites :
          /\ returns_queue'[q] \subseteq returns_queue[q]
          /\ \A w \in Workers : /\ queue'[q][w] \subseteq queue[q][w]
                                /\ running'[q][w] \subseteq running[q][w]
    BY <1>18 DEF SatelliteRestart, TypeOK
  <2>6. UNCHANGED waiting_results
    BY <1>18 DEF SatelliteRestart
  <2> QED
    BY <2>1, <2>2, <2>3, <2>4, <2>5, <2>6 DEF Held
<1>19. CASE NewCheck \/ GetConf \/ (\E c \in Ids : ConsumeResult(c) \/ Orphaned(c))
  BY <1>1, <1>19 DEF NewCheck, ConsumeResult, GetConf, Orphaned, schedulerVars
<1>20. ASSUME NEW p \in Satellites, NEW w \in Workers, WorkerDies(p, w) PROVE FALSE
  BY <1>20 DEF WorkerDies, Held, schedulerVars
<1>21. CASE UNCHANGED vars
  BY <1>1, <1>21 DEF vars, schedulerVars
<1> QED
  BY <1>2, <1>3, <1>4, <1>5, <1>6, <1>7, <1>8, <1>10, <1>11, <1>13, <1>14, <1>15,
     <1>16, <1>17, <1>18, <1>19, <1>20, <1>21
     DEF Next, SchedulerLoop, Serve, SatelliteLoop, Work

\* What is known of a copy stays true: a check that wants no result will never
\* want one, numbers of copies and ids only grow, and a restart begins a new run.
LEMMA KnownKept ==
    ASSUME TypeOK, UsedIds, [Next]_vars, NEW a \in Copies, IsKnown(a)
    PROVE  IsKnown(a)'
<1>a. a.id \in Ids /\ a.id \in Nat /\ a.of \in Nat /\ a.n \in Nat
  <2>1. a.id \in Ids /\ a.of \in 1..MaxConf /\ a.n \in Nat
    BY DEF Copies
  <2>2. a.id \in Nat
    BY <2>1, IdsAssumption
  <2>3. a.of \in Nat
    BY <2>1, BoundsAssumption
  <2> QED
    BY <2>1, <2>2, <2>3
<1>b. /\ life \in [Ids -> Lives] /\ nextId \in Nat /\ handed \in [Ids -> Nat]
      /\ conf \in Nat /\ first \in Nat /\ first <= conf
  <2>1. conf \in 1..MaxConf /\ first \in 1..conf /\ MaxConf \in Nat
    BY BoundsAssumption DEF TypeOK
  <2>2. life \in [Ids -> Lives] /\ nextId \in Nat /\ handed \in [Ids -> Nat]
    BY DEF TypeOK
  <2> QED
    BY <2>1, <2>2
<1> USE <1>a, <1>b DEF IsKnown
<1>1. CASE UNCHANGED <<queueVars, conf, first, handed>>
  BY <1>1 DEF queueVars
<1>2. ASSUME NEW cs, NEW l, Move(cs, l), UNCHANGED <<nextId, conf, first>>,
             \A c \in cs : c \in Ids /\ life[c] \in {"scheduled", "inpoller", "answered"},
             \A c \in Ids : handed'[c] \in {handed[c], handed[c] + 1}
      PROVE  IsKnown(a)'
  <2>1. life[a.id] \notin {"scheduled", "inpoller", "answered"}
          => life'[a.id] = life[a.id]
    BY <1>2 DEF Move
  <2> QED
    BY <1>2, <2>1
<1>3. CASE NewCheck
  <2>1. a.id # nextId => life'[a.id] = life[a.id]
    BY <1>3 DEF NewCheck, Create, Move
  <2> QED
    BY <1>3, <2>1 DEF NewCheck, Create, schedulerVars
<1>4. CASE TakeResults
  BY <1>2, <1>4 DEF TakeResults, Answer, Having
<1>5. ASSUME NEW c \in Ids, ConsumeResult(c) \/ Orphaned(c) PROVE IsKnown(a)'
  <2>1. CASE ConsumeResult(c)
    BY <1>2, <2>1 DEF ConsumeResult, Consume, Having, schedulerVars
  <2>2. CASE Orphaned(c)
    BY <1>2, <2>2 DEF Orphaned, Reenable, Having, schedulerVars
  <2> QED
    BY <1>5, <2>1, <2>2
<1>6. CASE NewConf
  BY <1>6 DEF NewConf, Reset, Drop, Move, Having
<1>7. CASE Restart
  BY <1>7 DEF Restart, Reset
<1>8. ASSUME NEW slots, NEW cs \in HandedOut(slots), HandOut(cs), UNCHANGED <<conf, first>>,
             handed' = [c \in Ids |-> IF c \in cs THEN handed[c] + 1 ELSE handed[c]]
      PROVE  IsKnown(a)'
  <2>1. cs \in SUBSET Ids /\ \A c \in cs : life[c] = "scheduled"
    BY HandedOutType
  <2>2. Move(cs, "inpoller") /\ UNCHANGED nextId
    BY <1>8 DEF HandOut
  <2>3. \A c \in Ids : handed'[c] \in {handed[c], handed[c] + 1}
    BY <1>8
  <2> QED
    BY <1>2, <1>8, <2>1, <2>2, <2>3
<1>9. ASSUME NEW r \in late, ServeLate(r) PROVE IsKnown(a)'
  BY <1>1, <1>8, <1>9 DEF ServeLate, queueVars
<1>10. ASSUME NEW p \in Satellites, ServeGetChecks(p) PROVE IsKnown(a)'
  BY <1>8, <1>10 DEF ServeGetChecks
<1>11. ASSUME NEW p \in Satellites,
              \/ ServePutResults(p) \/ SatelliteLoop(p) \/ CallAborts(p) \/ CallFails(p)
              \/ \E w \in Workers : Work(p, w) \/ WorkerDies(p, w)
              \/ SatelliteNewConf(p) \/ SatelliteRestart(p)
       PROVE  UNCHANGED <<queueVars, conf, first, handed>>
  BY <1>11 DEF ServePutResults, SatelliteLoop, check_workers, get_workers_results,
     Connect, Call, GetChecksReturns, PutResultsReturns, CallAborts, CallFails,
     CallRaises, Work, WorkerTakes, WorkerEnds, WorkerDies, SatelliteNewConf,
     SatelliteRestart, schedulerVars
<1>12. CASE GetConf \/ UNCHANGED vars
  BY <1>1, <1>12 DEF GetConf, vars, schedulerVars
<1> QED
  BY <1>1, <1>3, <1>4, <1>5, <1>6, <1>7, <1>9, <1>10, <1>11, <1>12
     DEF Next, SchedulerLoop, Serve

LEMMA CopiesAreKnownStep ==
    TypeOK /\ UsedIds /\ CopiesAreKnown /\ [Next]_vars => CopiesAreKnown'
<1> SUFFICES ASSUME TypeOK, UsedIds, CopiesAreKnown, [Next]_vars,
                    NEW a \in Copies, Held(a)'
             PROVE  IsKnown(a)'
  BY DEF CopiesAreKnown
<1>1. CASE Held(a)
  BY <1>1, KnownKept DEF CopiesAreKnown
<1>2. CASE ~Held(a)
  <2>1. PICK c \in Ids : /\ a = CopyOf(c)
                         /\ life[c] = "scheduled"
                         /\ handed'[c] = handed[c] + 1
    BY <1>2, HeldGrows
  <2>2. UNCHANGED <<conf, first, nextId>>
    BY <1>2, HeldGrows
  <2>3. c < nextId
    BY <2>1 DEF UsedIds
  <2> QED
    BY <2>1, <2>2, <2>3 DEF IsKnown, CopyOf, TypeOK
<1> QED
  BY <1>1, <1>2

\* Only TakeResults files results, and a check that wants one is of this
\* configuration.
LEMMA ResultOfThisConfStep ==
    TypeOK /\ CopiesAreKnown /\ ResultOfThisConf /\ [Next]_vars => ResultOfThisConf'
<1> SUFFICES ASSUME TypeOK, CopiesAreKnown, ResultOfThisConf, [Next]_vars
             PROVE  ResultOfThisConf'
  OBVIOUS
<1>1. CASE UNCHANGED <<filed, conf, first>>
  BY <1>1 DEF ResultOfThisConf
<1>2. CASE TakeResults
  <2> SUFFICES ASSUME NEW c \in Ids, NEW o \in filed'[c], o >= first
               PROVE  o = conf
    BY <1>2 DEF TakeResults, ResultOfThisConf
  <2>1. CASE o \in filed[c]
    BY <2>1 DEF ResultOfThisConf
  <2>2. CASE o \notin filed[c]
    <3>1. PICK r \in waiting_results : r.id = c /\ c \in Wanted /\ r.of = o
      BY <1>2, <2>2 DEF TakeResults
    <3>2. IsKnown(r) /\ r \in Copies
      BY <3>1 DEF CopiesAreKnown, Held, TypeOK
    <3>3. r.of \in Nat /\ conf \in Nat
      BY <3>2, BoundsAssumption DEF TypeOK, Copies
    <3>4. life[r.id] \in {"scheduled", "inpoller", "answered"}
      BY <3>1 DEF Wanted
    <3> QED
      BY <3>1, <3>2, <3>3, <3>4 DEF IsKnown
  <2> QED
    BY <2>1, <2>2
<1>3. CASE NewConf \/ Restart
  BY <1>3 DEF NewConf, Restart, Reset, ResultOfThisConf
<1>4. CASE \E p \in Satellites :
              \/ Serve(p) \/ SatelliteLoop(p) \/ CallAborts(p) \/ CallFails(p)
              \/ \E w \in Workers : Work(p, w) \/ WorkerDies(p, w)
              \/ SatelliteNewConf(p) \/ SatelliteRestart(p)
  BY <1>1, <1>4 DEF Serve, ServeGetChecks, ServePutResults, SatelliteLoop, check_workers,
     get_workers_results, Connect, Call, GetChecksReturns, PutResultsReturns, CallAborts,
     CallFails, CallRaises, Work, WorkerTakes, WorkerEnds, WorkerDies, SatelliteNewConf,
     SatelliteRestart, schedulerVars
<1>5. CASE NewCheck \/ GetConf \/ (\E c \in Ids : ConsumeResult(c) \/ Orphaned(c))
           \/ (\E r \in late : ServeLate(r)) \/ UNCHANGED vars
  BY <1>1, <1>5 DEF NewCheck, ConsumeResult, GetConf, Orphaned, ServeLate, vars,
     schedulerVars
<1> QED
  BY <1>2, <1>3, <1>4, <1>5 DEF Next, SchedulerLoop

-----------------------------------------------------------------------------
(* Places *)

\* A copy stays at one place when a step only takes copies away.
LEMMA OneWhereKept ==
    ASSUME OneWhere,
           \A a \in Copies : \A p \in Satellites, w \in Workers, k \in Kinds :
             At(a, p, w, k)' => At(a, p, w, k)
    PROVE  OneWhere'
  BY DEF OneWhere, SamePlace

\* A copy that has a place is held.
LEMMA PlaceIsHeld ==
    ASSUME NEW a, NEW p \in Satellites, NEW w \in Workers, NEW k, At(a, p, w, k)
    PROVE  Held(a)
  BY DEF At, Held

\* A copy goes from one place to the next, or is gone.
LEMMA OneWhereStep ==
    TypeOK /\ CallsInHand /\ CopiesAreKnown /\ OneWhere /\ [Next]_vars => OneWhere'
<1> SUFFICES ASSUME TypeOK, CallsInHand, CopiesAreKnown, OneWhere, [Next]_vars
             PROVE  OneWhere'
  OBVIOUS
<1>1. ASSUME \A p \in Satellites :
               /\ returns_queue'[p] \subseteq returns_queue[p]
               /\ wait_homerun'[p] \subseteq wait_homerun[p]
               /\ pc'[p] = "get_new_actions" =>
                    rpc'[p].copies = {} \/ (/\ pc[p] = "get_new_actions"
                                            /\ rpc'[p].copies = rpc[p].copies)
               /\ \A w \in Workers : /\ queue'[p][w] \subseteq queue[p][w]
                                     /\ running'[p][w] \subseteq running[p][w]
      PROVE  OneWhere'
  <2>1. ASSUME NEW a, NEW p \in Satellites, NEW w \in Workers, NEW k, At(a, p, w, k)'
        PROVE  At(a, p, w, k)
    BY <1>1, <2>1 DEF At
  <2> QED
    BY <2>1, OneWhereKept
<1>2. CASE UNCHANGED satVars
  BY <1>1, <1>2 DEF satVars
<1>3. CASE Restart
  <2>1. \A p \in Satellites : rpc'[p].copies = rpc[p].copies
    BY <1>3 DEF Restart, TypeOK
  <2> QED
    BY <1>1, <1>3, <2>1 DEF Restart
<1>4. ASSUME NEW p \in Satellites, ServeGetChecks(p) PROVE OneWhere'
  <2>1. PICK cs \in HandedOut(rpc[p].slots) :
          rpc' = [rpc EXCEPT ![p] = [st |-> "answered", slots |-> @.slots,
                                     copies |-> {CopyOf(c) : c \in cs}]]
    BY <1>4 DEF ServeGetChecks
  <2>2. cs \in SUBSET Ids
    BY HandedOutType
  <2> DEFINE new == {CopyOf(c) : c \in cs}
  <2>3. rpc'[p].copies = new /\ \A q \in Satellites \ {p} : rpc'[q] = rpc[q]
    BY <2>1 DEF TypeOK
  <2>4. \A a \in new : ~Held(a)
    <3> SUFFICES ASSUME NEW c \in cs, Held(CopyOf(c)) PROVE FALSE
      OBVIOUS
    <3>1. IsKnown(CopyOf(c))
      BY <2>2, CopyType DEF CopiesAreKnown
    <3>2. handed[c] \in Nat
      BY <2>2 DEF TypeOK
    <3> QED
      BY <3>1, <3>2 DEF IsKnown, CopyOf
  <2> HIDE DEF new
  <2>5. UNCHANGED <<pc, queue, running, returns_queue, wait_homerun>>
    BY <1>4 DEF ServeGetChecks
  <2>6. ASSUME NEW a, a \notin new, NEW q \in Satellites, NEW w \in Workers, NEW k,
               At(a, q, w, k)'
        PROVE  At(a, q, w, k)
    BY <2>3, <2>5, <2>6 DEF At
  <2>7. ASSUME NEW a \in new, NEW q \in Satellites, NEW w \in Workers, NEW k,
               At(a, q, w, k)'
        PROVE  q = p /\ k = "get_checks"
    <3>1. ~At(a, q, w, k)
      BY <2>4, PlaceIsHeld
    <3> QED
      BY <2>3, <2>5, <2>7, <3>1 DEF At
  <2> SUFFICES ASSUME NEW a \in Copies, NEW q \in Satellites, NEW s \in Satellites,
                      NEW u \in Workers, NEW v \in Workers, NEW i \in Kinds, NEW k \in Kinds,
                      At(a, q, u, i)', At(a, s, v, k)'
               PROVE  SamePlace(q, u, i, s, v, k)
    BY DEF OneWhere, SamePlace
  <2>c. CASE a \in new
    BY <2>c, <2>7 DEF SamePlace, PerWorker
  <2>d. CASE a \notin new
    BY <2>d, <2>6 DEF OneWhere
  <2> QED
    BY <2>c, <2>d
<1>5. ASSUME NEW p \in Satellites, ServePutResults(p) PROVE OneWhere'
  <2>1. \A q \in Satellites : rpc'[q].copies = rpc[q].copies
    BY <1>5 DEF ServePutResults, TypeOK
  <2> QED
    BY <1>1, <1>5, <2>1 DEF ServePutResults
<1>6. ASSUME NEW p \in Satellites, check_workers(p) PROVE OneWhere'
  <2>1. \A q \in Satellites, w \in Workers : /\ queue'[q][w] \subseteq queue[q][w]
                                             /\ running'[q][w] \subseteq running[q][w]
    BY <1>6 DEF check_workers, AlreadyWorkingOn, TypeOK
  <2>2. \A q \in Satellites : pc'[q] = "get_new_actions" => pc[q] = "get_new_actions"
    BY <1>6 DEF check_workers, TypeOK
  <2> QED
    BY <1>1, <1>6, <2>1, <2>2 DEF check_workers
<1>7. ASSUME NEW p \in Satellites, get_workers_results(p) PROVE OneWhere'
  <2>1. \A q \in Satellites :
          pc'[q] = "get_new_actions" => pc[q] = "get_new_actions" \/ rpc[q].copies = {}
    BY <1>7 DEF get_workers_results, CallsInHand, TypeOK
  <2>2. /\ UNCHANGED <<rpc, queue, running>>
        /\ returns_queue'[p] = {}
        /\ wait_homerun'[p] = wait_homerun[p] \cup returns_queue[p]
        /\ \A q \in Satellites \ {p} : /\ returns_queue'[q] = returns_queue[q]
                                       /\ wait_homerun'[q] = wait_homerun[q]
    BY <1>7 DEF get_workers_results, TypeOK
  <2>3. ASSUME NEW a, a \notin returns_queue[p], NEW q \in Satellites, NEW w \in Workers,
               NEW k, At(a, q, w, k)'
        PROVE  At(a, q, w, k)
    BY <2>1, <2>2, <2>3 DEF At
  <2>4. ASSUME NEW a \in Copies, a \in returns_queue[p], NEW q \in Satellites,
               NEW w \in Workers, NEW k \in Kinds, At(a, q, w, k)'
        PROVE  q = p /\ k = "wait_homerun"
    <3>1. At(a, p, w, "returns_queue") /\ "returns_queue" \in Kinds
      BY <2>4 DEF At, Kinds
    <3>2. At(a, q, w, k) => q = p /\ k = "returns_queue"
      BY <3>1, <2>4 DEF OneWhere, SamePlace
    <3> QED
      BY <2>1, <2>2, <2>4, <3>2 DEF At
  <2> SUFFICES ASSUME NEW a \in Copies, NEW q \in Satellites, NEW s \in Satellites,
                      NEW u \in Workers, NEW v \in Workers, NEW i \in Kinds, NEW k \in Kinds,
                      At(a, q, u, i)', At(a, s, v, k)'
               PROVE  SamePlace(q, u, i, s, v, k)
    BY DEF OneWhere, SamePlace
  <2>c. CASE a \in returns_queue[p]
    BY <2>c, <2>4 DEF SamePlace, PerWorker
  <2>d. CASE a \notin returns_queue[p]
    BY <2>d, <2>3 DEF OneWhere
  <2> QED
    BY <2>c, <2>d
<1>8. ASSUME NEW p \in Satellites, NEW ok \in BOOLEAN,
             do_pynag_con_init(p, ok) \/ NewScheduler(p) \/ KnownScheduler(p)
      PROVE  \A q \in Satellites : wait_homerun'[q] \subseteq wait_homerun[q]
  BY <1>8 DEF do_pynag_con_init, NewScheduler, KnownScheduler, TypeOK
<1>9. ASSUME NEW p \in Satellites, Connect(p) PROVE OneWhere'
  <2>1. \A q \in Satellites : wait_homerun'[q] \subseteq wait_homerun[q]
    BY <1>8, <1>9 DEF Connect
  <2>2. \A q \in Satellites : pc'[q] = "get_new_actions" => pc[q] = "get_new_actions"
    BY <1>9 DEF Connect, NextPlace, TypeOK
  <2> QED
    BY <1>1, <1>9, <2>1, <2>2 DEF Connect
<1>10. ASSUME NEW p \in Satellites, Call(p) PROVE OneWhere'
  <2>1. PICK b, n : /\ pc[p] = "get_new_actions" => b = {}
                    /\ rpc' = [rpc EXCEPT ![p] = [st |-> "sent", copies |-> b, slots |-> n]]
    BY <1>10 DEF Call
  <2>2. \A q \in Satellites : pc'[q] = "get_new_actions" =>
          rpc'[q].copies = {} \/ rpc'[q].copies = rpc[q].copies
    BY <1>10, <2>1 DEF Call, TypeOK
  <2> QED
    BY <1>1, <1>10, <2>2 DEF Call
<1>11. ASSUME NEW p \in Satellites, rpc' = [rpc EXCEPT ![p] = Idle],
              pc' = [pc EXCEPT ![p] = "wait"] \/ pc' = [pc EXCEPT ![p] = "manage_returns"]
       PROVE  \A q \in Satellites : pc'[q] = "get_new_actions" =>
                 pc[q] = "get_new_actions" /\ rpc'[q].copies = rpc[q].copies /\ q # p
  BY <1>11 DEF TypeOK
<1>12. ASSUME NEW p \in Satellites, GetChecksReturns(p) PROVE OneWhere'
  <2>1. PICK target \in [rpc[p].copies -> Workers] :
          queue' = [queue EXCEPT ![p] = [w \in Workers |->
                      @[w] \cup {a \in rpc[p].copies : target[a] = w}]]
    <3> DEFINE new == {a \in rpc[p].copies : \A b \in AlreadyWorkingOn(p) : b.id # a.id}
    <3>1. \E target \in [new -> Workers] :
            queue' = [queue EXCEPT ![p] = [w \in Workers |->
                        @[w] \cup {a \in new : target[a] = w}]]
      BY <1>12 DEF GetChecksReturns
    <3>2. new = rpc[p].copies
      BY DEF AlreadyWorkingOn
    <3> HIDE DEF new
    <3> QED
      BY <3>1, <3>2
  <2>2. /\ \A w \in Workers : queue'[p][w] = queue[p][w] \cup
                                {a \in rpc[p].copies : target[a] = w}
        /\ \A q \in Satellites \ {p} : queue'[q] = queue[q]
    BY <2>1 DEF TypeOK
  <2>3. \A q \in Satellites : pc'[q] = "get_new_actions" =>
                 pc[q] = "get_new_actions" /\ rpc'[q].copies = rpc[q].copies /\ q # p
    BY <1>11, <1>12 DEF GetChecksReturns
  <2>4. UNCHANGED <<running, returns_queue, wait_homerun>> /\ pc[p] = "get_new_actions"
    BY <1>12 DEF GetChecksReturns
  <2>5. ASSUME NEW a, a \notin rpc[p].copies, NEW q \in Satellites, NEW w \in Workers, NEW k,
               At(a, q, w, k)'
        PROVE  At(a, q, w, k)
    BY <2>2, <2>3, <2>4, <2>5 DEF At
  <2>6. ASSUME NEW a \in Copies, a \in rpc[p].copies, NEW q \in Satellites, NEW w \in Workers,
               NEW k \in Kinds, At(a, q, w, k)'
        PROVE  q = p /\ k = "queue" /\ w = target[a]
    <3>1. At(a, p, w, "get_checks") /\ "get_checks" \in Kinds
      BY <2>4, <2>6 DEF At, Kinds
    <3>2. At(a, q, w, k) => q = p /\ k = "get_checks"
      BY <3>1, <2>6 DEF OneWhere, SamePlace
    <3> QED
      BY <2>2, <2>3, <2>4, <2>6, <3>2 DEF At
  <2> SUFFICES ASSUME NEW a \in Copies, NEW q \in Satellites, NEW s \in Satellites,
                      NEW u \in Workers, NEW v \in Workers, NEW i \in Kinds, NEW k \in Kinds,
                      At(a, q, u, i)', At(a, s, v, k)'
               PROVE  SamePlace(q, u, i, s, v, k)
    BY DEF OneWhere, SamePlace
  <2>c. CASE a \in rpc[p].copies
    BY <2>c, <2>6 DEF SamePlace, PerWorker
  <2>d. CASE a \notin rpc[p].copies
    BY <2>d, <2>5 DEF OneWhere
  <2> QED
    BY <2>c, <2>d
<1>13. ASSUME NEW p \in Satellites, PutResultsReturns(p) PROVE OneWhere'
  <2>1. \A q \in Satellites : wait_homerun'[q] \subseteq wait_homerun[q]
    BY <1>13 DEF PutResultsReturns, TypeOK
  <2> QED
    BY <1>1, <1>11, <1>13, <2>1 DEF PutResultsReturns
<1>14. ASSUME NEW p \in Satellites, CallAborts(p) \/ CallFails(p) PROVE OneWhere'
  <2>1. \A q \in Satellites : wait_homerun'[q] \subseteq wait_homerun[q]
    BY <1>8, <1>14 DEF CallAborts, CallFails, CallRaises
  <2>2. /\ rpc' = [rpc EXCEPT ![p] = Idle]
        /\ pc' = [pc EXCEPT ![p] = "wait"] \/ pc' = [pc EXCEPT ![p] = "manage_returns"]
        /\ UNCHANGED <<queue, running, returns_queue>>
    BY <1>14 DEF CallAborts, CallFails, CallRaises, NextPlace
  <2> QED
    BY <1>1, <1>11, <2>1, <2>2
<1>15. ASSUME NEW p \in Satellites, NEW w \in Workers, NEW b, WorkerTakes(p, w, b)
       PROVE  OneWhere'
  <2>1. /\ queue'[p][w] = queue[p][w] \ {b} /\ b \in queue[p][w]
        /\ running'[p][w] = running[p][w] \cup {b}
        /\ \A q \in Satellites, v \in Workers : (q # p \/ v # w) =>
             queue'[q][v] = queue[q][v] /\ running'[q][v] = running[q][v]
        /\ UNCHANGED <<pc, rpc, returns_queue, wait_homerun>>
    BY <1>15 DEF WorkerTakes, TypeOK
  <2>2. ASSUME NEW a, a # b, NEW q \in Satellites, NEW v \in Workers, NEW k,
               At(a, q, v, k)'
        PROVE  At(a, q, v, k)
    BY <2>1, <2>2 DEF At
  <2>3. ASSUME b \in Copies, NEW q \in Satellites, NEW v \in Workers, NEW k \in Kinds,
               At(b, q, v, k)'
        PROVE  q = p /\ k = "running" /\ v = w
    <3>1. At(b, p, w, "queue") /\ "queue" \in Kinds
      BY <2>1 DEF At, Kinds, PerWorker
    <3>2. At(b, q, v, k) => q = p /\ k = "queue" /\ v = w
      BY <3>1, <2>3 DEF OneWhere, SamePlace, PerWorker
    <3> QED
      BY <2>1, <2>3, <3>2 DEF At
  <2> SUFFICES ASSUME NEW a \in Copies, NEW q \in Satellites, NEW s \in Satellites,
                      NEW u \in Workers, NEW v \in Workers, NEW i \in Kinds, NEW k \in Kinds,
                      At(a, q, u, i)', At(a, s, v, k)'
               PROVE  SamePlace(q, u, i, s, v, k)
    BY DEF OneWhere, SamePlace
  <2>c. CASE a \in {b}
    BY <2>c, <2>3 DEF SamePlace, PerWorker
  <2>d. CASE a \notin {b}
    BY <2>d, <2>2 DEF OneWhere
  <2> QED
    BY <2>c, <2>d
<1>16. ASSUME NEW p \in Satellites, NEW w \in Workers, NEW b, WorkerEnds(p, w, b)
       PROVE  OneWhere'
  <2>1. /\ running'[p][w] = running[p][w] \ {b} /\ b \in running[p][w]
        /\ returns_queue'[p] = returns_queue[p] \cup {b}
        /\ \A q \in Satellites, v \in Workers : (q # p \/ v # w) =>
             running'[q][v] = running[q][v]
        /\ \A q \in Satellites \ {p} : returns_queue'[q] = returns_queue[q]
        /\ UNCHANGED <<pc, rpc, queue, wait_homerun>>
    BY <1>16 DEF WorkerEnds, TypeOK
  <2>2. ASSUME NEW a, a # b, NEW q \in Satellites, NEW v \in Workers, NEW k,
               At(a, q, v, k)'
        PROVE  At(a, q, v, k)
    BY <2>1, <2>2 DEF At
  <2>3. ASSUME b \in Copies, NEW q \in Satellites, NEW v \in Workers, NEW k \in Kinds,
               At(b, q, v, k)'
        PROVE  q = p /\ k = "returns_queue"
    <3>1. At(b, p, w, "running") /\ "running" \in Kinds
      BY <2>1 DEF At, Kinds, PerWorker
    <3>2. At(b, q, v, k) => q = p /\ k = "running" /\ v = w
      BY <3>1, <2>3 DEF OneWhere, SamePlace, PerWorker
    <3> QED
      BY <2>1, <2>3, <3>2 DEF At
  <2> SUFFICES ASSUME NEW a \in Copies, NEW q \in Satellites, NEW s \in Satellites,
                      NEW u \in Workers, NEW v \in Workers, NEW i \in Kinds, NEW k \in Kinds,
                      At(a, q, u, i)', At(a, s, v, k)'
               PROVE  SamePlace(q, u, i, s, v, k)
    BY DEF OneWhere, SamePlace
  <2>c. CASE a \in {b}
    BY <2>c, <2>3 DEF SamePlace, PerWorker
  <2>d. CASE a \notin {b}
    BY <2>d, <2>2 DEF OneWhere
  <2> QED
    BY <2>c, <2>d
<1>17. ASSUME NEW p \in Satellites, SatelliteNewConf(p) PROVE OneWhere'
  <2>1. \A q \in Satellites : wait_homerun'[q] \subseteq wait_homerun[q]
    BY <1>8, <1>17 DEF SatelliteNewConf
  <2> QED
    BY <1>1, <1>17, <2>1 DEF SatelliteNewConf
<1>18. ASSUME NEW p \in Satellites, SatelliteRestart(p) PROVE OneWhere'
  <2>1. \A q \in Satellites : wait_homerun'[q] \subseteq wait_homerun[q]
    BY <1>8, <1>18 DEF SatelliteRestart
  <2>2. \A q \in Satellites :
          /\ returns_queue'[q] \subseteq returns_queue[q]
          /\ \A w \in Workers : /\ queue'[q][w] \subseteq queue[q][w]
                                /\ running'[q][w] \subseteq running[q][w]
    BY <1>18 DEF SatelliteRestart, TypeOK
  <2>3. /\ rpc' = [rpc EXCEPT ![p] = Idle]
        /\ pc' = [pc EXCEPT ![p] = "wait"]
    BY <1>18 DEF SatelliteRestart
  <2> QED
    BY <1>1, <1>11, <2>1, <2>2, <2>3
<1>19. CASE NewCheck \/ TakeResults \/ (\E c \in Ids : ConsumeResult(c) \/ Orphaned(c))
            \/ GetConf \/ NewConf \/ (\E r \in late : ServeLate(r)) \/ UNCHANGED vars
  BY <1>2, <1>19 DEF NewCheck, TakeResults, ConsumeResult, GetConf, Orphaned, NewConf,
     ServeLate, vars
<1>20. ASSUME NEW p \in Satellites, NEW w \in Workers, WorkerDies(p, w) PROVE OneWhere'
  BY <1>1, <1>20 DEF WorkerDies
<1> QED
  BY <1>3, <1>4, <1>5, <1>6, <1>7, <1>9, <1>10, <1>12, <1>13, <1>14, <1>15, <1>16,
     <1>17, <1>18, <1>19, <1>20
     DEF Next, SchedulerLoop, Serve, SatelliteLoop, Work

-----------------------------------------------------------------------------
(* Before the first failure *)

LEMMA FaultsGrow ==
    ASSUME TypeOK, [Next]_vars, faults' = 0
    PROVE  /\ faults = 0
           /\ ~Restart
           /\ \A p \in Satellites : /\ ~CallFails(p) /\ ~SatelliteNewConf(p)
                                    /\ ~SatelliteRestart(p)
                                    /\ \A w \in Workers : ~WorkerDies(p, w)
<1>1. faults \in Nat
  BY BoundsAssumption DEF TypeOK
<1>2. ~Fault
  BY <1>1 DEF Fault
<1>3. /\ ~Restart
      /\ \A p \in Satellites : /\ ~CallFails(p) /\ ~SatelliteNewConf(p)
                               /\ ~SatelliteRestart(p)
                               /\ \A w \in Workers : ~WorkerDies(p, w)
  BY <1>2 DEF Restart, CallFails, SatelliteNewConf, SatelliteRestart, WorkerDies
<1>4. UNCHANGED faults
  <2>1. CASE UNCHANGED boundVars
    BY <2>1 DEF boundVars
  <2>2. ASSUME NEW p \in Satellites, Serve(p) \/ SatelliteLoop(p) \/ CallAborts(p)
                                       \/ \E w \in Workers : Work(p, w)
        PROVE  UNCHANGED faults
    BY <1>2, <2>2 DEF Serve, ServeGetChecks, ServePutResults, SatelliteLoop, check_workers,
       get_workers_results, Connect, Call, GetChecksReturns, PutResultsReturns,
       CallAborts, Work, WorkerTakes, WorkerEnds, boundVars
  <2>3. ASSUME NEW c \in Ids, Orphaned(c) PROVE UNCHANGED faults
    BY <2>3 DEF Orphaned
  <2>4. CASE NewCheck \/ SchedulerLoop \/ NewConf \/ (\E r \in late : ServeLate(r))
    BY <2>1, <2>4 DEF NewCheck, SchedulerLoop, TakeResults, ConsumeResult, GetConf, NewConf,
       ServeLate
  <2> QED
    BY <1>3, <2>1, <2>2, <2>3, <2>4 DEF Next, vars, boundVars
<1> QED
  BY <1>3, <1>4

\* Each failure is counted, so that before the first one nothing of it is there.
LEMMA UnharmedStep ==
    TypeOK /\ Unharmed /\ [Next]_vars => Unharmed'
<1> SUFFICES ASSUME TypeOK, Unharmed, [Next]_vars, faults' = 0
             PROVE  /\ up'
                    /\ late' = {}
                    /\ \A p \in Satellites :
                         /\ running_id'[p] \in {0, run'}
                         /\ rpc'[p].st # "broken"
                         /\ \A w \in Workers : alive'[p][w]
  BY DEF Unharmed
<1>1. /\ faults = 0
      /\ ~Restart
      /\ \A p \in Satellites : /\ ~CallFails(p) /\ ~SatelliteNewConf(p)
                               /\ ~SatelliteRestart(p)
                               /\ \A w \in Workers : ~WorkerDies(p, w)
  BY FaultsGrow
<1>2. /\ up /\ late = {}
      /\ \A p \in Satellites : /\ running_id[p] \in {0, run}
                               /\ rpc[p].st # "broken"
                               /\ \A w \in Workers : alive[p][w]
  BY <1>1 DEF Unharmed
<1> DEFINE Goal == /\ up'
                   /\ late' = {}
                   /\ \A p \in Satellites :
                        /\ running_id'[p] \in {0, run'}
                        /\ rpc'[p].st # "broken"
                        /\ \A w \in Workers : alive'[p][w]
<1>3. CASE UNCHANGED <<up, late, running_id, run, rpc, alive>>
  BY <1>2, <1>3
<1>4. ASSUME NEW p \in Satellites, NEW b, NEW n, NEW st \in {"idle", "sent", "answered"},
             rpc' = [rpc EXCEPT ![p] = [st |-> st, copies |-> b, slots |-> n]],
             UNCHANGED <<up, late, running_id, run, alive>>
      PROVE  Goal
  BY <1>2, <1>4 DEF TypeOK
<1>5. ASSUME NEW p \in Satellites, Serve(p) PROVE Goal
  <2>1. CASE ServeGetChecks(p)
    <3>1. PICK b : rpc' = [rpc EXCEPT ![p] = [st |-> "answered", slots |-> @.slots,
                                             copies |-> b]]
      BY <2>1 DEF ServeGetChecks
    <3>2. \A q \in Satellites : rpc'[q].st # "broken"
      BY <1>2, <3>1 DEF TypeOK
    <3> QED
      BY <1>2, <2>1, <3>2 DEF ServeGetChecks
  <2>2. CASE ServePutResults(p)
    BY <1>2, <2>2 DEF ServePutResults, TypeOK
  <2> QED
    BY <1>5, <2>1, <2>2 DEF Serve
<1>6. ASSUME NEW p \in Satellites, Call(p) PROVE Goal
  BY <1>4, <1>6 DEF Call, schedulerVars
<1>7. ASSUME NEW p \in Satellites, GetChecksReturns(p) \/ PutResultsReturns(p) PROVE Goal
  BY <1>4, <1>7 DEF GetChecksReturns, PutResultsReturns, Idle, schedulerVars
<1>8. ASSUME NEW p \in Satellites, Connect(p) PROVE Goal
  <2>1. \A q \in Satellites : running_id'[q] \in {0, run}
    BY <1>2, <1>8 DEF Connect, do_pynag_con_init, TypeOK
  <2> QED
    BY <1>2, <1>8, <2>1 DEF Connect, schedulerVars
<1>9. ASSUME NEW p \in Satellites, check_workers(p) PROVE Goal
  BY <1>2, <1>9 DEF check_workers, schedulerVars, TypeOK
<1>10. ASSUME NEW p \in Satellites, NEW w \in Workers, Work(p, w) PROVE Goal
  BY <1>3, <1>10 DEF Work, WorkerTakes, WorkerEnds, schedulerVars
<1>11. ASSUME NEW p \in Satellites, get_workers_results(p) PROVE Goal
  BY <1>3, <1>11 DEF get_workers_results, schedulerVars
<1>12. \A p \in Satellites : ~CallAborts(p)
  BY <1>2 DEF CallAborts
<1>13. \A r \in late : ~ServeLate(r)
  BY <1>2
<1>14. CASE NewCheck \/ (\E c \in Ids : ConsumeResult(c) \/ Orphaned(c)) \/ UNCHANGED vars
  BY <1>3, <1>14 DEF NewCheck, ConsumeResult, Orphaned, vars, schedulerVars, satVars
<1>15. CASE TakeResults \/ NewConf
  BY <1>3, <1>15 DEF TakeResults, NewConf, satVars
<1>16. ~GetConf
  BY <1>2 DEF GetConf
<1> QED
  BY <1>1, <1>5, <1>6, <1>7, <1>8, <1>9, <1>10, <1>11, <1>12, <1>13, <1>14, <1>15, <1>16
     DEF Next, SchedulerLoop, SatelliteLoop

\* A check is at a poller because it was there, or because get_checks was served.
LEMMA InPollerStep ==
    ASSUME TypeOK, [Next]_vars, late = {}, NEW c \in Ids, life'[c] = "inpoller"
    PROVE  \/ life[c] = "inpoller" /\ Last(c)' = Last(c)
           \/ \E p \in Satellites : /\ ServeGetChecks(p)
                                    /\ Last(c)' = CopyOf(c)
                                    /\ CopyOf(c) \in rpc'[p].copies
<1> DEFINE Was == life[c] = "inpoller" /\ Last(c)' = Last(c)
<1> USE DEF Last
<1>1. CASE UNCHANGED <<queueVars, conf, handed>>
  BY <1>1 DEF queueVars
<1>2. ASSUME NEW cs, NEW l, Move(cs, l), l # "inpoller", UNCHANGED <<conf, handed>>
      PROVE  Was
  BY <1>2 DEF Move
<1>3. CASE NewCheck
  BY <1>2, <1>3 DEF NewCheck, Create, schedulerVars
<1>4. CASE TakeResults
  BY <1>2, <1>4 DEF TakeResults, Answer
<1>5. ASSUME NEW d \in Ids, ConsumeResult(d) \/ Orphaned(d) PROVE Was
  BY <1>2, <1>5 DEF ConsumeResult, Consume, Orphaned, Reenable, schedulerVars
<1>6. CASE NewConf
  BY <1>6 DEF NewConf, Drop, Move
<1>7. CASE Restart
  BY <1>7 DEF Restart, Forgets, Move
<1>8. ASSUME NEW p \in Satellites, ServeGetChecks(p)
      PROVE  \/ Was
             \/ Last(c)' = CopyOf(c) /\ CopyOf(c) \in rpc'[p].copies
  <2>1. PICK cs \in HandedOut(rpc[p].slots) :
          /\ HandOut(cs)
          /\ rpc' = [rpc EXCEPT ![p] = [st |-> "answered", slots |-> @.slots,
                                        copies |-> {CopyOf(d) : d \in cs}]]
          /\ handed' = [d \in Ids |-> IF d \in cs THEN handed[d] + 1 ELSE handed[d]]
    BY <1>8 DEF ServeGetChecks
  <2>2. conf' = conf /\ life' = [d \in Ids |-> IF d \in cs THEN "inpoller" ELSE life[d]]
    BY <1>8, <2>1 DEF ServeGetChecks, HandOut, Move
  <2>3. CASE c \in cs
    <3>1. rpc'[p].copies = {CopyOf(d) : d \in cs}
      BY <2>1 DEF TypeOK
    <3>2. handed'[c] - 1 = handed[c]
      BY <2>1, <2>3 DEF TypeOK
    <3> QED
      BY <2>2, <2>3, <3>1, <3>2 DEF CopyOf
  <2>4. CASE c \notin cs
    BY <2>1, <2>2, <2>4
  <2> QED
    BY <2>3, <2>4
<1>9. ASSUME NEW p \in Satellites,
             \/ ServePutResults(p) \/ SatelliteLoop(p) \/ CallAborts(p) \/ CallFails(p)
             \/ \E w \in Workers : Work(p, w) \/ WorkerDies(p, w)
             \/ SatelliteNewConf(p) \/ SatelliteRestart(p)
      PROVE  UNCHANGED <<queueVars, conf, handed>>
  BY <1>9 DEF ServePutResults, SatelliteLoop, check_workers, get_workers_results,
     Connect, Call, GetChecksReturns, PutResultsReturns, CallAborts, CallFails,
     CallRaises, Work, WorkerTakes, WorkerEnds, WorkerDies, SatelliteNewConf,
     SatelliteRestart, schedulerVars
<1>10. CASE GetConf \/ UNCHANGED vars
  BY <1>1, <1>10 DEF GetConf, vars, schedulerVars
<1>11. \A r \in late : ~ServeLate(r)
  OBVIOUS
<1> QED
  BY <1>1, <1>3, <1>4, <1>5, <1>6, <1>7, <1>8, <1>9, <1>10, <1>11
     DEF Next, SchedulerLoop, Serve

\* put_results has delivered what it answered for, and only a result that is taken
\* leaves waiting_results.
LEMMA DeliveredStep ==
    /\ TypeOK /\ CallsInHand /\ CopiesAreKnown /\ Unharmed /\ Delivered
    /\ [Next]_vars /\ TypeOK'
    => Delivered'
<1> SUFFICES ASSUME TypeOK, CallsInHand, CopiesAreKnown, Unharmed, Delivered, [Next]_vars,
                    faults' = 0,
                    NEW p \in Satellites, NEW a \in rpc'[p].copies, a \in Copies,
                    pc'[p] = "manage_returns", rpc'[p].st = "answered",
                    life'[a.id] = "inpoller", a = Last(a.id)'
             PROVE  a \in waiting_results'
  BY DEF Delivered, TypeOK
<1>1. /\ faults = 0
      /\ ~Restart
      /\ \A q \in Satellites : /\ ~CallFails(q) /\ ~SatelliteNewConf(q)
                               /\ ~SatelliteRestart(q)
                               /\ \A w \in Workers : ~WorkerDies(q, w)
  BY FaultsGrow
<1>2. /\ up /\ late = {}
      /\ \A q \in Satellites : rpc[q].st # "broken"
  BY <1>1 DEF Unharmed
<1>3. a.id \in Ids
  BY DEF Copies
<1>4. ASSUME rpc'[p] = rpc[p], pc'[p] = pc[p] PROVE a \in waiting_results
  <2>1. CASE life[a.id] = "inpoller" /\ Last(a.id)' = Last(a.id)
    BY <1>1, <1>4, <2>1 DEF Delivered
  <2>2. CASE Last(a.id)' = CopyOf(a.id)
    <3>1. Held(a)
      BY <1>4 DEF Held
    <3>2. IsKnown(a)
      BY <3>1 DEF CopiesAreKnown
    <3>3. a = CopyOf(a.id) /\ handed[a.id] \in Nat
      BY <1>3, <2>2 DEF TypeOK
    <3> QED
      BY <3>2, <3>3 DEF IsKnown, CopyOf
  <2> QED
    BY <1>2, <1>3, <2>1, <2>2, InPollerStep
<1>5. CASE UNCHANGED <<pc, rpc>> /\ waiting_results \subseteq waiting_results'
  BY <1>4, <1>5
<1>6. CASE TakeResults
  <2>1. a \in waiting_results
    BY <1>4, <1>6 DEF TakeResults, satVars
  <2>2. life[a.id] = "inpoller"
    BY <1>2, <1>3, <1>6, InPollerStep DEF TakeResults, ServeGetChecks, satVars, TypeOK
  <2>3. life'[a.id] = "answered"
    BY <1>3, <1>6, <2>1, <2>2 DEF TakeResults, Answer, Move, Wanted
  <2> QED
    BY <2>3
<1>7. CASE NewConf
  BY <1>3, <1>7 DEF NewConf, Drop, Move
<1>8. ASSUME NEW q \in Satellites, ServeGetChecks(q) PROVE a \in waiting_results'
  <2>1. q # p
    BY <1>8 DEF ServeGetChecks
  <2>2. rpc'[p] = rpc[p]
    BY <1>8, <2>1 DEF ServeGetChecks, TypeOK
  <2> QED
    BY <1>4, <1>8, <2>2 DEF ServeGetChecks
<1>9. ASSUME NEW q \in Satellites, ServePutResults(q) PROVE a \in waiting_results'
  <2>1. CASE q = p
    BY <1>9, <2>1 DEF ServePutResults, TypeOK
  <2>2. CASE q # p
    <3>1. rpc'[p] = rpc[p]
      BY <1>9, <2>2 DEF ServePutResults, TypeOK
    <3> QED
      BY <1>4, <1>9, <3>1 DEF ServePutResults
  <2> QED
    BY <2>1, <2>2
<1>10. ASSUME NEW q \in Satellites, SatelliteLoop(q) PROVE a \in waiting_results'
  <2>1. UNCHANGED waiting_results
    BY <1>10 DEF SatelliteLoop, check_workers, get_workers_results, Connect, Call,
       GetChecksReturns, PutResultsReturns, schedulerVars
  <2>2. CASE q # p
    <3>1. rpc'[p] = rpc[p] /\ pc'[p] = pc[p]
      BY <1>10, <2>2 DEF SatelliteLoop, check_workers, get_workers_results, Connect, Call,
         GetChecksReturns, PutResultsReturns, TypeOK
    <3> QED
      BY <1>4, <2>1, <3>1
  <2>3. CASE q = p
    <3>1. CASE check_workers(p) \/ get_workers_results(p)
      BY <3>1 DEF check_workers, get_workers_results, TypeOK
    <3>2. CASE Connect(p)
      BY <3>2 DEF Connect
    <3>3. CASE Call(p)
      <4>1. PICK b, n : rpc' = [rpc EXCEPT ![p] = [st |-> "sent", copies |-> b, slots |-> n]]
        BY <3>3 DEF Call
      <4> QED
        BY <4>1 DEF TypeOK
    <3>4. CASE GetChecksReturns(p) \/ PutResultsReturns(p)
      BY <3>4 DEF GetChecksReturns, PutResultsReturns, Idle, TypeOK
    <3> QED
      BY <1>10, <2>3, <3>1, <3>2, <3>3, <3>4 DEF SatelliteLoop
  <2> QED
    BY <2>2, <2>3
<1>11. \A q \in Satellites : ~CallAborts(q)
  BY <1>2 DEF CallAborts
<1>12. \A r \in late : ~ServeLate(r)
  BY <1>2
<1>13. CASE NewCheck \/ GetConf \/ (\E c \in Ids : ConsumeResult(c) \/ Orphaned(c))
            \/ UNCHANGED vars
  BY <1>5, <1>13 DEF NewCheck, ConsumeResult, Orphaned, GetConf, vars, schedulerVars, satVars
<1>14. ASSUME NEW q \in Satellites, NEW w \in Workers, Work(q, w)
       PROVE  a \in waiting_results'
  BY <1>5, <1>14 DEF Work, WorkerTakes, WorkerEnds, schedulerVars
<1> QED
  BY <1>1, <1>6, <1>7, <1>8, <1>9, <1>10, <1>11, <1>12, <1>13, <1>14
     DEF Next, SchedulerLoop, Serve

\* Before the first failure a copy whose check waits for it does not get lost.
LEMMA LastIsHeldStep ==
    TypeOK /\ CallsInHand /\ Unharmed /\ Delivered /\ LastIsHeld /\ [Next]_vars
        => LastIsHeld'
<1> SUFFICES ASSUME TypeOK, CallsInHand, Unharmed, Delivered, LastIsHeld, [Next]_vars,
                    faults' = 0, NEW c \in Ids, life'[c] = "inpoller"
             PROVE  Held(Last(c))'
  BY DEF LastIsHeld
<1>0. PICK a : a = Last(c)
  OBVIOUS
<1>1. /\ faults = 0
      /\ ~Restart
      /\ \A q \in Satellites : /\ ~CallFails(q) /\ ~SatelliteNewConf(q)
                               /\ ~SatelliteRestart(q)
                               /\ \A w \in Workers : ~WorkerDies(q, w)
  BY FaultsGrow
<1>2. /\ up /\ late = {}
      /\ \A q \in Satellites : /\ running_id[q] \in {0, run}
                               /\ rpc[q].st # "broken"
                               /\ \A w \in Workers : alive[q][w]
  BY <1>1 DEF Unharmed
<1>3. ASSUME NEW p \in Satellites, CopyOf(c) \in rpc'[p].copies, Last(c)' = CopyOf(c)
      PROVE  Held(Last(c))'
  BY <1>3 DEF Held
<1> SUFFICES ASSUME life[c] = "inpoller", Last(c)' = a, Held(a)
             PROVE  Held(a)'
  <2>1. CASE life[c] = "inpoller" /\ Last(c)' = Last(c)
    <3>1. Held(a)
      BY <1>0, <1>1, <2>1 DEF LastIsHeld
    <3>2. Last(c)' = a
      BY <1>0, <2>1
    <3>3. Held(a)' => Held(Last(c))'
      BY <3>2 DEF Held
    <3> QED
      BY <2>1, <3>1, <3>2, <3>3
  <2>2. CASE ~(life[c] = "inpoller" /\ Last(c)' = Last(c))
    BY <1>2, <1>3, <2>2, InPollerStep
  <2> QED
    BY <2>1, <2>2
<1>4. a.id = c
  BY <1>0 DEF Last
<1>5. CASE UNCHANGED <<waiting_results, rpc, wait_homerun, returns_queue, queue, running>>
  BY <1>2, <1>5 DEF Held
<1>6. CASE TakeResults
  <2>1. a \notin waiting_results
    BY <1>4, <1>6 DEF TakeResults, Answer, Move, Wanted
  <2> QED
    BY <1>2, <1>6, <2>1 DEF Held, TakeResults, satVars
<1>7. CASE NewConf
  BY <1>7 DEF NewConf, Drop, Move
<1>8. ASSUME NEW p \in Satellites, ServeGetChecks(p) PROVE Held(a)'
  <2>1. rpc[p].copies = {} /\ \A q \in Satellites \ {p} : rpc'[q] = rpc[q]
    BY <1>8 DEF ServeGetChecks, CallsInHand, TypeOK
  <2> QED
    BY <1>2, <1>8, <2>1 DEF ServeGetChecks, Held
<1>9. ASSUME NEW p \in Satellites, ServePutResults(p) PROVE Held(a)'
  <2>1. \A q \in Satellites : rpc'[q].copies = rpc[q].copies
    BY <1>9 DEF ServePutResults, TypeOK
  <2> QED
    BY <1>2, <1>9, <2>1 DEF ServePutResults, Held
<1>10. ASSUME NEW p \in Satellites, check_workers(p) PROVE Held(a)'
  <2>1. \A q \in Satellites, w \in Workers : queue'[q][w] = queue[q][w]
                                               /\ running'[q][w] = running[q][w]
    BY <1>2, <1>10 DEF check_workers, AlreadyWorkingOn, TypeOK
  <2> QED
    BY <1>2, <1>10, <2>1 DEF check_workers, Held, schedulerVars
<1>11. ASSUME NEW p \in Satellites, get_workers_results(p) PROVE Held(a)'
  <2>1. \A q \in Satellites : wait_homerun[q] \cup returns_queue[q]
                                = wait_homerun'[q] \cup returns_queue'[q]
    BY <1>11 DEF get_workers_results, TypeOK
  <2> QED
    BY <1>2, <1>11, <2>1 DEF get_workers_results, Held, schedulerVars
<1>12. ASSUME NEW p \in Satellites, Connect(p) PROVE Held(a)'
  <2>1. UNCHANGED wait_homerun
    BY <1>2, <1>12 DEF Connect, do_pynag_con_init
  <2> QED
    BY <1>5, <1>12, <2>1 DEF Connect, schedulerVars
<1>13. ASSUME NEW p \in Satellites, Call(p) PROVE Held(a)'
  <2>1. PICK b, n : rpc' = [rpc EXCEPT ![p] = [st |-> "sent", copies |-> b, slots |-> n]]
    BY <1>13 DEF Call
  <2>2. rpc[p].copies = {} /\ \A q \in Satellites \ {p} : rpc'[q] = rpc[q]
    BY <1>13, <2>1 DEF Call, CallsInHand, TypeOK
  <2> QED
    BY <1>2, <1>13, <2>2 DEF Call, Held, schedulerVars
<1>14. ASSUME NEW p \in Satellites, GetChecksReturns(p) PROVE Held(a)'
  <2>1. PICK target \in [rpc[p].copies -> Workers] :
          queue' = [queue EXCEPT ![p] = [w \in Workers |->
                      @[w] \cup {x \in rpc[p].copies : target[x] = w}]]
    <3> DEFINE new == {x \in rpc[p].copies : \A b \in AlreadyWorkingOn(p) : b.id # x.id}
    <3>1. \E target \in [new -> Workers] :
            queue' = [queue EXCEPT ![p] = [w \in Workers |->
                        @[w] \cup {x \in new : target[x] = w}]]
      BY <1>14 DEF GetChecksReturns
    <3>2. new = rpc[p].copies
      BY DEF AlreadyWorkingOn
    <3> HIDE DEF new
    <3> QED
      BY <3>1, <3>2
  <2>2. /\ \A q \in Satellites, w \in Workers : queue[q][w] \subseteq queue'[q][w]
        /\ \A q \in Satellites \ {p} : rpc'[q] = rpc[q]
    BY <1>14, <2>1 DEF GetChecksReturns, TypeOK
  <2>3. a \in rpc[p].copies => \E w \in Workers : a \in queue'[p][w]
    BY <2>1 DEF TypeOK
  <2>4. UNCHANGED <<waiting_results, late, wait_homerun, running, returns_queue>>
    BY <1>14 DEF GetChecksReturns, schedulerVars
  <2> QED
    BY <1>2, <2>2, <2>3, <2>4 DEF Held
<1>15. ASSUME NEW p \in Satellites, PutResultsReturns(p) PROVE Held(a)'
  <2>1. CASE a \in rpc[p].copies
    <3>1. a \in waiting_results
      BY <1>0, <1>1, <1>4, <1>15, <2>1 DEF Delivered, PutResultsReturns
    <3> QED
      BY <1>15, <3>1 DEF Held, PutResultsReturns, schedulerVars
  <2>2. CASE a \notin rpc[p].copies
    <3>1. /\ a \in wait_homerun[p] => a \in wait_homerun'[p]
          /\ \A q \in Satellites \ {p} : rpc'[q] = rpc[q] /\ wait_homerun'[q] = wait_homerun[q]
      BY <1>15, <2>2 DEF PutResultsReturns, TypeOK
    <3> QED
      BY <1>2, <1>15, <2>2, <3>1 DEF Held, PutResultsReturns, schedulerVars
  <2> QED
    BY <2>1, <2>2
<1>16. ASSUME NEW p \in Satellites, NEW w \in Workers, NEW b, WorkerTakes(p, w, b)
       PROVE  Held(a)'
  <2>1. \A q \in Satellites, v \in Workers :
          queue'[q][v] \cup running'[q][v] = queue[q][v] \cup running[q][v]
    BY <1>16 DEF WorkerTakes, TypeOK
  <2> QED
    BY <1>2, <1>16, <2>1 DEF WorkerTakes, Held, schedulerVars
<1>17. ASSUME NEW p \in Satellites, NEW w \in Workers, NEW b, WorkerEnds(p, w, b)
       PROVE  Held(a)'
  <2>1. /\ \A q \in Satellites, v \in Workers :
             \A x \in running[q][v] : x \in running'[q][v] \/ x \in returns_queue'[q]
        /\ \A q \in Satellites : returns_queue[q] \subseteq returns_queue'[q]
    BY <1>17 DEF WorkerEnds, TypeOK
  <2> QED
    BY <1>2, <1>17, <2>1 DEF WorkerEnds, Held, schedulerVars
<1>18. \A q \in Satellites : ~CallAborts(q)
  BY <1>2 DEF CallAborts
<1>19. \A r \in late : ~ServeLate(r)
  BY <1>2
<1>20. CASE NewCheck \/ GetConf \/ (\E d \in Ids : ConsumeResult(d) \/ Orphaned(d))
            \/ UNCHANGED vars
  BY <1>5, <1>20 DEF NewCheck, ConsumeResult, Orphaned, GetConf, vars, schedulerVars, satVars
<1> QED
  BY <1>1, <1>6, <1>7, <1>8, <1>9, <1>10, <1>11, <1>12, <1>13, <1>14, <1>15, <1>16,
     <1>17, <1>18, <1>19, <1>20
     DEF Next, SchedulerLoop, Serve, SatelliteLoop, Work

-----------------------------------------------------------------------------
(* The theorems *)

\* Underway is what is held, but for the requests that nobody waits for.
LEMMA UnderwayIsHeld ==
    ASSUME NEW a
    PROVE  /\ a \in Underway => Held(a)
           /\ Held(a) /\ late = {} => a \in Underway
<1> DEFINE Calls == {rpc[p].copies : p \in Satellites}
           Homeward == {wait_homerun[p] \cup returns_queue[p] : p \in Satellites}
           AtWork == {queue[p][w] \cup running[p][w] : p \in Satellites, w \in Workers}
<1>1. a \in UNION Calls <=> \E p \in Satellites : a \in rpc[p].copies
  BY Zenon
<1>2. a \in UNION Homeward
        <=> \E p \in Satellites : a \in wait_homerun[p] \/ a \in returns_queue[p]
  BY Zenon
<1>3. a \in UNION AtWork
        <=> \E p \in Satellites, w \in Workers : a \in queue[p][w] \/ a \in running[p][w]
  <2>1. ASSUME NEW p \in Satellites, NEW w \in Workers,
               a \in queue[p][w] \/ a \in running[p][w]
        PROVE  a \in UNION AtWork
    <3>1. queue[p][w] \cup running[p][w] \in AtWork
      BY SMT
    <3>2. a \in queue[p][w] \cup running[p][w]
      BY <2>1
    <3> HIDE DEF AtWork
    <3> QED
      BY <3>1, <3>2, Zenon
  <2>2. ASSUME a \in UNION AtWork
        PROVE  \E p \in Satellites, w \in Workers : a \in queue[p][w] \/ a \in running[p][w]
    <3> HIDE DEF AtWork
    <3>1. PICK S \in AtWork : a \in S
      BY <2>2
    <3> USE DEF AtWork
    <3>2. PICK p \in Satellites, w \in Workers : S = queue[p][w] \cup running[p][w]
      BY <3>1, SMT
    <3> QED
      BY <3>1, <3>2
  <2> HIDE DEF AtWork
  <2> QED
    BY <2>1, <2>2, Zenon
<1>4. Underway
        = waiting_results \cup (UNION Calls) \cup (UNION Homeward) \cup (UNION AtWork)
  BY DEF Underway
<1> HIDE DEF Calls, Homeward, AtWork
<1>5. a \in Underway <=> \/ a \in waiting_results \/ a \in UNION Calls
                         \/ a \in UNION Homeward \/ a \in UNION AtWork
  BY <1>4, Zenon
<1>6. ASSUME a \in Underway PROVE Held(a)
  BY <1>1, <1>2, <1>3, <1>5, <1>6, Zenon DEF Held
<1>7. ASSUME Held(a), late = {} PROVE a \in Underway
  <2>1. ~\E r \in late : a \in r.copies
    BY <1>7, Zenon
  <2> QED
    BY <1>1, <1>2, <1>3, <1>5, <1>7, <2>1, Zenon DEF Held
<1> QED
  BY <1>6, <1>7

LEMMA HeldType ==
    ASSUME TypeOK, NEW a, Held(a)
    PROVE  a \in Copies
  BY DEF TypeOK, Held

LEMMA InitIInv == Init => IInv
<1> SUFFICES ASSUME Init PROVE IInv
  OBVIOUS
<1> USE BoundsAssumption DEF Init, QueueInit, Idle
<1>1. TypeOK
  BY DEF TypeOK, Lives
<1>2. FiniteQueues
  BY FS_EmptySet DEF FiniteQueues
<1>3. \A a : ~Held(a)
  BY DEF Held
<1>4. UsedIds /\ CallsInHand /\ ResultOfThisConf /\ Unharmed /\ Delivered
  BY DEF UsedIds, CallsInHand, ResultOfThisConf, Unharmed, Delivered
<1>5. CopiesAreKnown /\ LastIsHeld
  BY <1>3 DEF CopiesAreKnown, LastIsHeld
<1>6. OneWhere
  BY DEF OneWhere, At
<1> QED
  BY <1>1, <1>2, <1>4, <1>5, <1>6 DEF IInv

LEMMA NextIInv == IInv /\ [Next]_vars => IInv'
<1> SUFFICES ASSUME IInv, [Next]_vars PROVE IInv'
  OBVIOUS
<1>1. TypeOK'
  BY TypeStep DEF IInv
<1>2. UsedIds' /\ CallsInHand' /\ FiniteQueues'
  BY UsedIdsStep, CallsInHandStep, FiniteQueuesStep DEF IInv
<1>3. CopiesAreKnown' /\ OneWhere' /\ ResultOfThisConf'
  BY CopiesAreKnownStep, OneWhereStep, ResultOfThisConfStep DEF IInv
<1>4. Unharmed' /\ Delivered' /\ LastIsHeld'
  BY <1>1, UnharmedStep, DeliveredStep, LastIsHeldStep DEF IInv
<1> QED
  BY <1>1, <1>2, <1>3, <1>4 DEF IInv

\* The inductive invariant holds of a scheduler with any number of satellites and
\* workers, whatever calls are lost, late or repeated and whatever dies.
THEOREM Invariance == Spec => []IInv
  BY InitIInv, NextIInv, PTL DEF Spec

\* The queues of satellites and workers hold copies of checks only, and their
\* counters stay in range: TypeOK of satellite.py's state.
THEOREM TypeCorrect == Spec => []TypeOK
<1>1. IInv => TypeOK
  BY DEF IInv
<1> QED
  BY <1>1, Invariance, PTL

\* A copy that a satellite was given is on the wire, with one worker, on its way
\* back or waiting to be sent, never at two of these places: it is not executed
\* twice for one get_checks (satellite.py, worker.py).
THEOREM CopiesAreAtOnePlace == Spec => []OnePlace
<1>1. ASSUME IInv, NEW a \in Copies PROVE Cardinality(PlacesOf(a)) <= 1
  <2>1. ASSUME NEW x \in PlacesOf(a)
        PROVE  \E p \in Satellites, w \in Workers, k \in Kinds :
                 /\ At(a, p, w, k)
                 /\ x = IF k \in PerWorker THEN <<p, w, k>> ELSE <<p, k>>
    <3>1. PICK p \in Satellites :
            \/ \E w \in Workers : a \in queue[p][w] /\ x = <<p, w, "queue">>
            \/ \E w \in Workers : a \in running[p][w] /\ x = <<p, w, "running">>
            \/ a \in returns_queue[p] /\ x = <<p, "returns_queue">>
            \/ a \in wait_homerun[p] /\ x = <<p, "wait_homerun">>
            \/ pc[p] = "get_new_actions" /\ a \in rpc[p].copies /\ x = <<p, "get_checks">>
      BY DEF PlacesOf
    <3>2. \E w : w \in Workers
      BY BoundsAssumption
    <3> QED
      BY <3>1, <3>2 DEF At, Kinds, PerWorker
  <2>2. \A x, y \in PlacesOf(a) : x = y
    <3> TAKE x, y \in PlacesOf(a)
    <3>1. PICK p \in Satellites, v \in Workers, j \in Kinds :
            At(a, p, v, j) /\ x = IF j \in PerWorker THEN <<p, v, j>> ELSE <<p, j>>
      BY <2>1
    <3>2. PICK q \in Satellites, w \in Workers, k \in Kinds :
            At(a, q, w, k) /\ y = IF k \in PerWorker THEN <<q, w, k>> ELSE <<q, k>>
      BY <2>1
    <3>3. SamePlace(p, v, j, q, w, k)
      BY <1>1, <3>1, <3>2 DEF IInv, OneWhere
    <3> QED
      BY <3>1, <3>2, <3>3 DEF SamePlace
  <2>3. PlacesOf(a) = {} \/ \E x : PlacesOf(a) = {x}
    BY <2>2
  <2>4. Cardinality(PlacesOf(a)) = 0 \/ Cardinality(PlacesOf(a)) = 1
    <3>1. CASE PlacesOf(a) = {}
      BY <3>1, FS_EmptySet
    <3>2. CASE \E x : PlacesOf(a) = {x}
      BY <3>2, FS_Singleton
    <3> QED
      BY <2>3, <3>1, <3>2
  <2> QED
    BY <2>4
<1>2. ASSUME IInv, NEW a \in Underway PROVE a \in Copies
  <2>1. IInv
    BY <1>2
  <2>2. a \in waiting_results \/ Held(a)
    BY <1>2, UnderwayIsHeld
  <2> QED
    BY <2>1, <2>2, HeldType DEF IInv, TypeOK
<1>3. IInv => OnePlace
  BY <1>1, <1>2 DEF OnePlace
<1> QED
  BY <1>3, Invariance, PTL

\* Without failures no check waits for check_orphaned in vain: whatever the limits
\* on slots, processes and batches, a check at a poller is on its way back.
THEOREM NothingIsLost == Spec => []NothingLost
<1>1. ASSUME IInv, faults = 0, NEW c \in Ids, life[c] = "inpoller"
      PROVE  [CopyOf(c) EXCEPT !.n = @ - 1] \in Underway
  <2>1. Held(Last(c)) /\ late = {}
    BY <1>1 DEF IInv, LastIsHeld, Unharmed
  <2>2. Last(c) = [CopyOf(c) EXCEPT !.n = @ - 1]
    BY DEF Last, CopyOf
  <2>3. Last(c) \in Underway
    BY <2>1, UnderwayIsHeld
  <2> QED
    BY <2>1, <2>2, <2>3
<1>2. IInv => NothingLost
  BY <1>1 DEF NothingLost
<1> QED
  BY <1>2, Invariance, PTL

\* Action.id goes on through a new configuration, so that what satellites still
\* hold of an earlier one of this run is filed with no check (scheduler.py,
\* schedulerdaemon.py setup_new_conf).
THEOREM ResultsAreOfThisConf == Spec => []ResultOfThisConf
<1>1. IInv => ResultOfThisConf
  BY DEF IInv
<1> QED
  BY <1>1, Invariance, PTL

-----------------------------------------------------------------------------
(* Passive satellites (Passive.tla).  What the two modules name alike, as    *)
(* wait_homerun, is only a name here: the theorem is about Passive.          *)

CONSTANTS Pollers, Reactionners, Checks, Actions, MaxGiven
VARIABLES phase, next, close, status, given, working, got

Psv == INSTANCE Passive

PassiveTypes ==
    /\ given \in [Psv!Things -> 0..MaxGiven]
    /\ working \in [Psv!Satellites -> SUBSET Psv!Copies]
    /\ wait_homerun \in [Psv!Satellites -> SUBSET Psv!Copies]
    /\ got \in [Psv!Copies -> 0..1]

\* A copy that is somewhere was handed out, and did not come back yet.
HereIsNew ==
    \A p \in Psv!Satellites : \A c \in working[p] \cup wait_homerun[p] :
        c[2] <= given[c[1]] /\ got[c] = 0

\* What was not handed out did not come back.
Unborn == \A c \in Psv!Copies : c[2] > given[c[1]] => got[c] = 0

\* A copy is in one place.
Alone ==
    /\ \A p \in Psv!Satellites : working[p] \cap wait_homerun[p] = {}
    /\ \A p, q \in Psv!Satellites :
         p # q => (working[p] \cup wait_homerun[p]) \cap (working[q] \cup wait_homerun[q]) = {}

PassiveInv == PassiveTypes /\ HereIsNew /\ Unborn /\ Alone

LEMMA Places ==
    ASSUME PassiveTypes, NEW p \in Psv!Satellites, NEW c \in working[p] \cup wait_homerun[p]
    PROVE  c \in Psv!Copies /\ c[1] \in Psv!Things /\ c[2] \in 1..MaxGiven
BY DEF PassiveTypes, Psv!Copies

\* What is given up or handed on in the satellites.
LEMMA FewerKeep ==
    ASSUME PassiveInv, UNCHANGED <<given, got>>,
           working' \in [Psv!Satellites -> SUBSET Psv!Copies],
           wait_homerun' \in [Psv!Satellites -> SUBSET Psv!Copies],
           \A p \in Psv!Satellites :
             /\ working'[p] \cup wait_homerun'[p] \subseteq working[p] \cup wait_homerun[p]
             /\ working'[p] \cap wait_homerun'[p] = {}
    PROVE  PassiveInv'
<1>1. PassiveTypes'
  BY DEF PassiveInv, PassiveTypes, Psv!Things, Psv!Satellites, Psv!Copies, Psv!Range2
<1>2. HereIsNew'
  BY DEF PassiveInv, HereIsNew, Psv!Satellites, Psv!Range2
<1>3. Unborn'
  BY DEF PassiveInv, Unborn, Psv!Copies, Psv!Things
<1>4. Alone'
  BY DEF PassiveInv, Alone, Psv!Satellites, Psv!Range2
<1> QED
  BY <1>1, <1>2, <1>3, <1>4 DEF PassiveInv

\* What is handed out comes to one satellite, or to none.
LEMMA HandOutKeeps ==
    ASSUME MaxGiven \in Nat, PassiveInv, NEW p \in Psv!Satellites,
           Psv!HandOut(p), UNCHANGED <<wait_homerun, got>>,
           Psv!add_actions(p) \/ UNCHANGED working
    PROVE  PassiveInv'
<1>1. /\ \A i \in Psv!Due(p) : i \in Psv!Things /\ given[i] < MaxGiven
      /\ Psv!Sent(p) = {<<i, given[i] + 1>> : i \in Psv!Due(p)}
      /\ given' = [i \in Psv!Things |-> IF i \in Psv!Due(p) THEN given[i] + 1 ELSE given[i]]
  BY DEF Psv!HandOut, Psv!Due, Psv!For, Psv!Things, Psv!Sent
<1>2. given' \in [Psv!Things -> 0..MaxGiven]
  BY <1>1 DEF PassiveInv, PassiveTypes
<1>3. \A c \in Psv!Sent(p) : /\ c \in Psv!Copies /\ c[2] = given[c[1]] + 1
                             /\ c[2] = given'[c[1]]
  BY <1>1 DEF PassiveInv, PassiveTypes, Psv!Copies
<1>4. \A q \in Psv!Satellites : working'[q] \subseteq working[q] \cup Psv!Sent(p)
  BY DEF Psv!add_actions, PassiveInv, PassiveTypes
<1>5. \A q \in Psv!Satellites : q # p => working'[q] = working[q]
  BY DEF Psv!add_actions, PassiveInv, PassiveTypes
<1>6. PassiveTypes'
  <2>1. working' \in [Psv!Satellites -> SUBSET Psv!Copies]
    BY <1>3 DEF Psv!add_actions, PassiveInv, PassiveTypes
  <2> QED
    BY <2>1, <1>2
    DEF PassiveInv, PassiveTypes, Psv!Things, Psv!Satellites, Psv!Copies, Psv!Range2
<1>7. \A i \in Psv!Things : given[i] <= given'[i]
  BY <1>1 DEF PassiveInv, PassiveTypes
<1>8. HereIsNew'
  <2> SUFFICES ASSUME NEW q \in Psv!Satellites, NEW c \in working'[q] \cup wait_homerun[q]
               PROVE  c[2] <= given'[c[1]] /\ got[c] = 0
    BY DEF HereIsNew, Psv!Satellites, Psv!Range2
  <2>1. CASE c \in Psv!Sent(p)
    BY <2>1, <1>3, <1>2 DEF PassiveInv, PassiveTypes, Unborn, Psv!Copies
  <2>2. CASE c \in working[q] \cup wait_homerun[q]
    <3>1. c[1] \in Psv!Things /\ c[2] \in 1..MaxGiven
      BY <2>2, Places DEF PassiveInv
    <3>2. c[2] <= given[c[1]] /\ got[c] = 0
      BY <2>2 DEF PassiveInv, HereIsNew
    <3> QED
      BY <3>1, <3>2, <1>7, <1>2 DEF PassiveInv, PassiveTypes
  <2> QED
    BY <2>1, <2>2, <1>4
<1>9. Unborn'
  <2> SUFFICES ASSUME NEW c \in Psv!Copies, c[2] > given'[c[1]]
               PROVE  got[c] = 0
    BY DEF Unborn, Psv!Copies, Psv!Things
  <2>1. c[1] \in Psv!Things /\ c[2] \in 1..MaxGiven
    BY DEF Psv!Copies
  <2> QED
    BY <2>1, <1>7, <1>2 DEF PassiveInv, PassiveTypes, Unborn
<1>10. \A q \in Psv!Satellites : Psv!Sent(p) \cap (working[q] \cup wait_homerun[q]) = {}
  <2> SUFFICES ASSUME NEW q \in Psv!Satellites, NEW c \in Psv!Sent(p),
                      c \in working[q] \cup wait_homerun[q]
               PROVE  FALSE
    OBVIOUS
  <2>1. c[2] <= given[c[1]] /\ c[1] \in Psv!Things /\ c[2] \in 1..MaxGiven
    BY Places DEF PassiveInv, HereIsNew
  <2> QED
    BY <2>1, <1>3 DEF PassiveInv, PassiveTypes
<1>11. Alone'
  <2>1. Alone
    BY DEF PassiveInv
  <2>2. \A q \in Psv!Satellites : working'[q] \cap wait_homerun[q] = {}
    BY <2>1, <1>4, <1>10 DEF Alone
  <2>3. ASSUME NEW q \in Psv!Satellites, NEW r \in Psv!Satellites, q # r
        PROVE  (working'[q] \cup wait_homerun[q]) \cap (working'[r] \cup wait_homerun[r]) = {}
    <3>1. CASE q = p
      BY <2>3, <3>1, <2>1, <1>4, <1>5, <1>10 DEF Alone
    <3>2. CASE r = p
      BY <2>3, <3>2, <2>1, <1>4, <1>5, <1>10 DEF Alone
    <3>3. CASE q # p /\ r # p
      BY <2>3, <3>3, <2>1, <1>5 DEF Alone
    <3> QED
      BY <3>1, <3>2, <3>3
  <2> QED
    BY <2>2, <2>3 DEF Alone, Psv!Satellites, Psv!Range2
<1> QED
  BY <1>6, <1>8, <1>9, <1>11 DEF PassiveInv

LEMMA PassiveNext ==
    MaxGiven \in Nat /\ PassiveInv /\ [Psv!Next]_(Psv!vars) => PassiveInv'
<1> SUFFICES ASSUME MaxGiven \in Nat, PassiveInv, [Psv!Next]_(Psv!vars) PROVE PassiveInv'
  OBVIOUS
<1>t. PassiveTypes /\ Alone
  BY DEF PassiveInv
<1>1. CASE UNCHANGED <<given, working, wait_homerun, got>>
  BY <1>1, <1>t, FewerKeep DEF PassiveTypes, Alone
<1>2. ASSUME NEW p \in Psv!Satellites, Psv!push_actions_to_passives_satellites(p)
      PROVE  PassiveInv'
  BY <1>2, HandOutKeeps DEF Psv!push_actions_to_passives_satellites
<1>3. ASSUME NEW p \in Psv!Satellites, Psv!PushFails(p)
      PROVE  PassiveInv'
  <2>1. /\ Psv!HandOut(p) /\ UNCHANGED <<wait_homerun, got>>
        /\ Psv!add_actions(p) \/ UNCHANGED working
    BY <1>3 DEF Psv!PushFails
  <2> QED
    BY <2>1, HandOutKeeps
<1>4. ASSUME NEW p \in Psv!Satellites, UNCHANGED working, UNCHANGED <<given, got>>,
             wait_homerun' = wait_homerun \/ Psv!get_return_for_passive(p)
      PROVE  PassiveInv'
  BY <1>4, <1>t, FewerKeep DEF PassiveTypes, Alone, Psv!get_return_for_passive
<1>5. ASSUME NEW p \in Psv!Satellites, Psv!get_actions_from_passives_satellites(p)
      PROVE  PassiveInv'
  <2>1. /\ wait_homerun' = [wait_homerun EXCEPT ![p] = {}] /\ UNCHANGED <<working, given>>
    BY <1>5 DEF Psv!get_actions_from_passives_satellites, Psv!get_return_for_passive
  <2>2. CASE got' = got
    BY <2>1, <2>2, <1>4 DEF Psv!get_return_for_passive
  <2>3. CASE got' = [c \in Psv!Copies |-> IF c \in wait_homerun[p] THEN got[c] + 1 ELSE got[c]]
    <3>1. \A c \in wait_homerun[p] : c \in Psv!Copies /\ got[c] = 0 /\ c[2] <= given[c[1]]
      BY Places DEF PassiveInv, HereIsNew
    <3>2. \A c \in Psv!Copies : got'[c] = IF c \in wait_homerun[p] THEN 1 ELSE got[c]
      BY <2>3, <3>1
    <3>3. PassiveTypes'
      <4>1. got' \in [Psv!Copies -> 0..1]
        BY <2>3, <3>1, <1>t DEF PassiveTypes
      <4> QED
        BY <4>1, <2>1, <1>t
        DEF PassiveTypes, Psv!Things, Psv!Satellites, Psv!Copies, Psv!Range2
    <3>4. \A q \in Psv!Satellites : /\ working'[q] = working[q]
                                    /\ wait_homerun'[q] = IF q = p THEN {} ELSE wait_homerun[q]
      BY <2>1, <1>t DEF PassiveTypes
    <3>5. HereIsNew'
      <4> SUFFICES ASSUME NEW q \in Psv!Satellites, NEW c \in working'[q] \cup wait_homerun'[q]
                   PROVE  c[2] <= given[c[1]] /\ got'[c] = 0
        BY <2>1 DEF HereIsNew, Psv!Satellites, Psv!Range2
      <4>1. c \in working[q] \cup wait_homerun[q]
        BY <3>4
      <4>2. c \in Psv!Copies /\ got[c] = 0 /\ c[2] <= given[c[1]]
        BY <4>1, Places DEF PassiveInv, HereIsNew
      <4>3. c \notin wait_homerun[p]
        BY <4>1, <3>4, <1>t DEF Alone
      <4> QED
        BY <4>2, <4>3, <3>2
    <3>6. Unborn'
      <4> SUFFICES ASSUME NEW c \in Psv!Copies, c[2] > given[c[1]]
                   PROVE  got'[c] = 0
        BY <2>1 DEF Unborn, Psv!Copies, Psv!Things
      <4>1. c[1] \in Psv!Things /\ c[2] \in 1..MaxGiven
        BY DEF Psv!Copies
      <4>2. c \notin wait_homerun[p]
        BY <4>1, <3>1, <1>t DEF PassiveTypes
      <4> QED
        BY <4>2, <3>2 DEF PassiveInv, Unborn
    <3>7. Alone'
      BY <3>4, <1>t DEF Alone, Psv!Satellites, Psv!Range2
    <3> QED
      BY <3>3, <3>5, <3>6, <3>7 DEF PassiveInv
  <2> QED
    BY <1>5, <2>2, <2>3 DEF Psv!get_actions_from_passives_satellites
<1>6. ASSUME NEW p \in Psv!Satellites, Psv!GetFails(p)
      PROVE  PassiveInv'
  BY <1>6, <1>4 DEF Psv!GetFails
<1>7. ASSUME NEW p \in Psv!Satellites, Psv!manage_action_return(p)
      PROVE  PassiveInv'
  <2>1. PICK c \in working[p] :
             /\ working' = [working EXCEPT ![p] = @ \ {c}]
             /\ wait_homerun' = [wait_homerun EXCEPT ![p] = @ \cup {c}]
             /\ UNCHANGED <<given, got>>
    BY <1>7 DEF Psv!manage_action_return
  <2>2. \A q \in Psv!Satellites :
          /\ working'[q] = IF q = p THEN working[q] \ {c} ELSE working[q]
          /\ wait_homerun'[q] = IF q = p THEN wait_homerun[q] \cup {c} ELSE wait_homerun[q]
    BY <2>1, <1>t DEF PassiveTypes
  <2>3. /\ working' \in [Psv!Satellites -> SUBSET Psv!Copies]
        /\ wait_homerun' \in [Psv!Satellites -> SUBSET Psv!Copies]
    BY <2>1, <1>t DEF PassiveTypes
  <2>4. \A q \in Psv!Satellites :
          /\ working'[q] \cup wait_homerun'[q] \subseteq working[q] \cup wait_homerun[q]
          /\ working'[q] \cap wait_homerun'[q] = {}
    BY <2>2, <1>t DEF Alone
  <2> QED
    BY <2>1, <2>3, <2>4, FewerKeep
<1>8. ASSUME NEW p \in Psv!Satellites, Psv!Dies(p)
      PROVE  PassiveInv'
  <2>1. /\ working' = [working EXCEPT ![p] = {}]
        /\ wait_homerun' = [wait_homerun EXCEPT ![p] = {}]
        /\ UNCHANGED <<given, got>>
    BY <1>8 DEF Psv!Dies
  <2> QED
    BY <2>1, <1>t, FewerKeep DEF PassiveTypes, Alone
<1>9. CASE UNCHANGED Psv!vars
  BY <1>9, <1>1 DEF Psv!vars
<1>10. ASSUME NEW p \in Psv!Satellites, Psv!Reconnect(p) \/ Psv!FiveSeconds(p) \/ Psv!Starts(p)
       PROVE  PassiveInv'
  BY <1>10, <1>1 DEF Psv!Reconnect, Psv!FiveSeconds, Psv!Starts
<1>11. ASSUME NEW i \in Psv!Things, Psv!check_orphaned(i)
       PROVE  PassiveInv'
  BY <1>11, <1>1 DEF Psv!check_orphaned
<1>12. CASE Psv!NextLoop
  BY <1>12, <1>1 DEF Psv!NextLoop
<1> QED
  BY <1>2, <1>3, <1>5, <1>6, <1>7, <1>8, <1>9, <1>10, <1>11, <1>12 DEF Psv!Next, Psv!Turn

LEMMA PassiveInit == MaxGiven \in Nat /\ Psv!Init => PassiveInv
<1> SUFFICES ASSUME MaxGiven \in Nat, Psv!Init PROVE PassiveInv
  OBVIOUS
<1>1. PassiveTypes
  BY DEF Psv!Init, PassiveTypes
<1>2. Alone /\ HereIsNew /\ Unborn
  BY DEF Psv!Init, Alone, HereIsNew, Unborn
<1> QED
  BY <1>1, <1>2 DEF PassiveInv

\* A result of a passive satellite is taken once, whatever call fails (satellite.py:482),
\* however many satellites and things to do there are.
THEOREM ResultsAreTakenOnce ==
    ASSUME MaxGiven \in Nat PROVE Psv!Spec => []Psv!ResultOnce
<1>1. Psv!Init => PassiveInv
  BY PassiveInit
<1>2. PassiveInv /\ [Psv!Next]_(Psv!vars) => PassiveInv'
  BY PassiveNext
<1>3. PassiveInv => Psv!ResultOnce
  BY DEF PassiveInv, PassiveTypes, Psv!ResultOnce
<1> QED
  BY <1>1, <1>2, <1>3, PTL DEF Psv!Spec

-----------------------------------------------------------------------------
(* The processes of a daemon (Daemon.tla), of a satellite or another one.    *)

CONSTANTS Pids, Setups, None
VARIABLES setup, parent, fpid, pid, new_conf, interrupted, path, content, port, raced

Dmn == INSTANCE Daemon

PidsAreFine == IsFiniteSet(Pids) /\ None \notin Pids

Progress == {"none", "waiting", "start", "opened", "replaces", "ready", "bound", "daemon",
             "running", "request", "stops", "dead"}
DaemonTypes ==
    /\ pc \in [Pids -> Progress]
    /\ parent \in [Pids -> Pids \cup {None}]
    /\ fpid \in [Pids -> Dmn!Files \cup {0}]
    /\ pid \in [Pids -> {"no", "due", "written", "never"}]
    /\ new_conf \subseteq Pids /\ conf \subseteq Pids /\ interrupted \subseteq Pids
    /\ path \in Dmn!Files \cup {0}
    /\ content \in [Dmn!Files -> Pids \cup {None}]
    /\ raced \in BOOLEAN

\* What one process is like: who is past its start has the port, and writes its pid
\* only when it is a daemon.
OneProcess ==
    \A p \in Pids :
        /\ pc[p] \in {"running", "request", "stops"} => port = p
        /\ pc[p] \in {"none", "dead"} => p \notin new_conf
        /\ pc[p] \in {"none", "waiting", "start", "opened", "replaces", "ready", "bound"}
             => pid[p] = "no" /\ p \notin conf
        /\ pc[p] \in {"request", "stops"} => p \in conf
        /\ pid[p] = "due" /\ p \in conf => p \notin new_conf

\* One process starts at a time.
OneStarts == \A p, q \in Pids : Dmn!Starting(p) /\ Dmn!Starting(q) => p = q

\* While a successor starts, nobody but its parent is there, and that one is going.
ParentGoes ==
    \A p \in new_conf : Dmn!Starting(p) =>
        \A q \in Pids \ {p} : pc[q] \in {"running", "request", "stops"} =>
            /\ q = parent[p]
            /\ pc[q] = "stops" \/ (pc[q] = "request" /\ pc[p] = "waiting")

\* A process that starts has the file open that is at the path.
FileIsOpen ==
    \A p \in Pids :
        /\ pc[p] \in {"opened", "ready", "bound"} \/ pid[p] = "due"
             => path # 0 /\ fpid[p] = path
        /\ pc[p] = "daemon" /\ pid[p] = "written" => path # 0 /\ content[path] = p

\* The file tells of a daemon, and who starts meanwhile did not look into it yet.
FileTells ==
    \A q \in Pids : pc[q] = "running" /\ pid[q] = "written" =>
        /\ path # 0 /\ content[path] = q
        /\ \A p \in Pids : Dmn!Starting(p) => pc[p] \in {"start", "opened"}

DaemonInv ==
    /\ DaemonTypes /\ OneProcess
    /\ ~raced => OneStarts /\ ParentGoes /\ FileIsOpen /\ FileTells

LEMMA FilesAreNumbers == ASSUME PidsAreFine PROVE 0 \notin Dmn!Files /\ Dmn!Files \subseteq Nat
<1>1. Cardinality(Pids) \in Nat
  BY FS_CardinalityType DEF PidsAreFine
<1> QED
  BY <1>1 DEF Dmn!Files

LEMMA DaemonTypesStep ==
    ASSUME PidsAreFine, DaemonInv, Dmn!Next
    PROVE  DaemonTypes'
<1> USE DEF DaemonInv, DaemonTypes
<1>1. ASSUME NEW p \in Pids, Dmn!Start(p) PROVE DaemonTypes'
  BY <1>1 DEF Dmn!Start, Progress
<1>2. ASSUME NEW p \in Pids, Dmn!wait_parent_exit(p) PROVE DaemonTypes'
  BY <1>2 DEF Dmn!wait_parent_exit, Progress
<1>3. ASSUME NEW p \in Pids, Dmn!OpenPidFile(p) PROVE DaemonTypes'
  BY <1>3 DEF Dmn!OpenPidFile, Dmn!Opens, Progress
<1>4. ASSUME NEW p \in Pids, Dmn!check_parallel_run(p) PROVE DaemonTypes'
  BY <1>4 DEF Dmn!check_parallel_run, Dmn!Dies, Progress
<1>5. ASSUME NEW p \in Pids, Dmn!Reopen(p) PROVE DaemonTypes'
  BY <1>5 DEF Dmn!Reopen, Dmn!Opens, Progress
<1>6. ASSUME NEW p \in Pids, Dmn!setup_daemon(p) PROVE DaemonTypes'
  BY <1>6 DEF Dmn!setup_daemon, Dmn!Dies, Progress
<1>7. ASSUME NEW p \in Pids, Dmn!daemonize(p) PROVE DaemonTypes'
  BY <1>7 DEF Dmn!daemonize, Progress
<1>8. ASSUME NEW p \in Pids, Dmn!write_pid(p) PROVE DaemonTypes'
  BY <1>8 DEF Dmn!write_pid
<1>9. ASSUME NEW p \in Pids, Dmn!AlarmRings(p) PROVE DaemonTypes'
  BY <1>9 DEF Dmn!AlarmRings
<1>10. ASSUME NEW p \in Pids, Dmn!http_daemon_thread(p) PROVE DaemonTypes'
  BY <1>10 DEF Dmn!http_daemon_thread, Dmn!Dies, Progress
<1>11. ASSUME NEW p \in Pids, Dmn!NewConf(p) PROVE DaemonTypes'
  BY <1>11 DEF Dmn!NewConf
<1>12. ASSUME NEW p \in Pids, Dmn!setup_new_conf(p) PROVE DaemonTypes'
  BY <1>12 DEF Dmn!setup_new_conf
<1>13. ASSUME NEW p \in Pids, Dmn!SwitchRaises(p) PROVE DaemonTypes'
  BY <1>13 DEF Dmn!SwitchRaises, Dmn!Dies, Progress
<1>14. ASSUME NEW p \in Pids, Dmn!SwitchFails(p) PROVE DaemonTypes'
  BY <1>14 DEF Dmn!SwitchFails
<1>15. ASSUME NEW p \in Pids, Dmn!switch_process(p) PROVE DaemonTypes'
  BY <1>15 DEF Dmn!switch_process, Progress
<1>16. ASSUME NEW p \in Pids, Dmn!manage_signal(p) PROVE DaemonTypes'
  BY <1>16 DEF Dmn!manage_signal
<1>17. ASSUME NEW p \in Pids, Dmn!LeavesWaiting(p) PROVE DaemonTypes'
  BY <1>17 DEF Dmn!LeavesWaiting, Dmn!Dies, Progress
<1>18. ASSUME NEW p \in Pids, Dmn!do_mainloop(p) PROVE DaemonTypes'
  BY <1>18 DEF Dmn!do_mainloop, Progress
<1>19. ASSUME NEW p \in Pids, Dmn!unlink(p) PROVE DaemonTypes'
  BY <1>19 DEF Dmn!unlink, Progress
<1>20. ASSUME NEW p \in Pids, Dmn!do_stop(p) PROVE DaemonTypes'
  BY <1>20 DEF Dmn!do_stop, Dmn!Dies, Progress
<1>21. ASSUME NEW p \in Pids, Dmn!Crash(p) PROVE DaemonTypes'
  BY <1>21 DEF Dmn!Crash, Dmn!Dies, Progress
<1> QED
  BY <1>1, <1>2, <1>3, <1>4, <1>5, <1>6, <1>7, <1>8, <1>9, <1>10, <1>11,
     <1>12, <1>13, <1>14, <1>15, <1>16, <1>17, <1>18, <1>19, <1>20, <1>21 DEF Dmn!Next

LEMMA OneProcessStep ==
    ASSUME PidsAreFine, DaemonInv, Dmn!Next
    PROVE  OneProcess'
<1> USE DEF DaemonInv, DaemonTypes
<1>1. ASSUME NEW p \in Pids, Dmn!Start(p) PROVE OneProcess'
  BY <1>1 DEF Dmn!Start, OneProcess
<1>2. ASSUME NEW p \in Pids, Dmn!wait_parent_exit(p) PROVE OneProcess'
  BY <1>2 DEF Dmn!wait_parent_exit, OneProcess
<1>3. ASSUME NEW p \in Pids, Dmn!OpenPidFile(p) PROVE OneProcess'
  BY <1>3 DEF Dmn!OpenPidFile, Dmn!Opens, OneProcess
<1>4. ASSUME NEW p \in Pids, Dmn!check_parallel_run(p) PROVE OneProcess'
  BY <1>4 DEF Dmn!check_parallel_run, Dmn!Dies, OneProcess
<1>5. ASSUME NEW p \in Pids, Dmn!Reopen(p) PROVE OneProcess'
  BY <1>5 DEF Dmn!Reopen, Dmn!Opens, OneProcess
<1>6. ASSUME NEW p \in Pids, Dmn!setup_daemon(p) PROVE OneProcess'
  BY <1>6 DEF Dmn!setup_daemon, Dmn!Dies, OneProcess, PidsAreFine
<1>7. ASSUME NEW p \in Pids, Dmn!daemonize(p) PROVE OneProcess'
  BY <1>7 DEF Dmn!daemonize, OneProcess
<1>8. ASSUME NEW p \in Pids, Dmn!write_pid(p) PROVE OneProcess'
  BY <1>8 DEF Dmn!write_pid, OneProcess
<1>9. ASSUME NEW p \in Pids, Dmn!AlarmRings(p) PROVE OneProcess'
  BY <1>9 DEF Dmn!AlarmRings, OneProcess
<1>10. ASSUME NEW p \in Pids, Dmn!http_daemon_thread(p) PROVE OneProcess'
  BY <1>10 DEF Dmn!http_daemon_thread, Dmn!Dies, OneProcess, PidsAreFine
<1>11. ASSUME NEW p \in Pids, Dmn!NewConf(p) PROVE OneProcess'
  BY <1>11 DEF Dmn!NewConf, OneProcess
<1>12. ASSUME NEW p \in Pids, Dmn!setup_new_conf(p) PROVE OneProcess'
  BY <1>12 DEF Dmn!setup_new_conf, OneProcess
<1>13. ASSUME NEW p \in Pids, Dmn!SwitchRaises(p) PROVE OneProcess'
  BY <1>13 DEF Dmn!SwitchRaises, Dmn!Dies, OneProcess
<1>14. ASSUME NEW p \in Pids, Dmn!SwitchFails(p) PROVE OneProcess'
  BY <1>14 DEF Dmn!SwitchFails, OneProcess
<1>15. ASSUME NEW p \in Pids, Dmn!switch_process(p) PROVE OneProcess'
  BY <1>15 DEF Dmn!switch_process, OneProcess
<1>16. ASSUME NEW p \in Pids, Dmn!manage_signal(p) PROVE OneProcess'
  BY <1>16 DEF Dmn!manage_signal, OneProcess
<1>17. ASSUME NEW p \in Pids, Dmn!LeavesWaiting(p) PROVE OneProcess'
  BY <1>17 DEF Dmn!LeavesWaiting, Dmn!Dies, OneProcess
<1>18. ASSUME NEW p \in Pids, Dmn!do_mainloop(p) PROVE OneProcess'
  BY <1>18 DEF Dmn!do_mainloop, OneProcess
<1>19. ASSUME NEW p \in Pids, Dmn!unlink(p) PROVE OneProcess'
  BY <1>19 DEF Dmn!unlink, OneProcess
<1>20. ASSUME NEW p \in Pids, Dmn!do_stop(p) PROVE OneProcess'
  BY <1>20 DEF Dmn!do_stop, Dmn!Dies, OneProcess
<1>21. ASSUME NEW p \in Pids, Dmn!Crash(p) PROVE OneProcess'
  BY <1>21 DEF Dmn!Crash, Dmn!Dies, OneProcess
<1> QED
  BY <1>1, <1>2, <1>3, <1>4, <1>5, <1>6, <1>7, <1>8, <1>9, <1>10, <1>11,
     <1>12, <1>13, <1>14, <1>15, <1>16, <1>17, <1>18, <1>19, <1>20, <1>21 DEF Dmn!Next

\* A successor is created only by who serves, and then nobody else starts.
LEMMA OneStartsStep ==
    ASSUME PidsAreFine, DaemonInv, ~raced', Dmn!Next
    PROVE  OneStarts'
<1> USE DEF DaemonInv, DaemonTypes
<1>1. ASSUME NEW p \in Pids, Dmn!Start(p) PROVE OneStarts'
  BY <1>1 DEF Dmn!Start, Dmn!Starting, OneStarts
<1>2. ASSUME NEW p \in Pids, Dmn!wait_parent_exit(p) PROVE OneStarts'
  BY <1>2 DEF Dmn!wait_parent_exit, Dmn!Starting, OneStarts
<1>3. ASSUME NEW p \in Pids, Dmn!OpenPidFile(p) PROVE OneStarts'
  BY <1>3 DEF Dmn!OpenPidFile, Dmn!Opens, Dmn!Starting, OneStarts
<1>4. ASSUME NEW p \in Pids, Dmn!check_parallel_run(p) PROVE OneStarts'
  BY <1>4 DEF Dmn!check_parallel_run, Dmn!Dies, Dmn!Starting, OneStarts
<1>5. ASSUME NEW p \in Pids, Dmn!Reopen(p) PROVE OneStarts'
  BY <1>5 DEF Dmn!Reopen, Dmn!Opens, Dmn!Starting, OneStarts
<1>6. ASSUME NEW p \in Pids, Dmn!setup_daemon(p) PROVE OneStarts'
  BY <1>6 DEF Dmn!setup_daemon, Dmn!Dies, Dmn!Starting, OneStarts
<1>7. ASSUME NEW p \in Pids, Dmn!daemonize(p) PROVE OneStarts'
  BY <1>7 DEF Dmn!daemonize, Dmn!Starting, OneStarts
<1>8. ASSUME NEW p \in Pids, Dmn!write_pid(p) PROVE OneStarts'
  BY <1>8 DEF Dmn!write_pid, Dmn!Starting, OneStarts
<1>9. ASSUME NEW p \in Pids, Dmn!AlarmRings(p) PROVE OneStarts'
  BY <1>9 DEF Dmn!AlarmRings, Dmn!Starting, OneStarts
<1>10. ASSUME NEW p \in Pids, Dmn!http_daemon_thread(p) PROVE OneStarts'
  BY <1>10 DEF Dmn!http_daemon_thread, Dmn!Dies, Dmn!Starting, OneStarts
<1>11. ASSUME NEW p \in Pids, Dmn!NewConf(p) PROVE OneStarts'
  BY <1>11 DEF Dmn!NewConf, Dmn!Starting, OneStarts
<1>12. ASSUME NEW p \in Pids, Dmn!setup_new_conf(p) PROVE OneStarts'
  BY <1>12 DEF Dmn!setup_new_conf, Dmn!Starting, OneStarts
<1>13. ASSUME NEW p \in Pids, Dmn!SwitchRaises(p) PROVE OneStarts'
  BY <1>13 DEF Dmn!SwitchRaises, Dmn!Dies, Dmn!Starting, OneStarts
<1>14. ASSUME NEW p \in Pids, Dmn!SwitchFails(p) PROVE OneStarts'
  BY <1>14 DEF Dmn!SwitchFails, Dmn!Starting, OneStarts
<1>15. ASSUME NEW p \in Pids, Dmn!switch_process(p) PROVE OneStarts'
  <2>1. PICK c \in Pids :
             /\ pc[c] = "none"
             /\ pc' = [pc EXCEPT ![c] = "waiting", ![p] = "request"]
             /\ raced' = (raced \/ Dmn!Overlaps)
             /\ pc[p] = "running" /\ p \in new_conf /\ p \in conf /\ UNCHANGED pid
    BY <1>15 DEF Dmn!switch_process
  <2>2. \A q \in Pids : Dmn!Starting(q) => q \in new_conf
    BY <2>1 DEF Dmn!Overlaps
  <2>3. ~Dmn!Starting(p)
    BY <2>1 DEF Dmn!Starting, OneProcess
  <2>4. \A q \in Pids : ~Dmn!Starting(q)
    BY <2>1, <2>2, <2>3 DEF ParentGoes
  <2>5. \A q \in Pids : Dmn!Starting(q)' => q = c
    BY <2>1, <2>4 DEF Dmn!Starting
  <2> QED
    BY <2>5 DEF OneStarts
<1>16. ASSUME NEW p \in Pids, Dmn!manage_signal(p) PROVE OneStarts'
  BY <1>16 DEF Dmn!manage_signal, Dmn!Starting, OneStarts
<1>17. ASSUME NEW p \in Pids, Dmn!LeavesWaiting(p) PROVE OneStarts'
  BY <1>17 DEF Dmn!LeavesWaiting, Dmn!Dies, Dmn!Starting, OneStarts
<1>18. ASSUME NEW p \in Pids, Dmn!do_mainloop(p) PROVE OneStarts'
  BY <1>18 DEF Dmn!do_mainloop, Dmn!Starting, OneStarts
<1>19. ASSUME NEW p \in Pids, Dmn!unlink(p) PROVE OneStarts'
  BY <1>19 DEF Dmn!unlink, Dmn!Starting, OneStarts
<1>20. ASSUME NEW p \in Pids, Dmn!do_stop(p) PROVE OneStarts'
  BY <1>20 DEF Dmn!do_stop, Dmn!Dies, Dmn!Starting, OneStarts
<1>21. ASSUME NEW p \in Pids, Dmn!Crash(p) PROVE OneStarts'
  BY <1>21 DEF Dmn!Crash, Dmn!Dies, Dmn!Starting, OneStarts
<1> QED
  BY <1>1, <1>2, <1>3, <1>4, <1>5, <1>6, <1>7, <1>8, <1>9, <1>10, <1>11,
     <1>12, <1>13, <1>14, <1>15, <1>16, <1>17, <1>18, <1>19, <1>20, <1>21 DEF Dmn!Next

\* Who gets past its start has the port, and so the parent has let go of it.
LEMMA ParentGoesStep ==
    ASSUME PidsAreFine, DaemonInv, ~raced', Dmn!Next
    PROVE  ParentGoes'
<1> USE DEF DaemonInv, DaemonTypes
<1>1. ASSUME NEW p \in Pids, Dmn!Start(p) PROVE ParentGoes'
  BY <1>1 DEF Dmn!Start, Dmn!Starting, OneProcess, ParentGoes
<1>2. ASSUME NEW p \in Pids, Dmn!wait_parent_exit(p) PROVE ParentGoes'
  BY <1>2 DEF Dmn!wait_parent_exit, Dmn!Starting, OneProcess, ParentGoes, PidsAreFine
<1>3. ASSUME NEW p \in Pids, Dmn!OpenPidFile(p) PROVE ParentGoes'
  BY <1>3 DEF Dmn!OpenPidFile, Dmn!Opens, Dmn!Starting, ParentGoes
<1>4. ASSUME NEW p \in Pids, Dmn!check_parallel_run(p) PROVE ParentGoes'
  BY <1>4 DEF Dmn!check_parallel_run, Dmn!Dies, Dmn!Starting, ParentGoes
<1>5. ASSUME NEW p \in Pids, Dmn!Reopen(p) PROVE ParentGoes'
  BY <1>5 DEF Dmn!Reopen, Dmn!Opens, Dmn!Starting, ParentGoes
<1>6. ASSUME NEW p \in Pids, Dmn!setup_daemon(p) PROVE ParentGoes'
  BY <1>6 DEF Dmn!setup_daemon, Dmn!Dies, Dmn!Starting, ParentGoes
<1>7. ASSUME NEW p \in Pids, Dmn!daemonize(p) PROVE ParentGoes'
  BY <1>7 DEF Dmn!daemonize, Dmn!Starting, ParentGoes
<1>8. ASSUME NEW p \in Pids, Dmn!write_pid(p) PROVE ParentGoes'
  BY <1>8 DEF Dmn!write_pid, Dmn!Starting, ParentGoes
<1>9. ASSUME NEW p \in Pids, Dmn!AlarmRings(p) PROVE ParentGoes'
  BY <1>9 DEF Dmn!AlarmRings, Dmn!Starting, ParentGoes
<1>10. ASSUME NEW p \in Pids, Dmn!http_daemon_thread(p) PROVE ParentGoes'
  BY <1>10 DEF Dmn!http_daemon_thread, Dmn!Dies, Dmn!Starting, OneStarts, ParentGoes
<1>11. ASSUME NEW p \in Pids, Dmn!NewConf(p) PROVE ParentGoes'
  BY <1>11 DEF Dmn!NewConf, Dmn!Starting, ParentGoes
<1>12. ASSUME NEW p \in Pids, Dmn!setup_new_conf(p) PROVE ParentGoes'
  BY <1>12 DEF Dmn!setup_new_conf, Dmn!Starting, ParentGoes
<1>13. ASSUME NEW p \in Pids, Dmn!SwitchRaises(p) PROVE ParentGoes'
  BY <1>13 DEF Dmn!SwitchRaises, Dmn!Dies, Dmn!Starting, ParentGoes
<1>14. ASSUME NEW p \in Pids, Dmn!SwitchFails(p) PROVE ParentGoes'
  BY <1>14 DEF Dmn!SwitchFails, Dmn!Starting, ParentGoes
<1>15. ASSUME NEW p \in Pids, Dmn!switch_process(p) PROVE ParentGoes'
  BY <1>15 DEF Dmn!switch_process, Dmn!Starting, OneProcess, ParentGoes
<1>16. ASSUME NEW p \in Pids, Dmn!manage_signal(p) PROVE ParentGoes'
  BY <1>16 DEF Dmn!manage_signal, Dmn!Starting, ParentGoes
<1>17. ASSUME NEW p \in Pids, Dmn!LeavesWaiting(p) PROVE ParentGoes'
  BY <1>17 DEF Dmn!LeavesWaiting, Dmn!Dies, Dmn!Starting, ParentGoes
<1>18. ASSUME NEW p \in Pids, Dmn!do_mainloop(p) PROVE ParentGoes'
  BY <1>18 DEF Dmn!do_mainloop, Dmn!Starting, ParentGoes
<1>19. ASSUME NEW p \in Pids, Dmn!unlink(p) PROVE ParentGoes'
  BY <1>19 DEF Dmn!unlink, Dmn!Starting, ParentGoes
<1>20. ASSUME NEW p \in Pids, Dmn!do_stop(p) PROVE ParentGoes'
  BY <1>20 DEF Dmn!do_stop, Dmn!Dies, Dmn!Starting, ParentGoes
<1>21. ASSUME NEW p \in Pids, Dmn!Crash(p) PROVE ParentGoes'
  BY <1>21 DEF Dmn!Crash, Dmn!Dies, Dmn!Starting, ParentGoes
<1> QED
  BY <1>1, <1>2, <1>3, <1>4, <1>5, <1>6, <1>7, <1>8, <1>9, <1>10, <1>11,
     <1>12, <1>13, <1>14, <1>15, <1>16, <1>17, <1>18, <1>19, <1>20, <1>21 DEF Dmn!Next

\* The file at the path changes only by who starts, or by an unlink that raced.
LEMMA FileIsOpenStep ==
    ASSUME PidsAreFine, DaemonInv, ~raced', Dmn!Next
    PROVE  FileIsOpen'
<1> USE DEF DaemonInv, DaemonTypes
<1>f. 0 \notin Dmn!Files
  BY FilesAreNumbers
<1>1. ASSUME NEW p \in Pids, Dmn!Start(p) PROVE FileIsOpen'
  BY <1>1 DEF Dmn!Start, FileIsOpen
<1>2. ASSUME NEW p \in Pids, Dmn!wait_parent_exit(p) PROVE FileIsOpen'
  BY <1>2 DEF Dmn!wait_parent_exit, FileIsOpen
<1>3. ASSUME NEW p \in Pids, Dmn!OpenPidFile(p) PROVE FileIsOpen'
  BY <1>3, <1>f DEF Dmn!OpenPidFile, Dmn!Opens, FileIsOpen
<1>4. ASSUME NEW p \in Pids, Dmn!check_parallel_run(p) PROVE FileIsOpen'
  BY <1>4 DEF Dmn!check_parallel_run, Dmn!Dies, OneProcess, FileIsOpen
<1>5. ASSUME NEW p \in Pids, Dmn!Reopen(p) PROVE FileIsOpen'
  BY <1>5, <1>f DEF Dmn!Reopen, Dmn!Opens, Dmn!Starting, OneStarts, FileIsOpen
<1>6. ASSUME NEW p \in Pids, Dmn!setup_daemon(p) PROVE FileIsOpen'
  BY <1>6 DEF Dmn!setup_daemon, Dmn!Dies, FileIsOpen
<1>7. ASSUME NEW p \in Pids, Dmn!daemonize(p) PROVE FileIsOpen'
  BY <1>7 DEF Dmn!daemonize, FileIsOpen
<1>8. ASSUME NEW p \in Pids, Dmn!write_pid(p) PROVE FileIsOpen'
  BY <1>8 DEF Dmn!write_pid, Dmn!Starting, OneProcess, OneStarts, FileIsOpen
<1>9. ASSUME NEW p \in Pids, Dmn!AlarmRings(p) PROVE FileIsOpen'
  BY <1>9 DEF Dmn!AlarmRings, OneProcess, FileIsOpen
<1>10. ASSUME NEW p \in Pids, Dmn!http_daemon_thread(p) PROVE FileIsOpen'
  BY <1>10 DEF Dmn!http_daemon_thread, Dmn!Dies, FileIsOpen
<1>11. ASSUME NEW p \in Pids, Dmn!NewConf(p) PROVE FileIsOpen'
  BY <1>11 DEF Dmn!NewConf, FileIsOpen
<1>12. ASSUME NEW p \in Pids, Dmn!setup_new_conf(p) PROVE FileIsOpen'
  BY <1>12 DEF Dmn!setup_new_conf, FileIsOpen
<1>13. ASSUME NEW p \in Pids, Dmn!SwitchRaises(p) PROVE FileIsOpen'
  BY <1>13 DEF Dmn!SwitchRaises, Dmn!Dies, FileIsOpen
<1>14. ASSUME NEW p \in Pids, Dmn!SwitchFails(p) PROVE FileIsOpen'
  BY <1>14 DEF Dmn!SwitchFails, FileIsOpen
<1>15. ASSUME NEW p \in Pids, Dmn!switch_process(p) PROVE FileIsOpen'
  BY <1>15 DEF Dmn!switch_process, FileIsOpen
<1>16. ASSUME NEW p \in Pids, Dmn!manage_signal(p) PROVE FileIsOpen'
  BY <1>16 DEF Dmn!manage_signal, FileIsOpen
<1>17. ASSUME NEW p \in Pids, Dmn!LeavesWaiting(p) PROVE FileIsOpen'
  BY <1>17 DEF Dmn!LeavesWaiting, Dmn!Dies, FileIsOpen
<1>18. ASSUME NEW p \in Pids, Dmn!do_mainloop(p) PROVE FileIsOpen'
  BY <1>18 DEF Dmn!do_mainloop, FileIsOpen
<1>19. ASSUME NEW p \in Pids, Dmn!unlink(p) PROVE FileIsOpen'
  <2>1. /\ pc[p] = "request" /\ pc' = [pc EXCEPT ![p] = "stops"]
        /\ raced' = (raced \/ Dmn!Overlaps) /\ UNCHANGED <<pid, fpid, content>>
    BY <1>19 DEF Dmn!unlink
  <2>2. \A q \in Pids : Dmn!Starting(q) => q \in new_conf
    BY <2>1 DEF Dmn!Overlaps
  <2>3. ~Dmn!Starting(p)
    BY <2>1, <2>2 DEF Dmn!Starting, OneProcess
  <2>4. \A q \in Pids : Dmn!Starting(q) => pc[q] = "waiting" /\ pid[q] = "no"
    BY <2>1, <2>2, <2>3 DEF ParentGoes, OneProcess
  <2> QED
    BY <2>1, <2>3, <2>4 DEF Dmn!Starting, FileIsOpen
<1>20. ASSUME NEW p \in Pids, Dmn!do_stop(p) PROVE FileIsOpen'
  BY <1>20 DEF Dmn!do_stop, Dmn!Dies, FileIsOpen
<1>21. ASSUME NEW p \in Pids, Dmn!Crash(p) PROVE FileIsOpen'
  BY <1>21 DEF Dmn!Crash, Dmn!Dies, FileIsOpen
<1> QED
  BY <1>1, <1>2, <1>3, <1>4, <1>5, <1>6, <1>7, <1>8, <1>9, <1>10, <1>11,
     <1>12, <1>13, <1>14, <1>15, <1>16, <1>17, <1>18, <1>19, <1>20, <1>21 DEF Dmn!Next

\* check_parallel_run finds who serves, as the file tells of it; then one of the two ends.
LEMMA FileTellsStep ==
    ASSUME PidsAreFine, DaemonInv, ~raced', Dmn!Next
    PROVE  FileTells'
<1> USE DEF DaemonInv, DaemonTypes
<1>1. ASSUME NEW p \in Pids, Dmn!Start(p) PROVE FileTells'
  BY <1>1 DEF Dmn!Start, Dmn!Starting, FileTells
<1>2. ASSUME NEW p \in Pids, Dmn!wait_parent_exit(p) PROVE FileTells'
  BY <1>2 DEF Dmn!wait_parent_exit, Dmn!Starting, FileTells
<1>3. ASSUME NEW p \in Pids, Dmn!OpenPidFile(p) PROVE FileTells'
  BY <1>3 DEF Dmn!OpenPidFile, Dmn!Opens, Dmn!Starting, FileTells
<1>4. ASSUME NEW p \in Pids, Dmn!check_parallel_run(p) PROVE FileTells'
  BY <1>4
  DEF Dmn!check_parallel_run, Dmn!Dies, Dmn!Alive, Dmn!Starting, OneProcess, ParentGoes,
      FileIsOpen, FileTells, PidsAreFine
<1>5. ASSUME NEW p \in Pids, Dmn!Reopen(p) PROVE FileTells'
  BY <1>5 DEF Dmn!Reopen, Dmn!Opens, Dmn!Starting, FileTells
<1>6. ASSUME NEW p \in Pids, Dmn!setup_daemon(p) PROVE FileTells'
  BY <1>6 DEF Dmn!setup_daemon, Dmn!Dies, Dmn!Starting, FileTells
<1>7. ASSUME NEW p \in Pids, Dmn!daemonize(p) PROVE FileTells'
  BY <1>7 DEF Dmn!daemonize, Dmn!Starting, FileTells
<1>8. ASSUME NEW p \in Pids, Dmn!write_pid(p) PROVE FileTells'
  BY <1>8 DEF Dmn!write_pid, Dmn!Starting, OneProcess, OneStarts, FileIsOpen, FileTells
<1>9. ASSUME NEW p \in Pids, Dmn!AlarmRings(p) PROVE FileTells'
  BY <1>9 DEF Dmn!AlarmRings, Dmn!Starting, FileTells
<1>10. ASSUME NEW p \in Pids, Dmn!http_daemon_thread(p) PROVE FileTells'
  BY <1>10 DEF Dmn!http_daemon_thread, Dmn!Dies, Dmn!Starting, OneStarts, FileIsOpen, FileTells
<1>11. ASSUME NEW p \in Pids, Dmn!NewConf(p) PROVE FileTells'
  BY <1>11 DEF Dmn!NewConf, Dmn!Starting, FileTells
<1>12. ASSUME NEW p \in Pids, Dmn!setup_new_conf(p) PROVE FileTells'
  BY <1>12 DEF Dmn!setup_new_conf, Dmn!Starting, FileTells
<1>13. ASSUME NEW p \in Pids, Dmn!SwitchRaises(p) PROVE FileTells'
  BY <1>13 DEF Dmn!SwitchRaises, Dmn!Dies, Dmn!Starting, FileTells
<1>14. ASSUME NEW p \in Pids, Dmn!SwitchFails(p) PROVE FileTells'
  BY <1>14 DEF Dmn!SwitchFails, Dmn!Starting, FileTells
<1>15. ASSUME NEW p \in Pids, Dmn!switch_process(p) PROVE FileTells'
  BY <1>15 DEF Dmn!switch_process, OneProcess, FileTells
<1>16. ASSUME NEW p \in Pids, Dmn!manage_signal(p) PROVE FileTells'
  BY <1>16 DEF Dmn!manage_signal, Dmn!Starting, FileTells
<1>17. ASSUME NEW p \in Pids, Dmn!LeavesWaiting(p) PROVE FileTells'
  BY <1>17 DEF Dmn!LeavesWaiting, Dmn!Dies, Dmn!Starting, FileTells
<1>18. ASSUME NEW p \in Pids, Dmn!do_mainloop(p) PROVE FileTells'
  BY <1>18 DEF Dmn!do_mainloop, Dmn!Starting, FileTells
<1>19. ASSUME NEW p \in Pids, Dmn!unlink(p) PROVE FileTells'
  BY <1>19 DEF Dmn!unlink, OneProcess, FileTells
<1>20. ASSUME NEW p \in Pids, Dmn!do_stop(p) PROVE FileTells'
  BY <1>20 DEF Dmn!do_stop, Dmn!Dies, Dmn!Starting, FileTells
<1>21. ASSUME NEW p \in Pids, Dmn!Crash(p) PROVE FileTells'
  BY <1>21 DEF Dmn!Crash, Dmn!Dies, Dmn!Starting, OneProcess, FileTells
<1> QED
  BY <1>1, <1>2, <1>3, <1>4, <1>5, <1>6, <1>7, <1>8, <1>9, <1>10, <1>11,
     <1>12, <1>13, <1>14, <1>15, <1>16, <1>17, <1>18, <1>19, <1>20, <1>21 DEF Dmn!Next

LEMMA DaemonNext ==
    ASSUME PidsAreFine, DaemonInv, [Dmn!Next]_(Dmn!vars) PROVE DaemonInv'
<1>1. CASE Dmn!Next
  <2>1. ~raced' => ~raced
    BY <1>1 DEF Dmn!Next, Dmn!Start, Dmn!wait_parent_exit, Dmn!OpenPidFile,
        Dmn!check_parallel_run, Dmn!Reopen, Dmn!setup_daemon, Dmn!daemonize, Dmn!write_pid,
        Dmn!AlarmRings, Dmn!http_daemon_thread, Dmn!NewConf, Dmn!setup_new_conf,
        Dmn!SwitchRaises, Dmn!SwitchFails, Dmn!switch_process, Dmn!manage_signal,
        Dmn!LeavesWaiting, Dmn!do_mainloop, Dmn!unlink, Dmn!do_stop, Dmn!Crash
  <2> QED
    BY <1>1, <2>1, DaemonTypesStep, OneProcessStep, OneStartsStep, ParentGoesStep,
       FileIsOpenStep, FileTellsStep DEF DaemonInv
<1>2. CASE UNCHANGED Dmn!vars
  <2>1. DaemonTypes' /\ OneProcess'
    BY <1>2 DEF Dmn!vars, DaemonInv, DaemonTypes, OneProcess, Dmn!Files
  <2>2. ASSUME ~raced' PROVE OneStarts' /\ ParentGoes' /\ FileIsOpen' /\ FileTells'
    BY <1>2, <2>2
    DEF Dmn!vars, DaemonInv, OneStarts, ParentGoes, FileIsOpen, FileTells, Dmn!Starting
  <2> QED
    BY <2>1, <2>2 DEF DaemonInv
<1> QED
  BY <1>1, <1>2

LEMMA DaemonInit == ASSUME PidsAreFine, Dmn!Init PROVE DaemonInv
BY FilesAreNumbers DEF Dmn!Init, DaemonInv, DaemonTypes, Progress, PidsAreFine, OneProcess,
   OneStarts, ParentGoes, FileIsOpen, FileTells, Dmn!Starting

\* When nothing starts, the pid file has the pid of the daemon that serves (daemon.py:575).
THEOREM PidFileIsTrue == ASSUME PidsAreFine PROVE Dmn!Spec => []Dmn!PidFileTells
<1>1. Dmn!Init => DaemonInv
  BY DaemonInit
<1>2. DaemonInv /\ [Dmn!Next]_(Dmn!vars) => DaemonInv'
  BY DaemonNext
<1>3. DaemonInv => Dmn!PidFileTells
  BY DEF DaemonInv, FileTells, Dmn!PidFileTells, Dmn!Serves
<1> QED
  BY <1>1, <1>2, <1>3, PTL DEF Dmn!Spec

-----------------------------------------------------------------------------
(* A worker runs a plugin.                                                 *)

CONSTANTS Plugins, PipeSize, MaxLength
VARIABLES plugin, shell, process, written, taken, data, result

Plg == INSTANCE Plugins

PluginsAreFine == \A p \in Plugins : \A s \in Plg!Streams : p[s] \in Seq(STRING)

PluginTypes ==
    /\ plugin \in Plugins
    /\ written \in [Plg!Streams -> Nat] /\ taken \in [Plg!Streams -> Nat]
    /\ \A s \in Plg!Streams : taken[s] <= written[s] /\ written[s] <= Len(plugin[s])
    /\ process \in {"none", "runs", "exited", "killed"}
    /\ status \in {"queue", "launched", "done", "timeout"}

\* A plugin runs while its action is launched, and ends when all is written.
EndsAtTheEnd ==
    /\ status = "queue" => process = "none"
    /\ process = "none" => \A s \in Plg!Streams : taken[s] = 0
    /\ process = "runs" => status = "launched"
    /\ process = "exited" => \A s \in Plg!Streams : written[s] = Len(plugin[s])

\* What was read are the bytes taken from the pipe, in order.
ReadIsTaken ==
    /\ DOMAIN data = Plg!Streams
    /\ status # "done" => \A s \in Plg!Streams :
         Plg!Plain(plugin[s]) => data[s] = SubSeq(plugin[s], 1, taken[s])

PluginInv == PluginTypes /\ EndsAtTheEnd /\ ReadIsTaken /\ Plg!ToldAsWritten

\* A text of single bytes is decoded to itself.
LEMMA PlainDecoded ==
    ASSUME NEW s \in Seq(STRING), Plg!Plain(s)
    PROVE  Plg!Decoded(s) = s
<1>1. Len(s) \in Nat /\ DOMAIN s = 1..Len(s)
  OBVIOUS
<1>2. \A k \in DOMAIN s : s[k] # "<" /\ s[k] # ">"
  BY DEF Plg!Plain, Plg!Has
<1>3. Plg!Valid(s)
  BY <1>2 DEF Plg!Valid
<1> DEFINE Keep == Plg!ToSet(s) \ {"<"}
<1>4. \A i \in 1..Len(s) : s[i] \in Keep
  BY <1>1, <1>2 DEF Plg!ToSet
<1> HIDE DEF Keep
<1>5. Filter(s, Keep) = s
  BY <1>4, FilterAll
<1>6. Plg!Decoded(s) = Filter(s, Keep)
  BY <1>3 DEF Plg!Decoded, Plg!Filter, Filter, Keep
<1> QED
  BY <1>5, <1>6

\* What was read before and what is read now follow each other.
LEMMA AllReadIs ==
    ASSUME PluginsAreFine, PluginTypes, ReadIsTaken, status # "done",
           NEW s \in Plg!Streams, Plg!Plain(plugin[s])
    PROVE  Plg!AllRead[s] = SubSeq(plugin[s], 1, written[s])
<1> DEFINE p == plugin[s]
           t == taken[s]
           w == written[s]
           now == SubSeq(p, t + 1, w)
<1>1. /\ p \in Seq(STRING) /\ t \in Nat /\ w \in Nat /\ t <= w /\ w <= Len(p)
      /\ data[s] = SubSeq(p, 1, t)
  BY DEF PluginsAreFine, PluginTypes, ReadIsTaken
<1>2. \A k \in DOMAIN p : p[k] # "<" /\ p[k] # ">"
  BY DEF Plg!Plain, Plg!Has
<1>3. Plg!AllRead[s] = data[s] \o Plg!Decoded(now)
  BY DEF Plg!AllRead, Plg!no_block_read
<1> HIDE DEF p, t, w
<1>4. /\ now \in Seq(STRING) /\ Len(now) = w - t
      /\ \A k \in 1..(w - t) : now[k] = p[t + k] /\ t + k \in DOMAIN p
  BY <1>1
<1>5. Plg!Plain(now)
  BY <1>1, <1>2, <1>4 DEF Plg!Plain, Plg!Has
<1> HIDE DEF now
<1>6. Plg!Decoded(now) = now
  BY <1>4, <1>5, PlainDecoded
<1>7. SubSeq(p, 1, t) \o now = SubSeq(p, 1, w)
  BY <1>1 DEF now
<1> QED
  BY <1>1, <1>3, <1>6, <1>7 DEF p, w

LEMMA PluginStep == ASSUME PluginsAreFine, PluginInv, [Plg!Next]_Plg!vars PROVE PluginInv'
<1> USE DEF PluginInv
<1>1. CASE Plg!execute
  <2>1. \A s \in Plg!Streams : taken[s] = 0 /\ SubSeq(plugin[s], 1, 0) = <<>>
    BY <1>1 DEF Plg!execute, EndsAtTheEnd
  <2>2. PluginTypes' /\ EndsAtTheEnd' /\ Plg!ToldAsWritten'
    BY <1>1 DEF Plg!execute, PluginTypes, EndsAtTheEnd, Plg!ToldAsWritten
  <2>3. ReadIsTaken'
    BY <1>1, <2>1 DEF Plg!execute, ReadIsTaken
  <2> QED
    BY <2>2, <2>3
<1>2. CASE Plg!Launch
  <2>1. PluginTypes' /\ EndsAtTheEnd'
    BY <1>2 DEF Plg!Launch, Plg!Ends, PluginTypes, EndsAtTheEnd
  <2>2. ReadIsTaken' /\ Plg!ToldAsWritten'
    BY <1>2 DEF Plg!Launch, Plg!Ends, ReadIsTaken, Plg!ToldAsWritten
  <2> QED
    BY <2>1, <2>2
<1>3. ASSUME NEW s \in Plg!Streams, Plg!Writes(s) PROVE PluginInv'
  <2>1. PluginTypes'
    <3>1. Len(plugin[s]) \in Nat
      BY DEF PluginsAreFine, PluginTypes
    <3> QED
      BY <1>3, <3>1 DEF Plg!Writes, PluginTypes
  <2>2. EndsAtTheEnd' /\ ReadIsTaken' /\ Plg!ToldAsWritten'
    BY <1>3 DEF Plg!Writes, EndsAtTheEnd, ReadIsTaken, Plg!ToldAsWritten
  <2> QED
    BY <2>1, <2>2
<1>4. CASE Plg!Exits
  BY <1>4 DEF Plg!Exits, PluginTypes, EndsAtTheEnd, ReadIsTaken, Plg!ToldAsWritten
<1>5. CASE Plg!PollRunning
  <2>1. PluginTypes' /\ EndsAtTheEnd' /\ Plg!ToldAsWritten'
    BY <1>5 DEF Plg!PollRunning, PluginTypes, EndsAtTheEnd, Plg!ToldAsWritten
  <2>2. ReadIsTaken'
    <3>1. /\ status # "done" /\ data' = Plg!AllRead /\ taken' = written /\ plugin' = plugin
          /\ DOMAIN Plg!AllRead = Plg!Streams
      BY <1>5 DEF Plg!PollRunning, Plg!AllRead
    <3>2. \A s \in Plg!Streams :
             Plg!Plain(plugin[s]) => Plg!AllRead[s] = SubSeq(plugin[s], 1, written[s])
      BY <3>1, AllReadIs
    <3> QED
      BY <3>1, <3>2 DEF ReadIsTaken
  <2> QED
    BY <2>1, <2>2
<1>6. CASE Plg!TimesOut
  <2>1. PluginTypes' /\ EndsAtTheEnd' /\ Plg!ToldAsWritten'
    BY <1>6 DEF Plg!TimesOut, PluginTypes, EndsAtTheEnd, Plg!ToldAsWritten
  <2>2. ReadIsTaken'
    <3>1. /\ status # "done" /\ data' = Plg!AllRead /\ taken' = written /\ plugin' = plugin
          /\ DOMAIN Plg!AllRead = Plg!Streams
      BY <1>6 DEF Plg!TimesOut, Plg!AllRead
    <3>2. \A s \in Plg!Streams :
             Plg!Plain(plugin[s]) => Plg!AllRead[s] = SubSeq(plugin[s], 1, written[s])
      BY <3>1, AllReadIs
    <3> QED
      BY <3>1, <3>2 DEF ReadIsTaken
  <2> QED
    BY <2>1, <2>2
<1>7. CASE Plg!PollExited
  <2>1. PluginTypes' /\ EndsAtTheEnd' /\ ReadIsTaken'
    BY <1>7 DEF Plg!PollExited, PluginTypes, EndsAtTheEnd, ReadIsTaken
  <2>2. ASSUME \A s \in Plg!Streams : Plg!Plain(plugin[s])
        PROVE  Plg!AllRead = [s \in Plg!Streams |-> plugin[s]]
    <3>1. status # "done" /\ \A s \in Plg!Streams : written[s] = Len(plugin[s])
      BY <1>7 DEF Plg!PollExited, EndsAtTheEnd
    <3>2. ASSUME NEW s \in Plg!Streams PROVE Plg!AllRead[s] = plugin[s]
      <4>1. Plg!AllRead[s] = SubSeq(plugin[s], 1, written[s])
        BY <2>2, <3>1, AllReadIs
      <4>2. plugin[s] \in Seq(STRING) /\ written[s] = Len(plugin[s])
        BY <3>1 DEF PluginsAreFine, PluginTypes
      <4> DEFINE p == plugin[s]
      <4>3. p \in Seq(STRING)
        BY <4>2
      <4> HIDE DEF p
      <4>4. SubSeq(p, 1, Len(p)) = p
        BY <4>3
      <4> QED
        BY <4>1, <4>2, <4>4 DEF p
    <3>3. Plg!AllRead = [s \in Plg!Streams |-> Plg!AllRead[s]]
      BY DEF Plg!AllRead
    <3> QED
      BY <3>2, <3>3
  <2>3. Plg!ToldAsWritten'
    <3>1. result' = Plg!ResultOf(Plg!AllRead, plugin.exit) /\ plugin' = plugin
      BY <1>7 DEF Plg!PollExited
    <3> QED
      BY <2>2, <3>1 DEF Plg!ToldAsWritten
  <2> QED
    BY <2>1, <2>3
<1>8. CASE UNCHANGED Plg!vars
  BY <1>8 DEF Plg!vars, PluginTypes, EndsAtTheEnd, ReadIsTaken, Plg!ToldAsWritten
<1> QED
  BY <1>1, <1>2, <1>3, <1>4, <1>5, <1>6, <1>7, <1>8 DEF Plg!Next

LEMMA PluginInit == ASSUME PluginsAreFine, Plg!Init PROVE PluginInv
<1>1. PluginTypes /\ EndsAtTheEnd /\ Plg!ToldAsWritten
  BY DEF Plg!Init, PluginsAreFine, PluginTypes, EndsAtTheEnd, Plg!ToldAsWritten
<1>2. \A s \in Plg!Streams : SubSeq(plugin[s], 1, 0) = <<>>
  OBVIOUS
<1>3. ReadIsTaken
  BY <1>2 DEF Plg!Init, ReadIsTaken
<1> QED
  BY <1>1, <1>3 DEF PluginInv

\* What is told of a plugin that writes single bytes is worked out of all it wrote, whatever
\* the polls read when (action.py:131).
THEOREM ToldWhatWasWritten == ASSUME PluginsAreFine PROVE Plg!Spec => []Plg!ToldAsWritten
<1>1. Plg!Init => PluginInv
  BY PluginInit
<1>2. PluginInv /\ [Plg!Next]_Plg!vars => PluginInv'
  BY PluginStep
<1>3. PluginInv => Plg!ToldAsWritten
  BY DEF PluginInv
<1> QED
  BY <1>1, <1>2, <1>3, PTL DEF Plg!Spec
=============================================================================
