------------------------------ MODULE CheckQueue ------------------------------
(***************************************************************************)
(* What a scheduler promises to the pollers about its checks, without how  *)
(* it does it.  A check is offered, taken by a poller, answered and then   *)
(* consumed, once; it may be offered again when its poller is silent for   *)
(* too long, and it may be dropped.  Nothing leads back from an answer.    *)
(*                                                                         *)
(* Scheduler.tla implements this module (ImplementsQueue there), and       *)
(* Polling.tla puts it together with the satellites.                       *)
(***************************************************************************)
EXTENDS Naturals

CONSTANT Ids  \* check ids; a finite set bounds the run

ASSUME IdsAssumption == Ids \subseteq Nat

VARIABLES
    life,   \* where each check is in its life
    nextId  \* Action.id: the id of the next check

queueVars == <<life, nextId>>

Lives == {"none", "scheduled", "inpoller", "answered", "done"}

Having(l) == {c \in Ids : life[c] = l}

\* The checks of a set move on together.
Move(cs, l) == life' = [c \in Ids |-> IF c \in cs THEN l ELSE life[c]]

\* add_Check: a check enters the queue; a passive result enters it answered.
Create(l) ==
    /\ l \in {"scheduled", "answered"}
    /\ nextId \in Having("none")
    /\ Move({nextId}, l)
    /\ nextId' = nextId + 1

\* get_to_run_checks
HandOut(cs) ==
    /\ cs \subseteq Having("scheduled")
    /\ Move(cs, "inpoller")
    /\ UNCHANGED nextId

\* check_orphaned
Reenable(cs) ==
    /\ cs \subseteq Having("inpoller")
    /\ Move(cs, "scheduled")
    /\ UNCHANGED nextId

\* put_results, disable_active_checks, a passive result, an internal check.
Answer(cs) ==
    /\ cs \subseteq Having("scheduled") \cup Having("inpoller")
                      \cup Having("answered")
    /\ Move(cs, "answered")
    /\ UNCHANGED nextId

\* consume_result
Consume(c) ==
    /\ c \in Having("answered")
    /\ Move({c}, "done")
    /\ UNCHANGED nextId

\* clean_queues, or a new configuration: no result is wanted any more.
Drop(cs) ==
    /\ cs \subseteq Ids \ Having("none")
    /\ Move(cs, "done")
    /\ UNCHANGED nextId

\* The daemon is restarted.
Forgets ==
    /\ Move(Ids, "none")
    /\ nextId' = 0

QueueInit ==
    /\ life = [c \in Ids |-> "none"]
    /\ nextId = 0

QueueNext ==
    \/ \E l \in {"scheduled", "answered"} : Create(l)
    \/ \E cs \in SUBSET Ids : HandOut(cs) \/ Reenable(cs) \/ Answer(cs) \/ Drop(cs)
    \/ \E c \in Ids : Consume(c)
    \/ Forgets

QueueSpec == QueueInit /\ [][QueueNext]_queueVars
=============================================================================
