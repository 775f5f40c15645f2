---------------------------- MODULE Notifications ----------------------------
(***************************************************************************)
(* Notifications of one host or service, on top of its state in ItemState: *)
(* create_notifications and scatter_notification of                        *)
(* shinken/objects/schedulingitem.py, the tests of host.py, service.py,    *)
(* contact.py, notificationway.py and escalation.py that may block them,   *)
(* and the queue of actions of shinken/scheduler.py.                       *)
(*                                                                         *)
(* A master notification stays in the queue and is split, when it is due,  *)
(* into children for the contacts; reactionners take the children, send    *)
(* them and return them.  Times are abstracted to what they are compared   *)
(* with: a notification is due when its t_to_go is reached.  A zombie is   *)
(* in no one's way: it leaves the queue at once, and not when              *)
(* delete_zombie_actions passes.                                           *)
(***************************************************************************)
EXTENDS ItemState

CONSTANTS
    It,                    \* the item
    Contact,               \* contacts of the item and of its escalations
    contacts,              \* those of the item
    escalation,            \* those of its escalation
    first_notification,    \* of the escalation; its last_notification is 0
    notification_interval, \* 0, or not 0: reminders are sent
    Picky,                 \* bound: contacts that may refuse notifications
    Kinds,                 \* bound: the other events that may happen
    MaxEvents,             \* bound: how many of them
    ActionIds,             \* bound: actions that live at the same time
    MaxNumber              \* bound: notification numbers are not counted further

Master == "master"   \* contact of a master notification

\* The state change of impacts is off, as it is by default: no other item's
\* problem changes the state of this one.
ASSUME NotificationAssumption ==
    /\ It \in Items /\ Changes = {FALSE}
    /\ IsFiniteSet(Contact) /\ Master \notin Contact
    /\ contacts \subseteq Contact /\ escalation \subseteq Contact
    /\ Picky \subseteq Contact
    /\ ActionIds \subseteq Nat /\ IsFiniteSet(ActionIds)
    /\ MaxEvents \in Nat /\ MaxNumber \in Nat
    /\ first_notification \in 1..MaxNumber

VARIABLES
    queue,    \* the notifications of the item, see Queue
    taken,    \* children that reactionners hold: copies of them
    in_downtime,   \* in_scheduled_downtime: scheduled_downtime_depth is 1
    after_downtime,          \* in_scheduled_downtime_during_last_check
    is_flapping,
    open,     \* no period, command or host blocks all notifications of the item
    willing,  \* contacts that accept notifications now
    heard,    \* history: contacts that were sent the last PROBLEM, no RECOVERY since
    left      \* events that may still happen

queueVars == <<queue, taken>>
envVars == <<in_downtime, after_downtime, is_flapping, open, willing>>
allVars == <<vars, queue, taken, envVars, heard, left>>

Types == {"PROBLEM", "RECOVERY", "ACKNOWLEDGEMENT", "DOWNTIMESTART",
          "DOWNTIMEEND", "FLAPPINGSTART", "FLAPPINGSTOP"}
Absent == [type |-> None]
Notification ==
    [type : Types, contact : Contact \cup {Master},
     status : {"scheduled", "inpoller"}, nb : 0..MaxNumber, due : BOOLEAN]

Queue ==
    [actions : [ActionIds -> Notification \cup {Absent}],
     in_progress : SUBSET ActionIds,              \* notifications_in_progress
     number : 0..MaxNumber,                       \* current_notification_number
     notified_contacts : SUBSET Contact]

TypeOKn ==
    /\ TypeOK
    /\ queue \in Queue
    /\ taken \subseteq [id : ActionIds, type : Types, contact : Contact]
    /\ in_downtime \in BOOLEAN /\ after_downtime \in BOOLEAN
    /\ is_flapping \in BOOLEAN /\ open \in BOOLEAN
    /\ willing \subseteq Contact
    /\ heard \subseteq Contact
    /\ left \in 0..MaxEvents

-----------------------------------------------------------------------------
(* What is done to a queue, as operators from a queue to a queue.          *)

Live(q) == {id \in ActionIds : q.actions[id] # Absent}

\* Action.id is counted up: an id is new when no one knows it.
Free(q) == ActionIds \ (Live(q) \cup {t.id : t \in taken})

\* Bound: nothing is added when no id is free.
add_Notification(q, a) ==
    IF Free(q) = {} THEN q
    ELSE LET id == Min(Free(q))
         IN [q EXCEPT !.actions[id] = a, !.in_progress = @ \cup {id}]

\* The status is zombie, and delete_zombie_actions.
Bury(q, id) == [q EXCEPT !.actions[id] = Absent]

remove_in_progress_notification(q, id) ==
    IF id \in q.in_progress
    THEN Bury([q EXCEPT !.in_progress = @ \ {id}], id)
    ELSE q

remove_in_progress_notifications(q) ==
    [q EXCEPT !.actions = [id \in ActionIds |-> IF id \in q.in_progress THEN Absent ELSE @[id]],
              !.in_progress = {}]

\* notification_is_blocked_by_item, of item attributes r.  open stands for the
\* conditions that block every type: the program, the item, its options, its
\* period, and for a service the state and the downtime of its host.
notification_is_blocked_by_item(r, type, flapping) ==
    \/ ~open
    \/ type = "ACKNOWLEDGEMENT" /\ r.state \in Fine
    \/ /\ in_downtime
       /\ type \in {"PROBLEM", "RECOVERY", "FLAPPINGSTART", "FLAPPINGSTOP"}
    \/ r.state_type = "SOFT" /\ type = "PROBLEM"
    \/ r.ack # None /\ type # "ACKNOWLEDGEMENT"
    \/ flapping /\ type \notin {"FLAPPINGSTART", "FLAPPINGSTOP"}

Capped(k) == Min({k, MaxNumber})

\* create_notifications; it is due now, or put off by the notification_period
\* or by first_notification_delay.
create_notifications(q, r, type, flapping) ==
    IF /\ notification_is_blocked_by_item(r, type, flapping)
       /\ notification_interval = 0
    THEN q
    ELSE LET q1 == IF type = "RECOVERY" THEN [q EXCEPT !.number = 0] ELSE q
         IN add_Notification(q1,
                [type |-> type, contact |-> Master, status |-> "scheduled",
                 nb |-> IF type = "PROBLEM" THEN Capped(q1.number + 1)
                        ELSE q1.number,
                 due |-> FALSE])

\* is_eligible of the escalation, and the contacts of a notification.
Escalated(a) == escalation # {} /\ a.nb >= first_notification
Recipients(q, a) ==
    CASE a.type = "RECOVERY" -> q.notified_contacts
      [] a.type # "RECOVERY" /\ Escalated(a) -> escalation
      [] OTHER -> contacts

\* scatter_notification: the children of the master a, for the contacts that
\* want it (notification_is_blocked_by_contact).
scatter_notification(q, a) ==
    LET again(c) == /\ a.type = "PROBLEM"
                    /\ notification_interval = 0
                    /\ c \in q.notified_contacts
        to == {c \in Recipients(q, a) : ~again(c) /\ c \in willing}
        q1 == IF a.type = "RECOVERY"
              THEN [q EXCEPT !.notified_contacts = {}] ELSE q
        q2 == Through([r \in Queue |-> [c \in Contact |->
                          add_Notification(r, [a EXCEPT !.contact = c])]],
                      q1, SetToSeq(to))
    IN [q2 EXCEPT
        !.notified_contacts = IF a.type = "PROBLEM" THEN @ \cup to ELSE @,
        !.number = IF a.type = "PROBLEM" /\ to # {} THEN a.nb ELSE @]

\* What is left of a master once it was handled: a PROBLEM is put off until its
\* reminder, all others are wiped out.
Handled(q, id) ==
    IF q.actions[id].type = "PROBLEM" /\ notification_interval # 0
    THEN [q EXCEPT !.actions[id].due = FALSE,
                   !.actions[id].nb = Capped(q.number + 1)]
    ELSE remove_in_progress_notification(q, id)

IsDueMaster(q, id) ==
    /\ q.actions[id] # Absent
    /\ q.actions[id].contact = Master
    /\ q.actions[id].status = "scheduled" /\ q.actions[id].due

ScatterOne(q, id) ==
    IF ~IsDueMaster(q, id) THEN q
    ELSE LET a == q.actions[id]
         IN Handled(IF notification_is_blocked_by_item(item[It], a.type, is_flapping)
                    THEN q ELSE scatter_notification(q, a), id)

\* What consume_state_result may ask for.
Requests == {"remove", "PROBLEM", "RECOVERY", "flexible", "handler"}

\* Mutant: what is in progress is only removed when the item recovers.
AskedAtRecovery(q, r, calls) ==
    Through([p \in Queue |-> [call \in Requests |->
                CASE call = "RECOVERY" -> create_notifications(
                        remove_in_progress_notifications(p), r, call, is_flapping)
                  [] call = "PROBLEM" -> create_notifications(p, r, call, is_flapping)
                  [] OTHER -> p]],
            q, calls)

\* What consume_state_result asked for, in its order.
Asked(q, r, calls) ==
    Through([p \in Queue |-> [call \in Requests |->
                CASE call = "remove" -> remove_in_progress_notifications(p)
                  [] call \in {"PROBLEM", "RECOVERY"} ->
                        create_notifications(p, r, call, is_flapping)
                  [] OTHER -> p]],
            q, calls)

-----------------------------------------------------------------------------
(* Actions.                                                                *)

Room(k) == Cardinality(Free(queue)) >= k

InitN ==
    /\ Init
    /\ queue = [actions |-> [id \in ActionIds |-> Absent], in_progress |-> {},
            number |-> 0, notified_contacts |-> {}]
    /\ taken = {}
    /\ in_downtime = FALSE /\ after_downtime = FALSE
    /\ is_flapping = FALSE /\ open = TRUE /\ willing = Contact
    /\ heard = {}
    /\ left = MaxEvents

ConsumeResult(status) ==
    LET r == consume_state_result(item, It, status, FALSE, after_downtime)
    IN /\ Room(1)
       /\ item' = r.w
       /\ told' = told
       /\ queue' = Asked(queue, r.w[It], r.calls)
       /\ after_downtime' = FALSE
       /\ UNCHANGED <<valid, enable_problem_impacts_states_change, taken,
                      in_downtime, is_flapping, open, willing, heard>>

Acknowledge(sticky) ==
    /\ Room(1)
    /\ acknowledge_problem(It, sticky)
    /\ queue' = create_notifications(queue, item[It], "ACKNOWLEDGEMENT", is_flapping)
    /\ UNCHANGED <<enable_problem_impacts_states_change, taken, envVars, heard>>

Unacknowledge ==
    /\ RemoveAcknowledgement(It)
    /\ UNCHANGED <<enable_problem_impacts_states_change, queueVars, envVars, heard>>

\* Downtime.enter, and Downtime.exit of the last downtime.
EnterDowntime ==
    /\ Room(1)
    /\ ~in_downtime
    /\ queue' = create_notifications(queue, item[It], "DOWNTIMESTART", is_flapping)
    /\ in_downtime' = TRUE
    /\ UNCHANGED <<vars, taken, after_downtime, is_flapping, open, willing, heard>>

ExitDowntime ==
    /\ Room(1)
    /\ \A id \in Live(queue) : queue.actions[id].type # "DOWNTIMESTART"  \* bound: it was told
    /\ in_downtime
    /\ in_downtime' = FALSE
    /\ after_downtime' = TRUE
    /\ queue' = create_notifications(queue, item[It], "DOWNTIMEEND", is_flapping)
    /\ UNCHANGED <<vars, taken, is_flapping, open, willing, heard>>

\* update_flapping, when the percentage crosses a threshold.
Flapping ==
    /\ Room(1)
    /\ is_flapping' = ~is_flapping
    /\ queue' = create_notifications(
                remove_in_progress_notifications(queue), item[It],
                IF is_flapping THEN "FLAPPINGSTOP" ELSE "FLAPPINGSTART",
                ~is_flapping)
    /\ UNCHANGED <<vars, taken, in_downtime, after_downtime, open,
                   willing, heard>>

Sleeping == {id \in Live(queue) : ~queue.actions[id].due}
InPoller == {id \in Live(queue) : queue.actions[id].status = "inpoller"}

\* Time reaches the t_to_go of some notifications.
Due(ids) ==
    /\ ids # {}
    /\ queue' = [queue EXCEPT !.actions =
                 [id \in ActionIds |-> IF id \in ids THEN [@[id] EXCEPT !.due = TRUE]
                                 ELSE @[id]]]
    /\ UNCHANGED <<vars, taken, envVars, heard>>

OpenOrClose ==
    /\ open' = ~open
    /\ UNCHANGED <<vars, queueVars, in_downtime, after_downtime,
                   is_flapping, willing, heard>>

\* The downtime or the period of a contact begins or ends.
ContactChanges(c) ==
    /\ willing' = IF c \in willing THEN willing \ {c} ELSE willing \cup {c}
    /\ UNCHANGED <<vars, queueVars, in_downtime, after_downtime,
                   is_flapping, open, heard>>

scatter_master_notifications ==
    LET due == {id \in ActionIds : IsDueMaster(queue, id)}
    IN /\ due # {}
       /\ Room(Cardinality(Contact))
       /\ queue' = Through([q \in Queue |-> [id \in ActionIds |-> ScatterOne(q, id)]],
                       queue, SetToSeq(due))
       /\ UNCHANGED <<vars, taken, envVars, heard>>

\* A reactionner takes the children that can be sent.
GetActions ==
    LET ready == {id \in ActionIds : /\ queue.actions[id] # Absent
                               /\ queue.actions[id].contact # Master
                               /\ queue.actions[id].status = "scheduled"
                               /\ queue.actions[id].due}
    IN /\ ready # {}
       /\ queue' = [queue EXCEPT !.actions =
                    [id \in ActionIds |-> IF id \in ready
                                    THEN [@[id] EXCEPT !.status = "inpoller"]
                                    ELSE @[id]]]
       /\ taken' = taken \cup
            {[id |-> id, type |-> queue.actions[id].type,
              contact |-> queue.actions[id].contact] : id \in ready}
       /\ UNCHANGED <<vars, envVars, heard>>

\* Mutant: the child is not removed when it was sent.
put_resultsKeeps(t) ==
    /\ taken' = taken \ {t}
    /\ UNCHANGED <<vars, queue, envVars, heard>>

\* put_results: the child was sent; the scheduler may have forgotten it.
put_results(t) ==
    /\ heard' = CASE t.type = "PROBLEM" -> heard \cup {t.contact}
                  [] t.type = "RECOVERY" -> heard \ {t.contact}
                  [] OTHER -> heard
    /\ taken' = taken \ {t}
    /\ queue' = IF queue.actions[t.id] = Absent THEN queue
            ELSE Bury(remove_in_progress_notification(queue, t.id), t.id)
    /\ UNCHANGED <<vars, envVars>>

\* A reactionner stops, and check_orphaned reenables what it held.
ReactionnerStops ==
    /\ taken # {}
    /\ taken' = {}
    /\ UNCHANGED <<vars, queue, envVars, heard>>

check_orphaned(ids) ==
    /\ ids # {}
    /\ queue' = [queue EXCEPT !.actions =
                 [id \in ActionIds |-> IF id \in ids
                                 THEN [@[id] EXCEPT !.status = "scheduled"]
                                 ELSE @[id]]]
    /\ UNCHANGED <<vars, taken, envVars, heard>>

\* clean_queues: the queue is too long, its oldest actions are dropped.
clean_queues(id) ==
    /\ id \in Live(queue)
    /\ queue' = Bury(remove_in_progress_notification(queue, id), id)
    /\ UNCHANGED <<vars, taken, envVars, heard>>

\* The scheduler restarts with the notifications_in_progress it saved.
RestartN ==
    /\ Restart
    /\ queue' = [queue EXCEPT !.actions =
                [id \in ActionIds |-> IF id \in queue.in_progress THEN @[id] ELSE Absent]]
    /\ UNCHANGED <<enable_problem_impacts_states_change, taken, envVars, heard>>

Serve ==
    \/ scatter_master_notifications
    \/ GetActions
    \/ \E t \in taken : put_results(t)
    \/ \E ids \in SUBSET Sleeping : Due(ids)
    \/ \E ids \in SUBSET InPoller : check_orphaned(ids)

Event ==
    \/ "ack" \in Kinds /\ (Unacknowledge \/ \E sticky \in BOOLEAN : Acknowledge(sticky))
    \/ "downtime" \in Kinds /\ EnterDowntime
    \/ "flapping" \in Kinds /\ Flapping
    \/ "period" \in Kinds /\ (OpenOrClose \/ \E c \in Picky : ContactChanges(c))
    \/ "crash" \in Kinds /\ ReactionnerStops
    \/ "clean" \in Kinds /\ \E id \in ActionIds : clean_queues(id)
    \/ "restart" \in Kinds /\ RestartN

NextN ==
    \/ /\ \/ \E status \in Exit[It] : ConsumeResult(status)
          \/ ExitDowntime
          \/ Serve
       /\ UNCHANGED left
    \/ left > 0 /\ Event /\ left' = left - 1

\* The recurrent works and the reactionners go on, and time passes.
Fairness ==
    /\ WF_allVars(scatter_master_notifications /\ UNCHANGED left)
    /\ WF_allVars(GetActions /\ UNCHANGED left)
    /\ \A id \in ActionIds :
        WF_allVars((\E t \in taken : t.id = id /\ put_results(t)) /\ UNCHANGED left)
    /\ WF_allVars(Due(Sleeping) /\ UNCHANGED left)
    /\ WF_allVars(check_orphaned(InPoller) /\ UNCHANGED left)

SpecN == InitN /\ [][NextN]_allVars
LiveSpecN == SpecN /\ Fairness

-----------------------------------------------------------------------------
(* Properties.                                                             *)

\* notifications_in_progress of the item and the queue of the scheduler agree:
\* what the item would remove is there and lives, and nothing that lives in the
\* queue is out of the item's reach, after results, cleaning and a restart.
InProgressIsLiveN ==
    \A id \in ActionIds :
        id \in queue.in_progress <=> queue.actions[id] # Absent

\* An item has one series of reminders: two PROBLEM masters never live together.
OneSeries ==
    \A a, b \in queue.in_progress :
        /\ queue.actions[a].contact = Master /\ queue.actions[a].type = "PROBLEM"
        /\ queue.actions[b].contact = Master /\ queue.actions[b].type = "PROBLEM"
        => a = b

\* A series of reminders ends with the problem: no PROBLEM master lives, and so
\* no contact is told anew, once a result said that the item is OK.
SeriesEnds ==
    \A id \in queue.in_progress :
        queue.actions[id].type = "PROBLEM" => item[It].state \notin Fine

InTrouble ==
    /\ item[It].state \notin Fine \cup {"PENDING"}
    /\ item[It].state_type = "HARD"
SameState == item'[It].state = item[It].state
Audible ==
    /\ open /\ ~in_downtime /\ ~is_flapping
    /\ item[It].ack = None /\ willing = Contact
SeriesLives ==
    \E id \in queue.in_progress :
        queue.actions[id].contact = Master /\ queue.actions[id].type = "PROBLEM"

IsChild(id) == id \in Live(queue) /\ queue.actions[id].contact # Master

\* A series of reminders that is not removed goes on: while the item stays
\* in one NON-OK HARD state and nothing blocks its notifications, its contacts are told
\* again and again, whatever was blocked, lost or restarted before.
Reminded ==
    <>[](InTrouble /\ Audible /\ SeriesLives) /\ <>[][SameState]_allVars
        => []<>(taken # {})

\* What a contact is to be told is sent, or withdrawn by a new result: no child
\* stays in the queue for ever, though a reactionner that held it stopped.
ChildLeaves ==
    \A id \in ActionIds : IsChild(id) ~> ~IsChild(id)

\* The notifications of an item are those it is meant to have: they live where the
\* item looks for them, in one series, that ends with the problem.
SeriesIsKept == TypeOKn /\ InProgressIsLiveN /\ OneSeries /\ SeriesEnds

\* Telling goes on: contacts are reminded, and what is for one contact goes out.
TellingGoesOn == Reminded /\ ChildLeaves
=============================================================================
