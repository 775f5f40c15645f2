------------------------------- MODULE Passive -------------------------------
(***************************************************************************)
(* Satellites that cannot connect to their scheduler (passive): in each    *)
(* turn the scheduler gives them what is to do and asks them for what is   *)
(* done (scheduler.py:783-992, satellite.py: ISchedulers, get_returns).    *)
(*                                                                         *)
(* A call is served or not, and its answer comes or not.  Checks go to     *)
(* pollers, actions (notifications, event handlers) to reactionners.  What *)
(* is handed out is told apart by a number, as in the module Polling.      *)
(***************************************************************************)
EXTENDS Integers, Sequences, FiniteSets

CONSTANTS
    Pollers, Reactionners,  \* sequences of passive satellites, in the order of the loops
    Checks, Actions,        \* what is to do
    MaxGiven,               \* bound: how often one of them is handed out
    MaxFaults               \* bound: deaths and failed calls

VARIABLES
    phase, next,     \* which of the two loops of a turn, and the satellite it is at
    con,             \* links that have a connection
    close,           \* links that were tried less than 5 seconds ago
    up,              \* satellites that run
    status,          \* scheduled, inpoller or received
    given,           \* how often each was handed out
    working,         \* copies in the queues and workers of a satellite
    wait_homerun,    \* copies that are done
    got,             \* how often the scheduler got a copy
    faults

turnVars == <<phase, next>>
vars == <<turnVars, con, close, up, status, given, working, wait_homerun, got, faults>>

Range2(s) == {s[k] : k \in DOMAIN s}
Satellites == Range2(Pollers) \cup Range2(Reactionners)
Loop == Pollers \o Reactionners
Things == Checks \cup Actions
For(p) == IF p \in Range2(Pollers) THEN Checks ELSE Actions
Copies == Things \X (1..MaxGiven)
Underway == UNION {working[p] \cup wait_homerun[p] : p \in Satellites}

At(f, p) == phase = f /\ next <= Len(Loop) /\ Loop[next] = p
Advance == next' = next + 1 /\ UNCHANGED phase
EndLoop == next' = Len(Loop) + 1 /\ UNCHANGED phase
Fault == faults < MaxFaults /\ faults' = faults + 1

-----------------------------------------------------------------------------
(* The scheduler.                                                          *)

\* A link is tried every 5 seconds, with a ping.
pynag_con_init(p) ==
    /\ IF p \in close THEN UNCHANGED <<con, close>>
       ELSE /\ con' = IF p \in up THEN con \cup {p} ELSE con \ {p}
            /\ close' = close \cup {p}

Reconnect(p) ==
    /\ At("push", p) \/ At("get", p)
    /\ p \notin con
    /\ pynag_con_init(p)
    /\ Advance
    /\ UNCHANGED <<up, status, given, working, wait_homerun, got, faults>>

\* get_to_run_checks: what is due is marked before it is sent.
Due(p) == {i \in For(p) : status[i] = "scheduled" /\ given[i] < MaxGiven}
HandOut(p) ==
    /\ status' = [i \in Things |-> IF i \in Due(p) THEN "inpoller" ELSE status[i]]
    /\ given' = [i \in Things |-> IF i \in Due(p) THEN given[i] + 1 ELSE given[i]]
Sent(p) == {<<i, given[i] + 1>> : i \in Due(p)}

\* push_actions of a satellite: all that comes goes to a queue.
add_actions(p) == working' = [working EXCEPT ![p] = @ \cup Sent(p)]

push_actions_to_passives_satellites(p) ==
    /\ At("push", p) /\ p \in con /\ p \in up
    /\ HandOut(p)
    /\ add_actions(p)
    /\ Advance
    /\ UNCHANGED <<con, close, up, wait_homerun, got, faults>>

\* A call that fails ends the loop; the satellite may have what was sent.
PushFails(p) ==
    /\ At("push", p) /\ p \in con
    /\ HandOut(p)
    /\ \/ p \notin up /\ UNCHANGED <<working, faults>>
       \/ p \in up /\ Fault /\ UNCHANGED working
       \/ p \in up /\ Fault /\ add_actions(p)
    /\ con' = con \ {p}
    /\ EndLoop
    /\ UNCHANGED <<close, up, wait_homerun, got>>

\* A satellite forgets its results when it answers.
get_return_for_passive(p) == wait_homerun' = [wait_homerun EXCEPT ![p] = {}]

\* The answer of a poller is read with a function that does not exist, and the error is
\* taken for one of the answer; a reactionner's results are for consume_results.
get_actions_from_passives_satellites(p) ==
    /\ At("get", p) /\ p \in con /\ p \in up
    /\ get_return_for_passive(p)
    /\ IF p \in Range2(Pollers) THEN UNCHANGED <<got, status>>
       ELSE /\ got' = [c \in Copies |-> IF c \in wait_homerun[p] THEN got[c] + 1 ELSE got[c]]
            /\ status' = [i \in Things |-> IF \E n \in 1..MaxGiven : <<i, n>> \in wait_homerun[p]
                                           THEN "received" ELSE status[i]]
    /\ Advance
    /\ UNCHANGED <<con, close, up, given, working, faults>>

\* A call that fails: after a poller the loop goes on, after a reactionner it ends.
GetFails(p) ==
    /\ At("get", p) /\ p \in con
    /\ \/ p \notin up /\ UNCHANGED <<wait_homerun, faults>>
       \/ p \in up /\ Fault /\ UNCHANGED wait_homerun
       \/ p \in up /\ Fault /\ get_return_for_passive(p)
    /\ con' = con \ {p}
    /\ IF p \in Range2(Pollers) THEN Advance ELSE EndLoop
    /\ UNCHANGED <<close, up, status, given, working, got>>

\* The turn goes on with the other loop.
NextLoop ==
    /\ next > Len(Loop)
    /\ phase' = IF phase = "push" THEN "get" ELSE "push"
    /\ next' = 1
    /\ UNCHANGED <<con, close, up, status, given, working, wait_homerun, got, faults>>

\* What nobody has any more is offered again after an hour (the module Polling has the
\* case where somebody still has it).
check_orphaned(i) ==
    /\ status[i] = "inpoller" /\ given[i] < MaxGiven
    /\ \A n \in 1..MaxGiven : <<i, n>> \notin Underway
    /\ status' = [status EXCEPT ![i] = "scheduled"]
    /\ UNCHANGED <<turnVars, con, close, up, given, working, wait_homerun, got, faults>>

FiveSeconds(p) ==
    /\ p \in close
    /\ close' = close \ {p}
    /\ UNCHANGED <<turnVars, con, up, status, given, working, wait_homerun, got, faults>>

-----------------------------------------------------------------------------
(* The satellites.                                                         *)

\* A worker is done with a copy, and manage_action_return files it with its scheduler.
manage_action_return(p) ==
    \E c \in working[p] :
        /\ p \in up
        /\ working' = [working EXCEPT ![p] = @ \ {c}]
        /\ wait_homerun' = [wait_homerun EXCEPT ![p] = @ \cup {c}]
        /\ UNCHANGED <<turnVars, con, close, up, status, given, got, faults>>

Dies(p) ==
    /\ p \in up
    /\ Fault
    /\ up' = up \ {p}
    /\ working' = [working EXCEPT ![p] = {}]
    /\ wait_homerun' = [wait_homerun EXCEPT ![p] = {}]
    /\ UNCHANGED <<turnVars, con, close, status, given, got>>

Starts(p) ==
    /\ p \notin up
    /\ up' = up \cup {p}
    /\ UNCHANGED <<turnVars, con, close, status, given, working, wait_homerun, got, faults>>

-----------------------------------------------------------------------------
\* run: every link is tried once before the loop.
Init ==
    /\ phase = "push" /\ next = 1
    /\ up \in SUBSET Satellites
    /\ con = up
    /\ close = Satellites
    /\ status = [i \in Things |-> "scheduled"]
    /\ given = [i \in Things |-> 0]
    /\ working = [p \in Satellites |-> {}]
    /\ wait_homerun = [p \in Satellites |-> {}]
    /\ got = [c \in Copies |-> 0]
    /\ faults = 0

Turn ==
    \/ NextLoop
    \/ \E p \in Satellites :
        \/ Reconnect(p)
        \/ push_actions_to_passives_satellites(p)
        \/ PushFails(p)
        \/ get_actions_from_passives_satellites(p)
        \/ GetFails(p)

Next ==
    \/ Turn
    \/ \E i \in Things : check_orphaned(i)
    \/ \E p \in Satellites : FiveSeconds(p) \/ manage_action_return(p) \/ Dies(p) \/ Starts(p)

\* The scheduler's loop, its orphan check, the clock and the workers go on.
Spec == Init /\ [][Next]_vars
LiveSpec ==
    /\ Spec
    /\ WF_vars(Turn)
    /\ \A i \in Things : WF_vars(check_orphaned(i))
    /\ \A p \in Satellites : WF_vars(FiveSeconds(p)) /\ WF_vars(manage_action_return(p))

-----------------------------------------------------------------------------
\* A result comes to the scheduler at most once, whatever call fails (satellite.py:482).
ResultOnce == \A c \in Copies : got[c] <= 1

\* An action that is due is handed out while a reactionner runs, even when the
\* satellites before it in the loop are dead (scheduler.py:863).
DueTo(i, p) == status[i] = "scheduled" /\ p \in up /\ given[i] < MaxGiven
Served(i, p) == status[i] # "scheduled" \/ p \notin up

\* An action that is handed out comes back, if it can be handed out again as
\* often as faults take it away, and some reactionner runs (scheduler.py:914).
HandedOut(i) == status[i] = "inpoller"
Back(i) ==
    \/ status[i] = "received"
    \/ given[i] = MaxGiven /\ faults > 0
    \/ up \cap Range2(Reactionners) = {}

=============================================================================
