------------------------------- MODULE Arbiter -------------------------------
(***************************************************************************)
(* The main loop of the arbiter (arbiterdaemon.py) with its spare, which   *)
(* takes the lead when the master has been silent too long, and the way of *)
(* external commands: from the modules of the arbiter or from a receiver   *)
(* (receiverdaemon.py), resolved to the schedulers that have the host      *)
(* (external_command.py) and sent to them.  How parts are assigned is in   *)
(* Dispatcher, what a command does in Commands.                            *)
(***************************************************************************)
EXTENDS Integers, Sequences, FiniteSets, SequencesExt, Lists

CONSTANTS
    Schedulers,
    PartSeq,        \* the parts of the configuration, in the order of the dictionaries
    Plans,          \* what behaviours are about: [direct, cmds] with direct_routing of
                    \* the receiver and a sequence of commands [to, by], to the part
                    \* that has the host, "all", "unknown", "group" or "internal",
                    \* by "module" (of the arbiter) or "receiver"
    FirstAssigned,  \* the first scheduler of each part
    MasterTimeout,  \* check_interval * max_check_attempts of the master's link
    MaxFaults,      \* bound on the faults of a behaviour
    None

Parts == ToSet(PartSeq)
Elsewhere == {"all", "unknown", "group", "internal"}
Command == [to: Parts \cup Elsewhere, by: {"module", "receiver"}]
Arbs == {"master", "spare"}

ASSUME ConstantsAssumption ==
    /\ None \notin Schedulers
    /\ PartSeq \in Seq(Parts) /\ Parts \cap Elsewhere = {}
    /\ FirstAssigned \in [Parts -> Schedulers]
    /\ \A x \in Plans : x.direct \in BOOLEAN /\ x.cmds \in Seq(Command)
    /\ MasterTimeout \in Nat /\ MaxFaults \in Nat

VARIABLES
    mode,       \* of each arbiter: "down", "waiting" for its master, "running"
    pc,         \* where in its loop a running arbiter is
    must_run,   \* of the spare
    silence,    \* seconds since last_master_speack
    cut,        \* the network between the arbiters is cut
    from_q,     \* commands the modules of the master have put in their queues
    q,          \* external_commands of each arbiter
    broks,      \* each arbiter has broks for the broker
    brokerUp,   \* the broker answers
    brokerAlive,\* what the link of the broker says
    up,         \* the schedulers that answer
    alive,      \* what the links of the schedulers say
    assigned,   \* the scheduler of each part
    rq,         \* unprocessed_external_commands of the receiver
    back,       \* external_commands of the receiver, for the arbiter
    pack,       \* external_commands the receiver holds for each part
    addr,       \* the scheduler each part has for the receiver
    con,        \* the parts to whose scheduler the receiver is connected
    todo,       \* the parts whose commands it has still to send in this turn
    done,       \* history: the commands each scheduler ran, in order
    again,      \* history: the commands whose answer to the receiver was lost
    plan,       \* the commands of this behaviour
    direct_routing, \* the receiver sends to the schedulers itself
    given,      \* commands given so far
    faults

arbVars == <<mode, pc, must_run, silence, cut>>
brokVars == <<broks, brokerUp, brokerAlive>>
schedVars == <<up, alive, assigned>>
recvVars == <<rq, back, pack, addr, con, todo, again, direct_routing>>
vars == <<arbVars, from_q, q, brokVars, schedVars, recvVars, done, plan, given, faults>>

Cmds == 1..Len(plan)
Target(c) == plan[c].to
Entry(c) == plan[c].by

Init ==
    /\ mode = [a \in Arbs |-> IF a = "master" THEN "running" ELSE "waiting"]
    /\ pc = [a \in Arbs |-> "handle"]
    /\ must_run = TRUE /\ silence = 0 /\ cut = FALSE
    /\ from_q = <<>> /\ q = [a \in Arbs |-> <<>>]
    /\ broks = [a \in Arbs |-> FALSE] /\ brokerUp = TRUE /\ brokerAlive = TRUE
    /\ up = Schedulers /\ alive = Schedulers
    /\ assigned = FirstAssigned
    /\ rq = <<>> /\ back = <<>> /\ pack = [p \in Parts |-> <<>>]
    /\ addr = assigned /\ con = Parts /\ todo = <<>> /\ again = {}
    /\ done = [s \in Schedulers |-> <<>>]
    /\ \E x \in Plans : plan = x.cmds /\ direct_routing = x.direct
    /\ given = 0 /\ faults = MaxFaults

Fault == faults > 0 /\ faults' = faults - 1

-----------------------------------------------------------------------------
(* Schedulers run the commands for the hosts they have.                    *)

\* A command for a host the scheduler does not have is logged and ignored, an
\* unknown group too.
run_external_commands(s, cmds) ==
    Filter(cmds, {c \in Cmds : \/ Target(c) \in {"all", "group"}
                               \/ Target(c) \in Parts /\ assigned[Target(c)] = s})

\* Someone gives the next command, to a module of the master or to the receiver.
Give ==
    /\ given < Len(plan)
    /\ given' = given + 1
    /\ IF Entry(given') = "module"
       THEN mode["master"] # "down" /\ from_q' = Append(from_q, given') /\ UNCHANGED rq
       ELSE rq' = Append(rq, given') /\ UNCHANGED from_q
    /\ UNCHANGED <<arbVars, q, brokVars, schedVars, back, pack, addr, con, todo,
                   again, direct_routing, done, plan, faults>>

-----------------------------------------------------------------------------
(* The turn of a running arbiter.                                          *)

At(a, l) == mode[a] = "running" /\ pc[a] = l

Goto(a, l) == pc' = [pc EXCEPT ![a] = l]

\* The head of the loop: a spare that must not run any more returns to waiting.
handleRequests(a) ==
    /\ At(a, "handle")
    /\ IF a = "spare" /\ ~must_run
       THEN /\ mode' = [mode EXCEPT ![a] = "waiting"] /\ silence' = 0
            /\ UNCHANGED pc
       ELSE Goto(a, "dispatch") /\ UNCHANGED <<mode, silence>>
    /\ UNCHANGED <<must_run, cut, from_q, q, brokVars, schedVars, recvVars,
                   done, plan, given, faults>>

\* Mutant: the master reminds its spare only when it gives it a configuration.
check_dispatchSilent(a) ==
    /\ At(a, "dispatch") /\ Goto(a, "objects")
    /\ brokerAlive' = brokerUp /\ alive' = up
    /\ assigned' \in [Parts -> Schedulers \cup {None}]
    /\ \A p \in Parts : IF assigned[p] \in up THEN assigned'[p] = assigned[p]
                        ELSE assigned'[p] \in up \cup IF up = {} THEN {None} ELSE {}
    /\ UNCHANGED <<must_run, silence, mode, cut, from_q, q, broks, brokerUp,
                   up, recvVars, done, plan, given, faults>>

\* check_alive, check_dispatch and dispatch: the links follow the daemons, a part
\* whose scheduler is dead gets another, and the master tells the spare not to run.
check_dispatch(a) ==
    /\ At(a, "dispatch") /\ Goto(a, "objects")
    /\ brokerAlive' = brokerUp /\ alive' = up
    /\ assigned' \in [Parts -> Schedulers \cup {None}]
    /\ \A p \in Parts : IF assigned[p] \in up THEN assigned'[p] = assigned[p]
                        ELSE assigned'[p] \in up \cup IF up = {} THEN {None} ELSE {}
    /\ IF a = "master" /\ ~cut
       THEN must_run' = FALSE /\ silence' = 0
       ELSE UNCHANGED <<must_run, silence>>
    /\ UNCHANGED <<mode, cut, from_q, q, broks, brokerUp, up, recvVars, done,
                   plan, given, faults>>

\* The commands and broks of the modules, and the broks of the links.
get_objects_from_from_queues(a) ==
    /\ At(a, "objects") /\ Goto(a, "broks")
    /\ IF a = "master"
       THEN q' = [q EXCEPT ![a] = @ \o from_q] /\ from_q' = <<>>
       ELSE UNCHANGED <<q, from_q>>
    /\ broks' = [broks EXCEPT ![a] = TRUE]
    /\ UNCHANGED <<mode, must_run, silence, cut, brokerUp, brokerAlive,
                   schedVars, recvVars, done, plan, given, faults>>

\* The loop goes on while there are broks for a broker that was alive when it
\* began: a refused batch is sent again at once.
push_broks_to_broker(a) ==
    /\ At(a, "broks")
    /\ IF broks[a] /\ brokerAlive
       THEN brokerUp /\ broks' = [broks EXCEPT ![a] = FALSE] /\ UNCHANGED pc
       ELSE Goto(a, "satellites") /\ UNCHANGED broks
    /\ UNCHANGED <<mode, must_run, silence, cut, from_q, q, brokerUp,
                   brokerAlive, schedVars, recvVars, done, plan, given,
                   faults>>

\* What the link returns of the commands it took from the satellite: it looks at
\* a variable that does not exist, and its last handler returns an empty list.
Returned(cmds) == <<>>

get_external_commands_from_satellites(a) ==
    /\ At(a, "satellites") /\ Goto(a, "push")
    /\ q' = [q EXCEPT ![a] = @ \o Returned(back)]
    /\ back' = <<>>
    /\ UNCHANGED <<mode, must_run, silence, cut, from_q, brokVars, schedVars,
                   rq, pack, addr, con, todo, again, direct_routing, done, plan,
                   given, faults>>

\* The commands that resolve_command appends to the list of a scheduler: a global
\* one for each scheduler alive, one about a host for the scheduler of its part.
\* Internal ones are carried out by the arbiter itself.
search_host_and_dispatch(s, cmds) ==
    Filter(cmds, {c \in Cmds :
        \/ Target(c) \in {"all", "group"} /\ s \in alive
        \/ Target(c) \in Parts /\ assigned[Target(c)] = s})

\* Every list is emptied, whether its scheduler took the commands or not.
push_external_commands_to_schedulers(a) ==
    /\ At(a, "push") /\ Goto(a, "handle")
    /\ done' = [s \in Schedulers |->
                  IF s \in alive \cap up
                  THEN done[s] \o
                         run_external_commands(s, search_host_and_dispatch(s, q[a]))
                  ELSE done[s]]
    /\ q' = [q EXCEPT ![a] = <<>>]
    /\ UNCHANGED <<mode, must_run, silence, cut, from_q, brokVars, schedVars,
                   recvVars, plan, given, faults>>

-----------------------------------------------------------------------------
(* The spare.                                                              *)

Second ==
    /\ mode["spare"] = "waiting" /\ pc["spare"] = "handle" /\ silence <= MasterTimeout
    /\ silence' = silence + 1
    /\ UNCHANGED <<mode, pc, must_run, cut, from_q, q, brokVars, schedVars,
                   recvVars, done, plan, given, faults>>

\* wait_for_master_death finds that the master was silent too long ...
wait_for_master_death ==
    /\ mode["spare"] = "waiting" /\ pc["spare"] = "handle"
    /\ silence > MasterTimeout
    /\ Goto("spare", "expired")
    /\ UNCHANGED <<mode, must_run, silence, cut, from_q, q, brokVars,
                   schedVars, recvVars, done, plan, given, faults>>

\* ... and takes the lead; a do_not_run that came in between is overwritten.
TakeLead ==
    /\ mode["spare"] = "waiting" /\ pc["spare"] = "expired"
    /\ must_run' = TRUE
    /\ mode' = [mode EXCEPT !["spare"] = "running"] /\ Goto("spare", "handle")
    /\ UNCHANGED <<silence, cut, from_q, q, brokVars, schedVars, recvVars,
                   done, plan, given, faults>>

-----------------------------------------------------------------------------
(* The receiver.                                                           *)

\* A new configuration, between two turns: a part whose scheduler moved starts with
\* no commands and no connection.
setup_new_conf(p) ==
    /\ todo = <<>> /\ assigned[p] # None /\ addr[p] # assigned[p]
    /\ addr' = [addr EXCEPT ![p] = assigned[p]]
    /\ pack' = [pack EXCEPT ![p] = <<>>]
    /\ con' = IF assigned[p] \in up THEN con \cup {p} ELSE con \ {p}
    /\ UNCHANGED <<arbVars, from_q, q, brokVars, schedVars, rq, back, todo, again,
                   direct_routing, done, plan, given, faults>>

\* Without direct routing the commands wait for the arbiter.
ForTheArbiter ==
    /\ ~direct_routing /\ rq # <<>>
    /\ back' = back \o rq /\ rq' = <<>>
    /\ UNCHANGED <<arbVars, from_q, q, brokVars, schedVars, pack, addr, con, todo,
                   again, direct_routing, done, plan, given, faults>>

\* A turn with direct routing; one that would change nothing is left out.
TurnBegins ==
    /\ direct_routing /\ todo = <<>>
    /\ rq # <<>> \/ \E p \in Parts : pack[p] # <<>> \/ (p \notin con /\ addr[p] \in up)

ForPart(p) == Filter(rq, {c \in Cmds : Target(c) = p})

\* Mutant: new commands go in front of those that could not be sent.
resolve_commandInFront ==
    /\ TurnBegins /\ \A c \in ToSet(rq) : Target(c) # "group"
    /\ pack' = [p \in Parts |-> ForPart(p) \o pack[p]]
    /\ rq' = <<>> /\ todo' = PartSeq
    /\ UNCHANGED <<arbVars, from_q, q, brokVars, schedVars, back, addr, con,
                   again, direct_routing, done, plan, given, faults>>

\* A turn begins: resolve_command in a receiver goes by the host name; a global
\* command ends there.  (Every host name was pushed with the configuration.)
resolve_command ==
    /\ TurnBegins /\ \A c \in ToSet(rq) : Target(c) # "group"
    /\ pack' = [p \in Parts |-> pack[p] \o ForPart(p)]
    /\ rq' = <<>> /\ todo' = PartSeq
    /\ UNCHANGED <<arbVars, from_q, q, brokVars, schedVars, back, addr, con,
                   again, direct_routing, done, plan, given, faults>>

\* A receiver knows no groups: the search for one raises an exception that
\* ends the daemon.
ReceiverDies ==
    /\ TurnBegins /\ \E c \in ToSet(rq) : Target(c) = "group"
    /\ rq' = <<>> /\ back' = <<>> /\ pack' = [p \in Parts |-> <<>>] /\ con' = {}
    /\ UNCHANGED <<arbVars, from_q, q, brokVars, schedVars, addr, todo, again,
                   direct_routing, done, plan, given, faults>>

\* push_external_commands_to_schedulers of the receiver, one part after the other.
SendTo(p) == todo # <<>> /\ p = Head(todo)

\* There is no connection, and none is made: the commands are left to the arbiter.
NotConnected(p) ==
    /\ SendTo(p) /\ addr[p] \notin up /\ p \notin con
    /\ back' = back \o pack[p] /\ pack' = [pack EXCEPT ![p] = <<>>]
    /\ todo' = Tail(todo)
    /\ UNCHANGED <<arbVars, from_q, q, brokVars, schedVars, rq, addr, con, again,
                   direct_routing, done, plan, given, faults>>

\* Mutant: a part without commands ends the loop.
NothingToSendReturns(p) ==
    /\ SendTo(p) /\ (addr[p] \in up \/ p \in con) /\ pack[p] = <<>>
    /\ con' = con \cup {p} /\ todo' = <<>>
    /\ UNCHANGED <<arbVars, from_q, q, brokVars, schedVars, rq, back, pack, addr,
                   again, direct_routing, done, plan, given, faults>>

NothingToSend(p) ==
    /\ SendTo(p) /\ (addr[p] \in up \/ p \in con) /\ pack[p] = <<>>
    /\ con' = con \cup {p} /\ todo' = Tail(todo)
    /\ UNCHANGED <<arbVars, from_q, q, brokVars, schedVars, rq, back, pack, addr,
                   again, direct_routing, done, plan, given, faults>>

\* The scheduler runs the commands.  When its answer is lost, they are kept, and the
\* loop over the parts ends.
Sent(p, answered) ==
    /\ SendTo(p) /\ addr[p] \in up /\ pack[p] # <<>>
    /\ done' = [done EXCEPT ![addr[p]] = @ \o run_external_commands(addr[p], pack[p])]
    /\ con' = con \cup {p}
    /\ IF answered
       THEN pack' = [pack EXCEPT ![p] = <<>>] /\ todo' = Tail(todo) /\ UNCHANGED <<again, faults>>
       ELSE Fault /\ again' = again \cup ToSet(pack[p]) /\ todo' = <<>> /\ UNCHANGED pack
    /\ UNCHANGED <<arbVars, from_q, q, brokVars, schedVars, rq, back, addr,
                   direct_routing, plan, given>>

\* The call does not get there: they are kept too, and the connection is gone.
CallFails(p) ==
    /\ SendTo(p) /\ addr[p] \notin up /\ p \in con /\ pack[p] # <<>>
    /\ con' = con \ {p} /\ todo' = <<>>
    /\ UNCHANGED <<arbVars, from_q, q, brokVars, schedVars, rq, back, pack, addr, again,
                   direct_routing, done, plan, given, faults>>

-----------------------------------------------------------------------------
(* Faults.                                                                 *)

MasterCrash ==
    /\ Fault /\ mode["master"] = "running"
    /\ mode' = [mode EXCEPT !["master"] = "down"]
    /\ from_q' = <<>> /\ q' = [q EXCEPT !["master"] = <<>>]
    /\ broks' = [broks EXCEPT !["master"] = FALSE]
    /\ UNCHANGED <<pc, must_run, silence, cut, brokerUp, brokerAlive,
                   schedVars, recvVars, done, plan, given>>

MasterRestart ==
    /\ mode["master"] = "down"
    /\ mode' = [mode EXCEPT !["master"] = "running"]
    /\ pc' = [pc EXCEPT !["master"] = "dispatch"]
    /\ UNCHANGED <<must_run, silence, cut, from_q, q, brokVars, schedVars,
                   recvVars, done, plan, given, faults>>

\* The network between the arbiters, the broker or a scheduler fails ...
Breaks ==
    /\ Fault
    /\ \/ ~cut /\ cut' = TRUE /\ UNCHANGED <<brokerUp, up>>
       \/ brokerUp /\ brokerUp' = FALSE /\ UNCHANGED <<cut, up>>
       \/ \E s \in up : up' = up \ {s} /\ UNCHANGED <<cut, brokerUp>>
    /\ UNCHANGED <<mode, pc, must_run, silence, from_q, q, broks, brokerAlive,
                   alive, assigned, recvVars, done, plan, given>>

\* ... and comes back.
Repaired ==
    /\ \/ cut /\ cut' = FALSE /\ UNCHANGED <<brokerUp, up>>
       \/ ~brokerUp /\ brokerUp' = TRUE /\ UNCHANGED <<cut, up>>
       \/ \E s \in Schedulers \ up : up' = up \cup {s} /\ UNCHANGED <<cut, brokerUp>>
    /\ UNCHANGED <<mode, pc, must_run, silence, from_q, q, broks, brokerAlive,
                   alive, assigned, recvVars, done, plan, given, faults>>

Turn(a) ==
    \/ handleRequests(a) \/ check_dispatch(a) \/ get_objects_from_from_queues(a)
    \/ push_broks_to_broker(a) \/ get_external_commands_from_satellites(a)
    \/ push_external_commands_to_schedulers(a)

Waiting == Second \/ wait_for_master_death \/ TakeLead

Receiver ==
    \/ ForTheArbiter \/ resolve_command \/ ReceiverDies
    \/ \E p \in Parts :
          \/ setup_new_conf(p) \/ NotConnected(p) \/ NothingToSend(p) \/ CallFails(p)
          \/ \E answered \in BOOLEAN : Sent(p, answered)

Next ==
    \/ Give \/ \E a \in Arbs : Turn(a)
    \/ Waiting \/ Receiver
    \/ MasterCrash \/ MasterRestart \/ Breaks \/ Repaired

\* Running daemons go on, and time passes; nothing says that what failed comes back.
Fairness ==
    /\ WF_vars(Turn("master")) /\ WF_vars(Turn("spare"))
    /\ WF_vars(Waiting) /\ WF_vars(Receiver)

Spec == Init /\ [][Next]_vars
LiveSpec == Spec /\ Fairness

-----------------------------------------------------------------------------
(* Properties.                                                             *)

CmdSeq == Seq(Cmds)

\* Every variable stays in its domain.
TypeOK ==
    /\ mode \in [Arbs -> {"down", "waiting", "running"}]
    /\ pc \in [Arbs -> {"handle", "dispatch", "objects", "broks", "satellites", "push",
                        "expired"}]
    /\ must_run \in BOOLEAN /\ silence \in 0..MasterTimeout + 1 /\ cut \in BOOLEAN
    /\ from_q \in CmdSeq /\ q \in [Arbs -> CmdSeq]
    /\ broks \in [Arbs -> BOOLEAN] /\ brokerUp \in BOOLEAN /\ brokerAlive \in BOOLEAN
    /\ up \subseteq Schedulers /\ alive \subseteq Schedulers
    /\ assigned \in [Parts -> Schedulers \cup {None}]
    /\ rq \in CmdSeq /\ back \in CmdSeq /\ pack \in [Parts -> CmdSeq]
    /\ addr \in [Parts -> Schedulers \cup {None}] /\ con \subseteq Parts /\ todo \in Seq(Parts)
    /\ done \in [Schedulers -> CmdSeq] /\ again \subseteq Cmds
    /\ plan \in Seq(Command) /\ direct_routing \in BOOLEAN
    /\ given \in 0..Len(plan) /\ faults \in 0..MaxFaults

\* A scheduler runs the commands for a host that came by the same way in the
\* order they were given: a later one is never undone by an earlier one, except when the answer
\* to the receiver was lost and its commands are run again.
InOrder ==
    \A s \in Schedulers : \A m, n \in DOMAIN done[s] :
        /\ m < n /\ plan[done[s][m]] = plan[done[s][n]]
        /\ done[s][m] \notin again
        => done[s][m] <= done[s][n]

\* No command about one host is run twice, by one scheduler or by two, whatever
\* crashes and moves: only a receiver whose answer was lost repeats one.
AtMostOnce ==
    \A s, t \in Schedulers : \A m \in DOMAIN done[s], n \in DOMAIN done[t] :
        /\ done[s][m] = done[t][n]
        /\ Target(done[s][m]) \in Parts /\ done[s][m] \notin again
        => s = t /\ m = n

\* When the master is down for good, the spare takes the lead.
SpareTakesOver ==
    <>[](mode["master"] = "down") => <>[](mode["spare"] = "running")

\* A spare that leads gives the lead back, if the master it can hear keeps
\* running and neither of them hangs on a broker that refuses its broks.
StepsDown ==
    <>[](mode["master"] = "running" /\ ~cut /\ brokerUp)
        => []<>(mode["spare"] = "waiting")

\* A running arbiter finishes its turn as long as the broker comes back.
TurnEnds ==
    \A a \in Arbs : []<>brokerUp /\ <>[](mode[a] = "running") => []<>At(a, "push")

\* A command that reached a directly routing receiver is run or leaves it, also
\* when the loop over the parts ends at another part whose scheduler fails.
LeavesReceiver ==
    (rq # <<>> \/ \E p \in Parts : pack[p] # <<>>)
        ~> (rq = <<>> /\ \A p \in Parts : pack[p] = <<>>)

\* Commands about a host are run in their order and not twice.
RunOnceInOrder == TypeOK /\ InOrder /\ AtMostOnce

\* There is an arbiter that leads, and the spare gives the lead back.
LeadIsSettled == SpareTakesOver /\ StepsDown

\* Neither the arbiter's loop nor the receiver keeps what it has in hand for ever.
ArbiterGoesOn == TurnEnds /\ LeavesReceiver
=============================================================================
