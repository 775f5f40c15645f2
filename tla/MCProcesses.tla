---------------------------- MODULE MCProcesses ----------------------------
(***************************************************************************)
(* Processes: a daemon that starts, replaces itself and stops, a plugin    *)
(* and the worker that reads it, a scheduler that pushes its work to       *)
(* passive satellites.                                                     *)
(* The components share no state.  A behaviour is one of the component     *)
(* that `topic' names; the variables x1, x2, ... are that component's.     *)
(***************************************************************************)

EXTENDS Integers, Sequences, FiniteSets, SequencesExt, TLC

CONSTANTS None

VARIABLES
    topic,      \* the component that this behaviour is one of
    \* its variables; those that it does not use are None
    x1, x2, x3, x4, x5, x6, x7, x8, x9, x10, x11, x12, x13

-----------------------------------------------------------------------------
\* A daemon starts, serves, replaces itself and stops.

\* The limit on the wait matters to a graceful switch only.
DaemonSetups ==
    {s \in [backend : {"cherrypy", "wsgiref"}, graceful : BOOLEAN, replace : BOOLEAN,
            timeout : BOOLEAN] :
        /\ s.timeout => s.graceful /\ ~s.replace
        /\ ~s.graceful => s.replace}

Dmn == INSTANCE Daemon WITH setup <- x1, pc <- x2, parent <- x3, fpid <- x4, pid <- x5,
    new_conf <- x6, conf <- x7, interrupted <- x8, path <- x9, content <- x10, port <- x11,
    raced <- x12, faults <- x13, None <- None, Pids <- {1, 2, 3}, MaxFaults <- 1,
    Setups <- DaemonSetups

-----------------------------------------------------------------------------
\* A plugin is launched, read and waited for.

PluginOf(out, err, exit) == [launch |-> "good", out |-> out, err |-> err, exit |-> exit]
BadPlugin(launch) == [launch |-> launch, out |-> <<"x">>, err |-> <<>>, exit |-> 0]

PluginCodes == {0, 2, 7, -11}
PluginBytes == {"x", "|", "b", "n"}

PluginKinds ==
    {BadPlugin(l) : l \in {"syntax", "refused", "format", "script"}}
      \cup {PluginOf(out, <<>>, 0) : out \in UNION {[1..k -> PluginBytes] : k \in 3..4}}
      \cup {PluginOf(out, err, c) : out \in {<<>>, <<"n">>, <<"x">>, <<"|", "x">>,
                                             <<"<", ">", "x", "<", ">">>},
                             err \in {<<>>, <<"x">>, <<"!">>}, c \in PluginCodes}
      \cup {PluginOf(<<"x", "|", "x", "n", "x", "n", "x", "b", "|", "|", "x", "n", "x">>,
                     <<"x", "x", "x", "x">>, 1)}

Plug == INSTANCE Plugins WITH plugin <- x1, status <- x2, shell <- x3, process <- x4,
    written <- x5,
    taken <- x6, data <- x7, result <- x8, PipeSize <- 3, MaxLength <- 12,
        Plugins <- PluginKinds
PluginRest == <<x9, x10, x11, x12, x13>>

-----------------------------------------------------------------------------
\* The scheduler and its passive satellites.

Pass == INSTANCE Passive WITH phase <- x1, next <- x2, con <- x3, close <- x4, up <- x5,
    status <- x6, given <- x7, working <- x8, wait_homerun <- x9, got <- x10, faults <- x11,
    Checks <- {"check"}, Actions <- {"mail"}, MaxGiven <- 2, MaxFaults <- 1, Pollers <- <<"p">>,
    Reactionners <- <<"q", "r">>
PassiveRest == <<x12, x13>>

-----------------------------------------------------------------------------
\* The component of this behaviour has less than k variables.
IdleFrom(k) ==
    /\ (k <= 9 => x9 = None) /\ (k <= 10 => x10 = None) /\ (k <= 11 => x11 = None)
    /\ (k <= 12 => x12 = None) /\ (k <= 13 => x13 = None)

Init ==
    \/ topic = "daemon" /\ Dmn!Init
    \/ topic = "plugins" /\ Plug!Init /\ IdleFrom(9)
    \/ topic = "passive" /\ Pass!Init /\ IdleFrom(12)

Next ==
    \/ topic = "daemon" /\ Dmn!Next /\ UNCHANGED topic
    \/ topic = "plugins" /\ Plug!Next /\ UNCHANGED <<topic, PluginRest>>
    \/ topic = "passive" /\ Pass!Next /\ UNCHANGED <<topic, PassiveRest>>

vars == <<topic, x1, x2, x3, x4, x5, x6, x7, x8, x9, x10, x11, x12, x13>>

Spec == Init /\ [][Next]_vars

\* The fairness of the components, as their own specifications state it.
LiveSpec ==
    /\ Spec
    /\ \A p \in {1, 2, 3} : WF_(Dmn!vars)(topic = "daemon" /\ Dmn!Steps(p))
    /\ \A p \in {1, 2, 3} : WF_(Dmn!vars)(topic = "daemon" /\ Dmn!write_pid(p))
    /\ \A p \in {1, 2, 3} : WF_(Dmn!vars)(topic = "daemon" /\ Dmn!TurnEnds(p))
    /\ WF_(Plug!vars)(topic = "plugins" /\ Plug!execute)
    /\ WF_(Plug!vars)(topic = "plugins" /\ Plug!Launch)
    /\ WF_(Plug!vars)(topic = "plugins" /\ Plug!PollRunning)
    /\ WF_(Plug!vars)(topic = "plugins" /\ Plug!PollExited)
    /\ WF_(Plug!vars)(topic = "plugins" /\ Plug!Exits)
    /\ \A s \in {"out", "err"} : WF_(Plug!vars)(topic = "plugins" /\ Plug!Writes(s))
    /\ WF_(Pass!vars)(topic = "passive" /\ Pass!Turn)
    /\ \A i \in {"check", "mail"} : WF_(Pass!vars)(topic = "passive" /\ Pass!check_orphaned(i))
    /\ \A p \in {"p", "q", "r"} : WF_(Pass!vars)(topic = "passive" /\ Pass!FiveSeconds(p))
    /\ \A p \in {"p", "q", "r"} : WF_(Pass!vars)(topic = "passive"
                                                 /\ Pass!manage_action_return(p))

-----------------------------------------------------------------------------
\* What is left behind by a process tells the truth: the pid file names the daemon
\* that serves (daemon.py:577), the result of a plugin holds all it wrote and says
\* how it ended badly (action.py:56), and a passive satellite's result is taken
\* once (satellite.py:482).
ProcessesTell ==
    /\ topic = "daemon" => Dmn!PidFileTells
    /\ topic = "plugins" =>
         /\ Plug!ToldAsWritten /\ Plug!TextIsKept /\ Plug!BadEndIsTold
    /\ topic = "passive" => Pass!ResultOnce

\* What runs comes to its end: a daemon that got a signal stops (daemon.py:449), a
\* plugin that ends by itself is read to its end, however much it writes
\* (action.py:180), and an action that was handed out to a passive satellite comes
\* back, if it can be handed out again as often as faults take it away
\* (scheduler.py:914).  Pids are interchangeable.
WorkEnds ==
    (\/ topic = "daemon" /\ Dmn!Signalled(1)
     \/ topic = "plugins" /\ Plug!Runs
     \/ topic = "passive" /\ Pass!HandedOut("mail"))
    ~> (\/ topic = "daemon" /\ Dmn!Gone(1)
        \/ topic = "plugins" /\ Plug!Over
        \/ topic = "passive" /\ Pass!Back("mail"))

\* What is replaced or waited for is served: a successor without a time limit on its
\* wait serves with the configuration it was handed, when nothing fails and nobody
\* starts or stops it meanwhile (daemon.py:403); an action that is due is handed out
\* while the last reactionner of the loop runs, even when the satellites before it
\* are dead (scheduler.py:863).
ServiceGoesOn ==
    (\/ topic = "daemon" /\ Dmn!Succeeding(1)
     \/ topic = "passive" /\ Pass!DueTo("mail", "r"))
    ~> (\/ topic = "daemon" /\ Dmn!Succeeded(1)
        \/ topic = "passive" /\ Pass!Served("mail", "r"))

\* Both, of every process.
WorkGoesOn == WorkEnds /\ ServiceGoesOn
=============================================================================
