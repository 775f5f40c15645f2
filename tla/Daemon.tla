------------------------------- MODULE Daemon -------------------------------
(***************************************************************************)
(* The life of the processes of one daemon (daemon.py, and main of         *)
(* satellite.py): the start with its pid file and its port, the http       *)
(* thread, the signals, the stop, and the graceful switch, where a daemon  *)
(* that gets a new configuration starts its successor and hands it over.   *)
(*                                                                         *)
(* The pid file is a path to a file, and a process keeps the file it       *)
(* opened: what is written to a file that was unlinked is lost.            *)
(* The cherrypy backend takes the port in its thread, the wsgiref backend  *)
(* when the daemon is set up.                                              *)
(***************************************************************************)
EXTENDS Integers, FiniteSets

CONSTANTS
    Pids,       \* process ids
    Setups,     \* [backend, graceful, replace : do the starts replace, timeout : is there a graceful_timeout]
    None,
    MaxFaults   \* bound on the processes that die and the calls that fail

VARIABLES
    setup,
    pc,         \* what each process does
    parent,     \* the process that a successor waits for
    fpid,       \* the file that a process has open as its pid file
    pid,        \* whether the pid of a process is written: no, due, written, never
    new_conf,   \* the processes that have a configuration to take
    conf,       \* the processes that run a configuration
    interrupted,
    path,       \* the file under the name of the pid file, 0 for none
    content,    \* the pid in each file
    port,       \* the process that listens
    raced,      \* history: a stop or a switch fell into a start
    faults

vars == <<setup, pc, parent, fpid, pid, new_conf, conf, interrupted, path, content, port, raced, faults>>

Files == 1..(Cardinality(Pids) + 1)
Alive(p) == pc[p] \notin {"none", "dead"}
Starting(p) == pc[p] \in {"waiting", "start", "opened", "replaces", "ready", "bound", "daemon"} \/ pid[p] = "due"

\* A start that is not the one of a successor is under way.
Overlaps == \E p \in Pids \ new_conf : Starting(p)

\* __open_pidfile: the file that is there, or else one that nobody has; w+ empties it.
Opens(p, write) ==
    \E f \in Files :
        /\ IF path # 0 THEN f = path
           ELSE f = CHOOSE g \in Files : \A q \in Pids : fpid[q] # g
        /\ fpid' = [fpid EXCEPT ![p] = f]
        /\ path' = f
        /\ content' = IF write \/ path = 0 THEN [content EXCEPT ![f] = None] ELSE content

\* The end of processes: the system closes what they have.
Dies(S) ==
    /\ pc' = [p \in Pids |-> IF p \in S THEN "dead" ELSE pc[p]]
    /\ fpid' = [p \in Pids |-> IF p \in S /\ pid[p] # "due" THEN 0 ELSE fpid[p]]
    /\ port' = IF port \in S THEN None ELSE port
    /\ new_conf' = new_conf \ S
    /\ conf' = conf \ S
    /\ interrupted' = interrupted \ S

-----------------------------------------------------------------------------
(* The start.                                                              *)

\* Init scripts start a daemon when no other start is under way.
Start(p) ==
    /\ pc[p] = "none"
    /\ \A q \in Pids : ~Starting(q) /\ (Alive(q) => q \notin new_conf)
    /\ pc' = [pc EXCEPT ![p] = "start"]
    /\ UNCHANGED <<setup, parent, fpid, pid, new_conf, conf, interrupted, path,
                   content, port, raced, faults>>

\* Mutant: the successor does not wait.
wait_parent_exitNot(p) ==
    /\ pc[p] = "waiting"
    /\ pc' = [pc EXCEPT ![p] = "start"]
    /\ UNCHANGED <<setup, parent, fpid, pid, new_conf, conf, interrupted, path,
                   content, port, raced, faults>>

\* A successor waits until nobody listens on the port, or for graceful_timeout, which is long
\* enough for its parent to begin its stop.
wait_parent_exit(p) ==
    /\ pc[p] = "waiting"
    /\ port = None \/ (setup.timeout /\ pc[parent[p]] \in {"stops", "dead"})
    /\ pc' = [pc EXCEPT ![p] = "start"]
    /\ UNCHANGED <<setup, parent, fpid, pid, new_conf, conf, interrupted, path,
                   content, port, raced, faults>>

OpenPidFile(p) ==
    /\ pc[p] = "start"
    /\ Opens(p, FALSE)
    /\ pc' = [pc EXCEPT ![p] = "opened"]
    /\ UNCHANGED <<setup, parent, pid, new_conf, conf, interrupted, port,
                   raced, faults>>

\* A successor does not look whether another process runs.
check_parallel_run(p) ==
    LET other == content[fpid[p]]
    IN /\ pc[p] = "opened"
       /\ \/ /\ p \in new_conf \/ other = None \/ (other # None /\ ~Alive(other))
             /\ pc' = [pc EXCEPT ![p] = "ready"]
             /\ UNCHANGED <<fpid, new_conf, conf, interrupted, port>>
          \/ /\ p \notin new_conf /\ other # None /\ Alive(other) /\ ~setup.replace
             /\ Dies({p})
          \/ /\ p \notin new_conf /\ other # None /\ Alive(other) /\ setup.replace
             /\ pc' = [pc EXCEPT ![p] = "replaces", ![other] = "dead"]
             /\ fpid' = [fpid EXCEPT ![p] = 0]
             /\ port' = IF port = other THEN None ELSE port
             /\ new_conf' = new_conf \ {other}
             /\ conf' = conf \ {other}
             /\ interrupted' = interrupted \ {other}
       /\ UNCHANGED <<setup, parent, pid, path, content, raced, faults>>

Reopen(p) ==
    /\ pc[p] = "replaces"
    /\ Opens(p, TRUE)
    /\ pc' = [pc EXCEPT ![p] = "ready"]
    /\ UNCHANGED <<setup, parent, pid, new_conf, conf, interrupted, port,
                   raced, faults>>

\* HTTPDaemon(...): the wsgiref backend binds, and a port that is taken ends the start.
setup_daemon(p) ==
    /\ pc[p] = "ready"
    /\ IF setup.backend = "cherrypy" \/ port = None
       THEN /\ pc' = [pc EXCEPT ![p] = "bound"]
            /\ port' = IF setup.backend = "wsgiref" THEN p ELSE port
            /\ UNCHANGED <<fpid, new_conf, conf, interrupted>>
       ELSE Dies({p})
    /\ UNCHANGED <<setup, parent, pid, path, content, raced, faults>>

\* The second fork: the daemon goes on, and the process between writes its pid.
daemonize(p) ==
    /\ pc[p] = "bound"
    /\ pc' = [pc EXCEPT ![p] = "daemon"]
    /\ pid' = [pid EXCEPT ![p] = "due"]
    /\ UNCHANGED <<setup, parent, fpid, new_conf, conf, interrupted, path,
                   content, port, raced, faults>>

write_pid(p) ==
    /\ pid[p] = "due"
    /\ pid' = [pid EXCEPT ![p] = "written"]
    /\ content' = [content EXCEPT ![fpid[p]] = p]
    /\ fpid' = [fpid EXCEPT ![p] = 0]
    /\ UNCHANGED <<setup, pc, parent, new_conf, conf, interrupted, path, port,
                   raced, faults>>

\* do_exit: after three seconds the process between is killed.
AlarmRings(p) ==
    /\ pid[p] = "due"
    /\ faults < MaxFaults
    /\ faults' = faults + 1
    /\ pid' = [pid EXCEPT ![p] = "never"]
    /\ fpid' = [fpid EXCEPT ![p] = 0]
    /\ UNCHANGED <<setup, pc, parent, new_conf, conf, interrupted, path,
                   content, port, raced>>

\* The thread ends the process when the port is taken.
http_daemon_thread(p) ==
    /\ pc[p] = "daemon"
    /\ IF port \in {None, p}
       THEN /\ port' = p
            /\ pc' = [pc EXCEPT ![p] = "running"]
            /\ UNCHANGED <<fpid, new_conf, conf, interrupted>>
       ELSE Dies({p})
    /\ UNCHANGED <<setup, parent, pid, path, content, raced, faults>>

-----------------------------------------------------------------------------
(* The main loop.                                                          *)

\* The arbiter puts a configuration, or the daemon takes too much memory and takes its own again.
\* The process that writes the pid, or its alarm, is faster.
NewConf(p) ==
    /\ pc[p] = "running" /\ port = p /\ p \notin new_conf /\ pid[p] # "due"
    /\ new_conf' = new_conf \cup {p}
    /\ UNCHANGED <<setup, pc, parent, fpid, pid, conf, interrupted, path,
                   content, port, raced, faults>>

setup_new_conf(p) ==
    /\ pc[p] = "running" /\ p \in new_conf
    /\ p \notin conf \/ ~setup.graceful
    /\ new_conf' = new_conf \ {p}
    /\ conf' = conf \cup {p}
    /\ UNCHANGED <<setup, pc, parent, fpid, pid, interrupted, path, content,
                   port, raced, faults>>

\* The process that cannot be started, or that is over already, is an error in the error message.
SwitchRaises(p) ==
    /\ pc[p] = "running" /\ p \in new_conf \cap conf /\ setup.graceful
    /\ faults < MaxFaults
    /\ faults' = faults + 1
    /\ Dies({p})
    /\ UNCHANGED <<setup, parent, pid, path, content, raced>>

\* The configuration cannot be sent: the daemon takes it itself.
SwitchFails(p) ==
    /\ pc[p] = "running" /\ p \in new_conf \cap conf /\ setup.graceful
    /\ faults < MaxFaults
    /\ faults' = faults + 1
    /\ new_conf' = new_conf \ {p}
    /\ UNCHANGED <<setup, pc, parent, fpid, pid, conf, interrupted, path,
                   content, port, raced>>

\* The process that is started gets the configuration before its parent stops.
switch_process(p) ==
    /\ pc[p] = "running" /\ p \in new_conf \cap conf /\ setup.graceful
    /\ \E c \in Pids :
        /\ pc[c] = "none"
        /\ pc' = [pc EXCEPT ![c] = "waiting", ![p] = "request"]
        /\ parent' = [parent EXCEPT ![c] = p]
        /\ new_conf' = (new_conf \cup {c}) \ {p}
    /\ raced' = (raced \/ Overlaps)
    /\ UNCHANGED <<setup, fpid, pid, conf, interrupted, path, content, port,
                   faults>>

\* SIGTERM, SIGINT: looked at when the turn is over.
manage_signal(p) ==
    /\ pc[p] \in {"daemon", "running"} /\ p \notin interrupted
    /\ interrupted' = interrupted \cup {p}
    /\ UNCHANGED <<setup, pc, parent, fpid, pid, new_conf, conf, path, content,
                   port, raced, faults>>

\* main returns from the wait for the first configuration: no stop, no unlink.
LeavesWaiting(p) ==
    /\ pc[p] = "running" /\ p \in interrupted \ (new_conf \cup conf)
    /\ Dies({p})
    /\ UNCHANGED <<setup, parent, pid, path, content, raced, faults>>

do_mainloop(p) ==
    /\ pc[p] = "running" /\ p \in interrupted \cap conf
    /\ pc' = [pc EXCEPT ![p] = "request"]
    /\ UNCHANGED <<setup, parent, fpid, pid, new_conf, conf, interrupted, path,
                   content, port, raced, faults>>

\* The file under the name of the pid file is removed, whatever it says.
unlink(p) ==
    /\ pc[p] = "request"
    /\ pc' = [pc EXCEPT ![p] = "stops"]
    /\ path' = 0
    /\ raced' = (raced \/ Overlaps)
    /\ UNCHANGED <<setup, parent, fpid, pid, new_conf, conf, interrupted,
                   content, port, faults>>

\* do_stop: modules and workers are stopped, the lock is released and the port closed.
do_stop(p) ==
    /\ pc[p] = "stops"
    /\ Dies({p})
    /\ UNCHANGED <<setup, parent, pid, path, content, raced, faults>>

Crash(p) ==
    /\ Alive(p)
    /\ faults < MaxFaults
    /\ faults' = faults + 1
    /\ Dies({p})
    /\ UNCHANGED <<setup, parent, pid, path, content, raced>>

-----------------------------------------------------------------------------
Init ==
    /\ setup \in Setups
    /\ pc = [p \in Pids |-> "none"]
    /\ parent = [p \in Pids |-> None]
    /\ fpid = [p \in Pids |-> 0]
    /\ pid = [p \in Pids |-> "no"]
    /\ new_conf = {} /\ conf = {} /\ interrupted = {}
    /\ path = 0
    /\ content = [f \in Files |-> None]
    /\ port = None
    /\ raced = FALSE
    /\ faults = 0

Next ==
    \E p \in Pids :
        \/ Start(p)
        \/ wait_parent_exit(p)
        \/ OpenPidFile(p)
        \/ check_parallel_run(p)
        \/ Reopen(p)
        \/ setup_daemon(p)
        \/ daemonize(p)
        \/ write_pid(p)
        \/ AlarmRings(p)
        \/ http_daemon_thread(p)
        \/ NewConf(p)
        \/ setup_new_conf(p)
        \/ SwitchRaises(p)
        \/ SwitchFails(p)
        \/ switch_process(p)
        \/ manage_signal(p)
        \/ LeavesWaiting(p)
        \/ do_mainloop(p)
        \/ unlink(p)
        \/ do_stop(p)
        \/ Crash(p)

\* A process goes on; nothing says that an operator or an arbiter acts.
Steps(p) ==
    \/ wait_parent_exit(p) \/ OpenPidFile(p) \/ check_parallel_run(p) \/ Reopen(p) \/ setup_daemon(p)
    \/ daemonize(p) \/ http_daemon_thread(p) \/ setup_new_conf(p) \/ switch_process(p) \/ SwitchFails(p)
    \/ unlink(p) \/ do_stop(p)
\* The flag is looked at in every turn, whatever else the turn does.
TurnEnds(p) == do_mainloop(p) \/ LeavesWaiting(p)
Spec == Init /\ [][Next]_vars
LiveSpec == Spec /\ \A p \in Pids : WF_vars(Steps(p)) /\ WF_vars(write_pid(p)) /\ WF_vars(TurnEnds(p))

-----------------------------------------------------------------------------
Serves(p) == pc[p] = "running" /\ port = p

\* When nothing starts, the pid file has the pid of the daemon that serves, if the pid
\* was written at all and no stop and no switch fell into a start: check_parallel_run
\* finds the daemon (daemon.py:575).
PidFileTells ==
    \A p \in Pids :
        (~raced /\ Serves(p) /\ pid[p] = "written" /\ \A q \in Pids : ~Starting(q)) => path # 0 /\ content[path] = p

\* A daemon that got a signal; it is gone in the end (daemon.py:449).
Signalled(p) == pc[p] = "running" /\ p \in interrupted
Gone(p) == pc[p] = "dead"

\* A successor without a time limit on its wait; it serves in the end, with the
\* configuration it was handed, when nothing fails, no start is under way and
\* nobody stops it (daemon.py:403).
Succeeding(p) == pc[p] = "waiting" /\ ~setup.timeout
Succeeded(p) == (Serves(p) /\ p \in conf) \/ p \in interrupted \/ raced \/ faults > 0
=============================================================================
