-------------------------------- MODULE Broks --------------------------------
(***************************************************************************)
(* The way of a brok: raised by a scheduler for one host (scheduler.py),   *)
(* queued for the broker, fetched by it in batches (brokerdaemon.py), put  *)
(* in the queues of its modules, which the modules manager watches and     *)
(* restarts (modulesmanager.py), and applied by a module that keeps a copy *)
(* of the objects (regenerator.py).  The state of the host is a version    *)
(* number that every update raises.                                        *)
(***************************************************************************)
EXTENDS Integers, Sequences, FiniteSets, SequencesExt

CONSTANTS
    Modules,        \* the modules the broker may have, one in a behaviour: a subset
                    \* of {"external", "internal"}
    broks_batch,    \* of the broker; 0 is no limit
    max_broks,      \* 5 * (hosts + services) of the scheduler
    max_queue_size, \* of the broker's modules manager; 0 is no limit
    MaxVersion,     \* bound on the updates of the host
    MaxFaults,      \* bound on the faults
    Slow,           \* bound on the broks a turn leaves to the next
    NoHost          \* the module does not have the host

ASSUME ConstantsAssumption ==
    /\ broks_batch \in Nat /\ max_broks \in Nat /\ max_queue_size \in Nat
    /\ MaxVersion \in Nat /\ MaxFaults \in Nat /\ Slow \in Nat
    /\ NoHost \notin Int
    /\ Modules \subseteq {"external", "internal"}

Versions == 0..MaxVersion
Brok == [type: {"program_status", "initial_host_status", "initial_broks_done",
                "update_host_status", "update_program_status", "log"},
         v: Versions]
B(type, v) == [type |-> type, v |-> v]

\* What a Regenerator keeps of the instance: configs has it, the host of inp_hosts
\* (None: no table, Empty: an empty one), and the host of hosts.
None == -2
Empty == -1
NewRegenerator == [configs |-> FALSE, inp |-> None, host |-> NoHost]
Regenerator == [configs: BOOLEAN, inp: {None, Empty} \cup Versions,
                host: {NoHost} \cup Versions]

VARIABLES
    module,     \* the module of the broker
    version,    \* of the host in the scheduler
    broks,      \* the scheduler's global queue
    own,        \* its queue for the broker
    registered, \* brokers has the broker
    run_id,     \* the scheduler's running_id
    overtaken,  \* history: it gave newer broks while older ones stayed in broks
    con,        \* the broker's connection
    running_id, \* the broker knows; 0 is none
    pc,         \* where the broker is in its loop
    queue,      \* the broker's broks, for internal modules
    external,   \* external_module_broks
    cur_conf,   \* the broker has a configuration
    inst,       \* the current instance of the external module
    to_restart, \* the instances of it that are tagged
    running,    \* the instances whose process runs
    to_q,       \* the queue of the current instance
    ext,        \* what its process has of the objects
    asked,      \* it asked for all data within the last minute
    need,       \* its NeedData waits in from_q
    int,        \* what the internal module has
    intTagged,  \* the internal module is in to_restart
    extTold, intTold,   \* history: the last version each module was told
    lost,       \* history: a brok was lost since the last initial broks
    faults

schedVars == <<version, broks, own, registered, run_id, overtaken>>
linkVars == <<con, running_id>>
queueVars == <<queue, external>>
extVars == <<inst, to_restart, running, to_q, ext, asked, need, extTold>>
intVars == <<int, intTagged, intTold>>
vars == <<module, schedVars, linkVars, pc, queueVars, cur_conf, extVars, intVars, lost, faults>>

Fault == faults > 0 /\ faults' = faults - 1

\* The broker has started, got its configuration and started its modules; the
\* scheduler has raised a log, and nobody had asked it for broks.
Init ==
    /\ version = 0 /\ broks = <<B("log", 0)>> /\ own = <<>> /\ registered = FALSE
    /\ run_id = 1 /\ overtaken = FALSE
    /\ con = FALSE /\ running_id = 0 /\ pc = "modules" /\ queue = <<>> /\ external = <<>>
    /\ cur_conf = TRUE /\ inst = 1 /\ to_restart = {} /\ to_q = <<>>
    /\ module \in Modules /\ running = IF module = "external" THEN {1} ELSE {}
    /\ ext = NewRegenerator /\ asked = FALSE /\ need = FALSE
    /\ int = NewRegenerator /\ intTagged = FALSE
    /\ extTold = 0 /\ intTold = 0 /\ lost = FALSE /\ faults = MaxFaults

-----------------------------------------------------------------------------
(* The scheduler.                                                          *)

add_Brok(b) ==
    IF registered THEN own' = Append(own, b) /\ UNCHANGED broks
    ELSE broks' = Append(broks, b) /\ UNCHANGED own

\* A check result or a command changes the host.
UpdateHost ==
    /\ version < MaxVersion
    /\ version' = version + 1
    /\ add_Brok(B("update_host_status", version'))
    /\ UNCHANGED <<module, registered, run_id, overtaken, linkVars, pc, queueVars,
                   cur_conf, extVars, intVars, lost, faults>>

\* get_and_register_update_program_status_brok, every few turns.  Bound: not while
\* one waits anywhere.
Alive ==
    /\ \A b \in ToSet(own \o broks \o queue \o external \o to_q) : b.type # "update_program_status"
    /\ add_Brok(B("update_program_status", version))
    /\ UNCHANGED <<module, version, registered, run_id, overtaken, linkVars, pc,
                   queueVars, cur_conf, extVars, intVars, lost, faults>>

\* fill_initial_broks: the queue is emptied (has_full_broks of the broker's entry is
\* never set), then filled with the state of everything.
InitialBroks == <<B("program_status", version), B("initial_host_status", version),
                  B("initial_broks_done", version)>>

First(s, n) == SubSeq(s, 1, n)

\* clean_queues: what is over max_broks is deleted at the end of a queue.
clean_queues ==
    /\ Len(broks) > max_broks \/ Len(own) > max_broks
    /\ broks' = IF Len(broks) > max_broks THEN First(broks, max_broks) ELSE broks
    /\ own' = IF Len(own) > max_broks THEN First(own, max_broks) ELSE own
    /\ lost' = TRUE
    /\ UNCHANGED <<module, version, registered, run_id, overtaken, linkVars, pc,
                   queueVars, cur_conf, extVars, intVars, faults>>

\* list[:n] of Python: a negative n leaves out the last -n.
Slice(s, n) ==
    LET k == IF n >= 0 THEN n ELSE Len(s) + n IN
    IF k <= 0 THEN <<>> ELSE IF k >= Len(s) THEN s ELSE First(s, k)

Least(a, b) == IF a < b THEN a ELSE b

\* What get_broks takes from the global queue, and from queue o of the broker.
FromGlobal == IF broks_batch = 0 THEN broks ELSE Slice(broks, broks_batch)
FromOwn(o) ==
    IF broks_batch = 0 THEN o
    ELSE Slice(o, Least(broks_batch, Len(o)) - Len(FromGlobal))

Rest(s, taken) == SubSeq(s, Len(taken) + 1, Len(s))

\* IBroks.get_broks: an unknown broker is registered first.
Own == IF registered THEN own ELSE InitialBroks

\* Mutant: the queue of the broker before the global one.
AnswerOwnFirst == FromOwn(Own) \o FromGlobal

Answer == FromGlobal \o FromOwn(Own)

get_broks ==
    /\ registered' = TRUE
    /\ broks' = Rest(broks, FromGlobal) /\ own' = Rest(Own, FromOwn(Own))
    /\ overtaken' = (overtaken \/ (FromOwn(Own) # <<>> /\ broks' # <<>>))
    /\ UNCHANGED <<version, run_id>>

fill_initial_broks ==
    /\ registered' = TRUE /\ own' = InitialBroks
    /\ UNCHANGED <<version, broks, run_id, overtaken>>

\* The scheduler restarts, or is given a new configuration: reset() empties its
\* queues and forgets the brokers.  Its hosts keep their state (retention).
SchedulerReset(restarts) ==
    /\ Fault
    /\ registered' = FALSE /\ broks' = <<>> /\ own' = <<>>
    /\ run_id' = IF restarts THEN run_id + 1 ELSE run_id
    /\ UNCHANGED <<module, version, overtaken, linkVars, pc, queueVars, cur_conf,
                   extVars, intVars, lost>>

-----------------------------------------------------------------------------
(* A module with a Regenerator.                                            *)

\* Mutant: the host is shown though its initial brok has not come.
ApplyUnchecked(m, b) ==
    CASE b.type = "program_status" ->
            [configs |-> TRUE, inp |-> Empty, host |-> NoHost]
      [] b.type = "initial_host_status" /\ m.inp # None -> [m EXCEPT !.inp = b.v]
      [] b.type = "initial_broks_done" /\ m.configs /\ m.inp # None ->
            [m EXCEPT !.inp = None, !.host = m.inp]
      [] b.type = "update_host_status" /\ m.host # NoHost -> [m EXCEPT !.host = b.v]
      [] OTHER -> m

Apply(m, b) ==
    CASE b.type = "program_status" ->
            [configs |-> TRUE, inp |-> Empty, host |-> NoHost]
      [] b.type = "initial_host_status" /\ m.inp # None -> [m EXCEPT !.inp = b.v]
      [] b.type = "initial_broks_done" /\ m.configs /\ m.inp # None ->
            [m EXCEPT !.inp = None, !.host = IF m.inp = Empty THEN m.host ELSE m.inp]
      [] b.type = "update_host_status" /\ m.host # NoHost -> [m EXCEPT !.host = b.v]
      [] OTHER -> m

\* Mutant: every brok of an unknown instance is only ignored.
AsksNever(m, b) == FALSE

\* manage_update_program_status_brok of an instance that is not in configs.
Asks(m, b) == b.type = "update_program_status" /\ ~m.configs

\* The process of the external module takes a brok from its queue.
ExternalManages ==
    /\ inst \in running /\ to_q # <<>>
    /\ to_q' = Tail(to_q)
    /\ ext' = Apply(ext, Head(to_q))
    /\ extTold' = Head(to_q).v
    /\ LET asks == Asks(ext, Head(to_q)) /\ ~asked IN
       asked' = (asked \/ asks) /\ need' = (need \/ asks)
    /\ UNCHANGED <<module, schedVars, linkVars, pc, queueVars, cur_conf, inst,
                   to_restart, running, intVars, lost, faults>>

MinutePasses ==
    /\ asked /\ asked' = FALSE
    /\ UNCHANGED <<module, schedVars, linkVars, pc, queueVars, cur_conf, inst,
                   to_restart, running, to_q, ext, need, extTold, intVars,
                   lost, faults>>

ExternalDies ==
    /\ inst \in running /\ Fault
    /\ running' = running \ {inst}
    /\ ext' = NewRegenerator /\ asked' = FALSE
    /\ UNCHANGED <<module, schedVars, linkVars, pc, queueVars, cur_conf, inst,
                   to_restart, to_q, need, extTold, intVars, lost>>

-----------------------------------------------------------------------------
(* The modules manager, at the head of the broker's turn.                  *)

External == module = "external"

Behind ==
    External /\ inst \in running /\ max_queue_size > 0 /\ Len(to_q) > max_queue_size

\* check_alive_instances of the external module: dead, or too far behind.
Failing == External /\ inst \notin to_restart /\ (inst \notin running \/ Behind)

\* try_to_restart_deads: each instance that is tagged, if it is still known or not,
\* gets new queues and a new process, unless its init fails.  Bound: the module
\* is too far behind at most MaxFaults times, or the watchdog restarts it for ever.
check_and_del_zombie_modules ==
    /\ pc = "modules" /\ pc' = "conf"
    /\ LET tagged == to_restart \cup IF Failing THEN {inst} ELSE {} IN
       \/ /\ to_restart' = {} /\ running' = running \cup tagged
          /\ IF Behind /\ inst \notin to_restart THEN Fault ELSE UNCHANGED faults
          /\ IF inst \in tagged
             THEN to_q' = <<>> /\ ext' = NewRegenerator /\ asked' = TRUE /\ need' = FALSE
             ELSE UNCHANGED <<to_q, ext, asked, need>>
       \/ /\ tagged # {} /\ Fault
          /\ to_restart' = tagged
          /\ UNCHANGED <<running, to_q, ext, asked, need>>
    /\ intTagged' = FALSE
    /\ UNCHANGED <<module, schedVars, linkVars, queueVars, cur_conf, inst,
                   extTold, int, intTold, lost>>

-----------------------------------------------------------------------------
(* The configuration of the broker.                                        *)

\* The arbiter says to wait for a new configuration.
wait_new_conf ==
    /\ cur_conf /\ Fault /\ cur_conf' = FALSE
    /\ UNCHANGED <<module, schedVars, linkVars, pc, queueVars, extVars,
                   intVars, lost>>

\* clean_previous_run, then the new configuration: the links are forgotten, the
\* modules stopped and removed, new ones loaded and started.  The queues are kept,
\* and so is to_restart of the modules manager.
Replaced ==
    /\ cur_conf' = TRUE /\ con' = FALSE /\ running_id' = 0
    /\ inst' = inst + 1 /\ running' = (running \ {inst}) \cup IF External THEN {inst'} ELSE {}
    /\ to_q' = <<>> /\ ext' = NewRegenerator /\ asked' = TRUE /\ need' = FALSE
    /\ int' = NewRegenerator
    /\ UNCHANGED <<to_restart, extTold, faults>>

\* A new configuration while it has one: the running_id is kept for a scheduler at
\* the same address, the connection is not.
setup_new_conf(moved) ==
    /\ Fault
    /\ con' = FALSE /\ running_id' = IF moved THEN 0 ELSE running_id
    /\ UNCHANGED <<cur_conf, int, extVars>>

Configure ==
    /\ pc = "conf" /\ pc' = "get"
    /\ \/ ~cur_conf /\ Replaced
       \/ cur_conf /\ \E moved \in BOOLEAN : setup_new_conf(moved)
       \/ cur_conf /\ UNCHANGED <<con, running_id, cur_conf, int, extVars, faults>>
    /\ UNCHANGED <<module, schedVars, queueVars, intTagged, intTold, lost>>

-----------------------------------------------------------------------------
(* The broker fetches broks.                                               *)

\* do_pynag_con_init: a scheduler with another running_id is asked for all its data.
\* If a call or its answer is lost there is no connection, and running_id is not set.
do_pynag_con_init ==
    /\ ~con
    /\ \/ /\ con' = TRUE /\ running_id' = run_id
          /\ IF run_id # running_id
             THEN fill_initial_broks /\ lost' = FALSE
             ELSE UNCHANGED <<schedVars, lost>>
          /\ UNCHANGED faults
       \/ /\ Fault /\ UNCHANGED <<con, running_id>>
          /\ \/ UNCHANGED <<schedVars, lost>>
             \/ run_id # running_id /\ fill_initial_broks /\ lost' = FALSE
    /\ UNCHANGED queueVars

add_broks_to_queue(new) == queue' = queue \o new /\ external' = external \o new

\* get_new_broks with a connection.  The answer may be lost after the scheduler has
\* deleted the broks; a restarted scheduler is not told from the one before.
FetchBroks ==
    /\ con
    /\ \/ /\ get_broks
          /\ add_broks_to_queue(Answer)
          /\ lost' = (lost /\ registered)
          /\ UNCHANGED <<con, faults>>
       \/ /\ Fault /\ con' = FALSE /\ UNCHANGED <<schedVars, queueVars, lost>>
       \/ /\ Fault /\ con' = FALSE /\ get_broks
          /\ lost' = (lost \/ Answer # <<>>)
          /\ UNCHANGED queueVars
    /\ UNCHANGED running_id

get_new_broks ==
    /\ pc = "get" /\ pc' = "give"
    /\ do_pynag_con_init \/ FetchBroks
    /\ UNCHANGED <<module, cur_conf, extVars, intVars>>

-----------------------------------------------------------------------------
(* The broker gives broks to its modules.                                  *)

manage_broks(m, s) ==
    LET managed[i \in 0..Len(s)] == IF i = 0 THEN m ELSE Apply(managed[i - 1], s[i])
    IN managed[Len(s)]

\* The second half of do_loop_turn: all of external_module_broks to the queue of the
\* external module; then the internal module manages, for one second, k broks
\* taken from the END of the queue, and the rest is put back by extendleft, which
\* turns it round.  A module that raises is tagged and gets no more of them.
GiveBroks ==
    /\ pc = "give" /\ pc' = "messages"
    /\ to_q' = IF External /\ inst \notin to_restart THEN to_q \o external ELSE to_q
    /\ external' = <<>>
    /\ \E k \in 0..Len(queue) :
        /\ k + Slow >= Len(queue) /\ (k = 0 => queue = <<>>)
        /\ External => k = Len(queue)
        /\ LET taken == SubSeq(Reverse(queue), 1, k) IN
           \/ /\ int' = IF External THEN int ELSE manage_broks(int, taken)
              /\ intTold' = IF External \/ k = 0 THEN intTold ELSE Last(taken).v
              /\ UNCHANGED <<intTagged, faults>>
           \/ /\ ~External /\ k > 0 /\ Fault /\ intTagged' = TRUE
              /\ UNCHANGED <<int, intTold>>
        /\ queue' = Reverse(SubSeq(queue, 1, Len(queue) - k))
    /\ UNCHANGED <<module, schedVars, linkVars, cur_conf, inst, to_restart,
                   running, ext, asked, need, extTold, lost>>

\* get_objects_from_from_queues: NeedData resets the connection and the running_id.
GetMessages ==
    /\ pc = "messages" /\ pc' = "modules"
    /\ IF need /\ inst \notin to_restart
       THEN need' = FALSE /\ con' = FALSE /\ running_id' = 0
       ELSE UNCHANGED <<need, linkVars>>
    /\ UNCHANGED <<module, schedVars, queueVars, cur_conf, inst, to_restart,
                   running, to_q, ext, asked, extTold, intVars, lost, faults>>

-----------------------------------------------------------------------------
BrokerTurn == check_and_del_zombie_modules \/ Configure \/ get_new_broks
              \/ GiveBroks \/ GetMessages

Next ==
    \/ UpdateHost \/ Alive \/ clean_queues
    \/ \E r \in BOOLEAN : SchedulerReset(r)
    \/ ExternalManages \/ MinutePasses \/ ExternalDies
    \/ wait_new_conf
    \/ BrokerTurn

\* The scheduler says it is alive every few turns, the broker loops and a module
\* that has broks handles them; a minute ends.
Fairness == /\ WF_vars(Alive) /\ WF_vars(ExternalManages) /\ WF_vars(MinutePasses)
            /\ WF_vars(BrokerTurn)

Spec == Init /\ [][Next]_vars
LiveSpec == Spec /\ Fairness

-----------------------------------------------------------------------------
(* Properties.                                                             *)

TypeOK ==
    /\ version \in Versions /\ broks \in Seq(Brok) /\ own \in Seq(Brok)
    /\ registered \in BOOLEAN /\ run_id \in Nat \ {0} /\ overtaken \in BOOLEAN
    /\ con \in BOOLEAN /\ running_id \in 0..run_id
    /\ pc \in {"modules", "conf", "get", "give", "messages"}
    /\ queue \in Seq(Brok) /\ external \in Seq(Brok) /\ cur_conf \in BOOLEAN
    /\ inst \in Nat \ {0} /\ to_restart \subseteq 1..inst /\ running \subseteq 1..inst
    /\ to_q \in Seq(Brok) /\ ext \in Regenerator /\ int \in Regenerator
    /\ asked \in BOOLEAN /\ need \in BOOLEAN /\ intTagged \in BOOLEAN /\ lost \in BOOLEAN
    /\ extTold \in Versions /\ intTold \in Versions /\ faults \in 0..MaxFaults

\* An external module is never told an older state of the host after a newer one,
\* whatever is fetched, lost, filled again or restarted on the way (the queues of
\* scheduler.py get_broks and brokerdaemon.py add_broks_to_queue).  Before that,
\* get_broks has to have left older broks in the global queue: it does when they
\* are more than the batch and the broker has fewer than that of its own, but more
\* than half, since count is negative then.
ExternalInOrder == [][overtaken \/ extTold' >= extTold]_extTold

\* The copy an external module shows is at last the state of the scheduler, unless a
\* brok was dropped since the last initial broks: a restart of the scheduler, of the
\* module, of the broker's configuration, or a lost call, is made good by initial
\* broks (do_pynag_con_init, NeedData, IBroks.get_broks of an unknown broker).
ExternalCatchesUp == <>[](External => lost \/ ext.host = version)

=============================================================================
