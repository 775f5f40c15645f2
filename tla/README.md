# A TLA+ model of Shinken

Shinken is a monitoring system made of six kinds of daemons. An *arbiter* reads
the configuration, cuts it into parts and gives each part to a *scheduler*.
Schedulers decide when a host or service is checked; *pollers* and *reactionners*
(together: satellites) fetch checks, notifications and event handlers and run
them; *brokers* fetch the events (broks) that result; *receivers* pass commands
on. Daemons talk by HTTP, and each has one main loop and a few HTTP threads.

This directory holds TLA+ modules for `src/shinken`, the TLC configurations that
check them on small instances, and proofs checked by TLAPS. `PROJECT.json` maps
every definition to the source lines it models and lists all runs, mutants,
findings, hazards and theorems.

## Running the checks

    tlc -workers 2 -config Scheduler.cfg MCScheduler     # run X: X.cfg with module MCX
    tlc -workers 2 -config Polling.cfg Polling           # Polling, PollingRestart, Downtime, Broks: the module itself
    tlapm SchedulerProofs.tla                            # and the other ...Proofs modules

Every passing run takes less than five minutes. The run `PollingRestart`
(`PollingRestart.cfg` with `Polling`) is expected to end in a violation: its
counterexample shows a disagreement between the code and its comments.

## Inventory

| Component | Where | State | Operations | What makes it correct |
|---|---|---|---|---|
| Scheduler, checks | `scheduler.py`, `schedulingitem.py`, `check.py`, `schedulerdaemon.py` | `checks`, `waiting_results`, per item `actions`, `checks_in_progress`, per check `status`, `t_to_go`, `depend_on`, `depend_on_me` | the recurrent works of a tick, `get_checks`, `put_results`, commands, new configuration | no check consumed twice, no item waits for a check that is gone, no dependency left behind |
| Satellites, workers | `satellite.py`, `worker.py` | `schedulers[id]` (`con`, `running_id`, `wait_homerun`, `actions`), queues, worker processes | main loop, worker loop, connection and its failure; for passive ones the calls of the scheduler | no action lost without a fault or executed twice, results go to their check, every check comes back |
| Dispatcher, realms | `dispatcher.py`, `satellitelink.py`, `realm.py`, `put_conf` etc. of the daemons | what links believe, who has which part, what daemons have | `check_alive`, `check_dispatch`, `dispatch`, `check_bad_dispatch`, explosion of realms | each part runs on one scheduler, satellites know which |
| Downtimes | `downtime.py`, `scheduler.py`, `schedulingitem.py` | downtimes, depth and flag of items, comments | enter, exit, cancel, triggers, maintenance, flexible entry, reload | the depth counts the downtimes in effect, whatever their overlap |
| Arbiter, receiver | `arbiterdaemon.py`, `receiverdaemon.py`, `arbiterlink.py` | broks, external commands, who has the lead | main loop, `wait_for_master_death`, `do_not_run`, routing | one arbiter leads in the end, commands run once and in order, turns end |
| State of items | `schedulingitem.py`, `host.py`, `service.py`, `item.py` | state, state type, attempt, acknowledgement, problems and impacts | `consume_state_result`, reload | HARD after the last attempt, problems and impacts mutual |
| Notifications, escalations | `notification.py`, `schedulingitem.py`, `scheduler.py`, `escalation.py`, `contact.py`, `notificationway.py` | master and child notifications, numbers | create, scatter, renew, remove | one series at a time, reminders while the problem lasts |
| Event handlers, snapshots | `eventhandler.py`, `action.py` | share `Scheduler.actions` | create, hand out, result | asked for once for a change |
| Broks, broker, modules | `brok.py`, `brokerdaemon.py`, `scheduler.py`, `modulesmanager.py` | brok lists per broker, queues of modules | `get_broks` in batches, initial broks, restart of modules | order kept, a module catches up |
| Regenerator | `misc/regenerator.py` | a copy of all objects | initial broks, linking, updates | what is shown is what is configured |
| External commands | `external_command.py` | none of its own | about 150 commands | the broker is told, the effect survives a reload |
| Retention | `scheduler.py` | saved attributes | save, load | a reload changes nothing that lasts |
| Processes of a daemon | `daemon.py`, `http_daemon.py` | pid file, port, signals | start, switch, stop | the pid file names the daemon that serves |
| Plugins | `action.py` | process, pipes | launch, poll, kill, cut the output | nothing written is lost, a bad end is told |
| Reading, objects, services, dependencies | `objects/config.py`, `item.py`, `service.py`, `host.py`, `hostgroup.py`, `complexexpression.py`, `hostdependency.py`, `servicedependency.py` | none that lasts | read, inherit, explode, link | what is meant is what is linked |
| Cutting | `objects/config.py`, `graph.py` | packs, parts | `create_packs`, `cut_into_parts`, `prepare_for_sending` | every host in one part with its relations |
| Macros, periods, rules | `macroresolver.py`, `commandcall.py`, `daterange.py`, `timeperiod.py`, `dependencynode.py` | cache, stored years | evaluate | the value that is meant |
| Discovery | `discovery/discoverymanager.py` and its objects | what is known of hosts | run, match, write | nothing printed is missed, the loop ends |

Interactions: the arbiter calls all daemons; satellites and brokers call
schedulers; a scheduler calls only passive satellites. A scheduler serves most
calls under one lock that its main loop holds during a tick; `put_results` is
served at any time and only appends to a list with a lock of its own.

The behaviour that is hard to get right is the same everywhere: a call that fails
after it was served, a daemon that restarts with ids from 0 or comes back with an
old configuration, a result that is late or comes twice, a loop that removes
entries others still refer to, and counters moved by several paths. `PROJECT.json`
lists these hazards by line.

## Modules

| Module | Models | Status |
|---|---|---|
| `Scheduler` | checks inside a scheduler | checked, proved |
| `CheckQueue` | abstract life of a check, as a poller sees it | `Scheduler` implements it (checked, proved) |
| `Polling` | active satellites, workers and calls; extends `CheckQueue` | checked, proved |
| `Passive` | passive satellites | checked (run `Processes`), proved |
| `Downtime` | downtimes of hosts and services | checked, proved |
| `Dispatcher` | arbiter's dispatcher, its links and the daemons, one realm | checked, proved |
| `Realms` | realms, their satellites and who works for which part | checked (run `Configuration`) |
| `Arbiter` | main loop of master and spare arbiter, receiver, routing of commands | checked, proved |
| `ItemState` | state, problems and impacts of hosts and services | checked, proved |
| `Notifications` | notifications of an item; extends `ItemState` | checked, proved |
| `Commands` | external commands, comments, flapping, retention | checked, proved |
| `Broks` | broks from scheduler to module | checked, proved |
| `Regenerator` | the copy of the objects in a broker module | checked (`Configuration`) |
| `ConfigReading`, `Objects`, `Services`, `Dependencies`, `HostGraph` | from files to packs | checked (`Configuration`) |
| `Cut` | from packs to parts that are serialized; what `HostGraph` computes is its parameter | checked (`Configuration`), proved |
| `Macros`, `TimePeriods`, `BusinessRules`, `Discovery` | pure algorithms | checked (`Configuration`) |
| `Daemon` | processes of a daemon | checked (`Processes`), proved |
| `Plugins` | a plugin run by a worker | checked (`Processes`), proved |
| `Lists` | filtering of a list and a loop through one, used by six modules | proved (`ListProofs`) |
| `SchedulerProofs`, `PollingProofs`, `DispatcherProofs`, `BroksProofs`, `ArbiterProofs`, `CommandsProofs`, `ItemProofs`, `ListProofs` | theorems | proved |
| `MC...` | constants of the instances; `MCConfiguration` and `MCProcesses` are sums | |

Definitions that start with the comment `Mutant:` are altered versions of the
definition that follows. They are used by no specification; PROJECT.json tells
which property each of them must break.

`MCConfiguration` and `MCProcesses` put components that share no state side by
side: `topic` is chosen at the start and says which component the behaviour is of,
the variables `x1, x2, ...` are that component's. Each component keeps its own
specification and its properties; a property of the sum is the conjunction of
theirs, each under its topic.

### Scheduler

`pc` walks through the recurrent works in the order of `Scheduler.recurrent_works`
(`schedule`, `consume_results` in its five loops, `get_new_actions`,
`delete_zombie_checks`, `check_freshness`, `check_orphaned`,
`manage_internal_checks`, `clean_queues`), each one step or one step for each
element of its loop. While `pc = "requests"` the lock is free and `get_checks`,
the external commands and a new configuration may come. `PutResults` is enabled at
all times, with any id, so results may be late, repeated or invented.

Variables keep the names of the code. A check is an id; `status`, `ref`,
`t_to_go`, `depend_on`, `depend_on_me` are functions of it. `ref[c]` is the set
that holds the item, empty for an id that is not used yet. `consumed` is a history
variable. What a result says is not stored: `BeginConsume` chooses whether it is
bad and whether it has to look at dependencies. `cur` is the check in the hands of
`consume_result`, so that each dependency check is raised in a step of its own.

Abstractions: the clock. The scheduler compares `t_to_go` with now and with now
minus an hour or so; the three outcomes are `future`, `due`, `overdue`. A clock
change (`compensate_system_time_change`) may turn any of them to `future`. The works
that do not run at every tick (`check_orphaned`, `check_freshness`,
`clean_queues`) are steps of every tick; their effect is a choice, or depends on
`overdue`, so a tick in which they do nothing is among the behaviours.

### CheckQueue and the refinement

`CheckQueue` knows five stages: `none`, `scheduled`, `inpoller`, `answered`,
`done`. A check is offered, taken, answered, consumed; it is offered again when
it is orphaned and dropped by `clean_queues` or a new configuration. Nothing leads
back from `answered`. `Scheduler!Queue` maps `status` to the stage: `waitconsume`
and `waitdep` are `answered`; `havetoresolvedep`, `zombie` and a forgotten check are
`done`.

### Polling and Passive

The scheduler is `CheckQueue`, so what `Polling` shows rests on the refinement. A
satellite's `pc` follows `do_loop_turn`: `check_workers`, `get_workers_results`,
then the call `get_checks` and the call `put_results`. `rpc` holds the call in hand: sent,
served and answered, or broken by a restart of the scheduler. `CallFails` models
an `HTTPException`: the request or its answer was lost, or the satellite gave up
and the request is served later (`late`). `con`, `running_id` and `wait_homerun` are
the entry of the scheduler in `schedulers`; `queue`, `running`, `returns_queue`
belong to the workers.

A *copy* (`id`, configuration, number) tells apart each time a check is handed
out. The code sends only the id; the rest is history for the properties.
`schedulers[id]['actions']` is read at three places of `satellite.py` and filled
nowhere, hence `AlreadyWorkingOn(p) == {}` (see the observations below).

`Passive` has the loops of the scheduler over its passive pollers and
reactionners: push what is due, ask for returns, each call served or not and
answered or not.

### Downtime

`pc` follows `update_downtimes_and_comments` (maintenance, update, delete), then
`consume_results` as far as flexible downtimes are concerned. Commands and the
clock come in between. Times are reduced to `started` and `ended`, the two
comparisons of the code. `Tree(d)` is the set that `enter` and `cancel` reach
through `activate_me`. The counter is right for some uses only: `regular` is a
history variable that turns FALSE when a downtime is triggered by another one or
is deleted before it is in effect, and `DepthCounts` speaks of the behaviours before
that. `Reload` is a stop and start with retention; it is not combined with triggers,
since whether `activate_me` survives depends on the retention module, which is not
in the repository.

### Dispatcher and Realms

`Dispatcher`: one realm with its schedulers and one kind of satellite. The first
group of variables is what the arbiter's links believe (`alive`, `reachable`, `attempt`,
`managed_confs`, `conf`, `need_conf`, `assigned_to`, `push_flavor`, ...), the second
what is really there (`net`, `new_conf`, `has`, `runs`). A turn of the arbiter is a
sequence of steps, one for each call to a daemon, between which daemons crash, are cut
off or come back. Ping and `what_i_managed` fail independently.

Abstractions: all links are checked in the same turn (`since` counts turns modulo
`check_interval`); `push_flavor`, a random number below a million, is a number
that nobody holds (a collision is possible in the code, with small probability);
the macro, retention and module data that travel with a part are left out.
`have_conf` is `FALSE` and `RemoveFromConf` keeps everything because that is what
the code does (see the observations).

`Realms` has the tree of realms with the search for loops, the default realm and
satellites, the potential satellites of a realm and the choice of who works for which
part; calls always succeed there.

### Arbiter

Master and spare are two processes with the same loop (`Turn`), one step for each
call of `Arbiter.run`. The spare counts the time it has heard nothing
(`MasterTimeout` turns) and takes the lead; the master that is heard again makes it
step down by `do_not_run`. External commands come from modules or a receiver,
are resolved to the parts that have the host and are sent in the next turn.
A command is its number, in the order in which they are given (`plan` says by whom and
for which host); the schedulers record what they ran.

The receiver sends its commands part by part (`todo` is what is left of the loop of
`push_external_commands_to_schedulers`), and a call may fail or lose its answer at any of
them; the commands of that part are then kept and sent again. A turn of this loop in which
nothing would be sent is left out, and a new configuration of the receiver comes between turns.

### ItemState and Notifications

In `ItemState` a world maps every item to its attributes, and an operator named as
a method is that method, from world to world, so that a whole
`consume_state_result` with all it calls on other items is one step: the code runs
it under the lock. Results, their modulation, acknowledgements, business impact
modulation and a reload are the actions.

Links are `Dep`, a list without a loop (`LinkAssumption`): the arbiter refuses loops of
parents, of host and of service dependencies (`Config.is_correct`), and that there is none
across these kinds is assumed; with one, `register_a_problem` would still end, but an item
could be its own impact. A method that calls itself is a function of the depth of its calls,
and a loop over items or links is `Through` of `Lists`.

`Notifications` extends it with the queue of actions: a master notification is split,
when it is due, into children for the contacts; reactionners take the children, send
and return them. Times are abstracted to what they are compared with.

### Commands

One representative of each kind of command (a switch of an item, of a group, of
all, of a contact, a changed value, a mask, a comment, an acknowledgement, a dependency, a
flag of the program), the detection of flapping, the broks they raise, and save and
reload of the retention data. `GivenValues` bounds which values of items the commands change:
those that a handler of the same form changes behave alike.

`Status(o)` is what `full_status` says of an owner as far as commands change it: switches,
`modified_attributes`, values with the custom variables, `is_flapping`, acknowledgement, comments
with their `can_be_deleted`, links. Several handlers change some of this and send no
brok: `CHANGE_HOST_MODATTR`, `CHANGE_CONTACT_MODATTR` (`external_command.py:785`, `:881`), the
commands on custom variables (`:837` to `:849`), the deletion of comments, which only marks them
(the brok comes with the scheduler's next turn), and `CHANGE_NORMAL_*_CHECK_INTERVAL` when the
interval was 0, which fails before its brok. The history variable `silent` remembers who such a
command was about since the last brok; `BrokTells` asks that the broker knows the whole status of
everyone else, and of those all but what these commands change.

### Broks and Regenerator

`Broks` follows the state of one host, reduced to a version, from the scheduler
through its queue for the broker (limit `max_broks`), batches of `get_broks`, the
broker's own queues and the queue of a module (limit `max_queue_size`) to the
regenerator in it. `overtaken` is a history variable: it turns TRUE when an
answer of `get_broks` has broks of the broker's own queue while older ones stay in the
queue for all (see the observations).
`Regenerator` has the streams of two schedulers, mixed in any
order, and what they make of hosts, services and groups.

### Configuration and pure algorithms

These modules compute what the code computes, step by step where the order of the
steps matters, and compare the result with a definition of what is meant:
`ConfigReading` (files to blocks), `Objects` (inheritance with shared lists),
`Services` (one service for each host), `Dependencies` (who blocks whom), `Realms`,
`Cut` with `HostGraph` (packs, parts, serialisation by children that may die),
`Macros`, `TimePeriods` (over a calendar of years of three short months), `BusinessRules` (text to
tree to state), `Discovery`. All but `Cut` use recursive operators and are not proved about;
`Cut` has the functions of `HostGraph` as constants, which `MCConfiguration` gives it.

### Daemon and Plugins

`Daemon` has up to three processes around one pid file and one port: start, check
of a parallel run, daemonisation, graceful switch, signals, stop. `Plugins` has a
worker, a plugin that writes to two pipes of limited size, timeout and kill.

## Runs

| Run | Instance | Shows |
|---|---|---|
| `Scheduler` | a host, a service that depends on it, 2 checks, `max_checks` 0, host computed internally | `ConsumedOnce`, `InProgressIsLive`, `NoDependencyAtRest`, `RemoveFindsId`, `ImplementsQueue` |
| `Polling` | 1 satellite, 1 worker, 2 checks, two new configurations, 1 fault (a restart of the scheduler is one) | `OnePlace`, `NothingLost`, `ResultOfThisConf`, `CheckComesBack` |
| `PollingRestart` (violation) | 1 check, a restart of the scheduler | `ResultIsOfTheCheck` fails: an old result meets a new check with the same id |
| `Downtime` | a host and a service, 2 downtimes, every use of the commands | `DepthCounts`, `MaintenanceIsKnown`, `EndedIsRemoved` |
| `Dispatcher` | 2 parts, a scheduler and its spare, 1 satellite, 1 fault | `AssignmentIsMutual`, `FlavorTells`, `PartsAreServed` |
| `ItemState` | a router, a server behind it, a service on it, modulation | `MutualImpacts`, `StateTells`, `ProblemsAreFollowed` |
| `Notifications` | one service, a contact and an escalation, 4 notifications, each kind of event once | `SeriesIsKept`, `TellingGoesOn` |
| `Commands` | 2 hosts, a service, a contact, 3 commands | `CommandsTell`, `CommandsLast` |
| `Arbiter` | master and spare, 2 schedulers, a receiver, 1 fault | `RunOnceInOrder`, `LeadIsSettled`, `ArbiterGoesOn` |
| `Broks` | an external and an internal module, queues of 4, 2 faults | `TypeOK`, `ExternalInOrder`, `ExternalCatchesUp` |
| `Configuration` | families of small inputs for eleven components | `ReadAsMeant`, `LinkedAsMeant`, `PartsAreComplete`, `EvaluatedAsMeant`, `ShownAsFound`, `ProgramsEnd` |
| `Processes` | three pids, plugins of up to 13 bytes and pipes of 3, three passive satellites | `ProcessesTell`, `WorkGoesOn` |

`StateTells`, `SeriesIsKept`, `CommandsTell` and the like are conjunctions of named
parts, each with its own comment in the module. Deadlock is checked except in
`Notifications`, `Commands`, `Configuration` and `Processes` (and where a cfg says
so): there the bounds on events, or the end of a program, stop the model.

Every property has a mutant: a plausible slip in the code that it must find.

### Findings

`PollingRestart` is the run with a counterexample. Three more disagreements have
the same weight and are visible in the models, with no run of their own:

- A downtime deleted before it begins: `Downtime.cancel` (`downtime.py:178`) counts
  down what `enter` never counted up, so that the depth falls below the number of
  downtimes in effect and notifications are sent during another downtime; the
  documentation (`downtime.rst:44`, `:64`) says that none are sent until the last of
  overlapping downtimes is over. `DepthCounts` is therefore stated until `regular` turns FALSE.
- `satellitelink.have_conf` (`satellitelink.py:269`) gets bytes, compares them with a
  boolean and is never true, so `check_bad_dispatch` leaves a scheduler that came back
  with a part of somebody else alone, and two schedulers run it; the
  documentation (`distributed.rst:163`) says that "the Arbiter will notice and ask the
  old system to drop its configuration".
- `remove_from_conf` (`satellite.py:87`) looks the part up by a text, `schedulers` has
  numbers: a satellite that should drop a part (`dispatcher.py:275`) keeps it.

### Further observations

Found while modelling, visible in the models, and stated by no run:

- *Checks.* `consume_state_result` (`schedulingitem.py:1101`) leaves `waitdep` in
  the call that set it, so dependencies are judged by the state they had before
  the checks raised about them ran; the loop of `consume_results` over `waitdep` never
  finds one (proved: `CurrentCheck`). `schedulers[id]['actions']` is never filled, so
  `check_and_del_zombie_workers` (`satellite.py:629`) requeues nothing and `add_actions`
  takes a check it is already working on; `check_orphaned` and `ConsumedOnce` make both
  harmless in the end. `scheduler.py:927` calls `deserilize`, which does not exist: the checks of a
  passive poller never come back. A push to a passive satellite that fails skips the
  satellites after it.
- *Downtimes.* `enter` (`downtime.py:145`) enters the downtimes it triggers even when
  they were removed, and their item keeps a depth above 0. `__getstate__`
  (`downtime.py:253`) leaves out `extra_comment`, so the automatic comment stays for
  ever after a reload.
- *Dispatcher, realms.* A scheduler that loads its part longer than `check_interval`
  is given another one. A realm with two brokers that both want all parts is dispatched
  again for ever when only one is needed; a broker of two realms
  keeps the links of the last; a diamond of realms is called a loop; an unknown
  sub-realm is ignored; a loop of realms recurses without end elsewhere.
- *Arbiter, receiver.* Commands are cleared even if the scheduler is dead;
  `get_external_commands` names an undefined `tab`; `push_broks_to_broker` repeats
  for ever when refused; with direct routing a command without host is dropped, a
  group command raises `AttributeError`, and a retry may run twice.
- *State.* With the state change of impacts a reload takes an impact for a problem of its own
  when it wants UNREACHABLE notifications or one of two parents is up
  (`reprocess_problem_impact_state`, `schedulingitem.py:930`): when its source recovers it
  stays `is_problem` with the state it had, OK or UP. Of an item without links a reload makes
  no problem at all: `is_no_action_dependent` is true of it. `StateTells` is therefore stated
  without the state change of impacts, which is off by default; `MutualImpacts` holds with both.
- *Notifications.* A problem may never be told when its master is removed by flapping or
  `clean_queues`; with interval 0 a blocked recovery silences the next
  problem; a downtime of a service looks at the host's options (`notificationway.py:112`).
- *Comments.* The comment of `Comment.__init__` (`comment.py:52`) says that a comment with
  `persistent` 0 is deleted when Shinken is restarted, and that of `Acknowledge`
  (`acknowledge.py:58`) that the comment of an acknowledgement goes with it unless persistent.
  Nothing in the code deletes a comment for that at a restart: `get_retention_data` saves all of them
  and `restore_retention_data` brings all back. In `Commands`, `Reload` leaves `comments` as they
  are; `OnlyMarkedLeave` asks a reload only to keep the persistent ones, so that it is true of what the
  comment says and of what the code does.
- *Commands without a brok.* A broker shows `modified_attributes` and custom variables of an item
  as they were before `CHANGE_HOST_MODATTR`, `CHANGE_CONTACT_MODATTR` and `CHANGE_CUSTOM_*_VAR`,
  until something else raises a status brok; `CHANGE_SVC_MODATTR` sends one. `BrokTells` names these
  exceptions.
- *Commands.* `CHANGE_NORMAL_*_INTERVAL` from 0, and commands on contact groups, raise
  `AttributeError`, which drops the rest of the batch; so do
  `CHANGE_CONTACT_{HOST,SVC}_NOTIFICATION_TIMEPERIOD` (`external_command.py:790`, `:831`) unless
  `CHANGE_CONTACT_MODHATTR` or `MODSATTR` gave the contact its mask before. `DEL_ALL_*_COMMENTS`
  misses the comment of an acknowledgement of the same turn; `event_handler_enabled` of
  hosts is not retained; `CHANGE_MAX_*_ATTEMPTS` may leave the attempt above it.
- *Broks.* `clean_queues` drops the newest broks, not the oldest as its comment
  says (`scheduler.py:412`). The count in `get_broks` (`scheduler.py:1030`) may be negative:
  when more than a batch is in the queue for all and the broker's own queue is shorter
  than a batch but longer than half of it, `[:count]` takes some of the newer broks of the
  own queue while older ones stay (batch 4, 6 common and 3 own broks). The answer is then larger
  than `broks_batch`, contrary to `broker.rst:88`, and a module is told an older state
  after a newer one. TLC finds it with `broks_batch` 4; the run has 2, where no
  length is between, and 0, the default, has no batches. A lost answer is
  never repaired; internal modules get a batch newest first; the regenerator changes
  data that modules share.
- *Configuration.* Of two definitions of one name which wins depends on the order of files
  (`item.py:801`); an unclosed `define` swallows what follows; a `cfg_file` in an
  included file is ignored; `create_packs` can leave shares unbalanced; a dependency
  with an unknown host group is ignored for hosts and raises for services.
- *Macros, periods, rules.* `$ARG1$$ARG2$` with nested macros gives an empty text
  (`macroresolver.py:256`); two excluded periods, `skip_interval` and the end day of
  month ranges are not honoured; `!host` of a host that is down stays critical.
- *Serialization.* With the multiprocess serializer (`config.py:1369`) the list of results is
  made once and never emptied, but compared with the number of parts of each realm: with two or more
  realms that have parts the arbiter always exits with "Something goes wrong". `SentIsComplete`
  allows the exit: it speaks of what is sent.
- *Processes.* `switch_process` and a log line name undefined variables (`daemon.py`);
  a stop that races with a start may leave a pid file; a plugin's chunk that splits a
  multibyte character is lost.

### What properties leave out

Where the code does not do what one would like to state, the property says so by a history variable
or a condition, and is silent about the behaviours after that:

| Property | Silent about | Why |
|---|---|---|
| `DepthCounts` | triggered downtimes, and those deleted before they begin (`regular`) | findings |
| `StateTells` | `enable_problem_impacts_states_change` | observations, *State* |
| `SeriesIsKept` | an id that is given twice: `Free` gives a new notification an unused one | assumed of `Action.id` |
| `ModifiedTells`, `FlappingIsDetected`, `SurvivesReload` | items whose mask a command wrote as a whole (`forced`) | the mask then says what the command said |
| `BrokTells` | masks, custom variables, check intervals, marks on comments after a command without a brok (`silent`) | observations, *Commands without a brok* |
| `OnlyMarkedLeave` | comments that are not persistent, at a reload | observations, *Comments* |
| `RunOnceInOrder` | commands whose answer to the receiver was lost (`again`) | they are sent again |
| `ArbiterGoesOn` | a broker that refuses broks for ever | `push_broks_to_broker` repeats |
| `ExternalInOrder` | an answer with newer broks that left older ones (`overtaken`) | observations, *Broks* |
| `ExternalCatchesUp` | broks lost or cut by `clean_queues` since the last initial broks (`lost`) | nothing repairs them before |
| `ReadAsMeant` | which of two definitions with the same `definition_order` is kept | observations, *Configuration* |
| `EvaluatedAsMeant` | ranges into the next month, stored years of another year, skip intervals, two excluded periods | observations, *Macros, periods, rules* |
| `ShownAsFound` | a host that comes with an id another host still has (`clash`), as two schedulers may give when a host moves; the last brok of an older configuration after that of a newer one (`late`) | the regenerator keys objects by id and links what came last |
| `PartsAreComplete` | an arbiter that exits | observations, *Serialization* |
| `ProcessesTell` | a stop or a switch that falls into a start (`raced`); a second start before the first is done (guard of `Start`) | observations, *Processes* |

The hazards of `PROJECT.json` carry a note where this leaves part of one uncaught.

Each property of `Configuration` joins the statements about several components and has one mutant,
which shows that this one statement can fail; the other statements of the conjunction have no
mutant of their own.

### Bounds and why they are enough

- `Ids` bounds how many checks, downtimes or notifications exist. Two checks are a check
  and the one it depends on, or two of an item; with `max_checks` 0 `clean_queues` may
  drop either. Two downtimes may overlap, trigger each other, or one be of
  maintenance. For checks, states, downtimes, broks and commands the theorems
  lift the bounds of their runs.
- `MaxFaults` bounds failures *in number only*: they may strike at any point. For
  liveness it also says that failures end, as they must for recovery to be possible.
- `MaxEarly` bounds how often a slow answer is taken for a lost one (in `Polling` a
  check given up while somebody has it, in `Dispatcher` `what_i_managed` asked before a
  part is loaded). Without it a satellite that is always slower than the limit starves
  a check for ever, which is true of the code as well. It is 0 in `Polling.cfg`; the proofs
  are for every value.
- `MaxRun`, `MaxConf` bound restarts and configurations: a before and an after, and in
  `Polling` a new configuration after a restart.
- `MaxBelow` bounds how far a depth is cancelled below 0.
- `Flavors` (9) is large enough that a fresh one always exists in the instance; TLC would
  report a deadlock of the arbiter otherwise.
- `MaxCommands`, `MaxComments`, `GivenValues`, `MaxEvents`, `MaxNumber`, `MaxVersion`: three commands are a
  setting, its opposite and a reload between them; one event of each kind meets every state of a
  series of notifications; versions 0 and 1 tell old from new.
- `broks_batch` 2 with limits of 4: a batch ends inside a queue, and a queue is at its limit.
- The inputs of `Configuration` are listed in the `MC` modules, each family with what it is for.

Symmetry is not used: ids, parts and schedulers are ordered in the code, and there is
one satellite or item of a kind in most runs.

### Fairness

Only weak fairness, and only of loops that the code runs for ever and whose calls have
timeouts: the tick of a scheduler (`Downtime`, `Polling`, `Commands`,
`Notifications`), the loop of each satellite, its HTTP threads and workers (a plugin
is killed at its own timeout), `check_orphaned` (it runs every 60 ticks and its
condition stays true), the arbiter's loop and the loading of a part (`Dispatcher`,
`Arbiter`), the loops of broker and modules (`Broks`), a process that has something to
do (`Daemon`, `Plugins`, `Passive`), and the next step of a sequential program
(`Configuration`). `Scheduler` has none, only safety is stated of it. Nothing is assumed
of failures, recoveries, commands, late requests, new configurations or reloads.

## Proofs

Forty-one theorems in seven modules, and lemmas about lists in an eighth. Each component that is
proved has one inductive invariant `IInv` (theorem `Invariance`; in `ItemProofs` there is one of
each of its components), of which every safety property is a part or a consequence. The parts of each `IInv` were checked by TLC as
invariants of the instances above before they were proved. Preservation is shown part by
part, each with one step per action.

| Module | Theorem | States |
|---|---|---|
| `SchedulerProofs` | `TypeCorrect` | `Spec => []TypeOK` |
| | `ConsumedAtMostOnce` | `Spec => []ConsumedOnce` |
| | `ItemsWaitForLiveChecks` | `Spec => []InProgressIsLive` |
| | `RestHasNoDependency` | `Spec => []NoDependencyAtRest` |
| | `RemovesFindTheirId` | `Spec => []RemoveFindsId` |
| | `SchedulerImplementsQueue` | `Spec => ImplementsQueue` |
| `PollingProofs` | `TypeCorrect` | `Spec => []TypeOK` |
| | `CopiesAreAtOnePlace` | `Spec => []OnePlace` |
| | `NothingIsLost` | `Spec => []NothingLost` |
| | `ResultsAreOfThisConf` | `Spec => []ResultOfThisConf` |
| | `ResultsAreTakenOnce` | `Psv!Spec => []Psv!ResultOnce`, `Psv` is `Passive` |
| | `PidFileIsTrue` | `Dmn!Spec => []Dmn!PidFileTells`, `Dmn` is `Daemon` |
| | `ToldWhatWasWritten` | `Plg!Spec => []Plg!ToldAsWritten`, `Plg` is `Plugins` |
| `DispatcherProofs` | `TypeCorrect` | `Spec => []TypeOK` |
| | `LinksAndPartsAgree` | `Spec => []AssignmentIsMutual` |
| | `FlavorsTell` | `Spec => []FlavorTells` |
| `BroksProofs` | `TypeCorrect` | `Spec => []TypeOK` |
| | `ToldInOrder` | `Spec => ExternalInOrder` |
| | `InOrderWithoutBatch` | with `broks_batch = 0` an external module never hears an older version, with no exception |
| `ArbiterProofs` | `CommandsRunOnceInOrder` | `Spec => []RunOnceInOrder` |
| | `EveryHostIsInOnePart` | `Ct!Spec => []Ct!EveryHostOnce`, `Ct` is `Cut` |
| | `PartsAreSentComplete` | `Ct!Spec => []Ct!SentIsComplete` |
| `CommandsProofs` | `CommandsAreTold` | `Spec => []CommandsTell` |
| | `SwitchesSurvive` | `Spec => SurvivesReload` |
| | `CommentsLeaveMarked` | `Spec => OnlyMarkedLeave` |
| `ItemProofs` | `ImpactsAreMutual` | `Spec => []MutualImpacts` |
| | `StatesAreTold` | `Spec => []StateTells` |
| | `ProblemsFollowed` | `Spec => ProblemsAreFollowed` |
| | `SeriesAreKept` | `SpecN => []SeriesIsKept` |
| | `DowntimeTypes` | `SpecD => []TypeOKd` |
| | `TheDepthCounts` | `SpecD => []DepthCounts` |
| | `MaintenancesAreKnown` | `SpecD => []MaintenanceIsKnown` |

### SchedulerProofs

For every set of items, every dependency relation (cycles too), every set of ids, also an
infinite one, every set of internal items and every `max_checks`. None of the
properties is inductive: `ConsumedOnce` needs that only a check not yet consumed can be
`answered`, and so on back to its creation. `IInv` adds:

- `UnusedIds`: an id is `none` exactly when it is at or above `nextId`, so a new
  check overwrites nothing;
- `ConsumedState`: a check with a live status was not consumed;
- `CurrentCheck`: one check is being consumed, it is in the queue, and nothing but
  it is `waitdep`;
- `QueueStatus`: which passing statuses a check of the queue may have at which
  point of the tick. This carries the order of the recurrent works: zombies are gone
  before results are filed again, which is why a late result finds no check;
- `NewActions`, `InProgress`: what is created or in progress has a live status and
  the right item, and is not in the queue twice;
- `Waiting`: `depend_on` and `depend_on_me` agree for every check that can still be
  resolved or cleaned, and only a consumed check has something left in `depend_on`.

There is one lemma for each way in which actions change checks. The refinement maps
each action to the action of `CheckQueue` with the same effect, or to a stutter.

### PollingProofs

For every set of satellites and ids, every finite set of workers, any limits, and any
number of restarts, configurations, faults and early orphans. The scheduler is the
abstract `CheckQueue`, so together with `SchedulerImplementsQueue` this speaks of the
scheduler of the code. `IInv` adds:

- `UsedIds`, `CallsInHand`, `FiniteQueues`: what a call in hand carries at each point
  of the satellite's loop;
- `CopiesAreKnown`: of a copy that anybody holds, or may still deliver, it is known
  when it was handed out; if it is of an earlier configuration of this run, its check
  wants no result any more. `ResultOfThisConf` rests on it;
- `OneWhere`: the same as `OnePlace`, but for every copy and without cardinality;
- `Unharmed`, `Delivered`, `LastIsHeld`: before the first fault nobody is dead and no
  request is on its own, what `put_results` answered for is with the scheduler, and the
  last copy of a check at a poller is held by someone. `NothingLost` needs all three: `manage_returns`
  forgets a batch only after the answer.

*Passive satellites*, for any number of satellites, of things to do and of hand-outs
(`MaxGiven` a number). `PassiveInv` says that a copy is with one satellite at most, as work or
as a result (`Alone`), that what a satellite has was handed out and did not come back yet
(`HereIsNew`), and that what was not handed out did not come back (`Unborn`).

*Processes of a daemon*, for every finite set of pids and all setups. `PidFileTells`
speaks of the moments when nothing starts, and is far from inductive. `DaemonInv` adds what
leads there: as long as no stop or switch fell into a start, one process starts at a time
(`OneStarts`), while a successor starts nobody but its parent is there, and that one is going
(`ParentGoes`), a process that starts has the file open that is at the path (`FileIsOpen`),
and whoever starts while a daemon serves did not look into the file yet (`FileTells`). The
hypothesis `PidsAreFine` says that pids are finitely many and that `None` is none of them.

*Plugins*, for every set of plugins and any size of a pipe. What is told in the end is that of
one read at the end: the polls and the pipes do not matter. `PluginInv` says that what was read
are the bytes taken from the pipe, in order (`ReadIsTaken`), and that a plugin ends when all is
written (`EndsAtTheEnd`). It is said of texts of single bytes only: a character of two bytes
that a read cuts in half is lost as a whole (`Decoded`). The hypothesis `PluginsAreFine` says
that what a plugin writes is a list of texts.

### DispatcherProofs

For every list of schedulers and of satellites without repetition, every set of parts,
of flavors and of spares, and any number of faults. `AssignmentIsMutual` is not inductive:
`check_alive` asks for a part for a scheduler that is dead and still has one, and
`dispatch` gives parts to whoever asks. That `check_dispatch` takes the part back in between is
`NeedsPart`, with `VisitedOnce` (a link is visited once in a turn) and `FreeParts` (dispatch
visits parts nobody has). `FlavorTells` needs the same of the entries on their way
(`EntriesTell`), which rests on a new flavor being held by nobody (lemma
`NewFlavorIsNew`).

### BroksProofs

For any limits, batch, number of versions and faults. `ExternalInOrder` is an action
property: a module is never told an older version after a newer one, until `overtaken`
turns TRUE. It needs the order of everything on its way. `InLine` puts the places in a
row (what the module was told, its queue, `external_module_broks`, the queue for all
brokers, the broker's own) and says that versions never fall along it; `Past` that none
is newer than the host's; `Unregistered` that a broker the scheduler does not know has
nothing in its own queue, so that initial broks come after all others; `NotOvertaken`
that `broks_batch` 0 leaves nothing behind. The loop of `manage_broks` is a recursive function;
that it keeps the types of the modules' copies for batches of any length is
shown with the lemmas of `ListProofs`.

### ArbiterProofs

For every plan of commands, every list of parts and schedulers, and any number of faults.
Commands are numbered as they were given. Order and uniqueness at the schedulers are not
inductive by themselves. `IInv` adds `ModuleWay` and `ReceiverWay` (the lists on either way
rise, hold only commands given there, and a list further on holds earlier
ones) and `DoneBefore` (what was run is earlier than every similar command that waits). The
exception is the code's: when an answer is lost, the receiver sends the list of
that part again, and `again` remembers its commands.

*Cutting*, for every list of hosts and of realms, every finite set of schedulers, all relations of
hosts and any number of dead children. `CutInv` says that a pack which waits is of related
hosts, once, in the list of their realm (`PacksWait`), that a host given to a scheduler is of its
realm, given once and with its pack (`GivenOnce`), and that none is forgotten unless the
configuration is refused (`AllAreSeen`). That `get_least_loaded_scheduler_id` always answers
with a scheduler of the realm rests on `NotedIsLast`: what is noted of hosts is the last index
of the realm, or nothing. That parts of two realms do not meet is shown of `Offset`, by induction
over the realms. While no child died, the list of results holds the parts of the present
realm, and as many results as parts are these parts (`SendingGoesOn`).

`CutAssumption` says what the provers cannot compute: the packs that
`get_accessibility_packs` finds are the sets of related hosts, each once (`AreComponents`). Its
translation in `HostGraph` is recursive; that it does is checked by TLC (`PacksAreRelated`).
The rest of it is about names: realms are listed once, `None` is none of them, and a
host's realm and the default one are realms or `None`.

### CommandsProofs

For all hosts, services and contacts, every configuration of their switches, and any
number of commands, comments and reloads. The thirty handlers are first reduced to eleven
kinds of steps (lemma `Kinds`). `IInv` has four parts, each kept by every kind:

- `SwitchesOK`: `ModifiedTells`, `FlappingIsDetected` and `cls = flags`. The last is not
  among the properties, but without it a flag that is turned on could still be off in the classes,
  and turning it off would find nothing to do. `FlappingIsDetected` survives a reload
  because of `ModifiedTells`: a detection that a command turned on is marked, and so saved;
- `CommentsOK`: ids are unique, below `nextId` (`Old`), and those the
  scheduler knows are of an item or on their way out. The loop of `unacknowledge_problem` removes
  elements from the list it walks; `LoopRemovesPicks` shows that, for lists of any
  length, what it leaves are comments of that list, each once;
- `RestOK`, the types of what remains, with that of the history `silent`;
- `BrokTells`: a step tells of everyone it changes (`Told`), or changes of those it is about
  nothing but what may change without a brok (`ToldNobody`); of all others it leaves the status
  as it is (`SameStatus`). For an acknowledgement that ends this needs that ids are unique: the
  comments it marks are of no other item.

`CommentsStay`, on which `CommentsLeaveMarked` rests, is more than the property: a reload keeps the
comments that are not persistent too. `CommandsLast` has a third part, `MarkedIsDeleted`, which is
liveness and stays with TLC.

### ItemProofs

*States.* For all hosts, services, modulations, periods, attempts, volatile items and links
without a loop. `IInv` has four parts:

- `Sound`: problems and impacts know each other, an impact has a source, and a problem comes
  before its impacts in the order of the links (`Rank`). It says nothing of the moment at which
  it holds, so it is shown of each operator: `register_a_problem` is right for every depth of
  its calls (lemma `RegisterIsRight`, by induction on the depth and, inside, on the list of
  links), and what it finds is just what has the problem as a source from then on;
- `OwnInv`: what an item's state, type of state, attempts, id and acknowledgement allow
  together. `HardAfterAttempts` and `AcknowledgementEnds` are not inductive without it: an
  item that is fine must not be acknowledged, one that is HARD has its attempts exhausted;
- `ToldInv`: what contacts were last told of is the state the item is in, or the one before
  the phase of unknown states it is in. `ToldOnce` rests on it;
- `TypeInv`, the types of what remains.

`consume_state_result` is shown to keep them in the order of its code: the item is judged, its
case decided, the phase updated, the ids given (`Judged`, `Decided`, `Phased`, `Identified`).

*Notifications.* For all contacts, escalations and ids and any number of events, with the state
change of impacts off, as by default. `InvN` rests on `IInv` of the states: what contacts were
told of, and the id of the problem, decide which notifications there may be. That a series ends
with its problem is not inductive, since a SOFT recovery removes nothing from the queue;
`InSeries` says instead that a PROBLEM is in the queue only while the item is bad and HARD. What
a result asks for is one of eight lists (`Quiet`, `Recovered`, `Hardened`), and each operation
on the queue keeps `InSeries` (`AddKeeps`, `BuryKeeps`, `RemoveKeeps`, `CreateKeeps`,
`ScatterKeeps`, `HandledKeeps`).

*Downtimes.* For every set of items and every finite set of ids. `DepthCounts` is not inductive:
the counter moves by whole trees of triggered downtimes and by downtimes that may already be in
effect. `InvD` adds `FreshIds` (nobody knows an id that was not given out),
`NoTriggers` (while `regular`, a tree is one downtime), `MarkedIsOut` (what is going to be
removed does not count; with triggers only outside two steps of the tick) and
`VisitsKnown` (the loop over downtimes visits registered ones only).

### ListProofs

Facts about recursive functions on lists of any length. The library's induction theorems
have an operator parameter that the provers cannot instantiate; `Induction` states
induction with a set instead, from `Smallest` (a least counterexample). `Iteration` is
its form for functions that step through a list; `FilterIs`, `FilterType`, `FilterRises`,
`FilterElements` and `FilterAll` say that `Filter` is well defined, keeps the type, keeps rising
lists rising, gives all elements to be kept, each once, and leaves a list as it is when it keeps
all of it; `ThroughIs`, `ThroughInduction` and `ThroughKeeps` say the same of a loop through a
list.

### Only model-checked

- Liveness (`CheckComesBack`, `EndedIsRemoved`, `PartsAreServed`, `TellingGoesOn`,
  `MarkedIsDeleted`, `LeadIsSettled`, `ArbiterGoesOn`, `ExternalCatchesUp`,
  `ProgramsEnd`, `WorkGoesOn`): fairness and `ENABLED` are out of the prover's reach.
- Everything about `BusinessRules`, `ConfigReading`,
  `Dependencies`, `HostGraph`, `Macros`, `Objects`, `Realms`, `Services`, `TimePeriods`: they use
  `RECURSIVE` operators, or extend a module that does, and tlapm has no SMT backend there;
  what a recursive definition computes for every input needs induction over data.
- `Regenerator`: its linking folds over sets and streams of broks, whose result for every
  input needs induction over data, like the above. `Discovery`: the same of its rules and of what
  it writes. `Plugins`: that the cut of the output loses no text (`TextIsKept`) needs induction
  along its lines, and `BadEndIsTold` is about the plugins of the instance: one that writes
  nothing but a separator is told with no text. These have no theorem.

## Not modelled

- Checks of a maintenance period and checks that triggers raise (`Scheduler`).
- Several schedulers for one satellite; the number of workers started for the load.
- The configuration of receivers; macro, retention and module data sent with a part.
- Freshness, stalking and snapshot periods of items; the patterns that
  read date ranges and external commands from text; environment variables in file names.
- Contacts, commands and satellites in the regenerator; brok serialisation.
- Business rules that mix `&` and `|` on one level (`dependencynode.py:406` makes no tree of them);
  service overrides by a regular expression (`service.py:1523`); the child that serializes the whole
  configuration (`config.py:1412`).
- The database back end of the discovery; what retention modules write (not in the repository).
- Sockets, SSL and users of daemons: pure I/O. Web UI, command line, logging,
  statistics, vendored `bottle`: views and tools around the core.
